------------------------ MODULE MCVersionPublication ------------------------
(* Four builds over two incarnations: a failed candidate, its successors at the same version, and a
   build of another capability. *)
EXTENDS VersionPublication, TLC

Symmetric == Permutations(Builds) \cup Permutations(Capabilities)
=============================================================================
