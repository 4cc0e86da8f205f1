------------------------ MODULE MCCapabilityDeletion ------------------------
(***************************************************************************)
(* Two lives of one capability, and another one that may read it, for      *)
(* CapabilityDeletion.                                                     *)
(***************************************************************************)
EXTENDS CapabilityDeletion, TLC

CONSTANTS i1, i2, i3, a, b, f1, f3

MCCapabilityOf == (i1 :> a) @@ (i2 :> a) @@ (i3 :> b)
MCOwnerOf      == (f1 :> i1) @@ (f3 :> i3)
=============================================================================
