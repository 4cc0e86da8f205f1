----------------------------- MODULE MCReadGates -----------------------------
(***************************************************************************)
(* Two capabilities, one of which is deleted and created again, an         *)
(* operation over some of them and a question over all, for ReadGates and  *)
(* QuestionScope.                                                          *)
(***************************************************************************)
EXTENDS QuestionScope, TLC

CONSTANTS i1, i2, i3, a, b

MCCapabilityOf == (i1 :> a) @@ (i2 :> a) @@ (i3 :> b)
=============================================================================
