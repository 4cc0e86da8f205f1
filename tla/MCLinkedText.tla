----------------------------- MODULE MCLinkedText -----------------------------
(***************************************************************************)
(* Four fields, the least in which an edit meets its own text again: the   *)
(* record picks, for a1, the record that shows its a2 and, as d, its a1.   *)
(***************************************************************************)
EXTENDS LinkedText

MCCapOf  == [a1 |-> "A", a2 |-> "A", b |-> "B", d |-> "B"]
MCHomeOf == [r |-> "A", s |-> "B"]
=============================================================================
