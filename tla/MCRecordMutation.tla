--------------------------- MODULE MCRecordMutation ---------------------------
(***************************************************************************)
(* How a save's transaction stands and what it writes into the links,      *)
(* explored one at a time: a committed save is one step (AllOrNothing,     *)
(* NoForeignWrite), which is how LinkedText models it.  The saves of the   *)
(* first part meet an empty desk; the second begins before any of them.    *)
(***************************************************************************)
EXTENDS RecordMutation, LinkedText

MCCapOf  == [a1 |-> "A", a2 |-> "A", b |-> "B"]
MCHomeOf == [r |-> "A", s |-> "B", s2 |-> "B"]

NoSaveYet == accepted = {} /\ \A r \in Requests : route[r] = "idle"

MCNext ==
    \/ Next /\ there = {} /\ UNCHANGED linkVars
    \/ LinkNext /\ NoSaveYet /\ UNCHANGED vars

MCInit == Init /\ LinkInit

MCSpec == MCInit /\ [][MCNext]_<<vars, linkVars>> /\ Fairness
=============================================================================
