----------------------------- MODULE WriteLease -----------------------------
(***************************************************************************)
(* What MutationCoordinator promises the code that writes, without its     *)
(* queue, its reservations and its clocks: one holder at a time, who keeps *)
(* the lease until it gives it up itself, for good.                        *)
(***************************************************************************)
CONSTANTS Requests, NoOne

VARIABLES holder,   \* the request that holds the lease, or NoOne
          done      \* requests that held it and gave it up

Init == holder = NoOne /\ done = {}

\* Somebody who never held the lease gets it when it is free.
Grant(r) ==
    /\ holder = NoOne /\ r \notin done
    /\ holder' = r
    /\ done' = done

\* The holder gives it up, and in the same step it may pass to somebody else.
GiveUp(r) ==
    /\ holder = r
    /\ done' = done \cup {r}
    /\ holder' \in (Requests \ done') \cup {NoOne}

Next == \E r \in Requests : Grant(r) \/ GiveUp(r)
Spec == Init /\ [][Next]_<<holder, done>>
=============================================================================
