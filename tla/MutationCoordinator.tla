------------------------- MODULE MutationCoordinator -------------------------
(***************************************************************************)
(* Write admission: the class MutationCoordinator of                       *)
(* src/runtime/concurrency/mutation-coordinator.ts.                        *)
(*                                                                         *)
(* Builds reserve a place in one FIFO queue and later claim it; platform   *)
(* writes push a claimed entry; record writes and deletions never queue,   *)
(* they take the lease at once or are refused.  At most one lease is       *)
(* active.  Every method of the class runs to its end without an await, so *)
(* one call is one action.                                                 *)
(*                                                                         *)
(* A request is one call with its own fresh ticket, so a request enters    *)
(* the queue at most once.  The array `queue' of the code is the set queue *)
(* with the order ahead: ahead[c] is what the array held when c was        *)
(* pushed.  Entries leave the array by shift or splice and nothing is      *)
(* inserted, so that order is the order of the array.                      *)
(***************************************************************************)
EXTENDS FiniteSets

CONSTANTS Builds,      \* build requests (kind "build")
          Platforms,   \* platform writes (kind "platform")
          Records,     \* record writes (kind "record")
          Deletions,   \* capability deletions (kind "deletion")
          NoOne        \* no active lease

Queueable == Builds \cup Platforms
Short     == Records \cup Deletions
Requests  == Queueable \cup Short

ASSUME RequestsAssumption ==
    /\ Builds \cap Platforms = {}
    /\ Queueable \cap Short = {}
    /\ NoOne \notin Requests

VARIABLES queue,         \* requests in this.queue
          ahead,         \* what stood in the queue when a request was pushed
          lease,         \* owner of this.activeLease, or NoOne
          leaseAborted,  \* activeLeaseController.signal.aborted
          phase,         \* where each request stands
          clock,         \* QueueEntry.expiresAt of a reservation: not set, ahead, or past
          aborted        \* the caller's AbortSignal

vars == <<queue, ahead, lease, leaseAborted, phase, clock, aborted>>

Phases == {"idle", "reserved", "waiting", "holding", "released",
           "expired", "cancelled", "refused"}
Clocks == {"off", "ticking", "due"}

TypeOK ==
    /\ queue \subseteq Queueable
    /\ ahead \in [Requests -> SUBSET Queueable]
    /\ lease \in Requests \cup {NoOne}
    /\ leaseAborted \in BOOLEAN
    /\ phase \in [Requests -> Phases]
    /\ clock \in [Requests -> Clocks]
    /\ aborted \in [Requests -> BOOLEAN]

Init ==
    /\ queue = {}
    /\ ahead = [c \in Requests |-> {}]
    /\ lease = NoOne
    /\ leaseAborted = FALSE
    /\ phase = [c \in Requests |-> "idle"]
    /\ clock = [c \in Requests |-> "off"]
    /\ aborted = [c \in Requests |-> FALSE]

-----------------------------------------------------------------------------
(* pump and what it is made of *)

\* The reservations pruneExpiredReservations removes.
Due(q, ck) == {c \in q : ck[c] = "due"}

\* Mutation: the first waiting entry is admitted past an unclaimed head.
AdmissiblePassesTheHead(q, ah, ph) ==
    {c \in q : ph[c] = "waiting" /\ \A d \in ah[c] \cap q : ph[d] # "waiting"}

\* The head of the array, when its owner waits for it: an unclaimed build blocks the queue.
Admissible(q, ah, ph) == {c \in q : ah[c] \cap q = {} /\ ph[c] = "waiting"}

(* pump() over a queue q, an active lease l, phases ph and clocks ck: drop every reservation past
   its deadline, then admit the head if no lease is active.  A reservation pump drops pumps again
   before the loop goes on; the outcome is the same queue and the same head. *)
Pump(q, ah, l, ph, ck) ==
    LET due   == Due(q, ck)
        live  == q \ due
        admit == IF l = NoOne THEN Admissible(live, ah, ph) ELSE {}
    IN  /\ queue' = live \ admit
        /\ ahead' = ah
        /\ lease' = IF admit = {} THEN l ELSE CHOOSE c \in admit : TRUE
        /\ leaseAborted' = (leaseAborted /\ l # NoOne)
        /\ phase' = [c \in Requests |-> IF c \in due THEN "expired"
                                        ELSE IF c \in admit THEN "holding" ELSE ph[c]]
        /\ clock' = [c \in Requests |-> IF c \in due THEN "off" ELSE ck[c]]

\* Mutation: the splice forgets to pump.
RemoveQueuedWithoutPump(c, end) ==
    /\ queue' = queue \ {c}
    /\ phase' = [phase EXCEPT ![c] = end]
    /\ clock' = [clock EXCEPT ![c] = "off"]
    /\ UNCHANGED <<ahead, lease, leaseAborted>>

\* removeQueuedEntry: splice, reject the waiter with the given end, pump.
RemoveQueued(c, end) ==
    Pump(queue \ {c}, ahead, lease, [phase EXCEPT ![c] = end], [clock EXCEPT ![c] = "off"])

-----------------------------------------------------------------------------
(* the callers *)

\* Mutation: a reservation without its abandonment clock.
ReserveBuildWithoutClock(b) ==
    /\ phase[b] = "idle"
    /\ Pump(queue \cup {b}, [ahead EXCEPT ![b] = queue], lease,
            [phase EXCEPT ![b] = "reserved"], clock)
    /\ UNCHANGED aborted

\* reserveBuild: a place in the queue, with the abandonment clock running.
ReserveBuild(b) ==
    /\ phase[b] = "idle"
    /\ Pump(queue \cup {b}, [ahead EXCEPT ![b] = queue], lease,
            [phase EXCEPT ![b] = "reserved"], [clock EXCEPT ![b] = "ticking"])
    /\ UNCHANGED aborted

\* acquireBuild: the owner claims the place and the clock stops, unless its signal has already
\* aborted, which cancels at once.
AcquireBuild(b) ==
    /\ phase[b] = "reserved"
    /\ IF aborted[b]
         THEN RemoveQueued(b, "cancelled")
         ELSE Pump(queue, ahead, lease, [phase EXCEPT ![b] = "waiting"],
                   [clock EXCEPT ![b] = "off"])
    /\ UNCHANGED aborted

\* cancelBuild: only a queued reservation can be cancelled.
CancelBuild(b) ==
    /\ phase[b] \in {"reserved", "waiting"}
    /\ RemoveQueued(b, "cancelled")
    /\ UNCHANGED aborted

\* acquirePlatformWrite: pushed with its waiter attached, or cancelled at once.
AcquirePlatform(p) ==
    /\ phase[p] = "idle"
    /\ IF aborted[p]
         THEN Pump(queue, [ahead EXCEPT ![p] = queue], lease,
                   [phase EXCEPT ![p] = "cancelled"], clock)
         ELSE Pump(queue \cup {p}, [ahead EXCEPT ![p] = queue], lease,
                   [phase EXCEPT ![p] = "waiting"], clock)
    /\ UNCHANGED aborted

\* The caller's signal aborts: a waiting entry leaves the queue, anyone else only sees the flag
\* (the listener goes on with acquireBuild and off with admission).
AbortSignal(c) ==
    /\ ~aborted[c]
    /\ phase[c] \in {"idle", "reserved", "waiting", "holding"}
    /\ aborted' = [aborted EXCEPT ![c] = TRUE]
    /\ IF phase[c] = "waiting"
         THEN RemoveQueued(c, "cancelled")
         ELSE UNCHANGED <<queue, ahead, lease, leaseAborted, phase, clock>>

\* tryAcquireShort: after the prune, the lease only when nobody owns it and nobody queues for it.
\* A refused caller may come back.
Free(q) == lease = NoOne /\ q = {}
TryAcquireShort(s) ==
    /\ phase[s] \in {"idle", "refused"}
    /\ LET due == Due(queue, clock)
       IN  IF Free(queue \ due)
             THEN /\ queue' = {}
                  /\ lease' = s
                  /\ phase' = [c \in Requests |-> IF c = s THEN "holding"
                                                  ELSE IF c \in due THEN "expired" ELSE phase[c]]
                  /\ clock' = [c \in Requests |-> IF c \in due THEN "off" ELSE clock[c]]
                  /\ UNCHANGED <<ahead, leaseAborted>>
             ELSE Pump(queue, ahead, lease, [phase EXCEPT ![s] = "refused"], clock)
    /\ UNCHANGED aborted

\* release: only the exact active lease; a lease released twice changes nothing.
Release(c) ==
    /\ phase[c] \in {"holding", "released"}
    /\ IF lease = c
         THEN Pump(queue, ahead, NoOne, [phase EXCEPT ![c] = "released"], clock)
         ELSE UNCHANGED <<queue, ahead, lease, leaseAborted, phase, clock>>
    /\ UNCHANGED aborted

(* the clocks *)

\* Time passes a reservation's deadline.  Every reservation has the same TTL, so deadlines pass in
\* queue order.
DeadlinePasses(b) ==
    /\ b \in queue /\ clock[b] = "ticking"
    /\ \A c \in queue \cap ahead[b] : clock[c] # "ticking"
    /\ clock' = [clock EXCEPT ![b] = "due"]
    /\ UNCHANGED <<queue, ahead, lease, leaseAborted, phase, aborted>>

\* expireReservation, called by the reservation's own timer.
ReservationTimer(b) ==
    /\ b \in queue /\ clock[b] = "due"
    /\ RemoveQueued(b, "expired")
    /\ UNCHANGED aborted

\* Mutation: an expired lease is taken away from its owner.
LeaseTimerTakesTheLease ==
    /\ lease \in Builds /\ ~leaseAborted
    /\ Pump(queue, ahead, NoOne, [phase EXCEPT ![lease] = "expired"], clock)
    /\ UNCHANGED aborted

\* expireActiveLease: a build lease past its four hours is aborted, never taken away.
LeaseTimer ==
    /\ lease \in Builds /\ ~leaseAborted
    /\ leaseAborted' = TRUE
    /\ UNCHANGED <<queue, ahead, lease, phase, clock, aborted>>

-----------------------------------------------------------------------------
Next ==
    \/ \E b \in Builds : ReserveBuild(b) \/ AcquireBuild(b) \/ CancelBuild(b)
                         \/ DeadlinePasses(b) \/ ReservationTimer(b)
    \/ \E p \in Platforms : AcquirePlatform(p)
    \/ \E c \in Queueable : AbortSignal(c)
    \/ \E s \in Short : TryAcquireShort(s)
    \/ \E c \in Requests : Release(c)
    \/ LeaseTimer

(* Time passes, timers fire, and every owner releases in its finally.  No caller is ever obliged to
   claim, cancel or abort. *)
Fairness ==
    /\ \A b \in Builds : WF_vars(DeadlinePasses(b)) /\ WF_vars(ReservationTimer(b))
    /\ \A c \in Requests : WF_vars(Release(c))

Spec     == Init /\ [][Next]_vars
FairSpec == Spec /\ Fairness

-----------------------------------------------------------------------------
(* what the write admission promises *)

(* Every write of the process uses one read-write connection: a request believes it holds the
   lease exactly when it is the active lease, so two of them never do. (activateLease, release) *)
MutualExclusion == \A c \in Requests : phase[c] = "holding" <=> lease = c

(* No wakeup is lost: with no active lease the head of the queue is never an entry whose owner is
   already waiting, whatever combination of claim, abort, expiry and release led there; nothing
   would pump again. (pump and every caller of it) *)
NoLostWakeup == lease = NoOne => Admissible(queue, ahead, phase) = {}

(* First come, first served, across claims, aborts and expiries: whoever has been admitted left
   nobody who was queued before it still in the queue. (pump, removeQueuedEntry) *)
Fifo ==
    \A d \in Queueable : phase[d] \in {"holding", "released"} => ahead[d] \cap queue = {}

(* The abandonment clock bounds abandonment, not queueing: an owner that waits is never expired by
   it, however late the claim came. (acquireBuild stops both the timer and the deadline) *)
ClaimedNeverExpires ==
    [][\A b \in Builds : phase[b] = "waiting" => phase'[b] # "expired"]_vars

(* A caller whose signal aborted before admission is never handed the lease, also when the signal
   had aborted before the claim. (attachAbort) *)
AbortedNeverAdmitted ==
    [][\A c \in Queueable : aborted[c] /\ phase[c] # "holding" => phase'[c] # "holding"]_vars

(* The lease leaves its owner only because that owner released it: its expiry asks, a stale
   release or another request's end cannot take it. (release, expireActiveLease) *)
OnlyTheOwnerGivesUp ==
    [][lease # NoOne /\ lease' # lease => phase'[lease] = "released"]_vars

Lease == INSTANCE WriteLease WITH holder <- lease,
                                  done <- {c \in Requests : phase[c] = "released"}

(* The coordinator is one lease that passes from holder to holder: the queue, the reservations, the
   aborts and the clocks never show through it. (the whole class) *)
LeaseImplemented == Lease!Spec

(* Nobody waits for ever: a waiting owner is admitted or cancelled, even behind reservations whose
   owners never came. (reserveBuild's timer, release's pump) *)
Served ==
    \A c \in Queueable : phase[c] = "waiting" ~> phase[c] \in {"holding", "released", "cancelled"}
=============================================================================
