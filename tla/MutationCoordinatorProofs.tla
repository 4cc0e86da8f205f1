---------------------- MODULE MutationCoordinatorProofs ----------------------
(***************************************************************************)
(* Proofs that the write admission keeps its promises for any sets of      *)
(* requests.  Every operation ends in Pump, so the work is one lemma about *)
(* Pump: applied to a queue, phases and clocks that satisfy the invariant  *)
(* except for its NoLostWakeup part, it yields a state that satisfies all  *)
(* of it.                                                                  *)
(***************************************************************************)
EXTENDS MutationCoordinator, TLAPS

(* The invariant over any queue, order, lease, phases, clocks and signals. *)
Typed(q, ah, l, ph, ck) ==
    /\ q \subseteq Queueable
    /\ ah \in [Requests -> SUBSET Queueable]
    /\ l \in Requests \cup {NoOne}
    /\ ph \in [Requests -> Phases]
    /\ ck \in [Requests -> Clocks]

\* Exactly the reserved and the waiting are in the queue, and clocks run for the reserved only.
QueueOf(q, ph, ck) ==
    /\ q = {c \in Requests : ph[c] \in {"reserved", "waiting"}}
    /\ \A c \in Requests : ck[c] # "off" => ph[c] = "reserved"

\* Entries of the queue are ordered, and only requests that have been made are ahead of another.
Ordered(q, ah, ph) ==
    /\ \A c, d \in q : c # d => c \in ah[d] \/ d \in ah[c]
    /\ \A d \in Requests : \A c \in ah[d] : ph[c] # "idle"

Owner(l, ph) == \A c \in Requests : ph[c] = "holding" <=> l = c

Served1(q, ah, ph) ==
    \A d \in Queueable : ph[d] \in {"holding", "released"} => ah[d] \cap q = {}

Base(q, ah, l, ph, ck) ==
    /\ Typed(q, ah, l, ph, ck)
    /\ QueueOf(q, ph, ck)
    /\ Ordered(q, ah, ph)
    /\ Owner(l, ph)
    /\ Served1(q, ah, ph)

IInv ==
    /\ TypeOK
    /\ Base(queue, ahead, lease, phase, clock)
    /\ NoLostWakeup
    /\ \A c \in Requests : phase[c] = "waiting" => ~aborted[c]

-----------------------------------------------------------------------------
(* At most one entry is an admissible head. *)
LEMMA OneHead ==
    ASSUME NEW q, NEW ah, NEW ph, Ordered(q, ah, ph),
           NEW c \in Admissible(q, ah, ph), NEW d \in Admissible(q, ah, ph)
    PROVE  c = d
  BY DEF Ordered, Admissible

(* Pump keeps everything and restores NoLostWakeup. *)
LEMMA PumpKeeps ==
    ASSUME NEW q, NEW ah, NEW l, NEW ph, NEW ck,
           Base(q, ah, l, ph, ck), leaseAborted \in BOOLEAN,
           Pump(q, ah, l, ph, ck)
    PROVE  /\ Base(queue', ahead', lease', phase', clock')
           /\ leaseAborted' \in BOOLEAN
           /\ NoLostWakeup'
           /\ \A c \in Requests : phase'[c] = "waiting" => ph[c] = "waiting"
  <1> DEFINE due   == Due(q, ck)
             live  == q \ due
             admit == IF l = NoOne THEN Admissible(live, ah, ph) ELSE {}
  <1>1. Typed(q, ah, l, ph, ck) /\ QueueOf(q, ph, ck) /\ Ordered(q, ah, ph)
        /\ Owner(l, ph) /\ Served1(q, ah, ph)
    BY DEF Base
  <1>2. /\ queue' = live \ admit
        /\ ahead' = ah
        /\ lease' = IF admit = {} THEN l ELSE CHOOSE c \in admit : TRUE
        /\ leaseAborted' = (leaseAborted /\ l # NoOne)
        /\ phase' = [c \in Requests |-> IF c \in due THEN "expired"
                                        ELSE IF c \in admit THEN "holding" ELSE ph[c]]
        /\ clock' = [c \in Requests |-> IF c \in due THEN "off" ELSE ck[c]]
    BY DEF Pump
  <1>3. /\ \A c \in due : c \in Requests /\ ph[c] = "reserved"
        /\ due \subseteq q
    BY <1>1 DEF Due, QueueOf, Typed
  <1>4. /\ admit \subseteq live
        /\ \A c \in admit : c \in Queueable /\ ph[c] = "waiting" /\ ah[c] \cap live = {}
        /\ admit # {} => l = NoOne
    BY <1>1 DEF Admissible, Typed
  <1>5. \A c, d \in admit : c = d
    <2> SUFFICES ASSUME NEW c \in admit, NEW d \in admit PROVE c = d
      OBVIOUS
    <2>1. Ordered(live, ah, ph)
      BY <1>1 DEF Ordered
    <2> QED BY <2>1, OneHead
  <1>6. admit = {} \/ (lease' \in admit /\ admit = {lease'})
    BY <1>2, <1>5
  <1>7. Typed(queue', ahead', lease', phase', clock')
    BY <1>1, <1>2, <1>4, <1>6 DEF Typed, Phases, Clocks, Requests
  <1>8. QueueOf(queue', phase', clock')
    BY <1>1, <1>2, <1>3, <1>4 DEF Typed, QueueOf, Due, Requests
  <1>9. Ordered(queue', ahead', phase')
    BY <1>1, <1>2, <1>3, <1>4 DEF Typed, Ordered, Requests
  <1>10. Owner(lease', phase')
    BY <1>1, <1>2, <1>3, <1>4, <1>6, RequestsAssumption DEF Typed, Owner, Requests
  <1>11. Served1(queue', ahead', phase')
    BY <1>1, <1>2, <1>3, <1>4 DEF Typed, Served1, Requests
  <1>12. NoLostWakeup'
    <2> SUFFICES ASSUME lease' = NoOne, NEW c \in Admissible(queue', ahead', phase')
                 PROVE  FALSE
      BY DEF NoLostWakeup
    <2>1. l = NoOne /\ admit = {}
      BY <1>2, <1>4, <1>6, <1>7, RequestsAssumption DEF Typed, Requests
    <2>2. queue' = live /\ c \in live /\ ah[c] \cap live = {} /\ phase'[c] = "waiting"
      BY <1>2, <2>1 DEF Admissible
    <2>3. ph[c] = "waiting"
      BY <1>1, <1>2, <2>1, <2>2 DEF Typed, Requests
    <2> QED BY <2>1, <2>2, <2>3 DEF Admissible
  <1>13. \A c \in Requests : phase'[c] = "waiting" => ph[c] = "waiting"
    BY <1>2
  <1>14. leaseAborted' \in BOOLEAN
    BY <1>2
  <1> QED BY <1>7, <1>8, <1>9, <1>10, <1>11, <1>12, <1>13, <1>14 DEF Base

-----------------------------------------------------------------------------
(* Taking an entry out of the queue for good keeps Base, so removeQueuedEntry keeps it too. *)
LEMMA RemoveKeeps ==
    ASSUME IInv, NEW c \in queue, NEW end \in {"cancelled", "expired"}, RemoveQueued(c, end)
    PROVE  /\ Base(queue', ahead', lease', phase', clock')
           /\ leaseAborted' \in BOOLEAN
           /\ NoLostWakeup'
           /\ \A d \in Requests : phase'[d] = "waiting" => phase[d] = "waiting" /\ d # c
  <1> DEFINE q  == queue \ {c}
             ph == [phase EXCEPT ![c] = end]
             ck == [clock EXCEPT ![c] = "off"]
  <1>1. Typed(queue, ahead, lease, phase, clock) /\ QueueOf(queue, phase, clock)
        /\ Ordered(queue, ahead, phase) /\ Owner(lease, phase) /\ Served1(queue, ahead, phase)
    BY DEF IInv, Base
  <1>2. c \in Requests /\ phase[c] \in {"reserved", "waiting"}
    BY <1>1 DEF Typed, QueueOf, Requests
  <1>3. Typed(q, ahead, lease, ph, ck)
    BY <1>1 DEF Typed, Phases, Clocks
  <1>4. QueueOf(q, ph, ck)
    BY <1>1, <1>2 DEF Typed, QueueOf
  <1>5. Ordered(q, ahead, ph)
    BY <1>1, <1>2 DEF Typed, Ordered, Requests
  <1>6. Owner(lease, ph)
    BY <1>1, <1>2 DEF Typed, Owner
  <1>7. Served1(q, ahead, ph)
    BY <1>1, <1>2 DEF Typed, Served1, Requests
  <1>8. Base(q, ahead, lease, ph, ck)
    BY <1>3, <1>4, <1>5, <1>6, <1>7 DEF Base
  <1>9. leaseAborted \in BOOLEAN /\ Pump(q, ahead, lease, ph, ck)
    BY DEF IInv, TypeOK, RemoveQueued
  <1>10. \A d \in Requests : ph[d] = "waiting" => phase[d] = "waiting" /\ d # c
    BY <1>1 DEF Typed
  <1> HIDE DEF q, ph, ck
  <1>11. /\ Base(queue', ahead', lease', phase', clock')
         /\ leaseAborted' \in BOOLEAN
         /\ NoLostWakeup'
         /\ \A d \in Requests : phase'[d] = "waiting" => ph[d] = "waiting"
    BY <1>8, <1>9, PumpKeeps
  <1> QED BY <1>10, <1>11

(* What makes a state of the next step one of IInv, once Base and NoLostWakeup are known. *)
LEMMA Assemble ==
    ASSUME Base(queue', ahead', lease', phase', clock'), leaseAborted' \in BOOLEAN,
           NoLostWakeup', aborted' \in [Requests -> BOOLEAN],
           \A c \in Requests : phase'[c] = "waiting" => ~aborted'[c]
    PROVE  IInv'
  BY DEF IInv, TypeOK, Base, Typed

LEMMA ReserveBuildKeeps == ASSUME IInv, NEW b \in Builds, ReserveBuild(b) PROVE IInv'
  <1> DEFINE q  == queue \cup {b}
             ah == [ahead EXCEPT ![b] = queue]
             ph == [phase EXCEPT ![b] = "reserved"]
             ck == [clock EXCEPT ![b] = "ticking"]
  <1>1. Typed(queue, ahead, lease, phase, clock) /\ QueueOf(queue, phase, clock)
        /\ Ordered(queue, ahead, phase) /\ Owner(lease, phase) /\ Served1(queue, ahead, phase)
    BY DEF IInv, Base
  <1>2. b \in Requests /\ b \in Queueable /\ phase[b] = "idle" /\ b \notin queue
    BY <1>1 DEF ReserveBuild, QueueOf, Requests, Queueable
  <1>3. Typed(q, ah, lease, ph, ck)
    BY <1>1, <1>2 DEF Typed, Phases, Clocks
  <1>4. QueueOf(q, ph, ck)
    BY <1>1, <1>2 DEF Typed, QueueOf
  <1>5. Ordered(q, ah, ph)
    BY <1>1, <1>2 DEF Typed, Ordered, Requests, QueueOf
  <1>6. Owner(lease, ph)
    BY <1>1, <1>2 DEF Typed, Owner
  <1>7. Served1(q, ah, ph)
    BY <1>1, <1>2 DEF Typed, Served1, Ordered, Requests
  <1>8. Base(q, ah, lease, ph, ck)
    BY <1>3, <1>4, <1>5, <1>6, <1>7 DEF Base
  <1>9. leaseAborted \in BOOLEAN /\ Pump(q, ah, lease, ph, ck)
        /\ aborted' = aborted /\ aborted \in [Requests -> BOOLEAN]
        /\ \A c \in Requests : ph[c] = "waiting" => ~aborted[c]
    BY <1>1 DEF IInv, TypeOK, ReserveBuild, Typed
  <1> HIDE DEF q, ah, ph, ck
  <1>10. /\ Base(queue', ahead', lease', phase', clock')
         /\ leaseAborted' \in BOOLEAN
         /\ NoLostWakeup'
         /\ \A d \in Requests : phase'[d] = "waiting" => ph[d] = "waiting"
    BY <1>8, <1>9, PumpKeeps
  <1> QED BY <1>9, <1>10, Assemble

LEMMA AcquireBuildKeeps == ASSUME IInv, NEW b \in Builds, AcquireBuild(b) PROVE IInv'
  <1> DEFINE ph == [phase EXCEPT ![b] = "waiting"]
             ck == [clock EXCEPT ![b] = "off"]
  <1>1. Typed(queue, ahead, lease, phase, clock) /\ QueueOf(queue, phase, clock)
        /\ Ordered(queue, ahead, phase) /\ Owner(lease, phase) /\ Served1(queue, ahead, phase)
    BY DEF IInv, Base
  <1>2. b \in Requests /\ phase[b] = "reserved" /\ b \in queue
    BY <1>1 DEF AcquireBuild, QueueOf, Requests, Queueable
  <1>3. aborted' = aborted /\ aborted \in [Requests -> BOOLEAN]
        /\ \A c \in Requests : phase[c] = "waiting" => ~aborted[c]
    BY DEF IInv, TypeOK, AcquireBuild
  <1>4. CASE aborted[b]
    <2>1. RemoveQueued(b, "cancelled")
      BY <1>4 DEF AcquireBuild
    <2> QED BY <1>2, <1>3, <2>1, RemoveKeeps, Assemble
  <1>5. CASE ~aborted[b]
    <2>1. Typed(queue, ahead, lease, ph, ck)
      BY <1>1, <1>2 DEF Typed, Phases, Clocks
    <2>2. QueueOf(queue, ph, ck)
      BY <1>1, <1>2 DEF Typed, QueueOf
    <2>3. Ordered(queue, ahead, ph)
      BY <1>1, <1>2 DEF Typed, Ordered, Requests
    <2>4. Owner(lease, ph)
      BY <1>1, <1>2 DEF Typed, Owner
    <2>5. Served1(queue, ahead, ph)
      BY <1>1, <1>2 DEF Typed, Served1
    <2>6. Base(queue, ahead, lease, ph, ck)
      BY <2>1, <2>2, <2>3, <2>4, <2>5 DEF Base
    <2>7. leaseAborted \in BOOLEAN /\ Pump(queue, ahead, lease, ph, ck)
          /\ \A c \in Requests : ph[c] = "waiting" => ~aborted[c]
      BY <1>1, <1>3, <1>5 DEF IInv, TypeOK, AcquireBuild, Typed
    <2> HIDE DEF ph, ck
    <2>8. /\ Base(queue', ahead', lease', phase', clock')
          /\ leaseAborted' \in BOOLEAN
          /\ NoLostWakeup'
          /\ \A d \in Requests : phase'[d] = "waiting" => ph[d] = "waiting"
      BY <2>6, <2>7, PumpKeeps
    <2> QED BY <1>3, <2>7, <2>8, Assemble
  <1> QED BY <1>4, <1>5

LEMMA CancelBuildKeeps == ASSUME IInv, NEW b \in Builds, CancelBuild(b) PROVE IInv'
  <1>1. b \in queue /\ RemoveQueued(b, "cancelled")
    BY DEF IInv, Base, QueueOf, CancelBuild, Requests, Queueable
  <1>2. aborted' = aborted /\ aborted \in [Requests -> BOOLEAN]
        /\ \A c \in Requests : phase[c] = "waiting" => ~aborted[c]
    BY DEF IInv, TypeOK, CancelBuild
  <1> QED BY <1>1, <1>2, RemoveKeeps, Assemble

LEMMA ReservationTimerKeeps == ASSUME IInv, NEW b \in Builds, ReservationTimer(b) PROVE IInv'
  <1>1. b \in queue /\ RemoveQueued(b, "expired")
    BY DEF ReservationTimer
  <1>2. aborted' = aborted /\ aborted \in [Requests -> BOOLEAN]
        /\ \A c \in Requests : phase[c] = "waiting" => ~aborted[c]
    BY DEF IInv, TypeOK, ReservationTimer
  <1> QED BY <1>1, <1>2, RemoveKeeps, Assemble

LEMMA AcquirePlatformKeeps == ASSUME IInv, NEW p \in Platforms, AcquirePlatform(p) PROVE IInv'
  <1> DEFINE ah == [ahead EXCEPT ![p] = queue]
             q  == IF aborted[p] THEN queue ELSE queue \cup {p}
             ph == [phase EXCEPT ![p] = IF aborted[p] THEN "cancelled" ELSE "waiting"]
  <1>1. Typed(queue, ahead, lease, phase, clock) /\ QueueOf(queue, phase, clock)
        /\ Ordered(queue, ahead, phase) /\ Owner(lease, phase) /\ Served1(queue, ahead, phase)
    BY DEF IInv, Base
  <1>2. p \in Requests /\ p \in Queueable /\ phase[p] = "idle" /\ p \notin queue
    BY <1>1 DEF AcquirePlatform, QueueOf, Requests, Queueable
  <1>3. Typed(q, ah, lease, ph, clock)
    BY <1>1, <1>2 DEF Typed, Phases
  <1>4. QueueOf(q, ph, clock)
    BY <1>1, <1>2 DEF Typed, QueueOf
  <1>5. Ordered(q, ah, ph)
    BY <1>1, <1>2 DEF Typed, Ordered, Requests, QueueOf
  <1>6. Owner(lease, ph)
    BY <1>1, <1>2 DEF Typed, Owner
  <1>7. Served1(q, ah, ph)
    BY <1>1, <1>2 DEF Typed, Served1, Ordered, Requests
  <1>8. Base(q, ah, lease, ph, clock)
    BY <1>3, <1>4, <1>5, <1>6, <1>7 DEF Base
  <1>9. leaseAborted \in BOOLEAN /\ Pump(q, ah, lease, ph, clock)
        /\ aborted' = aborted /\ aborted \in [Requests -> BOOLEAN]
        /\ \A c \in Requests : ph[c] = "waiting" => ~aborted[c]
    BY <1>1 DEF IInv, TypeOK, AcquirePlatform, Typed
  <1> HIDE DEF q, ah, ph
  <1>10. /\ Base(queue', ahead', lease', phase', clock')
         /\ leaseAborted' \in BOOLEAN
         /\ NoLostWakeup'
         /\ \A d \in Requests : phase'[d] = "waiting" => ph[d] = "waiting"
    BY <1>8, <1>9, PumpKeeps
  <1> QED BY <1>9, <1>10, Assemble

LEMMA AbortSignalKeeps == ASSUME IInv, NEW c \in Queueable, AbortSignal(c) PROVE IInv'
  <1>1. c \in Requests /\ aborted' = [aborted EXCEPT ![c] = TRUE]
        /\ aborted \in [Requests -> BOOLEAN]
        /\ \A d \in Requests : phase[d] = "waiting" => ~aborted[d]
    BY DEF IInv, TypeOK, AbortSignal, Requests
  <1>2. CASE phase[c] = "waiting"
    <2>1. c \in queue /\ RemoveQueued(c, "cancelled")
      BY <1>1, <1>2 DEF IInv, Base, QueueOf, AbortSignal
    <2>2. /\ Base(queue', ahead', lease', phase', clock')
          /\ leaseAborted' \in BOOLEAN
          /\ NoLostWakeup'
          /\ \A d \in Requests : phase'[d] = "waiting" => phase[d] = "waiting" /\ d # c
      BY <2>1, RemoveKeeps
    <2> QED BY <1>1, <2>2, Assemble
  <1>3. CASE phase[c] # "waiting"
    <2>1. UNCHANGED <<queue, ahead, lease, leaseAborted, phase, clock>>
      BY <1>3 DEF AbortSignal
    <2> QED BY <1>1, <1>3, <2>1 DEF IInv, TypeOK, Base, NoLostWakeup
  <1> QED BY <1>2, <1>3

LEMMA TryAcquireShortKeeps == ASSUME IInv, NEW s \in Short, TryAcquireShort(s) PROVE IInv'
  <1> DEFINE due == Due(queue, clock)
  <1>1. Typed(queue, ahead, lease, phase, clock) /\ QueueOf(queue, phase, clock)
        /\ Ordered(queue, ahead, phase) /\ Owner(lease, phase) /\ Served1(queue, ahead, phase)
    BY DEF IInv, Base
  <1>2. s \in Requests /\ s \notin Queueable /\ phase[s] \in {"idle", "refused"} /\ s \notin queue
    BY <1>1, RequestsAssumption DEF TryAcquireShort, QueueOf, Requests
  <1>3. aborted' = aborted /\ aborted \in [Requests -> BOOLEAN]
        /\ leaseAborted \in BOOLEAN
        /\ \A c \in Requests : phase[c] = "waiting" => ~aborted[c]
    BY DEF IInv, TypeOK, TryAcquireShort
  <1>4. CASE Free(queue \ due)
    <2>1. /\ queue' = {} /\ lease' = s /\ ahead' = ahead /\ leaseAborted' = leaseAborted
          /\ phase' = [c \in Requests |-> IF c = s THEN "holding"
                                          ELSE IF c \in due THEN "expired" ELSE phase[c]]
          /\ clock' = [c \in Requests |-> IF c \in due THEN "off" ELSE clock[c]]
          /\ lease = NoOne /\ queue = due
      BY <1>4 DEF TryAcquireShort, Free, Due
    <2>2. Typed(queue', ahead', lease', phase', clock')
      BY <1>1, <1>2, <2>1 DEF Typed, Phases, Clocks
    <2>3. QueueOf(queue', phase', clock')
      BY <1>1, <1>2, <2>1 DEF Typed, QueueOf, Due
    <2>4. Ordered(queue', ahead', phase')
      BY <1>1, <2>1 DEF Typed, Ordered, Requests
    <2>5. Owner(lease', phase')
      BY <1>1, <1>2, <2>1, RequestsAssumption DEF Typed, Owner
    <2>6. Served1(queue', ahead', phase')
      BY <2>1 DEF Served1
    <2>7. NoLostWakeup'
      BY <1>2, <2>1, RequestsAssumption DEF NoLostWakeup
    <2>8. \A c \in Requests : phase'[c] = "waiting" => ~aborted'[c]
      BY <1>3, <2>1
    <2> QED BY <1>3, <2>1, <2>2, <2>3, <2>4, <2>5, <2>6, <2>7, <2>8, Assemble DEF Base
  <1>5. CASE ~Free(queue \ due)
    <2> DEFINE ph == [phase EXCEPT ![s] = "refused"]
    <2>1. Typed(queue, ahead, lease, ph, clock)
      BY <1>1, <1>2 DEF Typed, Phases
    <2>2. QueueOf(queue, ph, clock)
      BY <1>1, <1>2 DEF Typed, QueueOf
    <2>3. Ordered(queue, ahead, ph)
      BY <1>1, <1>2 DEF Typed, Ordered, Requests
    <2>4. Owner(lease, ph)
      BY <1>1, <1>2 DEF Typed, Owner
    <2>5. Served1(queue, ahead, ph)
      BY <1>1, <1>2 DEF Typed, Served1, Requests
    <2>6. Base(queue, ahead, lease, ph, clock)
      BY <2>1, <2>2, <2>3, <2>4, <2>5 DEF Base
    <2>7. Pump(queue, ahead, lease, ph, clock)
          /\ \A c \in Requests : ph[c] = "waiting" => ~aborted[c]
      BY <1>1, <1>3, <1>5 DEF TryAcquireShort, Typed
    <2> HIDE DEF ph
    <2>8. /\ Base(queue', ahead', lease', phase', clock')
          /\ leaseAborted' \in BOOLEAN
          /\ NoLostWakeup'
          /\ \A d \in Requests : phase'[d] = "waiting" => ph[d] = "waiting"
      BY <1>3, <2>6, <2>7, PumpKeeps
    <2> QED BY <1>3, <2>7, <2>8, Assemble
  <1> QED BY <1>4, <1>5

LEMMA ReleaseKeeps == ASSUME IInv, NEW c \in Requests, Release(c) PROVE IInv'
  <1> DEFINE ph == [phase EXCEPT ![c] = "released"]
  <1>1. Typed(queue, ahead, lease, phase, clock) /\ QueueOf(queue, phase, clock)
        /\ Ordered(queue, ahead, phase) /\ Owner(lease, phase) /\ Served1(queue, ahead, phase)
    BY DEF IInv, Base
  <1>2. aborted' = aborted /\ aborted \in [Requests -> BOOLEAN]
        /\ leaseAborted \in BOOLEAN
        /\ \A d \in Requests : phase[d] = "waiting" => ~aborted[d]
    BY DEF IInv, TypeOK, Release
  <1>3. CASE lease = c
    <2>0. phase[c] = "holding"
      BY <1>1, <1>3 DEF Owner
    <2>1. Typed(queue, ahead, NoOne, ph, clock)
      BY <1>1 DEF Typed, Phases
    <2>2. QueueOf(queue, ph, clock)
      BY <1>1, <2>0 DEF Typed, QueueOf
    <2>3. Ordered(queue, ahead, ph)
      BY <1>1 DEF Typed, Ordered, Requests
    <2>4. Owner(NoOne, ph)
      BY <1>1, <1>3, RequestsAssumption DEF Typed, Owner
    <2>5. Served1(queue, ahead, ph)
      BY <1>1, <2>0 DEF Typed, Served1, Requests
    <2>6. Base(queue, ahead, NoOne, ph, clock)
      BY <2>1, <2>2, <2>3, <2>4, <2>5 DEF Base
    <2>7. Pump(queue, ahead, NoOne, ph, clock)
          /\ \A d \in Requests : ph[d] = "waiting" => ~aborted[d]
      BY <1>1, <1>2, <1>3 DEF Release, Typed
    <2> HIDE DEF ph
    <2>8. /\ Base(queue', ahead', lease', phase', clock')
          /\ leaseAborted' \in BOOLEAN
          /\ NoLostWakeup'
          /\ \A d \in Requests : phase'[d] = "waiting" => ph[d] = "waiting"
      BY <1>2, <2>6, <2>7, PumpKeeps
    <2> QED BY <1>2, <2>7, <2>8, Assemble
  <1>4. CASE lease # c
    BY <1>4 DEF Release, IInv, TypeOK, Base, NoLostWakeup
  <1> QED BY <1>3, <1>4

LEMMA DeadlinePassesKeeps == ASSUME IInv, NEW b \in Builds, DeadlinePasses(b) PROVE IInv'
  <1>1. Typed(queue, ahead, lease, phase, clock) /\ QueueOf(queue, phase, clock)
    BY DEF IInv, Base
  <1>2. UNCHANGED <<queue, ahead, lease, leaseAborted, phase, aborted>>
        /\ clock' = [clock EXCEPT ![b] = "due"] /\ clock[b] = "ticking"
    BY DEF DeadlinePasses
  <1>3. QueueOf(queue', phase', clock')
    BY <1>1, <1>2 DEF Typed, QueueOf
  <1>4. Typed(queue', ahead', lease', phase', clock')
    BY <1>1, <1>2 DEF Typed, Clocks
  <1> QED BY <1>2, <1>3, <1>4 DEF IInv, TypeOK, Typed, Base, NoLostWakeup

LEMMA LeaseTimerKeeps == ASSUME IInv, LeaseTimer PROVE IInv'
  BY DEF LeaseTimer, IInv, TypeOK, Base, NoLostWakeup

-----------------------------------------------------------------------------
LEMMA InitIInv == Init => IInv
  BY RequestsAssumption DEF Init, IInv, TypeOK, Base, Typed, QueueOf, Ordered, Owner, Served1,
     NoLostWakeup, Admissible, Phases, Clocks

LEMMA NextIInv == IInv /\ [Next]_vars => IInv'
  <1> SUFFICES ASSUME IInv, [Next]_vars PROVE IInv'
    OBVIOUS
  <1>1. ASSUME NEW b \in Builds, ReserveBuild(b) PROVE IInv'
    BY <1>1, ReserveBuildKeeps
  <1>2. ASSUME NEW b \in Builds, AcquireBuild(b) PROVE IInv'
    BY <1>2, AcquireBuildKeeps
  <1>3. ASSUME NEW b \in Builds, CancelBuild(b) PROVE IInv'
    BY <1>3, CancelBuildKeeps
  <1>4. ASSUME NEW b \in Builds, DeadlinePasses(b) PROVE IInv'
    BY <1>4, DeadlinePassesKeeps
  <1>5. ASSUME NEW b \in Builds, ReservationTimer(b) PROVE IInv'
    BY <1>5, ReservationTimerKeeps
  <1>6. ASSUME NEW p \in Platforms, AcquirePlatform(p) PROVE IInv'
    BY <1>6, AcquirePlatformKeeps
  <1>7. ASSUME NEW c \in Queueable, AbortSignal(c) PROVE IInv'
    BY <1>7, AbortSignalKeeps
  <1>8. ASSUME NEW s \in Short, TryAcquireShort(s) PROVE IInv'
    BY <1>8, TryAcquireShortKeeps
  <1>9. ASSUME NEW c \in Requests, Release(c) PROVE IInv'
    BY <1>9, ReleaseKeeps
  <1>10. CASE LeaseTimer
    BY <1>10, LeaseTimerKeeps
  <1>11. CASE UNCHANGED vars
    BY <1>11 DEF vars, IInv, TypeOK, Base, NoLostWakeup
  <1> QED
    BY <1>1, <1>2, <1>3, <1>4, <1>5, <1>6, <1>7, <1>8, <1>9, <1>10, <1>11 DEF Next

LEMMA Invariance == Spec => []IInv
  BY InitIInv, NextIInv, PTL DEF Spec

(* The state of the coordinator is always well formed. *)
THEOREM TypeCorrect == Spec => []TypeOK
  <1>1. IInv => TypeOK
    BY DEF IInv
  <1> QED BY <1>1, Invariance, PTL

(* Two requests never hold the lease together. *)
THEOREM MutualExclusionHolds == Spec => []MutualExclusion
  <1>1. IInv => MutualExclusion
    BY DEF IInv, Base, Owner, MutualExclusion
  <1> QED BY <1>1, Invariance, PTL

(* A free lease is never left beside an admissible head. *)
THEOREM NoLostWakeupHolds == Spec => []NoLostWakeup
  <1>1. IInv => NoLostWakeup
    BY DEF IInv
  <1> QED BY <1>1, Invariance, PTL

(* Nobody is admitted past an earlier entry. *)
THEOREM FifoHolds == Spec => []Fifo
  <1>1. IInv => Fifo
    BY DEF IInv, Base, Served1, Fifo
  <1> QED BY <1>1, Invariance, PTL

-----------------------------------------------------------------------------
(* Action properties: what Pump can do to one request and to the lease. *)
LEMMA PumpSteps ==
    ASSUME NEW q, NEW ah, NEW l, NEW ph, NEW ck, Pump(q, ah, l, ph, ck)
    PROVE  /\ l # NoOne => lease' = l
           /\ \A c \in Requests : \/ phase'[c] = ph[c]
                                  \/ phase'[c] = "expired" /\ ck[c] = "due"
                                  \/ phase'[c] = "holding" /\ ph[c] = "waiting"
  BY DEF Pump, Due, Admissible

(* What any step does to the phase of one request that had been made: the only way to expire is a
   clock, the only way to the lease is to wait for it or to be short. *)
LEMMA PhaseSteps ==
    ASSUME IInv, Next, NEW c \in Requests
    PROVE  /\ phase'[c] = "expired" => phase[c] = "expired" \/ clock[c] = "due"
           /\ phase'[c] = "holding" /\ c \in Queueable
                => phase[c] = "holding" \/ ~aborted[c]
  <1>1. Typed(queue, ahead, lease, phase, clock) /\ QueueOf(queue, phase, clock)
        /\ \A d \in Requests : phase[d] = "waiting" => ~aborted[d]
    BY DEF IInv, Base
  <1>2. ASSUME NEW b \in Builds,
               ReserveBuild(b) \/ AcquireBuild(b) \/ CancelBuild(b) \/ ReservationTimer(b)
        PROVE  /\ phase'[c] = "expired" => phase[c] = "expired" \/ clock[c] = "due"
               /\ phase'[c] = "holding" => phase[c] = "holding" \/ ~aborted[c]
    <2>1. CASE ReserveBuild(b)
      <3> DEFINE ph == [phase EXCEPT ![b] = "reserved"]
                 ck == [clock EXCEPT ![b] = "ticking"]
      <3>1. Pump(queue \cup {b}, [ahead EXCEPT ![b] = queue], lease, ph, ck)
        BY <2>1 DEF ReserveBuild
      <3>2. /\ ph[c] = "waiting" => phase[c] = "waiting"
            /\ ph[c] \in {"expired", "holding"} => phase[c] = ph[c]
            /\ ck[c] = "due" => clock[c] = "due"
        BY <1>1 DEF Typed
      <3> HIDE DEF ph, ck
      <3> QED BY <1>1, <3>1, <3>2, PumpSteps
    <2>2. CASE AcquireBuild(b) /\ ~aborted[b]
      <3> DEFINE ph == [phase EXCEPT ![b] = "waiting"]
                 ck == [clock EXCEPT ![b] = "off"]
      <3>1. Pump(queue, ahead, lease, ph, ck)
        BY <2>2 DEF AcquireBuild
      <3>2. /\ ph[c] = "waiting" => ~aborted[c]
            /\ ph[c] \in {"expired", "holding"} => phase[c] = ph[c]
            /\ ck[c] = "due" => clock[c] = "due"
        BY <1>1, <2>2 DEF Typed
      <3> HIDE DEF ph, ck
      <3> QED BY <1>1, <3>1, <3>2, PumpSteps
    <2>3. ASSUME NEW end \in {"cancelled", "expired"}, RemoveQueued(b, end),
                 end = "expired" => clock[b] = "due"
          PROVE  /\ phase'[c] = "expired" => phase[c] = "expired" \/ clock[c] = "due"
                 /\ phase'[c] = "holding" => phase[c] = "holding" \/ ~aborted[c]
      <3> DEFINE ph == [phase EXCEPT ![b] = end]
                 ck == [clock EXCEPT ![b] = "off"]
      <3>1. Pump(queue \ {b}, ahead, lease, ph, ck)
        BY <2>3 DEF RemoveQueued
      <3>2. /\ ph[c] = "waiting" => phase[c] = "waiting"
            /\ ph[c] = "holding" => phase[c] = ph[c]
            /\ ph[c] = "expired" => phase[c] = "expired" \/ clock[c] = "due"
            /\ ck[c] = "due" => clock[c] = "due"
        BY <1>1, <2>3 DEF Typed
      <3> HIDE DEF ph, ck
      <3> QED BY <1>1, <3>1, <3>2, PumpSteps
    <2>4. CASE AcquireBuild(b) /\ aborted[b]
      BY <2>3, <2>4 DEF AcquireBuild
    <2>5. CASE CancelBuild(b)
      BY <2>3, <2>5 DEF CancelBuild
    <2>6. CASE ReservationTimer(b)
      BY <2>3, <2>6 DEF ReservationTimer
    <2> QED BY <1>2, <2>1, <2>2, <2>4, <2>5, <2>6
  <1>3. ASSUME NEW p \in Platforms, AcquirePlatform(p)
        PROVE  /\ phase'[c] = "expired" => phase[c] = "expired" \/ clock[c] = "due"
               /\ phase'[c] = "holding" => phase[c] = "holding" \/ ~aborted[c]
    <2> DEFINE ph == [phase EXCEPT ![p] = IF aborted[p] THEN "cancelled" ELSE "waiting"]
               q  == IF aborted[p] THEN queue ELSE queue \cup {p}
    <2>1. Pump(q, [ahead EXCEPT ![p] = queue], lease, ph, clock)
      BY <1>3 DEF AcquirePlatform
    <2>2. /\ ph[c] = "waiting" => ~aborted[c]
          /\ ph[c] \in {"expired", "holding"} => phase[c] = ph[c]
      BY <1>1 DEF Typed
    <2> HIDE DEF ph, q
    <2> QED BY <1>1, <2>1, <2>2, PumpSteps
  <1>4. ASSUME NEW d \in Queueable, AbortSignal(d)
        PROVE  /\ phase'[c] = "expired" => phase[c] = "expired" \/ clock[c] = "due"
               /\ phase'[c] = "holding" => phase[c] = "holding" \/ ~aborted[c]
    <2> DEFINE ph == [phase EXCEPT ![d] = "cancelled"]
               ck == [clock EXCEPT ![d] = "off"]
    <2>1. CASE phase[d] = "waiting"
      <3>1. Pump(queue \ {d}, ahead, lease, ph, ck)
        BY <1>4, <2>1 DEF AbortSignal, RemoveQueued
      <3>2. /\ ph[c] = "waiting" => phase[c] = "waiting"
            /\ ph[c] \in {"expired", "holding"} => phase[c] = ph[c]
            /\ ck[c] = "due" => clock[c] = "due"
        BY <1>1 DEF Typed
      <3> HIDE DEF ph, ck
      <3> QED BY <1>1, <3>1, <3>2, PumpSteps
    <2>2. CASE phase[d] # "waiting"
      BY <1>4, <2>2 DEF AbortSignal
    <2> QED BY <2>1, <2>2
  <1>5. ASSUME NEW s \in Short, TryAcquireShort(s)
        PROVE  /\ phase'[c] = "expired" => phase[c] = "expired" \/ clock[c] = "due"
               /\ phase'[c] = "holding" /\ c \in Queueable => phase[c] = "holding" \/ ~aborted[c]
    <2> DEFINE ph == [phase EXCEPT ![s] = "refused"]
    <2>1. CASE Free(queue \ Due(queue, clock))
      BY <1>1, <1>5, <2>1, RequestsAssumption DEF TryAcquireShort, Due
    <2>2. CASE ~Free(queue \ Due(queue, clock))
      <3>1. Pump(queue, ahead, lease, ph, clock)
        BY <1>5, <2>2 DEF TryAcquireShort
      <3>2. /\ ph[c] = "waiting" => phase[c] = "waiting"
            /\ ph[c] \in {"expired", "holding"} => phase[c] = ph[c]
        BY <1>1 DEF Typed
      <3> HIDE DEF ph
      <3> QED BY <1>1, <3>1, <3>2, PumpSteps
    <2> QED BY <2>1, <2>2
  <1>6. ASSUME NEW d \in Requests, Release(d)
        PROVE  /\ phase'[c] = "expired" => phase[c] = "expired" \/ clock[c] = "due"
               /\ phase'[c] = "holding" => phase[c] = "holding" \/ ~aborted[c]
    <2> DEFINE ph == [phase EXCEPT ![d] = "released"]
    <2>1. CASE lease = d
      <3>1. Pump(queue, ahead, NoOne, ph, clock)
        BY <1>6, <2>1 DEF Release
      <3>2. /\ ph[c] = "waiting" => phase[c] = "waiting"
            /\ ph[c] \in {"expired", "holding"} => phase[c] = ph[c]
        BY <1>1 DEF Typed
      <3> HIDE DEF ph
      <3> QED BY <1>1, <3>1, <3>2, PumpSteps
    <2>2. CASE lease # d
      BY <1>6, <2>2 DEF Release
    <2> QED BY <2>1, <2>2
  <1>7. CASE (\E b \in Builds : DeadlinePasses(b)) \/ LeaseTimer
    BY <1>7 DEF DeadlinePasses, LeaseTimer
  <1> QED BY <1>2, <1>3, <1>4, <1>5, <1>6, <1>7 DEF Next

(* An owner that waits is never expired by the abandonment clock. *)
THEOREM ClaimedNeverExpiresHolds == Spec => ClaimedNeverExpires
  <1>1. IInv /\ [Next]_vars
        => [\A b \in Builds : phase[b] = "waiting" => phase'[b] # "expired"]_vars
    <2> SUFFICES ASSUME IInv, Next, NEW b \in Builds, phase[b] = "waiting"
                 PROVE  phase'[b] # "expired"
      OBVIOUS
    <2>1. b \in Requests /\ clock[b] = "off"
      BY DEF IInv, TypeOK, Base, QueueOf, Requests, Queueable, Clocks
    <2> QED BY <2>1, PhaseSteps
  <1> QED BY <1>1, Invariance, PTL DEF Spec, ClaimedNeverExpires

(* A caller whose signal has aborted is never admitted. *)
THEOREM AbortedNeverAdmittedHolds == Spec => AbortedNeverAdmitted
  <1>1. IInv /\ [Next]_vars
        => [\A c \in Queueable : aborted[c] /\ phase[c] # "holding" => phase'[c] # "holding"]_vars
    <2> SUFFICES ASSUME IInv, Next, NEW c \in Queueable, aborted[c], phase[c] # "holding"
                 PROVE  phase'[c] # "holding"
      OBVIOUS
    <2>1. c \in Requests
      BY DEF Requests
    <2> QED BY <2>1, PhaseSteps
  <1> QED BY <1>1, Invariance, PTL DEF Spec, AbortedNeverAdmitted

-----------------------------------------------------------------------------
(* Refinement: who gives the lease up. *)

(* Pump neither releases nor forgets a release, as long as clocks run for reservations only. *)
LEMMA PumpReleases ==
    ASSUME NEW q, NEW ah, NEW ph, NEW ck, Pump(q, ah, lease, ph, ck),
           \A c \in Requests : ck[c] = "due" => ph[c] # "released",
           \A c \in Requests : ph[c] = "released" <=> phase[c] = "released"
    PROVE  /\ \A c \in Requests : phase'[c] = "released" <=> phase[c] = "released"
           /\ lease # NoOne => lease' = lease
  <1>1. \A c \in Requests : \/ phase'[c] = ph[c]
                            \/ phase'[c] = "expired" /\ ck[c] = "due"
                            \/ phase'[c] = "holding" /\ ph[c] = "waiting"
    BY PumpSteps
  <1>2. lease # NoOne => lease' = lease
    BY PumpSteps
  <1> QED BY <1>1, <1>2

(* Every step but a release leaves the released as they were and a held lease with its holder. *)
LEMMA OthersKeepLease ==
    ASSUME IInv, Next, \A c \in Requests : ~Release(c)
    PROVE  /\ \A c \in Requests : phase'[c] = "released" <=> phase[c] = "released"
           /\ lease # NoOne => lease' = lease
  <1> DEFINE Kept == /\ \A c \in Requests : phase'[c] = "released" <=> phase[c] = "released"
                     /\ lease # NoOne => lease' = lease
  <1>1. /\ Typed(queue, ahead, lease, phase, clock) /\ QueueOf(queue, phase, clock)
        /\ \A c \in Requests : clock[c] = "due" => phase[c] = "reserved"
    BY DEF IInv, Base, QueueOf
  <1>2. ASSUME NEW c \in Requests, NEW end \in {"cancelled", "expired"}, RemoveQueued(c, end),
               phase[c] \in {"reserved", "waiting"}
        PROVE  Kept
    <2> DEFINE ph == [phase EXCEPT ![c] = end]
               ck == [clock EXCEPT ![c] = "off"]
    <2>1. Pump(queue \ {c}, ahead, lease, ph, ck)
      BY <1>2 DEF RemoveQueued
    <2>2. \A d \in Requests : /\ ck[d] = "due" => ph[d] # "released"
                              /\ ph[d] = "released" <=> phase[d] = "released"
      BY <1>1, <1>2 DEF Typed
    <2> HIDE DEF ph, ck
    <2> QED BY <2>1, <2>2, PumpReleases
  <1>3. ASSUME NEW b \in Builds, ReserveBuild(b) PROVE Kept
    <2> DEFINE ph == [phase EXCEPT ![b] = "reserved"]
               ck == [clock EXCEPT ![b] = "ticking"]
    <2>1. Pump(queue \cup {b}, [ahead EXCEPT ![b] = queue], lease, ph, ck) /\ phase[b] = "idle"
      BY <1>3 DEF ReserveBuild
    <2>2. \A d \in Requests : /\ ck[d] = "due" => ph[d] # "released"
                              /\ ph[d] = "released" <=> phase[d] = "released"
      BY <1>1, <2>1 DEF Typed
    <2> HIDE DEF ph, ck
    <2> QED BY <2>1, <2>2, PumpReleases
  <1>4. ASSUME NEW b \in Builds, AcquireBuild(b) PROVE Kept
    <2> DEFINE ph == [phase EXCEPT ![b] = "waiting"]
               ck == [clock EXCEPT ![b] = "off"]
    <2>1. b \in Requests /\ phase[b] = "reserved"
      BY <1>4 DEF AcquireBuild, Requests, Queueable
    <2>2. CASE aborted[b]
      BY <1>2, <1>4, <2>1, <2>2 DEF AcquireBuild
    <2>3. CASE ~aborted[b]
      <3>1. Pump(queue, ahead, lease, ph, ck)
        BY <1>4, <2>3 DEF AcquireBuild
      <3>2. \A d \in Requests : /\ ck[d] = "due" => ph[d] # "released"
                                /\ ph[d] = "released" <=> phase[d] = "released"
        BY <1>1, <2>1 DEF Typed
      <3> HIDE DEF ph, ck
      <3> QED BY <3>1, <3>2, PumpReleases
    <2> QED BY <2>2, <2>3
  <1>5. ASSUME NEW b \in Builds, CancelBuild(b) \/ ReservationTimer(b) PROVE Kept
    <2>1. b \in Requests
      BY DEF Requests, Queueable
    <2> QED BY <1>1, <1>2, <1>5, <2>1 DEF CancelBuild, ReservationTimer, QueueOf
  <1>6. ASSUME NEW p \in Platforms, AcquirePlatform(p) PROVE Kept
    <2> DEFINE ph == [phase EXCEPT ![p] = IF aborted[p] THEN "cancelled" ELSE "waiting"]
               q  == IF aborted[p] THEN queue ELSE queue \cup {p}
    <2>1. Pump(q, [ahead EXCEPT ![p] = queue], lease, ph, clock) /\ phase[p] = "idle"
      BY <1>6 DEF AcquirePlatform
    <2>2. \A d \in Requests : /\ clock[d] = "due" => ph[d] # "released"
                              /\ ph[d] = "released" <=> phase[d] = "released"
      BY <1>1, <2>1 DEF Typed
    <2> HIDE DEF ph, q
    <2> QED BY <2>1, <2>2, PumpReleases
  <1>7. ASSUME NEW c \in Queueable, AbortSignal(c) PROVE Kept
    <2>1. c \in Requests
      BY DEF Requests
    <2> QED BY <1>2, <1>7, <2>1 DEF AbortSignal
  <1>8. ASSUME NEW s \in Short, TryAcquireShort(s) PROVE Kept
    <2> DEFINE ph == [phase EXCEPT ![s] = "refused"]
    <2>1. phase[s] \in {"idle", "refused"} /\ s \in Requests
      BY <1>8 DEF TryAcquireShort, Requests
    <2>2. CASE Free(queue \ Due(queue, clock))
      BY <1>1, <1>8, <2>1, <2>2 DEF TryAcquireShort, Free, Due
    <2>3. CASE ~Free(queue \ Due(queue, clock))
      <3>1. Pump(queue, ahead, lease, ph, clock)
        BY <1>8, <2>3 DEF TryAcquireShort
      <3>2. \A d \in Requests : /\ clock[d] = "due" => ph[d] # "released"
                                /\ ph[d] = "released" <=> phase[d] = "released"
        BY <1>1, <2>1 DEF Typed
      <3> HIDE DEF ph
      <3> QED BY <3>1, <3>2, PumpReleases
    <2> QED BY <2>2, <2>3
  <1>9. ASSUME (\E b \in Builds : DeadlinePasses(b)) \/ LeaseTimer PROVE Kept
    BY <1>9 DEF DeadlinePasses, LeaseTimer
  <1> HIDE DEF Kept
  <1>10. Kept
    BY <1>3, <1>4, <1>5, <1>6, <1>7, <1>8, <1>9 DEF Next
  <1> QED BY <1>10 DEF Kept

(* A release releases its own request and nobody else. *)
LEMMA ReleaseReleases ==
    ASSUME IInv, NEW r \in Requests, Release(r)
    PROVE  \/ UNCHANGED <<lease, phase>>
           \/ /\ lease = r
              /\ \A c \in Requests : phase'[c] = "released" <=> phase[c] = "released" \/ c = r
  <1>1. /\ Typed(queue, ahead, lease, phase, clock)
        /\ \A c \in Requests : clock[c] = "due" => phase[c] = "reserved"
    BY DEF IInv, Base, QueueOf
  <1>2. CASE lease # r
    BY <1>2 DEF Release
  <1>3. CASE lease = r
    <2> DEFINE ph == [phase EXCEPT ![r] = "released"]
    <2>1. Pump(queue, ahead, NoOne, ph, clock) /\ phase[r] \in {"holding", "released"}
      BY <1>3 DEF Release
    <2>2. \A c \in Requests : /\ clock[c] = "due" => ph[c] # "released"
                              /\ ph[c] = "released" <=> phase[c] = "released" \/ c = r
      BY <1>1, <2>1 DEF Typed
    <2> HIDE DEF ph
    <2>3. \A c \in Requests : \/ phase'[c] = ph[c]
                              \/ phase'[c] = "expired" /\ clock[c] = "due"
                              \/ phase'[c] = "holding" /\ ph[c] = "waiting"
      BY <2>1, PumpSteps
    <2> QED BY <1>3, <2>2, <2>3
  <1> QED BY <1>2, <1>3

(* The lease leaves its owner only because that owner released it. *)
THEOREM OnlyTheOwnerGivesUpHolds == Spec => OnlyTheOwnerGivesUp
  <1>1. IInv /\ [Next]_vars
        => [lease # NoOne /\ lease' # lease => phase'[lease] = "released"]_vars
    <2> SUFFICES ASSUME IInv, Next, lease # NoOne, lease' # lease
                 PROVE  phase'[lease] = "released"
      OBVIOUS
    <2> QED BY OthersKeepLease, ReleaseReleases DEF IInv, TypeOK
  <1> QED BY <1>1, Invariance, PTL DEF Spec, OnlyTheOwnerGivesUp

(* The coordinator implements WriteLease. *)
THEOREM ImplementsWriteLease == Spec => LeaseImplemented
  <1> DEFINE done == {c \in Requests : phase[c] = "released"}
  <1>1. Init => Lease!Init
    BY DEF Init, Lease!Init
  <1>2. IInv /\ IInv' /\ [Next]_vars => [Lease!Next]_<<lease, done>>
    <2> SUFFICES ASSUME IInv, IInv', [Next]_vars
                 PROVE  Lease!Next \/ UNCHANGED <<lease, done>>
      OBVIOUS
    <2>1. CASE UNCHANGED vars
      BY <2>1 DEF vars
    <2>2. /\ NoOne \notin Requests
          /\ lease \in Requests \cup {NoOne} /\ lease' \in Requests \cup {NoOne}
          /\ lease' # NoOne => lease' \notin done'
      BY RequestsAssumption DEF IInv, TypeOK, Base, Owner
    <2>3. CASE Next /\ \A c \in Requests : ~Release(c)
      <3>1. done' = done /\ (lease # NoOne => lease' = lease)
        BY <2>3, OthersKeepLease
      <3>2. CASE lease' = lease
        BY <3>1, <3>2
      <3>3. CASE lease' # lease
        <4>1. lease = NoOne /\ lease' \in Requests /\ lease' \notin done
          BY <2>2, <3>1, <3>3
        <4>2. PICK r \in Requests : r = lease'
          BY <4>1
        <4>3. Lease!Grant(r)
          BY <3>1, <4>1, <4>2 DEF Lease!Grant
        <4> QED BY <4>3 DEF Lease!Next
      <3> QED BY <3>2, <3>3
    <2>4. ASSUME NEW r \in Requests, Release(r)
          PROVE  Lease!Next \/ UNCHANGED <<lease, done>>
      <3>1. CASE UNCHANGED <<lease, phase>>
        BY <3>1
      <3>2. CASE /\ lease = r
                 /\ \A c \in Requests :
                        phase'[c] = "released" <=> phase[c] = "released" \/ c = r
        <4>1. done' = done \cup {r}
          BY <3>2
        <4>2. lease' \in (Requests \ done') \cup {NoOne}
          BY <2>2
        <4> HIDE DEF done
        <4>3. Lease!GiveUp(r)
          BY <3>2, <4>1, <4>2 DEF Lease!GiveUp, done
        <4> QED BY <4>3 DEF Lease!Next
      <3> QED BY <2>4, <3>1, <3>2, ReleaseReleases
    <2> QED BY <2>1, <2>3, <2>4
  <1> QED BY <1>1, <1>2, Invariance, PTL DEF Spec, LeaseImplemented, Lease!Spec
=============================================================================
