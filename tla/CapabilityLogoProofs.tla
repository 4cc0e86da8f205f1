------------------------ MODULE CapabilityLogoProofs ------------------------
(***************************************************************************)
(* Proofs about CapabilityLogo, for any number of incarnations, requests   *)
(* and allowed attempts.                                                   *)
(*                                                                         *)
(* The argument: a request past its claim owns the generating status of    *)
(* its row (RequestInv), so no second one gets there; it owns the logo     *)
(* path too, so a row goes back to absent only with a free path.  The one  *)
(* other writer is recovery, whose look may be old when its write comes:   *)
(* the count of attempts only rises, so a look that still matches was      *)
(* followed by no claim (PassInv).  A row that was ever served has left    *)
(* generating for good, and with it every writer of its drawing (FaceInv). *)
(***************************************************************************)
EXTENDS CapabilityLogo, FiniteSetTheorems, TLAPS

Past(r) == pc[r] \in Won

GateInv == \A c \in Incarnations : gate[c] = "retired" <=> life[c] # "active"

AloneInv == \A r, q \in Requests : Past(r) /\ Past(q) /\ on[r] = on[q] => r = q

RequestInv ==
    \A r \in Requests :
        /\ pc[r] # "idle" => on[r] \in Incarnations
        /\ Past(r) => claim[r] \in Attempts
        /\ Past(r) /\ life[on[r]] = "active" => status[on[r]] = "generating"
        /\ Past(r) /\ life[on[r]] = "active" /\ ~installed[r] => ~Occupied(on[r])
        /\ pc[r] = "claimed" => paid[on[r]] < attempts[on[r]]
        /\ pc[r] = "drawing" => life[on[r]] = "active"
        /\ installed[r] => pc[r] = "settling"

CountInv == \A c \in Incarnations : paid[c] <= attempts[c] /\ seen[c].attempts <= attempts[c]

FreeInv ==
    \A c \in Incarnations : life[c] = "active" /\ status[c] = "absent" => ~Occupied(c)

FaceInv ==
    \A c \in Incarnations :
        /\ shown[c] # {} => status[c] \in {"present", "abandoned"}
        /\ \A a, b \in shown[c] : a = b
        /\ status[c] = "present" /\ drawing[c] # 0 => shown[c] \subseteq {drawing[c]}

PassInv ==
    moving # NoOne =>
        /\ pass
        /\ action \in {"accepted", "released", "abandoned"} => seen[moving].status = "generating"
        /\ action = "lost" => seen[moving].status = "present"
        /\ action # "none"
        /\ action = "released" /\ attempts[moving] = seen[moving].attempts =>
              /\ ~Occupied(moving)
              /\ \A r \in Requests : on[r] = moving => ~Past(r)

IInv ==
    /\ TypeOK /\ GateInv /\ AloneInv /\ RequestInv /\ CountInv
    /\ FreeInv /\ NothingRecreated /\ FaceInv /\ PassInv

-----------------------------------------------------------------------------
(* What the invariant says of every drawing and every call. *)
LEMMA Promises == IInv => OneDrawing /\ OneFace /\ NeverBlocked /\ PaidWithin /\ NothingRecreated
  <1> SUFFICES ASSUME IInv
               PROVE  OneDrawing /\ OneFace /\ NeverBlocked /\ PaidWithin /\ NothingRecreated
    OBVIOUS
  <1>1. ASSUME NEW S, \A a, b \in S : a = b
        PROVE  Cardinality(S) <= 1
    <2>1. CASE S = {}
      BY <2>1, FS_EmptySet
    <2>2. CASE S # {}
      <3>1. PICK x : S = {x}
        BY <1>1, <2>2
      <3>2. Cardinality({x}) = 1
        BY FS_Singleton
      <3> QED BY <3>1, <3>2
    <2> QED BY <2>1, <2>2
  <1>2. OneDrawing
    BY <1>1 DEF OneDrawing, Winners, IInv, AloneInv, Past
  <1>3. OneFace
    BY <1>1 DEF OneFace, IInv, FaceInv
  <1>4. NeverBlocked
    BY DEF NeverBlocked, IInv, FreeInv
  <1>5. PaidWithin
    BY AttemptsAssumption DEF PaidWithin, IInv, CountInv, TypeOK
  <1> QED BY <1>2, <1>3, <1>4, <1>5 DEF IInv

LEMMA Initially == Init => IInv
  <1> SUFFICES ASSUME Init PROVE IInv
    OBVIOUS
  <1>1. TypeOK
    <2>1. {pass, over} \subseteq BOOLEAN
      BY DEF Init
    <2>2. 0 \in 0 .. MaxAttempts
      BY AttemptsAssumption
    <2> QED BY <2>1, <2>2 DEF Init, TypeOK, Statuses, Trying
  <1>2. /\ GateInv /\ AloneInv /\ RequestInv /\ CountInv /\ FreeInv
        /\ NothingRecreated /\ FaceInv /\ PassInv
    BY AttemptsAssumption
       DEF Init, GateInv, AloneInv, RequestInv, CountInv, FreeInv, NothingRecreated, FaceInv,
           PassInv, Past, Won, Trying, Occupied
  <1> QED BY <1>1, <1>2 DEF IInv

LEMMA ClaimKeeps ==
  ASSUME IInv, NEW r \in Requests, Claim(r)
  PROVE  IInv'
  <1> USE AttemptsAssumption DEF IInv, Claim, Claimable, Past, Won, Trying, Occupied, Attempts,
             rowVars, diskVars, reqVars, passVars
  <1>1. on[r] \in Incarnations /\ status[on[r]] = "absent" /\ life[on[r]] = "active"
    BY DEF RequestInv
  <1>2. TypeOK'
    BY <1>1 DEF TypeOK, Statuses
  <1>3. \A q \in Requests : Past(q) => on[q] # on[r]
    BY <1>1 DEF RequestInv
  <1>4. AloneInv'
    BY <1>1, <1>3 DEF AloneInv, TypeOK
  <1>5. RequestInv'
    BY <1>1, <1>3 DEF RequestInv, TypeOK, FreeInv, CountInv
  <1>6. CountInv'
    BY <1>1 DEF CountInv, TypeOK
  <1>7. FreeInv' /\ GateInv' /\ NothingRecreated'
    BY <1>1 DEF FreeInv, GateInv, NothingRecreated, TypeOK
  <1>8. FaceInv'
    BY <1>1 DEF FaceInv, TypeOK
  <1>9. PassInv'
    BY <1>1, <1>3 DEF PassInv, TypeOK, CountInv
  <1> QED BY <1>2, <1>4, <1>5, <1>6, <1>7, <1>8, <1>9

(* A request that ends its ticket, and whoever watched it, is past nothing; no other moves. *)
LEMMA Ended ==
  ASSUME IInv, NEW r \in Requests, EndTicket(r)
  PROVE  /\ pc' \in [Requests -> Trying \cup {"idle", "watching"}]
         /\ on' \in [Requests -> Incarnations \cup {NoOne}]
         /\ claim' \in [Requests -> 0..MaxAttempts]
         /\ told' \in [Requests -> BOOLEAN] /\ installed' \in [Requests -> BOOLEAN]
         /\ winner' \in [Requests -> Requests \cup {NoOne}]
         /\ pc'[r] = "idle" /\ installed'[r] = FALSE
         /\ \A q \in Requests :
               \/ pc'[q] = "idle" /\ installed'[q] = FALSE
               \/ /\ q # r /\ pc'[q] = pc[q] /\ on'[q] = on[q]
                  /\ claim'[q] = claim[q] /\ installed'[q] = installed[q]
  <1>1. /\ pc' \in [Requests -> Trying \cup {"idle", "watching"}]
        /\ on' \in [Requests -> Incarnations \cup {NoOne}]
        /\ winner' \in [Requests -> Requests \cup {NoOne}]
    BY DEF EndTicket, IInv, TypeOK, Trying
  <1>2. claim' \in [Requests -> 0..MaxAttempts]
    BY AttemptsAssumption DEF EndTicket, IInv, TypeOK
  <1>3. /\ told' \in [Requests -> BOOLEAN] /\ installed' \in [Requests -> BOOLEAN]
    BY DEF EndTicket, IInv, TypeOK
  <1>4. \A q \in Requests : pc[q] = "watching" => installed[q] = FALSE
    BY DEF IInv, TypeOK, RequestInv
  <1>5. \A q \in Requests :
           \/ pc'[q] = "idle" /\ installed'[q] = FALSE
           \/ /\ q # r /\ pc'[q] = pc[q] /\ on'[q] = on[q]
              /\ claim'[q] = claim[q] /\ installed'[q] = installed[q]
    BY <1>4 DEF EndTicket, IInv, TypeOK
  <1> QED BY <1>1, <1>2, <1>3, <1>5 DEF EndTicket, IInv, TypeOK

LEMMA AskKeeps ==
  ASSUME IInv, NEW r \in Requests, NEW c \in Incarnations, Ask(r, c)
  PROVE  IInv'
  <1> USE AttemptsAssumption
      DEF IInv, Ask, Past, Won, Trying, Occupied, Attempts,
          rowVars, diskVars, reqVars, passVars
  <1>1. TypeOK'
    BY DEF TypeOK, Statuses
  <1>2. GateInv'
    BY DEF GateInv, TypeOK
  <1>3. AloneInv'
    BY DEF AloneInv, TypeOK
  <1>4. RequestInv'
    BY DEF RequestInv, TypeOK
  <1>5. CountInv'
    BY DEF CountInv, TypeOK
  <1>6. FreeInv'
    BY DEF FreeInv, TypeOK
  <1>7. NothingRecreated'
    BY DEF NothingRecreated, TypeOK
  <1>8. FaceInv'
    BY DEF FaceInv, TypeOK
  <1>9. PassInv'
    BY DEF PassInv, TypeOK
  <1> QED BY <1>1, <1>2, <1>3, <1>4, <1>5, <1>6, <1>7, <1>8, <1>9

LEMMA AskLateKeeps ==
  ASSUME IInv, NEW r \in Requests, NEW c \in Incarnations, AskLate(r, c)
  PROVE  IInv'
  <1> USE AttemptsAssumption
      DEF IInv, AskLate, Watch, Winners, Past, Won, Trying, Occupied, Attempts,
          rowVars, diskVars, reqVars, passVars
  <1>1. TypeOK'
    BY DEF TypeOK, Statuses
  <1>2. GateInv'
    BY DEF GateInv, TypeOK
  <1>3. AloneInv'
    BY DEF AloneInv, TypeOK
  <1>4. RequestInv'
    BY DEF RequestInv, TypeOK
  <1>5. CountInv'
    BY DEF CountInv, TypeOK
  <1>6. FreeInv'
    BY DEF FreeInv, TypeOK
  <1>7. NothingRecreated'
    BY DEF NothingRecreated, TypeOK
  <1>8. FaceInv'
    BY DEF FaceInv, TypeOK
  <1>9. PassInv'
    BY DEF PassInv, TypeOK
  <1> QED BY <1>1, <1>2, <1>3, <1>4, <1>5, <1>6, <1>7, <1>8, <1>9

LEMMA StopWatchingKeeps ==
  ASSUME IInv, NEW r \in Requests, StopWatching(r)
  PROVE  IInv'
  <1> USE AttemptsAssumption
      DEF IInv, StopWatching, Past, Won, Trying, Occupied, Attempts,
          rowVars, diskVars, reqVars, passVars
  <1>1. TypeOK'
    BY DEF TypeOK, Statuses
  <1>2. GateInv'
    BY DEF GateInv, TypeOK
  <1>3. AloneInv'
    BY DEF AloneInv, TypeOK
  <1>4. RequestInv'
    BY DEF RequestInv, TypeOK
  <1>5. CountInv'
    BY DEF CountInv, TypeOK
  <1>6. FreeInv'
    BY DEF FreeInv, TypeOK
  <1>7. NothingRecreated'
    BY DEF NothingRecreated, TypeOK
  <1>8. FaceInv'
    BY DEF FaceInv, TypeOK
  <1>9. PassInv'
    BY DEF PassInv, TypeOK
  <1> QED BY <1>1, <1>2, <1>3, <1>4, <1>5, <1>6, <1>7, <1>8, <1>9

LEMMA CallServiceKeeps ==
  ASSUME IInv, NEW r \in Requests, CallService(r)
  PROVE  IInv'
  <1> USE AttemptsAssumption
      DEF IInv, CallService, Past, Won, Trying, Occupied, Attempts,
          rowVars, diskVars, reqVars, passVars
  <1>1. on[r] \in Incarnations /\ paid[on[r]] < attempts[on[r]]
    BY DEF RequestInv
  <1>2. life[on[r]] = "active" /\ ~installed[r]
    BY <1>1 DEF RequestInv, GateInv, TypeOK
  <1>3. \A q \in Requests : Past(q) /\ on[q] = on[r] => q = r
    BY DEF AloneInv
  <1>4. TypeOK'
    BY <1>1, <1>2, <1>3 DEF TypeOK, Statuses
  <1>5. GateInv'
    BY <1>1, <1>2, <1>3 DEF GateInv, TypeOK
  <1>6. AloneInv'
    BY <1>1, <1>2, <1>3 DEF AloneInv, TypeOK
  <1>7. RequestInv'
    BY <1>1, <1>2, <1>3 DEF RequestInv, TypeOK
  <1>8. CountInv'
    BY <1>1, <1>2, <1>3 DEF CountInv, TypeOK
  <1>9. FreeInv'
    BY <1>1, <1>2, <1>3 DEF FreeInv, TypeOK
  <1>10. NothingRecreated'
    BY <1>1, <1>2, <1>3 DEF NothingRecreated, TypeOK
  <1>11. FaceInv'
    BY <1>1, <1>2, <1>3 DEF FaceInv, TypeOK
  <1>12. PassInv'
    BY <1>1, <1>2, <1>3 DEF PassInv, TypeOK
  <1> QED BY <1>4, <1>5, <1>6, <1>7, <1>8, <1>9, <1>10, <1>11, <1>12

LEMMA TokenRefusedKeeps ==
  ASSUME IInv, NEW r \in Requests, TokenRefused(r)
  PROVE  IInv'
  <1> USE AttemptsAssumption
      DEF IInv, TokenRefused, Unpaid, Past, Won, Trying, Occupied, Attempts,
          rowVars, diskVars, reqVars, passVars
  <1>1. TypeOK'
    BY DEF TypeOK, Statuses
  <1>2. GateInv'
    BY DEF GateInv, TypeOK
  <1>3. AloneInv'
    BY DEF AloneInv, TypeOK
  <1>4. RequestInv'
    BY DEF RequestInv, TypeOK
  <1>5. CountInv'
    BY DEF CountInv, TypeOK
  <1>6. FreeInv'
    BY DEF FreeInv, TypeOK
  <1>7. NothingRecreated'
    BY DEF NothingRecreated, TypeOK
  <1>8. FaceInv'
    BY DEF FaceInv, TypeOK
  <1>9. PassInv'
    BY DEF PassInv, TypeOK
  <1> QED BY <1>1, <1>2, <1>3, <1>4, <1>5, <1>6, <1>7, <1>8, <1>9

LEMMA NotDrawnKeeps ==
  ASSUME IInv, NEW r \in Requests, NotDrawn(r)
  PROVE  IInv'
  <1> USE AttemptsAssumption
      DEF IInv, NotDrawn, Unpaid, Past, Won, Trying, Occupied, Attempts,
          rowVars, diskVars, reqVars, passVars
  <1>1. TypeOK'
    BY DEF TypeOK, Statuses
  <1>2. GateInv'
    BY DEF GateInv, TypeOK
  <1>3. AloneInv'
    BY DEF AloneInv, TypeOK
  <1>4. RequestInv'
    BY DEF RequestInv, TypeOK
  <1>5. CountInv'
    BY DEF CountInv, TypeOK
  <1>6. FreeInv'
    BY DEF FreeInv, TypeOK
  <1>7. NothingRecreated'
    BY DEF NothingRecreated, TypeOK
  <1>8. FaceInv'
    BY DEF FaceInv, TypeOK
  <1>9. PassInv'
    BY DEF PassInv, TypeOK
  <1> QED BY <1>1, <1>2, <1>3, <1>4, <1>5, <1>6, <1>7, <1>8, <1>9

LEMMA InstallKeeps ==
  ASSUME IInv, NEW r \in Requests, Install(r)
  PROVE  IInv'
  <1> USE AttemptsAssumption
      DEF IInv, Install, Past, Won, Trying, Occupied, Attempts,
          rowVars, diskVars, reqVars, passVars
  <1>1. on[r] \in Incarnations /\ life[on[r]] = "active" /\ claim[r] \in Attempts
    BY DEF RequestInv
  <1>2. status[on[r]] = "generating"
    BY <1>1 DEF RequestInv
  <1>3. \A q \in Requests : Past(q) /\ on[q] = on[r] => q = r
    BY DEF AloneInv
  <1>4. TypeOK'
    BY <1>1, <1>2, <1>3 DEF TypeOK, Statuses
  <1>5. GateInv'
    BY <1>1, <1>2, <1>3 DEF GateInv, TypeOK
  <1>6. AloneInv'
    BY <1>1, <1>2, <1>3 DEF AloneInv, TypeOK
  <1>7. RequestInv'
    BY <1>1, <1>2, <1>3 DEF RequestInv, TypeOK
  <1>8. CountInv'
    BY <1>1, <1>2, <1>3 DEF CountInv, TypeOK
  <1>9. FreeInv'
    BY <1>1, <1>2, <1>3 DEF FreeInv, TypeOK
  <1>10. NothingRecreated'
    BY <1>1, <1>2, <1>3 DEF NothingRecreated, TypeOK
  <1>11. FaceInv'
    BY <1>1, <1>2, <1>3 DEF FaceInv, TypeOK
  <1>12. PassInv'
    BY <1>1, <1>2, <1>3 DEF PassInv, TypeOK
  <1> QED BY <1>4, <1>5, <1>6, <1>7, <1>8, <1>9, <1>10, <1>11, <1>12

LEMMA ServeKeeps ==
  ASSUME IInv, NEW c \in Incarnations, Serve(c)
  PROVE  IInv'
  <1> USE AttemptsAssumption
      DEF IInv, Serve, Past, Won, Trying, Occupied, Attempts,
          rowVars, diskVars, reqVars, passVars
  <1>1. TypeOK'
    BY DEF TypeOK, Statuses
  <1>2. GateInv'
    BY DEF GateInv, TypeOK
  <1>3. AloneInv'
    BY DEF AloneInv, TypeOK
  <1>4. RequestInv'
    BY DEF RequestInv, TypeOK
  <1>5. CountInv'
    BY DEF CountInv, TypeOK
  <1>6. FreeInv'
    BY DEF FreeInv, TypeOK
  <1>7. NothingRecreated'
    BY DEF NothingRecreated, TypeOK
  <1>8. FaceInv'
    BY DEF FaceInv, TypeOK
  <1>9. PassInv'
    BY DEF PassInv, TypeOK
  <1> QED BY <1>1, <1>2, <1>3, <1>4, <1>5, <1>6, <1>7, <1>8, <1>9

LEMMA StartPassKeeps ==
  ASSUME IInv, StartPass
  PROVE  IInv'
  <1> USE AttemptsAssumption
      DEF IInv, StartPass, Past, Won, Trying, Occupied, Attempts,
          rowVars, diskVars, reqVars, passVars
  <1>1. TypeOK'
    BY DEF TypeOK, Statuses
  <1>2. GateInv'
    BY DEF GateInv, TypeOK
  <1>3. AloneInv'
    BY DEF AloneInv, TypeOK
  <1>4. RequestInv'
    BY DEF RequestInv, TypeOK
  <1>5. CountInv'
    BY DEF CountInv, TypeOK
  <1>6. FreeInv'
    BY DEF FreeInv, TypeOK
  <1>7. NothingRecreated'
    BY DEF NothingRecreated, TypeOK
  <1>8. FaceInv'
    BY DEF FaceInv, TypeOK
  <1>9. PassInv'
    BY DEF PassInv, TypeOK
  <1> QED BY <1>1, <1>2, <1>3, <1>4, <1>5, <1>6, <1>7, <1>8, <1>9

LEMMA SpendBudgetKeeps ==
  ASSUME IInv, SpendBudget
  PROVE  IInv'
  <1> USE AttemptsAssumption
      DEF IInv, SpendBudget, Past, Won, Trying, Occupied, Attempts,
          rowVars, diskVars, reqVars, passVars
  <1>1. TypeOK'
    BY DEF TypeOK, Statuses
  <1>2. GateInv'
    BY DEF GateInv, TypeOK
  <1>3. AloneInv'
    BY DEF AloneInv, TypeOK
  <1>4. RequestInv'
    BY DEF RequestInv, TypeOK
  <1>5. CountInv'
    BY DEF CountInv, TypeOK
  <1>6. FreeInv'
    BY DEF FreeInv, TypeOK
  <1>7. NothingRecreated'
    BY DEF NothingRecreated, TypeOK
  <1>8. FaceInv'
    BY DEF FaceInv, TypeOK
  <1>9. PassInv'
    BY DEF PassInv, TypeOK
  <1> QED BY <1>1, <1>2, <1>3, <1>4, <1>5, <1>6, <1>7, <1>8, <1>9

LEMMA PassOverKeeps ==
  ASSUME IInv, NEW c \in Incarnations, PassOver(c)
  PROVE  IInv'
  <1> USE AttemptsAssumption
      DEF IInv, PassOver, Past, Won, Trying, Occupied, Attempts,
          rowVars, diskVars, reqVars, passVars
  <1>1. TypeOK'
    BY DEF TypeOK, Statuses
  <1>2. GateInv'
    BY DEF GateInv, TypeOK
  <1>3. AloneInv'
    BY DEF AloneInv, TypeOK
  <1>4. RequestInv'
    BY DEF RequestInv, TypeOK
  <1>5. CountInv'
    BY DEF CountInv, TypeOK
  <1>6. FreeInv'
    BY DEF FreeInv, TypeOK
  <1>7. NothingRecreated'
    BY DEF NothingRecreated, TypeOK
  <1>8. FaceInv'
    BY DEF FaceInv, TypeOK
  <1>9. PassInv'
    BY DEF PassInv, TypeOK
  <1> QED BY <1>1, <1>2, <1>3, <1>4, <1>5, <1>6, <1>7, <1>8, <1>9

LEMMA LookAtInterruptedKeeps ==
  ASSUME IInv, NEW c \in Incarnations, LookAtInterrupted(c)
  PROVE  IInv'
  <1> USE AttemptsAssumption
      DEF IInv, LookAtInterrupted, MayLook, IsAttempting, Earned, ActionFor, Past, Won, Trying,
          Occupied, Attempts, rowVars, diskVars, reqVars, passVars
  <1>1. TypeOK'
    BY DEF TypeOK, Statuses
  <1>2. GateInv'
    BY DEF GateInv, TypeOK
  <1>3. AloneInv'
    BY DEF AloneInv, TypeOK
  <1>4. RequestInv'
    BY DEF RequestInv, TypeOK
  <1>5. CountInv'
    BY DEF CountInv, TypeOK
  <1>6. FreeInv'
    BY DEF FreeInv, TypeOK
  <1>7. NothingRecreated'
    BY DEF NothingRecreated, TypeOK
  <1>8. FaceInv'
    BY DEF FaceInv, TypeOK
  <1>9. PassInv'
    BY DEF PassInv, TypeOK
  <1> QED BY <1>1, <1>2, <1>3, <1>4, <1>5, <1>6, <1>7, <1>8, <1>9

LEMMA LookAtPresentKeeps ==
  ASSUME IInv, NEW c \in Incarnations, LookAtPresent(c)
  PROVE  IInv'
  <1> USE AttemptsAssumption
      DEF IInv, LookAtPresent, MayLook, IsAttempting, Earned, Past, Won, Trying, Occupied, Attempts,
          rowVars, diskVars, reqVars, passVars
  <1>1. TypeOK'
    BY DEF TypeOK, Statuses
  <1>2. GateInv'
    BY DEF GateInv, TypeOK
  <1>3. AloneInv'
    BY DEF AloneInv, TypeOK
  <1>4. RequestInv'
    BY DEF RequestInv, TypeOK
  <1>5. CountInv'
    BY DEF CountInv, TypeOK
  <1>6. FreeInv'
    BY DEF FreeInv, TypeOK
  <1>7. NothingRecreated'
    BY DEF NothingRecreated, TypeOK
  <1>8. FaceInv'
    BY DEF FaceInv, TypeOK
  <1>9. PassInv'
    BY DEF PassInv, TypeOK
  <1> QED BY <1>1, <1>2, <1>3, <1>4, <1>5, <1>6, <1>7, <1>8, <1>9

LEMMA MoveRefusedKeeps ==
  ASSUME IInv, MoveRefused
  PROVE  IInv'
  <1> USE AttemptsAssumption
      DEF IInv, MoveRefused, EndMove, Past, Won, Trying, Occupied, Attempts,
          rowVars, diskVars, reqVars, passVars
  <1>1. TypeOK'
    BY DEF TypeOK, Statuses
  <1>2. GateInv'
    BY DEF GateInv, TypeOK
  <1>3. AloneInv'
    BY DEF AloneInv, TypeOK
  <1>4. RequestInv'
    BY DEF RequestInv, TypeOK
  <1>5. CountInv'
    BY DEF CountInv, TypeOK
  <1>6. FreeInv'
    BY DEF FreeInv, TypeOK
  <1>7. NothingRecreated'
    BY DEF NothingRecreated, TypeOK
  <1>8. FaceInv'
    BY DEF FaceInv, TypeOK
  <1>9. PassInv'
    BY DEF PassInv, TypeOK
  <1> QED BY <1>1, <1>2, <1>3, <1>4, <1>5, <1>6, <1>7, <1>8, <1>9

LEMMA EndPassKeeps ==
  ASSUME IInv, EndPass
  PROVE  IInv'
  <1> USE AttemptsAssumption
      DEF IInv, EndPass, Past, Won, Trying, Occupied, Attempts,
          rowVars, diskVars, reqVars, passVars
  <1>1. TypeOK'
    BY DEF TypeOK, Statuses
  <1>2. GateInv'
    BY DEF GateInv, TypeOK
  <1>3. AloneInv'
    BY DEF AloneInv, TypeOK
  <1>4. RequestInv'
    BY DEF RequestInv, TypeOK
  <1>5. CountInv'
    BY DEF CountInv, TypeOK
  <1>6. FreeInv'
    BY DEF FreeInv, TypeOK
  <1>7. NothingRecreated'
    BY DEF NothingRecreated, TypeOK
  <1>8. FaceInv'
    BY DEF FaceInv, TypeOK
  <1>9. PassInv'
    BY DEF PassInv, TypeOK
  <1> QED BY <1>1, <1>2, <1>3, <1>4, <1>5, <1>6, <1>7, <1>8, <1>9

LEMMA BeginDeletionKeeps ==
  ASSUME IInv, NEW c \in Incarnations, BeginDeletion(c)
  PROVE  IInv'
  <1> USE AttemptsAssumption
      DEF IInv, BeginDeletion, Holding, Past, Won, Trying, Occupied, Attempts,
          rowVars, diskVars, reqVars, passVars
  <1>1. TypeOK'
    BY DEF TypeOK, Statuses
  <1>2. GateInv'
    BY DEF GateInv, TypeOK
  <1>3. AloneInv'
    BY DEF AloneInv, TypeOK
  <1>4. RequestInv'
    BY DEF RequestInv, TypeOK
  <1>5. CountInv'
    BY DEF CountInv, TypeOK
  <1>6. FreeInv'
    BY DEF FreeInv, TypeOK
  <1>7. NothingRecreated'
    BY DEF NothingRecreated, TypeOK
  <1>8. FaceInv'
    BY DEF FaceInv, TypeOK
  <1>9. PassInv'
    BY DEF PassInv, TypeOK
  <1> QED BY <1>1, <1>2, <1>3, <1>4, <1>5, <1>6, <1>7, <1>8, <1>9

LEMMA DrainTimeoutKeeps ==
  ASSUME IInv, NEW c \in Incarnations, DrainTimeout(c)
  PROVE  IInv'
  <1> USE AttemptsAssumption
      DEF IInv, DrainTimeout, Past, Won, Trying, Occupied, Attempts,
          rowVars, diskVars, reqVars, passVars
  <1>1. TypeOK'
    BY DEF TypeOK, Statuses
  <1>2. GateInv'
    BY DEF GateInv, TypeOK
  <1>3. AloneInv'
    BY DEF AloneInv, TypeOK
  <1>4. RequestInv'
    BY DEF RequestInv, TypeOK
  <1>5. CountInv'
    BY DEF CountInv, TypeOK
  <1>6. FreeInv'
    BY DEF FreeInv, TypeOK
  <1>7. NothingRecreated'
    BY DEF NothingRecreated, TypeOK
  <1>8. FaceInv'
    BY DEF FaceInv, TypeOK
  <1>9. PassInv'
    BY DEF PassInv, TypeOK
  <1> QED BY <1>1, <1>2, <1>3, <1>4, <1>5, <1>6, <1>7, <1>8, <1>9

LEMMA TombstoneKeeps ==
  ASSUME IInv, NEW c \in Incarnations, Tombstone(c)
  PROVE  IInv'
  <1> USE AttemptsAssumption
      DEF IInv, Tombstone, Holding, Past, Won, Trying, Occupied, Attempts,
          rowVars, diskVars, reqVars, passVars
  <1>1. TypeOK'
    BY DEF TypeOK, Statuses
  <1>2. GateInv'
    BY DEF GateInv, TypeOK
  <1>3. AloneInv'
    BY DEF AloneInv, TypeOK
  <1>4. RequestInv'
    BY DEF RequestInv, TypeOK
  <1>5. CountInv'
    BY DEF CountInv, TypeOK
  <1>6. FreeInv'
    BY DEF FreeInv, TypeOK
  <1>7. NothingRecreated'
    BY DEF NothingRecreated, TypeOK
  <1>8. FaceInv'
    BY DEF FaceInv, TypeOK
  <1>9. PassInv'
    BY DEF PassInv, TypeOK
  <1> QED BY <1>1, <1>2, <1>3, <1>4, <1>5, <1>6, <1>7, <1>8, <1>9

LEMMA EraseTreeKeeps ==
  ASSUME IInv, NEW c \in Incarnations, EraseTree(c)
  PROVE  IInv'
  <1> USE AttemptsAssumption
      DEF IInv, EraseTree, Past, Won, Trying, Occupied, Attempts,
          rowVars, diskVars, reqVars, passVars
  <1>1. TypeOK'
    BY DEF TypeOK, Statuses
  <1>2. GateInv'
    BY DEF GateInv, TypeOK
  <1>3. AloneInv'
    BY DEF AloneInv, TypeOK
  <1>4. RequestInv'
    BY DEF RequestInv, TypeOK
  <1>5. CountInv'
    BY DEF CountInv, TypeOK
  <1>6. FreeInv'
    BY DEF FreeInv, TypeOK
  <1>7. NothingRecreated'
    BY DEF NothingRecreated, TypeOK
  <1>8. FaceInv'
    BY DEF FaceInv, TypeOK
  <1>9. PassInv'
    BY DEF PassInv, TypeOK
  <1> QED BY <1>1, <1>2, <1>3, <1>4, <1>5, <1>6, <1>7, <1>8, <1>9

LEMMA EndDeletionKeeps ==
  ASSUME IInv, NEW c \in Incarnations, EndDeletion(c)
  PROVE  IInv'
  <1> USE AttemptsAssumption
      DEF IInv, EndDeletion, Past, Won, Trying, Occupied, Attempts,
          rowVars, diskVars, reqVars, passVars
  <1>1. TypeOK'
    BY DEF TypeOK, Statuses
  <1>2. GateInv'
    BY DEF GateInv, TypeOK
  <1>3. AloneInv'
    BY DEF AloneInv, TypeOK
  <1>4. RequestInv'
    BY DEF RequestInv, TypeOK
  <1>5. CountInv'
    BY DEF CountInv, TypeOK
  <1>6. FreeInv'
    BY DEF FreeInv, TypeOK
  <1>7. NothingRecreated'
    BY DEF NothingRecreated, TypeOK
  <1>8. FaceInv'
    BY DEF FaceInv, TypeOK
  <1>9. PassInv'
    BY DEF PassInv, TypeOK
  <1> QED BY <1>1, <1>2, <1>3, <1>4, <1>5, <1>6, <1>7, <1>8, <1>9

LEMMA BeginBuildKeeps ==
  ASSUME IInv, BeginBuild
  PROVE  IInv'
  <1> USE AttemptsAssumption
      DEF IInv, BeginBuild, Past, Won, Trying, Occupied, Attempts,
          rowVars, diskVars, reqVars, passVars
  <1>1. TypeOK'
    BY DEF TypeOK, Statuses
  <1>2. GateInv'
    BY DEF GateInv, TypeOK
  <1>3. AloneInv'
    BY DEF AloneInv, TypeOK
  <1>4. RequestInv'
    BY DEF RequestInv, TypeOK
  <1>5. CountInv'
    BY DEF CountInv, TypeOK
  <1>6. FreeInv'
    BY DEF FreeInv, TypeOK
  <1>7. NothingRecreated'
    BY DEF NothingRecreated, TypeOK
  <1>8. FaceInv'
    BY DEF FaceInv, TypeOK
  <1>9. PassInv'
    BY DEF PassInv, TypeOK
  <1> QED BY <1>1, <1>2, <1>3, <1>4, <1>5, <1>6, <1>7, <1>8, <1>9

LEMMA EndBuildKeeps ==
  ASSUME IInv, EndBuild
  PROVE  IInv'
  <1> USE AttemptsAssumption
      DEF IInv, EndBuild, Past, Won, Trying, Occupied, Attempts,
          rowVars, diskVars, reqVars, passVars
  <1>1. TypeOK'
    BY DEF TypeOK, Statuses
  <1>2. GateInv'
    BY DEF GateInv, TypeOK
  <1>3. AloneInv'
    BY DEF AloneInv, TypeOK
  <1>4. RequestInv'
    BY DEF RequestInv, TypeOK
  <1>5. CountInv'
    BY DEF CountInv, TypeOK
  <1>6. FreeInv'
    BY DEF FreeInv, TypeOK
  <1>7. NothingRecreated'
    BY DEF NothingRecreated, TypeOK
  <1>8. FaceInv'
    BY DEF FaceInv, TypeOK
  <1>9. PassInv'
    BY DEF PassInv, TypeOK
  <1> QED BY <1>1, <1>2, <1>3, <1>4, <1>5, <1>6, <1>7, <1>8, <1>9

(* Nothing of the process is left to be wrong about. *)
LEMMA ProcessGoneKeeps ==
  ASSUME IInv, ProcessGone
  PROVE  /\ pc' \in [Requests -> {"idle"}]
         /\ on' \in [Requests -> {NoOne}] /\ winner' \in [Requests -> {NoOne}]
         /\ claim' \in [Requests -> {0}]
         /\ told' \in [Requests -> BOOLEAN] /\ installed' = [r \in Requests |-> FALSE]
         /\ {pass', over'} \subseteq BOOLEAN
         /\ 0 \in 0..MaxAttempts
  <1>1. {pass', over'} \subseteq BOOLEAN
    BY DEF ProcessGone
  <1>2. 0 \in 0..MaxAttempts
    BY AttemptsAssumption
  <1> QED BY <1>1, <1>2 DEF ProcessGone

LEMMA DieKeeps ==
  ASSUME IInv, Die
  PROVE  IInv'
  <1> USE AttemptsAssumption
      DEF IInv, Die, ProcessGone, Past, Won, Trying, Occupied, Attempts, rowVars, diskVars,
          reqVars, passVars
  <1>1. /\ told' \in [Requests -> BOOLEAN] /\ {pass', over'} \subseteq BOOLEAN
        /\ 0 \in 0..MaxAttempts
    BY ProcessGoneKeeps
  <1>2. TypeOK'
    BY <1>1 DEF TypeOK, Statuses
  <1>3. GateInv'
    BY <1>1 DEF GateInv, TypeOK
  <1>4. AloneInv'
    BY <1>1 DEF AloneInv, TypeOK
  <1>5. RequestInv'
    BY <1>1 DEF RequestInv, TypeOK
  <1>6. CountInv'
    BY <1>1 DEF CountInv, TypeOK
  <1>7. FreeInv'
    BY <1>1 DEF FreeInv, TypeOK
  <1>8. NothingRecreated'
    BY <1>1 DEF NothingRecreated, TypeOK
  <1>9. FaceInv'
    BY <1>1 DEF FaceInv, TypeOK
  <1>10. PassInv'
    BY <1>1 DEF PassInv, TypeOK
  <1> QED BY <1>2, <1>3, <1>4, <1>5, <1>6, <1>7, <1>8, <1>9, <1>10

LEMMA LoseFileKeeps ==
  ASSUME IInv, NEW c \in Incarnations, LoseFile(c)
  PROVE  IInv'
  <1> USE AttemptsAssumption
      DEF IInv, LoseFile, Past, Won, Trying, Occupied, Attempts,
          rowVars, diskVars, reqVars, passVars
  <1>1. TypeOK'
    BY DEF TypeOK, Statuses
  <1>2. GateInv'
    BY DEF GateInv, TypeOK
  <1>3. AloneInv'
    BY DEF AloneInv, TypeOK
  <1>4. RequestInv'
    BY DEF RequestInv, TypeOK
  <1>5. CountInv'
    BY DEF CountInv, TypeOK
  <1>6. FreeInv'
    BY DEF FreeInv, TypeOK
  <1>7. NothingRecreated'
    BY DEF NothingRecreated, TypeOK
  <1>8. FaceInv'
    BY DEF FaceInv, TypeOK
  <1>9. PassInv'
    BY DEF PassInv, TypeOK
  <1> QED BY <1>1, <1>2, <1>3, <1>4, <1>5, <1>6, <1>7, <1>8, <1>9

LEMMA LoseTreeKeeps ==
  ASSUME IInv, NEW c \in Incarnations, LoseTree(c)
  PROVE  IInv'
  <1> USE AttemptsAssumption
      DEF IInv, LoseTree, Past, Won, Trying, Occupied, Attempts,
          rowVars, diskVars, reqVars, passVars
  <1>1. TypeOK'
    BY DEF TypeOK, Statuses
  <1>2. GateInv'
    BY DEF GateInv, TypeOK
  <1>3. AloneInv'
    BY DEF AloneInv, TypeOK
  <1>4. RequestInv'
    BY DEF RequestInv, TypeOK
  <1>5. CountInv'
    BY DEF CountInv, TypeOK
  <1>6. FreeInv'
    BY DEF FreeInv, TypeOK
  <1>7. NothingRecreated'
    BY DEF NothingRecreated, TypeOK
  <1>8. FaceInv'
    BY DEF FaceInv, TypeOK
  <1>9. PassInv'
    BY DEF PassInv, TypeOK
  <1> QED BY <1>1, <1>2, <1>3, <1>4, <1>5, <1>6, <1>7, <1>8, <1>9

LEMMA DieInstallingKeeps ==
  ASSUME IInv, NEW r \in Requests, DieInstalling(r)
  PROVE  IInv'
  <1> USE AttemptsAssumption
      DEF IInv, DieInstalling, ProcessGone, Past, Won, Trying, Occupied, Attempts, rowVars,
          diskVars, reqVars, passVars
  <1>1. /\ told' \in [Requests -> BOOLEAN] /\ {pass', over'} \subseteq BOOLEAN
        /\ 0 \in 0..MaxAttempts
    BY ProcessGoneKeeps
  <1>2. on[r] \in Incarnations /\ life[on[r]] = "active" /\ claim[r] \in Attempts
    BY DEF RequestInv
  <1>3. status[on[r]] = "generating"
    BY <1>2 DEF RequestInv
  <1>4. drawing' = drawing \/ drawing' = [drawing EXCEPT ![on[r]] = claim[r]]
    OBVIOUS
  <1>5. drawing' \in [Incarnations -> 0..MaxAttempts]
    BY <1>2, <1>4 DEF TypeOK
  <1>6. TypeOK'
    BY <1>1, <1>2, <1>3, <1>4, <1>5 DEF TypeOK, Statuses
  <1>7. GateInv'
    BY <1>1, <1>2, <1>3, <1>4, <1>5 DEF GateInv, TypeOK
  <1>8. AloneInv'
    BY <1>1, <1>2, <1>3, <1>4, <1>5 DEF AloneInv, TypeOK
  <1>9. RequestInv'
    BY <1>1, <1>2, <1>3, <1>4, <1>5 DEF RequestInv, TypeOK
  <1>10. CountInv'
    BY <1>1, <1>2, <1>3, <1>4, <1>5 DEF CountInv, TypeOK
  <1>11. FreeInv'
    BY <1>1, <1>2, <1>3, <1>4, <1>5 DEF FreeInv, TypeOK
  <1>12. NothingRecreated'
    BY <1>1, <1>2, <1>3, <1>4, <1>5 DEF NothingRecreated, TypeOK
  <1>13. FaceInv'
    BY <1>1, <1>2, <1>3, <1>4, <1>5 DEF FaceInv, TypeOK
  <1>14. PassInv'
    BY <1>1, <1>2, <1>3, <1>4, <1>5 DEF PassInv, TypeOK
  <1> QED BY <1>6, <1>7, <1>8, <1>9, <1>10, <1>11, <1>12, <1>13, <1>14

LEMMA TicketEndKeeps ==
  ASSUME IInv, NEW r \in Requests, EndTicket(r),
         UNCHANGED <<rowVars, diskVars, gate, lease, phase, passVars, paid, shown>>
  PROVE  IInv'
  <1> USE AttemptsAssumption
      DEF IInv, Past, Won, Trying, Occupied, Attempts, rowVars, diskVars, reqVars, passVars
  <1>1. EndTicket(r)
    OBVIOUS
  <1>2. /\ pc' \in [Requests -> Trying \cup {"idle", "watching"}]
        /\ on' \in [Requests -> Incarnations \cup {NoOne}]
        /\ claim' \in [Requests -> 0..MaxAttempts]
        /\ told' \in [Requests -> BOOLEAN] /\ installed' \in [Requests -> BOOLEAN]
        /\ winner' \in [Requests -> Requests \cup {NoOne}]
        /\ \A q \in Requests :
              \/ pc'[q] = "idle" /\ installed'[q] = FALSE
              \/ /\ q # r /\ pc'[q] = pc[q] /\ on'[q] = on[q]
                 /\ claim'[q] = claim[q] /\ installed'[q] = installed[q]
    BY <1>1, Ended
  <1>3. \A q \in Requests : Past(q)' => Past(q) /\ on'[q] = on[q]
    BY <1>2 DEF TypeOK
  <1>4. TypeOK'
    BY <1>1, <1>2, <1>3 DEF TypeOK, Statuses
  <1>5. GateInv'
    BY <1>1, <1>2, <1>3 DEF GateInv, TypeOK
  <1>6. AloneInv'
    BY <1>1, <1>2, <1>3 DEF AloneInv, TypeOK
  <1>7. RequestInv'
    BY <1>1, <1>2, <1>3 DEF RequestInv, TypeOK
  <1>8. CountInv'
    BY <1>1, <1>2, <1>3 DEF CountInv, TypeOK
  <1>9. FreeInv'
    BY <1>1, <1>2, <1>3 DEF FreeInv, TypeOK
  <1>10. NothingRecreated'
    BY <1>1, <1>2, <1>3 DEF NothingRecreated, TypeOK
  <1>11. FaceInv'
    BY <1>1, <1>2, <1>3 DEF FaceInv, TypeOK
  <1>12. PassInv'
    BY <1>1, <1>2, <1>3 DEF PassInv, TypeOK
  <1> QED BY <1>4, <1>5, <1>6, <1>7, <1>8, <1>9, <1>10, <1>11, <1>12

LEMMA ClaimLostKeeps ==
  ASSUME IInv, NEW r \in Requests, ClaimLost(r)
  PROVE  IInv'
  <1>1. CASE EndTicket(r)
    BY <1>1, TicketEndKeeps DEF ClaimLost
  <1>2. CASE Watch(r, on[r])
    <2> USE AttemptsAssumption, <1>2
        DEF IInv, ClaimLost, Watch, Winners, Past, Won, Trying, Occupied, Attempts, rowVars,
          diskVars, reqVars, passVars
    <2>1. on[r] \in Incarnations
      BY DEF RequestInv
    <2>2. TypeOK'
      BY <2>1 DEF TypeOK, Statuses
    <2>3. GateInv'
      BY <2>1 DEF GateInv, TypeOK
    <2>4. AloneInv'
      BY <2>1 DEF AloneInv, TypeOK
    <2>5. RequestInv'
      BY <2>1 DEF RequestInv, TypeOK
    <2>6. CountInv'
      BY <2>1 DEF CountInv, TypeOK
    <2>7. FreeInv'
      BY <2>1 DEF FreeInv, TypeOK
    <2>8. NothingRecreated'
      BY <2>1 DEF NothingRecreated, TypeOK
    <2>9. FaceInv'
      BY <2>1 DEF FaceInv, TypeOK
    <2>10. PassInv'
      BY <2>1 DEF PassInv, TypeOK
    <2> QED BY <2>2, <2>3, <2>4, <2>5, <2>6, <2>7, <2>8, <2>9, <2>10
  <1> QED BY <1>1, <1>2 DEF ClaimLost

LEMMA ClaimThrowsKeeps ==
  ASSUME IInv, NEW r \in Requests, ClaimThrows(r)
  PROVE  IInv'
  BY TicketEndKeeps DEF ClaimThrows

LEMMA SettleThrowsKeeps ==
  ASSUME IInv, NEW r \in Requests, SettleThrows(r)
  PROVE  IInv'
  BY TicketEndKeeps DEF SettleThrows

LEMMA SettleKeeps ==
  ASSUME IInv, NEW r \in Requests, Settle(r)
  PROVE  IInv'
  <1> USE AttemptsAssumption
      DEF IInv, Settle, SettlementOf, Past, Won, Trying, Occupied, Attempts, rowVars, diskVars,
          reqVars, passVars
  <1>1. EndTicket(r)
    OBVIOUS
  <1>2. /\ pc' \in [Requests -> Trying \cup {"idle", "watching"}]
        /\ on' \in [Requests -> Incarnations \cup {NoOne}]
        /\ claim' \in [Requests -> 0..MaxAttempts]
        /\ told' \in [Requests -> BOOLEAN] /\ installed' \in [Requests -> BOOLEAN]
        /\ winner' \in [Requests -> Requests \cup {NoOne}]
        /\ \A q \in Requests :
              \/ pc'[q] = "idle" /\ installed'[q] = FALSE
              \/ /\ q # r /\ pc'[q] = pc[q] /\ on'[q] = on[q]
                 /\ claim'[q] = claim[q] /\ installed'[q] = installed[q]
    BY <1>1, Ended
  <1>3. on[r] \in Incarnations /\ Past(r)
    BY DEF RequestInv
  <1>4. \A q \in Requests : Past(q)' => Past(q) /\ on'[q] = on[q] /\ on[q] # on[r]
    BY <1>2, <1>3 DEF AloneInv, TypeOK
  <1>5. ASSUME life[on[r]] = "active" /\ status[on[r]] = "generating"
        PROVE  FreeInv' /\ FaceInv'
    <2>1. /\ status' = [status EXCEPT ![on[r]] = SettlementOf(r)] /\ drawing' = drawing
          /\ SettlementOf(r) \in {"present", "abandoned", "absent"}
          /\ SettlementOf(r) = "absent" => ~Occupied(on[r])
      BY <1>3, <1>5 DEF RequestInv
    <2>2. shown[on[r]] = {}
      BY <1>3, <1>5 DEF FaceInv
    <2>3. FreeInv'
      BY <1>3, <2>1 DEF FreeInv, TypeOK
    <2>4. FaceInv'
      BY <1>3, <2>1, <2>2 DEF FaceInv, TypeOK
    <2> QED BY <2>3, <2>4
  <1>6. ASSUME ~(life[on[r]] = "active" /\ status[on[r]] = "generating")
        PROVE  FreeInv' /\ FaceInv'
    <2>1. /\ status' = status
          /\ drawing' = drawing \/ drawing' = [drawing EXCEPT ![on[r]] = 0]
      BY <1>6
    <2>2. FreeInv'
      BY <1>3, <2>1 DEF FreeInv, TypeOK
    <2>3. FaceInv'
      BY <1>3, <2>1 DEF FaceInv, TypeOK
    <2> QED BY <2>2, <2>3
  <1>7. TypeOK'
    <2>1. SettlementOf(r) \in Statuses
      BY DEF Statuses
    <2>2. status' = status \/ status' = [status EXCEPT ![on[r]] = SettlementOf(r)]
      OBVIOUS
    <2> HIDE DEF SettlementOf
    <2>3. status' \in [Incarnations -> Statuses]
      BY <1>3, <2>1, <2>2 DEF TypeOK
    <2>4. drawing' \in [Incarnations -> 0..MaxAttempts]
      BY <1>3 DEF TypeOK
    <2> QED BY <1>2, <2>3, <2>4 DEF TypeOK
  <1>8. GateInv'
    BY <1>1, <1>2, <1>3, <1>4, <1>5, <1>6 DEF GateInv, TypeOK
  <1>9. AloneInv'
    BY <1>1, <1>2, <1>3, <1>4, <1>5, <1>6 DEF AloneInv, TypeOK
  <1>10. RequestInv'
    BY <1>1, <1>2, <1>3, <1>4, <1>5, <1>6 DEF RequestInv, TypeOK
  <1>11. CountInv'
    BY <1>1, <1>2, <1>3, <1>4, <1>5, <1>6 DEF CountInv, TypeOK
  <1>12. FreeInv'
    BY <1>5, <1>6
  <1>13. NothingRecreated'
    BY <1>1, <1>2, <1>3, <1>4, <1>5, <1>6 DEF NothingRecreated, TypeOK
  <1>14. FaceInv'
    BY <1>5, <1>6
  <1>15. PassInv'
    BY <1>1, <1>2, <1>3, <1>4, <1>5, <1>6 DEF PassInv, TypeOK
  <1> QED BY <1>7, <1>8, <1>9, <1>10, <1>11, <1>12, <1>13, <1>14, <1>15

LEMMA MoveKeeps ==
  ASSUME IInv, Move
  PROVE  IInv'
  <1> USE AttemptsAssumption
      DEF IInv, Move, EndMove, StillTrue, MovedTo, Past, Won, Trying, Occupied, Attempts,
          rowVars, diskVars, reqVars, passVars
  <1>1. moving \in Incarnations
    BY DEF TypeOK
  <1>2. StillTrue(moving) => \A q \in Requests : Past(q) => on[q] # moving
    BY DEF StillTrue, IsAttempting
  <1>3. ASSUME StillTrue(moving)
        PROVE  FreeInv' /\ FaceInv'
    <2>1. /\ status' = [status EXCEPT ![moving] = MovedTo(action)]
          /\ status[moving] = seen[moving].status
          /\ MovedTo(action) \in {"present", "abandoned", "absent"}
          /\ MovedTo(action) = "absent" => ~Occupied(moving)
          /\ MovedTo(action) \in {"present", "absent"} => status[moving] = "generating"
      BY <1>1, <1>3 DEF PassInv, TypeOK
    <2>2. FreeInv'
      BY <1>1, <2>1 DEF FreeInv, TypeOK
    <2>3. status[moving] = "generating" => shown[moving] = {}
      BY <1>1 DEF FaceInv
    <2>4. status[moving] \in {"generating", "present"}
      BY <2>1, <1>1 DEF PassInv, TypeOK
    <2>5. FaceInv'
      BY <1>1, <2>1, <2>3, <2>4 DEF FaceInv, TypeOK
    <2> QED BY <2>2, <2>5
  <1>4. ASSUME ~StillTrue(moving)
        PROVE  FreeInv' /\ FaceInv'
    BY <1>4 DEF FreeInv, FaceInv, TypeOK
  <1>5. TypeOK'
    BY <1>1, <1>2, <1>3, <1>4 DEF TypeOK, Statuses
  <1>6. GateInv'
    BY <1>1, <1>2, <1>3, <1>4 DEF GateInv, TypeOK
  <1>7. AloneInv'
    BY <1>1, <1>2, <1>3, <1>4 DEF AloneInv, TypeOK
  <1>8. RequestInv'
    BY <1>1, <1>2, <1>3, <1>4 DEF RequestInv, TypeOK
  <1>9. CountInv'
    BY <1>1, <1>2, <1>3, <1>4 DEF CountInv, TypeOK
  <1>10. FreeInv'
    BY <1>3, <1>4
  <1>11. NothingRecreated'
    BY <1>1, <1>2, <1>3, <1>4 DEF NothingRecreated, TypeOK
  <1>12. FaceInv'
    BY <1>3, <1>4
  <1>13. PassInv'
    BY <1>1, <1>2, <1>3, <1>4 DEF PassInv, TypeOK
  <1> QED BY <1>5, <1>6, <1>7, <1>8, <1>9, <1>10, <1>11, <1>12, <1>13

-----------------------------------------------------------------------------
LEMMA Invariance == IInv /\ [Next]_vars => IInv'
  <1> SUFFICES ASSUME IInv, [Next]_vars PROVE IInv'
    OBVIOUS
  <1>1. ASSUME NEW r \in Requests, NEW c \in Incarnations, Ask(r, c) \/ AskLate(r, c)
        PROVE  IInv'
    BY <1>1, AskKeeps, AskLateKeeps
  <1>2. ASSUME NEW r \in Requests,
               \/ StopWatching(r) \/ Claim(r) \/ ClaimLost(r) \/ ClaimThrows(r)
               \/ CallService(r) \/ TokenRefused(r) \/ Install(r) \/ NotDrawn(r)
               \/ Settle(r) \/ SettleThrows(r) \/ DieInstalling(r)
        PROVE  IInv'
    BY <1>2, StopWatchingKeeps, ClaimKeeps, ClaimLostKeeps, ClaimThrowsKeeps, CallServiceKeeps,
       TokenRefusedKeeps, InstallKeeps, NotDrawnKeeps, SettleKeeps, SettleThrowsKeeps,
       DieInstallingKeeps
  <1>3. ASSUME NEW c \in Incarnations,
               \/ PassOver(c) \/ LookAtInterrupted(c) \/ LookAtPresent(c)
               \/ BeginDeletion(c) \/ DrainTimeout(c) \/ Tombstone(c) \/ EraseTree(c)
               \/ EndDeletion(c) \/ Serve(c) \/ LoseFile(c) \/ LoseTree(c)
        PROVE  IInv'
    BY <1>3, PassOverKeeps, LookAtInterruptedKeeps, LookAtPresentKeeps, BeginDeletionKeeps,
       DrainTimeoutKeeps, TombstoneKeeps, EraseTreeKeeps, EndDeletionKeeps, ServeKeeps,
       LoseFileKeeps, LoseTreeKeeps
  <1>4. ASSUME \/ StartPass \/ SpendBudget \/ EndPass \/ Move \/ MoveRefused
               \/ BeginBuild \/ EndBuild \/ Die
        PROVE  IInv'
    BY <1>4, StartPassKeeps, SpendBudgetKeeps, EndPassKeeps, MoveKeeps, MoveRefusedKeeps,
       BeginBuildKeeps, EndBuildKeeps, DieKeeps
  <1>5. CASE UNCHANGED vars
    BY <1>5 DEF vars, rowVars, diskVars, reqVars, passVars, IInv, TypeOK, GateInv, AloneInv,
                RequestInv, CountInv, FreeInv, NothingRecreated, FaceInv, PassInv, Past, Occupied
  <1> QED BY <1>1, <1>2, <1>3, <1>4, <1>5 DEF Next, AttemptNext, PassNext, DeletionNext

THEOREM Always == Spec => []IInv
  BY Initially, Invariance, PTL DEF Spec

-----------------------------------------------------------------------------
(* The state of the rows, the files, the attempts and the recovery pass keeps its type.           *)
THEOREM TypeCorrect == Spec => []TypeOK
  <1>1. IInv => TypeOK
    BY DEF IInv
  <1> QED BY Always, <1>1, PTL

(* At most one request is past the claim of an incarnation, whatever recovery did while its look  *)
(* grew old. (claimLogoGeneration, stillTrue)                                                     *)
THEOREM OneDrawingHolds == Spec => []OneDrawing
  BY Always, Promises, PTL

(* No two answers for one incarnation show different drawings. (settleLogoGeneration)             *)
THEOREM OneFaceHolds == Spec => []OneFace
  BY Always, Promises, PTL

(* A row that may be drawn again has a free logo path. (inspectIncarnationTree, finalizeAttempt)  *)
THEOREM NeverBlockedHolds == Spec => []NeverBlocked
  BY Always, Promises, PTL

(* The service is called at most MaxAttempts times for an incarnation, crashes included.          *)
THEOREM PaidWithinHolds == Spec => []PaidWithin
  BY Always, Promises, PTL

(* No attempt puts anything back into the tree of a deleted incarnation.                          *)
THEOREM NothingRecreatedHolds == Spec => []NothingRecreated
  BY Always, Promises, PTL
=============================================================================
