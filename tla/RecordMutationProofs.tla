------------------------- MODULE RecordMutationProofs -------------------------
(***************************************************************************)
(* Proofs about a save: its transaction (RecordMutation), for any number   *)
(* of requests and statements, and what it writes into the links           *)
(* (LinkedText), for any capabilities, fields, records and texts.          *)
(*                                                                         *)
(* None of the transaction's promises is inductive alone.  What carries    *)
(* them is that ownership implies the lease (LeaseHeld), so whatever may   *)
(* write is the holder, and that while the holder's transaction stands it  *)
(* has all the holder's statements (Standing).  What a save does with the  *)
(* lease is what WriteLease allows (ImplementsWriteLease).                 *)
(*                                                                         *)
(* For the links, LinkIInv says where rows and texts may be, that no chain *)
(* of relations closes, and that what was typed under a sleeping relation  *)
(* has no row.  What a chain of links shows is Shown, carried through a    *)
(* refresh by what is still to be carried (Pending) and through a wake by  *)
(* the fields that already show (ShownIn).  The loops of a refresh and a   *)
(* wake are unrolled by well-founded induction over their rounds.          *)
(***************************************************************************)
EXTENDS RecordMutation, LinkedText, FiniteSetTheorems, WellFoundedInduction, TLAPS

(* The route that is active has the lease, and only it can own its reads. *)
LeaseHeld ==
    /\ \A r \in Requests : Active(r) <=> holder = r
    /\ \A r \in owned : holder = r

(* What the open transaction holds, and when a request can have succeeded. *)
Standing ==
    /\ ~open => pending = {}
    /\ \A r \in Requests : answer[r] = "ok" => route[r] \in {"settled", "done"}
    /\ \A r \in Requests : route[r] = "idle" => accepted \cap Of(r) = {}
    /\ \A r \in Requests : open /\ holder = r => accepted \cap Of(r) \subseteq pending

Inv == TypeOK /\ LeaseHeld /\ Standing /\ AllOrNothing /\ NoForeignWrite /\ PlatformWritesStand

-----------------------------------------------------------------------------
(* Init establishes the invariant. *)
LEMMA InitInv == Init => Inv
BY RecordMutationAssumption
   DEF Init, Inv, TypeOK, LeaseHeld, Active, Standing, AllOrNothing, NoForeignWrite, PlatformWritesStand, Of

(* Admission opens an empty transaction for a request that has written nothing. *)
LEMMA AdmitInv == ASSUME Inv, NEW r \in Requests, Admit(r) PROVE Inv'
<1> USE RecordMutationAssumption DEF Inv, Admit
<1>1. TypeOK'                                                 BY DEF TypeOK
<1>2. LeaseHeld'                                              BY DEF TypeOK, LeaseHeld, Active
<1>3. Standing'                                               BY DEF TypeOK, Standing, Of
<1>4. AllOrNothing'                                           BY DEF TypeOK, AllOrNothing, Of
<1>5. NoForeignWrite'                                         BY DEF TypeOK, Standing, NoForeignWrite
<1>6. PlatformWritesStand'                                    BY DEF PlatformWritesStand, Of
<1>7. QED                                                     BY <1>1, <1>2, <1>3, <1>4, <1>5, <1>6

(* Steps that touch neither the lease nor the connection. *)
LEMMA QuietInv ==
    ASSUME Inv, NEW r \in Requests,
           TurnAway(r) \/ Deadline(r) \/ GateCloses(r) \/ Settle(r) \/ HandlerAnswers(r)
    PROVE  Inv'
<1> USE DEF Inv, TurnAway, Deadline, GateCloses, Settle, HandlerAnswers, sqlite
<1>1. TypeOK'                                                 BY DEF TypeOK
<1>2. LeaseHeld'                                              BY DEF TypeOK, LeaseHeld, Active
<1>3. Standing'                                               BY DEF TypeOK, Standing, Of
<1>4. AllOrNothing'                                           BY DEF TypeOK, Standing, AllOrNothing, Of
<1>5. NoForeignWrite'                                         BY DEF NoForeignWrite, Of
<1>6. PlatformWritesStand'                                    BY DEF PlatformWritesStand, Of
<1>7. QED                                                     BY <1>1, <1>2, <1>3, <1>4, <1>5, <1>6

(* An invocation that ends without writing. *)
LEMMA FailsInv == ASSUME Inv, NEW r \in Requests, Fails(r) PROVE Inv'
<1> USE DEF Inv, Fails, Ends, sqlite
<1>1. TypeOK'                                                 BY DEF TypeOK
<1>2. LeaseHeld'                                              BY DEF TypeOK, LeaseHeld, Active
<1>3. Standing'                                               BY DEF TypeOK, Standing, Of
<1>4. AllOrNothing'                                           BY DEF TypeOK, Standing, AllOrNothing, Of
<1>5. NoForeignWrite'                                         BY DEF NoForeignWrite, Of
<1>6. PlatformWritesStand'                                    BY DEF PlatformWritesStand, Of
<1>7. QED                                                     BY <1>1, <1>2, <1>3, <1>4, <1>5, <1>6

(* Loading either calls the Handler or ends the invocation. *)
LEMMA LoadInv == ASSUME Inv, NEW r \in Requests, Load(r) PROVE Inv'
<1>1. CASE Fails(r)
  BY <1>1, FailsInv
<1>2. CASE r \in owned /\ run' = [run EXCEPT ![r] = "handling"]
           /\ UNCHANGED <<route, owned, answer, holder, sqlite, accepted>>
  BY <1>2 DEF Inv, TypeOK, LeaseHeld, Active, Standing, AllOrNothing, NoForeignWrite,
              PlatformWritesStand, Of, sqlite
<1>3. QED BY <1>1, <1>2 DEF Load

(* A statement of the holder, in the open transaction. *)
LEMMA ExecuteInv ==
    ASSUME Inv, NEW r \in Requests, r \in owned, open, NEW s \in Of(r), Execute(s),
           UNCHANGED <<route, owned, answer, holder>>,
           run' \in [Requests -> {"none", "loading", "handling", "answered", "over"}]
    PROVE  Inv'
<1> USE DEF Inv, Execute
<1>0. holder = r /\ Active(r) /\ r # "platform"
  BY RecordMutationAssumption DEF LeaseHeld
<1>1. TypeOK'                                                 BY DEF TypeOK
<1>2. LeaseHeld'                                              BY DEF LeaseHeld, Active
<1>3. Standing'                                               BY <1>0 DEF Standing, Of, Active
<1>4. AllOrNothing'                                           BY <1>0 DEF AllOrNothing, Of, Active
<1>5. NoForeignWrite'                                         BY <1>0 DEF NoForeignWrite, Of
<1>6. PlatformWritesStand'                                    BY <1>0 DEF PlatformWritesStand, Of
<1>7. QED                                                     BY <1>1, <1>2, <1>3, <1>4, <1>5, <1>6

(* Only the holder's window is open. *)
LEMMA WriteInv == ASSUME Inv, NEW r \in Requests, Write(r) PROVE Inv'
<1>1. PICK s \in Of(r) : Execute(s)                           BY DEF Write
<1>2. run' \in [Requests -> {"none", "loading", "handling", "answered", "over"}]
  BY DEF Write, Inv, TypeOK
<1>3. QED                                                     BY <1>1, <1>2, ExecuteInv DEF Write, WindowOpen

(* SQLite takes the transaction away: the holder has nothing, and cannot succeed any more. *)
LEMMA WriteEndsInv == ASSUME Inv, NEW r \in Requests, WriteEndsTransaction(r) PROVE Inv'
<1> USE DEF Inv, WriteEndsTransaction, Undo
<1>1. TypeOK'                                                 BY DEF TypeOK
<1>2. LeaseHeld'                                              BY DEF LeaseHeld, Active
<1>3. Standing'                                               BY DEF Standing, Of
<1>4. AllOrNothing'                                           BY DEF AllOrNothing, Of
<1>5. NoForeignWrite'                                         BY DEF NoForeignWrite
<1>6. PlatformWritesStand'                                    BY DEF PlatformWritesStand, Of
<1>7. QED                                                     BY <1>1, <1>2, <1>3, <1>4, <1>5, <1>6

(* The last write of a save, and the end of its invocation. *)
LEMMA FinishInv == ASSUME Inv, NEW r \in Requests, Finish(r) PROVE Inv'
<1> DEFINE Passed == r \in owned /\ open /\ Ends(r, "answering", "none") /\ UNCHANGED <<owned, holder>>
<1>1. CASE Fails(r)
  BY <1>1, FailsInv
<1>0. ASSUME Passed
      PROVE  /\ holder = r /\ Active(r) /\ r # "platform" /\ Active(r)' /\ route'[r] # "idle"
             /\ \A q \in Requests : q # r => route'[q] = route[q] /\ answer'[q] = answer[q]
             /\ answer[r] # "ok" => answer'[r] # "ok"
             /\ route[r] # "done" /\ route'[r] # "done"
  BY <1>0, RecordMutationAssumption DEF Inv, TypeOK, LeaseHeld, Active, Ends
<1>2. ASSUME Passed, NEW s \in Of(r), Execute(s)
      PROVE  Inv'
  <2> USE <1>2, <1>0 DEF Inv, Execute
  <2>1. TypeOK'                                               BY DEF TypeOK, Ends
  <2>2. LeaseHeld'                                              BY DEF TypeOK, LeaseHeld, Active, Ends
  <2>3. answer'[r] = "ok" => route'[r] = "settled"            BY DEF TypeOK, Standing, Active, Ends
  <2>4. Standing'                                             BY <2>3 DEF Standing, Of
  <2>5. AllOrNothing'                                         BY <2>3 DEF AllOrNothing, Of
  <2>6. NoForeignWrite'                                       BY DEF NoForeignWrite, Of
  <2>7. PlatformWritesStand'                                  BY DEF PlatformWritesStand, Of
  <2>8. QED                                                   BY <2>1, <2>2, <2>4, <2>5, <2>6, <2>7
<1>3. ASSUME Passed, UNCHANGED <<sqlite, accepted>>
      PROVE  Inv'
  <2> USE <1>3, <1>0 DEF Inv, sqlite
  <2>1. TypeOK'                                               BY DEF TypeOK, Ends
  <2>2. LeaseHeld'                                              BY DEF TypeOK, LeaseHeld, Active, Ends
  <2>3. answer'[r] = "ok" => route'[r] = "settled"            BY DEF TypeOK, Standing, Active, Ends
  <2>4. Standing'                                             BY <2>3 DEF Standing, Of
  <2>5. AllOrNothing'                                         BY <2>3 DEF AllOrNothing, Of
  <2>6. NoForeignWrite'                                       BY DEF NoForeignWrite, Of
  <2>7. PlatformWritesStand'                                  BY DEF PlatformWritesStand, Of
  <2>8. QED                                                   BY <2>1, <2>2, <2>4, <2>5, <2>6, <2>7
<1>4. QED BY <1>1, <1>2, <1>3 DEF Finish

(* Closing: a commit takes all the holder's statements and nobody else's, a rollback takes none. *)
LEMMA CloseInv == ASSUME Inv, NEW r \in Requests, Close(r) PROVE Inv'
<1> USE RecordMutationAssumption DEF Inv, Close
<1>0. holder = r /\ Active(r)                                 BY DEF LeaseHeld, Active
<1>1. TypeOK'                                                 BY DEF TypeOK, Commit, Undo
<1>2. LeaseHeld'                                              BY <1>0 DEF TypeOK, LeaseHeld, Active
<1>3. Standing'                                   BY <1>0 DEF TypeOK, Standing, Of, Commit, Undo
<1>4. AllOrNothing'
  <2>1. CASE answer[r] = "ok" /\ open /\ Commit /\ UNCHANGED answer
    BY <1>0, <2>1 DEF TypeOK, Standing, AllOrNothing, NoForeignWrite, Of, Commit, Active
  <2>2. CASE answer' = [answer EXCEPT ![r] = "failed"] /\ Undo
    BY <1>0, <2>2 DEF TypeOK, AllOrNothing, Of, Undo, Active
  <2>3. QED BY <2>1, <2>2
<1>5. NoForeignWrite'                                         BY DEF NoForeignWrite, Commit, Undo
<1>6. PlatformWritesStand'                             BY DEF PlatformWritesStand, Of, Commit, Undo
<1>7. QED                                                     BY <1>1, <1>2, <1>3, <1>4, <1>5, <1>6

(* A platform write finds the lease free, so no transaction open: it commits at once. *)
LEMMA PlatformWriteInv == ASSUME Inv, PlatformWrite PROVE Inv'
<1> USE RecordMutationAssumption DEF Inv, PlatformWrite, Execute
<1>0. ~open                                                   BY DEF TypeOK
<1>1. TypeOK'                                                 BY <1>0 DEF TypeOK
<1>2. LeaseHeld'                                              BY DEF LeaseHeld, Active
<1>3. Standing'                                               BY <1>0 DEF Standing, Of
<1>4. AllOrNothing'                                           BY <1>0 DEF AllOrNothing, Of
<1>5. NoForeignWrite'                                         BY <1>0 DEF NoForeignWrite, Of
<1>6. PlatformWritesStand'                                    BY <1>0 DEF PlatformWritesStand, Of
<1>7. QED                                                     BY <1>1, <1>2, <1>3, <1>4, <1>5, <1>6

(* The invariant is inductive. *)
LEMMA NextInv == Inv /\ [Next]_vars => Inv'
<1> SUFFICES ASSUME Inv, [Next]_vars PROVE Inv'               OBVIOUS
<1>1. CASE UNCHANGED vars
  BY <1>1 DEF vars, sqlite, Inv, TypeOK, LeaseHeld, Active, Standing, AllOrNothing, NoForeignWrite,
              PlatformWritesStand, Of
<1>2. ASSUME NEW r \in Requests,
             TurnAway(r) \/ Deadline(r) \/ GateCloses(r) \/ Settle(r) \/ HandlerAnswers(r)
      PROVE  Inv'                                             BY <1>2, QuietInv
<1>3. ASSUME NEW r \in Requests, HandlerThrows(r) PROVE Inv'  BY <1>3, FailsInv DEF HandlerThrows
<1>4. CASE Next
  BY <1>2, <1>3, <1>4, AdmitInv, LoadInv, WriteInv, WriteEndsInv, FinishInv, CloseInv, PlatformWriteInv
     DEF Next
<1>5. QED BY <1>1, <1>4

-----------------------------------------------------------------------------
(* Every behaviour satisfies the invariant. *)
LEMMA Invariant == Spec => []Inv
BY InitInv, NextInv, PTL DEF Spec

(* The state of a save keeps its type, and no transaction is open without the lease. *)
THEOREM TypeCorrect == Spec => []TypeOK
<1>1. Inv => TypeOK BY DEF Inv
<1>2. QED           BY <1>1, Invariant, PTL

(* "ok" means saved whole and anything else means not saved at all, for any Handler. *)
THEOREM AllOrNothingHolds == Spec => []AllOrNothing
<1>1. Inv => AllOrNothing BY DEF Inv
<1>2. QED                 BY <1>1, Invariant, PTL

(* No abandoned Handler ever writes into the transaction of another save. *)
THEOREM NoForeignWriteHolds == Spec => []NoForeignWrite
<1>1. Inv => NoForeignWrite BY DEF Inv
<1>2. QED                   BY <1>1, Invariant, PTL

(* No platform write is ever taken back by the rollback of a save. *)
THEOREM PlatformWritesStandHolds == Spec => []PlatformWritesStand
<1>1. Inv => PlatformWritesStand BY DEF Inv
<1>2. QED                        BY <1>1, Invariant, PTL

-----------------------------------------------------------------------------
(* a save's use of the lease *)

(* An invocation begins with the admission and is not forgotten: who was turned away has none. *)
Begun ==
    \A r \in Requests : /\ route[r] = "idle" => run[r] = "none"
                        /\ Active(r) => run[r] # "none"

(* Those who held the lease and gave it up: closed, and not just turned away. *)
GaveBack == {r \in Requests : route[r] = "done" /\ run[r] # "none"}

Lease == INSTANCE WriteLease WITH NoOne <- "free", done <- GaveBack

(* Every step keeps Begun: only an admission starts an invocation, and none is ever unstarted. *)
LEMMA BegunKept == TypeOK /\ Begun /\ [Next]_vars => Begun'
<1> SUFFICES ASSUME TypeOK, Begun, [Next]_vars PROVE Begun'  OBVIOUS
<1> USE DEF TypeOK, Begun, Active
<1>1. CASE UNCHANGED vars                                    BY <1>1 DEF vars
<1>2. CASE PlatformWrite                                     BY <1>2 DEF PlatformWrite
<1>3. ASSUME NEW r \in Requests,
             Admit(r) \/ TurnAway(r) \/ Deadline(r) \/ GateCloses(r) \/ Settle(r) \/ Close(r)
      PROVE  Begun'
  BY <1>3 DEF Admit, TurnAway, Deadline, GateCloses, Settle, Close
<1>4. ASSUME NEW r \in Requests,
             \/ Load(r) \/ Write(r) \/ WriteEndsTransaction(r)
             \/ HandlerAnswers(r) \/ HandlerThrows(r) \/ Finish(r)
      PROVE  Begun'
  BY <1>4 DEF Load, Write, WriteEndsTransaction, HandlerAnswers, HandlerThrows, Finish, Fails, Ends
<1>5. QED BY <1>1, <1>2, <1>3, <1>4 DEF Next

(* Whatever is neither an admission nor a close leaves the lease and those who returned it alone. *)
LEMMA OthersLeaveTheLease ==
    ASSUME TypeOK, Begun, [Next]_vars, \A r \in Requests : ~Admit(r) /\ ~Close(r)
    PROVE  holder' = holder /\ GaveBack' = GaveBack
<1> USE DEF TypeOK, Begun, Active, GaveBack
<1>1. CASE UNCHANGED vars                                    BY <1>1 DEF vars
<1>2. CASE PlatformWrite                                     BY <1>2 DEF PlatformWrite
<1>3. ASSUME NEW r \in Requests, TurnAway(r) \/ Deadline(r) \/ GateCloses(r) \/ Settle(r)
      PROVE  holder' = holder /\ GaveBack' = GaveBack
  BY <1>3 DEF TurnAway, Deadline, GateCloses, Settle
<1>4. ASSUME NEW r \in Requests,
             \/ Load(r) \/ Write(r) \/ WriteEndsTransaction(r)
             \/ HandlerAnswers(r) \/ HandlerThrows(r) \/ Finish(r)
      PROVE  holder' = holder /\ GaveBack' = GaveBack
  BY <1>4 DEF Load, Write, WriteEndsTransaction, HandlerAnswers, HandlerThrows, Finish, Fails, Ends
<1>5. QED BY <1>1, <1>2, <1>3, <1>4 DEF Next

(* A save takes the lease as WriteLease grants it and gives it up itself, once: it keeps it over
   every await of its Handler, and is never admitted again after it closed. *)
THEOREM ImplementsWriteLease == Spec => Lease!Spec
<1>1. Init => Begun /\ Lease!Init
  BY DEF Init, Begun, Active, GaveBack, Lease!Init
<1>2. ASSUME Inv, Begun, [Next]_vars
      PROVE  [Lease!Next]_<<holder, GaveBack>>
  <2> USE <1>2, RecordMutationAssumption DEF Inv
  <2>1. CASE \A r \in Requests : ~Admit(r) /\ ~Close(r)
    BY <2>1, OthersLeaveTheLease
  <2>2. ASSUME NEW r \in Requests, Admit(r) PROVE Lease!Next
    <3>1. GaveBack' = GaveBack /\ r \notin GaveBack
      BY <2>2 DEF Admit, GaveBack, TypeOK, Begun
    <3>2. Lease!Grant(r)
      BY <2>2, <3>1 DEF Admit, Lease!Grant
    <3>3. QED BY <3>2 DEF Lease!Next
  <2>3. ASSUME NEW r \in Requests, Close(r) PROVE Lease!Next
    <3>1. holder = r /\ run[r] # "none"
      BY <2>3 DEF Close, LeaseHeld, Active, Begun
    <3>2. GaveBack' = GaveBack \cup {r} /\ holder' = "free"
      BY <2>3, <3>1 DEF Close, GaveBack, TypeOK
    <3>3. Lease!GiveUp(r)
      BY <3>1, <3>2 DEF Lease!GiveUp
    <3>4. QED BY <3>3 DEF Lease!Next
  <2>4. QED BY <2>1, <2>2, <2>3
<1>3. Inv /\ Begun /\ [Next]_vars => Begun'
  BY BegunKept DEF Inv
<1>4. QED BY <1>1, <1>2, <1>3, Invariant, PTL DEF Spec, Lease!Spec
-----------------------------------------------------------------------------
(* loops over a finite order, by well-founded induction over its places *)

(* Induction over a set. *)
LEMMA Inductive ==
    ASSUME NEW S, 0 \in S, \A n \in Nat : n \in S => n + 1 \in S
    PROVE  Nat \subseteq S
<1> DEFINE below == OpToRel(<, Nat)
<1>1. IsWellFoundedOn(below, Nat)
  BY NatLessThanWellFounded, Zenon
<1>2. ASSUME NEW m \in Nat, NEW n \in Nat, m < n PROVE <<m, n>> \in below
  BY <1>2, Zenon DEF OpToRel
<1> HIDE DEF below
<1> SUFFICES ASSUME Nat \ S # {} PROVE FALSE
  OBVIOUS
<1>3. PICK n \in Nat \ S : \A m \in Nat \ S : <<m, n>> \notin below
  BY <1>1, WFMin
<1>4. n # 0 /\ n - 1 \in Nat /\ n - 1 < n /\ (n - 1) + 1 = n
  OBVIOUS
<1>5. n - 1 \in S
  BY <1>2, <1>3, <1>4
<1> QED BY <1>3, <1>4, <1>5

IsRun(f, N, s, step) == f[0] = s /\ \A n \in 1 .. N : f[n] = step[<<f[n - 1], n>>]

(* A step can be repeated N times. *)
LEMMA Iterates ==
    ASSUME NEW D, NEW N \in Nat, NEW step \in [D \X (1 .. N) -> D], NEW s \in D
    PROVE  \E f \in [0 .. N -> D] : IsRun(f, N, s, step)
<1> DEFINE upTo(f, m) == f[0] = s /\ \A n \in 1 .. m : f[n] = step[<<f[n - 1], n>>]
           S == {m \in Nat : m <= N => \E f \in [0 .. N -> D] : upTo(f, m)}
<1>1. 0 \in S
  <2>1. [n \in 0 .. N |-> s] \in [0 .. N -> D] /\ upTo([n \in 0 .. N |-> s], 0)
    OBVIOUS
  <2> QED BY <2>1
<1>2. ASSUME NEW m \in Nat, m \in S PROVE m + 1 \in S
  <2> SUFFICES ASSUME m + 1 <= N PROVE \E f \in [0 .. N -> D] : upTo(f, m + 1)
    OBVIOUS
  <2>1. PICK f \in [0 .. N -> D] : upTo(f, m)
    BY <1>2
  <2> DEFINE g == [f EXCEPT ![m + 1] = step[<<f[m], m + 1>>]]
  <2>3. m \in 0 .. N /\ m + 1 \in 0 .. N /\ m + 1 \in 1 .. N /\ f[m] \in D
    BY <2>1
  <2>4. g[m + 1] = step[<<f[m], m + 1>>] /\ g \in [0 .. N -> D]
    BY <2>1, <2>3
  <2>5. \A n \in 0 .. m : g[n] = f[n]
    BY <2>1, <2>3
  <2>6. g[0] = s
    BY <2>1, <2>5
  <2>7. ASSUME NEW n \in 1 .. m + 1 PROVE g[n] = step[<<g[n - 1], n>>]
    <3> HIDE DEF g
    <3>1. CASE n = m + 1
      <4>1. m \in 0 .. m /\ n - 1 = m
        BY <3>1
      <4>2. g[n - 1] = f[m]
        BY <2>5, <4>1
      <4> QED BY <2>4, <3>1, <4>2
    <3>2. CASE n # m + 1
      <4>1. n \in 1 .. m /\ n - 1 \in 0 .. m /\ n \in 0 .. m
        BY <3>2
      <4> QED BY <2>1, <2>5, <4>1
    <3> QED BY <3>1, <3>2
  <2> QED BY <2>4, <2>6, <2>7
<1>3. N \in S
  <2> HIDE DEF S
  <2> QED BY <1>1, <1>2, Inductive
<1>4. PICK f \in [0 .. N -> D] : upTo(f, N)
  BY <1>3
<1> QED BY <1>4 DEF IsRun

(* What holds at the start of a walk, and after a step when it held before, holds at the end. *)
LEMMA Staged ==
    ASSUME NEW N \in Nat, NEW stage, NEW walk, walk[0] \in stage[0],
           \A n \in 1 .. N : walk[n - 1] \in stage[n - 1] => walk[n] \in stage[n]
    PROVE  walk[N] \in stage[N]
<1> DEFINE S == {n \in Nat : n <= N => walk[n] \in stage[n]}
<1>1. 0 \in S
  OBVIOUS
<1>2. ASSUME NEW n \in Nat, n \in S PROVE n + 1 \in S
  <2> SUFFICES ASSUME n + 1 <= N PROVE walk[n + 1] \in stage[n + 1]
    OBVIOUS
  <2>1. n + 1 \in 1 .. N /\ (n + 1) - 1 = n /\ walk[n] \in stage[n]
    BY <1>2
  <2> QED BY <2>1
<1>3. N \in S
  <2> HIDE DEF S
  <2> QED BY <1>1, <1>2, Inductive
<1> QED BY <1>3

(* The stages of a refresh: what each round keeps, the refresh keeps. *)
LEMMA RefreshStages ==
    ASSUME NEW r, NEW form, NEW order, Len(order) \in Nat, NEW D,
           NEW stage \in [0 .. Len(order) -> SUBSET D],
           Saved(r, form) \in stage[0],
           \A db \in D : \A n \in 1 .. Len(order) : Follow(db, <<r, order[n]>>, After(r, form,
           order[n])) \in D,
           \A n \in 1 .. Len(order) : \A db \in stage[n - 1] : Follow(db, <<r, order[n]>>,
           After(r, form, order[n])) \in stage[n]
    PROVE  Refreshed(r, form, order) \in stage[Len(order)]
<1> DEFINE N == Len(order)
           next(db, n) == Follow(db, <<r, order[n]>>, After(r, form, order[n]))
           s == Saved(r, form)
           step == [x \in D \X (1 .. N) |-> next(x[1], x[2])]
           db[n \in 0 .. N] == IF n = 0 THEN s ELSE next(db[n - 1], n)
<1>1. Refreshed(r, form, order) = db[N]
  BY DEF Refreshed
<1>2. N \in Nat /\ s \in D /\ step \in [D \X (1 .. N) -> D]
  OBVIOUS
<1>3. PICK f \in [0 .. N -> D] : IsRun(f, N, s, step)
  <2> HIDE DEF step, s, N
  <2> QED BY <1>2, Iterates
<1>4. f = [n \in 0 .. N |-> IF n = 0 THEN s ELSE next(f[n - 1], n)]
  <2>1. ASSUME NEW n \in 1 .. N PROVE step[<<f[n - 1], n>>] = next(f[n - 1], n)
    <3> HIDE DEF N, next, s
    <3>1. n - 1 \in 0 .. N
      BY <1>2
    <3> QED BY <3>1
  <2> HIDE DEF next, N, step, s
  <2>2. \A n \in 0 .. N : f[n] = IF n = 0 THEN s ELSE next(f[n - 1], n)
    <3> SUFFICES ASSUME NEW n \in 0 .. N, n # 0 PROVE f[n] = next(f[n - 1], n)
      BY <1>3 DEF IsRun
    <3>1. n \in 1 .. N
      BY <1>2
    <3> QED BY <1>3, <2>1, <3>1 DEF IsRun
  <2> QED BY <2>2
<1>5. db = [n \in 0 .. N |-> IF n = 0 THEN s ELSE next(db[n - 1], n)]
  <2> HIDE DEF next, N, s
  <2> QED BY <1>4
<1>6. \A n \in 0 .. N : db[n] = IF n = 0 THEN s ELSE next(db[n - 1], n)
  <2> HIDE DEF next, N, db, s
  <2> QED BY <1>5
<1>7. db[0] \in stage[0]
  <2> HIDE DEF N, db, s
  <2>1. 0 \in 0 .. N
    BY <1>2
  <2>2. db[0] = s
    BY <1>6, <2>1
  <2> QED BY <2>2 DEF s
<1>8. ASSUME NEW n \in 1 .. N, db[n - 1] \in stage[n - 1] PROVE db[n] \in stage[n]
  <2>1. next(db[n - 1], n) \in stage[n]
    <3> HIDE DEF db
    <3> QED BY <1>8
  <2> HIDE DEF db, N, next
  <2>2. n \in 0 .. N /\ n # 0
    BY <1>2
  <2> QED BY <1>6, <2>1, <2>2
<1>9. db[N] \in stage[N]
  <2> HIDE DEF N, db
  <2> QED BY <1>2, <1>7, <1>8, Staged
<1> QED BY <1>1, <1>9

(* The stages of a revival. *)
LEMMA RevivalStages ==
    ASSUME NEW order, NEW holding, Len(order) \in Nat, NEW D,
           NEW stage \in [0 .. Len(order) -> SUBSET D],
           Tables \in stage[0],
           \A db \in D : \A n \in 1 .. Len(order) : Revive(db, order[n], holding) \in D,
           \A n \in 1 .. Len(order) : \A db \in stage[n - 1] : Revive(db, order[n],
           holding) \in stage[n]
    PROVE  Revived(order, holding) \in stage[Len(order)]
<1> DEFINE N == Len(order)
           next(db, n) == Revive(db, order[n], holding)
           s == Tables
           step == [x \in D \X (1 .. N) |-> next(x[1], x[2])]
           db[n \in 0 .. N] == IF n = 0 THEN s ELSE next(db[n - 1], n)
<1>1. Revived(order, holding) = db[N]
  BY DEF Revived
<1>2. N \in Nat /\ s \in D /\ step \in [D \X (1 .. N) -> D]
  OBVIOUS
<1>3. PICK f \in [0 .. N -> D] : IsRun(f, N, s, step)
  <2> HIDE DEF step, s, N
  <2> QED BY <1>2, Iterates
<1>4. f = [n \in 0 .. N |-> IF n = 0 THEN s ELSE next(f[n - 1], n)]
  <2>1. ASSUME NEW n \in 1 .. N PROVE step[<<f[n - 1], n>>] = next(f[n - 1], n)
    <3> HIDE DEF N, next, s
    <3>1. n - 1 \in 0 .. N
      BY <1>2
    <3> QED BY <3>1
  <2> HIDE DEF next, N, step, s
  <2>2. \A n \in 0 .. N : f[n] = IF n = 0 THEN s ELSE next(f[n - 1], n)
    <3> SUFFICES ASSUME NEW n \in 0 .. N, n # 0 PROVE f[n] = next(f[n - 1], n)
      BY <1>3 DEF IsRun
    <3>1. n \in 1 .. N
      BY <1>2
    <3> QED BY <1>3, <2>1, <3>1 DEF IsRun
  <2> QED BY <2>2
<1>5. db = [n \in 0 .. N |-> IF n = 0 THEN s ELSE next(db[n - 1], n)]
  <2> HIDE DEF next, N, s
  <2> QED BY <1>4
<1>6. \A n \in 0 .. N : db[n] = IF n = 0 THEN s ELSE next(db[n - 1], n)
  <2> HIDE DEF next, N, db, s
  <2> QED BY <1>5
<1>7. db[0] \in stage[0]
  <2> HIDE DEF N, db, s
  <2>1. 0 \in 0 .. N
    BY <1>2
  <2>2. db[0] = s
    BY <1>6, <2>1
  <2> QED BY <2>2 DEF s
<1>8. ASSUME NEW n \in 1 .. N, db[n - 1] \in stage[n - 1] PROVE db[n] \in stage[n]
  <2>1. next(db[n - 1], n) \in stage[n]
    <3> HIDE DEF db
    <3> QED BY <1>8
  <2> HIDE DEF db, N, next
  <2>2. n \in 0 .. N /\ n # 0
    BY <1>2
  <2> QED BY <1>6, <2>1, <2>2
<1>9. db[N] \in stage[N]
  <2> HIDE DEF N, db
  <2> QED BY <1>2, <1>7, <1>8, Staged
<1> QED BY <1>1, <1>9

(* The stages of the matching that follows it. *)
LEMMA MatchStages ==
    ASSUME NEW order, NEW holding, Len(order) \in Nat, NEW D,
           NEW stage \in [0 .. Len(order) -> SUBSET D],
           Revived(order, holding) \in stage[0],
           \A db \in D : \A n \in 1 .. Len(order) : MatchUnlinked(db, order[n]) \in D,
           \A n \in 1 .. Len(order) : \A db \in stage[n - 1] : MatchUnlinked(db,
           order[n]) \in stage[n]
    PROVE  Woken(order, holding) \in stage[Len(order)]
<1> DEFINE N == Len(order)
           next(db, n) == MatchUnlinked(db, order[n])
           s == Revived(order, holding)
           step == [x \in D \X (1 .. N) |-> next(x[1], x[2])]
           db[n \in 0 .. N] == IF n = 0 THEN s ELSE next(db[n - 1], n)
<1>1. Woken(order, holding) = db[N]
  BY DEF Woken
<1>2. N \in Nat /\ s \in D /\ step \in [D \X (1 .. N) -> D]
  OBVIOUS
<1>3. PICK f \in [0 .. N -> D] : IsRun(f, N, s, step)
  <2> HIDE DEF step, s, N
  <2> QED BY <1>2, Iterates
<1>4. f = [n \in 0 .. N |-> IF n = 0 THEN s ELSE next(f[n - 1], n)]
  <2>1. ASSUME NEW n \in 1 .. N PROVE step[<<f[n - 1], n>>] = next(f[n - 1], n)
    <3> HIDE DEF N, next, s
    <3>1. n - 1 \in 0 .. N
      BY <1>2
    <3> QED BY <3>1
  <2> HIDE DEF next, N, step, s
  <2>2. \A n \in 0 .. N : f[n] = IF n = 0 THEN s ELSE next(f[n - 1], n)
    <3> SUFFICES ASSUME NEW n \in 0 .. N, n # 0 PROVE f[n] = next(f[n - 1], n)
      BY <1>3 DEF IsRun
    <3>1. n \in 1 .. N
      BY <1>2
    <3> QED BY <1>3, <2>1, <3>1 DEF IsRun
  <2> QED BY <2>2
<1>5. db = [n \in 0 .. N |-> IF n = 0 THEN s ELSE next(db[n - 1], n)]
  <2> HIDE DEF next, N, s
  <2> QED BY <1>4
<1>6. \A n \in 0 .. N : db[n] = IF n = 0 THEN s ELSE next(db[n - 1], n)
  <2> HIDE DEF next, N, db, s
  <2> QED BY <1>5
<1>7. db[0] \in stage[0]
  <2> HIDE DEF N, db, s
  <2>1. 0 \in 0 .. N
    BY <1>2
  <2>2. db[0] = s
    BY <1>6, <2>1
  <2> QED BY <2>2 DEF s
<1>8. ASSUME NEW n \in 1 .. N, db[n - 1] \in stage[n - 1] PROVE db[n] \in stage[n]
  <2>1. next(db[n - 1], n) \in stage[n]
    <3> HIDE DEF db
    <3> QED BY <1>8
  <2> HIDE DEF db, N, next
  <2>2. n \in 0 .. N /\ n # 0
    BY <1>2
  <2> QED BY <1>6, <2>1, <2>2
<1>9. db[N] \in stage[N]
  <2> HIDE DEF N, db
  <2> QED BY <1>2, <1>7, <1>8, Staged
<1> QED BY <1>1, <1>9

Db == [text : [Cells -> Texts], pick : [Cells -> Records \cup {None}]]

LinkTypeOK ==
    /\ there \subseteq Caps /\ linkable \subseteq Fields /\ records \subseteq Records
    /\ rel \in [Fields -> Fields \cup {None}]
    /\ Tables \in Db
    /\ lapsed \subseteq Fields /\ typed \subseteq Cells

(* What is in the tables belongs to records that exist and to relations that stand. *)
Founded(db) ==
    \A c \in Cells :
        /\ db.text[c] # Blank => c[1] \in records
        /\ db.pick[c] # None =>
             /\ {c[1], db.pick[c]} \subseteq records
             /\ rel[c[2]] # None /\ CapOf[rel[c[2]]] = HomeOf[db.pick[c]]

Relations ==
    \A f \in Fields : rel[f] # None =>
        /\ {CapOf[f], CapOf[rel[f]]} \subseteq there /\ CapOf[f] # CapOf[rel[f]]
        /\ ~Reaches(rel[f], f)

(* Nobody has linked what was typed while the relation of its field slept. *)
Unlinked == \A c \in typed : Asleep(c[2]) /\ pick[c] = None

LinkIInv == LinkTypeOK /\ Founded(Tables) /\ Relations /\ Unlinked

-----------------------------------------------------------------------------
(* cells, orders and forms *)

(* What the assumption says of cells, fields and records. *)
LEMMA CellFacts ==
    /\ \A c \in Cells : /\ c[1] \in Records /\ c[2] \in Fields /\ HomeOf[c[1]] = CapOf[c[2]]
                        /\ c = <<c[1], c[2]>>
    /\ \A s \in Records, f \in Fields : HomeOf[s] = CapOf[f] => <<s, f>> \in Cells
    /\ None \notin Records /\ None \notin Fields /\ Blank \in Texts
    /\ \A f \in Fields : CapOf[f] \in Caps
    /\ \A s \in Records : HomeOf[s] \in Caps
BY LinkedTextAssumption DEF Cells

(* An order of a set of fields names each of them once. *)
LEMMA OrderFacts ==
    ASSUME NEW S \in SUBSET Fields, NEW order \in SetToSeqs(S)
    PROVE  /\ Len(order) \in Nat
           /\ \A n \in 1 .. Len(order) : order[n] \in S
           /\ \A f \in S : \E n \in 1 .. Len(order) : order[n] = f
           /\ \A m, n \in 1 .. Len(order) : order[m] = order[n] => m = n
<1>1. IsFiniteSet(S) /\ Cardinality(S) \in Nat
  BY LinkedTextAssumption, FS_Subset, FS_CardinalityType
<1> DEFINE N == Cardinality(S)
<1>2. order \in [1 .. N -> S] /\ \A m, n \in 1 .. N : order[m] = order[n] => m = n
  BY DEF SetToSeqs
<1> HIDE DEF N
<1>3. order \in Seq(S) /\ Len(order) = N
  BY <1>1, <1>2 DEF N
<1>4. order \in Injection(1 .. N, S)
  BY <1>2 DEF Injection, IsInjective
<1>5. Cardinality(1 .. N) = N
  BY <1>1, FS_Interval DEF N
<1>6. order \in Surjection(1 .. N, S)
  BY <1>1, <1>4, <1>5, FS_Injection DEF N
<1>7. \A f \in S : \E n \in 1 .. N : order[n] = f
  BY <1>6 DEF Surjection
<1> QED BY <1>1, <1>2, <1>3, <1>7 DEF N

(* What a form may say of a field. *)
LEMMA FormFacts ==
    ASSUME NEW cap, NEW form \in Forms(cap), NEW f \in FieldsOf(cap)
    PROVE  /\ f \in Fields /\ CapOf[f] = cap
           /\ form[f].how \in {"unsubmitted", "plain", "linked", "pick"}
           /\ form[f].how = "pick" => Holds(f) /\ form[f].record \in Records
           /\ form[f].how \in {"plain", "linked"} => form[f].text \in Texts
<1>1. form[f] \in Entry(f)
  BY DEF Forms
<1>2. ASSUME NEW e \in Entry(f)
      PROVE  /\ e.how \in {"unsubmitted", "plain", "linked", "pick"}
             /\ e.how = "pick" => Holds(f) /\ e.record \in Records
             /\ e.how \in {"plain", "linked"} => e.text \in Texts
  BY DEF Entry
<1> QED BY <1>1, <1>2 DEF FieldsOf

(* An accepted form stores a text. *)
LEMMA StoredText ==
    ASSUME LinkTypeOK, NEW cap, NEW form \in Forms(cap), NEW f \in FieldsOf(cap),
           NEW before \in Texts, Accepted(form, f, before)
    PROVE  Stored(form, f, before) \in Texts
<1>1. CASE form[f].how = "pick"
  <2>1. Holds(f) /\ form[f].record \in Records /\ HomeOf[form[f].record] = CapOf[rel[f]]
          /\ f \in Fields
    BY <1>1, FormFacts DEF Accepted, Pickable
  <2>2. rel[f] \in Fields
    BY <2>1 DEF Holds, LinkTypeOK
  <2>3. <<form[f].record, rel[f]>> \in Cells
    BY <2>1, <2>2, CellFacts
  <2> QED BY <1>1, <2>3 DEF Stored, LinkTypeOK, Db, Tables
<1>2. CASE form[f].how # "pick"
  BY <1>2, FormFacts DEF Stored
<1> QED BY <1>1, <1>2

-----------------------------------------------------------------------------
(* what the writes to the tables do *)

(* The cells downstream are the least that follow: each leads to another or to one of the cells,
   and whatever leads there is among them. *)
LEMMA DownstreamFacts ==
    ASSUME NEW db \in Db, NEW cells \in SUBSET Cells, NEW holding
    PROVE  /\ \A c \in Downstream(db, cells, holding) :
                /\ c \in Cells \ cells /\ c[2] \in holding /\ db.pick[c] # None
                /\ Target(db, c) \in cells \cup Downstream(db, cells, holding)
           /\ \A c \in Cells \ cells :
                c[2] \in holding /\ Target(db, c) \in cells \cup Downstream(db, cells, holding)
                  => c \in Downstream(db, cells, holding)
<1> DEFINE down == Downstream(db, cells, holding)
           closed(S) == /\ S \in SUBSET Cells /\ cells \subseteq S
                        /\ \A c \in Cells : c[2] \in holding /\ Target(db, c) \in S => c \in S
<1>1. \A c : c \in down <=> c \in Cells \ cells /\ \A S : closed(S) => c \in S
  BY DEF Downstream
<1>2. closed(cells \cup down)
  <2> SUFFICES ASSUME NEW c \in Cells, c[2] \in holding, Target(db, c) \in cells \cup down,
                      c \notin cells, NEW S, closed(S)
               PROVE  c \in S
    BY <1>1
  <2> QED BY <1>1
<1> HIDE DEF down
<1> DEFINE near == cells \cup {c \in down : c[2] \in holding /\ Target(db, c) \in cells \cup down}
<1>3. closed(near)
  BY <1>1, <1>2
<1>4. \A c \in down : c[2] \in holding /\ Target(db, c) \in cells \cup down
  BY <1>1, <1>3
<1>5. \A c \in Cells : Target(db, c) \in Cells => db.pick[c] # None
  BY CellFacts DEF Target
<1>6. \A c \in down : c \in Cells \ cells
  BY <1>1
<1>7. QED BY <1>2, <1>4, <1>5, <1>6 DEF down

(* Whatever is downstream picks something. *)
LEMMA DownstreamPicks ==
    ASSUME NEW db \in Db, NEW cells \in SUBSET Cells, NEW holding
    PROVE  \A c \in Downstream(db, cells, holding) : db.pick[c] # None
BY DownstreamFacts

(* Letting links go leaves every text alone. *)
LEMMA LetGoFacts ==
    ASSUME NEW db \in Db, NEW cells
    PROVE  /\ LetGo(db, cells) \in Db /\ LetGo(db, cells).text = db.text
           /\ \A c \in Cells : LetGo(db, cells).pick[c] =
                                IF Target(db, c) \in cells THEN None ELSE db.pick[c]
<1> DEFINE new == LetGo(db, cells)
<1>1. new = [text |-> db.text,
             pick |-> [c \in Cells |-> IF Target(db, c) \in cells THEN None ELSE db.pick[c]]]
  BY DEF LetGo, Db
<1> QED BY <1>1 DEF Db

(* A round for a text that was cleared lets its links go. *)
LEMMA FollowBlank ==
    ASSUME NEW db \in Db, NEW cell \in Cells
    PROVE  /\ Follow(db, cell, Blank) \in Db
           /\ Follow(db, cell, Blank).text = db.text
           /\ \A c \in Cells : Target(db, c) = cell => Follow(db, cell, Blank).pick[c] = None
           /\ \A c \in Cells : Target(db, c) # cell => Follow(db, cell, Blank).pick[c] = db.pick[c]
BY LetGoFacts DEF Follow

(* A round for a text carries it down every chain, and keeps every link. *)
LEMMA FollowText ==
    ASSUME NEW db \in Db, NEW cell \in Cells, NEW shown \in Texts, shown # Blank
    PROVE  /\ Follow(db, cell, shown) \in Db
           /\ Follow(db, cell, shown).pick = db.pick
           /\ Follow(db, cell, shown).text =
                [c \in Cells |-> IF c \in Downstream(db, {cell}, Holding) THEN shown
                  ELSE db.text[c]]
<1>1. Follow(db, cell, shown) =
        [text |-> [c \in Cells |-> IF c \in Downstream(db, {cell}, Holding) THEN shown
                                                                            ELSE db.text[c]],
         pick |-> db.pick]
  BY DEF Follow, Db
<1> QED BY <1>1 DEF Db

(* The cells downstream of one cell. *)
LEMMA DownstreamOfCell ==
    ASSUME NEW db \in Db, NEW cell \in Cells
    PROVE  /\ \A c \in Downstream(db, {cell}, Holding) :
                /\ c \in Cells /\ c # cell /\ Holds(c[2]) /\ db.pick[c] # None
                /\ Target(db, c) \in {cell} \cup Downstream(db, {cell}, Holding)
           /\ \A c \in Cells : /\ c # cell /\ Holds(c[2])
                               /\ Target(db, c) \in {cell} \cup Downstream(db, {cell}, Holding)
                               => c \in Downstream(db, {cell}, Holding)
<1> DEFINE down == Downstream(db, {cell}, Holding)
<1>1. {cell} \in SUBSET Cells
  OBVIOUS
<1>2. /\ \A c \in down : /\ c \in Cells \ {cell} /\ c[2] \in Holding /\ db.pick[c] # None
                         /\ Target(db, c) \in {cell} \cup down
      /\ \A c \in Cells \ {cell} :
           c[2] \in Holding /\ Target(db, c) \in {cell} \cup down => c \in down
  BY <1>1, DownstreamFacts
<1> HIDE DEF down
<1>3. \A c \in Cells : c[2] \in Holding <=> Holds(c[2])
  BY CellFacts DEF Holding
<1>4. /\ \A c \in down : /\ c \in Cells /\ c # cell /\ Holds(c[2]) /\ db.pick[c] # None
                         /\ Target(db, c) \in {cell} \cup down
      /\ \A c \in Cells : c # cell /\ Holds(c[2]) /\ Target(db, c) \in {cell} \cup down
           => c \in down
  BY <1>2, <1>3
<1> QED BY <1>4 DEF down

(* The targets a revival brings the cells of f back to. *)
Named(db, f) == {s \in Records : <<s, rel[f]>> \in Cells /\ db.text[<<s, rel[f]>>] # Blank}
Mine(db, f, s) == {c \in Cells : c[2] = f /\ db.pick[c] = s}
Shows(db, f, holding, s) == Mine(db, f, s) \cup Downstream(db, Mine(db, f, s), holding)

Returned(new, db, f, holding) ==
    /\ new \in Db
    /\ \A c \in Cells :
         \/ /\ new.text[c] = db.text[c]
            /\ \A s \in Named(db, f) : c \notin Shows(db, f, holding, s)
         \/ \E s \in Named(db, f) : /\ c \in Shows(db, f, holding, s)
                                    /\ new.text[c] = db.text[<<s, rel[f]>>]
    /\ \A c \in Cells :
         new.pick[c] = IF c[2] = f /\ db.pick[c] \notin Named(db, f) THEN None ELSE db.pick[c]
    /\ \A s \in Records : \A c \in Shows(db, f, holding, s) : db.pick[c] # None

(* Each cell comes back to the name it shows, if it shows one. *)
LEMMA ReviveFacts ==
    ASSUME NEW db \in Db, NEW f, NEW holding
    PROVE  Returned(Revive(db, f, holding), db, f, holding)
<1> DEFINE named == Named(db, f)
           shows(s) == Shows(db, f, holding, s)
           from(c) == CHOOSE s \in named : c \in shows(s)
           new == Revive(db, f, holding)
           words == [c \in Cells |-> IF \E s \in named : c \in shows(s)
                                       THEN db.text[<<from(c), rel[f]>>] ELSE db.text[c]]
           picks == [c \in Cells |-> IF c[2] = f /\ db.pick[c] \notin named THEN None
             ELSE db.pick[c]]
<1>1. new = [text |-> words, pick |-> picks]
  BY DEF Revive, Named, Shows, Mine
<1>2. \A c \in Cells : (\E s \in named : c \in shows(s))
        => from(c) \in named /\ c \in shows(from(c))
  OBVIOUS
<1>3. \A s \in named : db.text[<<s, rel[f]>>] \in Texts
  BY DEF Named, Db
<1>4. \A s \in Records : \A c \in shows(s) : db.pick[c] # None
  <2> TAKE s \in Records
  <2>1. Mine(db, f, s) \in SUBSET Cells
    BY DEF Mine
  <2>2. \A c \in Downstream(db, Mine(db, f, s), holding) : db.pick[c] # None
    BY <2>1, DownstreamPicks
  <2> QED BY <2>2, CellFacts DEF Shows, Mine
<1> HIDE DEF shows, named, from
<1>5. words \in [Cells -> Texts] /\ picks \in [Cells -> Records \cup {None}]
  BY <1>2, <1>3 DEF Db
<1>6. new \in Db
  BY <1>1, <1>5 DEF Db
<1>7. ASSUME NEW c \in Cells
      PROVE  \/ new.text[c] = db.text[c] /\ \A s \in named : c \notin shows(s)
             \/ \E s \in named : c \in shows(s) /\ new.text[c] = db.text[<<s, rel[f]>>]
  <2>1. new.text[c] = words[c]
    BY <1>1
  <2> QED BY <1>2, <2>1
<1>8. \A c \in Cells : new.pick[c] = IF c[2] = f /\ db.pick[c] \notin named THEN None
        ELSE db.pick[c]
  BY <1>1
<1> QED BY <1>4, <1>6, <1>7, <1>8 DEF shows, named, Returned

Matched(new, db, f, g, skipped) ==
    /\ new \in Db /\ new.text = db.text
    /\ \A c \in Cells : new.pick[c] # db.pick[c] =>
         /\ c[2] = f /\ c \notin skipped /\ db.text[c] # Blank
         /\ new.pick[c] \in records /\ HomeOf[new.pick[c]] = CapOf[g]
         /\ db.text[<<new.pick[c], g>>] = db.text[c]

(* A match links a text to a record that holds it. *)
LEMMA MatchFacts ==
    ASSUME NEW db \in Db, NEW f, NEW g, NEW skipped, records \subseteq Records
    PROVE  Matched(Match(db, f, g, skipped), db, f, g, skipped)
<1> DEFINE same(c) == {s \in records : HomeOf[s] = CapOf[g] /\ db.text[<<s, g>>] = db.text[c]}
           found(c) == c[2] = f /\ c \notin skipped /\ db.text[c] # Blank
             /\ Cardinality(same(c)) = 1
           one(c) == CHOOSE s \in same(c) : TRUE
           new == Match(db, f, g, skipped)
<1>0. new = [db EXCEPT !.pick = [c \in Cells |-> IF found(c) THEN one(c) ELSE db.pick[c]]]
  BY DEF Match
<1>1. new = [text |-> db.text, pick |-> [c \in Cells |-> IF found(c) THEN one(c) ELSE db.pick[c]]]
  <2> HIDE DEF found, one, new
  <2> QED BY <1>0 DEF Db
<1>2. \A c \in Cells : found(c) => one(c) \in same(c)
  <2> SUFFICES ASSUME NEW c \in Cells, Cardinality(same(c)) = 1 PROVE same(c) # {}
    OBVIOUS
  <2> HIDE DEF same
  <2> QED BY FS_EmptySet
<1>3. \A c \in Cells : new.pick[c] = IF found(c) THEN one(c) ELSE db.pick[c]
  BY <1>1
<1>4. \A c \in Cells : found(c) => new.pick[c] \in same(c)
  <2> HIDE DEF found, same, new, one
  <2> QED BY <1>2, <1>3
<1>5. new.text = db.text /\ new \in Db
  <2>1. \A c \in Cells : new.pick[c] \in Records \cup {None}
    BY <1>3, <1>4 DEF Db
  <2>2. new.pick = [c \in Cells |-> new.pick[c]]
    BY <1>1
  <2>3. new = [text |-> db.text, pick |-> new.pick]
    BY <1>1
  <2> HIDE DEF new
  <2> QED BY <2>1, <2>2, <2>3 DEF Db
<1> QED BY <1>3, <1>4, <1>5 DEF Matched

-----------------------------------------------------------------------------
(* the inductive steps *)

(* Relations stand while no relation and no capability changes. *)
LEMMA RelationsKept == ASSUME Relations, UNCHANGED <<there, rel>> PROVE Relations'
BY DEF Relations, Reaches

(* What the histories need of a step. *)
LEMMA Remembered ==
    ASSUME LinkTypeOK, NEW ended, NEW failed \in SUBSET Fields, NEW new \in SUBSET Cells,
           Remember(<<ended, failed>>, new),
           \A c \in typed \cup new : Asleep(c[2])' /\ c[1] \in records' => pick'[c] = None
    PROVE  Unlinked' /\ lapsed' \subseteq Fields /\ typed' \subseteq Cells
<1>1. /\ lapsed' = {f \in (lapsed \ ended) \cup failed : Holds(f)'}
      /\ typed'  = {c \in typed \cup new : Asleep(c[2])' /\ c[1] \in records'}
  BY DEF Remember
<1> QED BY <1>1 DEF Unlinked, LinkTypeOK

(* What a step has to leave, cell by cell. *)
LEMMA Kept ==
    ASSUME there' \subseteq Caps, linkable' \subseteq Fields, records' \subseteq Records,
           rel' \in [Fields -> Fields \cup {None}],
           text' \in [Cells -> Texts], pick' \in [Cells -> Records \cup {None}],
           \A c \in Cells :
              /\ text'[c] # Blank => c[1] \in records'
              /\ pick'[c] # None =>
                   /\ {c[1], pick'[c]} \subseteq records'
                   /\ rel'[c[2]] # None /\ CapOf[rel'[c[2]]] = HomeOf[pick'[c]],
           Relations', Unlinked', lapsed' \subseteq Fields, typed' \subseteq Cells
    PROVE  LinkIInv'
<1>1. Tables' \in Db /\ Founded(Tables)'
  BY DEF Tables, Db, Founded
<1> QED BY <1>1 DEF LinkIInv, LinkTypeOK

(* The invariant, table by table. *)
LEMMA Opened ==
    ASSUME LinkIInv
    PROVE  /\ there \subseteq Caps /\ linkable \subseteq Fields /\ records \subseteq Records
           /\ rel \in [Fields -> Fields \cup {None}]
           /\ text \in [Cells -> Texts] /\ pick \in [Cells -> Records \cup {None}]
           /\ Tables.text = text /\ Tables.pick = pick /\ Tables \in Db
           /\ \A c \in Cells :
                /\ text[c] # Blank => c[1] \in records
                /\ pick[c] # None =>
                     /\ {c[1], pick[c]} \subseteq records
                     /\ rel[c[2]] # None /\ CapOf[rel[c[2]]] = HomeOf[pick[c]]
           /\ lapsed \subseteq Fields /\ typed \subseteq Cells
BY DEF LinkIInv, LinkTypeOK, Founded, Tables, Db

(* A record is created. *)
LEMMA CreateKeeps == ASSUME LinkIInv, NEW r \in Records, Create(r) PROVE LinkIInv'
<1>1. PICK form \in Forms(HomeOf[r]) :
         /\ \A f \in FieldsOf(HomeOf[r]) : Accepted(form, f, Blank)
         /\ text' = [c \in Cells |-> IF c[1] = r THEN Stored(form, c[2], Blank) ELSE text[c]]
         /\ pick' = [c \in Cells |-> IF c[1] = r /\ form[c[2]].how = "pick"
                                       THEN form[c[2]].record ELSE pick[c]]
         /\ UNCHANGED <<there, linkable, rel>>
         /\ Remember(<<{}, {}>>, {<<r, f>> : f \in FieldsOf(HomeOf[r])})
  BY DEF Create
<1>2. r \notin records /\ records' = records \cup {r}
  BY DEF Create
<1>3. \A c \in Cells : c[1] = r => c[2] \in FieldsOf(HomeOf[r])
  BY CellFacts DEF FieldsOf
<1>4. \A f \in FieldsOf(HomeOf[r]) : <<r, f>> \in Cells
  BY CellFacts DEF FieldsOf
<1>5. \A f \in FieldsOf(HomeOf[r]) : Stored(form, f, Blank) \in Texts
  BY <1>1, StoredText, CellFacts DEF LinkIInv
<1>6. ASSUME NEW f \in FieldsOf(HomeOf[r]), form[f].how = "pick"
      PROVE  LET s == form[f].record
             IN  s \in records /\ s \in Records /\ Holds(f) /\ HomeOf[s] = CapOf[rel[f]]
  BY <1>1, <1>6, FormFacts DEF Accepted, Pickable
<1>8. /\ text' \in [Cells -> Texts]
      /\ \A c \in Cells : text'[c] # Blank => c[1] \in records'
  BY <1>1, <1>2, <1>3, <1>5, Opened
<1>9. ASSUME NEW c \in Cells
      PROVE  /\ pick'[c] \in Records \cup {None}
             /\ pick'[c] # None => /\ {c[1], pick'[c]} \subseteq records'
                                   /\ rel[c[2]] # None /\ CapOf[rel[c[2]]] = HomeOf[pick'[c]]
             /\ c[1] = r /\ pick'[c] # None => Holds(c[2])
             /\ c[1] # r => pick'[c] = pick[c]
  <2>1. CASE c[1] = r /\ form[c[2]].how = "pick"
    <3>1. pick'[c] = form[c[2]].record
      BY <1>1, <2>1
    <3> QED BY <1>2, <1>3, <1>6, <2>1, <3>1 DEF Holds
  <2>2. CASE c[1] = r /\ form[c[2]].how # "pick"
    <3>1. pick'[c] = pick[c]
      BY <1>1, <2>2
    <3>2. pick[c] = None
      BY <1>2, <2>2, Opened
    <3> QED BY <3>1, <3>2, <2>2
  <2>3. CASE c[1] # r
    <3>1. pick'[c] = pick[c]
      BY <1>1, <2>3
    <3> QED BY <1>2, <2>3, <3>1, Opened
  <2> QED BY <2>1, <2>2, <2>3
<1>10. pick' \in [Cells -> Records \cup {None}]
  <2>1. pick' = [c \in Cells |-> pick'[c]]
    BY <1>1
  <2> QED BY <1>9, <2>1
<1>11. {<<r, f>> : f \in FieldsOf(HomeOf[r])} \in SUBSET Cells
  BY <1>4
<1>12. ASSUME NEW c \in typed \cup {<<r, f>> : f \in FieldsOf(HomeOf[r])}, Asleep(c[2])'
       PROVE  pick'[c] = None
  <2>1. c \in Cells /\ ~Holds(c[2])
    BY <1>1, <1>4, <1>12, Opened DEF Asleep, Holds
  <2>2. CASE c[1] = r
    BY <1>9, <2>1, <2>2
  <2>3. CASE c[1] # r
    BY <1>4, <1>9, <1>12, <2>1, <2>3 DEF LinkIInv, Unlinked
  <2> QED BY <2>2, <2>3
<1>13. Unlinked' /\ lapsed' \subseteq Fields /\ typed' \subseteq Cells
  BY <1>1, <1>11, <1>12, Remembered DEF LinkIInv
<1>14. records' \subseteq Records /\ UNCHANGED <<there, linkable, rel>>
  BY <1>1, <1>2, Opened
<1>15. Relations'
  BY <1>14, RelationsKept DEF LinkIInv
<1> QED BY <1>8, <1>9, <1>10, <1>13, <1>14, <1>15, Kept, Opened

(* A record's fields are the cells of the record. *)
LEMMA FieldCells ==
    ASSUME NEW r \in Records
    PROVE  /\ \A c \in Cells : c[1] = r => c[2] \in FieldsOf(HomeOf[r])
           /\ \A f \in FieldsOf(HomeOf[r]) : <<r, f>> \in Cells /\ f \in Fields
BY CellFacts DEF FieldsOf

(* What the save writes before its refresh. *)
LEMMA SavedFacts ==
    ASSUME LinkIInv, NEW r \in records, NEW form \in Forms(HomeOf[r]),
           \A f \in FieldsOf(HomeOf[r]) : Accepted(form, f, text[<<r, f>>])
    PROVE  /\ Saved(r, form) \in Db /\ Founded(Saved(r, form))
           /\ \A f \in FieldsOf(HomeOf[r]) : After(r, form, f) \in Texts
           /\ \A c \in typed \cup {<<r, f>> : f \in Changed(r, form)} :
                Asleep(c[2]) => Saved(r, form).pick[c] = None
<1> DEFINE words == [c \in Cells |-> IF c[1] = r THEN After(r, form, c[2]) ELSE text[c]]
           picks == [c \in Cells |-> IF c[1] = r THEN Relinked(r, form, c[2]) ELSE pick[c]]
<1>1. Saved(r, form).text = words /\ Saved(r, form).pick = picks
      /\ Saved(r, form) = [text |-> words, pick |-> picks]
  BY DEF Saved
<1>2. r \in Records
  BY Opened
<1>3. ASSUME NEW f \in FieldsOf(HomeOf[r]) PROVE After(r, form, f) \in Texts
  <2>1. <<r, f>> \in Cells /\ text[<<r, f>>] \in Texts
    BY <1>2, FieldCells, Opened
  <2> QED BY <2>1, StoredText DEF After, LinkIInv
<1>4. ASSUME NEW f \in FieldsOf(HomeOf[r]), Relinked(r, form, f) # None
      PROVE  LET s == Relinked(r, form, f)
             IN  s \in records /\ s \in Records /\ rel[f] # None /\ HomeOf[s] = CapOf[rel[f]]
  <2>1. <<r, f>> \in Cells /\ f \in Fields
    BY <1>2, FieldCells
  <2>2. CASE form[f].how = "pick"
    <3>1. Relinked(r, form, f) = form[f].record
      BY <2>2 DEF Relinked
    <3>2. Holds(f) /\ Pickable(f, form[f].record)
      BY <2>2, FormFacts DEF Accepted
    <3> QED BY <3>1, <3>2, Opened DEF Pickable, Holds
  <2>3. CASE form[f].how # "pick"
    <3>1. Relinked(r, form, f) = pick[<<r, f>>]
      BY <1>4, <2>3 DEF Relinked
    <3> QED BY <1>4, <2>1, <3>1, Opened
  <2> QED BY <2>2, <2>3
<1>5. words \in [Cells -> Texts] /\ picks \in [Cells -> Records \cup {None}]
  <2>1. \A c \in Cells : c[1] = r => c[2] \in FieldsOf(HomeOf[r])
    BY <1>2, FieldCells
  <2>2. words \in [Cells -> Texts]
    BY <1>3, <2>1, Opened
  <2>3. picks \in [Cells -> Records \cup {None}]
    BY <1>4, <2>1, Opened
  <2> QED BY <2>2, <2>3
<1>6. Saved(r, form) \in Db
  <2> HIDE DEF words, picks
  <2> QED BY <1>1, <1>5 DEF Db
<1>7. Founded(Saved(r, form))
  <2> SUFFICES ASSUME NEW c \in Cells
               PROVE  /\ words[c] # Blank => c[1] \in records
                      /\ picks[c] # None =>
                           /\ {c[1], picks[c]} \subseteq records
                           /\ rel[c[2]] # None /\ CapOf[rel[c[2]]] = HomeOf[picks[c]]
    <3> HIDE DEF words, picks
    <3> QED BY <1>1 DEF Founded
  <2>1. CASE c[1] = r
    <3>1. c[2] \in FieldsOf(HomeOf[r])
      BY <1>2, <2>1, FieldCells
    <3> QED BY <1>4, <2>1, <3>1
  <2>2. CASE c[1] # r
    BY <2>2, Opened
  <2> QED BY <2>1, <2>2
<1>8. ASSUME NEW c \in typed \cup {<<r, f>> : f \in Changed(r, form)}, Asleep(c[2])
      PROVE  Saved(r, form).pick[c] = None
  <2>1. c \in Cells
    BY <1>2, FieldCells, Opened DEF Changed
  <2>2. CASE c[1] # r
    <3>1. c \in typed
      BY <2>2
    <3> QED BY <1>1, <2>1, <2>2, <3>1 DEF LinkIInv, Unlinked
  <2>3. CASE c[1] = r
    <3>1. c[2] \in FieldsOf(HomeOf[r]) /\ c = <<r, c[2]>> /\ ~Holds(c[2])
      BY <1>2, <1>8, <2>1, <2>3, FieldCells, CellFacts DEF Asleep
    <3>2. form[c[2]].how # "pick" /\ form[c[2]].how \in {"unsubmitted", "plain", "linked", "pick"}
      BY <3>1, FormFacts
    <3>3. c \in typed \/ After(r, form, c[2]) # text[<<r, c[2]>>]
      <4> SUFFICES ASSUME c \notin typed PROVE c[2] \in Changed(r, form)
        BY DEF Changed
      <4>1. PICK f \in Changed(r, form) : c = <<r, f>>
        OBVIOUS
      <4> QED BY <4>1
    <3>4. Relinked(r, form, c[2]) = None
      <4>1. CASE c \in typed
        <5>1. pick[<<r, c[2]>>] = None
          BY <3>1, <4>1 DEF LinkIInv, Unlinked
        <5> QED BY <3>2, <5>1 DEF Relinked
      <4>2. CASE After(r, form, c[2]) # text[<<r, c[2]>>]
        <5>1. form[c[2]].how # "unsubmitted" /\ form[c[2]].text # text[<<r, c[2]>>]
          BY <3>2, <4>2 DEF After, Stored
        <5> QED BY <3>2, <5>1 DEF Relinked
      <4> QED BY <3>3, <4>1, <4>2
    <3> QED BY <1>1, <2>1, <2>3, <3>4
  <2> QED BY <2>2, <2>3
<1> QED BY <1>3, <1>6, <1>7, <1>8

(* One round of a refresh. *)
LEMMA FollowKeeps ==
    ASSUME NEW db \in Db, Founded(db), NEW cell \in Cells, NEW shown \in Texts
    PROVE  /\ Follow(db, cell, shown) \in Db /\ Founded(Follow(db, cell, shown))
           /\ \A c \in Cells : Follow(db, cell, shown).pick[c] \in {None, db.pick[c]}
<1>1. CASE shown = Blank
  BY <1>1, FollowBlank DEF Founded
<1>2. CASE shown # Blank
  <2>1. Follow(db, cell, shown) \in Db
    BY <1>2, FollowText
  <2>2. Follow(db, cell, shown).pick = db.pick
    BY <1>2, FollowText
  <2>3. Follow(db, cell, shown).text =
          [c \in Cells |-> IF c \in Downstream(db, {cell}, Holding) THEN shown ELSE db.text[c]]
    BY <1>2, FollowText
  <2>4. \A c \in Downstream(db, {cell}, Holding) : db.pick[c] # None
    BY DownstreamOfCell
  <2> DEFINE down == Downstream(db, {cell}, Holding)
             new == Follow(db, cell, shown)
  <2> HIDE DEF down, new
  <2>5. new.text = [c \in Cells |-> IF c \in down THEN shown ELSE db.text[c]]
    BY <2>3 DEF down, new
  <2>6. \A c \in Cells : new.text[c] = db.text[c] \/ db.pick[c] # None
    BY <2>4, <2>5 DEF down
  <2>7. Founded(new)
    BY <2>2, <2>6 DEF Founded, new
  <2>8. \A c \in Cells : new.pick[c] \in {None, db.pick[c]}
    BY <2>2 DEF new
  <2> QED BY <2>1, <2>7, <2>8 DEF new
<1> QED BY <1>1, <1>2

(* A refresh writes texts into records that stand, and lets links go. *)
LEMMA RefreshKeeps ==
    ASSUME NEW r \in Records, NEW form, NEW order \in SetToSeqs(Targets(r, form)),
           Saved(r, form) \in Db, Founded(Saved(r, form)),
           \A f \in FieldsOf(HomeOf[r]) : After(r, form, f) \in Texts
    PROVE  /\ Refreshed(r, form, order) \in Db /\ Founded(Refreshed(r, form, order))
           /\ \A c \in Cells : Refreshed(r, form, order).pick[c] \in {None, Saved(r, form).pick[c]}
<1> DEFINE good == {db \in Db : Founded(db)
      /\ \A c \in Cells : db.pick[c] \in {None, Saved(r, form).pick[c]}}
           stage == [n \in 0 .. Len(order) |-> good]
           round(db, n) == Follow(db, <<r, order[n]>>, After(r, form, order[n]))
<1>1. Targets(r, form) \in SUBSET Fields /\ Targets(r, form) \subseteq FieldsOf(HomeOf[r])
  BY DEF Targets, Changed, FieldsOf
<1>2. Len(order) \in Nat /\ \A n \in 1 .. Len(order) : order[n] \in FieldsOf(HomeOf[r])
  BY <1>1, OrderFacts
<1>3. \A n \in 1 .. Len(order) : <<r, order[n]>> \in Cells /\ After(r, form, order[n]) \in Texts
  BY <1>2, FieldCells
<1>4. ASSUME NEW db \in Db, NEW n \in 1 .. Len(order) PROVE round(db, n) \in Db
  BY <1>3, FollowBlank, FollowText
<1>5. ASSUME NEW n \in 1 .. Len(order), NEW db \in good PROVE round(db, n) \in good
  <2>1. db \in Db /\ Founded(db) /\ \A c \in Cells : db.pick[c] \in {None, Saved(r, form).pick[c]}
    OBVIOUS
  <2>2. /\ round(db, n) \in Db /\ Founded(round(db, n))
        /\ \A c \in Cells : round(db, n).pick[c] \in {None, db.pick[c]}
    BY <1>3, <2>1, FollowKeeps
  <2> HIDE DEF round
  <2> QED BY <2>1, <2>2
<1>6. Saved(r, form) \in good
  OBVIOUS
<1> HIDE DEF good
<1>7. stage \in [0 .. Len(order) -> SUBSET Db]
  BY DEF good
<1>8. Saved(r, form) \in stage[0]
  BY <1>2, <1>6
<1>9. ASSUME NEW n \in 1 .. Len(order), NEW db \in stage[n - 1] PROVE round(db, n) \in stage[n]
  BY <1>2, <1>5
<1> HIDE DEF stage
<1>10. Refreshed(r, form, order) \in stage[Len(order)]
  BY <1>2, <1>4, <1>7, <1>8, <1>9, RefreshStages
<1> QED BY <1>2, <1>10 DEF stage, good

(* A record is saved, and its refresh run. *)
LEMMA SaveKeeps ==
    ASSUME LinkIInv, NEW r \in Records, NEW form \in Forms(HomeOf[r]), Save(r, form) PROVE LinkIInv'
<1>1. /\ r \in records /\ UNCHANGED <<there, linkable, rel, records>>
      /\ \A f \in FieldsOf(HomeOf[r]) : Accepted(form, f, text[<<r, f>>])
      /\ Remember(<<{}, {}>>, {<<r, f>> : f \in Changed(r, form)})
  BY DEF Save
<1>2. PICK order \in SetToSeqs(Targets(r, form)) : Store(Refreshed(r, form, order))
  BY DEF Save
<1> DEFINE new == Refreshed(r, form, order)
<1>3. /\ new \in Db /\ Founded(new)
      /\ \A c \in Cells : new.pick[c] \in {None, Saved(r, form).pick[c]}
  BY <1>1, SavedFacts, RefreshKeeps
<1>4. \A c \in typed \cup {<<r, f>> : f \in Changed(r, form)} :
         Asleep(c[2]) => Saved(r, form).pick[c] = None
  BY <1>1, SavedFacts
<1>5. text' = new.text /\ pick' = new.pick
  BY <1>2 DEF Store
<1>6. {<<r, f>> : f \in Changed(r, form)} \in SUBSET Cells
  BY FieldCells DEF Changed
<1> HIDE DEF new
<1>7. \A c \in typed \cup {<<r, f>> : f \in Changed(r, form)} : Asleep(c[2])' => pick'[c] = None
  <2>1. \A f : Asleep(f)' = Asleep(f)
    BY <1>1 DEF Asleep, Holds
  <2>2. typed \subseteq Cells
    BY Opened
  <2> QED BY <1>3, <1>4, <1>5, <1>6, <2>1, <2>2
<1>8. Unlinked' /\ lapsed' \subseteq Fields /\ typed' \subseteq Cells
  BY <1>1, <1>6, <1>7, Remembered DEF LinkIInv
<1>9. Relations'
  BY <1>1, RelationsKept DEF LinkIInv
<1>10. text' \in [Cells -> Texts] /\ pick' \in [Cells -> Records \cup {None}]
  BY <1>3, <1>5 DEF Db
<1>11. \A c \in Cells :
         /\ text'[c] # Blank => c[1] \in records'
         /\ pick'[c] # None =>
              /\ {c[1], pick'[c]} \subseteq records'
              /\ rel'[c[2]] # None /\ CapOf[rel'[c[2]]] = HomeOf[pick'[c]]
  BY <1>1, <1>3, <1>5 DEF Founded
<1> QED BY <1>1, <1>8, <1>9, <1>10, <1>11, Kept, Opened

(* A record is deleted. *)
LEMMA DeleteKeeps == ASSUME LinkIInv, NEW r \in Records, Delete(r) PROVE LinkIInv'
<1> DEFINE cleared == {c \in Cells : Holds(c[2]) /\ c[2] \notin Required /\ pick[c] = r}
           freed   == LetGo(Tables, cleared)
<1>1. /\ r \in records /\ records' = records \ {r} /\ UNCHANGED <<there, linkable, rel>>
      /\ text' = [c \in Cells |-> IF c \in cleared \/ c[1] = r THEN Blank ELSE text[c]]
      /\ pick' = [c \in Cells |-> IF r \in {c[1], pick[c]} THEN None ELSE freed.pick[c]]
      /\ Remember(<<{}, {}>>, {})
  BY DEF Delete
<1>2. \A c \in Cells : freed.pick[c] \in {None, pick[c]}
  <2> HIDE DEF cleared
  <2> QED BY LetGoFacts, Opened
<1> HIDE DEF freed, cleared
<1>3. text' \in [Cells -> Texts] /\ pick' \in [Cells -> Records \cup {None}]
  BY <1>1, <1>2, Opened, CellFacts
<1>4. \A c \in Cells : pick'[c] = None \/ (pick'[c] = pick[c] /\ c[1] # r /\ pick[c] # r)
  BY <1>1, <1>2
<1>5. \A c \in Cells : text'[c] = Blank \/ (text'[c] = text[c] /\ c[1] # r)
  BY <1>1
<1>6. Unlinked' /\ lapsed' \subseteq Fields /\ typed' \subseteq Cells
  <2>1. \A c \in typed : pick'[c] = None
    BY <1>4, Opened DEF LinkIInv, Unlinked
  <2> QED BY <1>1, <2>1, Remembered DEF LinkIInv
<1>7. Relations'
  BY <1>1, RelationsKept DEF LinkIInv
<1>8. \A c \in Cells :
        /\ text'[c] # Blank => c[1] \in records'
        /\ pick'[c] # None =>
             /\ {c[1], pick'[c]} \subseteq records'
             /\ rel'[c[2]] # None /\ CapOf[rel'[c[2]]] = HomeOf[pick'[c]]
  BY <1>1, <1>4, <1>5, Opened
<1> QED BY <1>1, <1>3, <1>6, <1>7, <1>8, Kept, Opened

(* A relation more, between two capabilities and from nothing that its target leads to. *)
LEMMA RelationAdded ==
    ASSUME Relations, rel \in [Fields -> Fields \cup {None}], NEW f \in Fields, NEW g \in Fields,
           rel[f] = None, there \subseteq there', {CapOf[f], CapOf[g]} \subseteq there',
           CapOf[f] # CapOf[g], ~Reaches(g, f), rel' = [rel EXCEPT ![f] = g]
    PROVE  Relations' /\ rel' \in [Fields -> Fields \cup {None}]
<1> DEFINE closed(S) == S \in SUBSET Fields /\ \A h \in S : rel[h] \in S \cup {None}
<1>1. PICK T : closed(T) /\ g \in T /\ f \notin T
  BY DEF Reaches
<1>2. rel' \in [Fields -> Fields \cup {None}] /\ rel'[f] = g /\ \A h \in Fields : h # f
        => rel'[h] = rel[h]
  OBVIOUS
<1>3. ASSUME NEW h \in Fields, rel'[h] # None
      PROVE  \E U \in SUBSET Fields :
                rel'[h] \in U /\ h \notin U /\ \A x \in U : rel'[x] \in U \cup {None}
  <2>1. CASE h = f
    BY <1>1, <1>2, <2>1
  <2>2. CASE h # f
    <3>1. PICK S : closed(S) /\ rel[h] \in S /\ h \notin S
      BY <1>2, <1>3, <2>2 DEF Relations, Reaches
    <3>2. CASE f \notin S
      BY <1>2, <2>2, <3>1, <3>2
    <3>3. CASE f \in S /\ h \notin T
      <4> DEFINE U == S \cup T
      <4>1. U \in SUBSET Fields /\ rel'[h] \in U /\ h \notin U
        BY <1>1, <1>2, <2>2, <3>1, <3>3
      <4>2. \A x \in U : rel'[x] \in U \cup {None}
        BY <1>1, <1>2, <3>1
      <4> QED BY <4>1, <4>2
    <3>4. CASE h \in T
      <4> DEFINE U == S \cap T
      <4>1. U \in SUBSET Fields /\ rel'[h] \in U /\ h \notin U
        BY <1>1, <1>2, <1>3, <2>2, <3>1, <3>4, LinkedTextAssumption
      <4>2. \A x \in U : rel'[x] \in U \cup {None}
        BY <1>1, <1>2, <3>1
      <4> QED BY <4>1, <4>2
    <3> QED BY <3>2, <3>3, <3>4
  <2> QED BY <2>1, <2>2
<1>4. \A h \in Fields : rel'[h] # None => ~Reaches(rel[h], h)'
  BY <1>3 DEF Reaches
<1>5. ASSUME NEW h \in Fields, rel'[h] # None
      PROVE  {CapOf[h], CapOf[rel'[h]]} \subseteq there' /\ CapOf[h] # CapOf[rel'[h]]
  BY <1>2, <1>5 DEF Relations
<1> QED BY <1>2, <1>4, <1>5 DEF Relations

(* Relations fewer. *)
LEMMA RelationsFewer ==
    ASSUME Relations, rel \in [Fields -> Fields \cup {None}],
           rel' \in [Fields -> Fields \cup {None}],
           \A f \in Fields : rel'[f] # None =>
              rel'[f] = rel[f] /\ {CapOf[f], CapOf[rel[f]]} \subseteq there'
    PROVE  Relations'
<1>1. ASSUME NEW f \in Fields, rel'[f] # None PROVE ~Reaches(rel[f], f)'
  <2>1. PICK S \in SUBSET Fields : rel[f] \in S /\ f \notin S
          /\ \A h \in S : rel[h] \in S \cup {None}
    BY <1>1 DEF Relations, Reaches
  <2>2. \A h \in S : rel'[h] \in S \cup {None}
    BY <2>1
  <2> QED BY <1>1, <2>1, <2>2 DEF Reaches
<1> QED BY <1>1 DEF Relations

(* A field is linked, and its names are matched. *)
LEMMA LinkKeeps == ASSUME LinkIInv, NEW f \in Fields, NEW g \in Fields, Link(f, g) PROVE LinkIInv'
<1> DEFINE start == [Tables EXCEPT !.pick = [c \in Cells |-> IF c[2] = f THEN None ELSE @[c]]]
           new == Match(start, f, g, {})
<1>1. /\ {f, g} \subseteq linkable /\ Linkable(f, g) /\ rel' = [rel EXCEPT ![f] = g]
      /\ Store(new) /\ UNCHANGED <<there, linkable, records>> /\ Remember(<<{}, {}>>, {})
  BY DEF Link
<1>2. Relations' /\ rel' \in [Fields -> Fields \cup {None}]
  BY <1>1, Opened, RelationAdded DEF LinkIInv, Linkable
<1>3. start.text = text /\ start.pick = [c \in Cells |-> IF c[2] = f THEN None ELSE pick[c]]
      /\ start \in Db
  BY Opened DEF Db
<1> HIDE DEF start
<1>4. Matched(new, start, f, g, {})
  BY <1>3, Opened, MatchFacts
<1> HIDE DEF new
<1>5. new \in Db /\ new.text = text
      /\ \A c \in Cells :
           \/ c[2] # f /\ new.pick[c] = pick[c]
           \/ c[2] = f /\ new.pick[c] = None
           \/ /\ c[2] = f /\ text[c] # Blank /\ new.pick[c] \in records
              /\ HomeOf[new.pick[c]] = CapOf[g]
  BY <1>3, <1>4 DEF Matched
<1>6. text' = text /\ pick' = new.pick
  BY <1>1, <1>5 DEF Store
<1>7. text' \in [Cells -> Texts] /\ pick' \in [Cells -> Records \cup {None}]
  BY <1>5, <1>6 DEF Db
<1>8. \A h \in Fields : rel'[h] = IF h = f THEN g ELSE rel[h]
  BY <1>1, Opened
<1>9. ASSUME NEW c \in typed, Asleep(c[2])' PROVE pick'[c] = None
  <2>1. c \in Cells /\ c[2] \in Fields /\ pick[c] = None
    BY Opened, CellFacts DEF LinkIInv, Unlinked
  <2>2. c[2] # f
    BY <1>1, <1>8, <1>9 DEF Asleep, Holds
  <2> QED BY <1>5, <1>6, <2>1, <2>2
<1>10. Unlinked' /\ lapsed' \subseteq Fields /\ typed' \subseteq Cells
  BY <1>1, <1>9, Remembered DEF LinkIInv
<1>11. ASSUME NEW c \in Cells
       PROVE  /\ text'[c] # Blank => c[1] \in records'
              /\ pick'[c] # None =>
                   /\ {c[1], pick'[c]} \subseteq records'
                   /\ rel'[c[2]] # None /\ CapOf[rel'[c[2]]] = HomeOf[pick'[c]]
  BY <1>1, <1>5, <1>6, <1>8, Opened, CellFacts
<1> QED BY <1>1, <1>2, <1>7, <1>10, <1>11, Kept, Opened

(* A field is unlinked. *)
LEMMA UnlinkKeeps == ASSUME LinkIInv, NEW f \in Fields, Unlink(f) PROVE LinkIInv'
<1>1. /\ rel' = [rel EXCEPT ![f] = None] /\ pick' = [c \in Cells |-> IF c[2] = f THEN None
        ELSE pick[c]]
      /\ UNCHANGED <<there, linkable, records, text>> /\ Remember(<<{}, {}>>, {})
  BY DEF Unlink
<1>2. rel' \in [Fields -> Fields \cup {None}] /\ \A h \in Fields : rel'[h] = IF h = f THEN None
        ELSE rel[h]
  BY <1>1, Opened
<1>3. Relations'
  <2>1. \A h \in Fields : rel'[h] # None
          => rel'[h] = rel[h] /\ {CapOf[h], CapOf[rel[h]]} \subseteq there'
    BY <1>1, <1>2 DEF LinkIInv, Relations
  <2> QED BY <1>2, <2>1, Opened, RelationsFewer DEF LinkIInv
<1>4. pick' \in [Cells -> Records \cup {None}]
  BY <1>1, Opened
<1>5. \A c \in typed : pick'[c] = None
  BY <1>1, Opened DEF LinkIInv, Unlinked
<1>6. Unlinked' /\ lapsed' \subseteq Fields /\ typed' \subseteq Cells
  BY <1>1, <1>5, Remembered DEF LinkIInv
<1>7. ASSUME NEW c \in Cells
      PROVE  /\ text'[c] # Blank => c[1] \in records'
             /\ pick'[c] # None =>
                  /\ {c[1], pick'[c]} \subseteq records'
                  /\ rel'[c[2]] # None /\ CapOf[rel'[c[2]]] = HomeOf[pick'[c]]
  BY <1>1, <1>2, Opened, CellFacts
<1> QED BY <1>1, <1>2, <1>3, <1>4, <1>6, <1>7, Kept, Opened

(* The matching scan of one field, over tables that are well founded. *)
LEMMA MatchKeeps ==
    ASSUME LinkIInv, NEW db \in Db, Founded(db), NEW f \in Fields, rel[f] # None
    PROVE  /\ MatchUnlinked(db, f) \in Db /\ Founded(MatchUnlinked(db, f))
           /\ MatchUnlinked(db, f).text = db.text
           /\ \A c \in Cells : c[2] # f => MatchUnlinked(db, f).pick[c] = db.pick[c]
<1> DEFINE skipped == {c \in Cells : c[2] = f /\ db.pick[c] \in records}
           new == Match(db, f, rel[f], skipped)
<1>1. MatchUnlinked(db, f) = new
  BY DEF MatchUnlinked
<1> HIDE DEF skipped
<1>2. Matched(new, db, f, rel[f], skipped)
  BY Opened, MatchFacts
<1> HIDE DEF new
<1>3. ASSUME NEW c \in Cells
      PROVE  /\ new.text[c] # Blank => c[1] \in records
             /\ new.pick[c] # None =>
                  /\ {c[1], new.pick[c]} \subseteq records
                  /\ rel[c[2]] # None /\ CapOf[rel[c[2]]] = HomeOf[new.pick[c]]
  <2>1. CASE new.pick[c] = db.pick[c]
    BY <1>2, <2>1 DEF Founded, Matched
  <2>2. CASE new.pick[c] # db.pick[c]
    <3>1. /\ c[2] = f /\ db.text[c] # Blank /\ new.text = db.text
          /\ new.pick[c] \in records /\ HomeOf[new.pick[c]] = CapOf[rel[f]]
      BY <1>2, <2>2 DEF Matched
    <3> QED BY <3>1 DEF Founded
  <2> QED BY <2>1, <2>2
<1>4. Founded(new)
  BY <1>3 DEF Founded
<1> QED BY <1>1, <1>2, <1>4 DEF Matched

(* A restart matches the names of a field. *)
LEMMA StartupKeeps == ASSUME LinkIInv, NEW f \in Fields, MatchAtStartup(f) PROVE LinkIInv'
<1> DEFINE new == MatchUnlinked(Tables, f)
<1>1. Holds(f) /\ Store(new) /\ UNCHANGED <<there, linkable, rel, records, lapsed, typed>>
  BY DEF MatchAtStartup
<1>2. /\ new \in Db /\ Founded(new) /\ new.text = text
      /\ \A c \in Cells : c[2] # f => new.pick[c] = pick[c]
  BY <1>1, MatchKeeps, Opened DEF LinkIInv, Holds
<1> HIDE DEF new
<1>3. text' = text /\ pick' = new.pick
  BY <1>1, <1>2 DEF Store
<1>4. text' \in [Cells -> Texts] /\ pick' \in [Cells -> Records \cup {None}]
  BY <1>2, <1>3 DEF Db
<1>5. Unlinked'
  <2> SUFFICES ASSUME NEW c \in typed PROVE Asleep(c[2])' /\ pick'[c] = None
    BY <1>1 DEF Unlinked
  <2>1. Asleep(c[2]) /\ pick[c] = None /\ c \in Cells
    BY Opened DEF LinkIInv, Unlinked
  <2>2. c[2] # f /\ Asleep(c[2])'
    BY <1>1, <2>1 DEF Asleep, Holds
  <2> QED BY <1>2, <1>3, <2>1, <2>2
<1>6. Relations'
  BY <1>1, RelationsKept DEF LinkIInv
<1>7. \A c \in Cells :
         /\ text'[c] # Blank => c[1] \in records'
         /\ pick'[c] # None =>
              /\ {c[1], pick'[c]} \subseteq records'
              /\ rel'[c[2]] # None /\ CapOf[rel'[c[2]]] = HomeOf[pick'[c]]
  BY <1>1, <1>2, <1>3 DEF Founded
<1> QED BY <1>1, <1>4, <1>5, <1>6, <1>7, Kept, Opened

(* A link step adds at most one relation, from a field no record has a value in. *)
LEMMA LinkStepFacts ==
    ASSUME LinkIInv, NEW cap \in Caps, LinkStep(cap), cap \in there', there \subseteq there'
    PROVE  /\ Relations' /\ rel' \in [Fields -> Fields \cup {None}]
           /\ \A f \in Fields : rel[f] # None => rel'[f] = rel[f]
           /\ \A c \in Cells : rel'[c[2]] # rel[c[2]] => text[c] = Blank
<1>1. CASE UNCHANGED rel
  <2>1. \A f \in Fields : rel'[f] # None =>
           rel'[f] = rel[f] /\ {CapOf[f], CapOf[rel[f]]} \subseteq there'
    BY <1>1 DEF LinkIInv, Relations
  <2>2. Relations'
    BY <1>1, <2>1, Opened, RelationsFewer DEF LinkIInv
  <2> QED BY <1>1, <2>2, Opened
<1>2. ASSUME NEW f \in FieldsOf(cap), NEW g \in Fields,
             /\ {f, g} \subseteq linkable' /\ CapOf[g] \in there
             /\ rel[f] = None /\ CapOf[g] # cap /\ ~Reaches(g, f)
             /\ \A c \in Cells : c[2] = f => text[c] = Blank
             /\ rel' = [rel EXCEPT ![f] = g]
      PROVE  /\ Relations' /\ rel' \in [Fields -> Fields \cup {None}]
             /\ \A h \in Fields : rel[h] # None => rel'[h] = rel[h]
             /\ \A c \in Cells : rel'[c[2]] # rel[c[2]] => text[c] = Blank
  <2>1. f \in Fields /\ CapOf[f] = cap
    BY DEF FieldsOf
  <2>2. Relations' /\ rel' \in [Fields -> Fields \cup {None}]
    BY <1>2, <2>1, Opened, RelationAdded DEF LinkIInv
  <2>3. \A h \in Fields : h # f => rel'[h] = rel[h]
    BY <1>2, <2>1, Opened
  <2> QED BY <1>2, <2>2, <2>3, CellFacts
<1> QED BY <1>1, <1>2 DEF LinkStep

(* A first build, whose fields no relation that stands names. *)
LEMMA BuildKeeps == ASSUME LinkIInv, NEW cap \in Caps, Build(cap) PROVE LinkIInv'
<1>1. /\ cap \notin there /\ there' = there \cup {cap} /\ linkable' = linkable \cup FieldsOf(cap)
      /\ LinkStep(cap) /\ UNCHANGED <<records, text, pick, lapsed, typed>>
  BY DEF Build
<1>2. /\ Relations' /\ rel' \in [Fields -> Fields \cup {None}]
      /\ \A f \in Fields : rel[f] # None => rel'[f] = rel[f]
  BY <1>1, LinkStepFacts
<1>3. there' \subseteq Caps /\ linkable' \subseteq Fields
  BY <1>1, Opened DEF FieldsOf
<1>4. Unlinked'
  <2> SUFFICES ASSUME NEW c \in typed PROVE Asleep(c[2])' /\ pick'[c] = None
    BY <1>1 DEF Unlinked
  <2>1. Asleep(c[2]) /\ pick[c] = None /\ c[2] \in Fields
    BY Opened, CellFacts DEF LinkIInv, Unlinked
  <2>2. {CapOf[c[2]], CapOf[rel[c[2]]]} \subseteq there /\ rel'[c[2]] = rel[c[2]]
    BY <1>2, <2>1 DEF LinkIInv, Relations, Asleep
  <2>3. c[2] \notin FieldsOf(cap) /\ rel[c[2]] \notin FieldsOf(cap)
    BY <1>1, <2>2 DEF FieldsOf
  <2> QED BY <1>1, <2>1, <2>2, <2>3 DEF Asleep, Holds
<1>5. \A c \in Cells :
         /\ text'[c] # Blank => c[1] \in records'
         /\ pick'[c] # None =>
              /\ {c[1], pick'[c]} \subseteq records'
              /\ rel'[c[2]] # None /\ CapOf[rel'[c[2]]] = HomeOf[pick'[c]]
  BY <1>1, <1>2, Opened, CellFacts
<1> QED BY <1>1, <1>2, <1>3, <1>4, <1>5, Kept, Opened

(* One round of a revival. *)
LEMMA ReviveKeeps ==
    ASSUME NEW db \in Db, Founded(db), NEW f, NEW holding
    PROVE  /\ Revive(db, f, holding) \in Db /\ Founded(Revive(db, f, holding))
           /\ \A c \in Cells : db.pick[c] = None =>
                /\ Revive(db, f, holding).pick[c] = None
                /\ Revive(db, f, holding).text[c] = db.text[c]
<1> DEFINE new == Revive(db, f, holding)
<1>1. Returned(new, db, f, holding)
  BY ReviveFacts
<1> HIDE DEF new
<1>2. ASSUME NEW c \in Cells
      PROVE  /\ new.pick[c] \in {None, db.pick[c]}
             /\ new.text[c] = db.text[c] \/ db.pick[c] # None
  <2>1. new.pick[c] \in {None, db.pick[c]}
    BY <1>1 DEF Returned
  <2>2. \A s \in Named(db, f) : c \in Shows(db, f, holding, s) => db.pick[c] # None
    BY <1>1 DEF Returned, Named
  <2>3. new.text[c] = db.text[c] \/ \E s \in Named(db, f) : c \in Shows(db, f, holding, s)
    BY <1>1 DEF Returned
  <2> QED BY <2>1, <2>2, <2>3
<1>3. Founded(new)
  BY <1>2 DEF Founded
<1>4. new \in Db
  BY <1>1 DEF Returned
<1> QED BY <1>2, <1>3, <1>4 DEF new

(* What no link leads from is no part of a revival. *)
LEMMA RevivedKeeps ==
    ASSUME LinkIInv, NEW woken \in SUBSET Fields, NEW order \in SetToSeqs(woken), NEW holding
    PROVE  /\ Revived(order, holding) \in Db /\ Founded(Revived(order, holding))
           /\ \A c \in Cells : pick[c] = None =>
                Revived(order, holding).pick[c] = None /\ Revived(order, holding).text[c] = text[c]
<1> DEFINE good == {db \in Db : /\ Founded(db)
                               /\ \A c \in Cells : pick[c] = None =>
                                    db.pick[c] = None /\ db.text[c] = text[c]}
           stage == [n \in 0 .. Len(order) |-> good]
           round(db, n) == Revive(db, order[n], holding)
<1>1. Len(order) \in Nat
  BY OrderFacts
<1>2. ASSUME NEW db \in Db, NEW n \in 1 .. Len(order) PROVE round(db, n) \in Db
  <2>1. Returned(round(db, n), db, order[n], holding)
    BY ReviveFacts
  <2> QED BY <2>1 DEF Returned
<1>3. ASSUME NEW n \in 1 .. Len(order), NEW db \in good PROVE round(db, n) \in good
  <2>1. /\ db \in Db /\ Founded(db)
        /\ \A c \in Cells : pick[c] = None => db.pick[c] = None /\ db.text[c] = text[c]
    OBVIOUS
  <2>2. /\ round(db, n) \in Db /\ Founded(round(db, n))
        /\ \A c \in Cells : db.pick[c] = None =>
             round(db, n).pick[c] = None /\ round(db, n).text[c] = db.text[c]
    BY <2>1, ReviveKeeps
  <2> HIDE DEF round
  <2> QED BY <2>1, <2>2
<1>4. Tables \in good
  BY Opened DEF LinkIInv
<1> HIDE DEF good
<1>5. stage \in [0 .. Len(order) -> SUBSET Db]
  BY DEF good
<1>6. Tables \in stage[0]
  BY <1>1, <1>4
<1>7. ASSUME NEW n \in 1 .. Len(order), NEW db \in stage[n - 1] PROVE round(db, n) \in stage[n]
  BY <1>1, <1>3
<1> HIDE DEF stage
<1>8. Revived(order, holding) \in stage[Len(order)]
  BY <1>1, <1>2, <1>5, <1>6, <1>7, RevivalStages
<1> QED BY <1>1, <1>8 DEF stage, good

(* A wake writes the texts of a revival, and links fields that woke. *)
LEMMA WokenKeeps ==
    ASSUME LinkIInv, NEW woken \in SUBSET Fields, \A f \in woken : rel[f] # None,
           NEW order \in SetToSeqs(woken), NEW holding
    PROVE  /\ Woken(order, holding) \in Db /\ Founded(Woken(order, holding))
           /\ Woken(order, holding).text = Revived(order, holding).text
           /\ \A c \in Cells : c[2] \notin woken =>
                Woken(order, holding).pick[c] = Revived(order, holding).pick[c]
<1> DEFINE base == Revived(order, holding)
           good == {db \in Db : /\ Founded(db) /\ db.text = base.text
                               /\ \A c \in Cells : c[2] \notin woken => db.pick[c] = base.pick[c]}
           stage == [n \in 0 .. Len(order) |-> good]
           round(db, n) == MatchUnlinked(db, order[n])
<1>1. Len(order) \in Nat /\ \A n \in 1 .. Len(order) : order[n] \in woken
  BY OrderFacts
<1>2. ASSUME NEW db \in Db, NEW n \in 1 .. Len(order) PROVE round(db, n) \in Db
  <2> DEFINE skipped == {c \in Cells : c[2] = order[n] /\ db.pick[c] \in records}
  <2>1. round(db, n) = Match(db, order[n], rel[order[n]], skipped)
    BY DEF MatchUnlinked
  <2> HIDE DEF skipped
  <2>2. Matched(round(db, n), db, order[n], rel[order[n]], skipped)
    BY <2>1, Opened, MatchFacts
  <2> QED BY <2>2 DEF Matched
<1>3. base \in good
  BY RevivedKeeps
<1> HIDE DEF base
<1>4. ASSUME NEW n \in 1 .. Len(order), NEW db \in good PROVE round(db, n) \in good
  <2>1. /\ db \in Db /\ Founded(db) /\ db.text = base.text
        /\ \A c \in Cells : c[2] \notin woken => db.pick[c] = base.pick[c]
        /\ order[n] \in woken /\ order[n] \in Fields /\ rel[order[n]] # None
    BY <1>1
  <2>2. /\ round(db, n) \in Db /\ Founded(round(db, n)) /\ round(db, n).text = db.text
        /\ \A c \in Cells : c[2] # order[n] => round(db, n).pick[c] = db.pick[c]
    BY <2>1, MatchKeeps
  <2> HIDE DEF round
  <2> QED BY <2>1, <2>2
<1> HIDE DEF good
<1>5. stage \in [0 .. Len(order) -> SUBSET Db]
  BY DEF good
<1>6. base \in stage[0]
  BY <1>1, <1>3
<1>7. ASSUME NEW n \in 1 .. Len(order), NEW db \in stage[n - 1] PROVE round(db, n) \in stage[n]
  BY <1>1, <1>4
<1> HIDE DEF stage
<1>8. Woken(order, holding) \in stage[Len(order)]
  BY <1>1, <1>2, <1>5, <1>6, <1>7, MatchStages DEF base
<1> QED BY <1>1, <1>8 DEF stage, good, base

(* The relations an evolution leaves: those that were, under fields it may hide or bring back. *)
LEMMA EvolveFacts ==
    ASSUME LinkIInv, NEW cap \in Caps, Evolve(cap)
    PROVE  /\ cap \in there /\ UNCHANGED <<there, records>> /\ linkable' \subseteq Fields
           /\ Relations' /\ rel' \in [Fields -> Fields \cup {None}]
           /\ \A f \in Fields : rel[f] # None => rel'[f] = rel[f]
           /\ \A c \in Cells : rel'[c[2]] # rel[c[2]] => text[c] = Blank
           /\ LET holding == {f \in Fields : rel[f] # None /\ {f, rel[f]} \subseteq linkable'}
              IN  Wake(holding \ Holding, holding)
<1>1. cap \in there /\ UNCHANGED <<there, records>>
  BY DEF Evolve
<1>2. PICK shape \in SUBSET FieldsOf(cap) :
         LET now     == (linkable \ FieldsOf(cap)) \cup shape
             holding == {f \in Fields : rel[f] # None /\ {f, rel[f]} \subseteq now}
         IN  linkable' = now /\ LinkStep(cap) /\ Wake(holding \ Holding, holding)
  BY DEF Evolve
<1>3. linkable' \subseteq Fields
  BY <1>2, Opened DEF FieldsOf
<1>4. /\ Relations' /\ rel' \in [Fields -> Fields \cup {None}]
      /\ \A f \in Fields : rel[f] # None => rel'[f] = rel[f]
      /\ \A c \in Cells : rel'[c[2]] # rel[c[2]] => text[c] = Blank
  BY <1>1, <1>2, LinkStepFacts
<1> QED BY <1>1, <1>2, <1>3, <1>4

(* What an evolution writes: where no record was linked, at most links, of relations that hold. *)
LEMMA EvolveWrites ==
    ASSUME LinkIInv, NEW cap \in Caps, Evolve(cap)
    PROVE  /\ text' \in [Cells -> Texts] /\ pick' \in [Cells -> Records \cup {None}]
           /\ \A c \in Cells :
                /\ text'[c] # Blank => c[1] \in records
                /\ pick'[c] # None =>
                     /\ {c[1], pick'[c]} \subseteq records
                     /\ rel[c[2]] # None /\ CapOf[rel[c[2]]] = HomeOf[pick'[c]]
                /\ pick[c] = None => text'[c] = text[c]
                /\ pick[c] = None /\ pick'[c] # None => Holds(c[2])'
           /\ lapsed' \subseteq Fields /\ typed' \subseteq Cells /\ Unlinked'
<1> DEFINE holding == {f \in Fields : rel[f] # None /\ {f, rel[f]} \subseteq linkable'}
           woken   == holding \ Holding
           written == /\ text' \in [Cells -> Texts] /\ pick' \in [Cells -> Records \cup {None}]
                      /\ \A c \in Cells :
                           /\ text'[c] # Blank => c[1] \in records
                           /\ pick'[c] # None =>
                                /\ {c[1], pick'[c]} \subseteq records
                                /\ rel[c[2]] # None /\ CapOf[rel[c[2]]] = HomeOf[pick'[c]]
                           /\ pick[c] = None => text'[c] = text[c]
                           /\ pick[c] = None /\ pick'[c] # None => c[2] \in woken
<1>1. Wake(woken, holding) /\ woken \in SUBSET Fields /\ \A f \in woken : rel[f] # None
  BY EvolveFacts
<1>2. \A f \in woken : Holds(f)'
  <2>1. \A f \in Fields : rel[f] # None => rel'[f] = rel[f]
    BY EvolveFacts
  <2> QED BY <2>1 DEF Holds
<1> HIDE DEF woken, holding
<1>3. written
  <2>1. ASSUME NEW order \in SetToSeqs(woken), Store(Woken(order, holding))
        PROVE  written
    <3> DEFINE base == Revived(order, holding)
               new  == Woken(order, holding)
    <3>1. \A c \in Cells : pick[c] = None => base.pick[c] = None /\ base.text[c] = text[c]
      BY <1>1, RevivedKeeps
    <3>2. /\ new \in Db /\ Founded(new) /\ new.text = base.text
          /\ \A c \in Cells : c[2] \notin woken => new.pick[c] = base.pick[c]
      BY <1>1, WokenKeeps
    <3>3. text' = new.text /\ pick' = new.pick
      BY <2>1 DEF Store
    <3> HIDE DEF base, new
    <3> QED BY <3>1, <3>2, <3>3 DEF Founded, Db
  <2>2. CASE UNCHANGED <<text, pick>>
    BY <2>2, Opened
  <2> QED BY <1>1, <2>1, <2>2 DEF Wake
<1>4. \A c \in typed : Asleep(c[2])' => pick'[c] = None
  BY <1>2, <1>3, Opened DEF LinkIInv, Unlinked, Asleep
<1>5. Remember(<<woken, {}>>, {}) \/ Remember(<<{}, woken>>, {})
  BY <1>1 DEF Wake
<1>6. Unlinked' /\ lapsed' \subseteq Fields /\ typed' \subseteq Cells
  BY <1>1, <1>4, <1>5, Remembered DEF LinkIInv
<1> QED BY <1>2, <1>3, <1>6

(* An evolution. *)
LEMMA EvolveKeeps == ASSUME LinkIInv, NEW cap \in Caps, Evolve(cap) PROVE LinkIInv'
<1>1. \A c \in Cells :
         /\ text'[c] # Blank => c[1] \in records'
         /\ pick'[c] # None =>
              /\ {c[1], pick'[c]} \subseteq records'
              /\ rel'[c[2]] # None /\ CapOf[rel'[c[2]]] = HomeOf[pick'[c]]
  BY EvolveFacts, EvolveWrites, CellFacts
<1> QED BY <1>1, EvolveFacts, EvolveWrites, Kept, Opened

(* A capability is deleted, with the relations and rows of its lifetime. *)
LEMMA DeleteCapabilityKeeps ==
    ASSUME LinkIInv, NEW cap \in Caps, DeleteCapability(cap) PROVE LinkIInv'
<1>1. /\ cap \in there /\ there' = there \ {cap} /\ linkable' = linkable \ FieldsOf(cap)
      /\ records' = {r \in records : HomeOf[r] # cap}
      /\ rel'  = [f \in Fields |-> IF CapOf[f] = cap \/ rel[f] \in FieldsOf(cap) THEN None
           ELSE rel[f]]
      /\ text' = [c \in Cells |-> IF HomeOf[c[1]] = cap THEN Blank ELSE text[c]]
      /\ pick' = [c \in Cells |->
                    IF HomeOf[c[1]] = cap \/ pick[c] \in {r \in Records : HomeOf[r] = cap}
                      THEN None ELSE pick[c]]
      /\ Remember(<<{}, {}>>, {})
  BY DEF DeleteCapability
<1>2. rel' \in [Fields -> Fields \cup {None}] /\ text' \in [Cells -> Texts]
      /\ pick' \in [Cells -> Records \cup {None}]
  BY <1>1, Opened, CellFacts
<1>3. \A f \in Fields : rel'[f] # None =>
         rel'[f] = rel[f] /\ CapOf[f] # cap /\ CapOf[rel[f]] # cap
  BY <1>1, Opened DEF FieldsOf
<1>4. Relations'
  <2>1. \A f \in Fields : rel'[f] # None => {CapOf[f], CapOf[rel[f]]} \subseteq there'
    BY <1>1, <1>3 DEF LinkIInv, Relations
  <2> QED BY <1>2, <1>3, <2>1, Opened, RelationsFewer DEF LinkIInv
<1>5. \A c \in typed : pick'[c] = None
  BY <1>1, Opened DEF LinkIInv, Unlinked
<1>6. Unlinked' /\ lapsed' \subseteq Fields /\ typed' \subseteq Cells
  BY <1>1, <1>5, Remembered DEF LinkIInv
<1>7. ASSUME NEW c \in Cells
      PROVE  /\ text'[c] # Blank => c[1] \in records'
             /\ pick'[c] # None =>
                  /\ {c[1], pick'[c]} \subseteq records'
                  /\ rel'[c[2]] # None /\ CapOf[rel'[c[2]]] = HomeOf[pick'[c]]
  <2>1. text'[c] # Blank => c[1] \in records'
    BY <1>1, Opened
  <2>2. ASSUME pick'[c] # None
        PROVE  /\ {c[1], pick'[c]} \subseteq records'
               /\ rel'[c[2]] # None /\ CapOf[rel'[c[2]]] = HomeOf[pick'[c]]
    <3>1. /\ pick'[c] = pick[c] /\ {c[1], pick[c]} \subseteq records
          /\ HomeOf[c[1]] # cap /\ HomeOf[pick[c]] # cap
          /\ rel[c[2]] # None /\ CapOf[rel[c[2]]] = HomeOf[pick[c]]
      BY <1>1, <2>2, Opened
    <3>2. c[2] \in Fields /\ CapOf[c[2]] # cap /\ rel[c[2]] \notin FieldsOf(cap)
      BY <3>1, CellFacts DEF FieldsOf
    <3> QED BY <1>1, <3>1, <3>2
  <2> QED BY <2>1, <2>2
<1>8. there' \subseteq Caps /\ linkable' \subseteq Fields /\ records' \subseteq Records
  BY <1>1, Opened
<1> QED BY <1>2, <1>4, <1>6, <1>7, <1>8, Kept

-----------------------------------------------------------------------------
(* what follows *)

(* The empty desk satisfies the invariant, *)
LEMMA LinkInitIInv == LinkInit => LinkIInv
<1> SUFFICES ASSUME LinkInit PROVE LinkIInv
  OBVIOUS
<1>1. LinkTypeOK /\ Founded(Tables)
  BY CellFacts DEF LinkInit, LinkTypeOK, Founded, Tables, Db
<1>2. Relations /\ Unlinked
  BY DEF LinkInit, Relations, Unlinked
<1> QED BY <1>1, <1>2 DEF LinkIInv

(* and every step keeps it. *)
LEMMA LinkNextIInv == LinkIInv /\ [LinkNext]_linkVars => LinkIInv'
<1> SUFFICES ASSUME LinkIInv, [LinkNext]_linkVars PROVE LinkIInv'
  OBVIOUS
<1>1. ASSUME NEW r \in Records, Create(r) \/ Update(r) \/ Delete(r) PROVE LinkIInv'
  BY <1>1, CreateKeeps, SaveKeeps, DeleteKeeps DEF Update
<1>2. ASSUME NEW f \in Fields, Unlink(f) \/ MatchAtStartup(f) \/ \E g \in Fields : Link(f, g)
      PROVE  LinkIInv'
  BY <1>2, UnlinkKeeps, StartupKeeps, LinkKeeps
<1>3. ASSUME NEW cap \in Caps, Build(cap) \/ Evolve(cap) \/ DeleteCapability(cap) PROVE LinkIInv'
  BY <1>3, BuildKeeps, EvolveKeeps, DeleteCapabilityKeeps
<1>4. CASE UNCHANGED linkVars
  BY <1>4 DEF linkVars, LinkIInv, LinkTypeOK, Founded, Tables, Relations, Reaches, Unlinked,
              Asleep, Holds
<1> QED BY <1>1, <1>2, <1>3, <1>4 DEF LinkNext

(* The tables stay typed and well founded, relations close no loop, and nobody has linked what was
   typed while a relation slept. *)
THEOREM LinkInvariance == LinkSpec => []LinkIInv
<1> QED BY LinkInitIInv, LinkNextIInv, PTL DEF LinkSpec

(* Rows join records that exist, under relations that stand between capabilities of the desk and
   close no loop. (release, unlink, relation diff, rules.ts) *)
THEOREM RowsUnderRelationsHolds == LinkSpec => []RowsUnderRelations
<1>1. LinkIInv => RowsUnderRelations
  BY Opened DEF LinkIInv, Relations, RowsUnderRelations
<1> QED BY <1>1, LinkInvariance, PTL

(* A relation that wakes overwrites nothing that was typed while it slept. (relinkUpdatedRecord,
   wokenRelationWork) *)
THEOREM RevivalKeepsTypedHolds == LinkSpec => RevivalKeepsTyped
<1> DEFINE kept == \A c \in typed : rel'[c[2]] = rel[c[2]] /\ Holds(c[2])' => text'[c] = text[c]
<1>1. LinkIInv /\ [LinkNext]_linkVars => [kept]_linkVars
  <2> SUFFICES ASSUME LinkIInv, LinkNext, NEW c \in typed, rel'[c[2]] = rel[c[2]], Holds(c[2])'
               PROVE  text'[c] = text[c]
    OBVIOUS
  <2>1. c \in Cells /\ Asleep(c[2]) /\ pick[c] = None /\ c[2] \in Fields
    BY Opened, CellFacts DEF LinkIInv, Unlinked
  <2>2. ~(linkable' \subseteq linkable)
    BY <2>1 DEF Asleep, Holds
  <2>3. \/ \E cap \in Caps : Build(cap)
        \/ \E cap \in Caps : Evolve(cap)
    BY <2>2 DEF LinkNext, Create, Update, Save, Delete, Link, Unlink, MatchAtStartup,
       DeleteCapability
  <2> QED BY <2>1, <2>3, EvolveWrites DEF Build
<1> QED BY <1>1, LinkInvariance, PTL DEF LinkSpec, RevivalKeepsTyped

-----------------------------------------------------------------------------
(* the texts: what a cell shows, and how far a change is carried *)

Agrees(db, c) == db.text[c] # Blank /\ db.text[c] = db.text[Target(db, c)]

(* Whatever contains the cells, and what leads to it, contains what is downstream of them. *)
LEMMA DownstreamWithin ==
    ASSUME NEW db, NEW holding, NEW cells, NEW S \in SUBSET Cells, cells \subseteq S,
           \A c \in Cells : c[2] \in holding /\ Target(db, c) \in S => c \in S
    PROVE  Downstream(db, cells, holding) \subseteq S
BY DEF Downstream

(* Links let go shorten a chain. *)
LEMMA DownstreamShrinks ==
    ASSUME NEW db \in Db, NEW old \in Db, \A c \in Cells : db.pick[c] \in {None, old.pick[c]},
           NEW cells \in SUBSET Cells, NEW holding
    PROVE  Downstream(db, cells, holding) \subseteq Downstream(old, cells, holding)
<1> DEFINE S == cells \cup Downstream(old, cells, holding)
<1>1. S \in SUBSET Cells /\ cells \subseteq S
  BY DownstreamFacts
<1>2. ASSUME NEW c \in Cells, c[2] \in holding, Target(db, c) \in S PROVE c \in S
  <2>1. db.pick[c] # None
    BY <1>1, <1>2, CellFacts DEF Target
  <2>2. Target(old, c) \in S
    BY <1>2, <2>1 DEF Target
  <2> QED BY <1>2, <2>2, DownstreamFacts
<1> HIDE DEF S
<1>3. Downstream(db, cells, holding) \subseteq S
  BY <1>1, <1>2, DownstreamWithin
<1>4. \A c \in Downstream(db, cells, holding) : c \notin cells
  BY DownstreamFacts
<1> QED BY <1>3, <1>4 DEF S

(* A row leads to a cell of the field its relation points at. *)
LEMMA TargetCells ==
    ASSUME rel \in [Fields -> Fields \cup {None}], NEW db \in Db, Founded(db),
           NEW c \in Cells, db.pick[c] # None
    PROVE  Target(db, c) \in Cells /\ db.pick[c] \in Records /\ rel[c[2]] \in Fields
<1>1. db.pick[c] \in Records /\ rel[c[2]] \in Fields /\ HomeOf[db.pick[c]] = CapOf[rel[c[2]]]
  BY CellFacts DEF Founded, Db
<1> QED BY <1>1, CellFacts DEF Target

(* No chain of relations comes back to a field it began at, nor to what that field points at. *)
LEMMA NoWayBack ==
    ASSUME Relations, NEW db \in Db, NEW f \in Fields, rel[f] # None, NEW holding,
           NEW cells \in SUBSET Cells, \A c \in cells : c[2] = f
    PROVE  rel[f] # f /\ \A c \in Downstream(db, cells, holding) : c[2] # f /\ c[2] # rel[f]
<1>1. PICK S \in SUBSET Fields : rel[f] \in S /\ f \notin S /\ \A h \in S : rel[h] \in S \cup {None}
  BY DEF Relations, Reaches
<1> DEFINE far == {c \in Cells : c[2] \notin S}
<1>2. \A c \in Cells : Target(db, c) \in Cells => rel[c[2]] # None /\ Target(db, c)[2] = rel[c[2]]
  BY CellFacts DEF Target
<1>3. Downstream(db, cells, holding) \subseteq far
  <2>1. far \in SUBSET Cells /\ cells \subseteq far
    BY <1>1
  <2>2. \A c \in Cells : c[2] \in holding /\ Target(db, c) \in far => c \in far
    BY <1>1, <1>2
  <2> HIDE DEF far
  <2> QED BY <2>1, <2>2, DownstreamWithin
<1>4. ASSUME NEW c \in Downstream(db, cells, holding) PROVE c[2] # f /\ c[2] # rel[f]
  <2>1. c \in far /\ c \in Cells
    BY <1>3
  <2>2. Target(db, c) \in cells \cup Downstream(db, cells, holding)
    BY DownstreamFacts
  <2>3. Target(db, c) \in far
    BY <1>1, <1>3, <2>2
  <2> QED BY <1>1, <1>2, <2>1, <2>3
<1> QED BY <1>1, <1>4

(* What a record's own edit is carried to does not lead it to itself. *)
LEMMA NoLoop ==
    ASSUME Relations, NEW db \in Db, NEW cell \in Cells
    PROVE  Target(db, cell) \notin {cell} \cup Downstream(db, {cell}, Holding)
<1>1. SUFFICES ASSUME Target(db, cell) \in {cell} \cup Downstream(db, {cell}, Holding) PROVE FALSE
  OBVIOUS
<1>2. {cell} \in SUBSET Cells /\ \A c \in {cell} : c[2] = cell[2]
  OBVIOUS
<1> DEFINE down == Downstream(db, {cell}, Holding)
<1>6. \A c \in down : c \in Cells
  BY DownstreamOfCell
<1>3. Target(db, cell) \in Cells
  BY <1>1, <1>6
<1>4. cell[2] \in Fields /\ rel[cell[2]] # None /\ Target(db, cell)[2] = rel[cell[2]]
  BY <1>3, CellFacts DEF Target
<1>5. rel[cell[2]] # cell[2] /\ \A c \in Downstream(db, {cell}, Holding) : c[2] # rel[cell[2]]
  BY <1>2, <1>4, NoWayBack
<1> QED BY <1>1, <1>4, <1>5

(* One round of a refresh settles the links to the cell it starts from, and unsettles none. *)
LEMMA FollowAgrees ==
    ASSUME Relations, NEW db \in Db, NEW cell \in Cells, NEW shown \in Texts, db.text[cell] = shown,
           NEW c \in Cells, Holds(c[2]), Target(db, c) \in Cells,
           Follow(db, cell, shown).pick[c] # None,
           Agrees(db, c) \/ Target(db, c) = cell
    PROVE  /\ Agrees(Follow(db, cell, shown), c)
           /\ Follow(db, cell, shown).pick[c] = db.pick[c]
<1> DEFINE new == Follow(db, cell, shown)
           down == Downstream(db, {cell}, Holding)
<1>1. CASE shown = Blank
  <2>1. Target(db, c) # cell /\ new.pick[c] = db.pick[c] /\ new.text = db.text
    BY <1>1, FollowBlank
  <2> HIDE DEF new
  <2> QED BY <2>1 DEF Agrees, Target, new
<1>2. CASE shown # Blank
  <2>1. new.pick = db.pick /\ new.text = [x \in Cells |-> IF x \in down THEN shown ELSE db.text[x]]
    BY <1>2, FollowText
  <2>2. cell \notin down /\ (c \in down
          => Target(db, c) \in {cell} \cup down) /\ \A x \in down : x \in Cells
    BY DownstreamOfCell
  <2>3. c # cell /\ Target(db, c) \in {cell} \cup down => c \in down
    BY DownstreamOfCell
  <2>4. Target(db, cell) \notin {cell} \cup down
    BY NoLoop
  <2> HIDE DEF new, down
  <2>5. Target(new, c) = Target(db, c)
    BY <2>1 DEF Target
  <2>6. CASE c \in down
    <3>1. new.text[c] = shown
      BY <2>1, <2>6
    <3>2. new.text[Target(db, c)] = shown
      BY <2>1, <2>2, <2>6
    <3> QED BY <1>2, <2>1, <2>5, <3>1, <3>2 DEF Agrees, new
  <2>7. CASE c \notin down
    <3>1. Target(db, c) \notin {cell} \cup down
      BY <2>3, <2>4, <2>7
    <3>2. Agrees(db, c) /\ new.text[c] = db.text[c]
      BY <2>1, <2>7, <3>1
    <3> QED BY <2>1, <2>5, <3>1, <3>2 DEF Agrees, new
  <2> QED BY <2>6, <2>7
<1> QED BY <1>1, <1>2

(* Every link that has to be shown is. *)
Shown(db) ==
    \A c \in Cells : Holds(c[2]) /\ c[2] \notin lapsed /\ db.pick[c] # None => Agrees(db, c)

(* A save whose refresh carries one of its own new texts back to another field it edited. *)
Rings(r, form) ==
    \E f, g \in Targets(r, form) : <<r, f>> \in Downstream(Saved(r, form), {<<r, g>>}, Holding)

(* What the edit of a record leaves to be refreshed. *)
Pending(db, r, order, n) ==
    \A c \in Cells : Holds(c[2]) /\ c[2] \notin lapsed /\ db.pick[c] # None =>
        Agrees(db, c) \/ \E m \in n .. Len(order) : Target(db, c) = <<r, order[m]>>

(* The edit unsettles no links but those to the texts its refresh will carry. *)
LEMMA SavedShows ==
    ASSUME LinkIInv, Shown(Tables), NEW r \in records, NEW form \in Forms(HomeOf[r]),
           \A f \in FieldsOf(HomeOf[r]) : Accepted(form, f, text[<<r, f>>]),
           NEW order \in SetToSeqs(Targets(r, form))
    PROVE  Pending(Saved(r, form), r, order, 1)
<1> DEFINE db == Saved(r, form)
<1>1. db \in Db /\ Founded(db) /\ r \in Records
  BY SavedFacts, Opened
<1>2. \A c \in Cells : /\ db.text[c] = IF c[1] = r THEN After(r, form, c[2]) ELSE text[c]
                       /\ db.pick[c] = IF c[1] = r THEN Relinked(r, form, c[2]) ELSE pick[c]
  BY DEF Saved
<1> HIDE DEF db
<1> SUFFICES ASSUME NEW c \in Cells, Holds(c[2]), c[2] \notin lapsed, db.pick[c] # None
             PROVE  Agrees(db, c) \/ \E m \in 1 .. Len(order) : Target(db, c) = <<r, order[m]>>
  BY DEF Pending, db
<1> DEFINE to == Target(db, c)
<1>3. to \in Cells /\ to = <<db.pick[c], rel[c[2]]>> /\ rel[c[2]] \in Fields
  BY <1>1, TargetCells, Opened DEF Target
<1>4. to[1] # c[1] /\ to[1] = db.pick[c] /\ to[2] = rel[c[2]] /\ c[2] \in Fields
  <2>1. HomeOf[to[1]] = CapOf[rel[c[2]]] /\ HomeOf[c[1]] = CapOf[c[2]] /\ c[2] \in Fields
    BY <1>3, CellFacts
  <2>2. CapOf[c[2]] # CapOf[rel[c[2]]]
    BY <2>1 DEF LinkIInv, Relations, Holds
  <2> QED BY <1>3, <2>1, <2>2
<1>5. pick[c] # None => text[c] # Blank /\ text[c] = text[Target(Tables, c)]
        /\ Target(Tables, c) = <<pick[c], rel[c[2]]>>
  BY Opened DEF Shown, Agrees, Target
<1>6. CASE c[1] = r
  <2>1. c[2] \in FieldsOf(HomeOf[r]) /\ c = <<r, c[2]>>
    BY <1>1, <1>6, FieldCells, CellFacts
  <2>2. db.text[to] = text[to] /\ db.text[c] = After(r, form, c[2])
          /\ db.pick[c] = Relinked(r, form, c[2])
    BY <1>2, <1>3, <1>4, <1>6
  <2>3. CASE form[c[2]].how = "pick"
    <3>1. /\ db.pick[c] = form[c[2]].record /\ Pickable(c[2], form[c[2]].record)
          /\ db.text[c] = text[<<form[c[2]].record, rel[c[2]]>>]
      BY <2>1, <2>2, <2>3 DEF Relinked, Accepted, After, Stored
    <3> QED BY <1>3, <2>2, <3>1 DEF Agrees, Pickable
  <2>4. CASE form[c[2]].how # "pick"
    <3>1. db.pick[c] = pick[c] /\ db.text[c] = text[c]
      BY <2>1, <2>2, <2>4 DEF Relinked, After, Stored
    <3> QED BY <1>3, <1>5, <2>2, <3>1 DEF Agrees
  <2> QED BY <2>3, <2>4
<1>7. CASE c[1] # r
  <2>1. db.pick[c] = pick[c] /\ db.text[c] = text[c]
    BY <1>2, <1>7
  <2>2. text[c] # Blank /\ text[c] = text[to]
    BY <1>3, <1>5, <2>1
  <2>3. CASE to[1] # r \/ After(r, form, to[2]) = text[to]
    <3>1. db.text[to] = text[to]
      BY <1>2, <1>3, <2>3
    <3> QED BY <2>1, <2>2, <3>1 DEF Agrees
  <2>4. CASE to[1] = r /\ After(r, form, to[2]) # text[to]
    <3>1. to = <<r, to[2]>> /\ to[2] \in FieldsOf(HomeOf[r])
      BY <1>1, <1>3, <2>4, FieldCells, CellFacts
    <3>2. to[2] \in Targets(r, form)
      BY <1>4, <2>4, <3>1 DEF Targets, Changed
    <3>3. \E m \in 1 .. Len(order) : order[m] = to[2]
      <4>1. Targets(r, form) \in SUBSET Fields
        BY DEF Targets, Changed, FieldsOf
      <4> QED BY <3>2, <4>1, OrderFacts
    <3> QED BY <3>1, <3>3
  <2> QED BY <2>3, <2>4
<1> QED BY <1>6, <1>7

(* Round after round the refresh settles them, if none of its rounds changes a text still to be
   carried. *)
LEMMA RefreshShows ==
    ASSUME LinkIInv, Shown(Tables), NEW r \in records, NEW form \in Forms(HomeOf[r]), ~Rings(r,
    form),
           \A f \in FieldsOf(HomeOf[r]) : Accepted(form, f, text[<<r, f>>]),
           NEW order \in SetToSeqs(Targets(r, form))
    PROVE  Shown(Refreshed(r, form, order))
<1> DEFINE base == Saved(r, form)
           good(n) == {db \in Db : /\ Founded(db)
                                   /\ \A c \in Cells : db.pick[c] \in {None, base.pick[c]}
                                   /\ \A f \in Targets(r, form) : db.text[<<r, f>>] = After(r,
                                      form, f)
                                   /\ Pending(db, r, order, n + 1)}
           stage == [n \in 0 .. Len(order) |-> good(n)]
           round(db, n) == Follow(db, <<r, order[n]>>, After(r, form, order[n]))
<1>1. /\ Targets(r, form) \in SUBSET Fields /\ Targets(r, form) \subseteq FieldsOf(HomeOf[r])
      /\ r \in Records
  BY Opened DEF Targets, Changed, FieldsOf
<1>2. Len(order) \in Nat /\ \A n \in 1 .. Len(order) : order[n] \in Targets(r, form)
  BY <1>1, OrderFacts
<1>3. \A f \in Targets(r, form) : <<r, f>> \in Cells /\ After(r, form, f) \in Texts
  BY <1>1, FieldCells, SavedFacts
<1>4. ASSUME NEW db \in Db, NEW n \in 1 .. Len(order) PROVE round(db, n) \in Db
  BY <1>2, <1>3, FollowBlank, FollowText
<1>5. /\ base \in Db /\ Founded(base) /\ Pending(base, r, order, 1)
      /\ \A f \in Targets(r, form) : base.text[<<r, f>>] = After(r, form, f)
  <2>1. \A c \in Cells : c[1] = r => base.text[c] = After(r, form, c[2])
    BY DEF Saved
  <2> HIDE DEF base
  <2>2. \A f \in Targets(r, form) : base.text[<<r, f>>] = After(r, form, f)
    BY <1>3, <2>1
  <2> QED BY <2>2, SavedFacts, SavedShows DEF base
<1> HIDE DEF base
<1>6. ASSUME NEW n \in 1 .. Len(order), NEW db \in good(n - 1) PROVE round(db, n) \in good(n)
  <2> DEFINE new == round(db, n)
             cell == <<r, order[n]>>
             shown == After(r, form, order[n])
             down == Downstream(db, {cell}, Holding)
  <2>1. /\ db \in Db /\ Founded(db) /\ \A c \in Cells : db.pick[c] \in {None, base.pick[c]}
        /\ \A f \in Targets(r, form) : db.text[<<r, f>>] = After(r, form, f)
        /\ Pending(db, r, order, n)
    BY <1>2
  <2>2. order[n] \in Targets(r, form) /\ cell \in Cells /\ shown \in Texts /\ db.text[cell] = shown
    BY <1>2, <1>3, <2>1
  <2>3. /\ new \in Db /\ Founded(new)
        /\ \A c \in Cells : new.pick[c] \in {None, db.pick[c]}
    BY <2>1, <2>2, FollowKeeps
  <2>4. ASSUME NEW f \in Targets(r, form) PROVE new.text[<<r, f>>] = After(r, form, f)
    <3>1. <<r, f>> \notin down
      <4>1. {cell} \in SUBSET Cells
        BY <2>2
      <4>2. down \subseteq Downstream(base, {cell}, Holding)
        BY <1>5, <2>1, <4>1, DownstreamShrinks
      <4> QED BY <2>2, <4>2 DEF Rings, base
    <3>2. CASE shown = Blank
      <4>1. new.text = db.text
        BY <2>1, <2>2, <3>2, FollowBlank
      <4> QED BY <2>1, <4>1
    <3>3. CASE shown # Blank
      <4>1. new.text = [c \in Cells |-> IF c \in down THEN shown ELSE db.text[c]]
        BY <2>1, <2>2, <3>3, FollowText
      <4> QED BY <1>3, <2>1, <3>1, <4>1
    <3> QED BY <3>2, <3>3
  <2>5. ASSUME NEW c \in Cells, Holds(c[2]), c[2] \notin lapsed, new.pick[c] # None
        PROVE  Agrees(new, c) \/ \E m \in n + 1 .. Len(order) : Target(new, c) = <<r, order[m]>>
    <3>1. new.pick[c] = db.pick[c] /\ db.pick[c] # None
      BY <2>3, <2>5
    <3>2. Target(db, c) \in Cells /\ Target(new, c) = Target(db, c)
      BY <2>1, <3>1, TargetCells, Opened DEF Target
    <3>3. PICK m \in n .. Len(order) : Agrees(db, c) \/ Target(db, c) = <<r, order[m]>>
      <4>1. n \in n .. Len(order)
        BY <1>2
      <4>2. Agrees(db, c) \/ \E m \in n .. Len(order) : Target(db, c) = <<r, order[m]>>
        BY <2>1, <2>5, <3>1 DEF Pending
      <4> QED BY <4>1, <4>2
    <3>4. CASE Agrees(db, c) \/ m = n
      <4>1. Agrees(db, c) \/ Target(db, c) = cell
        BY <3>3, <3>4
      <4>2. Relations
        BY DEF LinkIInv
      <4>3. Agrees(Follow(db, cell, shown), c)
        BY <2>1, <2>2, <2>5, <3>2, <4>1, <4>2, FollowAgrees
      <4> QED BY <4>3
    <3>5. CASE Target(db, c) = <<r, order[m]>> /\ m # n
      <4>1. m \in n + 1 .. Len(order)
        BY <1>2, <3>5
      <4> QED BY <3>2, <3>5, <4>1
    <3> QED BY <3>3, <3>4, <3>5
  <2>6. \A c \in Cells : new.pick[c] \in {None, base.pick[c]}
    <3> HIDE DEF new
    <3> QED BY <2>1, <2>3
  <2>7. Pending(new, r, order, n + 1)
    <3> HIDE DEF new
    <3> QED BY <2>5 DEF Pending
  <2> HIDE DEF new
  <2>8. new \in good(n)
    BY <2>3, <2>4, <2>6, <2>7
  <2> QED BY <2>8 DEF new
<1>7. base \in good(0)
  BY <1>5
<1> HIDE DEF good
<1>8. stage \in [0 .. Len(order) -> SUBSET Db]
  BY DEF good
<1>9. base \in stage[0]
  BY <1>2, <1>7
<1>10. ASSUME NEW n \in 1 .. Len(order), NEW db \in stage[n - 1] PROVE round(db, n) \in stage[n]
  <2>1. n - 1 \in 0 .. Len(order) /\ n \in 0 .. Len(order)
    BY <1>2
  <2>2. stage[n - 1] = good(n - 1) /\ stage[n] = good(n)
    BY <2>1
  <2> HIDE DEF stage, round
  <2> QED BY <1>6, <1>10, <2>2
<1> HIDE DEF stage
<1>11. Refreshed(r, form, order) \in stage[Len(order)]
  BY <1>2, <1>4, <1>8, <1>9, <1>10, RefreshStages DEF base
<1>12. Refreshed(r, form, order) \in good(Len(order))
  BY <1>2, <1>11 DEF stage
<1>13. Pending(Refreshed(r, form, order), r, order, Len(order) + 1)
  BY <1>12 DEF good
<1> QED BY <1>2, <1>13 DEF Pending, Shown

(* What a revival of the cells of f shows a name in. *)
LEMMA ShowsFacts ==
    ASSUME Relations, NEW db \in Db, NEW f \in Fields, rel[f] # None, NEW holding, NEW s \in Records
    PROVE  /\ \A c \in Shows(db, f, holding, s) :
                /\ c \in Cells /\ c[2] # rel[f] /\ db.pick[c] # None
                /\ c[2] = f => db.pick[c] = s
                /\ c[2] # f => Target(db, c) \in Shows(db, f, holding, s)
           /\ \A c \in Cells : c[2] \in holding /\ Target(db, c) \in Shows(db, f, holding, s)
                                 => c \in Shows(db, f, holding, s)
           /\ \A c \in Cells : c[2] = f /\ db.pick[c] = s => c \in Shows(db, f, holding, s)
<1> DEFINE mine == Mine(db, f, s)
           down == Downstream(db, mine, holding)
<1>1. /\ mine \in SUBSET Cells /\ \A c \in mine : c[2] = f /\ db.pick[c] = s
      /\ \A c \in Cells : c[2] = f /\ db.pick[c] = s => c \in mine
  BY DEF Mine
<1> HIDE DEF mine
<1>2. /\ \A c \in down : c \in Cells \ mine /\ db.pick[c] # None /\ Target(db, c) \in mine \cup down
      /\ \A c \in Cells \ mine : c[2] \in holding /\ Target(db, c) \in mine \cup down => c \in down
  BY <1>1, DownstreamFacts
<1>3. rel[f] # f /\ \A c \in down : c[2] # f /\ c[2] # rel[f]
  BY <1>1, NoWayBack
<1>4. Shows(db, f, holding, s) = mine \cup down
  BY DEF Shows, mine
<1>5. None \notin Records
  BY CellFacts
<1> HIDE DEF down
<1>6. ASSUME NEW c \in mine \cup down
      PROVE  /\ c \in Cells /\ c[2] # rel[f] /\ db.pick[c] # None
             /\ c[2] = f => db.pick[c] = s
             /\ c[2] # f => Target(db, c) \in mine \cup down
  BY <1>1, <1>2, <1>3, <1>5
<1> QED BY <1>1, <1>2, <1>4, <1>6

(* No cell shows two of them. *)
LEMMA ShowsApart ==
    ASSUME Relations, NEW db \in Db, NEW f \in Fields, rel[f] # None, NEW holding,
           NEW s \in Records, NEW t \in Records, s # t
    PROVE  Shows(db, f, holding, s) \cap Shows(db, f, holding, t) = {}
<1> DEFINE one == Shows(db, f, holding, s)
           other == Shows(db, f, holding, t)
           mine == Mine(db, f, s)
           apart == {c \in one : c[2] = f \/ c \notin other}
<1>1. /\ \A c \in one : /\ c \in Cells /\ c[2] # rel[f] /\ (c[2] = f => db.pick[c] = s)
                        /\ c[2] # f => Target(db, c) \in one
      /\ \A c \in Cells : c[2] \in holding /\ Target(db, c) \in one => c \in one
      /\ \A c \in Cells : c[2] = f /\ db.pick[c] = s => c \in one
  BY ShowsFacts
<1>2. \A c \in other : /\ c \in Cells /\ c[2] # rel[f] /\ (c[2] = f => db.pick[c] = t)
                       /\ c[2] # f => Target(db, c) \in other
  BY ShowsFacts
<1>3. mine \in SUBSET Cells /\ \A c \in mine : c[2] = f /\ db.pick[c] = s
  BY DEF Mine
<1>4. one = mine \cup Downstream(db, mine, holding)
  BY DEF Shows
<1> HIDE DEF one, other, mine
<1>5. apart \in SUBSET Cells /\ mine \subseteq apart
  BY <1>1, <1>3
<1>6. ASSUME NEW c \in Cells, c[2] \in holding, Target(db, c) \in apart PROVE c \in apart
  <2>1. c \in one
    BY <1>1, <1>6
  <2> SUFFICES ASSUME c[2] # f, c \in other PROVE FALSE
    BY <2>1
  <2>2. Target(db, c) \in other
    BY <1>2
  <2> QED BY <1>1, <1>2, <1>6, <2>2
<1> HIDE DEF apart
<1>7. Downstream(db, mine, holding) \subseteq apart
  BY <1>5, <1>6, DownstreamWithin
<1> QED BY <1>1, <1>2, <1>4, <1>5, <1>7 DEF apart, one, other

(* The links of some fields are shown. *)
ShownIn(db, fields) ==
    \A c \in Cells : c[2] \in fields /\ db.pick[c] # None => Agrees(db, c)

(* A round of a revival settles the woken field, and unsettles nothing. *)
LEMMA ReviveShows ==
    ASSUME Relations, rel \in [Fields -> Fields \cup {None}], NEW db \in Db, Founded(db),
           NEW holding \in SUBSET Fields, NEW f \in holding, rel[f] # None,
           NEW fields \in SUBSET holding, ShownIn(db, fields)
    PROVE  ShownIn(Revive(db, f, holding), fields \cup {f})
<1> DEFINE new == Revive(db, f, holding)
           named == Named(db, f)
           shows(s) == Shows(db, f, holding, s)
<1>1. Returned(new, db, f, holding)
  BY ReviveFacts
<1>2. named \in SUBSET Records /\ \A s \in named : <<s, rel[f]>> \in Cells
        /\ db.text[<<s, rel[f]>>] # Blank
  BY DEF Named
<1>3. f \in Fields
  OBVIOUS
<1>4. ASSUME NEW s \in named
      PROVE  /\ \A c \in shows(s) : /\ c \in Cells /\ c[2] # rel[f]
                                    /\ c[2] = f => db.pick[c] = s
                                    /\ c[2] # f => Target(db, c) \in shows(s)
             /\ \A c \in Cells : c[2] \in holding /\ Target(db, c) \in shows(s) => c \in shows(s)
             /\ \A c \in Cells : c[2] = f /\ db.pick[c] = s => c \in shows(s)
  BY <1>2, <1>3, ShowsFacts
<1>5. ASSUME NEW s \in named, NEW t \in named, NEW c \in shows(s), c \in shows(t) PROVE s = t
  BY <1>2, <1>3, <1>5, ShowsApart
<1>6. \A c \in Cells :
        \/ new.text[c] = db.text[c] /\ \A s \in named : c \notin shows(s)
        \/ \E s \in named : c \in shows(s) /\ new.text[c] = db.text[<<s, rel[f]>>]
  BY <1>1 DEF Returned
<1>7. \A c \in Cells : new.pick[c] = IF c[2] = f /\ db.pick[c] \notin named THEN None
        ELSE db.pick[c]
  BY <1>1 DEF Returned
<1> HIDE DEF new, named, shows
<1> SUFFICES ASSUME NEW c \in Cells, c[2] \in fields \cup {f}, new.pick[c] # None
      PROVE Agrees(new, c)
  BY DEF ShownIn, new
<1> DEFINE to == Target(db, c)
<1>8. new.pick[c] = db.pick[c] /\ (c[2] = f => db.pick[c] \in named)
  BY <1>7
<1>9. to \in Cells /\ to = <<db.pick[c], rel[c[2]]>> /\ Target(new, c) = to
  BY <1>8, TargetCells DEF Target
<1> HIDE DEF to
<1>10. CASE c[2] = f
  <2>1. c \in shows(db.pick[c]) /\ db.pick[c] \in named
    BY <1>4, <1>8, <1>10
  <2>2. new.text[c] = db.text[to]
    BY <1>5, <1>6, <1>9, <1>10, <2>1
  <2>3. \A s \in named : to \notin shows(s)
    BY <1>4, <1>9, <1>10
  <2>4. new.text[to] = db.text[to]
    BY <1>6, <1>9, <2>3
  <2>5. db.text[to] # Blank
    BY <1>2, <1>9, <1>10, <2>1
  <2> QED BY <1>9, <2>2, <2>4, <2>5 DEF Agrees
<1>11. CASE c[2] # f
  <2>1. Agrees(db, c) /\ c[2] \in holding
    BY <1>8, <1>11 DEF ShownIn
  <2>2. CASE \A s \in named : c \notin shows(s)
    <3>1. \A s \in named : to \notin shows(s)
      BY <1>4, <2>1, <2>2 DEF to
    <3>2. new.text[c] = db.text[c] /\ new.text[to] = db.text[to]
      BY <1>6, <1>9, <2>2, <3>1
    <3> QED BY <1>9, <2>1, <3>2 DEF Agrees, to
  <2>3. CASE \E s \in named : c \in shows(s)
    <3>1. PICK s \in named : c \in shows(s) /\ new.text[c] = db.text[<<s, rel[f]>>]
      BY <1>6, <2>3
    <3>2. to \in shows(s)
      BY <1>4, <1>11, <3>1 DEF to
    <3>3. new.text[to] = db.text[<<s, rel[f]>>]
      BY <1>5, <1>6, <1>9, <3>2
    <3> QED BY <1>2, <1>9, <3>1, <3>3 DEF Agrees
  <2> QED BY <2>2, <2>3
<1> QED BY <1>10, <1>11

(* Every woken field, one after the other, shows what it points at, and what showed still shows. *)
LEMMA RevivedShows ==
    ASSUME LinkIInv, Shown(Tables), NEW holding \in SUBSET Fields, \A f \in holding : rel[f] # None,
           NEW order \in SetToSeqs(holding \ Holding)
    PROVE  ShownIn(Revived(order, holding), holding \ (lapsed \ (holding \ Holding)))
<1> DEFINE kept == holding \cap (Holding \ lapsed)
           done(n) == kept \cup {order[m] : m \in 1 .. n}
           good(n) == {db \in Db : Founded(db) /\ ShownIn(db, done(n))}
           stage == [n \in 0 .. Len(order) |-> good(n)]
           round(db, n) == Revive(db, order[n], holding)
<1>1. /\ Len(order) \in Nat /\ \A n \in 1 .. Len(order) : order[n] \in holding \ Holding
      /\ \A f \in holding \ Holding : \E n \in 1 .. Len(order) : order[n] = f
  BY OrderFacts
<1>2. ASSUME NEW db \in Db, NEW n \in 1 .. Len(order) PROVE round(db, n) \in Db
  <2>1. Returned(round(db, n), db, order[n], holding)
    BY ReviveFacts
  <2> QED BY <2>1 DEF Returned
<1>3. ASSUME NEW n \in 1 .. Len(order), NEW db \in good(n - 1) PROVE round(db, n) \in good(n)
  <2>1. db \in Db /\ Founded(db) /\ ShownIn(db, done(n - 1))
    OBVIOUS
  <2>2. round(db, n) \in Db /\ Founded(round(db, n))
    BY <2>1, ReviveKeeps
  <2>3. /\ n \in Nat /\ order[n] \in holding /\ rel[order[n]] # None
        /\ done(n - 1) \in SUBSET holding
    BY <1>1
  <2>4. Relations /\ rel \in [Fields -> Fields \cup {None}]
    BY Opened DEF LinkIInv
  <2>5. done(n) = done(n - 1) \cup {order[n]}
    <3>1. \A m : m \in 1 .. n <=> m \in 1 .. n - 1 \/ m = n
      BY <2>3
    <3> QED BY <3>1
  <2> HIDE DEF done, round
  <2>6. ShownIn(round(db, n), done(n))
    BY <2>1, <2>3, <2>4, <2>5, ReviveShows DEF round
  <2> QED BY <2>2, <2>6
<1>4. Tables \in good(0)
  <2>1. ShownIn(Tables, kept)
    BY CellFacts DEF Shown, ShownIn, Holding
  <2>2. done(0) = kept
    OBVIOUS
  <2> HIDE DEF done, kept
  <2> QED BY <2>1, <2>2, Opened DEF LinkIInv
<1> HIDE DEF good
<1>5. stage \in [0 .. Len(order) -> SUBSET Db]
  BY DEF good
<1>6. Tables \in stage[0]
  BY <1>1, <1>4
<1>7. ASSUME NEW n \in 1 .. Len(order), NEW db \in stage[n - 1] PROVE round(db, n) \in stage[n]
  <2>1. n - 1 \in 0 .. Len(order) /\ n \in 0 .. Len(order)
    BY <1>1
  <2>2. stage[n - 1] = good(n - 1) /\ stage[n] = good(n)
    BY <2>1
  <2> HIDE DEF stage, round
  <2> QED BY <1>3, <1>7, <2>2
<1> HIDE DEF stage
<1>8. Revived(order, holding) \in stage[Len(order)]
  BY <1>1, <1>2, <1>5, <1>6, <1>7, RevivalStages
<1>9. ShownIn(Revived(order, holding), done(Len(order)))
  BY <1>1, <1>8 DEF stage, good
<1>10. holding \ (lapsed \ (holding \ Holding)) \subseteq done(Len(order))
  BY <1>1
<1> HIDE DEF done
<1> QED BY <1>9, <1>10 DEF ShownIn

(* What a match links, it links to the text it shows. *)
LEMMA MatchShows ==
    ASSUME records \subseteq Records, NEW db \in Db, NEW f, NEW skipped, NEW fields,
           ShownIn(db, fields)
    PROVE  ShownIn(Match(db, f, rel[f], skipped), fields)
<1> DEFINE new == Match(db, f, rel[f], skipped)
<1>1. Matched(new, db, f, rel[f], skipped)
  BY MatchFacts
<1> HIDE DEF new
<1> SUFFICES ASSUME NEW c \in Cells, c[2] \in fields, new.pick[c] # None PROVE Agrees(new, c)
  BY DEF ShownIn, new
<1>2. new.text = db.text
  BY <1>1 DEF Matched
<1>3. CASE new.pick[c] = db.pick[c]
  <2>1. Agrees(db, c) /\ Target(new, c) = Target(db, c)
    BY <1>3 DEF ShownIn, Target
  <2> QED BY <1>2, <2>1 DEF Agrees
<1>4. CASE new.pick[c] # db.pick[c]
  <2>1. c[2] = f /\ db.text[c] # Blank /\ db.text[<<new.pick[c], rel[f]>>] = db.text[c]
    BY <1>1, <1>4 DEF Matched
  <2>2. Target(new, c) = <<new.pick[c], rel[f]>>
    BY <2>1 DEF Target
  <2> QED BY <1>2, <2>1, <2>2 DEF Agrees
<1> QED BY <1>3, <1>4

(* A wake that is not let pass leaves every link shown. *)
LEMMA WokenShows ==
    ASSUME LinkIInv, Shown(Tables), NEW holding \in SUBSET Fields, \A f \in holding : rel[f] # None,
           NEW order \in SetToSeqs(holding \ Holding)
    PROVE  ShownIn(Woken(order, holding), holding \ (lapsed \ (holding \ Holding)))
<1> DEFINE fields == holding \ (lapsed \ (holding \ Holding))
           good == {db \in Db : ShownIn(db, fields)}
           stage == [n \in 0 .. Len(order) |-> good]
           round(db, n) == MatchUnlinked(db, order[n])
<1>1. Len(order) \in Nat
  BY OrderFacts
<1>2. ASSUME NEW db \in Db, NEW n \in 1 .. Len(order)
      PROVE  round(db, n) \in Db /\ (ShownIn(db, fields) => ShownIn(round(db, n), fields))
  <2> DEFINE skipped == {c \in Cells : c[2] = order[n] /\ db.pick[c] \in records}
  <2>1. round(db, n) = Match(db, order[n], rel[order[n]], skipped)
    BY DEF MatchUnlinked
  <2> HIDE DEF skipped, round, fields
  <2>2. Matched(round(db, n), db, order[n], rel[order[n]], skipped)
    BY <2>1, Opened, MatchFacts
  <2>3. round(db, n) \in Db
    BY <2>2 DEF Matched
  <2>4. ASSUME ShownIn(db, fields) PROVE ShownIn(round(db, n), fields)
    <3>1. ShownIn(Match(db, order[n], rel[order[n]], skipped), fields)
      BY <2>4, Opened, MatchShows
    <3> QED BY <2>1, <3>1
  <2> QED BY <2>3, <2>4
<1>3. Revived(order, holding) \in good
  BY RevivedKeeps, RevivedShows
<1>4. ASSUME NEW n \in 1 .. Len(order), NEW db \in good PROVE round(db, n) \in good
  <2>1. db \in Db /\ ShownIn(db, fields)
    OBVIOUS
  <2> HIDE DEF round, fields
  <2> QED BY <1>2, <2>1
<1> HIDE DEF good
<1>5. stage \in [0 .. Len(order) -> SUBSET Db]
  BY DEF good
<1>6. Revived(order, holding) \in stage[0]
  BY <1>1, <1>3
<1>7. ASSUME NEW n \in 1 .. Len(order), NEW db \in stage[n - 1] PROVE round(db, n) \in stage[n]
  BY <1>1, <1>4
<1> HIDE DEF stage
<1>8. Woken(order, holding) \in stage[Len(order)]
  BY <1>1, <1>2, <1>5, <1>6, <1>7, MatchStages
<1> QED BY <1>1, <1>8 DEF stage, good

(* What a cell that has to show its target shows, *)
LEMMA ShownNow ==
    ASSUME LinkIInv, Shown(Tables), NEW c \in Cells, Holds(c[2]), c[2] \notin lapsed, pick[c] # None
    PROVE  /\ text[c] # Blank /\ text[c] = text[<<pick[c], rel[c[2]]>>]
           /\ <<pick[c], rel[c[2]]>> \in Cells /\ pick[c] \in records
<1>1. Agrees(Tables, c)
  BY Opened DEF Shown
<1>2. Target(Tables, c) \in Cells /\ Target(Tables, c) = <<pick[c], rel[c[2]]>>
  BY TargetCells, Opened DEF LinkIInv, Target
<1> QED BY <1>1, <1>2, Opened DEF Agrees

(* and what a step has to leave. *)
LEMMA ShownNext ==
    ASSUME \A c \in Cells : Holds(c[2])' /\ c[2] \notin lapsed' /\ pick'[c] # None =>
              text'[c] # Blank /\ text'[c] = text'[<<pick'[c], rel'[c[2]]>>]
    PROVE  Shown(Tables)'
BY DEF Shown, Agrees, Target, Tables

(* A wake let pass is remembered while its relation holds. *)
LEMMA LapsedStays ==
    ASSUME NEW new, Remember(<<{}, {}>>, new), NEW f, f \notin lapsed', Holds(f)'
    PROVE  f \notin lapsed
BY DEF Remember

(* A record is created with the texts of its picks. *)
LEMMA CreateShows ==
    ASSUME LinkIInv, Shown(Tables), NEW r \in Records, Create(r) PROVE Shown(Tables)'
<1>1. PICK form \in Forms(HomeOf[r]) :
         /\ \A f \in FieldsOf(HomeOf[r]) : Accepted(form, f, Blank)
         /\ text' = [c \in Cells |-> IF c[1] = r THEN Stored(form, c[2], Blank) ELSE text[c]]
         /\ pick' = [c \in Cells |-> IF c[1] = r /\ form[c[2]].how = "pick"
                                       THEN form[c[2]].record ELSE pick[c]]
         /\ UNCHANGED <<there, linkable, rel>>
         /\ Remember(<<{}, {}>>, {<<r, f>> : f \in FieldsOf(HomeOf[r])})
  BY DEF Create
<1>2. r \notin records
  BY DEF Create
<1>3. SUFFICES ASSUME NEW c \in Cells, Holds(c[2])', c[2] \notin lapsed', pick'[c] # None
               PROVE  text'[c] # Blank /\ text'[c] = text'[<<pick'[c], rel'[c[2]]>>]
  BY ShownNext
<1>4. Holds(c[2]) /\ c[2] \notin lapsed /\ rel[c[2]] \in Fields
  <2>1. Holds(c[2]) <=> Holds(c[2])'
    BY <1>1 DEF Holds
  <2> QED BY <1>1, <1>3, <2>1, LapsedStays, Opened, CellFacts DEF Holds
<1>5. CASE c[1] = r
  <2>1. pick[c] = None /\ form[c[2]].how = "pick" /\ pick'[c] = form[c[2]].record
    BY <1>1, <1>2, <1>3, <1>5, Opened
  <2>2. c[2] \in FieldsOf(HomeOf[r])
    BY <1>5, FieldCells
  <2> DEFINE s == form[c[2]].record
  <2>3. /\ HomeOf[s] = CapOf[rel[c[2]]] /\ s \in records /\ text[<<s, rel[c[2]]>>] # Blank
        /\ text'[c] = text[<<s, rel[c[2]]>>]
    BY <1>1, <1>5, <2>1, <2>2 DEF Accepted, Pickable, Stored
  <2>4. <<s, rel[c[2]]>> \in Cells /\ s # r
    BY <1>2, <1>4, <2>3, Opened, CellFacts
  <2>5. text'[<<s, rel[c[2]]>>] = text[<<s, rel[c[2]]>>]
    BY <1>1, <2>4
  <2> QED BY <1>1, <2>1, <2>3, <2>5
<1>6. CASE c[1] # r
  <2>1. pick'[c] = pick[c] /\ text'[c] = text[c]
    BY <1>1, <1>6
  <2>2. /\ text[c] # Blank /\ text[c] = text[<<pick[c], rel[c[2]]>>]
        /\ <<pick[c], rel[c[2]]>> \in Cells /\ pick[c] \in records
    BY <1>3, <1>4, <2>1, ShownNow
  <2>3. text'[<<pick[c], rel[c[2]]>>] = text[<<pick[c], rel[c[2]]>>]
    BY <1>1, <1>2, <2>2
  <2> QED BY <1>1, <2>1, <2>2, <2>3
<1> QED BY <1>5, <1>6

(* A record is saved, and what shows it follows. *)
LEMMA SaveShows ==
    ASSUME LinkIInv, Shown(Tables), NEW r \in Records, NEW form \in Forms(HomeOf[r]), Save(r, form),
           ~Rings(r, form)
    PROVE  Shown(Tables)'
<1>1. /\ r \in records /\ UNCHANGED <<there, linkable, rel, records>>
      /\ \A f \in FieldsOf(HomeOf[r]) : Accepted(form, f, text[<<r, f>>])
      /\ Remember(<<{}, {}>>, {<<r, f>> : f \in Changed(r, form)})
  BY DEF Save
<1>2. PICK order \in SetToSeqs(Targets(r, form)) : Store(Refreshed(r, form, order))
  BY DEF Save
<1> DEFINE new == Refreshed(r, form, order)
<1>3. Shown(new)
  BY <1>1, RefreshShows
<1>4. text' = new.text /\ pick' = new.pick
  BY <1>2 DEF Store
<1> HIDE DEF new
<1>5. SUFFICES ASSUME NEW c \in Cells, Holds(c[2])', c[2] \notin lapsed', pick'[c] # None
               PROVE  text'[c] # Blank /\ text'[c] = text'[<<pick'[c], rel'[c[2]]>>]
  BY ShownNext
<1>6. Holds(c[2]) /\ c[2] \notin lapsed
  <2>1. Holds(c[2]) <=> Holds(c[2])'
    BY <1>1 DEF Holds
  <2> QED BY <1>1, <1>5, <2>1, LapsedStays
<1>7. Agrees(new, c)
  BY <1>3, <1>4, <1>5, <1>6 DEF Shown
<1> QED BY <1>1, <1>4, <1>7 DEF Agrees, Target

(* A record is deleted: what showed it lets go. *)
LEMMA DeleteShows ==
    ASSUME LinkIInv, Shown(Tables), NEW r \in Records, Delete(r) PROVE Shown(Tables)'
<1> DEFINE cleared == {c \in Cells : Holds(c[2]) /\ c[2] \notin Required /\ pick[c] = r}
           freed   == LetGo(Tables, cleared)
<1>1. /\ UNCHANGED <<there, linkable, rel>>
      /\ text' = [c \in Cells |-> IF c \in cleared \/ c[1] = r THEN Blank ELSE text[c]]
      /\ pick' = [c \in Cells |-> IF r \in {c[1], pick[c]} THEN None ELSE freed.pick[c]]
      /\ Remember(<<{}, {}>>, {})
  BY DEF Delete
<1>2. \A c \in Cells : freed.pick[c] = IF Target(Tables, c) \in cleared THEN None ELSE pick[c]
  <2> HIDE DEF cleared
  <2> QED BY LetGoFacts, Opened
<1>3. SUFFICES ASSUME NEW c \in Cells, Holds(c[2])', c[2] \notin lapsed', pick'[c] # None
               PROVE  text'[c] # Blank /\ text'[c] = text'[<<pick'[c], rel'[c[2]]>>]
  BY ShownNext
<1>4. \A x \in cleared : x \in Cells /\ pick[x] = r
  OBVIOUS
<1> HIDE DEF freed, cleared
<1>5. c[1] # r /\ pick[c] # r /\ pick'[c] = pick[c] /\ Target(Tables, c) \notin cleared
  BY <1>1, <1>2, <1>3
<1>6. Holds(c[2]) /\ c[2] \notin lapsed
  <2>1. Holds(c[2]) <=> Holds(c[2])'
    BY <1>1 DEF Holds
  <2> QED BY <1>1, <1>3, <2>1, LapsedStays
<1>7. /\ text[c] # Blank /\ text[c] = text[<<pick[c], rel[c[2]]>>]
      /\ <<pick[c], rel[c[2]]>> \in Cells
  BY <1>3, <1>5, <1>6, ShownNow
<1>8. <<pick[c], rel[c[2]]>> \notin cleared
  BY <1>5, Opened DEF Target
<1>9. text'[c] = text[c] /\ text'[<<pick[c], rel[c[2]]>>] = text[<<pick[c], rel[c[2]]>>]
  BY <1>1, <1>4, <1>5, <1>7, <1>8
<1> QED BY <1>1, <1>5, <1>7, <1>9

(* A field is linked to what it already shows. *)
LEMMA LinkShows ==
    ASSUME LinkIInv, Shown(Tables), NEW f \in Fields, NEW g \in Fields, Link(f, g)
    PROVE  Shown(Tables)'
<1> DEFINE start == [Tables EXCEPT !.pick = [c \in Cells |-> IF c[2] = f THEN None ELSE @[c]]]
           new == Match(start, f, g, {})
<1>1. /\ rel' = [rel EXCEPT ![f] = g]
      /\ Store(new) /\ UNCHANGED <<there, linkable, records>> /\ Remember(<<{}, {}>>, {})
  BY DEF Link
<1>2. start.text = text /\ start.pick = [c \in Cells |-> IF c[2] = f THEN None ELSE pick[c]]
      /\ start \in Db
  BY Opened DEF Db
<1> HIDE DEF start
<1>3. Matched(new, start, f, g, {})
  BY <1>2, Opened, MatchFacts
<1> HIDE DEF new
<1>4. text' = text /\ pick' = new.pick
  BY <1>1, <1>2, <1>3 DEF Store, Matched
<1>5. \A h \in Fields : rel'[h] = IF h = f THEN g ELSE rel[h]
  BY <1>1, Opened
<1>6. SUFFICES ASSUME NEW c \in Cells, Holds(c[2])', c[2] \notin lapsed', pick'[c] # None
               PROVE  text'[c] # Blank /\ text'[c] = text'[<<pick'[c], rel'[c[2]]>>]
  BY ShownNext
<1>7. c[2] \in Fields
  BY CellFacts
<1>8. CASE c[2] = f
  <2>1. new.pick[c] # start.pick[c]
    BY <1>2, <1>4, <1>6, <1>8
  <2>2. text[c] # Blank /\ text[<<new.pick[c], g>>] = text[c]
    BY <1>2, <1>3, <2>1 DEF Matched
  <2> QED BY <1>4, <1>5, <1>7, <1>8, <2>2
<1>9. CASE c[2] # f
  <2>1. new.pick[c] = start.pick[c] /\ start.pick[c] = pick[c]
    BY <1>2, <1>3, <1>9 DEF Matched
  <2>2. rel'[c[2]] = rel[c[2]]
    BY <1>5, <1>7, <1>9
  <2>3. Holds(c[2]) /\ c[2] \notin lapsed
    <3>1. Holds(c[2]) <=> Holds(c[2])'
      BY <1>1, <2>2 DEF Holds
    <3> QED BY <1>1, <1>6, <3>1, LapsedStays
  <2> QED BY <1>4, <1>6, <2>1, <2>2, <2>3, ShownNow
<1> QED BY <1>8, <1>9

(* A field is unlinked. *)
LEMMA UnlinkShows ==
    ASSUME LinkIInv, Shown(Tables), NEW f \in Fields, Unlink(f) PROVE Shown(Tables)'
<1>1. /\ rel' = [rel EXCEPT ![f] = None] /\ pick' = [c \in Cells |-> IF c[2] = f THEN None
        ELSE pick[c]]
      /\ UNCHANGED <<there, linkable, records, text>> /\ Remember(<<{}, {}>>, {})
  BY DEF Unlink
<1>2. SUFFICES ASSUME NEW c \in Cells, Holds(c[2])', c[2] \notin lapsed', pick'[c] # None
               PROVE  text'[c] # Blank /\ text'[c] = text'[<<pick'[c], rel'[c[2]]>>]
  BY ShownNext
<1>3. c[2] \in Fields /\ c[2] # f /\ pick'[c] = pick[c] /\ rel'[c[2]] = rel[c[2]]
  BY <1>1, <1>2, Opened, CellFacts
<1>4. Holds(c[2]) /\ c[2] \notin lapsed
  <2>1. Holds(c[2]) <=> Holds(c[2])'
    BY <1>1, <1>3 DEF Holds
  <2> QED BY <1>1, <1>2, <2>1, LapsedStays
<1> QED BY <1>1, <1>2, <1>3, <1>4, ShownNow

(* A restart links fields to what they already show. *)
LEMMA StartupShows ==
    ASSUME LinkIInv, Shown(Tables), NEW f \in Fields, MatchAtStartup(f) PROVE Shown(Tables)'
<1> DEFINE skipped == {c \in Cells : c[2] = f /\ Tables.pick[c] \in records}
           new == Match(Tables, f, rel[f], skipped)
           fields == Holding \ lapsed
<1>1. Store(new) /\ UNCHANGED <<there, linkable, rel, records, lapsed, typed>>
  BY DEF MatchAtStartup, MatchUnlinked
<1> HIDE DEF skipped
<1>2. ShownIn(Tables, fields)
  BY CellFacts DEF Shown, ShownIn, Holding
<1>3. ShownIn(new, fields)
  <2> HIDE DEF fields
  <2> QED BY <1>2, Opened, MatchShows
<1> HIDE DEF new
<1>4. text' = new.text /\ pick' = new.pick
  BY <1>1 DEF Store
<1>5. SUFFICES ASSUME NEW c \in Cells, Holds(c[2])', c[2] \notin lapsed', pick'[c] # None
               PROVE  text'[c] # Blank /\ text'[c] = text'[<<pick'[c], rel'[c[2]]>>]
  BY ShownNext
<1>6. c[2] \in fields
  BY <1>1, <1>5, CellFacts DEF Holding, Holds
<1>7. Agrees(new, c)
  BY <1>3, <1>4, <1>5, <1>6 DEF ShownIn
<1> QED BY <1>1, <1>4, <1>7 DEF Agrees, Target

(* A first build touches no row. *)
LEMMA BuildShows ==
    ASSUME LinkIInv, Shown(Tables), NEW cap \in Caps, Build(cap) PROVE Shown(Tables)'
<1>1. /\ cap \notin there /\ there' = there \cup {cap} /\ linkable' = linkable \cup FieldsOf(cap)
      /\ LinkStep(cap) /\ UNCHANGED <<records, text, pick, lapsed, typed>>
  BY DEF Build
<1>2. \A f \in Fields : rel[f] # None => rel'[f] = rel[f]
  BY <1>1, LinkStepFacts
<1>3. SUFFICES ASSUME NEW c \in Cells, Holds(c[2])', c[2] \notin lapsed', pick'[c] # None
               PROVE  text'[c] # Blank /\ text'[c] = text'[<<pick'[c], rel'[c[2]]>>]
  BY ShownNext
<1>4. c[2] \in Fields /\ rel[c[2]] # None /\ rel'[c[2]] = rel[c[2]]
  BY <1>1, <1>2, <1>3, Opened, CellFacts
<1>5. c[2] \notin FieldsOf(cap) /\ rel[c[2]] \notin FieldsOf(cap)
  BY <1>1, <1>4 DEF LinkIInv, Relations, FieldsOf
<1>6. Holds(c[2]) /\ c[2] \notin lapsed
  BY <1>1, <1>3, <1>4, <1>5 DEF Holds
<1> QED BY <1>1, <1>3, <1>4, <1>6, ShownNow

(* An evolution wakes relations, or lets their waking pass. *)
LEMMA EvolveShows ==
    ASSUME LinkIInv, Shown(Tables), NEW cap \in Caps, Evolve(cap) PROVE Shown(Tables)'
<1> DEFINE holding == {f \in Fields : rel[f] # None /\ {f, rel[f]} \subseteq linkable'}
           woken   == holding \ Holding
<1>1. Wake(woken, holding) /\ holding \in SUBSET Fields /\ \A f \in holding : rel[f] # None
  BY EvolveFacts
<1>2. SUFFICES ASSUME NEW c \in Cells, Holds(c[2])', c[2] \notin lapsed', pick'[c] # None
               PROVE  text'[c] # Blank /\ text'[c] = text'[<<pick'[c], rel'[c[2]]>>]
  BY ShownNext
<1>3. c[2] \in Fields /\ rel[c[2]] # None /\ rel'[c[2]] = rel[c[2]]
  BY <1>2, EvolveFacts, EvolveWrites, CellFacts
<1>4. c[2] \in holding
  BY <1>2, <1>3 DEF Holds
<1> HIDE DEF holding
<1>5. ASSUME NEW order \in SetToSeqs(woken), Store(Woken(order, holding)), Remember(<<woken,
      {}>>, {})
      PROVE  text'[c] # Blank /\ text'[c] = text'[<<pick'[c], rel'[c[2]]>>]
  <2> DEFINE new == Woken(order, holding)
  <2>1. ShownIn(new, holding \ (lapsed \ woken))
    BY <1>1, WokenShows
  <2>2. text' = new.text /\ pick' = new.pick
    BY <1>5 DEF Store
  <2>3. c[2] \in holding \ (lapsed \ woken)
    BY <1>2, <1>4, <1>5 DEF Remember
  <2> HIDE DEF new, woken
  <2>4. Agrees(new, c)
    BY <1>2, <2>1, <2>2, <2>3 DEF ShownIn
  <2> QED BY <1>3, <2>2, <2>4 DEF Agrees, Target
<1>6. CASE UNCHANGED <<text, pick>> /\ Remember(<<{}, woken>>, {})
  <2>1. c[2] \notin lapsed /\ c[2] \notin woken
    BY <1>2, <1>6 DEF Remember
  <2>2. Holds(c[2])
    BY <1>4, <2>1 DEF Holding
  <2> QED BY <1>2, <1>3, <1>6, <2>1, <2>2, ShownNow
<1> QED BY <1>1, <1>5, <1>6 DEF Wake

(* A capability goes with the rows that lead to it. *)
LEMMA DeleteCapabilityShows ==
    ASSUME LinkIInv, Shown(Tables), NEW cap \in Caps, DeleteCapability(cap) PROVE Shown(Tables)'
<1>1. /\ linkable' = linkable \ FieldsOf(cap)
      /\ rel'  = [f \in Fields |-> IF CapOf[f] = cap \/ rel[f] \in FieldsOf(cap) THEN None
           ELSE rel[f]]
      /\ text' = [c \in Cells |-> IF HomeOf[c[1]] = cap THEN Blank ELSE text[c]]
      /\ pick' = [c \in Cells |->
                    IF HomeOf[c[1]] = cap \/ pick[c] \in {r \in Records : HomeOf[r] = cap}
                      THEN None ELSE pick[c]]
      /\ Remember(<<{}, {}>>, {})
  BY DEF DeleteCapability
<1>2. SUFFICES ASSUME NEW c \in Cells, Holds(c[2])', c[2] \notin lapsed', pick'[c] # None
               PROVE  text'[c] # Blank /\ text'[c] = text'[<<pick'[c], rel'[c[2]]>>]
  BY ShownNext
<1>3. pick'[c] = pick[c] /\ HomeOf[c[1]] # cap /\ HomeOf[pick[c]] # cap
  BY <1>1, <1>2, Opened
<1>4. rel'[c[2]] = rel[c[2]]
  BY <1>1, <1>2, CellFacts DEF Holds
<1>5. Holds(c[2]) /\ c[2] \notin lapsed
  <2>1. Holds(c[2])' => Holds(c[2])
    BY <1>1, <1>4 DEF Holds
  <2> QED BY <1>1, <1>2, <2>1, LapsedStays
<1>6. /\ text[c] # Blank /\ text[c] = text[<<pick[c], rel[c[2]]>>]
      /\ <<pick[c], rel[c[2]]>> \in Cells
  BY <1>2, <1>3, <1>5, ShownNow
<1>7. text'[c] = text[c] /\ text'[<<pick[c], rel[c[2]]>>] = text[<<pick[c], rel[c[2]]>>]
  BY <1>1, <1>3, <1>6
<1> QED BY <1>3, <1>4, <1>6, <1>7

(* A step that edits a record is the save of a form that does not ring. *)
Quiet == \A r \in Records : Update(r)
  => \E form \in Forms(HomeOf[r]) : Save(r, form) /\ ~Rings(r, form)

(* Every step but a save that rings. *)
LEMMA QuietStepShows ==
    LinkIInv /\ Shown(Tables) /\ [LinkNext /\ Quiet]_linkVars => Shown(Tables)'
<1> SUFFICES ASSUME LinkIInv, Shown(Tables), [LinkNext /\ Quiet]_linkVars PROVE Shown(Tables)'
  OBVIOUS
<1>1. ASSUME Quiet, NEW r \in Records, Create(r) \/ Update(r) \/ Delete(r) PROVE Shown(Tables)'
  BY <1>1, CreateShows, SaveShows, DeleteShows DEF Quiet
<1>2. ASSUME NEW f \in Fields, Unlink(f) \/ MatchAtStartup(f) \/ \E g \in Fields : Link(f, g)
      PROVE  Shown(Tables)'
  BY <1>2, UnlinkShows, StartupShows, LinkShows
<1>3. ASSUME NEW cap \in Caps, Build(cap) \/ Evolve(cap) \/ DeleteCapability(cap)
      PROVE  Shown(Tables)'
  BY <1>3, BuildShows, EvolveShows, DeleteCapabilityShows
<1>4. CASE UNCHANGED linkVars
  <2>1. SUFFICES ASSUME NEW c \in Cells, Holds(c[2])', c[2] \notin lapsed', pick'[c] # None
                 PROVE  text'[c] # Blank /\ text'[c] = text'[<<pick'[c], rel'[c[2]]>>]
    BY ShownNext
  <2>2. Holds(c[2]) /\ c[2] \notin lapsed /\ pick[c] # None
    BY <1>4, <2>1 DEF Holds, linkVars
  <2> QED BY <1>4, <2>2, ShownNow DEF linkVars
<1> QED BY <1>1, <1>2, <1>3, <1>4 DEF LinkNext

(* However long the chains and whatever wakes, sleeps or is deleted on them, a record that picked
   another shows its name, as long as no save carries one of its own new texts back to another
   field it edited.  The linked_text run shows that the code needs the hypothesis. (linked-text.ts,
   picks.ts, deleted-target.ts) *)
THEOREM LinkedShowsTargetHolds == LinkSpec /\ [][Quiet]_linkVars => []LinkedShowsTarget
<1>1. LinkInit => Shown(Tables)
  BY DEF LinkInit, Shown, Holds, Tables, Cells
<1>2. Shown(Tables) => LinkedShowsTarget
  BY DEF Shown, Agrees, Tables, LinkedShowsTarget
<1> QED BY <1>1, <1>2, LinkInvariance, QuietStepShows, PTL DEF LinkSpec
=============================================================================
