--------------------------- MODULE ReadGatesProofs ---------------------------
(***************************************************************************)
(* Proofs about ReadGates and QuestionScope.  The invariants of the gates  *)
(* are not inductive: that nobody reads a dropped table rests on where     *)
(* gates may exist (Gates), on what a stale catalog may still name         *)
(* (Catalogs) and on who owns a closing gate (Leases).  A question is a    *)
(* reader of those gates (QuestionsRunTheGates); that its rows are owned   *)
(* and its thread ends follows from where it stands (Standing).            *)
(***************************************************************************)
EXTENDS QuestionScope, TLAPS

\* Only an active row has a gate; the lives of an incarnation are disjoint.
Gates ==
    /\ \A i \in Incarnations : gate[i] # "none" => i \in active
    /\ unused \cap (active \cup retired) = {}
    /\ active \cap retired = {}

\* A captured catalog names what is active or was retired since; a token names gates that stand.
Catalogs ==
    \A r \in Readers :
        /\ rphase[r] = "captured" => catalog[r] \subseteq active \cup retired
        /\ rphase[r] = "owned" => \A i \in wants[r] : gate[i] # "none"

\* A closing gate has one closer, which waits for it or found it empty, and a closer one gate.
Leases ==
    /\ \A i \in Incarnations : gate[i] = "closing" <=> closeLease[i] # NoOne
    /\ \A i \in Incarnations : closeLease[i] # NoOne => cphase[closeLease[i]] # "idle"
    /\ \A i \in Incarnations :
           closeLease[i] # NoOne /\ cphase[closeLease[i]] = "drained" => readers[i] = {}
    /\ \A i, j \in Incarnations :
           closeLease[i] = closeLease[j] /\ closeLease[i] # NoOne => i = j

IInv == TypeOK /\ Gates /\ Catalogs /\ Leases /\ ReadersCounted /\ ReadersTold /\ NoLostDrain

(* Nobody reads a dropped table follows: a token names gates, a gate an active row. *)
LEMMA Implied == IInv => NoReaderOfDropped
  BY DEF IInv, TypeOK, Gates, Catalogs, NoReaderOfDropped

(* Synchronizing a catalog of active and retired incarnations only adds gates of active rows. *)
LEMMA SynchronizedKeeps ==
  ASSUME IInv, NEW cat \in SUBSET Incarnations, cat \subseteq active \cup retired
  PROVE  /\ Synchronized(cat) \in [Incarnations -> {"none", "active", "closing"}]
         /\ \A i \in Incarnations :
               /\ Synchronized(cat)[i] # "none" => i \in active
               /\ gate[i] # "none" => Synchronized(cat)[i] = gate[i]
               /\ Synchronized(cat)[i] = "closing" <=> gate[i] = "closing"
  BY DEF IInv, TypeOK, Gates, Synchronized

(* Acquiring against a catalog of active and retired incarnations, by a reader that owns nothing. *)
LEMMA AcquireKeeps ==
  ASSUME IInv, NEW r \in Readers, rphase[r] # "owned",
         NEW cat \in SUBSET Incarnations, cat \subseteq active \cup retired,
         NEW set \in SUBSET Incarnations, Acquire(r, cat, set),
         catalog' \in [Readers -> SUBSET Incarnations],
         \A q \in Readers : q # r => catalog'[q] = catalog[q]
  PROVE  IInv'
  <1> DEFINE sync == Synchronized(cat)
  <1>2. /\ sync \in [Incarnations -> {"none", "active", "closing"}]
        /\ \A i \in Incarnations :
              /\ sync[i] # "none" => i \in active
              /\ gate[i] # "none" => sync[i] = gate[i]
              /\ sync[i] = "closing" <=> gate[i] = "closing"
    BY SynchronizedKeeps
  <1>3. gate' = sync
    BY DEF Acquire
  <1> HIDE DEF sync
  <1>4. CASE \A i \in set : i \in cat /\ gate'[i] = "active"
    <2> USE <1>2, <1>3, <1>4
    <2>1. TypeOK'
      <3>1. readers' \in [Incarnations -> SUBSET Readers]
        BY DEF IInv, TypeOK, Acquire
      <3>2. gate' \in [Incarnations -> {"none", "active", "closing"}]
        OBVIOUS
      <3>3. /\ wants' = [wants EXCEPT ![r] = set]
            /\ signalled' = [signalled EXCEPT ![r] = FALSE]
            /\ rphase' = [rphase EXCEPT ![r] = "owned"]
        BY DEF Acquire
      <3>4. UNCHANGED <<active, unused, closeLease, retired, cphase>>
        BY DEF Acquire
      <3> QED BY <3>1, <3>2, <3>3, <3>4 DEF IInv, TypeOK
    <2>2. Gates'
      BY DEF IInv, TypeOK, Gates, Acquire
    <2>3. Catalogs'
      BY DEF IInv, TypeOK, Catalogs, Acquire
    <2>4. Leases'
      BY DEF IInv, TypeOK, Leases, Acquire
    <2>5. ReadersCounted'
      <3> SUFFICES ASSUME NEW i \in Incarnations
                   PROVE  readers'[i] = {q \in Readers : rphase'[q] = "owned" /\ i \in wants'[q]}
        BY DEF ReadersCounted
      <3>1. /\ readers[i] = {q \in Readers : rphase[q] = "owned" /\ i \in wants[q]}
            /\ rphase[r] # "owned"
        BY DEF IInv, ReadersCounted, Acquire
      <3>2. /\ readers'[i] = IF i \in set THEN readers[i] \cup {r} ELSE readers[i]
            /\ wants' = [wants EXCEPT ![r] = set]
            /\ rphase' = [rphase EXCEPT ![r] = "owned"]
        BY DEF Acquire
      <3> QED BY <3>1, <3>2 DEF IInv, TypeOK
    <2>6. ReadersTold'
      BY DEF IInv, TypeOK, ReadersTold, ReadersCounted, Acquire
    <2>7. NoLostDrain'
      BY DEF IInv, TypeOK, NoLostDrain, Acquire
    <2> QED BY <2>1, <2>2, <2>3, <2>4, <2>5, <2>6, <2>7 DEF IInv
  <1>5. CASE ~\A i \in set : i \in cat /\ gate'[i] = "active"
    <2>1. /\ rphase' = [rphase EXCEPT ![r] = "idle"]
          /\ UNCHANGED <<active, unused, closeLease, retired, cphase, readers, wants, signalled>>
      BY <1>5 DEF Acquire
    <2> USE <1>2, <1>3, <2>1
    <2>2. TypeOK'
      <3>1. gate' \in [Incarnations -> {"none", "active", "closing"}]
        OBVIOUS
      <3> QED BY <3>1, <2>1 DEF IInv, TypeOK
    <2>3. Gates'
      BY DEF IInv, TypeOK, Gates
    <2>4. Catalogs'
      BY DEF IInv, TypeOK, Catalogs
    <2>5. Leases'
      BY DEF IInv, TypeOK, Leases
    <2>6. ReadersCounted'
      BY DEF IInv, TypeOK, ReadersCounted
    <2>7. ReadersTold'
      BY DEF IInv, TypeOK, ReadersTold
    <2>8. NoLostDrain'
      BY DEF IInv, TypeOK, NoLostDrain
    <2> QED BY <2>2, <2>3, <2>4, <2>5, <2>6, <2>7, <2>8 DEF IInv
  <1> QED BY <1>4, <1>5

LEMMA TryAcquireKeeps ==
  ASSUME IInv, NEW r \in Readers, NEW set \in SUBSET Incarnations, TryAcquire(r, set)
  PROVE  IInv'
  <1>1. /\ rphase[r] # "owned"
        /\ catalog[r] \in SUBSET Incarnations /\ catalog[r] \subseteq active \cup retired
        /\ catalog' \in [Readers -> SUBSET Incarnations]
        /\ \A q \in Readers : q # r => catalog'[q] = catalog[q]
        /\ Acquire(r, catalog[r], set)
    BY DEF IInv, TypeOK, Catalogs, TryAcquire
  <1> QED BY <1>1, AcquireKeeps

LEMMA AcquireAllKeeps ==
  ASSUME IInv, NEW r \in Readers, AcquireAll(r)
  PROVE  IInv'
  <1>1. /\ rphase[r] # "owned"
        /\ active \in SUBSET Incarnations /\ active \subseteq active \cup retired
        /\ catalog' \in [Readers -> SUBSET Incarnations]
        /\ \A q \in Readers : q # r => catalog'[q] = catalog[q]
        /\ Acquire(r, active, active)
    BY DEF IInv, TypeOK, AcquireAll
  <1> QED BY <1>1, AcquireKeeps

LEMMA ReleaseKeeps ==
  ASSUME IInv, NEW r \in Readers, Release(r)
  PROVE  IInv'
  <1>1. TypeOK' /\ Gates' /\ Catalogs'
    BY DEF IInv, TypeOK, Gates, Catalogs, Release
  <1>2. \A i \in Incarnations : i \notin wants[r] => readers'[i] = readers[i]
    BY DEF IInv, TypeOK, ReadersCounted, Release
  <1>3. Leases'
    <2> DEFINE woken(d) == /\ cphase[d] = "draining"
                           /\ \E i \in wants[r] : closeLease[i] = d /\ readers'[i] = {}
    <2>1. /\ cphase' = [d \in Closers |-> IF woken(d) THEN "drained" ELSE cphase[d]]
          /\ readers' = [i \in Incarnations |-> readers[i] \ {r}]
          /\ gate' = gate /\ closeLease' = closeLease
      BY DEF Release
    <2>2. \A i \in Incarnations : closeLease[i] # NoOne => closeLease[i] \in Closers
      BY DEF IInv, TypeOK
    <2>3. \A i \in Incarnations :
             closeLease[i] # NoOne => cphase'[closeLease[i]] \in {"drained", cphase[closeLease[i]]}
      BY <2>1, <2>2
    <2>4. ASSUME NEW i \in Incarnations, closeLease[i] # NoOne, cphase'[closeLease[i]] = "drained"
          PROVE  readers'[i] = {}
      <3>1. CASE cphase[closeLease[i]] = "drained"
        BY <2>1, <2>4, <3>1 DEF IInv, Leases
      <3>2. CASE woken(closeLease[i])
        <4>1. PICK j \in wants[r] : closeLease[j] = closeLease[i] /\ readers'[j] = {}
          BY <3>2
        <4>2. j \in Incarnations
          BY DEF IInv, TypeOK
        <4> QED BY <2>4, <4>1, <4>2 DEF IInv, Leases
      <3> QED BY <2>1, <2>2, <2>4, <3>1, <3>2
    <2> HIDE DEF woken
    <2> QED BY <2>1, <2>3, <2>4 DEF IInv, Leases
  <1>4. ReadersCounted'
    BY DEF IInv, TypeOK, ReadersCounted, Release
  <1>5. ReadersTold'
    BY DEF IInv, TypeOK, ReadersTold, Release
  <1>6. NoLostDrain'
    BY <1>2 DEF IInv, TypeOK, NoLostDrain, Leases, Release
  <1> QED BY <1>1, <1>3, <1>4, <1>5, <1>6 DEF IInv

LEMMA CloseKeeps ==
  ASSUME IInv, NEW c \in Closers, NEW i \in Incarnations, Close(c, i)
  PROVE  IInv'
  <1> DEFINE sync == Synchronized({i})
  <1>1. /\ sync \in [Incarnations -> {"none", "active", "closing"}]
        /\ \A j \in Incarnations :
              /\ sync[j] # "none" => j \in active
              /\ gate[j] # "none" => sync[j] = gate[j]
              /\ sync[j] = "closing" <=> gate[j] = "closing"
    BY SynchronizedKeeps DEF Close
  <1>2. /\ sync[i] = "active" /\ gate' = [sync EXCEPT ![i] = "closing"]
        /\ cphase[c] = "idle" /\ i \in active
        /\ closeLease' = [closeLease EXCEPT ![i] = c]
        /\ signalled' = [r \in Readers |-> signalled[r] \/ r \in readers[i]]
        /\ cphase' = [cphase EXCEPT ![c] = IF readers[i] = {} THEN "drained" ELSE "draining"]
        /\ UNCHANGED <<active, unused, readers, retired, catalog, wants, rphase>>
    BY DEF Close
  <1> HIDE DEF sync
  <1>3. c # NoOne /\ NoOne \notin Closers
    BY ClosersAssumption
  <1>4. closeLease[i] = NoOne /\ \A j \in Incarnations : closeLease[j] # c
    BY <1>1, <1>2, <1>3 DEF IInv, TypeOK, Leases
  <1>5. gate' \in [Incarnations -> {"none", "active", "closing"}]
    BY <1>1, <1>2
  <1>6. TypeOK'
    BY <1>2, <1>5 DEF IInv, TypeOK
  <1>7. Gates' /\ Catalogs'
    BY <1>1, <1>2 DEF IInv, TypeOK, Gates, Catalogs
  <1>8. Leases'
    BY <1>1, <1>2, <1>3, <1>4 DEF IInv, TypeOK, Leases
  <1>9. ReadersCounted' /\ ReadersTold'
    BY <1>1, <1>2 DEF IInv, TypeOK, ReadersCounted, ReadersTold
  <1>10. NoLostDrain'
    BY <1>2, <1>3, <1>4 DEF IInv, TypeOK, NoLostDrain
  <1> QED BY <1>6, <1>7, <1>8, <1>9, <1>10 DEF IInv

LEMMA ReopenGateKeeps ==
  ASSUME IInv, NEW c \in Closers, NEW i \in Incarnations, ReopenGate(c, i)
  PROVE  IInv'
  <1>1. TypeOK' /\ Gates' /\ Catalogs'
    BY DEF IInv, TypeOK, Gates, Catalogs, ReopenGate
  <1>2. Leases'
    BY ClosersAssumption DEF IInv, TypeOK, Leases, ReopenGate
  <1>3. ReadersCounted' /\ ReadersTold' /\ NoLostDrain'
    BY ClosersAssumption
       DEF IInv, TypeOK, Leases, ReadersCounted, ReadersTold, NoLostDrain, ReopenGate
  <1> QED BY <1>1, <1>2, <1>3 DEF IInv

LEMMA CommitKeeps ==
  ASSUME IInv, NEW c \in Closers, NEW i \in Incarnations, Commit(c, i)
  PROVE  IInv'
  <1>1. c # NoOne
    BY ClosersAssumption
  <1>2. readers[i] = {} /\ \A r \in Readers : rphase[r] = "owned" => i \notin wants[r]
    BY <1>1 DEF IInv, TypeOK, Leases, ReadersCounted, Commit
  <1>3. i \in active
    BY <1>1 DEF IInv, TypeOK, Gates, Leases, Commit
  <1>4. TypeOK'
    BY DEF IInv, TypeOK, Commit
  <1>5. Gates'
    BY <1>3 DEF IInv, TypeOK, Gates, Commit
  <1>6. Catalogs'
    BY <1>2 DEF IInv, TypeOK, Catalogs, Commit
  <1>7. Leases'
    BY <1>1, <1>2 DEF IInv, TypeOK, Leases, Commit
  <1>8. ReadersCounted'
    BY <1>2 DEF IInv, TypeOK, ReadersCounted, Commit
  <1>9. ReadersTold'
    BY DEF IInv, TypeOK, ReadersTold, Commit
  <1>10. NoLostDrain'
    BY ClosersAssumption DEF IInv, TypeOK, NoLostDrain, Commit
  <1> QED BY <1>4, <1>5, <1>6, <1>7, <1>8, <1>9, <1>10 DEF IInv

LEMMA InitInvariant == Init => IInv
  BY ClosersAssumption
     DEF Init, IInv, TypeOK, Gates, Catalogs, Leases, ReadersCounted, ReadersTold, NoLostDrain

(* Every step keeps the inductive invariant. *)
LEMMA StepKeeps ==
  ASSUME IInv, [Next]_vars
  PROVE  IInv'
  <1>1. ASSUME NEW i \in Incarnations, Activate(i) PROVE IInv'
    BY <1>1 DEF IInv, TypeOK, Gates, Catalogs, Leases, ReadersCounted, ReadersTold, NoLostDrain,
                Activate, gateVars
  <1>2. ASSUME NEW r \in Readers, Capture(r) PROVE IInv'
    BY <1>2 DEF IInv, TypeOK, Gates, Catalogs, Leases, ReadersCounted, ReadersTold, NoLostDrain,
                Capture, gateVars
  <1>3. CASE Restart
    BY <1>3 DEF IInv, TypeOK, Gates, Catalogs, Leases, ReadersCounted, ReadersTold, NoLostDrain,
                Restart
  <1>4. CASE UNCHANGED vars
    BY <1>4 DEF IInv, TypeOK, Gates, Catalogs, Leases, ReadersCounted, ReadersTold, NoLostDrain,
                Synchronized, vars
  <1> QED BY <1>1, <1>2, <1>3, <1>4, TryAcquireKeeps, AcquireAllKeeps, ReleaseKeeps, CloseKeeps,
             ReopenGateKeeps, CommitKeeps
          DEF Next, DrainTimeout, Reopen

LEMMA Invariance == Spec => []IInv
  BY InitInvariant, StepKeeps, PTL DEF Spec

-----------------------------------------------------------------------------
(* what read admission promises, for any number of readers, deletions and incarnations *)

(* The state of the gates keeps its type. *)
THEOREM TypeCorrect == Spec => []TypeOK
  BY Invariance, PTL DEF IInv

(* Nobody ever reads a dropped table, however old the catalog it acquires against. *)
THEOREM NoReaderOfDroppedHolds == Spec => []NoReaderOfDropped
  BY Invariance, Implied, PTL

(* A gate counts exactly the owners of tokens over it. *)
THEOREM ReadersCountedHolds == Spec => []ReadersCounted
  BY Invariance, PTL DEF IInv

(* Whoever reads a closing incarnation has been told. *)
THEOREM ReadersToldHolds == Spec => []ReadersTold
  BY Invariance, PTL DEF IInv

(* No drain sleeps beside an empty gate. *)
THEOREM NoLostDrainHolds == Spec => []NoLostDrain
  BY Invariance, PTL DEF IInv

(* A gate that is closing and stays so admits nobody. *)
THEOREM ClosingAdmitsNobodyHolds == Spec => ClosingAdmitsNobody
  <1>1. IInv /\ [Next]_vars
        => [\A i \in Incarnations :
               gate[i] = "closing" /\ gate'[i] = "closing" => readers'[i] \subseteq readers[i]]_vars
    <2> SUFFICES ASSUME IInv, Next, NEW i \in Incarnations,
                        gate[i] = "closing", gate'[i] = "closing"
                 PROVE  readers'[i] \subseteq readers[i]
      OBVIOUS
    <2>1. ASSUME NEW r \in Readers, NEW set \in SUBSET Incarnations, TryAcquire(r, set)
          PROVE  readers'[i] \subseteq readers[i]
      BY <2>1 DEF IInv, TypeOK, TryAcquire, Acquire
    <2>5. ASSUME NEW r \in Readers, AcquireAll(r) PROVE readers'[i] \subseteq readers[i]
      BY <2>5 DEF IInv, TypeOK, AcquireAll, Acquire
    <2>2. ASSUME NEW r \in Readers, Capture(r) \/ Release(r)
          PROVE  readers'[i] \subseteq readers[i]
      BY <2>2 DEF IInv, TypeOK, Capture, Release, gateVars
    <2>3. ASSUME NEW c \in Closers, NEW j \in Incarnations,
                 Close(c, j) \/ DrainTimeout(c, j) \/ Reopen(c, j) \/ Commit(c, j)
          PROVE  readers'[i] \subseteq readers[i]
      BY <2>3 DEF IInv, TypeOK, Close, DrainTimeout, Reopen, ReopenGate, Commit
    <2>4. ASSUME Restart \/ \E j \in Incarnations : Activate(j)
          PROVE  readers'[i] \subseteq readers[i]
      BY <2>4 DEF IInv, TypeOK, Restart, Activate, gateVars
    <2> QED BY <2>1, <2>5, <2>2, <2>3, <2>4 DEF Next
  <1> QED BY <1>1, Invariance, PTL DEF Spec, ClosingAdmitsNobody

-----------------------------------------------------------------------------
(* questions: a question moves the gates as ReadGates allows, so that all of the above holds of it *)

\* Where a question stands against its tokens.
Standing ==
    \A q \in Questions :
        /\ body[q] = "none" => rphase[q] = "idle"
        /\ body[q] # "none" => rphase[q] = "owned"
        /\ over[q] => body[q] = "leaving"
        /\ body[q] = "reading" => steps[q] < StepBudget

QInv == IInv /\ QuestionTypeOK /\ Standing /\ NoThreadLeft

LEMMA QuestionStepIsAStep ==
  ASSUME [QuestionNext]_allVars
  PROVE  [Next]_vars
  <1>1. ASSUME NEW q \in Questions, Ask(q) \/ LetGo(q) PROVE Next
    BY <1>1, QuestionsAssumption DEF Ask, LetGo, Next
  <1>2. ASSUME NEW q \in Questions,
               \/ Cancel(q) \/ Read(q) \/ ToldAgain(q) \/ Conclude(q) \/ Opened(q)
               \/ ThreadDies(q) \/ Resume(q) \/ Finish(q)
               \/ \E how \in {"rows", "refused", "rejected"} : Replied(q, how)
        PROVE  UNCHANGED vars
    BY <1>2 DEF Cancel, Read, ToldAgain, Conclude, Opened, ThreadDies, Resume, Finish, Replied
  <1>3. UNCHANGED allVars => UNCHANGED vars
    BY DEF allVars
  <1>4. Reboot => Next
    BY DEF Reboot, Next
  <1>5. ASSUME NEW r \in Readers \ Questions,
               \/ Capture(r) \/ Release(r)
               \/ \E set \in SUBSET Incarnations : TryAcquire(r, set)
        PROVE  Next
    BY <1>5 DEF Next
  <1>6. ASSUME NEW i \in Incarnations,
               \/ Activate(i)
               \/ \E c \in Closers : Close(c, i) \/ DrainTimeout(c, i) \/ Reopen(c, i) \/ Commit(c, i)
        PROVE  Next
    BY <1>6 DEF Next
  <1> QED BY <1>1, <1>2, <1>3, <1>4, <1>5, <1>6 DEF QuestionNext

\* What another's step of the gates leaves of a question: its tokens, and a signal that only rises.
LEMMA ElsewhereKeeps ==
  ASSUME QInv, Elsewhere, IInv',
         \A q \in Questions : rphase'[q] = rphase[q] /\ (signalled[q] => signalled'[q])
  PROVE  QInv'
  <1>1. /\ cancelled' = [q \in Questions |-> cancelled[q] \/ q \in Told]
        /\ worker' = [q \in Questions |-> IF q \in Told THEN ClosedWorker(q) ELSE worker[q]]
        /\ read' = [q \in Questions |-> IF q \in Told THEN ClosedRead(q) ELSE read[q]]
        /\ UNCHANGED <<body, over, steps>>
    BY DEF Elsewhere, Cancelling
  <1>2. QuestionTypeOK'
    <2>1. TypeOK'
      BY DEF IInv
    <2>2. cancelled' \in [Questions -> BOOLEAN]
      <3>1. \A q \in Questions : (cancelled[q] \/ q \in Told) \in BOOLEAN
        OBVIOUS
      <3> QED BY <3>1, <1>1, Zenon
    <2>3. worker' \in [Questions -> {"none", "opening", "open", "broken", "closed"}]
      BY <1>1 DEF QInv, QuestionTypeOK, ClosedWorker
    <2>4. read' \in [Questions -> {"none", "asked", "posted", "rows", "refused", "rejected"}]
      BY <1>1 DEF QInv, QuestionTypeOK, ClosedRead
    <2> QED BY <1>1, <2>1, <2>2, <2>3, <2>4 DEF QInv, QuestionTypeOK
  <1>3. Standing'
    BY <1>1 DEF QInv, Standing
  <1>4. NoThreadLeft'
    <2> SUFFICES ASSUME NEW q \in Questions, worker'[q] \in {"opening", "open", "broken"}
                 PROVE  rphase'[q] = "owned" /\ body'[q] # "none" /\ Live(q)' /\ ~over'[q]
      BY DEF NoThreadLeft
    <2>1. q \notin Told /\ worker[q] = worker'[q]
      BY <1>1 DEF ClosedWorker, QInv, QuestionTypeOK
    <2>2. rphase[q] = "owned" /\ body[q] # "none" /\ ~signalled[q] /\ ~cancelled[q] /\ ~over[q]
      BY <2>1 DEF QInv, NoThreadLeft, Live
    <2>3. ~signalled'[q] /\ ~cancelled'[q]
      BY <1>1, <2>1, <2>2 DEF Told
    <2> QED BY <1>1, <2>2, <2>3 DEF Live
  <1> QED BY <1>2, <1>3, <1>4 DEF QInv

\* The steps of the question itself that leave the gates alone.
LEMMA OwnStepKeeps ==
  ASSUME QInv, NEW q \in Questions,
         \/ Cancel(q) \/ Read(q) \/ ToldAgain(q) \/ Conclude(q) \/ Opened(q)
         \/ ThreadDies(q) \/ Resume(q) \/ Finish(q)
         \/ \E how \in {"rows", "refused", "rejected"} : Replied(q, how)
  PROVE  QuestionTypeOK' /\ Standing' /\ NoThreadLeft'
  <1> USE BudgetAssumption DEF QInv, vars, gateVars
  <1>1. ASSUME Cancel(q) PROVE QuestionTypeOK' /\ Standing' /\ NoThreadLeft'
    <2>1. /\ cancelled' = [p \in Questions |-> cancelled[p] \/ p \in {q}]
          /\ worker' = [p \in Questions |-> IF p \in {q} THEN ClosedWorker(p) ELSE worker[p]]
          /\ read' = [p \in Questions |-> IF p \in {q} THEN ClosedRead(p) ELSE read[p]]
          /\ UNCHANGED <<vars, body, over, steps>>
      BY <1>1 DEF Cancel, Cancelling
    <2>2. cancelled' \in [Questions -> BOOLEAN]
      <3>1. \A p \in Questions : (cancelled[p] \/ p \in {q}) \in BOOLEAN
        OBVIOUS
      <3> QED BY <3>1, <2>1, Zenon
    <2>3. QuestionTypeOK'
      BY <2>1, <2>2 DEF QuestionTypeOK, TypeOK, ClosedWorker, ClosedRead
    <2>4. Standing'
      BY <2>1 DEF Standing
    <2>5. NoThreadLeft'
      BY <2>1 DEF NoThreadLeft, Live, ClosedWorker, QuestionTypeOK
    <2> QED BY <2>3, <2>4, <2>5
  <1>2. ASSUME Read(q) PROVE QuestionTypeOK' /\ Standing' /\ NoThreadLeft'
    <2>1. QuestionTypeOK'
      BY <1>2 DEF Read, QuestionTypeOK, TypeOK
    <2>2. Standing'
      BY <1>2 DEF Read, Standing, QuestionTypeOK
    <2>3. NoThreadLeft'
      BY <1>2 DEF Read, NoThreadLeft, Live, Standing, QuestionTypeOK
    <2> QED BY <2>1, <2>2, <2>3
  <1>3. ASSUME ToldAgain(q) PROVE QuestionTypeOK' /\ Standing' /\ NoThreadLeft'
    BY <1>3 DEF ToldAgain, QuestionTypeOK, TypeOK, Standing, NoThreadLeft, Live
  <1>4. ASSUME Conclude(q) PROVE QuestionTypeOK' /\ Standing' /\ NoThreadLeft'
    BY <1>4 DEF Conclude, QuestionTypeOK, TypeOK, Standing, NoThreadLeft, Live
  <1>5. ASSUME Opened(q) PROVE QuestionTypeOK' /\ Standing' /\ NoThreadLeft'
    BY <1>5 DEF Opened, QuestionTypeOK, TypeOK, Standing, NoThreadLeft, Live
  <1>6. ASSUME ThreadDies(q) PROVE QuestionTypeOK' /\ Standing' /\ NoThreadLeft'
    BY <1>6 DEF ThreadDies, ClosedRead, QuestionTypeOK, TypeOK, Standing, NoThreadLeft, Live
  <1>7. ASSUME Resume(q) PROVE QuestionTypeOK' /\ Standing' /\ NoThreadLeft'
    <2>1. body[q] = "reading" /\ ~over[q]
      BY <1>7 DEF Resume, Standing
    <2>2. /\ \/ body' = [body EXCEPT ![q] = "leaving"]
             \/ body' = [body EXCEPT ![q] = "thinking"]
          /\ \A p \in Questions : p # q => steps'[p] = steps[p]
          /\ read' = [read EXCEPT ![q] = "none"]
          /\ UNCHANGED <<vars, worker, cancelled, over>>
      BY <1>7 DEF Resume, QuestionTypeOK
    <2>3. steps' \in [Questions -> 0 .. StepBudget]
      BY <1>7 DEF Resume, QuestionTypeOK, Standing
    <2>4. QuestionTypeOK'
      BY <2>2, <2>3 DEF QuestionTypeOK, TypeOK
    <2>5. Standing'
      BY <2>1, <2>2 DEF Standing, QuestionTypeOK
    <2>6. NoThreadLeft'
      BY <2>2 DEF NoThreadLeft, Live, QuestionTypeOK
    <2> QED BY <2>4, <2>5, <2>6
  <1>8. ASSUME Finish(q) PROVE QuestionTypeOK' /\ Standing' /\ NoThreadLeft'
    <2>1. NoThreadLeft'
      BY <1>8 DEF Finish, ClosedWorker, QuestionTypeOK, NoThreadLeft, Live
    <2> QED BY <1>8, <2>1 DEF Finish, ClosedWorker, QuestionTypeOK, TypeOK, Standing
  <1>9. ASSUME NEW how \in {"rows", "refused", "rejected"}, Replied(q, how)
        PROVE  QuestionTypeOK' /\ Standing' /\ NoThreadLeft'
    BY <1>9 DEF Replied, QuestionTypeOK, TypeOK, Standing, NoThreadLeft, Live
  <1> QED BY <1>1, <1>2, <1>3, <1>4, <1>5, <1>6, <1>7, <1>8, <1>9

LEMMA QuestionInvariance == QuestionSpec => []QInv
  <1>1. QuestionInit => QInv
    BY InitInvariant, QuestionsAssumption, BudgetAssumption
       DEF QuestionInit, Init, QInv, IInv, QuestionTypeOK, Standing, NoThreadLeft
  <1>2. QInv /\ [QuestionNext]_allVars => QInv'
    <2> SUFFICES ASSUME QInv, [QuestionNext]_allVars PROVE QInv'
      OBVIOUS
    <2>1. IInv'
      BY QuestionStepIsAStep, StepKeeps DEF QInv
    <2>2. ASSUME NEW i \in Incarnations, Activate(i), Elsewhere PROVE QInv'
      <3>1. UNCHANGED <<rphase, signalled>>
        BY <2>2 DEF Activate
      <3> QED BY <2>1, <2>2, <3>1, ElsewhereKeeps
    <2>3. ASSUME NEW r \in Readers \ Questions, Elsewhere,
                 \/ Capture(r) \/ Release(r)
                 \/ \E set \in SUBSET Incarnations : TryAcquire(r, set)
          PROVE  QInv'
      <3>1. \A q \in Questions : rphase'[q] = rphase[q] /\ signalled'[q] = signalled[q]
        BY <2>3, QuestionsAssumption
           DEF QInv, IInv, TypeOK, Capture, Release, TryAcquire, Acquire
      <3> QED BY <2>1, <2>3, <3>1, ElsewhereKeeps
    <2>4. ASSUME NEW c \in Closers, NEW i \in Incarnations, Elsewhere,
                 Close(c, i) \/ DrainTimeout(c, i) \/ Reopen(c, i) \/ Commit(c, i)
          PROVE  QInv'
      <3>1. /\ rphase' = rphase
            /\ \A q \in Questions : signalled[q] => signalled'[q]
        BY <2>4, QuestionsAssumption
           DEF QInv, IInv, TypeOK, Close, DrainTimeout, Reopen, ReopenGate, Commit
      <3> QED BY <2>1, <2>4, <3>1, ElsewhereKeeps
    <2>5. ASSUME NEW q \in Questions, Ask(q) PROVE QInv'
      <3>1. PICK aborted \in BOOLEAN :
               IF rphase'[q] = "owned"
                 THEN /\ body' = [body EXCEPT ![q] = "thinking"]
                      /\ cancelled' = [cancelled EXCEPT ![q] = aborted]
                      /\ UNCHANGED <<worker, read, over, steps>>
                 ELSE UNCHANGED questionVars
        BY <2>5 DEF Ask
      <3>2. /\ body[q] = "none" /\ rphase[q] = "idle" /\ rphase'[q] \in {"owned", "idle"}
            /\ \A p \in Questions : p # q => /\ rphase'[p] = rphase[p]
                                             /\ signalled'[p] = signalled[p]
        BY <2>5, QuestionsAssumption DEF Ask, AcquireAll, Acquire, QInv, IInv, TypeOK
      <3>3. worker[q] \notin {"opening", "open", "broken"}
        BY <3>2 DEF QInv, NoThreadLeft
      <3>4. CASE rphase'[q] = "owned"
        <4>1. cancelled' \in [Questions -> BOOLEAN]
          BY <3>1, <3>4 DEF QInv, QuestionTypeOK
        <4>2. QuestionTypeOK'
          BY <2>1, <3>1, <3>4, <4>1 DEF QInv, IInv, QuestionTypeOK
        <4>3. Standing'
          BY <3>1, <3>2, <3>4 DEF QInv, QuestionTypeOK, Standing
        <4>4. NoThreadLeft'
          BY <3>1, <3>2, <3>3, <3>4 DEF QInv, QuestionTypeOK, NoThreadLeft, Live
        <4> QED BY <2>1, <4>2, <4>3, <4>4 DEF QInv
      <3>5. CASE rphase'[q] = "idle"
        <4>1. UNCHANGED questionVars
          BY <3>1, <3>5
        <4> QED BY <2>1, <3>2, <3>3, <3>5, <4>1
                DEF QInv, IInv, QuestionTypeOK, Standing, NoThreadLeft, Live, questionVars
      <3> QED BY <3>2, <3>4, <3>5
    <2>6. ASSUME NEW q \in Questions, LetGo(q) PROVE QInv'
      <3>1. /\ rphase' = [rphase EXCEPT ![q] = "idle"]
            /\ signalled' = [signalled EXCEPT ![q] = TRUE]
            /\ body' = [body EXCEPT ![q] = "none"]
            /\ worker' = [worker EXCEPT ![q] = IF @ = "closed" THEN "none" ELSE @]
            /\ cancelled' = [cancelled EXCEPT ![q] = FALSE]
            /\ over' = [over EXCEPT ![q] = FALSE]
            /\ steps' = [steps EXCEPT ![q] = 0]
            /\ UNCHANGED read
            /\ over[q]
        BY <2>6 DEF LetGo, Release
      <3>2. QuestionTypeOK'
        BY <2>1, <3>1, BudgetAssumption DEF QInv, IInv, QuestionTypeOK
      <3>3. Standing'
        BY <3>1, QuestionsAssumption DEF QInv, IInv, TypeOK, QuestionTypeOK, Standing
      <3>4. NoThreadLeft'
        BY <3>1, QuestionsAssumption
           DEF QInv, IInv, TypeOK, QuestionTypeOK, Standing, NoThreadLeft, Live
      <3> QED BY <2>1, <3>2, <3>3, <3>4 DEF QInv
    <2>7. CASE Reboot
      BY <2>1, <2>7, QuestionsAssumption, BudgetAssumption
         DEF Reboot, Restart, QInv, IInv, QuestionTypeOK, Standing, NoThreadLeft
    <2>8. CASE UNCHANGED allVars
      BY <2>1, <2>8
         DEF allVars, vars, questionVars, QInv, IInv, QuestionTypeOK, Standing, NoThreadLeft, Live
    <2> QED BY <2>1, <2>2, <2>3, <2>4, <2>5, <2>6, <2>7, <2>8, OwnStepKeeps DEF QuestionNext, QInv
  <1> QED BY <1>1, <1>2, PTL DEF QuestionSpec

(* Questions run the gates as ReadGates says, so what is proved of the gates holds beside them. *)
THEOREM QuestionsRunTheGates == QuestionSpec => Spec
  <1>1. QuestionInit => Init
    BY DEF QuestionInit
  <1>2. [QuestionNext]_allVars => [Next]_vars
    BY QuestionStepIsAStep
  <1> QED BY <1>1, <1>2, PTL DEF QuestionSpec, Spec

(* A live thread belongs to a question that owns its tokens and that nobody ended. *)
THEOREM NoThreadLeftHolds == QuestionSpec => []NoThreadLeft
  BY QuestionInvariance, PTL DEF QInv

(* Rows reach a question only while it owns every table they came from. *)
THEOREM RowsOwnedHolds == QuestionSpec => RowsOwned
  <1>1. QInv /\ [QuestionNext]_allVars
        => [\A q \in Questions :
              body[q] = "reading" /\ read[q] = "rows" /\ body'[q] = "thinking"
              => ~signalled[q] /\ \A i \in wants[q] : gate[i] = "active" /\ i \in active]_allVars
    <2> SUFFICES ASSUME QInv, QuestionNext, NEW q \in Questions,
                        body[q] = "reading", read[q] = "rows", body'[q] = "thinking"
                 PROVE  ~signalled[q] /\ \A i \in wants[q] : gate[i] = "active" /\ i \in active
      OBVIOUS
    <2>1. Live(q)
      <3>1. ASSUME NEW p \in Questions,
                   \/ Cancel(p) \/ Read(p) \/ ToldAgain(p) \/ Conclude(p) \/ Opened(p)
                   \/ ThreadDies(p) \/ Finish(p) \/ LetGo(p) \/ Ask(p)
                   \/ \E how \in {"rows", "refused", "rejected"} : Replied(p, how)
            PROVE  FALSE
        BY <3>1 DEF Cancel, Read, ToldAgain, Conclude, Opened, ThreadDies, Finish, LetGo, Ask,
                    Replied, QInv, QuestionTypeOK, questionVars
      <3>2. Elsewhere => FALSE
        BY DEF Elsewhere
      <3>3. Reboot => FALSE
        BY DEF Reboot
      <3>4. PICK p \in Questions : Resume(p)
        BY <3>1, <3>2, <3>3 DEF QuestionNext
      <3> QED BY <3>4 DEF Resume, QInv, QuestionTypeOK
    <2>2. rphase[q] = "owned" /\ q \in Readers
      BY QuestionsAssumption DEF QInv, Standing
    <2>3. ASSUME NEW i \in wants[q] PROVE gate[i] = "active" /\ i \in active
      <3>1. i \in Incarnations /\ gate[i] # "none"
        BY <2>2 DEF QInv, IInv, TypeOK, Catalogs
      <3>2. gate[i] # "closing"
        BY <2>1, <2>2, <3>1 DEF QInv, IInv, ReadersCounted, ReadersTold, Live
      <3> QED BY <3>1, <3>2 DEF QInv, IInv, TypeOK, Gates
    <2> QED BY <2>1, <2>3 DEF Live
  <1> QED BY <1>1, QuestionInvariance, PTL DEF QuestionSpec, RowsOwned
=============================================================================
