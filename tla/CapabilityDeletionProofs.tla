---------------------- MODULE CapabilityDeletionProofs ----------------------
(***************************************************************************)
(* Proofs about the two halves of a deletion, CapabilityDeletion and the   *)
(* retries of DeletionCleanup.                                             *)
(*                                                                         *)
(* In CapabilityDeletion the lease is what the induction rests on: between *)
(* a deletion's admission and its commit nobody else writes, so what was   *)
(* looked up and collected still holds when the transaction runs (Stages). *)
(* What concerns the gates is taken over from ReadGates by refinement.     *)
(*                                                                         *)
(* In DeletionCleanup, that nothing is forgotten is almost inductive:      *)
(* every action that takes a reason to come away leaves another one, or    *)
(* writes down what it loses; and nobody is on the way to what is written  *)
(* down.  It rests on who holds the lease (Holder): a tombstone in the     *)
(* hand of its deletion is never in the hand of a pass.                    *)
(***************************************************************************)
EXTENDS CapabilityDeletion, DeletionCleanup, TLAPS

\* The theorems about the gates, without any question.
GateProofs ==
    INSTANCE ReadGatesProofs WITH
        Questions <- {}, StepBudget <- 0, body <- <<>>, worker <- <<>>, read <- <<>>,
        cancelled <- <<>>, over <- <<>>, steps <- <<>>

\* The lives of an incarnation: not minted, active, tombstone, over.
Lives ==
    /\ active \subseteq Incarnations /\ unused \subseteq Incarnations
    /\ tombstones \subseteq Incarnations
    /\ active \cap unused = {}
    /\ tombstones \cap (active \cup unused) = {}

\* The types of what this module adds to the gates.
Typed ==
    /\ deps \in [Incarnations -> SUBSET Incarnations]
    /\ manifest \in [Incarnations -> SUBSET Resources]
    /\ ledger \subseteq Files
    /\ stored \subseteq Resources
    /\ writer \in Closers \cup {Builder, Supervisor, NoOne}
    /\ stage \in Stages
    /\ target \in Incarnations \cup {NoOne}
    /\ todo \subseteq Resources

\* A manifest names resources of its own incarnation only.
OwnManifest == \A i \in tombstones : \A e \in manifest[i] : Owner(e) = i

\* A file of a live incarnation has its ledger row: only what is deleted loses it.
Recorded == \A f \in Files \cap stored : OwnerOf[f] \in active => f \in ledger

\* What the holder of the lease knows at each stage.
Holding ==
    /\ writer = NoOne <=> stage = "free"
    /\ stage \in {"building", "published"} => target \in unused
    /\ stage = "published" => target \in stored
    /\ stage \in {"draining", "collected"} => target \in active /\ Dependents(target) = {}
    /\ stage = "collected" => todo = {target} \cup {f \in ledger : OwnerOf[f] = target}
    /\ stage = "cleaning" =>
          /\ target \in tombstones
          /\ todo \subseteq manifest[target]
          /\ \A e \in stored : Owner(e) = target => e \in todo

Base == Lives /\ Typed /\ OneLife /\ DependenciesActive
IInv == /\ Base /\ LiveIntact /\ NothingRemains /\ ManifestComplete
        /\ OwnManifest /\ Recorded /\ Holding

(* An owner is an incarnation. *)
LEMMA OwnerType == ASSUME NEW e \in Resources PROVE Owner(e) \in Incarnations
  BY ResourcesAssumption DEF Resources, Owner

(* A file is not a directory, and its owner is the incarnation it was uploaded for. *)
LEMMA OwnerOfFile ==
  ASSUME NEW f \in Files PROVE f \notin Incarnations /\ Owner(f) = OwnerOf[f]
  BY ResourcesAssumption DEF Owner

LEMMA OwnerOfDirectory == ASSUME NEW i \in Incarnations PROVE Owner(i) = i
  BY DEF Owner

-----------------------------------------------------------------------------
(* one lemma per action *)

LEMMA InitKeeps == Init => IInv
  BY WritersAssumption
     DEF Init, Gates!Init, IInv, Base, Lives, Typed, OneLife, DependenciesActive, LiveIntact,
         NothingRemains, ManifestComplete, OwnManifest, Recorded, Holding, Stages, Resources

LEMMA BuildKeeps ==
  ASSUME IInv,
         \/ \E i \in Incarnations : BeginBuild(i) \/ Reconcile(i)
         \/ Publish \/ BuildFails \/ ReleaseLease \/ Crash
  PROVE  IInv'
  <1> USE WritersAssumption, OwnerType, OwnerOfFile, OwnerOfDirectory
          DEF IInv, Base, Lives, Typed, OneLife, DependenciesActive, LiveIntact, NothingRemains,
              ManifestComplete, OwnManifest, Recorded, Holding, Dependents, readVars, storeVars, leaseVars
  <1>1. ASSUME NEW i \in Incarnations, BeginBuild(i) PROVE IInv'
    BY <1>1 DEF BeginBuild, Take, Stages
  <1>2. ASSUME NEW i \in Incarnations, Reconcile(i) PROVE IInv'
    BY <1>2 DEF Reconcile
  <1>3. CASE Publish
    BY <1>3 DEF Publish, At, Go, Stages, Resources
  <1>4. CASE BuildFails
    BY <1>4 DEF BuildFails, Go, Stages
  <1>5. CASE ReleaseLease
    BY <1>5 DEF ReleaseLease, Stages
  <1>6. CASE Crash
    BY <1>6 DEF Crash, Gates!Restart, Stages
  <1> QED BY <1>1, <1>2, <1>3, <1>4, <1>5, <1>6

LEMMA ActivateKeeps ==
  ASSUME IInv, NEW reads \in SUBSET Incarnations, ActivateRow(reads)
  PROVE  IInv'
  <1>1. /\ target \in unused /\ target \in stored /\ reads \subseteq active /\ IdAvailable(target)
        /\ active' = active \cup {target} /\ unused' = unused \ {target}
        /\ deps' = [deps EXCEPT ![target] = reads]
        /\ UNCHANGED <<tombstones, manifest, ledger, stored, todo, writer, target>>
        /\ stage' = "ending" /\ writer = Builder
    BY DEF IInv, Holding, ActivateRow, At, Go, Gates!Activate
  <1>2. Base'
    BY <1>1 DEF IInv, Base, Lives, Typed, OneLife, DependenciesActive, IdAvailable, Stages
  <1>3. LiveIntact'
    BY <1>1 DEF IInv, LiveIntact
  <1>4. NothingRemains'
    BY <1>1, OwnerOfDirectory DEF IInv, Base, Lives, NothingRemains
  <1>5. ManifestComplete' /\ OwnManifest'
    BY <1>1 DEF IInv, ManifestComplete, OwnManifest, Owner
  <1>6. Recorded'
    BY <1>1, OwnerOfFile DEF IInv, Base, Lives, NothingRemains, Recorded
  <1>7. Holding'
    BY <1>1, WritersAssumption DEF IInv, Holding
  <1> QED BY <1>2, <1>3, <1>4, <1>5, <1>6, <1>7 DEF IInv

LEMMA StoreFileKeeps ==
  ASSUME IInv, NEW f \in Files, StoreFile(f)
  PROVE  IInv'
  <1>1. /\ writer = NoOne /\ stage = "free" /\ OwnerOf[f] \in active
        /\ ledger' = ledger \cup {f} /\ stored' = stored \cup {f}
        /\ UNCHANGED <<active, unused, tombstones, deps, manifest, writer, stage, target, todo>>
    BY DEF IInv, Holding, StoreFile, readVars, leaseVars
  <1>2. Base'
    BY <1>1 DEF IInv, Base, Lives, Typed, OneLife, DependenciesActive, Resources
  <1>3. LiveIntact'
    BY <1>1 DEF IInv, LiveIntact
  <1>4. NothingRemains' /\ ManifestComplete' /\ OwnManifest' /\ Recorded'
    BY <1>1, OwnerOfFile
       DEF IInv, Base, Lives, NothingRemains, ManifestComplete, OwnManifest, Recorded, Owner
  <1>5. Holding'
    BY <1>1 DEF IInv, Holding
  <1> QED BY <1>2, <1>3, <1>4, <1>5 DEF IInv

LEMMA AdmitKeeps ==
  ASSUME IInv, NEW c \in Closers, NEW i \in Incarnations, Admit(c, i)
  PROVE  IInv'
  <1>1. /\ i \in active /\ Dependents(i) = {} /\ writer = NoOne
        /\ writer' = c /\ target' = i /\ stage' = "draining"
        /\ UNCHANGED <<active, unused, storeVars, todo>>
    BY DEF Admit, Take, Gates!Close
  <1> QED BY <1>1, WritersAssumption
          DEF IInv, Base, Lives, Typed, OneLife, DependenciesActive, LiveIntact, NothingRemains,
              ManifestComplete, OwnManifest, Recorded, Holding, Dependents, Stages, storeVars, Owner

LEMMA GiveUpKeeps ==
  ASSUME IInv, NEW c \in Closers, DrainTimeout(c) \/ DestroyThrows(c)
  PROVE  IInv'
  <1>1. /\ stage' = "ending" /\ stage # "free"
        /\ UNCHANGED <<active, unused, storeVars, writer, target, todo>>
    BY DEF DrainTimeout, DestroyThrows, At, Go, Gates!DrainTimeout, Gates!Reopen, Gates!ReopenGate
  <1> QED BY <1>1
          DEF IInv, Base, Lives, Typed, OneLife, DependenciesActive, LiveIntact, NothingRemains,
              ManifestComplete, OwnManifest, Recorded, Holding, Dependents, Stages, storeVars, Owner

LEMMA CollectKeeps ==
  ASSUME IInv, NEW c \in Closers, Collect(c)
  PROVE  IInv'
  <1>1. /\ stage = "draining" /\ stage' = "collected"
        /\ todo' = {target} \cup {f \in ledger : OwnerOf[f] = target}
        /\ UNCHANGED <<active, unused, storeVars, writer, target>>
    BY DEF Collect, At, Go, readVars
  <1>2. todo' \subseteq Resources /\ target \in active
    BY <1>1 DEF IInv, Base, Lives, Typed, Holding, Resources
  <1> QED BY <1>1, <1>2
          DEF IInv, Base, Lives, Typed, OneLife, DependenciesActive, LiveIntact, NothingRemains,
              ManifestComplete, OwnManifest, Recorded, Holding, Dependents, Stages, storeVars, Owner

LEMMA CommitKeeps ==
  ASSUME IInv, NEW c \in Closers, Commit(c)
  PROVE  IInv'
  <1>1. /\ stage = "collected" /\ stage' = "cleaning"
        /\ active' = active \ {target} /\ tombstones' = tombstones \cup {target}
        /\ manifest' = [manifest EXCEPT ![target] = todo]
        /\ deps' = [deps EXCEPT ![target] = {}]
        /\ ledger' = {f \in ledger : OwnerOf[f] # target}
        /\ UNCHANGED <<unused, stored, todo, writer, target>>
    BY DEF Commit, At, Go, Gates!Commit
  <1>2. /\ target \in active /\ target \in Incarnations /\ Dependents(target) = {}
        /\ todo = {target} \cup {f \in ledger : OwnerOf[f] = target}
        /\ todo \subseteq Resources
    BY <1>1 DEF IInv, Base, Lives, Typed, Holding
  <1>3. Lives' /\ Typed'
    BY <1>1, <1>2 DEF IInv, Base, Lives, Typed, Stages
  <1>4. OneLife'
    BY <1>1, <1>2 DEF IInv, Base, OneLife
  <1>5. DependenciesActive'
    BY <1>1, <1>2 DEF IInv, Base, Lives, Typed, DependenciesActive, Dependents
  <1>6. LiveIntact'
    BY <1>1, <1>2 DEF IInv, LiveIntact
  <1>7. NothingRemains'
    BY <1>1 DEF IInv, NothingRemains, Owner
  <1>8. \A e \in todo : Owner(e) = target
    BY <1>2, OwnerOfFile, OwnerOfDirectory DEF IInv, Base, Typed
  <1>9. \A e \in stored : Owner(e) = target => e \in todo
    <2> SUFFICES ASSUME NEW e \in stored, Owner(e) = target PROVE e \in todo
      OBVIOUS
    <2>1. CASE e \in Incarnations
      BY <1>2, <2>1, OwnerOfDirectory
    <2>2. CASE e \in Files
      BY <1>1, <1>2, <2>2, OwnerOfFile DEF IInv, Recorded
    <2> QED BY <2>1, <2>2 DEF IInv, Base, Typed, Resources
  <1>10. ManifestComplete' /\ OwnManifest'
    BY <1>1, <1>2, <1>8, <1>9 DEF IInv, Base, Lives, Typed, ManifestComplete, OwnManifest, Owner
  <1>11. Recorded'
    BY <1>1, <1>2 DEF IInv, Recorded
  <1>12. Holding'
    BY <1>1, <1>2, <1>9 DEF IInv, Base, Typed, Holding, Owner
  <1> QED BY <1>3, <1>4, <1>5, <1>6, <1>7, <1>10, <1>11, <1>12 DEF IInv, Base

LEMMA CleanKeeps ==
  ASSUME IInv,
         \/ \E i \in Incarnations : BeginPass(i)
         \/ \E e \in Resources : CleanEntry(e) \/ CleanFails(e)
         \/ RemoveTombstone
  PROVE  IInv'
  <1> USE WritersAssumption, OwnerType, OwnerOfFile, OwnerOfDirectory
          DEF IInv, Base, Lives, Typed, OneLife, DependenciesActive, LiveIntact, NothingRemains,
              ManifestComplete, OwnManifest, Recorded, Holding, Dependents, readVars, storeVars
  <1>1. ASSUME NEW i \in Incarnations, BeginPass(i) PROVE IInv'
    BY <1>1 DEF BeginPass, Take, Stages
  <1>2. ASSUME NEW e \in Resources, CleanEntry(e) PROVE IInv'
    <2>1. Owner(e) = target /\ target \notin active \cup unused /\ e \notin ledger
      BY <1>2 DEF CleanEntry, AtEntry
    <2> QED BY <1>2, <2>1 DEF CleanEntry, AtEntry
  <1>3. ASSUME NEW e \in Resources, CleanFails(e) PROVE IInv'
    <2>1. Owner(e) = target /\ target \notin active \cup unused
      BY <1>3 DEF CleanFails, AtEntry
    <2> QED BY <1>3, <2>1 DEF CleanFails, AtEntry, Go, Stages
  <1>4. CASE RemoveTombstone
    BY <1>4 DEF RemoveTombstone, Go, Stages
  <1> QED BY <1>1, <1>2, <1>3, <1>4

LEMMA ReadKeeps == ASSUME IInv, NEW r \in Readers, Read(r) PROVE IInv'
  <1>1. UNCHANGED <<active, unused, storeVars, leaseVars>>
    BY DEF Read, Gates!Capture, Gates!Release, Gates!TryAcquire, Gates!AcquireAll, Gates!Acquire,
           Gates!gateVars
  <1> QED BY <1>1
          DEF IInv, Base, Lives, Typed, OneLife, DependenciesActive, LiveIntact, NothingRemains,
              ManifestComplete, OwnManifest, Recorded, Holding, Dependents, storeVars, leaseVars,
              Owner

(* Every step keeps the inductive invariant. *)
LEMMA Invariance == Spec => []IInv
  <1>1. IInv /\ [Next]_vars => IInv'
    <2>1. ASSUME IInv, UNCHANGED vars PROVE IInv'
      BY <2>1 DEF IInv, Base, Lives, Typed, OneLife, DependenciesActive, LiveIntact,
              NothingRemains, ManifestComplete, OwnManifest, Recorded, Holding, Dependents, vars,
              readVars, storeVars, leaseVars, Owner
    <2> QED BY <2>1, BuildKeeps, ActivateKeeps, StoreFileKeeps, AdmitKeeps, GiveUpKeeps,
               CollectKeeps, CommitKeeps, CleanKeeps, ReadKeeps DEF Next
  <1> QED BY <1>1, InitKeeps, PTL DEF Spec

-----------------------------------------------------------------------------
(* what deletion promises, for any number of capabilities, lives, files and readers *)

(* A capability id has one life at a time. *)
THEOREM OneLifeHolds == Spec => []OneLife
  BY Invariance, PTL DEF IInv, Base

(* No active row reads a capability that is gone. *)
THEOREM DependenciesActiveHolds == Spec => []DependenciesActive
  BY Invariance, PTL DEF IInv, Base

(* What a live incarnation owns is on disk. *)
THEOREM LiveIntactHolds == Spec => []LiveIntact
  BY Invariance, PTL DEF IInv

(* Lives are apart, and the live one is whole. *)
THEOREM OneIntactLifeHolds == Spec => []OneIntactLife
  BY OneLifeHolds, LiveIntactHolds, PTL DEF OneIntactLife

(* A life that is over leaves nothing. *)
THEOREM NothingRemainsHolds == Spec => []NothingRemains
  BY Invariance, PTL DEF IInv

(* A tombstone's manifest names everything still on disk for it. *)
THEOREM ManifestCompleteHolds == Spec => []ManifestComplete
  BY Invariance, PTL DEF IInv

(* The deletion drives the gates as ReadGates allows. *)
THEOREM GatesRespectedHolds == Spec => GatesRespected
  <1>1. Init => Gates!Init
    BY DEF Init
  <1>2. IInv /\ [Next]_vars => [Gates!Next]_(Gates!vars)
    <2> SUFFICES ASSUME IInv, [Next]_vars PROVE Gates!Next \/ UNCHANGED Gates!vars
      OBVIOUS
    <2> USE DEF Gates!vars, Gates!gateVars, readVars, gateVars
    <2>1. ASSUME NEW i \in Incarnations, BeginBuild(i) \/ Reconcile(i) \/ BeginPass(i)
          PROVE  UNCHANGED Gates!vars
      BY <2>1 DEF BeginBuild, Reconcile, BeginPass
    <2>2. ASSUME Publish \/ BuildFails \/ RemoveTombstone \/ ReleaseLease
          PROVE  UNCHANGED Gates!vars
      BY <2>2 DEF Publish, BuildFails, RemoveTombstone, ReleaseLease
    <2>3. CASE Crash
      BY <2>3 DEF Crash, Gates!Next
    <2>4. ASSUME NEW reads \in SUBSET Incarnations, ActivateRow(reads) PROVE Gates!Next
      <3>1. target \in Incarnations
        BY <2>4 DEF IInv, Base, Lives, Holding, ActivateRow, At
      <3> QED BY <2>4, <3>1 DEF ActivateRow, Gates!Next
    <2>5. ASSUME NEW f \in Files, StoreFile(f) PROVE UNCHANGED Gates!vars
      BY <2>5 DEF StoreFile
    <2>6. ASSUME NEW c \in Closers, NEW i \in Incarnations, Admit(c, i) PROVE Gates!Next
      BY <2>6 DEF Admit, Gates!Next
    <2>7. ASSUME NEW c \in Closers, DrainTimeout(c) \/ DestroyThrows(c) \/ Commit(c)
          PROVE  Gates!Next
      <3>1. target \in Incarnations
        BY <2>7 DEF IInv, Base, Lives, Holding, DrainTimeout, DestroyThrows, Commit, At
      <3> QED BY <2>7, <3>1 DEF DrainTimeout, DestroyThrows, Commit, Gates!Next
    <2>8. ASSUME NEW c \in Closers, Collect(c) PROVE UNCHANGED Gates!vars
      BY <2>8 DEF Collect
    <2>9. ASSUME NEW e \in Resources, CleanEntry(e) \/ CleanFails(e) PROVE UNCHANGED Gates!vars
      BY <2>9 DEF CleanEntry, CleanFails
    <2>10. ASSUME NEW r \in Readers, Read(r) PROVE Gates!Next
      BY <2>10 DEF Read, Gates!Next
    <2>11. CASE UNCHANGED vars
      BY <2>11 DEF vars
    <2> QED BY <2>1, <2>2, <2>3, <2>4, <2>5, <2>6, <2>7, <2>8, <2>9, <2>10, <2>11 DEF Next
  <1> QED BY <1>1, <1>2, Invariance, PTL DEF Spec, GatesRespected, Gates!Spec

(* The two instances of ReadGates are the same specification. *)
LEMMA SameGates ==
  /\ Gates!Spec => GateProofs!Spec
  /\ GateProofs!TypeOK <=> Gates!TypeOK
  /\ GateProofs!NoReaderOfDropped <=> Gates!NoReaderOfDropped
  <1>1. Gates!Init => GateProofs!Init
    BY DEF Gates!Init, GateProofs!Init
  <1>2. [Gates!Next]_(Gates!vars) => [GateProofs!Next]_(GateProofs!vars)
    BY DEF Gates!Next, GateProofs!Next,
           Gates!Activate, Gates!Capture, Gates!Synchronized, Gates!TryAcquire,
           Gates!AcquireAll, Gates!Acquire, Gates!Release, Gates!Close,
           Gates!ReopenGate, Gates!DrainTimeout, Gates!Reopen, Gates!Commit,
           Gates!Restart, Gates!gateVars, Gates!vars,
           GateProofs!Activate, GateProofs!Capture, GateProofs!Synchronized,
           GateProofs!TryAcquire, GateProofs!AcquireAll, GateProofs!Acquire, GateProofs!Release,
           GateProofs!Close, GateProofs!ReopenGate,
           GateProofs!DrainTimeout, GateProofs!Reopen, GateProofs!Commit, GateProofs!Restart,
           GateProofs!gateVars, GateProofs!vars
  <1>3. GateProofs!TypeOK <=> Gates!TypeOK
    BY DEF Gates!TypeOK, GateProofs!TypeOK
  <1>4. GateProofs!NoReaderOfDropped <=> Gates!NoReaderOfDropped
    BY DEF Gates!NoReaderOfDropped, GateProofs!NoReaderOfDropped
  <1> QED BY <1>1, <1>2, <1>3, <1>4, PTL DEF Gates!Spec, GateProofs!Spec

(* The state keeps its type. *)
THEOREM TypeCorrect == Spec => []TypeOK
  <1>1. IInv /\ Gates!TypeOK => TypeOK
    BY DEF IInv, Base, Lives, Typed, TypeOK
  <1>2. Gates!Spec => []Gates!TypeOK
    <2>1. NoOne \notin Closers /\ {} \subseteq Readers /\ 0 \in Nat
      BY WritersAssumption
    <2> QED BY <2>1, GateProofs!TypeCorrect, SameGates, PTL
  <1> QED BY <1>1, <1>2, Invariance, GatesRespectedHolds, PTL DEF GatesRespected

(* Nobody ever reads the table of a deleted capability. *)
THEOREM NoReaderOfDeleted == Spec => []Gates!NoReaderOfDropped
  <1>1. Gates!Spec => []Gates!NoReaderOfDropped
    <2>1. NoOne \notin Closers /\ {} \subseteq Readers /\ 0 \in Nat
      BY WritersAssumption
    <2> QED BY <2>1, GateProofs!NoReaderOfDroppedHolds, SameGates, PTL
  <1> QED BY <1>1, GatesRespectedHolds, PTL DEF GatesRespected

-----------------------------------------------------------------------------
(* the retries, for any number of tombstones, rungs and faults *)

(* The lease tells a pass that cleans and a deletion that cleans apart. *)
Holder ==
    /\ pass = "cleaning" <=> lease = "pass"
    /\ inline # Nobody <=> lease = "deletion"

(* What a pass has still to reach is owed, and a pass that does not clean has nothing to reach. *)
Listed ==
    /\ pass = "cleaning" => due \subseteq owed
    /\ pass # "cleaning" => due = {}

(* What its deletion still has in hand is not given up. *)
Spared == inline \notin lost

(* Nothing of a process survives it. *)
Gone ==
    process = "down" =>
        /\ ~asking /\ ~scheduled /\ ~chained /\ pass = "off"
        /\ lease = "free" /\ inline = Nobody /\ lost = {}

CleanupIInv == CleanupTypeOK /\ Holder /\ Listed /\ Spared /\ Gone /\ NothingForgotten

-----------------------------------------------------------------------------
(* A pass that cleans and a deletion that cleans never meet. *)
LEMMA NeverMeet == CleanupIInv => CleanerFindsTombstone
  BY DEF CleanupIInv, Holder, Listed, CleanerFindsTombstone

(* The flags, one by one. *)
LEMMA Flags ==
  ASSUME CleanupTypeOK
  PROVE  /\ asking \in BOOLEAN /\ scheduled \in BOOLEAN /\ retryOwed \in BOOLEAN
         /\ chained \in BOOLEAN
  BY DEF CleanupTypeOK

(* An exception loses what is owed and patient, or nothing more than was lost before. *)
LEMMA LosingKeeps ==
  ASSUME CleanupTypeOK, NothingForgotten, Spared, Losing, owed' = owed,
         inline' \in {inline, Nobody},
         \/ lost = {}
         \/ /\ attempts' = attempts /\ pass' = pass
            /\ scheduled' => scheduled
            /\ chained' => chained
  PROVE  lost' \subseteq owed' /\ Spared' /\ NothingForgotten'
  <1>1. lost \subseteq owed /\ Nobody \notin owed
    BY RungsAssumption DEF CleanupTypeOK
  <1>2. CASE scheduled' \/ pass' # "off" \/ chained' \/ asking'
    <2>1. lost' = lost
      BY <1>2 DEF Losing
    <2>2. lost # {} => lost \subseteq Patient' /\ ~scheduled' /\ pass' = "off" /\ ~chained'
      BY DEF NothingForgotten, running, Patient, Exhausted
    <2> QED BY <1>1, <1>2, <2>1, <2>2 DEF Spared, NothingForgotten, running
  <1>3. CASE ~(scheduled' \/ pass' # "off" \/ chained' \/ asking')
    <2>1. lost' = Patient' \ {inline'}
      BY <1>3 DEF Losing
    <2>2. Patient' \subseteq owed'
      BY DEF Patient
    <2> QED BY <1>3, <2>1, <2>2 DEF Spared, NothingForgotten, running
  <1> QED BY <1>2, <1>3

(* Counting a failure stays on the ladder. *)
LEMMA CountingType ==
  ASSUME CleanupTypeOK, NEW ts, Counting(ts)
  PROVE  attempts' \in [Tombstones -> 0 .. Rungs]
  <1>1. ASSUME NEW t \in Tombstones PROVE attempts'[t] \in 0 .. Rungs
    BY RungsAssumption DEF CleanupTypeOK, Counting, Exhausted
  <1> QED BY <1>1 DEF Counting

(* The initial state is quiet. *)
LEMMA Initially == CleanupInit => CleanupIInv
  <1> SUFFICES ASSUME CleanupInit PROVE CleanupIInv
    OBVIOUS
  <1>1. CleanupTypeOK
    <2>1. faults \in 0 .. Faults /\ 0 \in 0 .. Rungs
      BY RungsAssumption DEF CleanupInit
    <2>2. attempts \in [Tombstones -> 0 .. Rungs]
      BY <2>1 DEF CleanupInit
    <2>3. {asking, scheduled, retryOwed, chained} \subseteq BOOLEAN
      BY DEF CleanupInit
    <2> QED BY <2>1, <2>2, <2>3 DEF CleanupInit, CleanupTypeOK
  <1>2. Holder /\ Listed /\ Spared /\ Gone
    BY DEF CleanupInit, Holder, Listed, Spared, Gone
  <1>3. NothingForgotten
    BY DEF CleanupInit, NothingForgotten, Patient
  <1> QED BY <1>1, <1>2, <1>3 DEF CleanupIInv

(* An ask is answered by a timer, or by the end of the pass in flight. *)
LEMMA RequestRetryKeeps == ASSUME CleanupIInv, RequestRetry PROVE CleanupIInv'
  <1> USE RungsAssumption DEF CleanupIInv, RequestRetry, ScheduleRetry, supervisor, durable,
         thePass, running
  <1>1. /\ asking \in BOOLEAN /\ scheduled \in BOOLEAN /\ retryOwed \in BOOLEAN
        /\ chained \in BOOLEAN
    BY Flags
  <1>2. attempts' \in [Tombstones -> 0 .. Rungs]
    BY DEF CleanupTypeOK
  <1>3. CleanupTypeOK'
    BY <1>1, <1>2 DEF CleanupTypeOK, Holder
  <1>4. Holder' /\ Listed' /\ Spared'
    BY DEF CleanupTypeOK, Holder, Listed, Spared, Gone
  <1>5. Gone'
    BY DEF CleanupTypeOK, Gone, Holder
  <1>6. NothingForgotten'
    BY <1>1 DEF CleanupTypeOK, Holder, Gone, NothingForgotten, Patient, Exhausted
  <1> QED BY <1>3, <1>4, <1>5, <1>6

(* So is the ask of a desk load. *)
LEMMA DeskLoadKeeps == ASSUME CleanupIInv, DeskLoad PROVE CleanupIInv'
  <1> USE RungsAssumption DEF CleanupIInv, DeskLoad, ScheduleRetry, supervisor, durable,
         thePass, running
  <1>1. /\ asking \in BOOLEAN /\ scheduled \in BOOLEAN /\ retryOwed \in BOOLEAN
        /\ chained \in BOOLEAN
    BY Flags
  <1>2. attempts' \in [Tombstones -> 0 .. Rungs]
    BY DEF CleanupTypeOK
  <1>3. CleanupTypeOK'
    BY <1>1, <1>2 DEF CleanupTypeOK, Holder
  <1>4. Holder' /\ Listed' /\ Spared'
    BY DEF CleanupTypeOK, Holder, Listed, Spared, Gone
  <1>5. Gone'
    BY DEF CleanupTypeOK, Gone, Holder
  <1>6. NothingForgotten'
    BY <1>1 DEF CleanupTypeOK, Holder, Gone, NothingForgotten, Patient, Exhausted
  <1> QED BY <1>3, <1>4, <1>5, <1>6

(* A timer gives way to the pass it starts. *)
LEMMA TimerFiresKeeps == ASSUME CleanupIInv, TimerFires PROVE CleanupIInv'
  <1> USE RungsAssumption DEF CleanupIInv, TimerFires, durable, thePass, running
  <1>1. /\ asking \in BOOLEAN /\ scheduled \in BOOLEAN /\ retryOwed \in BOOLEAN
        /\ chained \in BOOLEAN
    BY Flags
  <1>2. attempts' \in [Tombstones -> 0 .. Rungs]
    BY DEF CleanupTypeOK
  <1>3. CleanupTypeOK'
    BY <1>1, <1>2 DEF CleanupTypeOK, Holder
  <1>4. Holder' /\ Listed' /\ Spared'
    BY DEF CleanupTypeOK, Holder, Listed, Spared, Gone
  <1>5. Gone'
    BY DEF CleanupTypeOK, Gone, Holder
  <1>6. NothingForgotten'
    BY <1>1 DEF CleanupTypeOK, Holder, Gone, NothingForgotten, Patient, Exhausted
  <1> QED BY <1>3, <1>4, <1>5, <1>6

(* A pass lists what is owed when it has the lease. *)
LEMMA PassAdmittedKeeps == ASSUME CleanupIInv, PassAdmitted PROVE CleanupIInv'
  <1> USE RungsAssumption DEF CleanupIInv, PassAdmitted, durable, thePass, running
  <1>1. /\ asking \in BOOLEAN /\ scheduled \in BOOLEAN /\ retryOwed \in BOOLEAN
        /\ chained \in BOOLEAN
    BY Flags
  <1>2. attempts' \in [Tombstones -> 0 .. Rungs]
    BY DEF CleanupTypeOK
  <1>3. CleanupTypeOK'
    BY <1>1, <1>2 DEF CleanupTypeOK, Holder
  <1>4. Holder' /\ Listed' /\ Spared'
    BY DEF CleanupTypeOK, Holder, Listed, Spared, Gone
  <1>5. Gone'
    BY DEF CleanupTypeOK, Gone, Holder
  <1>6. NothingForgotten'
    BY <1>1 DEF CleanupTypeOK, Holder, Gone, NothingForgotten, Patient, Exhausted
  <1> QED BY <1>3, <1>4, <1>5, <1>6

(* A tombstone that is cleaned is no longer owed. *)
LEMMA CleanOneKeeps == ASSUME CleanupIInv, NEW t \in Tombstones, CleanOne(t) PROVE CleanupIInv'
  <1> USE RungsAssumption DEF CleanupIInv, CleanOne, supervisor, durable, thePass, running
  <1>1. /\ asking \in BOOLEAN /\ scheduled \in BOOLEAN /\ retryOwed \in BOOLEAN
        /\ chained \in BOOLEAN
    BY Flags
  <1>2. attempts' \in [Tombstones -> 0 .. Rungs]
    BY DEF CleanupTypeOK
  <1>3. CleanupTypeOK'
    BY <1>1, <1>2 DEF CleanupTypeOK, Holder, NothingForgotten
  <1>4. Holder' /\ Listed' /\ Spared'
    BY DEF CleanupTypeOK, Holder, Listed, Spared, Gone
  <1>5. Gone'
    BY DEF CleanupTypeOK, Gone, Holder
  <1>6. NothingForgotten'
    BY <1>1 DEF CleanupTypeOK, Holder, Gone, NothingForgotten, Patient, Exhausted
  <1> QED BY <1>3, <1>4, <1>5, <1>6

(* Counting leaves the pass in flight. *)
LEMMA CountFailuresKeeps == ASSUME CleanupIInv, CountFailures PROVE CleanupIInv'
  <1> USE RungsAssumption DEF CleanupIInv, CountFailures, supervisor, durable, thePass, running
  <1>1. /\ asking \in BOOLEAN /\ scheduled \in BOOLEAN /\ retryOwed \in BOOLEAN
        /\ chained \in BOOLEAN
    BY Flags
  <1>2. attempts' \in [Tombstones -> 0 .. Rungs]
    BY CountingType DEF CleanupTypeOK
  <1>3. CleanupTypeOK'
    BY <1>1, <1>2 DEF CleanupTypeOK, Holder
  <1>4. Holder' /\ Listed' /\ Spared'
    BY DEF CleanupTypeOK, Holder, Listed, Spared, Gone
  <1>5. Gone'
    BY DEF CleanupTypeOK, Gone, Holder
  <1>6. NothingForgotten'
    BY <1>1 DEF CleanupTypeOK, Holder, Gone, NothingForgotten, Patient, Exhausted
  <1> QED BY <1>3, <1>4, <1>5, <1>6

(* A pass ends and its caller is due to ask again. *)
LEMMA PassEndsKeeps == ASSUME CleanupIInv, PassEnds PROVE CleanupIInv'
  <1> USE RungsAssumption DEF CleanupIInv, PassEnds, Honour, supervisor, durable, thePass, running
  <1>1. /\ asking \in BOOLEAN /\ scheduled \in BOOLEAN /\ retryOwed \in BOOLEAN
        /\ chained \in BOOLEAN
    BY Flags
  <1>2. attempts' \in [Tombstones -> 0 .. Rungs]
    BY DEF CleanupTypeOK
  <1>3. CleanupTypeOK'
    BY <1>1, <1>2 DEF CleanupTypeOK, Holder
  <1>4. Holder' /\ Listed' /\ Spared'
    BY DEF CleanupTypeOK, Holder, Listed, Spared, Gone
  <1>5. Gone'
    BY DEF CleanupTypeOK, Gone, Holder
  <1>6. NothingForgotten'
    BY <1>1 DEF CleanupTypeOK, Holder, Gone, NothingForgotten, Patient, Exhausted
  <1> QED BY <1>3, <1>4, <1>5, <1>6

(* A pass that throws leaves a timer, or what it loses is on its own. *)
LEMMA PassThrowsKeeps == ASSUME CleanupIInv, PassThrows PROVE CleanupIInv'
  <1> USE RungsAssumption DEF CleanupIInv, PassThrows, durable, thePass, running
  <1>1. /\ asking \in BOOLEAN /\ scheduled \in BOOLEAN /\ retryOwed \in BOOLEAN
        /\ chained \in BOOLEAN
    BY Flags
  <1>2. attempts' \in [Tombstones -> 0 .. Rungs]
    BY CountingType DEF CleanupTypeOK
  <1>3. lost' \subseteq owed' /\ Spared' /\ NothingForgotten'
    <2>1. owed' = owed /\ inline' \in {inline, Nobody}
      OBVIOUS
    <2>2. lost = {}
      BY DEF NothingForgotten
    <2> QED BY <2>1, <2>2, LosingKeeps
  <1>4. CleanupTypeOK'
    <2>1. faults' \in 0 .. Faults
      BY DEF CleanupTypeOK
    <2>2. {asking', scheduled', retryOwed', chained'} \subseteq BOOLEAN
      BY <1>1
    <2>3. /\ live' \subseteq Tombstones /\ owed' \subseteq Tombstones \ live'
          /\ inline' \in owed' \cup {Nobody}
      BY DEF CleanupTypeOK
    <2>4. /\ lease' \in {"free", "deletion", "pass", "other"}
          /\ pass' \in {"off", "queued", "cleaning", "ending"}
          /\ due' \subseteq Tombstones /\ failed' \subseteq Tombstones
          /\ process' \in {"down", "booting", "serving"}
      BY DEF CleanupTypeOK
    <2> QED BY <1>2, <1>3, <2>1, <2>2, <2>3, <2>4 DEF CleanupTypeOK
  <1>5. Holder' /\ Listed'
    BY DEF CleanupTypeOK, Holder, Listed, Gone
  <1>6. Gone'
    BY DEF CleanupTypeOK, Gone, Holder
  <1> QED BY <1>3, <1>4, <1>5, <1>6

(* An ask that throws is lost, unless somebody else is coming. *)
LEMMA AskThrowsKeeps == ASSUME CleanupIInv, AskThrows PROVE CleanupIInv'
  <1> USE RungsAssumption DEF CleanupIInv, AskThrows, durable, thePass, running
  <1>1. /\ asking \in BOOLEAN /\ scheduled \in BOOLEAN /\ retryOwed \in BOOLEAN
        /\ chained \in BOOLEAN
    BY Flags
  <1>2. attempts' \in [Tombstones -> 0 .. Rungs]
    BY DEF CleanupTypeOK
  <1>3. lost' \subseteq owed' /\ Spared' /\ NothingForgotten'
    <2>1. owed' = owed /\ inline' \in {inline, Nobody}
      OBVIOUS
    <2>2. /\ attempts' = attempts /\ pass' = pass
          /\ scheduled' => scheduled
          /\ chained' => chained
      OBVIOUS
    <2> QED BY <2>1, <2>2, LosingKeeps
  <1>4. CleanupTypeOK'
    <2>1. faults' \in 0 .. Faults
      BY DEF CleanupTypeOK
    <2>2. {asking', scheduled', retryOwed', chained'} \subseteq BOOLEAN
      BY <1>1
    <2>3. /\ live' \subseteq Tombstones /\ owed' \subseteq Tombstones \ live'
          /\ inline' \in owed' \cup {Nobody}
      BY DEF CleanupTypeOK
    <2>4. /\ lease' \in {"free", "deletion", "pass", "other"}
          /\ pass' \in {"off", "queued", "cleaning", "ending"}
          /\ due' \subseteq Tombstones /\ failed' \subseteq Tombstones
          /\ process' \in {"down", "booting", "serving"}
      BY DEF CleanupTypeOK
    <2> QED BY <1>2, <1>3, <2>1, <2>2, <2>3, <2>4 DEF CleanupTypeOK
  <1>5. Holder' /\ Listed'
    BY DEF CleanupTypeOK, Holder, Listed, Gone
  <1>6. Gone'
    BY DEF CleanupTypeOK, Gone, Holder
  <1> QED BY <1>3, <1>4, <1>5, <1>6

(* The chained ask is answered like any other. *)
LEMMA ChainKeeps == ASSUME CleanupIInv, Chain PROVE CleanupIInv'
  <1> USE RungsAssumption DEF CleanupIInv, Chain, ScheduleRetry, supervisor, durable,
         thePass, running
  <1>1. /\ asking \in BOOLEAN /\ scheduled \in BOOLEAN /\ retryOwed \in BOOLEAN
        /\ chained \in BOOLEAN
    BY Flags
  <1>2. attempts' \in [Tombstones -> 0 .. Rungs]
    BY DEF CleanupTypeOK
  <1>3. CleanupTypeOK'
    BY <1>1, <1>2 DEF CleanupTypeOK, Holder
  <1>4. Holder' /\ Listed' /\ Spared'
    BY DEF CleanupTypeOK, Holder, Listed, Spared, Gone
  <1>5. Gone'
    BY DEF CleanupTypeOK, Gone, Holder
  <1>6. NothingForgotten'
    BY <1>1 DEF CleanupTypeOK, Holder, Gone, NothingForgotten, Patient, Exhausted
  <1> QED BY <1>3, <1>4, <1>5, <1>6

(* A new tombstone is in the hand of its deletion. *)
LEMMA DeletionAdmittedKeeps ==
  ASSUME CleanupIInv, NEW t \in Tombstones, DeletionAdmitted(t)
  PROVE  CleanupIInv'
  <1> USE RungsAssumption DEF CleanupIInv, DeletionAdmitted, supervisor, durable, thePass, running
  <1>1. /\ asking \in BOOLEAN /\ scheduled \in BOOLEAN /\ retryOwed \in BOOLEAN
        /\ chained \in BOOLEAN
    BY Flags
  <1>2. attempts' \in [Tombstones -> 0 .. Rungs]
    BY DEF CleanupTypeOK
  <1>3. CleanupTypeOK'
    BY <1>1, <1>2 DEF CleanupTypeOK, Holder
  <1>4. Holder' /\ Listed' /\ Spared'
    BY DEF CleanupTypeOK, Holder, Listed, Spared, Gone
  <1>5. Gone'
    BY DEF CleanupTypeOK, Gone, Holder
  <1>6. NothingForgotten'
    BY <1>1 DEF CleanupTypeOK, Holder, Gone, NothingForgotten, Patient, Exhausted
  <1> QED BY <1>3, <1>4, <1>5, <1>6

(* The deletion discharges it or asks for a pass. *)
LEMMA DeletionEndsKeeps == ASSUME CleanupIInv, DeletionEnds PROVE CleanupIInv'
  <1> USE RungsAssumption DEF CleanupIInv, DeletionEnds, supervisor, durable, thePass, running
  <1>1. /\ asking \in BOOLEAN /\ scheduled \in BOOLEAN /\ retryOwed \in BOOLEAN
        /\ chained \in BOOLEAN
    BY Flags
  <1>2. attempts' \in [Tombstones -> 0 .. Rungs]
    BY DEF CleanupTypeOK
  <1>3. CleanupTypeOK'
    BY <1>1, <1>2 DEF CleanupTypeOK, Holder, Spared
  <1>4. Holder' /\ Listed' /\ Spared'
    BY DEF CleanupTypeOK, Holder, Listed, Spared, Gone
  <1>5. Gone'
    BY DEF CleanupTypeOK, Gone, Holder
  <1>6. NothingForgotten'
    BY <1>1 DEF CleanupTypeOK, Holder, Gone, NothingForgotten, Patient, Exhausted, Spared
  <1> QED BY <1>3, <1>4, <1>5, <1>6

(* A deletion that throws past its commit leaves the tombstone to nobody. *)
LEMMA DeletionThrowsKeeps == ASSUME CleanupIInv, DeletionThrows PROVE CleanupIInv'
  <1> USE RungsAssumption DEF CleanupIInv, DeletionThrows, durable, thePass, running
  <1>1. /\ asking \in BOOLEAN /\ scheduled \in BOOLEAN /\ retryOwed \in BOOLEAN
        /\ chained \in BOOLEAN
    BY Flags
  <1>2. attempts' \in [Tombstones -> 0 .. Rungs]
    BY DEF CleanupTypeOK
  <1>3. lost' \subseteq owed' /\ Spared' /\ NothingForgotten'
    <2>1. owed' = owed /\ inline' \in {inline, Nobody}
      OBVIOUS
    <2>2. /\ attempts' = attempts /\ pass' = pass
          /\ scheduled' => scheduled
          /\ chained' => chained
      OBVIOUS
    <2> QED BY <2>1, <2>2, LosingKeeps
  <1>4. CleanupTypeOK'
    <2>1. faults' \in 0 .. Faults
      BY DEF CleanupTypeOK
    <2>2. {asking', scheduled', retryOwed', chained'} \subseteq BOOLEAN
      BY <1>1
    <2>3. /\ live' \subseteq Tombstones /\ owed' \subseteq Tombstones \ live'
          /\ inline' \in owed' \cup {Nobody}
      BY DEF CleanupTypeOK
    <2>4. /\ lease' \in {"free", "deletion", "pass", "other"}
          /\ pass' \in {"off", "queued", "cleaning", "ending"}
          /\ due' \subseteq Tombstones /\ failed' \subseteq Tombstones
          /\ process' \in {"down", "booting", "serving"}
      BY DEF CleanupTypeOK
    <2> QED BY <1>2, <1>3, <2>1, <2>2, <2>3, <2>4 DEF CleanupTypeOK
  <1>5. Holder' /\ Listed'
    BY DEF CleanupTypeOK, Holder, Listed, Gone
  <1>6. Gone'
    BY DEF CleanupTypeOK, Gone, Holder
  <1> QED BY <1>3, <1>4, <1>5, <1>6

(* The other users of the lease have nothing to do with tombstones. *)
LEMMA OtherTakesKeeps == ASSUME CleanupIInv, OtherTakes PROVE CleanupIInv'
  <1> USE RungsAssumption DEF CleanupIInv, OtherTakes, supervisor, durable, thePass, running
  <1>1. /\ asking \in BOOLEAN /\ scheduled \in BOOLEAN /\ retryOwed \in BOOLEAN
        /\ chained \in BOOLEAN
    BY Flags
  <1>2. attempts' \in [Tombstones -> 0 .. Rungs]
    BY DEF CleanupTypeOK
  <1>3. CleanupTypeOK'
    BY <1>1, <1>2 DEF CleanupTypeOK, Holder
  <1>4. Holder' /\ Listed' /\ Spared'
    BY DEF CleanupTypeOK, Holder, Listed, Spared, Gone
  <1>5. Gone'
    BY DEF CleanupTypeOK, Gone, Holder
  <1>6. NothingForgotten'
    BY <1>1 DEF CleanupTypeOK, Holder, Gone, NothingForgotten, Patient, Exhausted
  <1> QED BY <1>3, <1>4, <1>5, <1>6

(* Nor does their release. *)
LEMMA OtherReleasesKeeps == ASSUME CleanupIInv, OtherReleases PROVE CleanupIInv'
  <1> USE RungsAssumption DEF CleanupIInv, OtherReleases, supervisor, durable, thePass, running
  <1>1. /\ asking \in BOOLEAN /\ scheduled \in BOOLEAN /\ retryOwed \in BOOLEAN
        /\ chained \in BOOLEAN
    BY Flags
  <1>2. attempts' \in [Tombstones -> 0 .. Rungs]
    BY DEF CleanupTypeOK
  <1>3. CleanupTypeOK'
    BY <1>1, <1>2 DEF CleanupTypeOK, Holder
  <1>4. Holder' /\ Listed' /\ Spared'
    BY DEF CleanupTypeOK, Holder, Listed, Spared, Gone
  <1>5. Gone'
    BY DEF CleanupTypeOK, Gone, Holder
  <1>6. NothingForgotten'
    BY <1>1 DEF CleanupTypeOK, Holder, Gone, NothingForgotten, Patient, Exhausted
  <1> QED BY <1>3, <1>4, <1>5, <1>6

(* A process that is down owes nothing until it boots. *)
LEMMA GoesDownKeeps == ASSUME CleanupIInv, GoesDown PROVE CleanupIInv'
  <1> USE RungsAssumption DEF CleanupIInv, GoesDown, durable, thePass, running
  <1>1. /\ asking \in BOOLEAN /\ scheduled \in BOOLEAN /\ retryOwed \in BOOLEAN
        /\ chained \in BOOLEAN
    BY Flags
  <1>2. attempts' \in [Tombstones -> 0 .. Rungs]
    BY DEF CleanupTypeOK
  <1>3. CleanupTypeOK'
    <2>1. faults' \in 0 .. Faults
      BY DEF CleanupTypeOK
    <2>2. {asking', scheduled', retryOwed', chained'} \subseteq BOOLEAN
      BY <1>1
    <2>3. /\ live' \subseteq Tombstones /\ owed' \subseteq Tombstones \ live'
          /\ inline' \in owed' \cup {Nobody}
      BY DEF CleanupTypeOK
    <2> QED BY <1>2, <2>1, <2>2, <2>3 DEF CleanupTypeOK
  <1>4. Holder' /\ Listed' /\ Spared'
    BY DEF CleanupTypeOK, Holder, Listed, Spared, Gone
  <1>5. Gone'
    BY DEF CleanupTypeOK, Gone, Holder
  <1>6. NothingForgotten'
    BY <1>1 DEF CleanupTypeOK, Holder, Gone, NothingForgotten, Patient, Exhausted
  <1> QED BY <1>3, <1>4, <1>5, <1>6

(* Boot starts with a pass. *)
LEMMA BootKeeps == ASSUME CleanupIInv, Boot PROVE CleanupIInv'
  <1> USE RungsAssumption DEF CleanupIInv, Boot, supervisor, durable, thePass, running
  <1>1. /\ asking \in BOOLEAN /\ scheduled \in BOOLEAN /\ retryOwed \in BOOLEAN
        /\ chained \in BOOLEAN
    BY Flags
  <1>2. attempts' \in [Tombstones -> 0 .. Rungs]
    BY DEF CleanupTypeOK
  <1>3. CleanupTypeOK'
    BY <1>1, <1>2 DEF CleanupTypeOK, Holder
  <1>4. Holder' /\ Listed' /\ Spared'
    BY DEF CleanupTypeOK, Holder, Listed, Spared, Gone
  <1>5. Gone'
    BY DEF CleanupTypeOK, Gone, Holder
  <1>6. NothingForgotten'
    BY <1>1 DEF CleanupTypeOK, Holder, Gone, NothingForgotten, Patient, Exhausted
  <1> QED BY <1>3, <1>4, <1>5, <1>6

-----------------------------------------------------------------------------
(* The invariant holds in every reachable state. *)
LEMMA CleanupInvariance == CleanupSpec => []CleanupIInv
  <1>1. CleanupIInv /\ [CleanupNext]_cleanupVars => CleanupIInv'
    <2> SUFFICES ASSUME CleanupIInv, [CleanupNext]_cleanupVars PROVE CleanupIInv'
      OBVIOUS
    <2>1. CASE UNCHANGED cleanupVars
      BY <2>1 DEF cleanupVars, CleanupIInv, CleanupTypeOK, Holder, Listed, Spared, Gone, NothingForgotten,
                   Patient, Exhausted,
         running
    <2>2. CASE RequestRetry \/ DeskLoad
      BY <2>2, RequestRetryKeeps, DeskLoadKeeps
    <2>3. CASE PassStep
      BY <2>3, TimerFiresKeeps, PassAdmittedKeeps, CountFailuresKeeps, PassEndsKeeps, ChainKeeps,
         CleanOneKeeps DEF PassStep
    <2>4. CASE PassThrows \/ AskThrows \/ DeletionThrows
      BY <2>4, PassThrowsKeeps, AskThrowsKeeps, DeletionThrowsKeeps
    <2>5. CASE \E t \in Tombstones : DeletionAdmitted(t)
      BY <2>5, DeletionAdmittedKeeps
    <2>6. CASE DeletionEnds \/ OtherTakes \/ OtherReleases
      BY <2>6, DeletionEndsKeeps, OtherTakesKeeps, OtherReleasesKeeps
    <2>7. CASE GoesDown \/ Boot
      BY <2>7, GoesDownKeeps, BootKeeps
    <2> QED BY <2>1, <2>2, <2>3, <2>4, <2>5, <2>6, <2>7 DEF CleanupNext
  <1> QED BY <1>1, Initially, PTL DEF CleanupSpec

(* The supervisor's state keeps its type. *)
THEOREM CleanupTypeCorrect == CleanupSpec => []CleanupTypeOK
  BY CleanupInvariance, PTL DEF CleanupIInv

(* No owed cleanup whose backoff is not spent is ever forgotten. *)
THEOREM NothingForgottenHolds == CleanupSpec => []NothingForgotten
  BY CleanupInvariance, PTL DEF CleanupIInv

(* Two cleaners never meet at a tombstone. *)
THEOREM CleanerFindsTombstoneHolds == CleanupSpec => []CleanerFindsTombstone
  BY CleanupInvariance, NeverMeet, PTL

(* What is owed is neither forgotten nor cleaned by two. *)
THEOREM OwedToOneHolds == CleanupSpec => []OwedToOne
  BY NothingForgottenHolds, CleanerFindsTombstoneHolds, PTL DEF OwedToOne
=============================================================================
