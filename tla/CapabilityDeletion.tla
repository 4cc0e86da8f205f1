------------------------- MODULE CapabilityDeletion -------------------------
(***************************************************************************)
(* Deleting a capability and creating it again:                            *)
(* src/lifecycle/deletion/front-half.ts and                                *)
(* src/lifecycle/deletion/destruction/two-phase-destruction.ts, over the   *)
(* read gates of ReadGates and one write lease.                            *)
(*                                                                         *)
(* A deletion takes the lease, closes and drains the gate, collects a      *)
(* manifest of what the incarnation owns, turns the registry row into a    *)
(* tombstone in one transaction, and only then deletes files, entry by     *)
(* entry; the tombstone keeps the capability id reserved until the last    *)
(* entry is gone.  Any step may throw and the process may die between any  *)
(* two.  A supervised pass discharges the tombstones a deletion left.      *)
(*                                                                         *)
(* The write lease is the one of MutationCoordinator: one holder, who      *)
(* keeps it across awaits.  An owned resource is a stored file or the      *)
(* directory of an incarnation, and the directory is named by the          *)
(* incarnation itself.                                                     *)
(***************************************************************************)
EXTENDS FiniteSets

CONSTANTS Incarnations, CapabilityOf, Readers, Closers, NoOne,   \* as in ReadGates
          Files,       \* file keys, minted once
          OwnerOf,     \* the incarnation a file is uploaded for
          Builder,     \* a build
          Supervisor   \* a pass of the cleanup supervisor

ASSUME WritersAssumption ==
    /\ NoOne \notin Closers \cup {Builder, Supervisor}
    /\ Builder \notin Closers
    /\ Supervisor \notin Closers \cup {Builder}

ASSUME ResourcesAssumption ==
    /\ Files \cap Incarnations = {}
    /\ OwnerOf \in [Files -> Incarnations]

VARIABLES active, unused, gate, readers, closeLease, retired,
          catalog, wants, signalled, rphase, cphase,   \* the variables of ReadGates
          tombstones,  \* incarnations whose registry row is a deletion tombstone
          deps,        \* the read dependencies of an active row
          manifest,    \* the deletion manifest of a tombstone
          ledger,      \* files with a row in the file ledger
          stored,      \* what is on disk: files of the object store, incarnation directories
          writer,      \* who holds the write lease
          stage,       \* how far the holder has come
          target,      \* the incarnation it works on
          todo         \* manifest entries it has yet to delete, or has collected

Gates == INSTANCE ReadGates

gateVars  == <<gate, readers, closeLease, retired>>
readVars  == <<active, unused, gateVars, catalog, wants, signalled, rphase, cphase>>
storeVars == <<tombstones, deps, manifest, ledger, stored>>
leaseVars == <<writer, stage, target, todo>>
vars      == <<readVars, storeVars, leaseVars>>

Resources == Files \cup Incarnations
Owner(e)  == IF e \in Incarnations THEN e ELSE OwnerOf[e]
Stages    == {"free", "building", "published", "draining", "collected", "cleaning", "ending"}

TypeOK ==
    /\ Gates!TypeOK
    /\ tombstones \subseteq Incarnations
    /\ deps \in [Incarnations -> SUBSET Incarnations]
    /\ manifest \in [Incarnations -> SUBSET Resources]
    /\ ledger \subseteq Files
    /\ stored \subseteq Resources
    /\ writer \in Closers \cup {Builder, Supervisor, NoOne}
    /\ stage \in Stages
    /\ target \in Incarnations \cup {NoOne}
    /\ todo \subseteq Resources

Init ==
    /\ Gates!Init
    /\ tombstones = {}
    /\ deps = [i \in Incarnations |-> {}]
    /\ manifest = [i \in Incarnations |-> {}]
    /\ ledger = {}
    /\ stored = {}
    /\ writer = NoOne
    /\ stage = "free"
    /\ target = NoOne
    /\ todo = {}

-----------------------------------------------------------------------------
(* the write lease *)

Take(w, i, s) ==
    /\ writer = NoOne
    /\ writer' = w /\ target' = i /\ stage' = s

At(w, s) == writer = w /\ stage = s
Go(s)    == stage' = s /\ UNCHANGED <<writer, target>>

\* Every holder releases in its finally.
ReleaseLease ==
    /\ stage = "ending"
    /\ writer' = NoOne /\ stage' = "free" /\ target' = NoOne /\ todo' = {}
    /\ UNCHANGED <<readVars, storeVars>>

-----------------------------------------------------------------------------
(* what creates *)

\* Mutation: a tombstone does not reserve its id.
IdAvailableToActive(i) == \A j \in active : CapabilityOf[j] # CapabilityOf[i]

\* A build is admitted for a fresh incarnation of a capability id that no row holds.
IdAvailable(i) == \A j \in active \cup tombstones : CapabilityOf[j] # CapabilityOf[i]
BeginBuild(i) ==
    /\ i \in unused \ stored
    /\ IdAvailable(i)
    /\ Take(Builder, i, "building")
    /\ UNCHANGED <<readVars, storeVars, todo>>

\* publishCapabilitySnapshot: the files are in place before the registry names them.
Publish ==
    /\ At(Builder, "building")
    /\ stored' = stored \cup {target}
    /\ Go("published")
    /\ UNCHANGED <<readVars, tombstones, deps, manifest, ledger, todo>>

\* activatePublishedSnapshot: the insert conflicts with any row of the id, and every dependency the
\* specification names has to be an active row.
ActivateRow(reads) ==
    /\ At(Builder, "published")
    /\ IdAvailable(target)
    /\ reads \subseteq active
    /\ Gates!Activate(target)
    /\ deps' = [deps EXCEPT ![target] = reads]
    /\ Go("ending")
    /\ UNCHANGED <<tombstones, manifest, ledger, stored, todo>>

\* A build that fails leaves what it published for reconciliation.
BuildFails ==
    /\ writer = Builder /\ stage \in {"building", "published"}
    /\ Go("ending")
    /\ UNCHANGED <<readVars, storeVars, todo>>

\* Mutation: what is published is removed unless a tombstone owns it.
ReconcileIgnoresRegistry(i) ==
    /\ writer = NoOne
    /\ i \in stored \ tombstones
    /\ stored' = stored \ {i}
    /\ UNCHANGED <<readVars, tombstones, deps, manifest, ledger, leaseVars>>

\* reconcileCapabilityArtifacts: under the lease or before the server listens, a directory that was
\* never activated goes.
Reconcile(i) ==
    /\ writer = NoOne
    /\ i \in stored \cap unused
    /\ stored' = stored \ {i}
    /\ UNCHANGED <<readVars, tombstones, deps, manifest, ledger, leaseVars>>

\* An upload's ledger row: a platform write that finds its owner still active.
StoreFile(f) ==
    /\ writer = NoOne
    /\ OwnerOf[f] \in active
    /\ f \notin ledger \cup stored
    /\ ledger' = ledger \cup {f}
    /\ stored' = stored \cup {f}
    /\ UNCHANGED <<readVars, tombstones, deps, manifest, leaseVars>>

-----------------------------------------------------------------------------
(* deletion *)

Dependents(i) == {j \in active : i \in deps[j]}

\* Mutation: the dependents are not looked up under the lease.
AdmitBlindly(c, i) ==
    /\ Take(c, i, "draining")
    /\ Gates!Close(c, i)
    /\ UNCHANGED <<storeVars, todo>>

\* admitCapabilityDeletion up to the drain, without an await: the lease, the row as it now stands,
\* its dependents, and the gate.  A busy, stale or blocked deletion changes nothing.
Admit(c, i) ==
    /\ Take(c, i, "draining")
    /\ Dependents(i) = {}
    /\ Gates!Close(c, i)
    /\ UNCHANGED <<storeVars, todo>>

\* Mutation: the answer to a drain that timed out keeps the lease.
DrainTimeoutKeepsLease(c) ==
    /\ At(c, "draining")
    /\ Gates!DrainTimeout(c, target)
    /\ UNCHANGED <<storeVars, leaseVars>>

\* Mutation: the deletion gives up and leaves the gate closing.
DrainTimeoutKeepsGate(c) ==
    /\ At(c, "draining") /\ cphase[c] = "draining"
    /\ cphase' = [cphase EXCEPT ![c] = "idle"]
    /\ Go("ending")
    /\ UNCHANGED <<active, unused, gateVars, catalog, wants, signalled, rphase, storeVars, todo>>

\* The drain outdid its deadline: the gate is open again and nothing was destroyed.
DrainTimeout(c) ==
    /\ At(c, "draining")
    /\ Gates!DrainTimeout(c, target)
    /\ Go("ending")
    /\ UNCHANGED <<storeVars, todo>>

\* collectOwnedResourceManifest: the directory, and every key the ledger holds for the incarnation.
Collect(c) ==
    /\ At(c, "draining") /\ cphase[c] = "drained"
    /\ todo' = {target} \cup {f \in ledger : OwnerOf[f] = target}
    /\ Go("collected")
    /\ UNCHANGED <<readVars, storeVars>>

\* Collecting or the transaction threw: rolled back, and the gate reopened in the finally.
DestroyThrows(c) ==
    /\ writer = c /\ stage \in {"draining", "collected"}
    /\ Gates!Reopen(c, target)
    /\ Go("ending")
    /\ UNCHANGED <<storeVars, todo>>

\* commitDeletionTombstone and the retired gate: the row becomes the tombstone, the ledger rows and
\* the table go, in one transaction.
Commit(c) ==
    /\ At(c, "collected")
    /\ Gates!Commit(c, target)
    /\ tombstones' = tombstones \cup {target}
    /\ manifest' = [manifest EXCEPT ![target] = todo]
    /\ deps' = [deps EXCEPT ![target] = {}]
    /\ ledger' = {f \in ledger : OwnerOf[f] # target}
    /\ Go("cleaning")
    /\ UNCHANGED <<stored, todo>>

-----------------------------------------------------------------------------
(* cleaning, by the deletion itself or by a pass *)

\* A pass takes up a tombstone: at boot, on the retry timer or on a desk load.  Several tombstones
\* are several passes here, which only adds interleavings.
BeginPass(i) ==
    /\ i \in tombstones
    /\ Take(Supervisor, i, "cleaning")
    /\ todo' = manifest[i]
    /\ UNCHANGED <<readVars, storeVars>>

\* The entry cleanTombstone is at: the manifest is sorted by adapter, so the directory comes after
\* the files.
AtEntry(e) ==
    /\ stage = "cleaning" /\ e \in todo
    /\ e \in Incarnations => todo \cap Files = {}

\* cleanOwnedResource: the entry is deleted, or was gone already; a key that has a ledger row again
\* is refused.
CleanEntry(e) ==
    /\ AtEntry(e) /\ e \notin ledger
    /\ stored' = stored \ {e}
    /\ todo' = todo \ {e}
    /\ UNCHANGED <<readVars, tombstones, deps, manifest, ledger, writer, stage, target>>

\* Mutation: an entry that failed is skipped.
CleanFailsOver(e) ==
    /\ AtEntry(e)
    /\ todo' = todo \ {e}
    /\ UNCHANGED <<readVars, storeVars, writer, stage, target>>

\* The first entry that fails keeps the tombstone with its whole manifest; a delete that timed out
\* may have happened all the same.
CleanFails(e) ==
    /\ AtEntry(e)
    /\ stored' \in {stored, stored \ ({e} \ ledger)}
    /\ Go("ending")
    /\ UNCHANGED <<readVars, tombstones, deps, manifest, ledger, todo>>

\* removeCapabilityDeletionTombstone: the id is free again.
RemoveTombstone ==
    /\ stage = "cleaning" /\ todo = {}
    /\ tombstones' = tombstones \ {target}
    /\ manifest' = [manifest EXCEPT ![target] = {}]
    /\ Go("ending")
    /\ UNCHANGED <<readVars, deps, ledger, stored, todo>>

-----------------------------------------------------------------------------
\* An operation reads through the gates meanwhile.
Read(r) ==
    /\ \/ Gates!Capture(r)
       \/ Gates!AcquireAll(r)
       \/ Gates!Release(r)
       \/ \E set \in SUBSET Incarnations : Gates!TryAcquire(r, set)
    /\ UNCHANGED <<storeVars, leaseVars>>

\* The process dies and the next one boots; the database and the disk are what they were.
Crash ==
    /\ Gates!Restart
    /\ writer' = NoOne /\ stage' = "free" /\ target' = NoOne /\ todo' = {}
    /\ UNCHANGED storeVars

Next ==
    \/ \E i \in Incarnations : BeginBuild(i) \/ Reconcile(i) \/ BeginPass(i)
    \/ Publish \/ BuildFails \/ RemoveTombstone \/ ReleaseLease \/ Crash
    \/ \E reads \in SUBSET Incarnations : ActivateRow(reads)
    \/ \E f \in Files : StoreFile(f)
    \/ \E c \in Closers, i \in Incarnations : Admit(c, i)
    \/ \E c \in Closers : DrainTimeout(c) \/ Collect(c) \/ DestroyThrows(c) \/ Commit(c)
    \/ \E e \in Resources : CleanEntry(e) \/ CleanFails(e)
    \/ \E r \in Readers : Read(r)

(* The drain's timer fires and whoever holds the lease goes on; a pass is not obliged to start and
   a reader is not obliged to release. *)
Fairness ==
    /\ WF_vars(ReleaseLease) /\ WF_vars(RemoveTombstone) /\ WF_vars(BuildFails)
    /\ \A c \in Closers :
          /\ WF_vars(DrainTimeout(c))
          /\ WF_vars(DestroyThrows(c) \/ Commit(c))
    /\ WF_vars(\E e \in Resources : CleanEntry(e) \/ CleanFails(e))

Spec     == Init /\ [][Next]_vars
FairSpec == Spec /\ Fairness

-----------------------------------------------------------------------------
(* what deletion promises *)

(* A capability id has one life at a time: an active row or a tombstone, never two of either.
   (IdAvailable, the insert's conflict, commitDeletionTombstone) *)
OneLife ==
    \A i, j \in active \cup tombstones : CapabilityOf[i] = CapabilityOf[j] => i = j

(* No active row reads a capability that is gone, although a build decides what it reads long
   before it activates and a deletion looks only once. (listCapabilityDependents,
   assertActiveReadDependencies) *)
DependenciesActive == \A i \in active : deps[i] \subseteq active

(* What a live incarnation owns is on disk: no deletion, failed or crashed, no pass and no
   reconciliation touches the directory or a file of an active row. *)
LiveIntact ==
    /\ active \subseteq stored
    /\ ledger \subseteq stored
    /\ \A f \in ledger : OwnerOf[f] \in active

(* Rebuilding under an id never meets the life before: lives are apart, and the deletion or the
   cleanup of one takes nothing from the one that is live. *)
OneIntactLife == OneLife /\ LiveIntact

(* A life that is over leaves nothing: once its tombstone is removed, and the id may be built
   again, no file and no directory of it remains, whatever failed on the way.
   (collectOwnedResourceManifest, cleanTombstone) *)
NothingRemains ==
    \A e \in stored : Owner(e) \in active \cup tombstones \/ e \in unused

(* While a tombstone stands, its manifest names everything that is still on disk for it, so a pass
   after a crash finds it. (the manifest is collected before the transaction, under the lease) *)
ManifestComplete ==
    \A e \in stored : Owner(e) \in tombstones => e \in manifest[Owner(e)]

(* The deletion drives the read gates as ReadGates allows, so that what is proved there holds here:
   nobody reads a dropped table. *)
GatesRespected == Gates!Spec

(* Nobody keeps the write lease for ever: a deletion commits, gives up or runs out of time, and
   cleaning ends whether or not it fails. *)
LeaseReturned == \A w \in Closers \cup {Builder, Supervisor} : writer = w ~> writer # w
=============================================================================
