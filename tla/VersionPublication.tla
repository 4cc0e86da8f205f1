------------------------- MODULE VersionPublication -------------------------
(***************************************************************************)
(* One version's way from a build to the live registry pointer, across two *)
(* stores that share no transaction: the artifact tree on disk             *)
(* (artifact-lifecycle.ts, artifact-publication.ts), the registry and the  *)
(* generation lifecycle rows in SQLite (activation.ts, lifecycle-store.ts),*)
(* and the reconciliation that tells committed history from debris at boot *)
(* and before a publication (artifact-reconciliation.ts).                  *)
(*                                                                         *)
(* A build publishes at most one directory, so the tree is art: where the  *)
(* directory of each build is.  Its path is .staging/<build> or            *)
(* <target>/v<vers>.  Builds and deletions exclude each other by the write *)
(* lease (MutationCoordinator), which here is cur.  Publish locks never    *)
(* stop a later process below 64 stale generations and are left out.       *)
(***************************************************************************)
EXTENDS Naturals

CONSTANTS Builds, Capabilities,   \* builds, and incarnations of capabilities
          NoBuild,
          Crashes                 \* bound: crashes, and failures that cannot be recorded

ASSUME NoBuildAssumption == NoBuild \notin Builds /\ Crashes \in Nat

VARIABLES life,      \* registry row: none yet, active, tombstone, or removed
          version,   \* live version of an active capability
          row,       \* lifecycle_status of each build, with no_change apart from success
          target,    \* the incarnation a build is for
          vers,      \* the version it would become
          art,       \* its directory: none, staging, published, or torn by half a removal
          cur,       \* the build that holds the lease
          process,   \* "serving", "down", "booting", or "refused" by an exception at boot
          crashes

vars == <<life, version, row, target, vers, art, cur, process, crashes>>

Used == {b \in Builds : row[b] # "none"}

TypeOK ==
    /\ life \in [Capabilities -> {"none", "active", "tombstone", "removed"}]
    /\ version \in [Capabilities -> Nat]
    /\ row \in [Builds -> {"none", "running", "success", "no_change", "failed", "interrupted"}]
    /\ target \in [Builds -> Capabilities] /\ vers \in [Builds -> Nat]
    /\ art \in [Builds -> {"none", "staging", "published", "torn"}]
    /\ cur \in Used \cup {NoBuild}
    /\ process \in {"serving", "down", "booting", "refused"}
    /\ crashes \in 0 .. Crashes

Init ==
    /\ life = [c \in Capabilities |-> "none"] /\ version = [c \in Capabilities |-> 0]
    /\ row = [b \in Builds |-> "none"] /\ art = [b \in Builds |-> "none"]
    /\ target \in [Builds -> Capabilities] /\ vers = [b \in Builds |-> 0]
    /\ cur = NoBuild /\ process = "serving" /\ crashes = 0

-----------------------------------------------------------------------------
(* reconcileCapabilityArtifacts *)

At(c, v) == {b \in Builds : art[b] \in {"published", "torn"} /\ target[b] = c /\ vers[b] = v}

\* A directory v1 .. vN of an active incarnation at vN.
Committed(b) ==
    /\ art[b] \in {"published", "torn"}
    /\ life[target[b]] = "active" /\ vers[b] <= version[target[b]]

\* Everything else outside tombstoned incarnations is to be removed.
Candidates == {b \in Builds : /\ art[b] # "none"
                              /\ life[target[b]] # "tombstone"
                              /\ ~Committed(b)}

\* assertNeverActivated: a terminal row that is not success.
NeverActivated(b) == row[b] \in {"failed", "interrupted"}

\* Every candidate is proven never activated, the published ones from their own manifest, which a
\* torn directory cannot give.
Provable == \A b \in Candidates : NeverActivated(b) /\ art[b] # "torn"

\* verifyCommittedHistory of every active row.
HistoryVerified ==
    \A c \in Capabilities : life[c] = "active" =>
        \A v \in 1 .. version[c] : \E b \in At(c, v) : art[b] = "published"

CanReconcile == HistoryVerified /\ Provable

\* What the tree is after the removals.
Reconciled == [b \in Builds |-> IF b \in Candidates THEN "none" ELSE art[b]]

\* What it is when the process dies inside the removals: those of gone are done, half is half done.
HalfReconciled(gone, half) ==
    [b \in Builds |-> IF b \in gone THEN "none"
                      ELSE IF b = half /\ art[b] = "published" THEN "torn" ELSE art[b]]

-----------------------------------------------------------------------------
(* builds, one at a time under the build lease *)

Idle == process = "serving" /\ cur = NoBuild

\* Open a lifecycle row for a build of version v of c.
Open(b, c, v) ==
    /\ Idle /\ row[b] = "none"
    /\ row' = [row EXCEPT ![b] = "running"]
    /\ target' = [target EXCEPT ![b] = c]
    /\ vers' = [vers EXCEPT ![b] = v]
    /\ cur' = b
    /\ UNCHANGED <<life, version, process, crashes>>

\* runAdmittedNewCapability: reconcile, then a fresh incarnation and its running row.
StartNew(b, c) ==
    /\ life[c] = "none" /\ \A x \in Used : target[x] # c
    /\ CanReconcile /\ art' = Reconciled
    /\ Open(b, c, 1)

\* runCapabilityEvolution against the live version.
StartEvolution(b, c) ==
    /\ life[c] = "active"
    /\ Open(b, c, version[c] + 1)
    /\ UNCHANGED art

\* The candidate equals what is live.
NoChange(b) ==
    /\ cur = b /\ art[b] = "none" /\ vers[b] > 1
    /\ row' = [row EXCEPT ![b] = "no_change"] /\ cur' = NoBuild
    /\ UNCHANGED <<life, version, target, vers, art, process, crashes>>

\* The Gate has passed: an evolution reconciles, and the staging directory is made and filled.
Stage(b) ==
    /\ cur = b /\ art[b] = "none"
    /\ \/ vers[b] = 1 /\ art' = [art EXCEPT ![b] = "staging"]
       \/ vers[b] > 1 /\ CanReconcile /\ art' = [Reconciled EXCEPT ![b] = "staging"]
    /\ UNCHANGED <<life, version, row, target, vers, cur, process, crashes>>

\* publishDirectoryWithoutOverwrite.
Rename(b) ==
    /\ cur = b /\ art[b] = "staging" /\ At(target[b], vers[b]) = {}
    /\ art' = [art EXCEPT ![b] = "published"]
    /\ UNCHANGED <<life, version, row, target, vers, cur, process, crashes>>

\* Mutation: the lifecycle row is closed after the transaction, not in it.
ActivateUnrecorded(b) ==
    /\ cur = b /\ art[b] = "published"
    /\ life' = [life EXCEPT ![target[b]] = "active"]
    /\ version' = [version EXCEPT ![target[b]] = vers[b]]
    /\ cur' = NoBuild
    /\ UNCHANGED <<row, target, vers, art, process, crashes>>

\* Mutation: the pointer moves before the rename.
ActivateStaged(b) ==
    /\ cur = b /\ art[b] \in {"staging", "published"}
    /\ life' = [life EXCEPT ![target[b]] = "active"]
    /\ version' = [version EXCEPT ![target[b]] = vers[b]]
    /\ row' = [row EXCEPT ![b] = "success"]
    /\ cur' = NoBuild
    /\ UNCHANGED <<target, vers, art, process, crashes>>

\* activatePublishedSnapshot: registry pointer, compared and swapped, and success in one transaction.
Activate(b) ==
    /\ cur = b /\ art[b] = "published"
    /\ IF vers[b] = 1 THEN life[target[b]] = "none"
                      ELSE life[target[b]] = "active" /\ version[target[b]] = vers[b] - 1
    /\ life' = [life EXCEPT ![target[b]] = "active"]
    /\ version' = [version EXCEPT ![target[b]] = vers[b]]
    /\ row' = [row EXCEPT ![b] = "success"]
    /\ cur' = NoBuild
    /\ UNCHANGED <<target, vers, art, process, crashes>>

\* A failed or cancelled build leaves a published candidate where it is; its staging directory is
\* removed if that can be done.
Fail(b) ==
    /\ cur = b
    /\ row' = [row EXCEPT ![b] = "failed"]
    /\ art' \in {art, [art EXCEPT ![b] = IF art[b] = "staging" THEN "none" ELSE art[b]]}
    /\ cur' = NoBuild
    /\ UNCHANGED <<life, version, target, vers, process, crashes>>

\* The failure itself cannot be written: the row stays running until the next boot.
FailUnrecorded(b) ==
    /\ cur = b /\ crashes < Crashes /\ crashes' = crashes + 1
    /\ cur' = NoBuild
    /\ UNCHANGED <<life, version, row, target, vers, art, process>>

-----------------------------------------------------------------------------
(* deletion, as far as it touches the tree *)

Delete(c) ==
    /\ Idle /\ life[c] = "active"
    /\ life' = [life EXCEPT ![c] = "tombstone"]
    /\ UNCHANGED <<version, row, target, vers, art, cur, process, crashes>>

\* The artifact adapter removes the incarnation directory and the tombstone goes, or it is caught
\* half way, also by a crash, and the tombstone stays.
Clean(c) ==
    /\ life[c] = "tombstone" /\ cur = NoBuild /\ process \in {"serving", "booting"}
    /\ \/ /\ art' = [b \in Builds |-> IF target[b] = c THEN "none" ELSE art[b]]
          /\ life' = [life EXCEPT ![c] = "removed"]
       \/ /\ \E b \in Builds :
                /\ target[b] = c /\ art[b] \in {"published", "staging", "torn"}
                /\ \E left \in {"none", IF art[b] = "staging" THEN "staging" ELSE "torn"} :
                       art' = [art EXCEPT ![b] = left]
          /\ life' = life
    /\ UNCHANGED <<version, row, target, vers, cur, process, crashes>>

-----------------------------------------------------------------------------
(* the process *)

Down == process' = "down" /\ cur' = NoBuild /\ crashes < Crashes /\ crashes' = crashes + 1

\* The process dies, at any point of a build or of boot.
Crash ==
    /\ process \in {"serving", "booting"} /\ Down
    /\ UNCHANGED <<life, version, row, target, vers, art>>

\* It dies inside a reconciliation: at boot, before a new build, or before a publication.
CrashWhileReconciling ==
    /\ \/ process = "booting"
       \/ process = "serving" /\ cur = NoBuild
       \/ cur # NoBuild /\ art[cur] = "none" /\ vers[cur] > 1
    /\ CanReconcile
    /\ \E gone \in SUBSET Candidates, half \in Candidates \cup {NoBuild} :
           art' = HalfReconciled(gone, half)
    /\ Down
    /\ UNCHANGED <<life, version, row, target, vers>>

\* Mutation: the rows of the dead process stay running.
BootKeepsRunning ==
    /\ process \in {"down", "refused"} /\ process' = "booting"
    /\ UNCHANGED <<life, version, row, target, vers, art, cur, crashes>>

\* Boot: reconcileRunningGenerationLifecycles with the migrations.
Boot ==
    /\ process \in {"down", "refused"} /\ process' = "booting"
    /\ row' = [b \in Builds |-> IF row[b] = "running" THEN "interrupted" ELSE row[b]]
    /\ UNCHANGED <<life, version, target, vers, art, cur, crashes>>

\* Boot goes on to serve once it has reconciled; an exception there ends the process.
BootReconcile ==
    /\ process = "booting"
    /\ IF CanReconcile THEN art' = Reconciled /\ process' = "serving"
                       ELSE art' = art /\ process' = "refused"
    /\ UNCHANGED <<life, version, row, target, vers, cur, crashes>>

-----------------------------------------------------------------------------
Next ==
    \/ \E b \in Builds : \/ NoChange(b) \/ Stage(b) \/ Rename(b) \/ Activate(b)
                         \/ Fail(b) \/ FailUnrecorded(b)
                         \/ \E c \in Capabilities : StartNew(b, c) \/ StartEvolution(b, c)
    \/ \E c \in Capabilities : Delete(c) \/ Clean(c)
    \/ Crash \/ CrashWhileReconciling \/ Boot \/ BootReconcile

Spec == Init /\ [][Next]_vars

-----------------------------------------------------------------------------
(* what the ordering of the two stores promises *)

(* Every version a live capability has ever had is whole on disk, and its build is recorded as
   activated: the pointer never names a directory that is not there. (publish before commit) *)
HistoryIntact ==
    \A c \in Capabilities : life[c] = "active" =>
        \A v \in 1 .. version[c] : \E b \in At(c, v) : art[b] = "published" /\ row[b] = "success"

(* The lifecycle row is a proof: as long as the capability is live a build is recorded as activated
   exactly when its directory is committed history.  Reconciliation deletes on its word. *)
RowsTellHistory ==
    \A b \in Builds : life[target[b]] = "active" => (row[b] = "success" <=> Committed(b))

(* Committed bytes are never touched while the capability is live, by a reconciliation, a failed
   build or a crash inside either. *)
CommittedImmutable ==
    [][\A b \in Builds : Committed(b) /\ life'[target[b]] = "active" => art'[b] = art[b]]_vars

(* Boot refuses to serve for one reason only: a published candidate that a crash left half removed.
   Everything else a build, a deletion or a crash can leave, boot repairs. *)
OnlyTornRefuses ==
    process = "refused" =>
        \E b \in Builds : art[b] = "torn" /\ life[target[b]] # "tombstone" /\ row[b] # "success"

(* "every store change is ordered so that a crash leaves something boot can repair" *)
BootServes == process # "refused"
=============================================================================
