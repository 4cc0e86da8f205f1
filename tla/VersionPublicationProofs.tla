----------------------- MODULE VersionPublicationProofs -----------------------
(***************************************************************************)
(* Proofs about VersionPublication.  The rows tell history only because no *)
(* debris can sit where the next version will be: every directory of a     *)
(* capability is at most one version ahead of it, and no version has two   *)
(* directories.  That is Tree below.                                       *)
(***************************************************************************)
EXTENDS VersionPublication, TLAPS

Kept == {c \in Capabilities : life[c] \in {"none", "active"}}

(* The rows and the lease: only a build under the lease runs, and what never ran left nothing. *)
Rows ==
    /\ \A b \in Builds : row[b] \in {"none", "no_change"} => art[b] = "none"
    /\ cur # NoBuild => row[cur] = "running" /\ process = "serving" /\ target[cur] \in Kept
    /\ process = "booting" => \A b \in Builds : row[b] # "running"
    /\ \A b \in Builds : row[b] = "success" => life[target[b]] # "none"

(* The tree of a capability that can still be built. *)
Tree ==
    /\ \A c \in Capabilities : life[c] = "none" => version[c] = 0
    /\ \A b \in Used : target[b] \in Kept => vers[b] \in 1 .. version[target[b]] + 1
    /\ \A b, d \in Builds : /\ target[b] \in Kept /\ art[b] \in {"published", "torn"}
                            /\ d \in At(target[b], vers[b])
                            => d = b
    /\ \A b \in Builds : life[target[b]] = "removed" => art[b] = "none"

(* Committed history is whole. *)
History ==
    /\ RowsTellHistory
    /\ \A b \in Builds : row[b] = "success" /\ life[target[b]] = "active" => art[b] = "published"
    /\ \A c \in Capabilities : life[c] = "active" =>
           \A v \in 1 .. version[c] : \E b \in Builds : row[b] = "success" /\ target[b] = c /\ vers[b] = v

IInv == TypeOK /\ Rows /\ Tree /\ History /\ OnlyTornRefuses

-----------------------------------------------------------------------------
LEMMA Initially == Init => IInv
  BY NoBuildAssumption DEF Init, IInv, TypeOK, Used, Rows, Tree, Kept, At, History, RowsTellHistory, Committed,
         OnlyTornRefuses

(* The invariant says what HistoryIntact says. *)
LEMMA HistoryIsIntact == IInv => HistoryIntact
  BY DEF IInv, TypeOK, History, HistoryIntact, At

(* Removing some debris, whole or half, disturbs nothing that counts. *)
Debris(b) == b \in Candidates /\ row[b] \in {"failed", "interrupted"}

LEMMA RemovalsAreSafe ==
    ASSUME IInv, NEW a, a \in [Builds -> {"none", "staging", "published", "torn"}],
           \A b \in Builds : \/ a[b] = art[b]
                             \/ Debris(b) /\ (a[b] = "none" \/ (a[b] = "torn" /\ art[b] = "published")),
           art' = a, UNCHANGED <<life, version, row, target, vers>>
    PROVE  /\ \A b \in Builds : row[b] \in {"none", "no_change"} => art'[b] = "none"
           /\ Tree' /\ History'
  <1>1. \A b \in Builds : Debris(b) => ~Committed(b) /\ row[b] \in {"failed", "interrupted"} /\ art[b] # "none"
    BY DEF Debris, Candidates
  <1>2. \A b \in Builds : art'[b] \in {"published", "torn"} => art[b] \in {"published", "torn"}
    BY <1>1
  <1>3. \A b \in Builds : row[b] \in {"none", "no_change"} => art'[b] = "none"
    BY <1>1 DEF IInv, Rows, Kept
  <1>4. Tree'
    BY <1>1, <1>2 DEF IInv, TypeOK, Tree, Kept, Used, At
  <1>5. \A b \in Builds : row[b] = "success" => art'[b] = art[b]
    BY <1>1
  <1>6. RowsTellHistory'
    BY <1>1, <1>2, <1>5 DEF IInv, TypeOK, History, RowsTellHistory, Committed
  <1> QED BY <1>3, <1>4, <1>5, <1>6 DEF IInv, History

(* Reconciliation removes debris only. *)
LEMMA ReconciledIsSafe ==
    ASSUME IInv, CanReconcile
    PROVE  /\ Reconciled \in [Builds -> {"none", "staging", "published", "torn"}]
           /\ \A b \in Builds : Reconciled[b] = art[b] \/ (Debris(b) /\ Reconciled[b] = "none")
  BY DEF IInv, TypeOK, Reconciled, CanReconcile, Provable, NeverActivated, Debris

LEMMA HalfReconciledIsSafe ==
    ASSUME IInv, CrashWhileReconciling
    PROVE  /\ art' \in [Builds -> {"none", "staging", "published", "torn"}]
           /\ \A b \in Builds :
                 \/ art'[b] = art[b]
                 \/ Debris(b) /\ (art'[b] = "none" \/ (art'[b] = "torn" /\ art[b] = "published"))
  <1>1. PICK gone \in SUBSET Candidates, half \in Candidates \cup {NoBuild} :
            CanReconcile /\ art' = HalfReconciled(gone, half)
    BY DEF CrashWhileReconciling
  <1>2. \A b \in Builds : (b \in gone \/ b = half) => Debris(b)
    BY <1>1, NoBuildAssumption DEF Candidates, CanReconcile, Provable, NeverActivated, Debris
  <1> QED BY <1>1, <1>2 DEF IInv, TypeOK, HalfReconciled

-----------------------------------------------------------------------------
(* one lemma per action *)

LEMMA OpenKeeps ==
    ASSUME NEW b \in Builds, NEW c \in Capabilities, NEW v \in Nat \ {0}, IInv, Open(b, c, v),
           c \in Kept, v = version[c] + 1,
           \/ art' = art
           \/ CanReconcile /\ art' = Reconciled
    PROVE  IInv'
  <1>1. /\ art' \in [Builds -> {"none", "staging", "published", "torn"}]
        /\ \A d \in Builds : art'[d] = art[d] \/ (Debris(d) /\ art'[d] = "none")
    BY ReconciledIsSafe DEF IInv, TypeOK
  <1>2. /\ art[b] = "none" /\ art'[b] = "none"
        /\ \A d \in Builds : art'[d] = art[d] \/ (art'[d] = "none" /\ row[d] \in {"failed", "interrupted"})
    BY <1>1 DEF IInv, Rows, Kept, Open, Debris, Candidates
  <1>3. /\ row' = [row EXCEPT ![b] = "running"] /\ row[b] = "none"
        /\ target' = [target EXCEPT ![b] = c] /\ vers' = [vers EXCEPT ![b] = v]
        /\ cur' = b /\ process = "serving"
        /\ UNCHANGED <<life, version, process, crashes>>
    BY DEF Open, Idle
  <1>4. TypeOK'
    BY <1>1, <1>3 DEF IInv, TypeOK, Used
  <1>5. Rows'
    BY <1>2, <1>3 DEF IInv, TypeOK, Rows, Kept
  <1>6. Tree'
    BY <1>2, <1>3 DEF IInv, TypeOK, Tree, Kept, Used, At
  <1>7. History'
    BY <1>2, <1>3 DEF IInv, TypeOK, History, RowsTellHistory, Committed
  <1>8. OnlyTornRefuses'
    BY <1>3 DEF OnlyTornRefuses
  <1> QED BY <1>4, <1>5, <1>6, <1>7, <1>8 DEF IInv

LEMMA StartKeeps ==
    ASSUME NEW b \in Builds, NEW c \in Capabilities, IInv, StartNew(b, c) \/ StartEvolution(b, c)
    PROVE  IInv'
  <1>1. CASE StartNew(b, c)
    <2>1. life[c] = "none" /\ version[c] = 0 /\ Open(b, c, 1) /\ CanReconcile /\ art' = Reconciled
      BY <1>1 DEF StartNew, IInv, Tree
    <2> QED BY <2>1, OpenKeeps DEF Kept
  <1>2. CASE StartEvolution(b, c)
    <2>1. life[c] = "active" /\ version[c] \in Nat /\ Open(b, c, version[c] + 1) /\ art' = art
      BY <1>2 DEF StartEvolution, IInv, TypeOK
    <2> QED BY <2>1, OpenKeeps DEF Kept
  <1> QED BY <1>1, <1>2

LEMMA NoChangeKeeps == ASSUME NEW b \in Builds, IInv, NoChange(b) PROVE IInv'
  <1>1. /\ row[b] = "running" /\ process = "serving" /\ art[b] = "none"
        /\ row' = [row EXCEPT ![b] = "no_change"] /\ cur' = NoBuild
        /\ UNCHANGED <<life, version, target, vers, art, process, crashes>>
    BY NoBuildAssumption DEF IInv, Rows, Kept, NoChange
  <1>2. TypeOK' /\ Rows' /\ OnlyTornRefuses'
    BY <1>1 DEF IInv, TypeOK, Used, Rows, Kept, OnlyTornRefuses
  <1>3. Tree'
    BY <1>1 DEF IInv, TypeOK, Tree, Kept, Used, At
  <1>4. History'
    BY <1>1 DEF IInv, TypeOK, History, RowsTellHistory, Committed
  <1> QED BY <1>2, <1>3, <1>4 DEF IInv

LEMMA StageKeeps == ASSUME NEW b \in Builds, IInv, Stage(b) PROVE IInv'
  <1>1. /\ art' \in [Builds -> {"none", "staging", "published", "torn"}]
        /\ art[b] = "none" /\ art'[b] = "staging" /\ cur = b
        /\ \A d \in Builds \ {b} : art'[d] = art[d] \/ (Debris(d) /\ art'[d] = "none")
        /\ UNCHANGED <<life, version, row, target, vers, cur, process, crashes>>
    BY ReconciledIsSafe DEF IInv, TypeOK, Stage
  <1>2. row[b] = "running" /\ process = "serving" /\ target[b] \in Kept
    BY <1>1, NoBuildAssumption DEF IInv, Rows, Kept
  <1>3. \A d \in Builds \ {b} : art'[d] = art[d] \/ (art'[d] = "none" /\ row[d] \in {"failed", "interrupted"})
    BY <1>1 DEF Debris
  <1>4. TypeOK' /\ Rows' /\ OnlyTornRefuses'
    BY <1>1, <1>2, <1>3 DEF IInv, TypeOK, Used, Rows, Kept, OnlyTornRefuses
  <1>5. Tree'
    BY <1>1, <1>2, <1>3 DEF IInv, TypeOK, Tree, Kept, Used, At
  <1>6. History'
    BY <1>1, <1>2, <1>3 DEF IInv, TypeOK, History, RowsTellHistory, Committed
  <1> QED BY <1>4, <1>5, <1>6 DEF IInv

LEMMA RenameKeeps == ASSUME NEW b \in Builds, IInv, Rename(b) PROVE IInv'
  <1>1. row[b] = "running" /\ process = "serving" /\ b \in Used
    BY NoBuildAssumption DEF IInv, Rows, Kept, Rename, Used
  <1>2. TypeOK' /\ Rows' /\ OnlyTornRefuses'
    BY <1>1 DEF IInv, TypeOK, Used, Rows, Kept, OnlyTornRefuses, Rename
  <1>3. Tree'
    BY <1>1 DEF IInv, TypeOK, Tree, Kept, Used, At, Rename
  <1>4. life[target[b]] = "active" => vers[b] > version[target[b]]
    <2>1. SUFFICES ASSUME life[target[b]] = "active", vers[b] \in 1 .. version[target[b]]
                   PROVE  FALSE
      BY <1>1 DEF IInv, TypeOK, Tree, Kept
    <2>2. PICK d \in Builds : row[d] = "success" /\ target[d] = target[b] /\ vers[d] = vers[b]
      BY <2>1 DEF IInv, TypeOK, History
    <2>3. d \in At(target[b], vers[b])
      BY <2>1, <2>2 DEF IInv, History, At
    <2> QED BY <2>3 DEF Rename
  <1>5. History'
    BY <1>1, <1>4 DEF IInv, TypeOK, History, RowsTellHistory, Committed, Rename
  <1> QED BY <1>2, <1>3, <1>5 DEF IInv

LEMMA ActivateKeeps == ASSUME NEW b \in Builds, IInv, Activate(b) PROVE IInv'
  <1> DEFINE c == target[b]
  <1>1. /\ c \in Capabilities /\ c \in Kept /\ vers[b] = version[c] + 1 /\ version[c] \in Nat
        /\ row[b] = "running" /\ process = "serving" /\ art[b] = "published"
        /\ life' = [life EXCEPT ![c] = "active"] /\ version' = [version EXCEPT ![c] = vers[b]]
        /\ row' = [row EXCEPT ![b] = "success"] /\ cur' = NoBuild
        /\ UNCHANGED <<target, vers, art, process, crashes>>
    BY NoBuildAssumption DEF IInv, TypeOK, Rows, Tree, Kept, Activate
  <1> HIDE DEF c
  <1>2. c = target[b]
    BY DEF c
  <1>3. TypeOK' /\ Rows' /\ OnlyTornRefuses'
    BY <1>1, <1>2 DEF IInv, TypeOK, Used, Rows, Kept, OnlyTornRefuses
  <1>4. Tree'
    BY <1>1, <1>2 DEF IInv, TypeOK, Tree, Kept, Used, At
  <1>5. \A d \in Builds \ {b} : /\ target[d] = c /\ art[d] \in {"published", "torn"}
                                => vers[d] # vers[b]
    BY <1>1, <1>2 DEF IInv, Tree, At
  <1>6. \A d \in Builds \ {b} : target[d] = c /\ row[d] = "success" => vers[d] <= version[c] /\ life[c] = "active"
    BY <1>1 DEF IInv, Rows, Kept, History, RowsTellHistory, Committed
  <1>7. RowsTellHistory'
    <2> SUFFICES ASSUME NEW d \in Builds, life'[target[d]] = "active"
                 PROVE  row'[d] = "success" <=> Committed(d)'
      BY <1>1 DEF RowsTellHistory
    <2>1. CASE d = b
      BY <1>1, <1>2, <2>1 DEF IInv, TypeOK, Committed
    <2>2. CASE d # b /\ target[d] # c
      BY <1>1, <2>2 DEF IInv, TypeOK, History, RowsTellHistory, Committed
    <2>3. CASE d # b /\ target[d] = c
      <3>1. row'[d] = row[d] /\ life'[c] = "active" /\ version'[c] = version[c] + 1
        BY <1>1, <2>3 DEF IInv, TypeOK
      <3>2. row[d] = "success" => Committed(d)'
        BY <1>1, <1>6, <2>3, <3>1 DEF IInv, TypeOK, History, RowsTellHistory, Committed
      <3>3. Committed(d)' => vers[d] <= version[c] /\ art[d] \in {"published", "torn"}
        BY <1>1, <1>5, <2>3, <3>1 DEF IInv, TypeOK, Committed
      <3>4. vers[d] <= version[c] /\ art[d] \in {"published", "torn"} => life[c] = "active"
        <4>1. d \in Used \/ art[d] = "none"
          BY DEF IInv, Rows, Kept, Used
        <4> QED BY <1>1, <2>3, <4>1 DEF IInv, TypeOK, Tree, Kept
      <3> QED BY <2>3, <3>1, <3>2, <3>3, <3>4 DEF IInv, History, RowsTellHistory, Committed
    <2> QED BY <2>1, <2>2, <2>3
  <1>8. \A d \in Builds : row'[d] = "success" /\ life'[target'[d]] = "active" => art'[d] = "published"
    BY <1>1, <1>6 DEF IInv, TypeOK, History
  <1>9. \A e \in Capabilities : life'[e] = "active" =>
            \A v \in 1 .. version'[e] :
                \E d \in Builds : row'[d] = "success" /\ target'[d] = e /\ vers'[d] = v
    <2> SUFFICES ASSUME NEW e \in Capabilities, life'[e] = "active", NEW v \in 1 .. version'[e]
                 PROVE  \E d \in Builds : row'[d] = "success" /\ target'[d] = e /\ vers'[d] = v
      OBVIOUS
    <2>1. CASE e = c /\ v = vers[b]
      BY <1>1, <1>2, <2>1 DEF IInv, TypeOK
    <2>2. CASE e = c /\ v # vers[b]
      <3>1. v \in 1 .. version[c] /\ life[c] = "active"
        BY <1>1, <2>2 DEF IInv, TypeOK, Tree, Kept
      <3>2. PICK d \in Builds : row[d] = "success" /\ target[d] = c /\ vers[d] = v
        BY <3>1, <1>1 DEF IInv, History
      <3> QED BY <1>1, <2>2, <3>2 DEF IInv, TypeOK
    <2>3. CASE e # c
      <3>1. v \in 1 .. version[e] /\ life[e] = "active"
        BY <1>1, <2>3 DEF IInv, TypeOK
      <3>2. PICK d \in Builds : row[d] = "success" /\ target[d] = e /\ vers[d] = v
        BY <3>1 DEF IInv, History
      <3> QED BY <1>1, <2>3, <3>2 DEF IInv, TypeOK
    <2> QED BY <2>1, <2>2, <2>3
  <1> QED BY <1>3, <1>4, <1>7, <1>8, <1>9 DEF IInv, History

LEMMA FailKeeps == ASSUME NEW b \in Builds, IInv, Fail(b) \/ FailUnrecorded(b) PROVE IInv'
  <1>1. /\ row[b] = "running" /\ process = "serving" /\ cur' = NoBuild
        /\ row' \in [Builds -> {"none", "running", "success", "no_change", "failed", "interrupted"}]
        /\ row'[b] \in {"running", "failed"} /\ \A d \in Builds \ {b} : row'[d] = row[d]
        /\ art' \in [Builds -> {"none", "staging", "published", "torn"}]
        /\ art'[b] = art[b] \/ (art[b] = "staging" /\ art'[b] = "none")
        /\ \A d \in Builds \ {b} : art'[d] = art[d]
        /\ UNCHANGED <<life, version, target, vers, process>>
        /\ crashes' \in 0 .. Crashes
    BY NoBuildAssumption DEF IInv, TypeOK, Rows, Kept, Fail, FailUnrecorded
  <1>2. TypeOK' /\ Rows' /\ OnlyTornRefuses'
    BY <1>1 DEF IInv, TypeOK, Used, Rows, Kept, OnlyTornRefuses
  <1>3. Tree'
    BY <1>1 DEF IInv, TypeOK, Tree, Kept, Used, At
  <1>4. History'
    BY <1>1 DEF IInv, TypeOK, History, RowsTellHistory, Committed
  <1> QED BY <1>2, <1>3, <1>4 DEF IInv

LEMMA DeleteKeeps == ASSUME NEW c \in Capabilities, IInv, Delete(c) PROVE IInv'
  BY DEF IInv, TypeOK, Used, Rows, Tree, Kept, At, History, RowsTellHistory, Committed,
         OnlyTornRefuses, Delete, Idle

LEMMA CleanKeeps == ASSUME NEW c \in Capabilities, IInv, Clean(c) PROVE IInv'
  <1>1. /\ life[c] = "tombstone" /\ cur = NoBuild /\ process \in {"serving", "booting"}
        /\ life' \in [Capabilities -> {"none", "active", "tombstone", "removed"}]
        /\ \A e \in Capabilities \ {c} : life'[e] = life[e]
        /\ \/ life'[c] = "tombstone"
           \/ life'[c] = "removed" /\ \A b \in Builds : target[b] = c => art'[b] = "none"
        /\ art' \in [Builds -> {"none", "staging", "published", "torn"}]
        /\ \A b \in Builds : target[b] # c => art'[b] = art[b]
        /\ \A b \in Builds : art[b] = "none" => art'[b] = "none"
        /\ UNCHANGED <<version, row, target, vers, cur, process, crashes>>
    BY DEF IInv, TypeOK, Clean
  <1>2. TypeOK' /\ Rows' /\ OnlyTornRefuses'
    BY <1>1 DEF IInv, TypeOK, Used, Rows, Kept, OnlyTornRefuses
  <1>3. Tree'
    BY <1>1 DEF IInv, TypeOK, Tree, Kept, Used, At
  <1>4. History'
    BY <1>1 DEF IInv, TypeOK, History, RowsTellHistory, Committed
  <1> QED BY <1>2, <1>3, <1>4 DEF IInv

LEMMA CrashKeeps == ASSUME IInv, Crash \/ CrashWhileReconciling PROVE IInv'
  <1>1. /\ process' = "down" /\ cur' = NoBuild /\ crashes' \in 0 .. Crashes
        /\ UNCHANGED <<life, version, row, target, vers>>
    BY NoBuildAssumption DEF IInv, TypeOK, Crash, CrashWhileReconciling, Down
  <1>2. /\ art' \in [Builds -> {"none", "staging", "published", "torn"}]
        /\ \A b \in Builds :
              \/ art'[b] = art[b]
              \/ Debris(b) /\ (art'[b] = "none" \/ (art'[b] = "torn" /\ art[b] = "published"))
    BY HalfReconciledIsSafe DEF IInv, TypeOK, Crash, CrashWhileReconciling
  <1>3. /\ \A b \in Builds : row[b] \in {"none", "no_change"} => art'[b] = "none"
        /\ Tree' /\ History'
    BY <1>1, <1>2, RemovalsAreSafe
  <1>4. TypeOK' /\ Rows' /\ OnlyTornRefuses'
    BY <1>1, <1>2, <1>3 DEF IInv, TypeOK, Used, Rows, Kept, OnlyTornRefuses
  <1> QED BY <1>3, <1>4 DEF IInv

LEMMA BootKeeps == ASSUME IInv, Boot PROVE IInv'
  <1>1. cur = NoBuild
    BY DEF IInv, Rows, Kept, Boot
  <1>2. TypeOK' /\ Rows' /\ OnlyTornRefuses'
    BY <1>1 DEF IInv, TypeOK, Used, Rows, Kept, OnlyTornRefuses, Boot
  <1>3. Tree'
    BY DEF IInv, TypeOK, Tree, Kept, Used, At, Boot
  <1>4. History'
    BY DEF IInv, TypeOK, History, RowsTellHistory, Committed, Boot
  <1> QED BY <1>2, <1>3, <1>4 DEF IInv

LEMMA BootReconcileKeeps == ASSUME IInv, BootReconcile PROVE IInv'
  <1>1. /\ process = "booting" /\ cur = NoBuild
        /\ UNCHANGED <<life, version, row, target, vers, cur, crashes>>
    BY DEF IInv, Rows, Kept, BootReconcile
  <1>2. CASE CanReconcile
    <2>1. art' = Reconciled /\ process' = "serving"
      BY <1>2 DEF BootReconcile
    <2>2. /\ \A b \in Builds : row[b] \in {"none", "no_change"} => art'[b] = "none"
          /\ Tree' /\ History'
      BY <1>1, <1>2, <2>1, ReconciledIsSafe, RemovalsAreSafe
    <2>3. TypeOK' /\ Rows' /\ OnlyTornRefuses'
      BY <1>1, <1>2, <2>1, <2>2, ReconciledIsSafe DEF IInv, TypeOK, Used, Rows, Kept, OnlyTornRefuses
    <2> QED BY <2>2, <2>3 DEF IInv
  <1>3. CASE ~CanReconcile
    <2>1. art' = art /\ process' = "refused"
      BY <1>3 DEF BootReconcile
    <2>2. HistoryVerified
      BY HistoryIsIntact DEF HistoryIntact, HistoryVerified
    <2>3. PICK b \in Candidates : art[b] = "torn" \/ row[b] \notin {"failed", "interrupted"}
      BY <1>3, <2>2 DEF CanReconcile, Provable, NeverActivated
    <2>4. b \in Builds /\ art[b] # "none" /\ life[target[b]] # "tombstone" /\ ~Committed(b)
      BY DEF Candidates
    <2>5. life[target[b]] \in {"none", "active"}
      BY <2>4 DEF IInv, TypeOK, Tree
    <2>6. row[b] # "success"
      BY <2>4, <2>5 DEF IInv, Rows, Kept, History, RowsTellHistory
    <2>7. row[b] \in {"failed", "interrupted"}
      BY <1>1, <2>4, <2>6 DEF IInv, TypeOK, Rows, Kept
    <2>8. OnlyTornRefuses'
      BY <1>1, <2>1, <2>3, <2>4, <2>6, <2>7 DEF OnlyTornRefuses
    <2>9. TypeOK' /\ Rows' /\ Tree' /\ History'
      BY <1>1, <2>1 DEF IInv, TypeOK, Used, Rows, Tree, Kept, At, History, RowsTellHistory, Committed
    <2> QED BY <2>8, <2>9 DEF IInv
  <1> QED BY <1>2, <1>3

THEOREM Invariance == Spec => []IInv
  <1>1. IInv /\ [Next]_vars => IInv'
    <2> SUFFICES ASSUME IInv, [Next]_vars PROVE IInv'
      OBVIOUS
    <2>1. CASE UNCHANGED vars
      BY <2>1 DEF vars, IInv, TypeOK, Used, Rows, Tree, Kept, At, History, RowsTellHistory,
                  Committed, OnlyTornRefuses
    <2>2. CASE Next
      BY <2>2, StartKeeps, NoChangeKeeps, StageKeeps, RenameKeeps, ActivateKeeps, FailKeeps,
         DeleteKeeps, CleanKeeps, CrashKeeps, BootKeeps, BootReconcileKeeps DEF Next
    <2> QED BY <2>1, <2>2
  <1> QED BY Initially, <1>1, PTL DEF Spec

-----------------------------------------------------------------------------
(* The state keeps its type. *)
THEOREM TypeCorrect == Spec => []TypeOK
  <1>1. IInv => TypeOK
    BY DEF IInv
  <1> QED BY <1>1, Invariance, PTL

(* Every version a live capability ever had is whole on disk, for any number of builds, capabilities
   and crashes. *)
THEOREM HistoryIntactHolds == Spec => []HistoryIntact
  BY HistoryIsIntact, Invariance, PTL

(* A build is recorded as activated exactly when its directory is committed history. *)
THEOREM RowsTellHistoryHolds == Spec => []RowsTellHistory
  <1>1. IInv => RowsTellHistory
    BY DEF IInv, History
  <1> QED BY <1>1, Invariance, PTL

(* Nothing but a half-removed published candidate keeps boot from serving. *)
THEOREM OnlyTornRefusesHolds == Spec => []OnlyTornRefuses
  <1>1. IInv => OnlyTornRefuses
    BY DEF IInv
  <1> QED BY <1>1, Invariance, PTL

(* No step touches committed bytes of a capability that stays live. *)
THEOREM CommittedImmutableHolds == Spec => CommittedImmutable
  <1>1. IInv /\ [Next]_vars
        => [\A b \in Builds : Committed(b) /\ life'[target[b]] = "active" => art'[b] = art[b]]_vars
    <2> SUFFICES ASSUME IInv, Next, NEW b \in Builds, Committed(b), life'[target[b]] = "active"
                 PROVE  art'[b] = art[b]
      OBVIOUS
    <2>1. /\ art[b] \in {"published", "torn"} /\ life[target[b]] = "active" /\ ~Debris(b)
          /\ target[b] \in Capabilities
      BY DEF Committed, Debris, Candidates, IInv, TypeOK
    <2>2. ASSUME NEW d \in Builds, NEW c \in Capabilities, StartNew(d, c) \/ StartEvolution(d, c)
          PROVE  art'[b] = art[b]
      BY <2>1, <2>2, ReconciledIsSafe DEF StartNew, StartEvolution
    <2>3. ASSUME NEW d \in Builds, Stage(d)
          PROVE  art'[b] = art[b]
      BY <2>1, <2>3, ReconciledIsSafe DEF Stage, IInv, TypeOK
    <2>4. ASSUME NEW d \in Builds, NoChange(d) \/ Rename(d) \/ Activate(d) \/ Fail(d) \/ FailUnrecorded(d)
          PROVE  art'[b] = art[b]
      BY <2>1, <2>4 DEF NoChange, Rename, Activate, Fail, FailUnrecorded, IInv, TypeOK
    <2>5. ASSUME NEW c \in Capabilities, Delete(c) \/ Clean(c)
          PROVE  art'[b] = art[b]
      BY <2>1, <2>5 DEF Delete, Clean, IInv, TypeOK
    <2>6. ASSUME CrashWhileReconciling
          PROVE  art'[b] = art[b]
      BY <2>1, <2>6, HalfReconciledIsSafe DEF CrashWhileReconciling
    <2>7. ASSUME Crash \/ Boot \/ BootReconcile
          PROVE  art'[b] = art[b]
      BY <2>1, <2>7, ReconciledIsSafe DEF Crash, Boot, BootReconcile
    <2> QED BY <2>2, <2>3, <2>4, <2>5, <2>6, <2>7 DEF Next
  <1> QED BY <1>1, Invariance, PTL DEF Spec, CommittedImmutable
=============================================================================
