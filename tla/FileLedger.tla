----------------------------- MODULE FileLedger -----------------------------
(***************************************************************************)
(* The life of an uploaded file, in two stores that share no transaction:  *)
(* a row of the file ledger in SQLite (platform/files/store/ledger.ts) and *)
(* bytes in the object store (object-store.ts).  Five parties move them:   *)
(* the upload that mints the key (server/files/upload/upload-route.ts),    *)
(* saves that claim or displace it (runtime/data/access/file-claims.ts,    *)
(* mutation.ts), forms that hand it back (discard-route.ts), the sweep of  *)
(* a desk load (desk-load-sweep.ts), and two erasers that delete bytes:    *)
(* the cleanup worker (file-cleanup.ts), without any lease, and the        *)
(* deletion of the capability (owned-files.ts), which holds it.            *)
(*                                                                         *)
(* All keys belong to one incarnation.  A platform write or a record write *)
(* is one step, taken while no deletion holds the write lease.  An erase   *)
(* that times out may still finish later; a key is never minted twice, so  *)
(* that touches nothing a later step relies on and is left out.  Attempts  *)
(* and passes that threw are counted up to Rungs + 1: past the last retry  *)
(* the code tells no count from another.                                   *)
(***************************************************************************)
EXTENDS Naturals, FiniteSets

CONSTANTS Keys,    \* file keys, minted once
          Rungs,   \* retryDelaysMs.length of the worker
          Faults   \* bound: crashes, and exceptions in the worker

ASSUME FileLedgerAssumption == Rungs \in Nat /\ Faults \in Nat

VARIABLES up,            \* how far the upload of each key has come
          row,           \* its ledger row
          attempts,      \* cleanup_attempts of the row
          staging,       \* bytes under .staging/<key>
          objects,       \* bytes under <key>
          live,          \* the incarnation is active
          manifest,      \* the files its tombstone still owes
          del,           \* a deletion, or a pass over its tombstone, holds the lease
          sweeping,      \* a desk-load sweep waits in the queue of the lease
          todo, half,    \* per eraser: keys to erase, and the one it has erased from staging only
          wiped, failed, \* outcomes of the worker's pass
          pass,          \* the worker's current pass
          owed,          \* the pass asked for while one runs
          waking,        \* a wake() whose setImmediate is still to run
          delayed,       \* keys whose retry delay runs in this process
          timer,         \* a retry timer is armed
          failedPasses,
          unscheduled,   \* history: scheduling the retry after the last pass threw
          process, faults

ledgerVars == <<row, attempts>>
bytesVars  == <<staging, objects>>
ownerVars  == <<live, manifest, del>>
eraseVars  == <<todo, half, wiped, failed>>
ladderVars == <<failedPasses, unscheduled>>
workerVars == <<pass, owed, waking, delayed, timer, ladderVars>>
lifeVars   == <<process, faults>>
vars == <<up, ledgerVars, bytesVars, ownerVars, sweeping, eraseVars, workerVars, lifeVars>>

Erasers == {"worker", "deletion"}

TypeOK ==
    /\ up \in [Keys -> {"idle", "staged", "recorded", "placed", "abandoning", "answered", "over",
                        "lost"}]
    /\ row \in [Keys -> {"none", "pending", "owned", "cleanup_enqueued"}]
    /\ attempts \in [Keys -> 0 .. Rungs + 1]
    /\ staging \subseteq Keys /\ objects \subseteq Keys /\ manifest \subseteq Keys
    /\ {live, del, sweeping, pass, waking, timer, unscheduled} \subseteq BOOLEAN
    /\ todo \in [Erasers -> SUBSET Keys] /\ half \in [Erasers -> SUBSET Keys]
    /\ todo["worker"] # {} => pass
    /\ todo["deletion"] # {} => del
    /\ \A e \in Erasers : half[e] \subseteq todo[e]
    /\ wiped \subseteq Keys /\ failed \subseteq Keys /\ delayed \subseteq Keys
    /\ owed \in {"none", "plain", "forced"}
    /\ failedPasses \in 0 .. Rungs + 1
    /\ process \in {"serving", "down"} /\ faults \in 0 .. Faults

Init ==
    /\ up = [k \in Keys |-> "idle"]
    /\ row = [k \in Keys |-> "none"] /\ attempts = [k \in Keys |-> 0]
    /\ staging = {} /\ objects = {}
    /\ live = TRUE /\ manifest = {} /\ del = FALSE
    /\ sweeping = FALSE
    /\ todo = [e \in Erasers |-> {}] /\ half = [e \in Erasers |-> {}] /\ wiped = {} /\ failed = {}
    /\ pass = FALSE /\ owed = "none" /\ waking = FALSE /\ delayed = {} /\ timer = FALSE
    /\ failedPasses = 0 /\ unscheduled = FALSE
    /\ process = "serving" /\ faults = 0

\* A short write is admitted.
Writes == process = "serving" /\ ~del

Pending == {k \in Keys : row[k] = "pending"}

\* The given keys go to cleanup, and whoever committed that wakes the worker.
Enqueue(keys) ==
    /\ row' = [k \in Keys |-> IF k \in keys THEN "cleanup_enqueued" ELSE row[k]]
    /\ waking' = (waking \/ keys # {})
    /\ UNCHANGED attempts

-----------------------------------------------------------------------------
(* an upload *)

\* stageUnderReadToken: the whole body is in, and the read token goes back.
Stage(k) ==
    /\ process = "serving" /\ live /\ up[k] = "idle"
    /\ up' = [up EXCEPT ![k] = "staged"] /\ staging' = staging \cup {k}
    /\ UNCHANGED <<ledgerVars, objects, ownerVars, sweeping, eraseVars, workerVars, lifeVars>>

\* Refused, or the client left, before its platform write: the staged bytes are discarded.
StopShort(k) ==
    /\ process = "serving" /\ up[k] = "staged"
    /\ up' = [up EXCEPT ![k] = "over"] /\ staging' = staging \ {k}
    /\ UNCHANGED <<ledgerVars, objects, ownerVars, sweeping, eraseVars, workerVars, lifeVars>>

\* recordPendingFile, if the incarnation is still active.
RecordPending(k) ==
    /\ Writes /\ up[k] = "staged"
    /\ IF live
         THEN /\ up' = [up EXCEPT ![k] = "recorded"] /\ row' = [row EXCEPT ![k] = "pending"]
              /\ UNCHANGED staging
         ELSE /\ up' = [up EXCEPT ![k] = "over"] /\ staging' = staging \ {k}
              /\ UNCHANGED row
    /\ UNCHANGED <<attempts, objects, ownerVars, sweeping, eraseVars, workerVars, lifeVars>>

\* staged.place(): one rename, which fails when an eraser was there first.
Place(k) ==
    /\ process = "serving" /\ up[k] = "recorded"
    /\ IF k \in staging
         THEN /\ staging' = staging \ {k} /\ objects' = objects \cup {k}
              /\ up' = [up EXCEPT ![k] = "placed"]
         ELSE /\ up' = [up EXCEPT ![k] = "abandoning"]
              /\ UNCHANGED bytesVars
    /\ UNCHANGED <<ledgerVars, ownerVars, sweeping, eraseVars, workerVars, lifeVars>>

\* It throws, before the rename or after it.
PlaceThrows(k) ==
    /\ process = "serving" /\ up[k] = "recorded"
    /\ \/ UNCHANGED bytesVars
       \/ k \in staging /\ staging' = staging \ {k} /\ objects' = objects \cup {k}
    /\ up' = [up EXCEPT ![k] = "abandoning"]
    /\ UNCHANGED <<ledgerVars, ownerVars, sweeping, eraseVars, workerVars, lifeVars>>

\* Mutation: the upload of a client that has left just ends.
AnswerIgnoringHangUp(k) ==
    /\ process = "serving" /\ up[k] = "placed"
    /\ \E next \in IF row[k] # "pending" THEN {"over"} ELSE {"answered", "over"} :
           up' = [up EXCEPT ![k] = next]
    /\ UNCHANGED <<ledgerVars, bytesVars, ownerVars, sweeping, eraseVars, workerVars, lifeVars>>

\* The last check: the key is handed back only if its row is still pending and somebody listens.
Answer(k) ==
    /\ process = "serving" /\ up[k] = "placed"
    /\ \E next \in IF row[k] # "pending" THEN {"over"} ELSE {"answered", "abandoning"} :
           up' = [up EXCEPT ![k] = next]
    /\ UNCHANGED <<ledgerVars, bytesVars, ownerVars, sweeping, eraseVars, workerVars, lifeVars>>

\* abandon, then the discard in the route's finally.
Abandon(k) ==
    /\ Writes /\ up[k] = "abandoning"
    /\ up' = [up EXCEPT ![k] = "over"]
    /\ Enqueue({k} \cap Pending)
    /\ staging' = staging \ {k}
    /\ UNCHANGED <<objects, ownerVars, sweeping, eraseVars, pass, owed, delayed, timer, ladderVars,
                   lifeVars>>

-----------------------------------------------------------------------------
(* saves, forms and desk loads *)

\* Mutation: any key that has a row will do.
ClaimableWithAnyRow(k) == up[k] = "answered" /\ row[k] # "none"

\* claimRefusal: only a key handed back by an upload and still pending.
Claimable(k) == up[k] = "answered" /\ row[k] = "pending"

\* A committed save claims keys, displaces what its record held, and gives up what its Handler did
\* not claim; a delete displaces only.  One that fails rolls back.
Save(claimed, displaced, unclaimed) ==
    /\ Writes /\ live
    /\ \A k \in claimed : Claimable(k)
    /\ \A k \in displaced : row[k] = "owned"
    /\ unclaimed \subseteq Pending \ claimed /\ \A k \in unclaimed : up[k] = "answered"
    /\ row' = [k \in Keys |-> IF k \in claimed THEN "owned"
                              ELSE IF k \in displaced \cup unclaimed THEN "cleanup_enqueued"
                              ELSE row[k]]
    /\ waking' = TRUE
    /\ UNCHANGED <<up, attempts, bytesVars, ownerVars, sweeping, eraseVars, pass, owed, delayed, timer,
                   ladderVars, lifeVars>>

\* enqueuePendingFiles: a form lets go of keys, some of which may be taken already.
Discard(keys) ==
    /\ Writes /\ \A k \in keys : up[k] = "answered"
    /\ Enqueue(keys \cap Pending)
    /\ UNCHANGED <<up, bytesVars, ownerVars, sweeping, eraseVars, pass, owed, delayed, timer,
                   ladderVars, lifeVars>>

\* The sweep's turn: enqueueAllPendingFiles.
Sweep ==
    /\ Writes /\ sweeping /\ sweeping' = FALSE
    /\ Enqueue(Pending)
    /\ UNCHANGED <<up, bytesVars, ownerVars, eraseVars, pass, owed, delayed, timer, ladderVars,
                   lifeVars>>

-----------------------------------------------------------------------------
(* the cleanup worker *)

Exhausted(k, count) == count[k] > Rungs

\* The queue a pass works on: what is due, and with a desk load or boot the exhausted too.
Owing(rows, count, delays, forced) ==
    {k \in Keys : /\ rows[k] = "cleanup_enqueued"
                  /\ IF Exhausted(k, count) THEN forced ELSE count[k] = 0 \/ k \notin delays}

Begin(rows, count, delays, forced) ==
    /\ pass' = TRUE
    /\ todo' = [todo EXCEPT !["worker"] = Owing(rows, count, delays, forced)]
    /\ wiped' = {} /\ failed' = {} /\ unscheduled' = FALSE
    /\ UNCHANGED half

\* start: begin a pass, or owe one to the pass that runs.
Start(forced) ==
    IF pass
      THEN /\ owed' = IF forced \/ owed = "forced" THEN "forced" ELSE "plain"
           /\ UNCHANGED <<pass, eraseVars, unscheduled>>
      ELSE /\ Begin(row, attempts, delayed, forced)
           /\ UNCHANGED owed

\* The desk loads: the worker is drained, and if a tab loads it, a sweep takes its place.
DeskLoad ==
    /\ process = "serving"
    /\ sweeping' \in {sweeping, sweeping \/ Pending # {}}
    /\ Start(TRUE)
    /\ UNCHANGED <<up, ledgerVars, bytesVars, ownerVars, waking, delayed, timer, failedPasses, lifeVars>>

Wake ==
    /\ process = "serving" /\ waking /\ waking' = FALSE
    /\ Start(FALSE)
    /\ UNCHANGED <<up, ledgerVars, bytesVars, ownerVars, sweeping, delayed, timer, failedPasses, lifeVars>>

\* A timer fires; it may be one that an earlier timer has replaced.
TimerFires ==
    /\ process = "serving" /\ timer /\ timer' \in BOOLEAN
    /\ Start(FALSE)
    /\ UNCHANGED <<up, ledgerVars, bytesVars, ownerVars, sweeping, waking, delayed, failedPasses, lifeVars>>

DelayPasses(k) ==
    /\ k \in delayed /\ delayed' = delayed \ {k}
    /\ UNCHANGED <<up, ledgerVars, bytesVars, ownerVars, sweeping, eraseVars, pass, owed, waking, timer,
                   ladderVars, lifeVars>>

Succeed(e, k) ==
    /\ todo' = [todo EXCEPT ![e] = @ \ {k}]
    /\ wiped' = IF e = "worker" THEN wiped \cup {k} ELSE wiped

\* Mutation: the object goes first.
EraseObjectFirst(e, k) ==
    /\ process = "serving" /\ k \in todo[e]
    /\ \/ /\ half[e] = {} /\ half' = [half EXCEPT ![e] = {k}]
          /\ objects' = objects \ {k}
          /\ UNCHANGED <<staging, todo, wiped>>
       \/ /\ half[e] = {k} /\ half' = [half EXCEPT ![e] = {}]
          /\ staging' = staging \ {k}
          /\ Succeed(e, k)
          /\ UNCHANGED objects
    /\ UNCHANGED <<up, ledgerVars, ownerVars, sweeping, failed, workerVars, lifeVars>>

\* The store's delete: the staged bytes, then the object.
Erase(e, k) ==
    /\ process = "serving" /\ k \in todo[e]
    /\ \/ /\ half[e] = {} /\ half' = [half EXCEPT ![e] = {k}]
          /\ staging' = staging \ {k}
          /\ UNCHANGED <<objects, todo, wiped>>
       \/ /\ half[e] = {k} /\ half' = [half EXCEPT ![e] = {}]
          /\ objects' = objects \ {k}
          /\ Succeed(e, k)
          /\ UNCHANGED staging
    /\ UNCHANGED <<up, ledgerVars, ownerVars, sweeping, failed, workerVars, lifeVars>>

\* It throws or takes too long, and the worker goes on with the next key.
WorkerFails(k) ==
    /\ process = "serving" /\ k \in todo["worker"] /\ half["worker"] \subseteq {k}
    /\ todo' = [todo EXCEPT !["worker"] = @ \ {k}] /\ half' = [half EXCEPT !["worker"] = {}]
    /\ failed' = failed \cup {k}
    /\ UNCHANGED <<up, ledgerVars, bytesVars, ownerVars, sweeping, wiped, workerVars, lifeVars>>

\* Mutation: the pass ends and no retry is scheduled.
SettleSilently(rows, count, delays, thrown) ==
    IF owed # "none"
      THEN /\ owed' = "none" /\ Begin(rows, count, delays, owed = "forced")
           /\ UNCHANGED timer
      ELSE /\ pass' = FALSE /\ wiped' = {} /\ failed' = {}
           /\ UNCHANGED <<timer, owed, todo, half, unscheduled>>

\* settle: the owed pass starts, or a retry is scheduled: for the soonest key that is not exhausted,
\* or after passes that threw on the ladder of those.
Settle(rows, count, delays, thrown) ==
    IF owed # "none"
      THEN /\ owed' = "none" /\ Begin(rows, count, delays, owed = "forced")
           /\ UNCHANGED timer
      ELSE /\ pass' = FALSE /\ wiped' = {} /\ failed' = {}
           /\ todo' = [todo EXCEPT !["worker"] = {}]
           /\ timer' = (timer \/ IF thrown > 0 THEN thrown <= Rungs
                                 ELSE \E k \in Keys : rows[k] = "cleanup_enqueued" /\ ~Exhausted(k, count))
           /\ UNCHANGED <<owed, half, unscheduled>>

PassDone == process = "serving" /\ pass /\ todo["worker"] = {}

\* Mutation: failures are not counted.
RecordSuccesses ==
    /\ PassDone /\ (wiped \cup failed # {} => ~del)
    /\ row' = [k \in Keys |-> IF k \in wiped /\ row[k] = "cleanup_enqueued" THEN "none" ELSE row[k]]
    /\ delayed' = (delayed \ wiped) \cup failed
    /\ failedPasses' = 0
    /\ Settle(row', attempts, delayed', 0)
    /\ UNCHANGED <<up, attempts, bytesVars, ownerVars, sweeping, waking, lifeVars>>

\* record and remember: rows of erased keys go, failures are counted and start their delay.
Recorded ==
    /\ PassDone /\ (wiped \cup failed # {} => ~del)
    /\ row' = [k \in Keys |-> IF k \in wiped /\ row[k] = "cleanup_enqueued" THEN "none" ELSE row[k]]
    /\ attempts' = [k \in Keys |-> IF row'[k] = "none" THEN 0
                                   ELSE IF k \in failed /\ ~Exhausted(k, attempts) THEN attempts[k] + 1
                                   ELSE attempts[k]]
    /\ delayed' = {k \in delayed \ (wiped \cup failed) : row'[k] = "cleanup_enqueued"}
                   \cup {k \in failed : attempts[k] < Rungs /\ row'[k] = "cleanup_enqueued"}
    /\ failedPasses' = 0
    /\ UNCHANGED <<up, bytesVars, ownerVars, sweeping, waking, process>>

\* A pass ends well.
RecordOutcomes ==
    /\ Recorded
    /\ Settle(row', attempts', delayed', 0)
    /\ UNCHANGED faults

\* A pass ends well, but scheduleRetry throws, because the queue cannot be read for the soonest key;
\* settle logs that.  Unless a timer or a wake is there all the same, nobody will start a pass.
RetryUnscheduled ==
    /\ Recorded /\ owed = "none" /\ faults < Faults /\ faults' = faults + 1
    /\ pass' = FALSE /\ wiped' = {} /\ failed' = {}
    /\ unscheduled' = ~(timer \/ waking)
    /\ UNCHANGED <<timer, owed, todo, half>>

\* The queue cannot be read or the outcomes cannot be written: the pass counts nothing and remembers
\* nothing.
PassThrows ==
    /\ process = "serving" /\ pass /\ faults < Faults /\ faults' = faults + 1
    /\ PassDone \/ (wiped \cup failed = {} /\ half["worker"] = {})
    /\ failedPasses' = IF failedPasses > Rungs THEN failedPasses ELSE failedPasses + 1
    /\ Settle(row, attempts, delayed, failedPasses')
    /\ UNCHANGED <<up, ledgerVars, bytesVars, ownerVars, sweeping, waking, delayed, process>>

-----------------------------------------------------------------------------
(* the capability's deletion, and its retries *)

\* The tombstone transaction: every row goes, and the manifest keeps the duty.
Delete ==
    /\ Writes /\ live /\ live' = FALSE /\ del' = TRUE
    /\ manifest' = {k \in Keys : row[k] # "none"}
    /\ todo' = [todo EXCEPT !["deletion"] = manifest'] /\ half' = [half EXCEPT !["deletion"] = {}]
    /\ row' = [k \in Keys |-> "none"] /\ attempts' = [k \in Keys |-> 0] /\ delayed' = {}
    /\ UNCHANGED <<up, bytesVars, sweeping, wiped, failed, pass, owed, waking, timer, ladderVars,
                   lifeVars>>

\* An erase throws or takes too long: the pass over this tombstone ends and the lease goes back.
DeletionFails ==
    /\ process = "serving" /\ del /\ todo["deletion"] # {} /\ del' = FALSE
    /\ todo' = [todo EXCEPT !["deletion"] = {}] /\ half' = [half EXCEPT !["deletion"] = {}]
    /\ UNCHANGED <<up, ledgerVars, bytesVars, live, manifest, sweeping, wiped, failed, workerVars,
                   lifeVars>>

DeletionRetries ==
    /\ Writes /\ manifest # {} /\ del' = TRUE
    /\ todo' = [todo EXCEPT !["deletion"] = manifest] /\ half' = [half EXCEPT !["deletion"] = {}]
    /\ UNCHANGED <<up, ledgerVars, bytesVars, live, manifest, sweeping, wiped, failed, workerVars, lifeVars>>

\* Every entry is erased and the tombstone goes.
DeletionEnds ==
    /\ process = "serving" /\ del /\ todo["deletion"] = {} /\ del' = FALSE
    /\ manifest' = {}
    /\ UNCHANGED <<up, ledgerVars, bytesVars, live, sweeping, eraseVars, workerVars, lifeVars>>

-----------------------------------------------------------------------------
(* the process *)

\* Rows and bytes survive; clients keep the keys they were given.
Crash ==
    /\ process = "serving" /\ process' = "down" /\ faults < Faults /\ faults' = faults + 1
    /\ up' = [k \in Keys |-> IF up[k] \in {"idle", "answered", "over"} THEN up[k] ELSE "lost"]
    /\ del' = FALSE /\ sweeping' = FALSE
    /\ todo' = [e \in Erasers |-> {}] /\ half' = [e \in Erasers |-> {}] /\ wiped' = {} /\ failed' = {}
    /\ pass' = FALSE /\ owed' = "none" /\ waking' = FALSE /\ delayed' = {} /\ timer' = FALSE
    /\ failedPasses' = 0 /\ unscheduled' = FALSE
    /\ UNCHANGED <<ledgerVars, bytesVars, live, manifest>>

\* Boot empties the upload staging, if it can, and drains the worker.
Boot ==
    /\ process = "down" /\ process' = "serving"
    /\ staging' \in {{}, staging}
    /\ Begin(row, attempts, {}, TRUE)
    /\ UNCHANGED <<up, ledgerVars, objects, ownerVars, sweeping, owed, waking, delayed, timer,
                   failedPasses, faults>>

-----------------------------------------------------------------------------
Next ==
    \/ \E k \in Keys : \/ Stage(k) \/ StopShort(k) \/ RecordPending(k) \/ Place(k) \/ PlaceThrows(k)
                       \/ Answer(k) \/ Abandon(k) \/ DelayPasses(k) \/ WorkerFails(k)
                       \/ \E e \in Erasers : (e = "deletion" => del) /\ Erase(e, k)
    \/ \E claimed \in SUBSET Keys, unclaimed \in SUBSET Pending,
          displaced \in SUBSET (Keys \ Pending) : Save(claimed, displaced, unclaimed)
    \/ \E keys \in SUBSET Keys : Discard(keys)
    \/ Sweep \/ DeskLoad \/ Wake \/ TimerFires \/ RecordOutcomes \/ RetryUnscheduled \/ PassThrows
    \/ Delete \/ DeletionFails \/ DeletionRetries \/ DeletionEnds
    \/ Crash \/ Boot

(* Erases return or time out, timers fire, setImmediate runs, a platform write is admitted in its
   turn whoever else keeps coming back (MutationCoordinator's Fifo), and a process that went down is
   started again.  No client has to do anything. *)
Fairness ==
    /\ \A k \in Keys : WF_vars(WorkerFails(k) \/ Erase("worker", k)) /\ WF_vars(DelayPasses(k))
    /\ WF_vars(DeletionFails \/ DeletionEnds)
    /\ SF_vars(RecordOutcomes)
    /\ WF_vars(Wake) /\ WF_vars(TimerFires) /\ WF_vars(Boot)

Spec     == Init /\ [][Next]_vars
FairSpec == Spec /\ Fairness

-----------------------------------------------------------------------------
(* what the ledger promises *)

(* A key that a save may claim or has claimed has its bytes in place: no sweep, discard, eraser,
   late upload or crash takes the file of a saved record. (claimRefusal, the pending tests of every
   enqueue, the order of recordAndPlace) *)
ClaimedIntact ==
    \A k \in Keys : row[k] = "owned" \/ (row[k] = "pending" /\ up[k] = "answered") => k \in objects

(* No bytes are left that nobody will erase: an object has a ledger row or is in the manifest of a
   tombstone, although a late rename races two erasers that hold no common lock. (the row before the
   rename; staging before object in the store's delete) *)
NoOrphanBytes == \A k \in objects : row[k] # "none" \/ k \in manifest

(* An upload that ended without handing its key back leaves no pending row, unless the process died
   under it; nobody else would ever claim or discard it. (abandon) *)
NoPendingLeft == \A k \in Keys : up[k] = "over" => row[k] # "pending"

(* An upload, however it ends, leaves neither bytes nor a row that nobody will look at again. *)
NothingLeftBehind == NoOrphanBytes /\ NoPendingLeft

(* An enqueued key whose retries are not spent is never forgotten: a pass, a wake or a timer will
   reach it, whatever passes were owed, thrown or forced meanwhile.  The exceptions are too many
   passes in a row that threw, and a scheduling of the retry that threw after a good pass; the
   latter lasts only until somebody starts a pass, and is no excuse beside a timer.
   (wake after commit, settle, scheduleRetry) *)
EnqueuedNotForgotten ==
    /\ process = "serving"
       /\ (\E k \in Keys : row[k] = "cleanup_enqueued" /\ ~Exhausted(k, attempts)) =>
           pass \/ waking \/ timer \/ failedPasses > Rungs \/ unscheduled
    /\ unscheduled => ~pass /\ ~timer /\ failedPasses = 0

(* Every enqueued key is erased or runs out of attempts, without a client, unless the passes
   themselves keep throwing or the scheduling of a retry throws. (the ladder of delays) *)
EnqueuedCleaned ==
    \A k \in Keys : row[k] = "cleanup_enqueued" ~>
        row[k] = "none" \/ Exhausted(k, attempts) \/ failedPasses > Rungs \/ unscheduled
=============================================================================
