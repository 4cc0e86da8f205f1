--------------------------- MODULE DeletionCleanup ---------------------------
(***************************************************************************)
(* The retry of owed deletion cleanup: the class                           *)
(* DeletionCleanupSupervisor of                                            *)
(* src/lifecycle/deletion/destruction/cleanup-supervisor.ts, with the      *)
(* three callers that ask it for a pass (a deletion whose own cleanup      *)
(* failed, a desk load, and boot) and the write lease all of them share.   *)
(*                                                                         *)
(* A tombstone is one deleted incarnation.  The attempts column grows      *)
(* without bound in the code, but only its comparison with the number of   *)
(* rungs and its rung on the ladder are ever read, so here it saturates at *)
(* Rungs.  stop() has no caller outside tests and is left out.             *)
(***************************************************************************)
EXTENDS Naturals, FiniteSets

CONSTANTS Tombstones,  \* incarnations that may be deleted
          Rungs,       \* retryDelaysMs.length
          Faults,     \* bound: how often the process goes down or an exception is thrown
          Nobody        \* no deletion under way

ASSUME RungsAssumption == Rungs \in Nat \ {0} /\ Faults \in Nat /\ Nobody \notin Tombstones

VARIABLES live,       \* incarnations not deleted yet
          owed,       \* tombstones in the registry
          attempts,   \* deletion_cleanup_attempts of each
          lease,      \* who holds the write lease
          inline,     \* the tombstone a deletion is cleaning itself, or Nobody
          asking,     \* a deletion answered cleanup_pending and is about to request a retry
          pass,       \* where runOnce stands ("off" is running = FALSE)
          due,        \* tombstones the pass has listed and not reached
          failed,     \* tombstones the pass could not clean
          scheduled, retryOwed,
          chained,    \* the requestRetry that follows a pass is still to run
          lost,       \* history: owed tombstones whose retry an exception took, nobody asked since
          process,    \* "down", "booting" or "serving"
          faults     \* how often that has happened

cleanupVars == <<live, owed, attempts, lease, inline, asking, pass, due, failed, scheduled,
                 retryOwed, chained, lost, process, faults>>
durable    == <<live, owed, attempts>>
thePass    == <<pass, due, failed>>
supervisor == <<scheduled, retryOwed, lost>>

CleanupTypeOK ==
    /\ live \subseteq Tombstones /\ owed \subseteq Tombstones \ live
    /\ attempts \in [Tombstones -> 0 .. Rungs]
    /\ lease \in {"free", "deletion", "pass", "other"}
    /\ inline \in owed \cup {Nobody}
    /\ pass \in {"off", "queued", "cleaning", "ending"}
    /\ due \subseteq Tombstones /\ failed \subseteq Tombstones /\ lost \subseteq owed
    /\ {asking, scheduled, retryOwed, chained} \subseteq BOOLEAN
    /\ process \in {"down", "booting", "serving"}
    /\ faults \in 0 .. Faults

CleanupInit ==
    /\ live = Tombstones /\ owed = {}
    /\ attempts = [t \in Tombstones |-> 0]
    /\ lease = "free" /\ inline = Nobody /\ asking = FALSE
    /\ pass = "off" /\ due = {} /\ failed = {}
    /\ scheduled = FALSE /\ retryOwed = FALSE /\ chained = FALSE /\ lost = {}
    /\ process = "serving" /\ faults = 0

-----------------------------------------------------------------------------
(* asking for a pass *)

running == pass # "off"
Exhausted(t) == attempts[t] >= Rungs
Patient == {t \in owed : ~Exhausted(t)}

\* scheduleRetry: one timer at a time, none while a pass is in flight.
ScheduleRetry(outstanding) ==
    IF scheduled \/ outstanding = {}
      THEN UNCHANGED supervisor
      ELSE /\ IF running THEN retryOwed' = TRUE /\ UNCHANGED scheduled
                         ELSE scheduled' = TRUE /\ UNCHANGED retryOwed
           /\ lost' = {}

\* executeCapabilityDeletion after a deletion whose cleanup failed.
RequestRetry ==
    /\ asking /\ asking' = FALSE
    /\ ScheduleRetry(Patient)
    /\ UNCHANGED <<durable, lease, inline, thePass, chained, process, faults>>

\* A desk load presses forceRetry, which asks for the exhausted tombstones too.
DeskLoad ==
    /\ process = "serving"
    /\ ScheduleRetry(owed)
    /\ UNCHANGED <<durable, lease, inline, asking, thePass, chained, process, faults>>

-----------------------------------------------------------------------------
(* a pass *)

\* The timer fires: runOnce takes its place in the queue of the write lease.
TimerFires ==
    /\ scheduled /\ scheduled' = FALSE
    /\ pass = "off" /\ pass' = "queued"
    /\ UNCHANGED <<durable, lease, inline, asking, due, failed, retryOwed, chained, lost, process,
                   faults>>

\* Mutation: the pass does not wait for the lease.
PassAdmittedAtOnce ==
    /\ pass = "queued" /\ pass' = "cleaning"
    /\ due' = owed /\ failed' = {}
    /\ UNCHANGED <<durable, lease, inline, asking, scheduled, retryOwed, chained, lost, process,
                   faults>>

\* The lease is granted and the tombstones are listed under it.
PassAdmitted ==
    /\ pass = "queued" /\ pass' = "cleaning"
    /\ lease = "free" /\ lease' = "pass"
    /\ due' = owed /\ failed' = {}
    /\ UNCHANGED <<durable, inline, asking, scheduled, retryOwed, chained, lost, process, faults>>

\* cleanTombstone discharges every entry and removes the row, or fails and leaves it whole.
CleanOne(t) ==
    /\ pass = "cleaning" /\ t \in due
    /\ due' = due \ {t}
    /\ \/ owed' = owed \ {t} /\ UNCHANGED failed
       \/ failed' = failed \cup {t} /\ UNCHANGED owed
    /\ UNCHANGED <<live, attempts, lease, inline, asking, pass, supervisor, chained, process,
                   faults>>

\* Mutation: failures are reported but not counted.
CountFailuresNot ==
    /\ pass = "cleaning" /\ due = {} /\ pass' = "ending"
    /\ lease' = "free"
    /\ UNCHANGED <<durable, inline, asking, due, failed, supervisor, chained, process, faults>>

\* recordCapabilityDeletionCleanupFailure for each of the given tombstones.
Counting(ts) == attempts' = [t \in Tombstones |-> IF t \in ts /\ ~Exhausted(t) THEN attempts[t] + 1
                                                                              ELSE attempts[t]]

\* Every failure is counted on its tombstone and the lease is released.
CountFailures ==
    /\ pass = "cleaning" /\ due = {} /\ pass' = "ending"
    /\ Counting(failed)
    /\ lease' = "free"
    /\ UNCHANGED <<live, owed, inline, asking, due, failed, supervisor, chained, process, faults>>

\* runOnce's finally: running falls, and an ask that was told to wait is passed on to requestRetry.
Honour ==
    IF retryOwed
      THEN /\ retryOwed' = FALSE
           /\ scheduled' = (scheduled \/ Patient # {})
           /\ lost' = IF Patient = {} THEN lost ELSE {}
      ELSE UNCHANGED supervisor

\* Mutation: nothing is chained after the pass.
PassEndsAlone ==
    /\ pass = "ending" /\ pass' = "off"
    /\ Honour
    /\ UNCHANGED <<durable, lease, inline, asking, due, failed, chained, process, faults>>

\* The pass ends and its caller is due to ask for the next one.
PassEnds ==
    /\ pass = "ending" /\ pass' = "off"
    /\ Honour
    /\ chained' = TRUE
    /\ UNCHANGED <<durable, lease, inline, asking, due, failed, process, faults>>

\* An exception took a retry away.  Unless a timer, a pass or another ask is there all the same,
\* nobody will come for what is owed until somebody asks again.
Losing ==
    lost' = IF scheduled' \/ pass' # "off" \/ chained' \/ asking' THEN lost
                                                                ELSE Patient' \ {inline'}

\* The registry cannot be read when the pass is admitted, cannot be written when it counts its
\* failures, or cannot be read by the requestRetry of its finally: runOnce rejects and no retry is
\* chained.  At boot the exception ends the process instead (GoesDown).
PassThrows ==
    /\ process = "serving" /\ faults < Faults /\ faults' = faults + 1
    /\ UNCHANGED <<live, owed, inline, asking, chained, process>>
    /\ \/ pass = "queued" /\ lease = "free" /\ UNCHANGED <<attempts, lease>>
       \/ /\ pass = "cleaning" /\ due = {} /\ lease' = "free"
          /\ \E ts \in SUBSET failed : Counting(ts)
       \/ pass = "ending" /\ retryOwed /\ UNCHANGED <<attempts, lease>>
    /\ pass' = "off" /\ due' = {} /\ failed' = {}
    /\ retryOwed' = FALSE
    /\ \/ UNCHANGED scheduled
       \/ pass # "ending" /\ scheduled' = (scheduled \/ (retryOwed /\ Patient' # {}))
    /\ Losing

\* requestRetry reads the registry itself.  When that throws, the ask is gone:
\* executeCapabilityDeletion tells the user that cleanup is pending, the chain after a pass logs.
\* (A desk load that throws changes nothing.)
AskThrows ==
    /\ faults < Faults /\ faults' = faults + 1
    /\ \/ asking /\ asking' = FALSE /\ UNCHANGED chained
       \/ chained /\ process = "serving" /\ chained' = FALSE /\ UNCHANGED asking
    /\ UNCHANGED <<durable, lease, inline, thePass, scheduled, retryOwed, process>>
    /\ Losing

\* The requestRetry chained after every pass, the one at boot included, which then serves.
Chain ==
    /\ chained /\ chained' = FALSE
    /\ ScheduleRetry(Patient)
    /\ process' = "serving"
    /\ UNCHANGED <<durable, lease, inline, asking, thePass, faults>>

-----------------------------------------------------------------------------
(* deletions, the other users of the lease, and the process *)

\* A deletion takes the lease only if nobody holds it or queues for it.
DeletionAdmitted(t) ==
    /\ process = "serving" /\ t \in live
    /\ lease = "free" /\ pass # "queued" /\ lease' = "deletion"
    /\ live' = live \ {t} /\ owed' = owed \cup {t} /\ inline' = t
    /\ UNCHANGED <<attempts, asking, thePass, supervisor, chained, process, faults>>

\* Its own cleanup discharges the tombstone, or leaves it for the supervisor without counting.
DeletionEnds ==
    /\ inline # Nobody /\ inline' = Nobody /\ lease' = "free"
    /\ \/ owed' = owed \ {inline} /\ UNCHANGED asking
       \/ asking' = TRUE /\ UNCHANGED owed
    /\ UNCHANGED <<live, attempts, thePass, supervisor, chained, process, faults>>

\* The deletion throws once its tombstone is committed: the read gate is not retired or the
\* tombstone cannot be read back.  executeCapabilityDeletion tells the user that cleanup is pending
\* (postcommit_failure), and asks nobody for it.
DeletionThrows ==
    /\ inline # Nobody /\ inline' = Nobody /\ lease' = "free"
    /\ faults < Faults /\ faults' = faults + 1
    /\ UNCHANGED <<durable, asking, thePass, scheduled, retryOwed, chained, process>>
    /\ Losing

\* Builds, record writes and other platform writes.  Whoever queued before the pass is part of the
\* holder it waits for; nobody passes it.
OtherTakes ==
    /\ process = "serving" /\ lease = "free" /\ pass # "queued" /\ lease' = "other"
    /\ UNCHANGED <<durable, inline, asking, thePass, supervisor, chained, process, faults>>
OtherReleases ==
    /\ lease = "other" /\ lease' = "free"
    /\ UNCHANGED <<durable, inline, asking, thePass, supervisor, chained, process, faults>>

\* Only the registry survives.
GoesDown ==
    /\ process # "down" /\ faults < Faults
    /\ process' = "down" /\ faults' = faults + 1
    /\ lease' = "free" /\ inline' = Nobody /\ asking' = FALSE
    /\ pass' = "off" /\ due' = {} /\ failed' = {}
    /\ scheduled' = FALSE /\ retryOwed' = FALSE /\ chained' = FALSE /\ lost' = {}
    /\ UNCHANGED durable

\* Boot runs one pass before it serves.
Boot ==
    /\ process = "down" /\ process' = "booting"
    /\ pass' = "queued"
    /\ UNCHANGED <<durable, lease, inline, asking, due, failed, supervisor, chained, faults>>

-----------------------------------------------------------------------------
PassStep == \/ TimerFires \/ PassAdmitted \/ CountFailures \/ PassEnds \/ Chain
            \/ \E t \in Tombstones : CleanOne(t)

CleanupNext ==
    \/ RequestRetry \/ DeskLoad
    \/ PassStep \/ PassThrows \/ AskThrows
    \/ \E t \in Tombstones : DeletionAdmitted(t)
    \/ DeletionEnds \/ DeletionThrows \/ OtherTakes \/ OtherReleases
    \/ GoesDown \/ Boot

(* Timers fire, passes and requests run on, holders release.  Nobody has to load the desk. *)
CleanupFairness ==
    /\ WF_cleanupVars(PassStep) /\ WF_cleanupVars(RequestRetry)
    /\ WF_cleanupVars(DeletionEnds) /\ WF_cleanupVars(OtherReleases)
    /\ WF_cleanupVars(Boot)

CleanupSpec     == CleanupInit /\ [][CleanupNext]_cleanupVars
CleanupFairSpec == CleanupSpec /\ CleanupFairness

-----------------------------------------------------------------------------
(* what the supervisor promises *)

(* No owed cleanup is forgotten: while the backoff of a tombstone is not spent, a timer, a pass, a
   deletion still at it or an ask on its way will reach it, whatever order the asks, the passes, the
   exceptions and the restarts came in.  The exceptions are those tombstones whose retry was lost to
   a throw: of a deletion past its commit, of the requestRetry that follows a deletion or a pass, or
   of the pass itself.  And those are really on their own, so that the next ask, from whomever,
   schedules a pass for them too.
   (scheduleRetry, runOnce's finally, the chain after a timer, executeCapabilityDeletion's catch) *)
NothingForgotten ==
    /\ process # "down" /\ Patient \ (lost \cup {inline}) # {} =>
           scheduled \/ running \/ chained \/ asking
    /\ lost # {} => lost \subseteq Patient /\ ~scheduled /\ ~running /\ ~chained

(* Nobody else deletes what a pass has listed: the tombstone it is about to remove is still there,
   also with a deletion cleaning at the same time. (the platform lease around a pass) *)
CleanerFindsTombstone ==
    /\ pass = "cleaning" => due \subseteq owed
    /\ inline # Nobody => inline \notin due

(* What is owed is neither forgotten nor cleaned by two. *)
OwedToOne == NothingForgotten /\ CleanerFindsTombstone

(* Every owed cleanup is discharged or runs out of attempts, without anybody asking again, unless
   an exception took its retry: a throw of its deletion past the commit, of requestRetry or of a
   pass.  (the retry ladder) *)
BackoffEnds ==
    \A t \in Tombstones : t \in owed ~> t \notin owed \/ Exhausted(t) \/ t \in lost
=============================================================================
