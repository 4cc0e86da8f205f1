----------------------------- MODULE BuildJobs -----------------------------
(***************************************************************************)
(* The server's side of a prompt: the queue of jobs in memory, the one     *)
(* pipeline a job runs when its stream is opened, from resolving the       *)
(* sentence to the build under its lease or the answer to a question, and  *)
(* the bounded presentation of how it ended. Which sentence it was, what   *)
(* the model says, the stages of a build and the words of a frame are      *)
(* left out: a stage that fails is BuildFails, whichever it was.           *)
(***************************************************************************)
EXTENDS Naturals, Sequences, FiniteSets

CONSTANTS MaxRuns,     \* prompts submitted
          ViewFails    \* whether preparing the view of an evolution just committed may throw

ASSUME RunsAssumption == MaxRuns \in Nat /\ ViewFails \in BOOLEAN

Runs == 1 .. MaxRuns
NoRun == 0

VARIABLES job,         \* "absent", "pending", "running" or "gone" from the queue's map
          cancelled,   \* the job's controller was aborted
          pc,          \* its pipeline: "none", "resolve", "ask", "wait" for the lease, "build",
                       \* "live", "present" its ending, "recover"
          kind,        \* what the resolver made of the sentence, or "none"
          seen,        \* the catalog the sentence was classified against: runs, as active
          row,         \* the lifecycle row of its build: "none", "running", "activated",
                       \* "unchanged", "failed", "interrupted"
          active,      \* runs whose version was committed: the catalog, as far as it changes here
          lease,       \* the run that holds the build lease
          link,        \* the connection its pipeline writes to: "none", "up", "cut", "gone" once
                       \* noticed
          left,        \* frames of the presentation not written yet
          pipe         \* frames on their way to the page, in order

jobVars == <<job, cancelled, pc, kind, seen, link, left>>
platformVars == <<row, active, lease>>
serverVars == <<jobVars, platformVars, pipe>>

Builds == {"new", "evolve"}
Kinds == Builds \cup {"question", "aside"}
Frames == {"open", "answer", "ending", "commit", "unshown", "done"}

\* How a presentation ends a run: the frames it writes, in order.
Restored == <<"done">>
Failed == <<"ending", "done">>
Activated == <<"commit", "done">>
Recovered == <<"unshown", "done">>
Answered == <<"answer", "done">>

JobsInit ==
    /\ job = [j \in Runs |-> "absent"]
    /\ cancelled = [j \in Runs |-> FALSE]
    /\ pc = [j \in Runs |-> "none"]
    /\ kind = [j \in Runs |-> "none"]
    /\ seen = [j \in Runs |-> {}]
    /\ row = [j \in Runs |-> "none"]
    /\ active = {}
    /\ lease = NoRun
    /\ link = [j \in Runs |-> "none"]
    /\ left = [j \in Runs |-> <<>>]
    /\ pipe = [j \in Runs |-> <<>>]

\* canPresent: the reader's going away has not been noticed. isAborted: it has, or she cancelled.
CanPresent(j) == link[j] # "gone"
Aborted(j) == cancelled[j] \/ ~CanPresent(j)

-----------------------------------------------------------------------------
(* The queue. *)

Pending == {j \in Runs : job[j] = "pending"}

\* Pending jobs older than their minute leave the map: any of them may be, whenever it is looked at.
Pruned(old) == [j \in Runs |-> IF j \in old /\ job[j] = "pending" THEN "gone" ELSE job[j]]

Create(j, old) ==
    /\ job[j] = "absent"
    /\ job' = [Pruned(old) EXCEPT ![j] = "pending"]
    /\ UNCHANGED <<cancelled, pc, kind, seen, link, left, platformVars, pipe>>

\* POST /build/:id/cancel: 404 for a job no longer in the map.
Cancel(j) ==
    /\ cancelled' = [cancelled EXCEPT ![j] = @ \/ job[j] \in {"pending", "running"}]
    /\ UNCHANGED <<job, pc, kind, seen, link, left, platformVars, pipe>>

\* Mutation: a second stream of a running job runs its pipeline again.
StreamTwice(j, old, connection) ==
    LET jobs == Pruned(old) IN
    IF jobs[j] \in {"pending", "running"}
      THEN /\ job' = [jobs EXCEPT ![j] = "running"]
           /\ pc' = [pc EXCEPT ![j] = "resolve"]
           /\ seen' = [seen EXCEPT ![j] = active]
           /\ link' = [link EXCEPT ![j] = connection]
           /\ pipe' = [pipe EXCEPT ![j] = <<>>]
           /\ UNCHANGED <<cancelled, kind, left, platformVars>>
      ELSE /\ job' = jobs
           /\ pipe' = [pipe EXCEPT ![j] = IF connection = "up" THEN <<"done">> ELSE <<>>]
           /\ UNCHANGED <<cancelled, pc, kind, seen, link, left, platformVars>>

\* Mutation: a stream of a job that is gone ends without a word.
StreamSilent(j, old, connection) ==
    LET jobs == Pruned(old) IN
    IF jobs[j] = "pending"
      THEN /\ job' = [jobs EXCEPT ![j] = "running"]
           /\ pc' = [pc EXCEPT ![j] = "resolve"]
           /\ seen' = [seen EXCEPT ![j] = active]
           /\ link' = [link EXCEPT ![j] = connection]
           /\ pipe' = [pipe EXCEPT ![j] = <<>>]
           /\ UNCHANGED <<cancelled, kind, left, platformVars>>
      ELSE /\ job' = jobs
           /\ pipe' = [pipe EXCEPT ![j] = IF connection = "up" /\ jobs[j] = "running"
                                          THEN <<"done">> ELSE <<>>]
           /\ UNCHANGED <<cancelled, pc, kind, seen, link, left, platformVars>>

\* GET /build/:id/stream. A pending job starts its pipeline, which reads the catalog at once; a job
\* that runs already answers done=error and one that is gone done=missing.
Stream(j, old, connection) ==
    LET jobs == Pruned(old) IN
    IF jobs[j] = "pending"
      THEN /\ job' = [jobs EXCEPT ![j] = "running"]
           /\ pc' = [pc EXCEPT ![j] = "resolve"]
           /\ seen' = [seen EXCEPT ![j] = active]
           /\ link' = [link EXCEPT ![j] = connection]
           /\ pipe' = [pipe EXCEPT ![j] = <<>>]
           /\ UNCHANGED <<cancelled, kind, left, platformVars>>
      ELSE /\ job' = jobs
           /\ pipe' = [pipe EXCEPT ![j] = IF connection = "up" THEN <<"done">> ELSE <<>>]
           /\ UNCHANGED <<cancelled, pc, kind, seen, link, left, platformVars>>

\* The pipeline of j is over: the job leaves the map and what it held with it.
Over(j, held) ==
    /\ job' = [job EXCEPT ![j] = "gone"]
    /\ cancelled' = [cancelled EXCEPT ![j] = FALSE]
    /\ pc' = [pc EXCEPT ![j] = "none"]
    /\ kind' = [kind EXCEPT ![j] = "none"]
    /\ seen' = [seen EXCEPT ![j] = {}]
    /\ link' = [link EXCEPT ![j] = "none"]
    /\ left' = [left EXCEPT ![j] = <<>>]
    /\ lease' = IF held = j THEN NoRun ELSE held

\* Present how j ended, under the lease if j holds it; with nobody left to tell, it is over.
Present(j, frames, held) ==
    IF CanPresent(j)
      THEN /\ pc' = [pc EXCEPT ![j] = "present"]
           /\ left' = [left EXCEPT ![j] = frames]
           /\ kind' = [kind EXCEPT ![j] = "none"]
           /\ seen' = [seen EXCEPT ![j] = {}]
           /\ lease' = held
           /\ UNCHANGED <<job, cancelled, link>>
      ELSE Over(j, held)

\* A cancelled run gives the view back in silence, where another says that it failed.
Ending(j) == IF Aborted(j) THEN Restored ELSE Failed

\* Write a frame: it reaches only a connection that is up.
Sent(j, frame) == [pipe EXCEPT ![j] = IF link[j] = "up" THEN Append(@, frame) ELSE @]

-----------------------------------------------------------------------------
(* The pipeline. *)

\* The sentence is a build's: reserve the lease. A question opens its window and starts reading.
\* Anything else is said and the view given back.
Resolve(j, as) ==
    /\ pc[j] = "resolve"
    /\ CASE as \in Builds ->
              /\ pc' = [pc EXCEPT ![j] = "wait"]
              /\ kind' = [kind EXCEPT ![j] = as]
              /\ UNCHANGED <<job, cancelled, seen, link, left, lease, pipe>>
         [] as = "question" /\ CanPresent(j) ->
              /\ pc' = [pc EXCEPT ![j] = "ask"]
              /\ kind' = [kind EXCEPT ![j] = as]
              /\ pipe' = Sent(j, "open")
              /\ UNCHANGED <<job, cancelled, seen, link, left, lease>>
         [] OTHER -> Present(j, Restored, lease) /\ UNCHANGED pipe
    /\ UNCHANGED <<row, active>>

ResolveFails(j) ==
    /\ pc[j] = "resolve"
    /\ Present(j, Ending(j), lease)
    /\ UNCHANGED <<row, active, pipe>>

\* The question's loop came back, answered, unfinished or cancelled.
Asked(j) ==
    /\ pc[j] = "ask"
    /\ Present(j, IF cancelled[j] THEN Restored ELSE Answered, lease)
    /\ UNCHANGED <<row, active, pipe>>

\* The reservation was cancelled with the job, or expired in the queue.
WaitEnds(j) ==
    /\ pc[j] = "wait"
    /\ Present(j, Ending(j), lease)
    /\ UNCHANGED <<row, active, pipe>>

\* Mutation: the head of the lease is not checked against what was read.
AdmitUnrevalidated(j) ==
    /\ pc[j] = "wait" /\ ~Aborted(j) /\ lease = NoRun
    /\ row' = [row EXCEPT ![j] = "running"]
    /\ pc' = [pc EXCEPT ![j] = "build"]
    /\ lease' = j
    /\ UNCHANGED <<job, cancelled, kind, seen, link, left, active, pipe>>

\* The lease is granted and the request checked against the registry at its head: refused as stale,
\* with a row of its own, if the catalog moved since the sentence was read, or admitted.
Admit(j) ==
    /\ pc[j] = "wait" /\ ~Aborted(j) /\ lease = NoRun
    /\ IF seen[j] # active
         THEN /\ row' = [row EXCEPT ![j] = "failed"]
              /\ Present(j, Failed, j)
         ELSE /\ row' = [row EXCEPT ![j] = "running"]
              /\ pc' = [pc EXCEPT ![j] = "build"]
              /\ lease' = j
              /\ UNCHANGED <<job, cancelled, kind, seen, link, left>>
    /\ UNCHANGED <<active, pipe>>

\* A stage threw, a write was not read in time, or the run was found aborted: the row is closed first.
BuildFails(j) ==
    /\ pc[j] = "build"
    /\ row' = [row EXCEPT ![j] = "failed"]
    /\ Present(j, Ending(j), lease)
    /\ UNCHANGED <<active, pipe>>

\* An evolution whose candidate differs in nothing.
NothingToChange(j) ==
    /\ pc[j] = "build" /\ kind[j] = "evolve" /\ ~Aborted(j)
    /\ row' = [row EXCEPT ![j] = "unchanged"]
    /\ Present(j, Failed, lease)
    /\ UNCHANGED <<active, pipe>>

\* The activation's COMMIT: registry, DDL and row together, unless aborted by then.
Activate(j) ==
    /\ pc[j] = "build" /\ ~Aborted(j)
    /\ row' = [row EXCEPT ![j] = "activated"]
    /\ active' = active \cup {j}
    /\ pc' = [pc EXCEPT ![j] = "live"]
    /\ seen' = [seen EXCEPT ![j] = {}]
    /\ UNCHANGED <<job, cancelled, kind, link, left, lease, pipe>>

\* Mutation: a version committed just before the cancel is told as a cancelled build.
PresentLiveCancelled(j) ==
    /\ pc[j] = "live"
    /\ Present(j, IF cancelled[j] THEN Failed ELSE Activated, lease)
    /\ UNCHANGED <<row, active, pipe>>

\* What is live is shown. A first version whose view could not be prepared, and an evolution
\* cancelled meanwhile, are told as ready but not shown. An evolution whose view throws rejects its
\* one delivery: the lease is given up and the pipeline's last catch tells a failure.
PresentLive(j) ==
    /\ pc[j] = "live"
    /\ \/ /\ kind[j] = "new" \/ ~cancelled[j]
          /\ Present(j, Activated, lease)
       \/ /\ kind[j] = "new" \/ cancelled[j]
          /\ Present(j, Recovered, lease)
       \/ /\ kind[j] = "evolve" /\ ~cancelled[j] /\ ViewFails
          /\ Present(j, Failed, NoRun)
    /\ UNCHANGED <<row, active, pipe>>

-----------------------------------------------------------------------------
(* The presentation, bounded in time. *)

SendFrame(j) ==
    /\ pc[j] \in {"present", "recover"}
    /\ pipe' = Sent(j, Head(left[j]))
    /\ IF Len(left[j]) = 1
         THEN Over(j, lease)
         ELSE /\ left' = [left EXCEPT ![j] = Tail(@)]
              /\ UNCHANGED <<job, cancelled, pc, kind, seen, link, lease>>
    /\ UNCHANGED <<row, active>>

\* The bound ran out on a frame nobody read: no further frame is written, except once more for a
\* live version that was not shown.
TimesOut(j) ==
    /\ pc[j] \in {"present", "recover"}
    /\ IF pc[j] = "present" /\ j \in active /\ left[j] # Recovered /\ CanPresent(j)
         THEN /\ pc' = [pc EXCEPT ![j] = "recover"]
              /\ left' = [left EXCEPT ![j] = Recovered]
              /\ UNCHANGED <<job, cancelled, kind, seen, link, lease>>
         ELSE Over(j, lease)
    /\ UNCHANGED <<row, active, pipe>>

\* The transport finds out that its reader is gone.
Notices(j) ==
    /\ link[j] = "cut"
    /\ link' = [link EXCEPT ![j] = "gone"]
    /\ UNCHANGED <<job, cancelled, pc, kind, seen, left, platformVars, pipe>>

-----------------------------------------------------------------------------
\* The process dies with its jobs, and its next start closes the rows it left running.
Restart ==
    /\ job' = [j \in Runs |-> IF job[j] = "absent" THEN "absent" ELSE "gone"]
    /\ cancelled' = [j \in Runs |-> FALSE]
    /\ pc' = [j \in Runs |-> "none"]
    /\ kind' = [j \in Runs |-> "none"]
    /\ seen' = [j \in Runs |-> {}]
    /\ link' = [j \in Runs |-> "none"]
    /\ left' = [j \in Runs |-> <<>>]
    /\ lease' = NoRun
    /\ row' = [j \in Runs |-> IF row[j] = "running" THEN "interrupted" ELSE row[j]]
    /\ pipe' = [j \in Runs |-> <<>>]
    /\ UNCHANGED active

Work(j) ==
    \/ ResolveFails(j) \/ \E as \in Kinds : Resolve(j, as)
    \/ Asked(j) \/ WaitEnds(j) \/ Admit(j)
    \/ BuildFails(j) \/ NothingToChange(j) \/ Activate(j) \/ PresentLive(j)
    \/ SendFrame(j) \/ TimesOut(j)

-----------------------------------------------------------------------------
(* What the page, the registry and the metrics say of a run, as far as the server goes: a version
   is live exactly when its row says so, and a row runs only under the lease. *)
RowsTellTheRegistry ==
    \A j \in Runs : /\ j \in active <=> row[j] = "activated"
                    /\ row[j] = "running" => lease = j /\ pc[j] = "build"

(* A version is committed only against the catalog its sentence was read against, however long its
   build waited for the lease (revalidateResolvedRequest): classification, queue and build are one
   read-modify-write of the registry. *)
BuildsOnWhatItRead ==
    [][\A j \in active' \ active : seen[j] = active]_serverVars
=============================================================================
