---------------------------- MODULE QuestionScope ----------------------------
(***************************************************************************)
(* Questions over the whole catalog: withWholeCatalogReadScope of          *)
(* src/runtime/query/scope/whole-catalog-read-scope.ts, the worker thread  *)
(* of worker/query-worker.ts it reads through, and the loop that asks.     *)
(*                                                                         *)
(* A question is a reader of ReadGates that owns every active incarnation. *)
(* Its body thinks (a generation), posts one read at a time to a thread    *)
(* that may never answer, and is ended early by a closing gate or by the   *)
(* person.  A cancel reclaims the waiting at once, whatever the thread     *)
(* does; the tokens go back only when the body has left.                   *)
(***************************************************************************)
EXTENDS ReadGates, Naturals

CONSTANTS Questions,   \* the readers that are questions
          StepBudget   \* QUESTION_STEP_BUDGET: reads and refused decisions of one question

ASSUME QuestionsAssumption == Questions \subseteq Readers
ASSUME BudgetAssumption == StepBudget \in Nat

VARIABLES body,       \* where the scope's body stands
          worker,     \* the query worker and its thread
          read,       \* the awaited read
          cancelled,  \* cancellation is set and its signal aborted
          over,       \* the body has settled and its worker was closed
          steps       \* the loop's steps

questionVars == <<body, worker, read, cancelled, over, steps>>

QuestionTypeOK ==
    /\ TypeOK
    /\ body \in [Questions -> {"none", "thinking", "reading", "leaving"}]
    /\ worker \in [Questions -> {"none", "opening", "open", "broken", "closed"}]
    /\ read \in [Questions -> {"none", "asked", "posted", "rows", "refused", "rejected"}]
    /\ cancelled \in [Questions -> BOOLEAN]
    /\ over \in [Questions -> BOOLEAN]
    /\ steps \in [Questions -> 0 .. StepBudget]

QuestionInit ==
    /\ Init
    /\ body = [q \in Questions |-> "none"]
    /\ worker = [q \in Questions |-> "none"]
    /\ read = [q \in Questions |-> "none"]
    /\ cancelled = [q \in Questions |-> FALSE]
    /\ over = [q \in Questions |-> FALSE]
    /\ steps = [q \in Questions |-> 0]

-----------------------------------------------------------------------------
(* the thread and its end *)

\* Mutation: the thread is terminated and the reads waiting for it are not rejected.
ClosedReadLeftWaiting(q) == read[q]

\* What becomes of the awaited read when the worker ends: every pending request is rejected.
ClosedRead(q) == IF read[q] \in {"asked", "posted"} THEN "rejected" ELSE read[q]

ClosedWorker(q) == IF worker[q] = "none" THEN "none" ELSE "closed"

\* Mutation: cancelling only aborts the signal.
CancelSignalOnly(told) ==
    /\ cancelled' = [q \in Questions |-> cancelled[q] \/ q \in told]
    /\ UNCHANGED <<worker, read>>

\* cancel: the signal aborts, the thread is terminated, the awaited read rejects.
Cancelling(told) ==
    /\ cancelled' = [q \in Questions |-> cancelled[q] \/ q \in told]
    /\ worker' = [q \in Questions |-> IF q \in told THEN ClosedWorker(q) ELSE worker[q]]
    /\ read' = [q \in Questions |-> IF q \in told THEN ClosedRead(q) ELSE read[q]]

\* The gate's listener, on until the body settles: whoever a step of the gates tells is cancelled
\* in that step.
Told == {q \in Questions : rphase[q] = "owned" /\ ~over[q] /\ ~signalled[q] /\ signalled'[q]}

Elsewhere == Cancelling(Told) /\ UNCHANGED <<body, over, steps>>

\* assertQuestionLive
Live(q) == ~signalled[q] /\ ~cancelled[q]

-----------------------------------------------------------------------------
(* one question *)

\* The scope opens over the whole active catalog, or the question is refused having acquired
\* nothing; a job aborted before its question began cancels it at once.
Ask(q) ==
    /\ body[q] = "none"
    /\ AcquireAll(q)
    /\ \E aborted \in BOOLEAN :
          IF rphase'[q] = "owned"
            THEN /\ body' = [body EXCEPT ![q] = "thinking"]
                 /\ cancelled' = [cancelled EXCEPT ![q] = aborted]
                 /\ UNCHANGED <<worker, read, over, steps>>
            ELSE UNCHANGED questionVars

\* The person asks something else or dismisses the answer; the listener is off once the loop ends.
Cancel(q) ==
    /\ body[q] \in {"thinking", "reading"}
    /\ ~cancelled[q]
    /\ Cancelling({q})
    /\ UNCHANGED <<vars, body, over, steps>>

\* Mutation: the read reaches the worker without asking whether the question still lives.
ReadUnchecked(q) ==
    /\ body[q] = "thinking" /\ steps[q] < StepBudget
    /\ body' = [body EXCEPT ![q] = "reading"]
    /\ worker' = [worker EXCEPT ![q] = IF worker[q] \in {"none", "closed"} THEN "opening" ELSE @]
    /\ read' = [read EXCEPT ![q] = CASE worker[q] = "open" -> "posted"
                                     [] worker[q] = "broken" -> "rejected"
                                     [] OTHER -> "asked"]
    /\ UNCHANGED <<vars, cancelled, over, steps>>

\* scope.read: refused once the question is over; the worker starts on the first statement, and a
\* dead one rejects.
Read(q) ==
    /\ body[q] = "thinking" /\ steps[q] < StepBudget
    /\ IF Live(q)
         THEN /\ body' = [body EXCEPT ![q] = "reading"]
              /\ worker' = [worker EXCEPT ![q] = IF worker[q] = "none" THEN "opening" ELSE @]
              /\ read' = [read EXCEPT ![q] = CASE worker[q] = "open" -> "posted"
                                               [] worker[q] = "broken" -> "rejected"
                                               [] OTHER -> "asked"]
         ELSE body' = [body EXCEPT ![q] = "leaving"] /\ UNCHANGED <<worker, read>>
    /\ UNCHANGED <<vars, cancelled, over, steps>>

\* A decision no statement runs for goes back to the model as a step.
ToldAgain(q) ==
    /\ body[q] = "thinking" /\ steps[q] < StepBudget
    /\ steps' = [steps EXCEPT ![q] = @ + 1]
    /\ UNCHANGED <<vars, body, worker, read, cancelled, over>>

\* The model answers, the generation faults, or the turn after the last step decides.
Conclude(q) ==
    /\ body[q] = "thinking"
    /\ body' = [body EXCEPT ![q] = "leaving"]
    /\ UNCHANGED <<vars, worker, read, cancelled, over, steps>>

\* The scope's signal ends the generation a cancelled body waits on.
GiveUp(q) == ~Live(q) /\ Conclude(q)

\* The thread opened its connection, and the read that waited for it is posted.
Opened(q) ==
    /\ worker[q] = "opening"
    /\ worker' = [worker EXCEPT ![q] = "open"]
    /\ read' = [read EXCEPT ![q] = IF @ = "asked" THEN "posted" ELSE @]
    /\ UNCHANGED <<vars, body, cancelled, over, steps>>

\* The thread could not open, threw, or answered out of turn: every waiting request rejects.
ThreadDies(q) ==
    /\ worker[q] \in {"opening", "open"}
    /\ worker' = [worker EXCEPT ![q] = "broken"]
    /\ read' = [read EXCEPT ![q] = ClosedRead(q)]
    /\ UNCHANGED <<vars, body, cancelled, over, steps>>

\* The thread answers a posted read: its rows, SQLite's refusal, or a failed connection.
Replied(q, how) ==
    /\ worker[q] = "open" /\ read[q] = "posted"
    /\ read' = [read EXCEPT ![q] = how]
    /\ UNCHANGED <<vars, body, worker, cancelled, over, steps>>

\* Mutation: the rows of a finished statement are handed back without asking again.
ResumeUnchecked(q) ==
    /\ body[q] = "reading" /\ read[q] \in {"rows", "refused", "rejected"}
    /\ IF read[q] = "rejected"
         THEN body' = [body EXCEPT ![q] = "leaving"] /\ UNCHANGED steps
         ELSE /\ body' = [body EXCEPT ![q] = "thinking"]
              /\ steps' = [steps EXCEPT ![q] = @ + 1]
    /\ read' = [read EXCEPT ![q] = "none"]
    /\ UNCHANGED <<vars, worker, cancelled, over>>

\* The awaited read settles: rows only to a question still live, a refused statement as a step,
\* anything else ends the question.
Resume(q) ==
    /\ body[q] = "reading" /\ read[q] \in {"rows", "refused", "rejected"}
    /\ IF read[q] = "rejected" \/ (read[q] = "rows" /\ ~Live(q))
         THEN body' = [body EXCEPT ![q] = "leaving"] /\ UNCHANGED steps
         ELSE /\ body' = [body EXCEPT ![q] = "thinking"]
              /\ steps' = [steps EXCEPT ![q] = @ + 1]
    /\ read' = [read EXCEPT ![q] = "none"]
    /\ UNCHANGED <<vars, worker, cancelled, over>>

\* The scope's finally: over, the gate's listener off, the worker closed.
Finish(q) ==
    /\ body[q] = "leaving" /\ ~over[q]
    /\ over' = [over EXCEPT ![q] = TRUE]
    /\ worker' = [worker EXCEPT ![q] = ClosedWorker(q)]
    /\ UNCHANGED <<vars, body, read, cancelled, steps>>

\* withTokens' finally, a microtask later: the tokens go back and the scope is gone.
LetGo(q) ==
    /\ body[q] = "leaving" /\ over[q]
    /\ Release(q)
    /\ body' = [body EXCEPT ![q] = "none"]
    /\ worker' = [worker EXCEPT ![q] = IF @ = "closed" THEN "none" ELSE @]
    /\ cancelled' = [cancelled EXCEPT ![q] = FALSE]
    /\ over' = [over EXCEPT ![q] = FALSE]
    /\ steps' = [steps EXCEPT ![q] = 0]
    /\ UNCHANGED read

-----------------------------------------------------------------------------
\* The process dies with its threads.
Reboot ==
    /\ Restart
    /\ body' = [q \in Questions |-> "none"]
    /\ worker' = [q \in Questions |-> "none"]
    /\ read' = [q \in Questions |-> "none"]
    /\ cancelled' = [q \in Questions |-> FALSE]
    /\ over' = [q \in Questions |-> FALSE]
    /\ steps' = [q \in Questions |-> 0]

QuestionNext ==
    \/ \E i \in Incarnations : Activate(i) /\ Elsewhere
    \/ \E r \in Readers \ Questions : (Capture(r) \/ Release(r)) /\ Elsewhere
    \/ \E r \in Readers \ Questions, set \in SUBSET Incarnations : TryAcquire(r, set) /\ Elsewhere
    \/ \E c \in Closers, i \in Incarnations :
          (Close(c, i) \/ DrainTimeout(c, i) \/ Reopen(c, i) \/ Commit(c, i)) /\ Elsewhere
    \/ \E q \in Questions :
          \/ Ask(q) \/ Cancel(q) \/ Read(q) \/ ToldAgain(q) \/ Conclude(q)
          \/ Opened(q) \/ ThreadDies(q) \/ Resume(q)
          \/ \E how \in {"rows", "refused", "rejected"} : Replied(q, how)
          \/ Finish(q) \/ LetGo(q)
    \/ Reboot

allVars == <<vars, questionVars>>

(* The drain's timer and the deletion as in ReadGates; the microtasks of a question run. Nobody is
   obliged to answer: neither the thread nor the model, nor is another reader to release. *)
QuestionFairness ==
    /\ \A c \in Closers, i \in Incarnations :
          /\ WF_allVars(DrainTimeout(c, i) /\ Elsewhere)
          /\ WF_allVars((Reopen(c, i) \/ Commit(c, i)) /\ Elsewhere)
    /\ \A q \in Questions :
          /\ WF_allVars(GiveUp(q)) /\ WF_allVars(Resume(q))
          /\ WF_allVars(Finish(q)) /\ WF_allVars(LetGo(q))

QuestionSpec     == QuestionInit /\ [][QuestionNext]_allVars
QuestionFairSpec == QuestionSpec /\ QuestionFairness

-----------------------------------------------------------------------------
(* what a question promises *)

(* Rows reach the body only while the question still owns every table they came from: no deletion
   has closed one of their gates meanwhile, not even one that gave up again. (run, readFailure) *)
RowsOwned ==
    [][\A q \in Questions :
          body[q] = "reading" /\ read[q] = "rows" /\ body'[q] = "thinking"
          => ~signalled[q] /\ \A i \in wants[q] : gate[i] = "active" /\ i \in active]_allVars

(* A thread never outlives its question: a worker that was not terminated belongs to a question
   that still owns its tokens and that nobody ended. (closeWorker, cancel, the scope's finally) *)
NoThreadLeft ==
    \A q \in Questions :
        worker[q] \in {"opening", "open", "broken"}
        => rphase[q] = "owned" /\ body[q] # "none" /\ Live(q) /\ ~over[q]

(* A question that is told gives its tokens back though its thread and its model may never answer,
   so no deletion waits for a runaway statement. (cancelOnClosingGate, end, abortableProvider) *)
ToldLetsGo == \A q \in Questions : rphase[q] = "owned" /\ signalled[q] ~> rphase[q] # "owned"
=============================================================================
