---------------------------- MODULE PromptShell ----------------------------
(***************************************************************************)
(* The page's side of a prompt, over the server's (BuildJobs): the bar and *)
(* whether it is locked, the story of a run standing in the window, the    *)
(* EventSource behind it that retries on its own, and the ways a person    *)
(* stops, leaves, closes or dismisses one. What a frame looks like, the    *)
(* content given back, focus and the window's name are left out, and so is *)
(* a form with unsaved changes, whose question is another.                 *)
(***************************************************************************)
EXTENDS BuildJobs

CONSTANT Faults      \* connections dropped or refused, posts lost, restarts of the server

ASSUME FaultsAssumption == Faults \in Nat

VARIABLES es,        \* the run's EventSource: "none", "connecting", "open", "closed"
          node,      \* its story in the page: "none", "run" while it goes, "question", "ending"
                     \* when it told one, "landed", "gone"
          busy,      \* promptBusy: the field and its button are disabled
          sending,   \* the run whose prompt is being submitted
          posting,   \* a cancel of the run is on its way to the server
          leaving,   \* the run the desk asks about before a navigation
          taken,     \* history: the desk took a story off under a locked bar, its stream not ended
          faults

pageVars == <<es, node, busy, sending, posting, leaving, taken>>
vars == <<serverVars, pageVars, faults>>

Init ==
    /\ JobsInit
    /\ es = [j \in Runs |-> "none"]
    /\ node = [j \in Runs |-> "none"]
    /\ busy = FALSE
    /\ sending = NoRun
    /\ posting = [j \in Runs |-> FALSE]
    /\ leaving = NoRun
    /\ taken = FALSE
    /\ faults = 0

Live == {"connecting", "open"}
Stories == {"run", "question", "ending", "landed"}
Standing == {j \in Runs : node[j] \in Stories}

\* runIsUsingTheWindow, buildJobIdIn: a story going that turned out no question, with no ending yet.
UsingTheWindow == {j \in Runs : node[j] = "run"}
Questions == {j \in Runs : node[j] = "question"}

\* The connection of these runs' pipelines breaks; the server has yet to notice.
Severed(gone) == [j \in Runs |-> IF j \in gone /\ link[j] = "up" THEN "cut" ELSE link[j]]

\* These runs' streams are closed by the page, and what was on its way to them is lost.
CloseStreams(gone) ==
    /\ es' = [j \in Runs |-> IF j \in gone THEN "closed" ELSE es[j]]
    /\ link' = Severed(gone)
    /\ pipe' = [j \in Runs |-> IF j \in gone THEN <<>> ELSE pipe[j]]

Unlinked == <<job, cancelled, pc, kind, seen, left, platformVars>>

-----------------------------------------------------------------------------
(* Submitting a prompt. *)

\* Mutation: the question being answered is left where it stands.
SubmitBesideAQuestion(j) ==
    /\ node[j] = "none" /\ sending = NoRun /\ ~busy
    /\ \A k \in Runs : k < j => node[k] # "none"
    /\ UsingTheWindow = {}
    /\ sending' = j
    /\ node' = [k \in Runs |-> IF k \in Standing \ Questions THEN "gone" ELSE node[k]]
    /\ UNCHANGED taken
    /\ UNCHANGED <<Unlinked, link, pipe, es, posting, busy, leaving, faults>>

\* The form's request. First a question being answered is cancelled and its story taken down; then
\* a run using the window refuses the sentence, and one that has ended is dropped, its stream with
\* nobody to close it.
Submit(j) ==
    /\ node[j] = "none" /\ sending = NoRun /\ ~busy
    /\ \A k \in Runs : k < j => node[k] # "none"
    /\ posting' = [k \in Runs |-> posting[k] \/ k \in Questions]
    /\ CloseStreams(Questions)
    /\ IF UsingTheWindow # {}
         THEN /\ node' = [k \in Runs |-> IF k \in Questions THEN "gone" ELSE node[k]]
              /\ UNCHANGED sending
         ELSE /\ sending' = j
              /\ node' = [k \in Runs |-> IF k \in Standing THEN "gone" ELSE node[k]]
    /\ UNCHANGED <<Unlinked, busy, leaving, taken, faults>>

\* POST /prompt makes the job.
Accept(j, old) ==
    /\ sending = j
    /\ Create(j, old)
    /\ UNCHANGED <<pageVars, faults>>

\* Its answer is the story, appended to the window, which connects at once.
Place(j) ==
    /\ sending = j /\ job[j] # "absent"
    /\ sending' = NoRun
    /\ node' = [node EXCEPT ![j] = "run"]
    /\ es' = [es EXCEPT ![j] = "connecting"]
    /\ UNCHANGED <<serverVars, busy, posting, leaving, taken, faults>>

-----------------------------------------------------------------------------
(* The stream. *)

\* The connection opens, the first time or again, and the server answers it. htmx:sseOpen locks the
\* bar unless a question stands; a story off the page is heard by nobody.
Connect(j, old) ==
    /\ es[j] = "connecting"
    /\ Stream(j, old, "up")
    /\ es' = [es EXCEPT ![j] = "open"]
    /\ busy' = IF node[j] \in Stories THEN Questions = {} ELSE busy
    /\ UNCHANGED <<node, sending, posting, leaving, taken, faults>>

\* The request reached the server, and the answer never the page.
ConnectLost(j, old) ==
    /\ es[j] = "connecting" /\ faults < Faults
    /\ Stream(j, old, "cut")
    /\ faults' = faults + 1
    /\ UNCHANGED pageVars

\* htmx:sseClose with the server's own end: the bar wakes, with an ending to read or without. The
\* story goes, but for one with an ending, and one that landed may stay a moment on its last line.
Ended(j) ==
    /\ es' = [es EXCEPT ![j] = "closed"]
    /\ busy' = FALSE
    /\ leaving' = IF leaving = j THEN NoRun ELSE leaving
    /\ node' = [node EXCEPT ![j] = IF @ \in {"ending", "landed"} THEN @ ELSE "gone"]

\* Mutation: the end of a run that tells something leaves the bar as it was.
ReceiveHeld(j) ==
    /\ es[j] = "open" /\ node[j] \in Stories /\ pipe[j] # <<>>
    /\ pipe' = [pipe EXCEPT ![j] = Tail(@)]
    /\ CASE Head(pipe[j]) = "done" ->
              /\ es' = [es EXCEPT ![j] = "closed"]
              /\ busy' = (busy /\ node[j] = "ending")
              /\ leaving' = IF leaving = j THEN NoRun ELSE leaving
              /\ node' = [node EXCEPT ![j] = IF @ \in {"ending", "landed"} THEN @ ELSE "gone"]
         [] Head(pipe[j]) = "open" ->
              /\ node' = [node EXCEPT ![j] = "question"]
              /\ busy' = FALSE
              /\ UNCHANGED <<es, leaving>>
         [] Head(pipe[j]) = "ending" ->
              node' = [node EXCEPT ![j] = "ending"] /\ UNCHANGED <<es, busy, leaving>>
         [] Head(pipe[j]) = "commit" ->
              node' = [node EXCEPT ![j] = "landed"] /\ UNCHANGED <<es, busy, leaving>>
         [] OTHER -> UNCHANGED <<es, node, busy, leaving>>
    /\ UNCHANGED <<jobVars, platformVars, sending, posting, taken, faults>>

\* A frame reaches the page. A question opens its window and gives the bar back; an ending and a
\* committed view are in the story from the moment they arrive.
Receive(j) ==
    /\ es[j] = "open" /\ node[j] \in Stories /\ pipe[j] # <<>>
    /\ pipe' = [pipe EXCEPT ![j] = Tail(@)]
    /\ CASE Head(pipe[j]) = "done" -> Ended(j)
         [] Head(pipe[j]) = "open" ->
              /\ node' = [node EXCEPT ![j] = "question"]
              /\ busy' = FALSE
              /\ UNCHANGED <<es, leaving>>
         [] Head(pipe[j]) = "ending" ->
              node' = [node EXCEPT ![j] = "ending"] /\ UNCHANGED <<es, busy, leaving>>
         [] Head(pipe[j]) = "commit" ->
              node' = [node EXCEPT ![j] = "landed"] /\ UNCHANGED <<es, busy, leaving>>
         [] OTHER -> UNCHANGED <<es, node, busy, leaving>>
    /\ UNCHANGED <<jobVars, platformVars, sending, posting, taken, faults>>

\* A frame for a story no longer in the page closes its stream (nodeMissing).
Missing(j) ==
    /\ es[j] = "open" /\ node[j] = "gone" /\ pipe[j] # <<>>
    /\ CloseStreams({j})
    /\ UNCHANGED <<Unlinked, node, busy, sending, posting, leaving, taken, faults>>

\* The server's answer ended without a last frame: the transport connects again, unless its story
\* is off the page.
ServerClosed(j) ==
    /\ es[j] = "open" /\ job[j] = "gone" /\ pipe[j] = <<>>
    /\ es' = [es EXCEPT ![j] = IF node[j] = "gone" THEN "closed" ELSE "connecting"]
    /\ UNCHANGED <<serverVars, node, busy, sending, posting, leaving, taken, faults>>

\* The connection breaks. A drop is retried by the browser; a fatal error by the extension, a
\* while later, and wakes the bar.
Drop(j, fatal) ==
    /\ es[j] \in Live /\ faults < Faults
    /\ es' = [es EXCEPT ![j] = IF node[j] = "gone" THEN "closed" ELSE "connecting"]
    /\ link' = Severed({j})
    /\ pipe' = [pipe EXCEPT ![j] = <<>>]
    /\ busy' = (busy /\ ~(fatal /\ node[j] \in Stories))
    /\ faults' = faults + 1
    /\ UNCHANGED <<Unlinked, node, sending, posting, leaving, taken>>

\* The server restarts under every connection.
ServerRestarts ==
    /\ faults < Faults
    /\ Restart
    /\ es' = [j \in Runs |-> IF es[j] # "open" THEN es[j]
                             ELSE IF node[j] = "gone" THEN "closed" ELSE "connecting"]
    /\ faults' = faults + 1
    /\ UNCHANGED <<node, busy, sending, posting, leaving, taken>>

-----------------------------------------------------------------------------
(* What a person may do to a run. *)

\* Its own Cancel control.
PressCancel(j) ==
    /\ node[j] = "run" /\ leaving # j /\ ~posting[j]
    /\ posting' = [posting EXCEPT ![j] = TRUE]
    /\ UNCHANGED <<serverVars, es, node, busy, sending, leaving, taken, faults>>

\* A cancel arrives, or is lost: nobody waits for its answer.
CancelArrives(j) ==
    /\ posting[j]
    /\ Cancel(j)
    /\ posting' = [posting EXCEPT ![j] = FALSE]
    /\ UNCHANGED <<es, node, busy, sending, leaving, taken, faults>>

CancelLost(j) ==
    /\ posting[j] /\ faults < Faults
    /\ posting' = [posting EXCEPT ![j] = FALSE]
    /\ faults' = faults + 1
    /\ UNCHANGED <<serverVars, es, node, busy, sending, leaving, taken>>

\* A navigation that would take a run using the window asks first.
AskToLeave(j) ==
    /\ node[j] = "run" /\ leaving = NoRun
    /\ leaving' = j
    /\ UNCHANGED <<serverVars, es, node, busy, sending, posting, taken, faults>>

BackOut ==
    /\ leaving # NoRun
    /\ leaving' = NoRun
    /\ UNCHANGED <<serverVars, es, node, busy, sending, posting, taken, faults>>

\* The yes: cancel, then take the story down, which closes its stream (nodeReplaced). A run that
\* has ended by now is left where it stands.
GoAhead(j) ==
    /\ leaving = j
    /\ leaving' = NoRun
    /\ IF node[j] = "run"
         THEN /\ posting' = [posting EXCEPT ![j] = TRUE]
              /\ CloseStreams({j})
              /\ node' = [node EXCEPT ![j] = "gone"]
              /\ taken' = (taken \/ busy)
         ELSE UNCHANGED <<link, pipe, es, node, posting, taken>>
    /\ UNCHANGED <<Unlinked, busy, sending, faults>>

\* The window is put away or filled anew over a story nobody is asked about.
TakeWindow(j) ==
    /\ node[j] \in Stories \ {"run"} /\ leaving = NoRun
    /\ CloseStreams({j})
    /\ node' = [node EXCEPT ![j] = "gone"]
    /\ taken' = (taken \/ (busy /\ es[j] \in Live))
    /\ UNCHANGED <<Unlinked, busy, sending, posting, leaving, faults>>

\* Closing the answer gives up on the question: its story stays until the server ends it.
DismissAnswer(j) ==
    /\ node[j] = "question" /\ ~posting[j]
    /\ posting' = [posting EXCEPT ![j] = TRUE]
    /\ UNCHANGED <<serverVars, es, node, busy, sending, leaving, taken, faults>>

\* An ending is read and dismissed, and a landed story leaves its last line. Neither closes a
\* stream that is still open.
Dismiss(j) ==
    /\ \/ node[j] = "ending"
       \/ node[j] = "landed" /\ es[j] = "closed"
    /\ node' = [node EXCEPT ![j] = "gone"]
    /\ taken' = (taken \/ (busy /\ es[j] \in Live))
    /\ UNCHANGED <<serverVars, es, busy, sending, posting, leaving, faults>>

-----------------------------------------------------------------------------
Page == <<pageVars, faults>>

Transport(j) ==
    \/ \E old \in SUBSET Pending : Accept(j, old) \/ Connect(j, old)
    \/ Place(j) \/ Receive(j) \/ Missing(j) \/ ServerClosed(j)

Next ==
    \/ \E j \in Runs :
          \/ Submit(j) \/ Transport(j)
          \/ \E old \in SUBSET Pending : ConnectLost(j, old)
          \/ \E fatal \in BOOLEAN : Drop(j, fatal)
          \/ PressCancel(j) \/ CancelArrives(j) \/ CancelLost(j)
          \/ AskToLeave(j) \/ GoAhead(j)
          \/ TakeWindow(j) \/ DismissAnswer(j) \/ Dismiss(j)
          \/ Work(j) /\ UNCHANGED Page
          \/ Notices(j) /\ UNCHANGED Page
    \/ BackOut
    \/ ServerRestarts

Spec == Init /\ [][Next]_vars

(* Every stage of a pipeline is bounded, so its next step is taken: the provider by its own
   deadline, a write by another, a reservation by its queue's. A request arrives, a frame that is
   written is read, the browser connects again. The steps of one run follow each other, so it is
   enough that one of them is taken. What a person does is not fair, nor the lease being granted. *)
Fairness ==
    \A j \in Runs : WF_vars(Transport(j)) /\ WF_vars(Work(j) /\ UNCHANGED Page)

FairSpec == Spec /\ Fairness

-----------------------------------------------------------------------------
(* What the page tells of a run is so: an ending that says nothing came of it stands only over a
   version that is not live, a committed view only over one that is, and the rows say the same,
   whenever the cancel, the drop, the deadline or the restart came (presentBuilt, presentFailed,
   presentCancelled, activatePublishedSnapshot). *)
EndingsTellTheTruth ==
    /\ RowsTellTheRegistry
    /\ \A j \in Runs : /\ node[j] = "ending" => j \notin active
                       /\ node[j] = "landed" => j \in active

(* The window holds one story at a time, though the lock on the bar is only a courtesy that a dead
   connection lifts: the next prompt is held off by a run, and takes down everything else. *)
OneStory == Cardinality(Standing) <= 1

(* Every stream the page opened is ended, and every pipeline that started comes to its end and
   gives the lease back, whatever is dropped, lost, cancelled or left on the way. *)
EveryRunEnds ==
    \A j \in Runs : es[j] \in Live \/ job[j] = "running"
                       ~> es[j] = "closed" /\ job[j] # "running" /\ lease # j

(* The bar wakes again after every run the desk itself did not take off the page before its end. *)
BarWakes == busy ~> ~busy \/ taken
=============================================================================
