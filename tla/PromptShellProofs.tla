------------------------- MODULE PromptShellProofs -------------------------
(***************************************************************************)
(* Proofs about a prompt and its run, for any number of prompts and of     *)
(* faults: BuildJobs, the server, and PromptShell, the page over it.       *)
(*                                                                         *)
(* What a run tells is settled on the server before it is told (Settled),  *)
(* and no later step of the server unsettles it.  So an ending that stands *)
(* in the page, one on its way there and one still to be written are all   *)
(* about a run that will never be live, whatever the connection does       *)
(* between.                                                                *)
(***************************************************************************)
EXTENDS PromptHistory, FiniteSetTheorems, TLAPS

Steps == {"none", "resolve", "ask", "wait", "build", "live", "present", "recover"}
Rows == {"none", "running", "activated", "unchanged", "failed", "interrupted"}
Presentations == {Restored, Failed, Activated, Recovered, Answered}

JobsTypeOK ==
    /\ job \in [Runs -> {"absent", "pending", "running", "gone"}]
    /\ cancelled \in [Runs -> BOOLEAN]
    /\ pc \in [Runs -> Steps]
    /\ kind \in [Runs -> Kinds \cup {"none"}]
    /\ seen \in [Runs -> SUBSET Runs]
    /\ row \in [Runs -> Rows]
    /\ active \subseteq Runs
    /\ lease \in Runs \cup {NoRun}
    /\ link \in [Runs -> {"none", "up", "cut", "gone"}]
    /\ left \in [Runs -> Presentations \cup {<<>>}]
    /\ pipe \in [Runs -> Seq(Frames)]

PageTypeOK ==
    /\ es \in [Runs -> {"none", "connecting", "open", "closed"}]
    /\ node \in [Runs -> Stories \cup {"none", "gone"}]
    /\ busy \in BOOLEAN
    /\ sending \in Runs \cup {NoRun}
    /\ posting \in [Runs -> BOOLEAN]
    /\ leaving \in Runs \cup {NoRun}
    /\ taken \in BOOLEAN
    /\ faults \in 0 .. Faults

TypeOK == JobsTypeOK /\ PageTypeOK

\* The frames of a sequence, and those of a run that are on their way or still to be written.
Said(s) == {s[i] : i \in 1 .. Len(s)}
Word(j) == Said(pipe[j]) \cup Said(left[j])

\* What a run's place in the pipeline says of its job, its row, the lease and the registry.
Progress(j) ==
    /\ pc[j] # "none" <=> job[j] = "running"
    /\ pc[j] \in {"build", "live"} => lease = j
    /\ lease = j => pc[j] \in {"build", "live", "present", "recover"}
    /\ row[j] = "running" <=> pc[j] = "build"
    /\ row[j] = "activated" <=> j \in active
    /\ job[j] \in {"absent", "pending"} \/ pc[j] \in {"resolve", "ask", "wait"} => row[j] = "none"
    /\ pc[j] \in {"live", "recover"} => j \in active
    /\ pc[j] = "build" => seen[j] = active
    /\ left[j] # <<>> <=> pc[j] \in {"present", "recover"}

\* The run is past its build and not live: nothing of it ever will be.
Settled(j) ==
    j \notin active /\ pc[j] \in {"present", "none"} /\ job[j] \in {"running", "gone"}

Honest(j) ==
    /\ "commit" \in Word(j) => j \in active
    /\ "ending" \in Word(j) /\ ~ViewFails => Settled(j)

ServerInv == JobsTypeOK /\ \A j \in Runs : Progress(j) /\ Honest(j)

\* The page repeats what it was told, and its window is empty while a prompt is submitted.
Repeated(j) ==
    /\ node[j] = "landed" => j \in active
    /\ node[j] = "ending" /\ ~ViewFails => Settled(j)

OneAtATime ==
    /\ \A j, k \in Standing : j = k
    /\ sending # NoRun => Standing = {}

IInv == ServerInv /\ PageTypeOK /\ (\A j \in Runs : Repeated(j)) /\ OneAtATime

-----------------------------------------------------------------------------
(* frames *)

(* Nothing is said by nothing. *)
LEMMA SaidNothing == Said(<<>>) = {}
  BY DEF Said

(* A frame appended is said, and nothing else is new. *)
LEMMA SaidAppended ==
  ASSUME NEW s \in Seq(Frames), NEW f \in Frames
  PROVE  Append(s, f) \in Seq(Frames) /\ Said(Append(s, f)) = Said(s) \cup {f}
  <1>1. Append(s, f) \in Seq(Frames) /\ Len(Append(s, f)) = Len(s) + 1
    OBVIOUS
  <1>2. /\ Append(s, f)[Len(s) + 1] = f
        /\ \A i \in 1 .. Len(s) : Append(s, f)[i] = s[i]
    OBVIOUS
  <1>3. Len(s) \in Nat
    OBVIOUS
  <1>4. 1 .. Len(s) + 1 = (1 .. Len(s)) \cup {Len(s) + 1}
    BY <1>3
  <1> QED BY <1>1, <1>2, <1>3, <1>4 DEF Said

(* The first frame was said, and the rest says nothing new. *)
LEMMA SaidBefore ==
  ASSUME NEW s \in Seq(Frames), s # <<>>
  PROVE  /\ Head(s) \in Frames /\ Head(s) \in Said(s)
         /\ Tail(s) \in Seq(Frames) /\ Said(Tail(s)) \subseteq Said(s)
  <1>1. Len(s) \in Nat /\ Len(s) >= 1
    OBVIOUS
  <1>2. Head(s) = s[1] /\ s[1] \in Frames /\ Tail(s) \in Seq(Frames)
    BY <1>1
  <1>3. Len(Tail(s)) = Len(s) - 1 /\ \A i \in 1 .. Len(s) - 1 : Tail(s)[i] = s[i + 1]
    BY <1>1
  <1> QED BY <1>1, <1>2, <1>3 DEF Said

(* What each presentation says. *)
LEMMA Presented ==
  /\ Said(Restored) = {"done"}
  /\ Said(Failed) = {"ending", "done"}
  /\ Said(Activated) = {"commit", "done"}
  /\ Said(Recovered) = {"unshown", "done"}
  /\ Said(Answered) = {"answer", "done"}
  BY DEF Said, Restored, Failed, Activated, Recovered, Answered

(* A presentation is one frame or two, the last of them the end. *)
LEMMA Presentable ==
  ASSUME NEW p \in Presentations
  PROVE  /\ p \in Seq(Frames) /\ p # <<>>
         /\ Len(p) # 1 => Tail(p) = Restored
  <1> USE DEF Frames, Restored, Failed, Activated, Recovered, Answered
  <1>1. CASE p = Restored
    BY <1>1
  <1>2. CASE p = Failed
    BY <1>2
  <1>3. CASE p = Activated
    BY <1>3
  <1>4. CASE p = Recovered
    BY <1>4
  <1>5. CASE p = Answered
    BY <1>5
  <1> QED BY <1>1, <1>2, <1>3, <1>4, <1>5 DEF Presentations

(* Runs are numbered from one. *)
LEMMA NoRunIsNone == NoRun \notin Runs
  BY RunsAssumption DEF Runs, NoRun

-----------------------------------------------------------------------------
(* the server: each step keeps what the server knows, and unsettles nothing *)

Steady == active \subseteq active' /\ \A k \in Runs : Settled(k) => Settled(k)'

(* What is said goes with the frames that are left and on their way. *)
LEMMA HonestStays ==
  ASSUME NEW j \in Runs, Honest(j), Word(j)' \subseteq Word(j), Steady
  PROVE  Honest(j)'
  BY DEF Honest, Steady

(* A run that ends, under the lease or not, by a presentation or, with nobody to tell, at once. *)
LEMMA Presenting ==
  ASSUME ServerInv, NEW j \in Runs, NEW frames \in Presentations, NEW held \in Runs \cup {NoRun},
         Present(j, frames, held), UNCHANGED <<active, pipe>>,
         pc[j] \in {"resolve", "ask", "wait", "build", "live"},
         row' \in [Runs -> Rows], \A k \in Runs \ {j} : row'[k] = row[k],
         row'[j] # "running", row'[j] = "activated" <=> j \in active,
         held = lease \/ (lease \in {j, NoRun} /\ held \in {j, NoRun}),
         "commit" \in Said(frames) => j \in active,
         "ending" \in Said(frames) /\ ~ViewFails => j \notin active
  PROVE  ServerInv' /\ Steady
  <1>1. job[j] = "running" /\ JobsTypeOK /\ Progress(j) /\ Honest(j)
    BY DEF ServerInv, Progress
  <1>2. pc'[j] \in {"present", "none"} /\ \A k \in Runs \ {j} : pc'[k] = pc[k]
    BY <1>1 DEF Present, Over, JobsTypeOK
  <1>3. JobsTypeOK'
    <2>1. CASE CanPresent(j)
      BY <1>1, <2>1 DEF Present, JobsTypeOK, Steps
    <2>2. CASE ~CanPresent(j)
      <3>1. {} \in SUBSET Runs /\ <<>> \in Presentations \cup {<<>>} /\ NoRun \in Runs \cup {NoRun}
        OBVIOUS
      <3> QED BY <1>1, <2>2, <3>1 DEF Present, Over, JobsTypeOK, Steps
    <2> QED BY <2>1, <2>2
  <1>4. Steady
    BY <1>1, <1>2 DEF Steady, Settled, Present, Over, JobsTypeOK
  <1>5. ASSUME NEW k \in Runs PROVE Progress(k)'
    <2>1. Progress(k)
      BY DEF ServerInv
    <2>2. CASE k # j
      BY <1>1, <2>1, <2>2, NoRunIsNone DEF Progress, Present, Over, JobsTypeOK
    <2>3. CASE k = j
      BY <1>1, <2>1, <2>3, NoRunIsNone, Presentable DEF Progress, Present, Over, JobsTypeOK
    <2> QED BY <2>2, <2>3
  <1>6. ASSUME NEW k \in Runs PROVE Honest(k)'
    <2>1. Honest(k)
      BY DEF ServerInv
    <2>2. CASE k # j
      <3>1. Word(k)' = Word(k)
        BY <1>1, <2>2 DEF Word, Present, Over, JobsTypeOK
      <3> QED BY <2>1, <3>1, <1>4, HonestStays
    <2>3. CASE k = j
      <3>1. Word(j)' \subseteq Said(pipe[j]) \cup Said(frames)
        BY <1>1, SaidNothing DEF Word, Present, Over, JobsTypeOK
      <3>2. pc[j] \notin {"present", "none"}
        OBVIOUS
      <3>3. ~ViewFails => "ending" \notin Said(pipe[j])
        BY <1>1, <3>2 DEF Honest, Settled, Word
      <3>4. "commit" \in Said(pipe[j]) => j \in active
        BY <1>1 DEF Honest, Word
      <3>5. job'[j] \in {"running", "gone"}
        BY <1>1 DEF Present, Over, JobsTypeOK
      <3> QED BY <2>3, <3>1, <3>3, <3>4, <3>5, <1>2 DEF Honest, Settled
    <2> QED BY <2>2, <2>3
  <1> QED BY <1>3, <1>4, <1>5, <1>6 DEF ServerInv

(* The ways a run ends. *)
LEMMA Endings ==
  ASSUME NEW j \in Runs
  PROVE  Ending(j) \in Presentations /\ "commit" \notin Said(Ending(j))
  BY Presented DEF Ending, Presentations

(* The sentence is told apart. *)
LEMMA ResolveKeeps ==
  ASSUME ServerInv, NEW j \in Runs, NEW as \in Kinds, Resolve(j, as)
  PROVE  ServerInv' /\ Steady
  <1>1. JobsTypeOK /\ Progress(j) /\ pc[j] = "resolve" /\ UNCHANGED <<row, active>>
    BY DEF ServerInv, Resolve
  <1>2. CASE as \in Builds
    <2>1. /\ pc' = [pc EXCEPT ![j] = "wait"] /\ kind' = [kind EXCEPT ![j] = as]
          /\ UNCHANGED <<job, cancelled, seen, link, left, lease, pipe>>
      <3>1. as # "question"
        BY <1>2 DEF Builds
      <3> QED BY <1>2, <3>1 DEF Resolve
    <2>2. JobsTypeOK'
      BY <1>1, <2>1 DEF JobsTypeOK, Steps
    <2>3. Steady
      BY <1>1, <2>1 DEF Steady, Settled, JobsTypeOK
    <2>4. ASSUME NEW k \in Runs PROVE Progress(k)'
      BY <1>1, <2>1 DEF ServerInv, Progress, JobsTypeOK
    <2>5. ASSUME NEW k \in Runs PROVE Honest(k)'
      BY <1>1, <2>1, <2>3, HonestStays DEF ServerInv, Word
    <2> QED BY <2>2, <2>3, <2>4, <2>5 DEF ServerInv
  <1>3. CASE as = "question" /\ CanPresent(j)
    <2>1. /\ pc' = [pc EXCEPT ![j] = "ask"] /\ kind' = [kind EXCEPT ![j] = as]
          /\ pipe' = Sent(j, "open")
          /\ UNCHANGED <<job, cancelled, seen, link, left, lease>>
      BY <1>3 DEF Resolve, Builds
    <2>2. "open" \in Frames /\ pipe[j] \in Seq(Frames)
      BY <1>1 DEF Frames, JobsTypeOK
    <2>3. /\ pipe'[j] \in Seq(Frames) /\ Said(pipe'[j]) \subseteq Said(pipe[j]) \cup {"open"}
          /\ \A k \in Runs \ {j} : pipe'[k] = pipe[k]
      BY <1>1, <2>1, <2>2, SaidAppended DEF Sent, JobsTypeOK
    <2>4. JobsTypeOK'
      <3>1. pipe' \in [Runs -> Seq(Frames)]
        BY <1>1, <2>1, <2>3 DEF Sent, JobsTypeOK
      <3> QED BY <1>1, <2>1, <3>1 DEF JobsTypeOK, Steps
    <2>5. Steady
      BY <1>1, <2>1 DEF Steady, Settled, JobsTypeOK
    <2>6. ASSUME NEW k \in Runs PROVE Progress(k)'
      BY <1>1, <2>1 DEF ServerInv, Progress, JobsTypeOK
    <2>7. ASSUME NEW k \in Runs PROVE Honest(k)'
      <3>1. Honest(k) /\ Word(k)' \subseteq Word(k) \cup {"open"}
        BY <2>1, <2>3 DEF ServerInv, Word
      <3> QED BY <3>1, <2>5 DEF Honest, Steady
    <2> QED BY <2>4, <2>5, <2>6, <2>7 DEF ServerInv
  <1>4. CASE as \notin Builds /\ ~(as = "question" /\ CanPresent(j))
    <2>1. Present(j, Restored, lease) /\ UNCHANGED pipe
      BY <1>4 DEF Resolve
    <2>2. /\ row[j] = "none" /\ j \notin active /\ row \in [Runs -> Rows]
          /\ lease \in Runs \cup {NoRun}
      BY <1>1 DEF Progress, JobsTypeOK
    <2>3. Restored \in Presentations
      BY DEF Presentations
    <2> QED BY <1>1, <2>1, <2>2, <2>3, Presenting, Presented
  <1> QED BY <1>2, <1>3, <1>4

(* What cannot be resolved, answered or waited for any longer is presented. *)
LEMMA TellsKeep ==
  ASSUME ServerInv, NEW j \in Runs, ResolveFails(j) \/ Asked(j) \/ WaitEnds(j)
  PROVE  ServerInv' /\ Steady
  <1>1. JobsTypeOK /\ Progress(j) /\ pc[j] \in {"resolve", "ask", "wait"}
    BY DEF ServerInv, ResolveFails, Asked, WaitEnds
  <1>2. PICK frames \in {Ending(j), Restored, Answered} : Present(j, frames, lease)
    BY DEF ResolveFails, Asked, WaitEnds
  <1>3. UNCHANGED <<row, active, pipe>>
    BY DEF ResolveFails, Asked, WaitEnds
  <1>4. frames \in Presentations /\ "commit" \notin Said(frames)
    BY Endings, Presented DEF Presentations
  <1>5. row[j] = "none" /\ j \notin active /\ row \in [Runs -> Rows] /\ lease \in Runs \cup {NoRun}
    BY <1>1 DEF Progress, JobsTypeOK
  <1> QED BY <1>1, <1>2, <1>3, <1>4, <1>5, Presenting

(* At the head of the lease a stale request is refused, and another begins to build. *)
LEMMA AdmitKeeps ==
  ASSUME ServerInv, NEW j \in Runs, Admit(j)
  PROVE  ServerInv' /\ Steady
  <1>1. /\ JobsTypeOK /\ Progress(j) /\ pc[j] = "wait" /\ lease = NoRun
        /\ UNCHANGED <<active, pipe>>
    BY DEF ServerInv, Admit
  <1>2. row[j] = "none" /\ j \notin active
    BY <1>1 DEF Progress
  <1>3. CASE seen[j] # active
    <2>1. row' = [row EXCEPT ![j] = "failed"] /\ Present(j, Failed, j)
      BY <1>3 DEF Admit
    <2>2. /\ row' \in [Runs -> Rows] /\ row'[j] = "failed"
          /\ \A k \in Runs \ {j} : row'[k] = row[k]
      BY <1>1, <2>1 DEF JobsTypeOK, Rows
    <2>3. Failed \in Presentations /\ "commit" \notin Said(Failed)
      BY Presented DEF Presentations
    <2> QED BY <1>1, <1>2, <2>1, <2>2, <2>3, Presenting
  <1>4. CASE seen[j] = active
    <2>1. /\ row' = [row EXCEPT ![j] = "running"] /\ pc' = [pc EXCEPT ![j] = "build"]
          /\ lease' = j /\ UNCHANGED <<job, cancelled, kind, seen, link, left>>
      BY <1>4 DEF Admit
    <2>2. JobsTypeOK'
      BY <1>1, <2>1 DEF JobsTypeOK, Steps, Rows
    <2>3. Steady
      BY <1>1, <2>1 DEF Steady, Settled, JobsTypeOK
    <2>4. ASSUME NEW k \in Runs PROVE Progress(k)'
      BY <1>1, <1>2, <1>4, <2>1, NoRunIsNone DEF ServerInv, Progress, JobsTypeOK
    <2>5. ASSUME NEW k \in Runs PROVE Honest(k)'
      BY <1>1, <2>1, <2>3, HonestStays DEF ServerInv, Word
    <2> QED BY <2>2, <2>3, <2>4, <2>5 DEF ServerInv
  <1> QED BY <1>3, <1>4

(* A build that fails or changes nothing closes its row and tells. *)
LEMMA BuildEndsKeeps ==
  ASSUME ServerInv, NEW j \in Runs, BuildFails(j) \/ NothingToChange(j)
  PROVE  ServerInv' /\ Steady
  <1>1. JobsTypeOK /\ Progress(j) /\ pc[j] = "build" /\ UNCHANGED <<active, pipe>>
    BY DEF ServerInv, BuildFails, NothingToChange
  <1>2. j \notin active /\ lease \in Runs \cup {NoRun}
    BY <1>1 DEF Progress, JobsTypeOK
  <1>3. PICK end \in {"failed", "unchanged"} : row' = [row EXCEPT ![j] = end]
    BY DEF BuildFails, NothingToChange
  <1>4. /\ row' \in [Runs -> Rows] /\ row'[j] \in {"failed", "unchanged"}
        /\ \A k \in Runs \ {j} : row'[k] = row[k]
    BY <1>1, <1>3 DEF JobsTypeOK, Rows
  <1>5. PICK frames \in {Ending(j), Failed} : Present(j, frames, lease)
    BY DEF BuildFails, NothingToChange
  <1>6. frames \in Presentations /\ "commit" \notin Said(frames)
    BY Endings, Presented DEF Presentations
  <1> QED BY <1>1, <1>2, <1>4, <1>5, <1>6, Presenting

(* The commit: what was read is still what is there. *)
LEMMA ActivateKeeps ==
  ASSUME ServerInv, NEW j \in Runs, Activate(j)
  PROVE  ServerInv' /\ Steady
  <1>1. /\ JobsTypeOK /\ Progress(j) /\ pc[j] = "build" /\ lease = j
        /\ row' = [row EXCEPT ![j] = "activated"] /\ active' = active \cup {j}
        /\ pc' = [pc EXCEPT ![j] = "live"] /\ seen' = [seen EXCEPT ![j] = {}]
        /\ UNCHANGED <<job, cancelled, kind, link, left, lease, pipe>>
    BY DEF ServerInv, Activate, Progress
  <1>2. JobsTypeOK'
    BY <1>1 DEF JobsTypeOK, Steps, Rows
  <1>3. Steady
    BY <1>1 DEF Steady, Settled, JobsTypeOK
  <1>4. ASSUME NEW k \in Runs PROVE Progress(k)'
    <2>1. Progress(k)
      BY DEF ServerInv
    <2> QED BY <1>1, <2>1 DEF Progress, JobsTypeOK
  <1>5. ASSUME NEW k \in Runs PROVE Honest(k)'
    BY <1>1, <1>3, HonestStays DEF ServerInv, Word
  <1> QED BY <1>2, <1>3, <1>4, <1>5 DEF ServerInv

(* What is live is shown, or told as ready; only a view that throws is told as a failure. *)
LEMMA PresentLiveKeeps ==
  ASSUME ServerInv, NEW j \in Runs, PresentLive(j)
  PROVE  ServerInv' /\ Steady
  <1>1. JobsTypeOK /\ Progress(j) /\ pc[j] = "live" /\ UNCHANGED <<row, active, pipe>>
    BY DEF ServerInv, PresentLive
  <1>2. j \in active /\ lease = j /\ row[j] = "activated" /\ row \in [Runs -> Rows]
    BY <1>1 DEF Progress, JobsTypeOK
  <1>3. {Activated, Recovered, Failed} \subseteq Presentations
    BY DEF Presentations
  <1>4. CASE Present(j, Activated, lease) \/ Present(j, Recovered, lease)
    BY <1>1, <1>2, <1>3, <1>4, Presenting, Presented
  <1>5. CASE ViewFails /\ Present(j, Failed, NoRun)
    BY <1>1, <1>2, <1>3, <1>5, Presenting, Presented
  <1> QED BY <1>4, <1>5 DEF PresentLive

(* A run that is over, its last frame written or not. *)
LEMMA OverKeeps ==
  ASSUME ServerInv, NEW j \in Runs, Over(j, lease), UNCHANGED <<row, active>>,
         pc[j] \in {"present", "recover"},
         pipe' \in [Runs -> Seq(Frames)], Said(pipe'[j]) \subseteq Word(j),
         \A k \in Runs \ {j} : pipe'[k] = pipe[k]
  PROVE  ServerInv' /\ Steady
  <1>1. /\ JobsTypeOK /\ Progress(j) /\ Honest(j)
        /\ job' = [job EXCEPT ![j] = "gone"] /\ pc' = [pc EXCEPT ![j] = "none"]
        /\ seen' = [seen EXCEPT ![j] = {}] /\ left' = [left EXCEPT ![j] = <<>>]
        /\ lease' = IF lease = j THEN NoRun ELSE lease
    BY DEF ServerInv, Over
  <1>2. JobsTypeOK'
    <2>1. {} \in SUBSET Runs /\ <<>> \in Presentations \cup {<<>>} /\ NoRun \in Runs \cup {NoRun}
      OBVIOUS
    <2> QED BY <1>1, <2>1 DEF Over, JobsTypeOK, Steps
  <1>3. Steady
    BY <1>1 DEF Steady, Settled, JobsTypeOK
  <1>4. ASSUME NEW k \in Runs PROVE Progress(k)'
    <2>1. Progress(k)
      BY DEF ServerInv
    <2>2. CASE k # j
      BY <1>1, <2>1, <2>2, NoRunIsNone DEF Progress, JobsTypeOK
    <2>3. CASE k = j
      BY <1>1, <2>1, <2>3, NoRunIsNone DEF Progress, JobsTypeOK
    <2> QED BY <2>2, <2>3
  <1>5. ASSUME NEW k \in Runs PROVE Honest(k)'
    <2>1. Word(k)' \subseteq Word(k)
      BY <1>1, SaidNothing DEF Word, JobsTypeOK
    <2> QED BY <2>1, <1>3, HonestStays DEF ServerInv
  <1> QED BY <1>2, <1>3, <1>4, <1>5 DEF ServerInv

(* A frame written is one of those left, and the last one ends the run. *)
LEMMA SendFrameKeeps ==
  ASSUME ServerInv, NEW j \in Runs, SendFrame(j)
  PROVE  ServerInv' /\ Steady
  <1>1. /\ JobsTypeOK /\ Progress(j) /\ Honest(j) /\ pc[j] \in {"present", "recover"}
        /\ left[j] \in Presentations /\ UNCHANGED <<row, active>>
    BY DEF ServerInv, SendFrame, JobsTypeOK, Progress
  <1>2. /\ left[j] \in Seq(Frames) /\ left[j] # <<>> /\ pipe[j] \in Seq(Frames)
        /\ Len(left[j]) # 1 => Tail(left[j]) = Restored
    BY <1>1, Presentable DEF JobsTypeOK
  <1>3. /\ Head(left[j]) \in Frames /\ Head(left[j]) \in Said(left[j])
        /\ Said(Tail(left[j])) \subseteq Said(left[j])
    BY <1>2, SaidBefore
  <1>4. /\ pipe'[j] \in Seq(Frames) /\ Said(pipe'[j]) \subseteq Word(j)
        /\ pipe' \in [Runs -> Seq(Frames)] /\ \A k \in Runs \ {j} : pipe'[k] = pipe[k]
    <2>1. Append(pipe[j], Head(left[j])) \in Seq(Frames)
      BY <1>2, <1>3, SaidAppended
    <2>2. Said(Append(pipe[j], Head(left[j]))) \subseteq Word(j)
      BY <1>2, <1>3, SaidAppended DEF Word
    <2>3. pipe' = Sent(j, Head(left[j]))
      BY DEF SendFrame
    <2> QED BY <1>1, <2>1, <2>2, <2>3 DEF Sent, Word, JobsTypeOK
  <1>5. CASE Len(left[j]) = 1
    <2>1. Over(j, lease)
      BY <1>5 DEF SendFrame
    <2> QED BY <1>1, <1>4, <2>1, OverKeeps
  <1>6. CASE Len(left[j]) # 1
    <2>1. /\ left' = [left EXCEPT ![j] = Tail(@)]
          /\ UNCHANGED <<job, cancelled, pc, kind, seen, link, lease>>
      BY <1>6 DEF SendFrame
    <2>2. left'[j] = Restored /\ Said(left'[j]) \subseteq Word(j) /\ Restored # <<>>
      BY <1>1, <1>2, <1>3, <1>6, <2>1 DEF JobsTypeOK, Word, Restored
    <2>3. JobsTypeOK'
      <3>1. left' \in [Runs -> Presentations \cup {<<>>}]
        BY <1>1, <2>1, <2>2 DEF JobsTypeOK, Presentations
      <3> QED BY <1>1, <1>4, <2>1, <3>1 DEF JobsTypeOK
    <2>4. Steady
      BY <1>1, <2>1 DEF Steady, Settled
    <2>5. ASSUME NEW k \in Runs PROVE Progress(k)'
      <3>1. Progress(k) /\ left \in [Runs -> Presentations \cup {<<>>}]
        BY <1>1 DEF ServerInv, JobsTypeOK
      <3>2. left'[k] # <<>> <=> left[k] # <<>>
        BY <1>2, <2>1, <2>2, <3>1
      <3> QED BY <1>1, <2>1, <3>1, <3>2 DEF Progress
    <2>6. ASSUME NEW k \in Runs PROVE Honest(k)'
      <3>1. Word(k)' \subseteq Word(k)
        BY <1>1, <1>4, <2>1, <2>2 DEF Word, JobsTypeOK
      <3> QED BY <3>1, <2>4, HonestStays DEF ServerInv
    <2> QED BY <2>3, <2>4, <2>5, <2>6 DEF ServerInv
  <1> QED BY <1>5, <1>6

(* A presentation whose bound ran out is over, but for a live version told once more. *)
LEMMA TimesOutKeeps ==
  ASSUME ServerInv, NEW j \in Runs, TimesOut(j)
  PROVE  ServerInv' /\ Steady
  <1>1. /\ JobsTypeOK /\ Progress(j) /\ Honest(j) /\ pc[j] \in {"present", "recover"}
        /\ UNCHANGED <<row, active, pipe>>
    BY DEF ServerInv, TimesOut
  <1>2. CASE Over(j, lease)
    <2>1. pipe' \in [Runs -> Seq(Frames)] /\ Said(pipe'[j]) \subseteq Word(j)
      BY <1>1 DEF JobsTypeOK, Word
    <2> QED BY <1>1, <1>2, <2>1, OverKeeps
  <1>3. CASE ~Over(j, lease)
    <2>1. /\ pc' = [pc EXCEPT ![j] = "recover"] /\ left' = [left EXCEPT ![j] = Recovered]
          /\ pc[j] = "present" /\ j \in active
          /\ UNCHANGED <<job, cancelled, kind, seen, link, lease>>
      BY <1>3 DEF TimesOut
    <2>2. Recovered \in Presentations /\ Recovered # <<>>
      BY DEF Presentations, Recovered
    <2>3. JobsTypeOK'
      BY <1>1, <2>1, <2>2 DEF JobsTypeOK, Steps
    <2>4. Steady
      BY <1>1, <2>1 DEF Steady, Settled, JobsTypeOK
    <2>5. ASSUME NEW k \in Runs PROVE Progress(k)'
      <3>1. Progress(k)
        BY DEF ServerInv
      <3> QED BY <1>1, <2>1, <2>2, <3>1 DEF Progress, JobsTypeOK
    <2>6. ASSUME NEW k \in Runs PROVE Honest(k)'
      <3>1. Honest(k) /\ Word(k)' \subseteq Word(k) \cup {"unshown", "done"}
        BY <1>1, <2>1, Presented DEF ServerInv, Word, JobsTypeOK
      <3> QED BY <3>1, <2>4 DEF Honest, Steady
    <2> QED BY <2>3, <2>4, <2>5, <2>6 DEF ServerInv
  <1> QED BY <1>2, <1>3

-----------------------------------------------------------------------------
(* the queue, the connection and the process *)

(* Pruning takes pending jobs only. *)
LEMMA PrunedJobs ==
  ASSUME JobsTypeOK, NEW old
  PROVE  /\ Pruned(old) \in [Runs -> {"absent", "pending", "running", "gone"}]
         /\ \A k \in Runs : \/ Pruned(old)[k] = job[k]
                            \/ Pruned(old)[k] = "gone" /\ job[k] = "pending"
  <1>1. ASSUME NEW k \in Runs
        PROVE  Pruned(old)[k] = IF k \in old /\ job[k] = "pending" THEN "gone" ELSE job[k]
    BY DEF Pruned
  <1>2. ASSUME NEW k \in Runs PROVE job[k] \in {"absent", "pending", "running", "gone"}
    BY DEF JobsTypeOK
  <1>3. Pruned(old) = [k \in Runs |-> Pruned(old)[k]]
    BY DEF Pruned
  <1> HIDE DEF Pruned
  <1> QED BY <1>1, <1>2, <1>3

(* A new job is pending, and jobs too old for their streams are gone. *)
LEMMA CreateKeeps ==
  ASSUME ServerInv, NEW j \in Runs, NEW old, Create(j, old)
  PROVE  ServerInv' /\ Steady
  <1>1. /\ JobsTypeOK /\ job[j] = "absent" /\ job' = [Pruned(old) EXCEPT ![j] = "pending"]
        /\ UNCHANGED <<cancelled, pc, kind, seen, link, left, row, active, lease, pipe>>
    BY DEF ServerInv, Create, platformVars
  <1>2. \A k \in Runs : \/ job'[k] = job[k]
                        \/ job'[k] = "gone" /\ job[k] = "pending"
                        \/ job'[k] = "pending" /\ job[k] = "absent"
    BY <1>1, PrunedJobs
  <1>3. JobsTypeOK'
    BY <1>1, PrunedJobs DEF JobsTypeOK
  <1>4. Steady
    BY <1>1, <1>2 DEF Steady, Settled
  <1>5. ASSUME NEW k \in Runs PROVE Progress(k)'
    BY <1>1, <1>2 DEF ServerInv, Progress
  <1>6. ASSUME NEW k \in Runs PROVE Honest(k)'
    BY <1>1, <1>4, HonestStays DEF ServerInv, Word
  <1> QED BY <1>3, <1>4, <1>5, <1>6 DEF ServerInv

(* A cancel raises a flag. *)
LEMMA CancelKeeps ==
  ASSUME ServerInv, NEW j \in Runs, Cancel(j)
  PROVE  ServerInv' /\ Steady
  <1>1. /\ JobsTypeOK
        /\ cancelled' = [cancelled EXCEPT ![j] = @ \/ job[j] \in {"pending", "running"}]
        /\ UNCHANGED <<job, pc, kind, seen, link, left, row, active, lease, pipe>>
    BY DEF ServerInv, Cancel, platformVars
  <1>2. cancelled' \in [Runs -> BOOLEAN]
    <2>1. (cancelled[j] \/ job[j] \in {"pending", "running"}) \in BOOLEAN
      OBVIOUS
    <2> DEFINE flag == cancelled[j] \/ job[j] \in {"pending", "running"}
    <2>2. cancelled' = [cancelled EXCEPT ![j] = flag] /\ flag \in BOOLEAN
      BY <1>1, <2>1
    <2> HIDE DEF flag
    <2> QED BY <1>1, <2>2 DEF JobsTypeOK
  <1>3. JobsTypeOK'
    BY <1>1, <1>2 DEF JobsTypeOK
  <1>4. Steady
    BY <1>1 DEF Steady, Settled
  <1>5. ASSUME NEW k \in Runs PROVE Progress(k)'
    BY <1>1 DEF ServerInv, Progress
  <1>6. ASSUME NEW k \in Runs PROVE Honest(k)'
    BY <1>1, <1>4, HonestStays DEF ServerInv, Word
  <1> QED BY <1>3, <1>4, <1>5, <1>6 DEF ServerInv

(* A stream starts a pending job's pipeline, and is answered at once otherwise. *)
LEMMA StreamKeeps ==
  ASSUME ServerInv, NEW j \in Runs, NEW old, NEW connection \in {"up", "cut"},
         Stream(j, old, connection)
  PROVE  ServerInv' /\ Steady
  <1>1. JobsTypeOK /\ Progress(j) /\ Honest(j) /\ UNCHANGED <<row, active, lease, cancelled>>
    BY DEF ServerInv, Stream, platformVars
  <1>2. /\ <<>> \in Seq(Frames) /\ <<"done">> \in Seq(Frames)
        /\ Said(<<>>) = {} /\ Said(<<"done">>) = {"done"}
    BY SaidNothing, Presented DEF Restored, Frames
  <1>3. Pruned(old) \in [Runs -> {"absent", "pending", "running", "gone"}]
    BY <1>1, PrunedJobs
  <1>4. \A k \in Runs : \/ Pruned(old)[k] = job[k]
                        \/ Pruned(old)[k] = "gone" /\ job[k] = "pending"
    BY <1>1, PrunedJobs
  <1>5. CASE Pruned(old)[j] = "pending"
    <2>1. /\ job' = [Pruned(old) EXCEPT ![j] = "running"] /\ pc' = [pc EXCEPT ![j] = "resolve"]
          /\ seen' = [seen EXCEPT ![j] = active] /\ link' = [link EXCEPT ![j] = connection]
          /\ pipe' = [pipe EXCEPT ![j] = <<>>] /\ UNCHANGED <<kind, left>>
      BY <1>5 DEF Stream
    <2>2. job[j] = "pending" /\ pc[j] = "none" /\ row[j] = "none" /\ left[j] = <<>>
      BY <1>1, <1>4, <1>5 DEF Progress, JobsTypeOK, Steps
    <2>3. JobsTypeOK'
      <3>1. /\ job' \in [Runs -> {"absent", "pending", "running", "gone"}]
            /\ pipe' \in [Runs -> Seq(Frames)]
        BY <1>1, <1>2, <1>3, <2>1 DEF JobsTypeOK
      <3>2. /\ seen' \in [Runs -> SUBSET Runs] /\ pc' \in [Runs -> Steps]
            /\ link' \in [Runs -> {"none", "up", "cut", "gone"}]
        BY <1>1, <2>1 DEF JobsTypeOK, Steps
      <3> QED BY <1>1, <2>1, <3>1, <3>2 DEF JobsTypeOK
    <2>4. Steady
      <3>1. ASSUME NEW k \in Runs, Settled(k) PROVE Settled(k)'
        <4>1. k # j
          BY <2>2, <3>1 DEF Settled
        <4> QED BY <1>1, <1>3, <1>4, <2>1, <3>1, <4>1 DEF Settled, JobsTypeOK
      <3> QED BY <1>1, <3>1 DEF Steady
    <2>5. ASSUME NEW k \in Runs PROVE Progress(k)'
      <3>1. Progress(k)
        BY DEF ServerInv
      <3> QED BY <1>1, <1>3, <1>4, <2>1, <2>2, <3>1 DEF Progress, JobsTypeOK
    <2>6. ASSUME NEW k \in Runs PROVE Honest(k)'
      <3>1. Word(k)' \subseteq Word(k)
        BY <1>1, <1>2, <2>1 DEF Word, JobsTypeOK
      <3> QED BY <3>1, <2>4, HonestStays DEF ServerInv
    <2> QED BY <2>3, <2>4, <2>5, <2>6 DEF ServerInv
  <1>6. CASE Pruned(old)[j] # "pending"
    <2>1. /\ job' = Pruned(old)
          /\ pipe' = [pipe EXCEPT ![j] = IF connection = "up" THEN <<"done">> ELSE <<>>]
          /\ UNCHANGED <<pc, kind, seen, link, left>>
      BY <1>6 DEF Stream
    <2>2. JobsTypeOK'
      BY <1>1, <1>2, <1>3, <2>1 DEF JobsTypeOK
    <2>3. Steady
      BY <1>1, <1>4, <2>1 DEF Steady, Settled
    <2>4. ASSUME NEW k \in Runs PROVE Progress(k)'
      <3>1. Progress(k)
        BY DEF ServerInv
      <3> QED BY <1>1, <1>4, <2>1, <3>1 DEF Progress
    <2>5. ASSUME NEW k \in Runs PROVE Honest(k)'
      <3>1. Honest(k) /\ Word(k)' \subseteq Word(k) \cup {"done"}
        BY <1>1, <1>2, <2>1 DEF ServerInv, Word, JobsTypeOK
      <3> QED BY <3>1, <2>3 DEF Honest, Steady
    <2> QED BY <2>2, <2>3, <2>4, <2>5 DEF ServerInv
  <1> QED BY <1>5, <1>6

\* A connection changes, and frames on it are lost.
Lost == /\ UNCHANGED Unlinked
        /\ link' \in [Runs -> {"none", "up", "cut", "gone"}]
        /\ pipe' \in [Runs -> Seq(Frames)]
        /\ \A k \in Runs : Said(pipe'[k]) \subseteq Said(pipe[k])

(* The server does not depend on its connections for what it knows. *)
LEMMA LostKeeps ==
  ASSUME ServerInv, Lost
  PROVE  ServerInv' /\ Steady
  <1> USE DEF Lost, Unlinked, platformVars
  <1>1. JobsTypeOK'
    BY DEF ServerInv, JobsTypeOK
  <1>2. Steady
    BY DEF Steady, Settled
  <1>3. ASSUME NEW k \in Runs PROVE Progress(k)'
    BY DEF ServerInv, Progress
  <1>4. ASSUME NEW k \in Runs PROVE Honest(k)'
    <2>1. Word(k)' \subseteq Word(k)
      BY DEF Word
    <2> QED BY <2>1, <1>2, HonestStays DEF ServerInv
  <1> QED BY <1>1, <1>2, <1>3, <1>4 DEF ServerInv

(* A reader found gone changes no run yet. *)
LEMMA NoticesKeeps ==
  ASSUME ServerInv, NEW j \in Runs, Notices(j)
  PROVE  ServerInv' /\ Steady
  <1>1. Lost
    BY DEF Notices, Lost, Unlinked, ServerInv, JobsTypeOK
  <1> QED BY <1>1, LostKeeps

(* The process takes its jobs with it; what was committed stays committed. *)
LEMMA RestartKeeps ==
  ASSUME ServerInv, Restart
  PROVE  ServerInv' /\ Steady
  <1>1. JobsTypeOK /\ UNCHANGED active
    BY DEF ServerInv, Restart
  <1>2. \A k \in Runs : /\ job'[k] = IF job[k] = "absent" THEN "absent" ELSE "gone"
                        /\ pc'[k] = "none" /\ left'[k] = <<>> /\ pipe'[k] = <<>>
                        /\ row'[k] = IF row[k] = "running" THEN "interrupted" ELSE row[k]
    BY DEF Restart
  <1>3. JobsTypeOK'
    <2>1. /\ <<>> \in Seq(Frames) /\ <<>> \in Presentations \cup {<<>>} /\ {} \in SUBSET Runs
          /\ NoRun \in Runs \cup {NoRun}
      OBVIOUS
    <2> QED BY <1>1, <2>1 DEF Restart, JobsTypeOK, Steps, Rows
  <1>4. Steady
    BY <1>1, <1>2 DEF Steady, Settled
  <1>5. ASSUME NEW k \in Runs PROVE Progress(k)'
    <2>1. Progress(k) /\ lease' = NoRun
      BY DEF ServerInv, Restart
    <2>2. row[k] # "none" => job[k] # "absent"
      BY <2>1 DEF Progress
    <2> QED BY <1>1, <1>2, <2>1, <2>2, NoRunIsNone DEF Progress
  <1>6. ASSUME NEW k \in Runs PROVE Honest(k)'
    <2>1. Word(k)' \subseteq Word(k)
      BY <1>2, SaidNothing DEF Word
    <2> QED BY <2>1, <1>4, HonestStays DEF ServerInv
  <1> QED BY <1>3, <1>4, <1>5, <1>6 DEF ServerInv

(* Every step of a pipeline. *)
LEMMA WorkKeeps ==
  ASSUME ServerInv, NEW j \in Runs, Work(j)
  PROVE  ServerInv' /\ Steady
  <1>1. CASE ResolveFails(j) \/ Asked(j) \/ WaitEnds(j)
    BY <1>1, TellsKeep
  <1>2. CASE \E as \in Kinds : Resolve(j, as)
    BY <1>2, ResolveKeeps
  <1>3. CASE Admit(j)
    BY <1>3, AdmitKeeps
  <1>4. CASE BuildFails(j) \/ NothingToChange(j)
    BY <1>4, BuildEndsKeeps
  <1>5. CASE Activate(j)
    BY <1>5, ActivateKeeps
  <1>6. CASE PresentLive(j)
    BY <1>6, PresentLiveKeeps
  <1>7. CASE SendFrame(j)
    BY <1>7, SendFrameKeeps
  <1>8. CASE TimesOut(j)
    BY <1>8, TimesOutKeeps
  <1> QED BY <1>1, <1>2, <1>3, <1>4, <1>5, <1>6, <1>7, <1>8 DEF Work

(* A cut connection is still one. *)
LEMMA SeveredLinks ==
  ASSUME JobsTypeOK, NEW gone
  PROVE  Severed(gone) \in [Runs -> {"none", "up", "cut", "gone"}]
  <1>1. ASSUME NEW k \in Runs PROVE link[k] \in {"none", "up", "cut", "gone"}
    BY DEF JobsTypeOK
  <1> QED BY <1>1 DEF Severed

(* Streams closed by the page lose frames and nothing else. *)
LEMMA ClosingLoses ==
  ASSUME JobsTypeOK, NEW gone, CloseStreams(gone), UNCHANGED Unlinked
  PROVE  Lost
  <1>1. link' = Severed(gone) /\ pipe' = [k \in Runs |-> IF k \in gone THEN <<>> ELSE pipe[k]]
    BY DEF CloseStreams
  <1>2. <<>> \in Seq(Frames)
    OBVIOUS
  <1>3. ASSUME NEW k \in Runs
        PROVE  pipe'[k] \in Seq(Frames) /\ Said(pipe'[k]) \subseteq Said(pipe[k])
    BY <1>1, <1>2, SaidNothing DEF JobsTypeOK
  <1>4. pipe' \in [Runs -> Seq(Frames)]
    BY <1>1, <1>2 DEF JobsTypeOK
  <1> QED BY <1>1, <1>3, <1>4, SeveredLinks DEF Lost

(* A step that leaves the server alone. *)
LEMMA ServerAlone ==
  ASSUME ServerInv, UNCHANGED serverVars
  PROVE  ServerInv' /\ Steady
  <1>1. Lost
    BY DEF Lost, serverVars, jobVars, platformVars, Unlinked, ServerInv, JobsTypeOK
  <1> QED BY <1>1, LostKeeps

-----------------------------------------------------------------------------
(* the page *)

PageInv == PageTypeOK /\ (\A j \in Runs : Repeated(j)) /\ OneAtATime

\* No story is new, and none says more than it did.
Fading == sending' = sending /\ \A k \in Runs : node'[k] \in {node[k], "gone"}

(* Stories that fade stay true, and one at a time. *)
LEMMA FadingKeeps ==
  ASSUME PageInv, Fading, Steady
  PROVE  (\A j \in Runs : Repeated(j)') /\ OneAtATime'
  <1>1. ASSUME NEW j \in Runs PROVE Repeated(j)'
    BY DEF PageInv, Fading, Steady, Repeated
  <1>2. Standing' \subseteq Standing
    BY DEF Fading, Standing, Stories
  <1> QED BY <1>1, <1>2 DEF PageInv, OneAtATime, Fading

(* A prompt is submitted over an empty window. *)
LEMMA SubmitKeeps ==
  ASSUME IInv, NEW j \in Runs, Submit(j)
  PROVE  IInv'
  <1>1. /\ ServerInv /\ PageInv /\ JobsTypeOK /\ CloseStreams(Questions) /\ sending = NoRun
        /\ UNCHANGED <<Unlinked, busy, leaving, taken, faults>>
    BY DEF IInv, PageInv, ServerInv, Submit
  <1>2. ServerInv' /\ Steady
    BY <1>1, ClosingLoses, LostKeeps
  <1>3. PageTypeOK'
    <2>1. es' \in [Runs -> {"none", "connecting", "open", "closed"}]
      BY <1>1 DEF CloseStreams, PageInv, PageTypeOK
    <2>2. posting' \in [Runs -> BOOLEAN]
      BY DEF Submit
    <2>3. node' \in [Runs -> Stories \cup {"none", "gone"}]
      <3>1. \A k \in Runs : node[k] \in Stories \cup {"none", "gone"}
        BY <1>1 DEF PageInv, PageTypeOK
      <3> QED BY <3>1 DEF Submit
    <2>4. sending' \in Runs \cup {NoRun}
      BY <1>1 DEF Submit, PageInv, PageTypeOK
    <2> QED BY <1>1, <2>1, <2>2, <2>3, <2>4 DEF PageInv, PageTypeOK
  <1>4. CASE UsingTheWindow # {}
    <2>1. Fading
      BY <1>1, <1>4 DEF Submit, Fading
    <2> QED BY <1>1, <1>2, <1>3, <2>1, FadingKeeps DEF IInv
  <1>5. CASE UsingTheWindow = {}
    <2>1. node' = [k \in Runs |-> IF k \in Standing THEN "gone" ELSE node[k]]
      BY <1>5 DEF Submit
    <2>2. Standing' = {}
      BY <2>1 DEF Standing, Stories
    <2>3. ASSUME NEW k \in Runs PROVE Repeated(k)'
      BY <1>1, <1>2, <2>1 DEF PageInv, Steady, Repeated
    <2> QED BY <1>2, <1>3, <2>2, <2>3 DEF IInv, OneAtATime
  <1> QED BY <1>4, <1>5

(* Its story is placed in the empty window. *)
LEMMA PlaceKeeps ==
  ASSUME IInv, NEW j \in Runs, Place(j)
  PROVE  IInv'
  <1>1. /\ ServerInv /\ PageInv /\ sending = j /\ sending' = NoRun
        /\ node' = [node EXCEPT ![j] = "run"] /\ es' = [es EXCEPT ![j] = "connecting"]
        /\ UNCHANGED <<serverVars, busy, posting, leaving, taken, faults>>
    BY DEF IInv, PageInv, Place
  <1>2. ServerInv' /\ Steady
    BY <1>1, ServerAlone
  <1>3. PageTypeOK'
    BY <1>1 DEF PageInv, PageTypeOK, Stories
  <1>4. Standing' \subseteq {j}
    BY <1>1, NoRunIsNone DEF PageInv, PageTypeOK, OneAtATime, Standing, Stories
  <1>5. ASSUME NEW k \in Runs PROVE Repeated(k)'
    BY <1>1, <1>2 DEF PageInv, PageTypeOK, Steady, Repeated
  <1>6. OneAtATime'
    BY <1>1, <1>4 DEF OneAtATime
  <1> QED BY <1>2, <1>3, <1>5, <1>6 DEF IInv

(* What the page tells is what it was told. *)
LEMMA ReceiveKeeps ==
  ASSUME IInv, NEW j \in Runs, Receive(j)
  PROVE  IInv'
  <1>1. /\ ServerInv /\ PageInv /\ JobsTypeOK /\ Honest(j) /\ node[j] \in Stories
        /\ pipe[j] \in Seq(Frames) /\ pipe[j] # <<>> /\ pipe' = [pipe EXCEPT ![j] = Tail(@)]
        /\ UNCHANGED <<jobVars, platformVars, sending, posting, taken, faults>>
    BY DEF IInv, PageInv, ServerInv, JobsTypeOK, Receive
  <1>2. /\ Head(pipe[j]) \in Frames /\ Head(pipe[j]) \in Word(j) /\ Tail(pipe[j]) \in Seq(Frames)
        /\ Said(Tail(pipe[j])) \subseteq Said(pipe[j])
    BY <1>1, SaidBefore DEF Word
  <1>3. Lost
    <2>1. /\ pipe' \in [Runs -> Seq(Frames)]
          /\ \A k \in Runs : Said(pipe'[k]) \subseteq Said(pipe[k])
      BY <1>1, <1>2 DEF JobsTypeOK
    <2> QED BY <1>1, <2>1 DEF Lost, Unlinked, jobVars, platformVars, JobsTypeOK
  <1>4. ServerInv' /\ Steady
    BY <1>1, <1>3, LostKeeps
  <1>5. /\ node' = [node EXCEPT ![j] = node'[j]]
        /\ node'[j] \in {node[j], "question", "ending", "landed", "gone"}
        /\ node'[j] = "ending" => node[j] = "ending" \/ Head(pipe[j]) = "ending"
        /\ node'[j] = "landed" => node[j] = "landed" \/ Head(pipe[j]) = "commit"
    BY <1>1 DEF Receive, Ended, PageInv, PageTypeOK
  <1>6. PageTypeOK'
    <2>1. es' \in [Runs -> {"none", "connecting", "open", "closed"}]
      BY <1>1 DEF Receive, Ended, PageInv, PageTypeOK
    <2>2. node' \in [Runs -> Stories \cup {"none", "gone"}]
      BY <1>1, <1>5 DEF PageInv, PageTypeOK, Stories
    <2>3. busy' \in BOOLEAN /\ leaving' \in Runs \cup {NoRun}
      BY <1>1 DEF Receive, Ended, PageInv, PageTypeOK
    <2> QED BY <1>1, <2>1, <2>2, <2>3 DEF PageInv, PageTypeOK
  <1>7. ASSUME NEW k \in Runs PROVE Repeated(k)'
    <2>1. Repeated(k) /\ (k # j => node'[k] = node[k])
      BY <1>1, <1>5 DEF PageInv, PageTypeOK
    <2> QED BY <1>1, <1>2, <1>4, <1>5, <2>1 DEF Honest, Steady, Repeated
  <1>8. OneAtATime'
    <2>1. Standing' \subseteq Standing
      BY <1>1, <1>5 DEF PageInv, PageTypeOK, Standing
    <2> QED BY <1>1, <2>1 DEF PageInv, OneAtATime
  <1> QED BY <1>4, <1>6, <1>7, <1>8 DEF IInv

(* Everything else leaves the stories as they are, or takes one down. *)
LEMMA OthersKeep ==
  ASSUME IInv, ServerInv' /\ Steady, PageTypeOK', Fading
  PROVE  IInv'
  BY FadingKeeps DEF IInv, PageInv

(* The stream's own steps. *)
LEMMA TransportKeeps ==
  ASSUME IInv, NEW j \in Runs, Transport(j) \/ (\E old \in SUBSET Pending : ConnectLost(j, old))
  PROVE  IInv'
  <1>1. ServerInv /\ JobsTypeOK /\ PageTypeOK
    BY DEF IInv, ServerInv
  <1>2. ASSUME NEW old \in SUBSET Pending, Accept(j, old) PROVE IInv'
    <2>1. ServerInv' /\ Steady
      BY <1>1, <1>2, CreateKeeps DEF Accept
    <2>2. PageTypeOK' /\ Fading
      BY <1>1, <1>2 DEF Accept, pageVars, PageTypeOK, Fading
    <2> QED BY <2>1, <2>2, OthersKeep
  <1>3. ASSUME NEW old \in SUBSET Pending, Connect(j, old) PROVE IInv'
    <2>1. ServerInv' /\ Steady
      BY <1>1, <1>3, StreamKeeps DEF Connect
    <2>2. PageTypeOK'
      BY <1>1, <1>3 DEF Connect, PageTypeOK
    <2>3. Fading
      BY <1>3 DEF Connect, Fading
    <2> QED BY <2>1, <2>2, <2>3, OthersKeep
  <1>4. ASSUME NEW old \in SUBSET Pending, ConnectLost(j, old) PROVE IInv'
    <2>1. ServerInv' /\ Steady
      BY <1>1, <1>4, StreamKeeps DEF ConnectLost
    <2>2. PageTypeOK' /\ Fading
      BY <1>1, <1>4, FaultsAssumption DEF ConnectLost, pageVars, PageTypeOK, Fading
    <2> QED BY <2>1, <2>2, OthersKeep
  <1>5. CASE Missing(j)
    <2>1. ServerInv' /\ Steady
      BY <1>1, <1>5, ClosingLoses, LostKeeps DEF Missing
    <2>2. PageTypeOK'
      BY <1>1, <1>5 DEF Missing, CloseStreams, PageTypeOK
    <2>3. Fading
      BY <1>5 DEF Missing, Fading
    <2> QED BY <2>1, <2>2, <2>3, OthersKeep
  <1>6. CASE ServerClosed(j)
    <2>1. ServerInv' /\ Steady
      BY <1>1, <1>6, ServerAlone DEF ServerClosed
    <2>2. PageTypeOK' /\ Fading
      BY <1>1, <1>6 DEF ServerClosed, PageTypeOK, Fading
    <2> QED BY <2>1, <2>2, OthersKeep
  <1> QED BY <1>2, <1>3, <1>4, <1>5, <1>6, PlaceKeeps, ReceiveKeeps DEF Transport

(* What breaks. *)
LEMMA FaultsKeep ==
  ASSUME IInv, NEW j \in Runs,
         CancelLost(j) \/ (\E fatal \in BOOLEAN : Drop(j, fatal))
  PROVE  IInv'
  <1>1. ServerInv /\ JobsTypeOK /\ PageTypeOK
    BY DEF IInv, ServerInv
  <1>2. CASE CancelLost(j)
    <2>1. ServerInv' /\ Steady
      BY <1>1, <1>2, ServerAlone DEF CancelLost
    <2>2. PageTypeOK' /\ Fading
      BY <1>1, <1>2, FaultsAssumption DEF CancelLost, PageTypeOK, Fading
    <2> QED BY <2>1, <2>2, OthersKeep
  <1>3. ASSUME NEW fatal \in BOOLEAN, Drop(j, fatal) PROVE IInv'
    <2>1. Lost
      <3>1. pipe' = [pipe EXCEPT ![j] = <<>>] /\ link' = Severed({j}) /\ UNCHANGED Unlinked
        BY <1>3 DEF Drop
      <3>2. <<>> \in Seq(Frames)
        OBVIOUS
      <3>3. /\ pipe' \in [Runs -> Seq(Frames)]
            /\ \A k \in Runs : Said(pipe'[k]) \subseteq Said(pipe[k])
        BY <1>1, <3>1, <3>2, SaidNothing DEF JobsTypeOK
      <3> QED BY <1>1, <3>1, <3>3, SeveredLinks DEF Lost
    <2>2. PageTypeOK'
      BY <1>1, <1>3, FaultsAssumption DEF Drop, PageTypeOK
    <2>3. Fading
      BY <1>3 DEF Drop, Fading
    <2> QED BY <1>1, <2>1, <2>2, <2>3, LostKeeps, OthersKeep
  <1> QED BY <1>2, <1>3

(* The server restarts under every stream, or a question about leaving is taken back. *)
LEMMA RestartsKeep ==
  ASSUME IInv, ServerRestarts \/ BackOut
  PROVE  IInv'
  <1>1. ServerInv /\ JobsTypeOK /\ PageTypeOK
    BY DEF IInv, ServerInv
  <1>2. CASE ServerRestarts
    <2>1. ServerInv' /\ Steady
      BY <1>1, <1>2, RestartKeeps DEF ServerRestarts
    <2>2. PageTypeOK'
      BY <1>1, <1>2, FaultsAssumption DEF ServerRestarts, PageTypeOK
    <2>3. Fading
      BY <1>2 DEF ServerRestarts, Fading
    <2> QED BY <2>1, <2>2, <2>3, OthersKeep
  <1>3. CASE BackOut
    <2>1. ServerInv' /\ Steady
      BY <1>1, <1>3, ServerAlone DEF BackOut
    <2>2. PageTypeOK' /\ Fading
      BY <1>1, <1>3 DEF BackOut, PageTypeOK, Fading
    <2> QED BY <2>1, <2>2, OthersKeep
  <1> QED BY <1>2, <1>3

(* What a person does to a run. *)
LEMMA PersonKeeps ==
  ASSUME IInv, NEW j \in Runs,
         \/ PressCancel(j) \/ CancelArrives(j) \/ AskToLeave(j) \/ GoAhead(j)
         \/ TakeWindow(j) \/ DismissAnswer(j) \/ Dismiss(j)
  PROVE  IInv'
  <1>1. ServerInv /\ JobsTypeOK /\ PageTypeOK
    BY DEF IInv, ServerInv
  <1>2. CASE PressCancel(j) \/ AskToLeave(j) \/ DismissAnswer(j)
    <2>1. ServerInv' /\ Steady
      BY <1>1, <1>2, ServerAlone DEF PressCancel, AskToLeave, DismissAnswer
    <2>2. PageTypeOK' /\ Fading
      BY <1>1, <1>2 DEF PressCancel, AskToLeave, DismissAnswer, PageTypeOK, Fading
    <2> QED BY <2>1, <2>2, OthersKeep
  <1>3. CASE CancelArrives(j)
    <2>1. ServerInv' /\ Steady
      BY <1>1, <1>3, CancelKeeps DEF CancelArrives
    <2>2. PageTypeOK' /\ Fading
      BY <1>1, <1>3 DEF CancelArrives, PageTypeOK, Fading
    <2> QED BY <2>1, <2>2, OthersKeep
  <1>4. CASE GoAhead(j)
    <2>1. ServerInv' /\ Steady
      <3>1. CASE node[j] = "run"
        BY <1>1, <1>4, <3>1, ClosingLoses, LostKeeps DEF GoAhead
      <3>2. CASE node[j] # "run"
        BY <1>1, <1>4, <3>2, ServerAlone
           DEF GoAhead, serverVars, jobVars, platformVars, Unlinked
      <3> QED BY <3>1, <3>2
    <2>2. PageTypeOK' /\ Fading
      <3>1. CASE node[j] = "run"
        <4>1. /\ posting' = [posting EXCEPT ![j] = TRUE] /\ CloseStreams({j})
              /\ node' = [node EXCEPT ![j] = "gone"] /\ taken' = (taken \/ busy)
              /\ leaving' = NoRun /\ UNCHANGED <<busy, sending, faults>>
          BY <1>4, <3>1 DEF GoAhead
        <4>2. PageTypeOK'
          BY <1>1, <4>1 DEF CloseStreams, PageTypeOK
        <4>3. Fading
          BY <1>1, <4>1 DEF PageTypeOK, Fading
        <4> QED BY <4>2, <4>3
      <3>2. CASE node[j] # "run"
        BY <1>1, <1>4, <3>2 DEF GoAhead, PageTypeOK, Fading
      <3> QED BY <3>1, <3>2
    <2> QED BY <2>1, <2>2, OthersKeep
  <1>5. CASE TakeWindow(j)
    <2>1. ServerInv' /\ Steady
      BY <1>1, <1>5, ClosingLoses, LostKeeps DEF TakeWindow
    <2>2. PageTypeOK'
      BY <1>1, <1>5 DEF TakeWindow, CloseStreams, PageTypeOK
    <2>3. Fading
      BY <1>5 DEF TakeWindow, Fading
    <2> QED BY <2>1, <2>2, <2>3, OthersKeep
  <1>6. CASE Dismiss(j)
    <2>1. ServerInv' /\ Steady
      BY <1>1, <1>6, ServerAlone DEF Dismiss
    <2>2. PageTypeOK'
      BY <1>1, <1>6 DEF Dismiss, PageTypeOK
    <2>3. Fading
      BY <1>6 DEF Dismiss, Fading
    <2> QED BY <2>1, <2>2, <2>3, OthersKeep
  <1> QED BY <1>2, <1>3, <1>4, <1>5, <1>6

-----------------------------------------------------------------------------
(* Nothing runs and nothing is told at first. *)
LEMMA Initially == Init => IInv
  <1> SUFFICES ASSUME Init PROVE IInv
    OBVIOUS
  <1>1. /\ <<>> \in Seq(Frames) /\ <<>> \in Presentations \cup {<<>>} /\ {} \in SUBSET Runs
        /\ NoRun \in Runs \cup {NoRun} /\ 0 \in 0 .. Faults
    BY FaultsAssumption
  <1>2. JobsTypeOK /\ PageTypeOK
    BY <1>1 DEF Init, JobsInit, JobsTypeOK, PageTypeOK, Steps, Rows
  <1>3. ASSUME NEW j \in Runs PROVE Progress(j) /\ Honest(j) /\ Repeated(j)
    BY SaidNothing, NoRunIsNone DEF Init, JobsInit, Progress, Honest, Word, Repeated
  <1>4. OneAtATime
    BY DEF Init, OneAtATime, Standing, Stories
  <1> QED BY <1>2, <1>3, <1>4 DEF IInv, ServerInv

(* The invariant holds in every reachable state. *)
LEMMA Invariance == Spec => []IInv
  <1>1. IInv /\ [Next]_vars => IInv'
    <2> SUFFICES ASSUME IInv, [Next]_vars PROVE IInv'
      OBVIOUS
    <2> USE DEF IInv
    <2>1. ASSUME NEW j \in Runs, Work(j) \/ Notices(j), UNCHANGED Page PROVE IInv'
      <3>1. ServerInv' /\ Steady
        BY <2>1, WorkKeeps, NoticesKeeps
      <3>2. PageTypeOK' /\ Fading
        BY <2>1 DEF Page, pageVars, PageTypeOK, Fading
      <3> QED BY <3>1, <3>2, OthersKeep
    <2>2. CASE UNCHANGED vars
      <3>1. ServerInv' /\ Steady
        BY <2>2, ServerAlone DEF vars
      <3>2. PageTypeOK' /\ Fading
        BY <2>2 DEF vars, pageVars, PageTypeOK, Fading
      <3> QED BY <3>1, <3>2, OthersKeep
    <2>3. ASSUME NEW j \in Runs, Submit(j) PROVE IInv'
      BY <2>3, SubmitKeeps
    <2>4. ASSUME NEW j \in Runs,
                 Transport(j) \/ (\E old \in SUBSET Pending : ConnectLost(j, old))
          PROVE  IInv'
      BY <2>4, TransportKeeps
    <2>5. ASSUME NEW j \in Runs, CancelLost(j) \/ (\E fatal \in BOOLEAN : Drop(j, fatal))
          PROVE  IInv'
      BY <2>5, FaultsKeep
    <2>6. ASSUME NEW j \in Runs,
                 \/ PressCancel(j) \/ CancelArrives(j) \/ AskToLeave(j) \/ GoAhead(j)
                 \/ TakeWindow(j) \/ DismissAnswer(j) \/ Dismiss(j)
          PROVE  IInv'
      BY <2>6, PersonKeeps
    <2>7. CASE BackOut \/ ServerRestarts
      BY <2>7, RestartsKeep
    <2> QED BY <2>1, <2>2, <2>3, <2>4, <2>5, <2>6, <2>7 DEF Next
  <1> QED BY Initially, <1>1, PTL DEF Spec

-----------------------------------------------------------------------------
(* what a prompt promises *)

(* The state of the queue, of the pipelines and of the page keeps its type. *)
THEOREM TypeCorrect == Spec => []TypeOK
  BY Invariance, PTL DEF IInv, ServerInv, TypeOK

(* A version is live exactly when its row says so, and a row runs only under the lease, whatever is
   cancelled, dropped or restarted. *)
THEOREM RowsTellTheRegistryHolds == Spec => []RowsTellTheRegistry
  <1>1. IInv => RowsTellTheRegistry
    BY DEF IInv, ServerInv, Progress, RowsTellTheRegistry
  <1> QED BY <1>1, Invariance, PTL

Landed == \A j \in Runs : node[j] = "landed" => j \in active

(* The page never shows as landed what is not live, also when a view throws. *)
THEOREM LandedIsLive == Spec => []Landed
  <1>1. IInv => Landed
    BY DEF IInv, Repeated, Landed
  <1> QED BY <1>1, Invariance, PTL

(* As long as no view of a committed evolution throws, an ending stands over what is not live, and
   what landed is. *)
THEOREM EndingsTellTheTruthHolds ==
  ASSUME ~ViewFails
  PROVE  Spec => []EndingsTellTheTruth
  <1>1. IInv => \A j \in Runs : node[j] = "ending" => j \notin active
    BY DEF IInv, Repeated, Settled
  <1>2. IInv => EndingsTellTheTruth
    BY <1>1 DEF IInv, ServerInv, Progress, Repeated, RowsTellTheRegistry, EndingsTellTheTruth
  <1> QED BY <1>2, Invariance, PTL

(* The window holds one story at a time, however often a dead connection wakes the bar. *)
THEOREM OneStoryHolds == Spec => []OneStory
  <1>1. IInv => OneStory
    <2> SUFFICES ASSUME IInv PROVE Cardinality(Standing) <= 1
      BY DEF OneStory
    <2>1. \A j, k \in Standing : j = k
      BY DEF IInv, OneAtATime
    <2>2. CASE Standing = {}
      BY <2>2, FS_EmptySet
    <2>3. CASE Standing # {}
      <3>1. PICK j \in Standing : TRUE
        BY <2>3
      <3>2. Standing = {j}
        BY <2>1, <3>1
      <3> QED BY <3>2, FS_Singleton
    <2> QED BY <2>2, <2>3
  <1> QED BY <1>1, Invariance, PTL

LeaseOfARun ==
    lease # NoRun =>
        job[lease] = "running" /\ pc[lease] \in {"build", "live", "present", "recover"}

(* The lease is held by a run that was admitted and is not over: one that ends, times out or dies
   with the process leaves none behind. *)
THEOREM LeaseOfARunHolds == Spec => []LeaseOfARun
  <1>1. IInv => LeaseOfARun
    <2> SUFFICES ASSUME IInv, lease # NoRun
                 PROVE  /\ job[lease] = "running"
                        /\ pc[lease] \in {"build", "live", "present", "recover"}
      BY DEF LeaseOfARun
    <2>1. lease \in Runs /\ JobsTypeOK /\ Progress(lease)
      BY DEF IInv, ServerInv, JobsTypeOK
    <2> QED BY <2>1 DEF Progress
  <1> QED BY <1>1, Invariance, PTL

-----------------------------------------------------------------------------
(* what no step does *)

(* Only a commit makes a version live. *)
LEMMA OnlyActivate ==
  ASSUME Next
  PROVE  UNCHANGED active \/ \E j \in Runs : Activate(j)
  <1> USE DEF platformVars, serverVars
  <1>1. ASSUME NEW j \in Runs, Work(j) PROVE UNCHANGED active \/ Activate(j)
    BY <1>1 DEF Work, ResolveFails, Resolve, Asked, WaitEnds, Admit, BuildFails, NothingToChange,
               PresentLive, SendFrame, TimesOut
  <1>2. ASSUME NEW j \in Runs, Submit(j) \/ Missing(j) \/ GoAhead(j) \/ TakeWindow(j)
                                \/ (\E fatal \in BOOLEAN : Drop(j, fatal))
        PROVE  UNCHANGED active
    BY <1>2 DEF Submit, Missing, GoAhead, TakeWindow, Drop, Unlinked
  <1>3. ASSUME NEW j \in Runs, NEW old \in SUBSET Pending,
               Accept(j, old) \/ Connect(j, old) \/ ConnectLost(j, old)
        PROVE  UNCHANGED active
    BY <1>3 DEF Accept, Create, Connect, ConnectLost, Stream
  <1>4. ASSUME NEW j \in Runs, Place(j) \/ Receive(j) \/ ServerClosed(j)
        PROVE  UNCHANGED active
    BY <1>4 DEF Place, Receive, ServerClosed
  <1>5. ASSUME NEW j \in Runs, PressCancel(j) \/ CancelArrives(j) \/ CancelLost(j)
                                \/ AskToLeave(j) \/ DismissAnswer(j) \/ Dismiss(j) \/ Notices(j)
        PROVE  UNCHANGED active
    BY <1>5 DEF PressCancel, CancelArrives, Cancel, CancelLost, AskToLeave, DismissAnswer, Dismiss,
               Notices
  <1>6. CASE BackOut \/ ServerRestarts
    BY <1>6 DEF BackOut, ServerRestarts, Restart
  <1> QED BY <1>1, <1>2, <1>3, <1>4, <1>5, <1>6 DEF Next, Transport

(* A version is committed only against the catalog its sentence was read against. *)
THEOREM BuildsOnWhatItReadHolds == Spec => BuildsOnWhatItRead
  <1> DEFINE Reads == \A j \in active' \ active : seen[j] = active
  <1>1. IInv /\ [Next]_vars => [Reads]_serverVars
    <2> SUFFICES ASSUME IInv, [Next]_vars PROVE Reads \/ UNCHANGED serverVars
      OBVIOUS
    <2>1. CASE UNCHANGED active
      BY <2>1
    <2>2. ASSUME NEW j \in Runs, Activate(j) PROVE Reads
      BY <2>2 DEF Activate, IInv, ServerInv, Progress
    <2>3. CASE UNCHANGED vars
      BY <2>3 DEF vars
    <2> QED BY <2>1, <2>2, <2>3, OnlyActivate
  <1> QED BY <1>1, Invariance, PTL DEF Spec, BuildsOnWhatItRead

\* What no step does to a run: start it but from the queue, put it back there, or bring back one that
\* is gone.
OneWay(j) ==
    /\ pc[j] # "resolve" /\ pc'[j] = "resolve" => job[j] = "pending" /\ job'[j] = "running"
    /\ job[j] \in {"running", "gone"} => job'[j] \in {"running", "gone"}
    /\ job[j] = "gone" => job'[j] = "gone" /\ row'[j] = row[j]

(* A step that leaves jobs, pipelines and rows alone does nothing of the kind. *)
LEMMA StillOneWay ==
  ASSUME NEW j \in Runs, UNCHANGED <<job, pc, row>>
  PROVE  OneWay(j)
  BY DEF OneWay

(* Nor does a step of a pipeline, of its own run or of another one. *)
LEMMA WorkOneWay ==
  ASSUME IInv, NEW k \in Runs, Work(k), NEW j \in Runs
  PROVE  OneWay(j)
  <1> DEFINE Mine == /\ job'[k] \in {"running", "gone"}
                     /\ pc'[k] # "resolve"
                     /\ \A i \in Runs \ {k} :
                            job'[i] = job[i] /\ pc'[i] = pc[i] /\ row'[i] = row[i]
  <1> USE DEF platformVars
  <1>1. JobsTypeOK /\ Progress(k)
    BY DEF IInv, ServerInv
  <1>2. job[k] = "running"
    BY <1>1 DEF Work, ResolveFails, Resolve, Asked, WaitEnds, Admit, BuildFails, NothingToChange,
                Activate, PresentLive, SendFrame, TimesOut, Progress
  <1>3. ASSUME NEW held, Over(k, held), \/ UNCHANGED row
                                        \/ \E to \in Rows : row' = [row EXCEPT ![k] = to]
        PROVE  Mine
    BY <1>1, <1>3 DEF Over, JobsTypeOK
  <1>4. ASSUME NEW frames, NEW held, Present(k, frames, held),
               \/ UNCHANGED row
               \/ \E to \in Rows : row' = [row EXCEPT ![k] = to]
        PROVE  Mine
    BY <1>1, <1>2, <1>3, <1>4 DEF Present, JobsTypeOK
  <1>5. ASSUME UNCHANGED job, \E to \in Steps \ {"resolve"} : pc' = [pc EXCEPT ![k] = to],
               \/ UNCHANGED row
               \/ \E to \in Rows : row' = [row EXCEPT ![k] = to]
        PROVE  Mine
    BY <1>1, <1>2, <1>5 DEF JobsTypeOK
  <1>6. Mine
    <2>1. CASE ResolveFails(k) \/ Asked(k) \/ WaitEnds(k) \/ PresentLive(k)
      BY <1>4, <2>1 DEF ResolveFails, Asked, WaitEnds, PresentLive
    <2>2. CASE \E as \in Kinds : Resolve(k, as)
      <3>1. PICK as \in Kinds : Resolve(k, as)
        BY <2>2
      <3>2. CASE as \in Builds
        <4>1. UNCHANGED <<job, row>> /\ pc' = [pc EXCEPT ![k] = "wait"]
          BY <3>1, <3>2 DEF Resolve, Builds
        <4> QED BY <1>5, <4>1 DEF Steps
      <3>3. CASE as \notin Builds /\ as = "question" /\ CanPresent(k)
        <4>1. UNCHANGED <<job, row>> /\ pc' = [pc EXCEPT ![k] = "ask"]
          BY <3>1, <3>3 DEF Resolve
        <4> QED BY <1>5, <4>1 DEF Steps
      <3>4. CASE as \notin Builds /\ ~(as = "question" /\ CanPresent(k))
        <4>1. UNCHANGED row /\ Present(k, Restored, lease)
          BY <3>1, <3>4 DEF Resolve
        <4> QED BY <1>4, <4>1
      <3> QED BY <3>2, <3>3, <3>4
    <2>3. CASE Admit(k)
      <3>1. CASE seen[k] # active
        <4>1. Present(k, Failed, k) /\ row' = [row EXCEPT ![k] = "failed"]
          BY <2>3, <3>1 DEF Admit
        <4> QED BY <1>4, <4>1 DEF Rows
      <3>2. CASE seen[k] = active
        <4>1. /\ UNCHANGED job /\ pc' = [pc EXCEPT ![k] = "build"]
              /\ row' = [row EXCEPT ![k] = "running"]
          BY <2>3, <3>2 DEF Admit
        <4> QED BY <1>5, <4>1 DEF Steps, Rows
      <3> QED BY <3>1, <3>2
    <2>4. CASE BuildFails(k)
      <3>1. Present(k, Ending(k), lease) /\ row' = [row EXCEPT ![k] = "failed"]
        BY <2>4 DEF BuildFails
      <3> QED BY <1>4, <3>1 DEF Rows
    <2>5. CASE NothingToChange(k)
      <3>1. Present(k, Failed, lease) /\ row' = [row EXCEPT ![k] = "unchanged"]
        BY <2>5 DEF NothingToChange
      <3> QED BY <1>4, <3>1 DEF Rows
    <2>6. CASE Activate(k)
      <3>1. /\ UNCHANGED job /\ pc' = [pc EXCEPT ![k] = "live"]
            /\ row' = [row EXCEPT ![k] = "activated"]
        BY <2>6 DEF Activate
      <3> QED BY <1>5, <3>1 DEF Steps, Rows
    <2>7. CASE SendFrame(k) \/ TimesOut(k)
      <3>1. CASE Over(k, lease) /\ UNCHANGED row
        BY <1>3, <3>1
      <3>2. CASE UNCHANGED <<job, row>> /\ pc' = [pc EXCEPT ![k] = "recover"]
        BY <1>5, <3>2 DEF Steps
      <3>3. CASE UNCHANGED <<job, row, pc>>
        BY <1>1, <1>2, <2>7, <3>3 DEF SendFrame, TimesOut
      <3> QED BY <2>7, <3>1, <3>2, <3>3 DEF SendFrame, TimesOut
    <2> QED BY <2>1, <2>2, <2>3, <2>4, <2>5, <2>6, <2>7 DEF Work
  <1> QED BY <1>2, <1>6 DEF OneWay

(* Nor does opening a stream, accepting a prompt or a restart. *)
LEMMA StreamOneWay ==
  ASSUME IInv, NEW k \in Runs, NEW old \in SUBSET Pending, NEW connection,
         Stream(k, old, connection) \/ Create(k, old), NEW j \in Runs
  PROVE  OneWay(j)
  <1> USE DEF platformVars
  <1>1. JobsTypeOK
    BY DEF IInv, ServerInv
  <1>2. Pruned(old)[j] = job[j] \/ (Pruned(old)[j] = "gone" /\ job[j] = "pending")
    BY <1>1, PrunedJobs
  <1>3. Pruned(old) \in [Runs -> {"absent", "pending", "running", "gone"}]
    BY <1>1, PrunedJobs
  <1>4. CASE Create(k, old)
    BY <1>1, <1>2, <1>3, <1>4 DEF Create, OneWay
  <1>5. CASE Stream(k, old, connection) /\ Pruned(old)[k] = "pending"
    <2>1. /\ job' = [Pruned(old) EXCEPT ![k] = "running"]
          /\ pc' = [pc EXCEPT ![k] = "resolve"] /\ row' = row
      BY <1>5 DEF Stream
    <2> QED BY <1>1, <1>2, <1>3, <1>5, <2>1 DEF OneWay, JobsTypeOK
  <1>6. CASE Stream(k, old, connection) /\ Pruned(old)[k] # "pending"
    <2>1. job' = Pruned(old) /\ pc' = pc /\ row' = row
      BY <1>6 DEF Stream
    <2> QED BY <1>1, <1>2, <2>1 DEF OneWay, JobsTypeOK
  <1> QED BY <1>4, <1>5, <1>6

(* No step of server, page or network does. *)
LEMMA NextOneWay ==
  ASSUME IInv, Next, NEW j \in Runs
  PROVE  OneWay(j)
  <1> USE DEF platformVars
  <1>1. JobsTypeOK /\ Progress(j)
    BY DEF IInv, ServerInv
  <1>2. ASSUME NEW k \in Runs, Submit(k) \/ Missing(k) \/ GoAhead(k) \/ TakeWindow(k)
                                \/ (\E fatal \in BOOLEAN : Drop(k, fatal))
        PROVE  UNCHANGED <<job, pc, row>>
    BY <1>2 DEF Submit, Missing, GoAhead, TakeWindow, Drop, Unlinked
  <1>3. ASSUME NEW k \in Runs, NEW old \in SUBSET Pending,
               Accept(k, old) \/ Connect(k, old) \/ ConnectLost(k, old)
        PROVE  OneWay(j)
    BY <1>3, StreamOneWay DEF Accept, Connect, ConnectLost
  <1>4. ASSUME NEW k \in Runs, Place(k) \/ Receive(k) \/ ServerClosed(k)
        PROVE  UNCHANGED <<job, pc, row>>
    BY <1>4 DEF Place, Receive, ServerClosed, serverVars, jobVars
  <1>5. ASSUME NEW k \in Runs, PressCancel(k) \/ CancelArrives(k) \/ CancelLost(k)
                                \/ AskToLeave(k) \/ DismissAnswer(k) \/ Dismiss(k) \/ Notices(k)
        PROVE  UNCHANGED <<job, pc, row>>
    BY <1>5 DEF PressCancel, CancelArrives, Cancel, CancelLost, AskToLeave, DismissAnswer, Dismiss,
               Notices, serverVars, jobVars
  <1>6. CASE ServerRestarts
    <2>1. /\ pc'[j] = "none"
          /\ job'[j] = IF job[j] = "absent" THEN "absent" ELSE "gone"
          /\ row'[j] = IF row[j] = "running" THEN "interrupted" ELSE row[j]
      BY <1>6 DEF ServerRestarts, Restart
    <2> QED BY <1>1, <2>1 DEF OneWay, Progress
  <1>7. CASE BackOut
    BY <1>7, StillOneWay DEF BackOut, serverVars, jobVars
  <1> QED BY <1>2, <1>3, <1>4, <1>5, <1>6, <1>7, StillOneWay, WorkOneWay DEF Next, Transport

(* Whatever has started is running or gone. *)
Known == started \subseteq Runs /\ \A j \in started : job[j] \in {"running", "gone"}

(* With the history the server's steps are the same. *)
LEMMA HistoryOfSpec == HistorySpec => Spec
  <1>1. HistoryInit => Init
    BY DEF HistoryInit
  <1>2. [HistoryNext]_historyVars => [Next]_vars
    BY DEF HistoryNext, historyVars
  <1> QED BY <1>1, <1>2, PTL DEF HistorySpec, Spec

LEMMA KnownHolds == HistorySpec => []Known
  <1>1. HistoryInit => Known
    BY DEF HistoryInit, Known
  <1>2. IInv /\ Known /\ [HistoryNext]_historyVars => Known'
    <2> SUFFICES ASSUME IInv, Known, [HistoryNext]_historyVars PROVE Known'
      OBVIOUS
    <2>1. CASE UNCHANGED historyVars
      BY <2>1 DEF historyVars, vars, serverVars, jobVars, Known
    <2>2. CASE HistoryNext
      <3>1. \A j \in Runs : OneWay(j)
        BY <2>2, NextOneWay DEF HistoryNext
      <3> QED BY <2>2, <3>1 DEF HistoryNext, Starting, OneWay, Known
    <2> QED BY <2>1, <2>2
  <1> QED BY <1>1, <1>2, Invariance, HistoryOfSpec, PTL DEF HistorySpec

(* A job's pipeline starts once in its life, whatever streams are opened again, and once it is over
   the job's row is final. *)
THEOREM RunsOnceHolds == HistorySpec => RunsOnce
  <1> DEFINE NoSecond ==
        \A j \in started : /\ j \notin Starting
                           /\ pc[j] = "none" => pc'[j] = "none" /\ row'[j] = row[j]
  <1>1. IInv /\ IInv' /\ Known /\ [HistoryNext]_historyVars => [NoSecond]_historyVars
    <2> SUFFICES ASSUME IInv, IInv', Known, HistoryNext, NEW j \in started
                 PROVE  /\ j \notin Starting
                        /\ pc[j] = "none" => pc'[j] = "none" /\ row'[j] = row[j]
      OBVIOUS
    <2>1. j \in Runs /\ job[j] \in {"running", "gone"}
      BY DEF Known
    <2>2. OneWay(j) /\ Progress(j) /\ Progress(j)'
      BY <2>1, NextOneWay DEF HistoryNext, IInv, ServerInv
    <2>3. j \notin Starting
      BY <2>1, <2>2 DEF Starting, OneWay
    <2>4. ASSUME pc[j] = "none" PROVE pc'[j] = "none" /\ row'[j] = row[j]
      <3>1. job[j] = "gone"
        BY <2>1, <2>2, <2>4 DEF Progress
      <3>2. job'[j] = "gone" /\ row'[j] = row[j]
        BY <2>2, <3>1 DEF OneWay
      <3> QED BY <2>2, <3>2 DEF Progress
    <2> QED BY <2>3, <2>4
  <1> QED BY <1>1, Invariance, KnownHolds, HistoryOfSpec, PTL DEF HistorySpec, RunsOnce
=============================================================================
