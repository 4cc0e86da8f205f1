# Aluna in TLA+

Aluna grows an application while it runs: a person asks for something, a
language model writes a *capability* (a table, queries, a Handler, templates),
the platform checks it, publishes it and keeps it beside the others. A
capability can evolve, be linked to others, be deleted and be created again.
Everything happens in one Bun process over two stores that share no
transaction, SQLite and a directory tree, while generated code that the
platform does not trust runs in the middle of the platform's own transactions,
and a page follows it over a stream that may break.

This directory models the part of Aluna where that is hard: who may write, who
may read, what order two stores are changed in, what a crash between two steps
leaves, and whether what the page tells of a run is what happened. Paths below
are relative to `src/src/`, those that start with `public/` to `src/`.

## 1. Inventory

### Modelled components

| Component | Code | State | Operations | Module |
|---|---|---|---|---|
| Write admission | `runtime/concurrency/mutation-coordinator.ts` | one FIFO queue, one active lease, reservation clocks | reserve, claim, cancel, platform write, record write, deletion, release, expiries, abort | `MutationCoordinator`, `WriteLease` |
| Read admission | `runtime/concurrency/read-gates.ts` | a gate per capability incarnation, its readers, retired incarnations | acquire a token set, release, close and drain, reopen, finalize, retire, recover at boot | `ReadGates` |
| Questions over the catalog | `runtime/query/scope/`, `runtime/query/worker/`, `pipeline/query/` | the tokens of a question, its read, its worker thread, its two abort signals | ask, read, cancel, be told to go, reply, resume, let go | `QuestionScope` |
| Capability deletion | `lifecycle/deletion/`, `registry/store/deletion-tombstones.ts` | registry row or tombstone, manifest, files, directories | admit, drain, collect the manifest, tombstone transaction, clean entry by entry, remove the tombstone | `CapabilityDeletion` |
| Deletion cleanup supervisor | `lifecycle/deletion/destruction/cleanup-supervisor.ts` | a timer, a pass, an owed retry, attempts per tombstone | request, force, timer, pass, count failures, boot | `DeletionCleanup`, `DeletionCleanupAsk` |
| Publication and reconciliation | `builder/artifacts/publication/` | artifact tree, registry pointer, lifecycle rows | stage, publish by rename, activate, finalize a failure, reconcile | `VersionPublication` |
| File ledger and file cleanup | `platform/files/store/`, `server/files/` | ledger rows, staged and placed bytes, worker, sweep | upload, claim, discard, sweep, erase, retry, delete with the capability | `FileLedger` |
| Record mutation router | `runtime/router/dispatch/` | the open transaction, the Handler, read ownership, the lease | admit, run the Handler, deadline, write window, commit or roll back | `RecordMutation` |
| Links and linked text | `runtime/data/links/`, `lifecycle/link/`, `builder/link/`, `builder/commit/`, `platform/links/` | relations in the registry, picks in the link table, the copies of the text in the records | save, delete, Link, Unlink, the link step and the waking of relations by a build, boot matching, deletion of a capability | `LinkedText` |
| Logo attempts | `lifecycle/logo/` | logo columns of the registry row, the file, the calls under way, a pass | ask, watch, claim, call, install, settle, recover, serve | `CapabilityLogo` |
| Build jobs and the pipeline's shell | `pipeline/jobs/`, `pipeline/` (admission, revalidation, terminal presentation) | the map of jobs, their signals, the pipeline of a stream, its last frames | create, cancel, prune, stream, resolve, admit, activate, fail, present | `BuildJobs` |
| Browser: the prompt and its run | `public/app.js`, `public/desk/` | the bar and its lock, the story standing in the window, the EventSource | submit, accept, connect, receive, reconnect, cancel, leave, dismiss | `PromptShell`, `PromptHistory` |

### How they interact

* Every writer takes the **write lease** of `MutationCoordinator`. Builds queue
  for minutes and hold it across awaits; platform writes queue briefly; saves
  and deletions take it at once or are refused.
* Every reader takes **read tokens** over the incarnations it may observe; a
  question owns those of every active one. A deletion, under the write lease,
  closes one gate, tells its readers to go, and waits for them.
* A deletion ends in a **tombstone**: a registry row that keeps the id reserved
  until its manifest is erased. The cleanup supervisor, the desk load and boot
  retry what a deletion could not finish.
* A build publishes a directory, then moves the **registry pointer** and closes
  its **lifecycle row** in one transaction. Reconciliation, at boot and before a
  publication, deletes directories on the word of those rows.
* A save runs a generated Handler inside a transaction of the one read-write
  connection. Its file claims are ledger changes of that transaction, and so
  are the **linked fields** it carries the new text to; bytes that it displaces
  are erased later by the **file cleanup worker**, which holds no lease.
* A **prompt** is a job in memory until its stream opens; then one pipeline
  resolves it, waits for the lease, compares the catalog it has read with the
  one it finds, builds or answers, and presents the end to a page that may have
  left. The page locks its bar, keeps one story, and its EventSource reconnects
  on its own.
* Boot (`index.ts`): migrations, upload staging cleared, deletion cleanup, file
  cleanup, gates recovered, artifacts reconciled, logos recovered, links
  matched, and only then does the server listen.

### What is hard here

The `hazards` list of `PROJECT.json` gives each one at its line. In groups:

* *interleavings of callers that never meet*: claims, aborts and clocks of the
  write queue; a token acquired from a catalog that is older than a deletion;
  an upload's late rename against two erasers that hold no common lock; a call
  to a drawing service against a pass that takes it for the call of a dead
  process;
* *two stores*: every order of a row and a file change, with a crash between;
* *untrusted code in a transaction*: a Handler that writes after it answered,
  that is abandoned at its deadline, or that swallows the error with which
  SQLite rolled its transaction back;
* *copies*: a text kept in as many places as it is linked to, down chains that
  may come back to the record that is being edited;
* *retries*: asks that arrive while a pass runs, attempts that run out, passes
  that throw, a stream that the browser opens again by itself;
* *cancels*: of a question whose thread cannot be interrupted, of a build that
  has just gone live, of a job whose stream never opened;
* *liveness*: an abandoned reservation at the head of the queue, a reader that
  never lets go, a Handler that never settles, a bar that stays locked.

What makes each component correct is the list of properties in section 3.

### Components that are not modelled, and why

| Component | Why |
|---|---|
| Intent, specification, units and gate (`pipeline/intent`, `builder/spec`, `builder/units`, `builder/gate`) | calls of a language model one after the other, and checks of what they return on a scratch database: the interesting part is the content. `BuildJobs` has them as stages that may fail |
| Narration, previews, presentation | wording and pure functions to HTML; only the frames that end a story are in `BuildJobs` |
| Registry validation, rename, record statements | pure validation, or single statements under a lease or a transaction that is modelled; the relation rules are in `LinkedText` |
| Migrations, provider, file recognition and ranges | run once, external, or pure |
| Browser: desk, windows, logo menu, controls (`public/desk`, `public/controls`) | geometry, focus, keyboard and drawing of one page; that a window put away takes its story along is in `PromptShell` |
| Design system (`design/`) | static pages and demonstrations, a third of the lines of the repository, with no state outside their page |

The last two rows and the presentation code hold most of the lines that
`map` does not cover.

## 2. The modules

One module per component. A call that runs to its end without an `await` is one
action, because nothing else in the process can run in between; every `await`
that lets others in separates two actions. Timers are actions whose guard is
that they are armed. A crash is an action that forgets everything that is not
on disk or in SQLite.

**MutationCoordinator.** A request is one call. `queue` and `ahead` stand for
`this.queue` (a set, and what stood before each entry when it was pushed);
`lease`, `leaseAborted` for `activeLease` and its controller; `phase` for where
the promise of a caller stands; `clock` for `expiresAt` against now. All
operations end in `Pump`, as all methods end in `pump()`. `RemoveQueued` is
`removeQueuedEntry`. **WriteLease** is what a caller relies on: one lease that is
granted when free and given up by its holder. The coordinator implements it.

**ReadGates.** `gate`, `readers`, `closeLease`, `retired` are the fields of the
class and its gates; `catalog` is the registry snapshot that a reader took
before it acquired, which may be older than a deletion; `Activate` and `Commit`
are the registry changes around it. `closeAndDrain` is two actions, `Close` and
what its wait ends with (a woken drain, or `DrainTimeout`).

**QuestionScope** extends `ReadGates`: a question is a reader with a body
(`body`), one read at a time (`read`), a worker thread (`worker`) and two ways
to be ended early: a closing gate (`signalled`, of `ReadGates`) and the person
(`cancelled`). `Cancelling` is what the abort listeners do at once, whatever the
thread does; `Resume` is the microtask in which the body gets its rows and asks
once more whether it still owns what it read. Every step of `ReadGates` is also
a step here (`Elsewhere` says what it does to the questions), and every step
here is one of `ReadGates`, which is proved.

**CapabilityDeletion** composes deletion, a builder, uploads, readers and the
supervisor's pass over the gates of `ReadGates` (`Gates == INSTANCE ReadGates`,
all its variables are this module's) and over the write lease, which is
represented by its holder. `stage` is how far the holder has come. Files of an
incarnation and its directory are the resources a manifest can name.

**DeletionCleanup** has the supervisor's fields under their names (`running` is
`pass # "off"`), the asks of a deletion, a desk load and boot, and restarts. What
reads the registry may throw: a deletion past its commit (`DeletionThrows`,
`postcommit_failure` of `lifecycle/deletion/http.ts`), the `requestRetry` that
follows a deletion or a pass (`AskThrows`), and the pass itself, its `finally`
included (`PassThrows`). If that leaves no timer, pass or ask, the history
variable `lost` has the tombstones it leaves to whoever asks next.
**DeletionCleanupAsk** adds another history variable: who asked.

**VersionPublication** has the artifact tree as `art` (where the one directory
of each build is, and whether a removal left half of it), the registry as
`life` and `version`, and the lifecycle rows as `row`. `Reconciled` is what
`reconcileCapabilityArtifacts` does to the tree; it is part of the actions that
call it. A directory is whole, staged, or torn: digests are abstracted to that.

**FileLedger** has a ledger row and two places for bytes per key, the upload of
each key as a small process (`up`), a save's claim and displacement, discards,
sweeps, the worker with its pass, wake, delays and timer, and the deletion of
the capability. Both erasers delete a key in two steps, staging first. `Settle`
is what ends every pass; after a good one it reads the ledger to find the
soonest retry, and when that throws no timer is armed (`RetryUnscheduled`, with
the history variable `unscheduled` while nothing else is on its way).

**RecordMutation** has one connection (`open`, `pending`, `committed`), the
route and the Handler of each request as two processes, and the lease. A
statement joins whatever transaction is open; whose it is nobody asks but the
write window.

**LinkedText** has the relations (`rel`, from a field to the field it shows, or
`None`), the fields that are active and single-line (`linkable`; a relation
between two such fields holds, any other sleeps), the picks and texts of each
record and field (`pick`, `text`), and two histories: what was typed while a
relation slept, and the relations whose waking was let fail (`lapsed`).
`Downstream` is what the recursion of `refreshLinkedText` reaches: the least set
of cells that is closed under showing one another. The loops of the code, over
the changed fields of an edit (`Refreshed`) and over the woken relations of an
activation (`Revived`, `Woken`), are recursive functions on the positions of an
order, and the order is any. `Follow`, `Revive` and `Match` are the helpers of
these loops, with the code's name beside each; each action is one transaction. A form and a press are any
value a page that is arbitrarily old could send.

**MCRecordMutation** puts these two together for one run, one at a time: a
save that commits is one step to everybody else, which is what `AllOrNothing`
and `NoForeignWrite` say and what `LinkedText` takes for granted.

**CapabilityLogo** has the logo columns (`status`, `attempts`), the file as the
attempt that drew it (`drawing`), whether somebody truncated it, the tickets in
memory by request (`pc`, `on`), and a pass of `recovery.ts` with the look it took
and the move it is about to make (`moving`, `action`), which may be old by the
time its platform write is granted. `EndTicket` wakes whoever watches.

**BuildJobs** has `job` (the map), `cancelled` and `link` (the two causes of an
abort: the person and the connection), `pc` of the pipeline, `seen` (the catalog
its sentence was read against), `left` and `pipe` (the frames it has yet to write
and those on their way), `row` (the lifecycle row) and `active`, the runs whose
version was committed: the registry, as far as it matters here. A stage of a build that fails is
`BuildFails`, whichever it was. **PromptShell** extends it with the page: the
bar (`busy`), the story of each run (`node`), its EventSource (`es`) with what
the network makes of it, and the person. **PromptHistory** extends that with one
history variable, the jobs whose pipeline was ever `started`: the server forgets
a job when its pipeline is over, and all of them when it dies, so that a job runs
*once* cannot be read off its state.

### Which module relies on which

`CapabilityDeletion` is checked (`GatesRespected`) and proved to drive the
gates only as `ReadGates` allows, and so is `QuestionScope`, so what is proved
there holds for both. `MutationCoordinator` is shown to be the lease of
`WriteLease`; `CapabilityDeletion`, `VersionPublication`, `FileLedger`,
`DeletionCleanup`, `RecordMutation`, `CapabilityLogo`, `LinkedText` and
`BuildJobs` use that: a single holder who keeps it across awaits. Their own
lease variable, where they need one, is that holder and nothing of the queue.

## 3. The runs

`properties` of each run are in its `.cfg`. Every property has a mutant, an
operator beside the definition it changes ("Mutation: ..."), that the run
refutes.

| Run | What it asks | Bounds |
|---|---|---|
| `mutation_coordinator` | `NoLostWakeup`: a free lease never leaves a waiting head behind; `Fifo`; `LeaseImplemented`; `Served`: who waits is served or cancelled | 2 builds, 1 platform write, 1 save, 1 deletion: a queue of three, with an abandoned reservation before and after a waiting entry |
| `read_gates` | `NoReaderOfDropped`; `ClosingEnds`; of a question: `RowsOwned`, `NoThreadLeft`, `ToldLetsGo` | 3 incarnations of 2 capabilities (one is deleted and created again), a reader, a question of one step, 2 deletions, restarts without bound |
| `capability_deletion` | `OneIntactLife`, `DependenciesActive`, `NothingRemains`, `GatesRespected`, `LeaseReturned` | the same 3 incarnations, 2 files, a reader, a deletion, a builder, the supervisor; crashes and failures without bound |
| `deletion_cleanup` | `OwedToOne`: nothing owed is forgotten, and nothing is cleaned by two; `BackoffEnds` | 2 tombstones, 2 rungs of the ladder (one can be spent while the other is young), 3 crashes or exceptions: a deletion and an ask that throw, and a restart between or after them |
| `deletion_cleanup_ask` | `AskHonoured`, violated (section 6) | as above, no faults |
| `version_publication` | `HistoryIntact`, `RowsTellHistory`, `OnlyTornRefuses` | 4 builds over 2 incarnations, 3 crashes: a failed candidate, a successor at the same version, one more version, a build of the other |
| `version_publication_boot` | `BootServes`, violated (section 6) | 2 builds, 2 crashes |
| `file_ledger` | `ClaimedIntact`, `NothingLeftBehind`, `EnqueuedNotForgotten`, `EnqueuedCleaned` | 1 key, 2 rungs, 2 crashes, lost passes or lost schedulings. Keys meet only in the sets that a save, a discard, a sweep and a pass carry; the proofs are for any number of keys |
| `record_mutation` | of the transaction: `AllOrNothing`, `NoForeignWrite`, `LeaseReturned`; of the linked fields: `LinkedShowsTarget`, `RowsUnderRelations`, `RevivalKeepsTyped` | 3 saves of 2 statements, 1 platform write: an abandoned Handler beside two later saves. 2 capabilities with 3 fields (chains of two, one required) and 3 records, 2 texts and the empty one; saves, deletions, Links, Unlinks, activations and boots without bound |
| `capability_logo` | `OneDrawing`, `OneFace`, `NeverBlocked`, `NothingRecreated`, `AttemptsEnd` | 1 incarnation, 2 requests that ask again and again, 2 attempts; deaths, lost files and passes without bound |
| `prompt_run` | `EndingsTellTheTruth`, `OneStory`, `BuildsOnWhatItRead`, `RunsOnce`: no job that ever ran runs again; `EveryRunEnds`, `BarWakes` | 2 prompts, each a build, an evolution, a question or an aside; 1 fault (a dropped or refused connection, a lost cancel, a restart) |
| `linked_text` | `LinkedShowsTarget` with a fourth field, violated (section 6) | 4 fields, all required, 2 records |

`LinkedShowsTarget` passes in `record_mutation` and fails in `linked_text`: the
failure needs two fields that run through one record and back to it, and one
more field that is linked to the first of them. Three fields cannot hold that,
four do. What the passing run shows is thus everything *but* such rings: chains
of two relations, under every order of the operations. The theorem
`LinkedShowsTargetHolds` says the same of chains of any length: its hypothesis
`Quiet` excludes the saves that carry one of their own new texts back to another
field they edited (`Rings`), and nothing else, so what `linked_text` finds is the
only way.

Bounds that are constants of a module are named there: `Rungs` (the length of
the retry ladder, 3 in the code; 1 or 2 already separate "young", "next to
last" and "spent"), `Faults` and `Crashes` (how often the process goes down or
an exception takes a pass, an ask or a deletion), `WritesEach`, `PlatformWrites`, `StepBudget` (the
reads of a question, 10 in the code), `MaxAttempts` (the drawings an incarnation
may be paid for), `MaxRuns`. Attempts are counted up to where the code stops
telling counts apart. No property needs more actors than given: each is about
at most two writers and a third party who comes after, and the theorems below
drop the bounds: they cover every safety property of the passing runs, for any
number of actors, rungs, faults and texts.

`CHECK_DEADLOCK FALSE` stands where requests, builds or prompts are made once,
so that the system stops when all have been used: `mutation_coordinator`,
`version_publication` (both runs), `record_mutation`, `prompt_run`.

### Fairness

Fairness is stated only for what the code's own scheduling guarantees: timers
that are armed fire, promises that are settled continue. Nothing is assumed of
clients, readers, Handlers, threads or models.

* `MutationCoordinator`: the reservation clocks run and their timers fire, and
  whoever holds the lease returns it (each holder returns it in a `finally`;
  `LeaseReturned` in two other runs is where that is shown).
* `ReadGates`, `CapabilityDeletion`: the drain's deadline fires, and a deletion
  goes on after it. A reader may keep its tokens for ever.
* `QuestionScope`: besides, a question that was ended leaves its body, and what
  follows a settled promise runs (`GiveUp`, `Resume`, `Finish`, `LetGo`).
  Nothing makes its thread or its model answer.
* `DeletionCleanup`, `FileLedger`: a pass that runs takes its steps, a timer
  fires, `setImmediate` runs. No desk load and no client is fair.
* `RecordMutation`: the deadline fires and the route closes. A Handler may
  never settle.
* `CapabilityLogo`: a call to the service ends (its own timeout), a watcher
  gives up, and a platform write that waits is granted. The order of the lease's
  queue is not in the module, so the grant is a strong fairness: builds and
  deletions come and go, but the queue is first come, first served (`Fifo`,
  `Served`). Recovery passes are not fair.
* `PromptShell`: per run, the network delivers or reports its loss
  (`Transport`; the heartbeat and the browser's own reconnect), and a pipeline
  takes its steps (`Work`): the deadline of a provider's stage
  (`platform/provider/spine.ts:25`), the one of a terminal presentation, the
  expiry of a reservation and the bound on a question's steps see to that.
  Neither the person nor another job is fair.

## 4. What is proved

TLAPS proves, for all values of the constants that satisfy their named
assumptions (their types, that they are disjoint, and that there are finitely
many fields; nothing about the code):

| Module | Theorems | What the induction rests on |
|---|---|---|
| `MutationCoordinatorProofs` | `TypeCorrect`, `MutualExclusionHolds`, `NoLostWakeupHolds`, `FifoHolds`, `ClaimedNeverExpiresHolds`, `AbortedNeverAdmittedHolds`, `OnlyTheOwnerGivesUpHolds`, `ImplementsWriteLease` | One lemma about `Pump`: applied to a state that satisfies everything but `NoLostWakeup`, it yields one that satisfies all. The invariant adds that the queue is exactly the reserved and waiting requests, that it is totally ordered, and that whoever waits has not aborted |
| `ReadGatesProofs` | `TypeCorrect`, `NoReaderOfDroppedHolds`, `ReadersCountedHolds`, `ReadersToldHolds`, `NoLostDrainHolds`, `ClosingAdmitsNobodyHolds`; of `QuestionScope`: `QuestionsRunTheGates`, `NoThreadLeftHolds`, `RowsOwnedHolds` | Only active rows have gates; a stale catalog names active or retired incarnations only, which is why `retired` must be kept for the life of the process; a closing gate has one closer and a closer one gate. Every step of a question is a step of the gates or none, so what holds of readers holds of questions; a thread that is not closed belongs to a live body (`Standing`) |
| `CapabilityDeletionProofs` | `TypeCorrect`, `OneLifeHolds`, `LiveIntactHolds`, `OneIntactLifeHolds`, `DependenciesActiveHolds`, `NothingRemainsHolds`, `ManifestCompleteHolds`, `GatesRespectedHolds`, `NoReaderOfDeleted` | What the holder of the lease knows at each stage (`Holding`): dependents looked up and resources collected are still true when the transaction runs, because nobody else writes. The last theorem takes `NoReaderOfDropped` over from `ReadGatesProofs` through the refinement |
| `VersionPublicationProofs` | `TypeCorrect`, `HistoryIntactHolds`, `RowsTellHistoryHolds`, `OnlyTornRefusesHolds`, `CommittedImmutableHolds` | `Tree`: a directory is at most one version ahead of its capability and no version has two, so no debris can sit where the next version goes |
| `RecordMutationProofs` | of the transaction: `TypeCorrect`, `AllOrNothingHolds`, `NoForeignWriteHolds`, `PlatformWritesStandHolds`, `ImplementsWriteLease`; of the links: `LinkInvariance`, `RowsUnderRelationsHolds`, `RevivalKeepsTypedHolds`, `LinkedShowsTargetHolds` | Ownership implies the lease (`LeaseHeld`), so whatever may write is the holder; while the holder's transaction stands it has all its statements (`Standing`). The links: see below |
| `FileLedgerProofs` | `TypeCorrect`, `ClaimedIntactHolds`, `NoOrphanBytesHolds`, `NoPendingLeftHolds`, `NothingLeftBehindHolds`, `EnqueuedNotForgottenHolds` | One invariant per key (`KeyInv`): what an eraser works on has no row or an enqueued one (`Hunted`); what an eraser has passed has no staged bytes left, so no late rename can bring it back (`Gone`); a key without a row has no object and no upload that could give it one (`Unowned`) |
| `CapabilityDeletionProofs`, of `DeletionCleanup` | `CleanupTypeCorrect`, `NothingForgottenHolds`, `CleanerFindsTombstoneHolds`, `OwedToOneHolds` | The holder of the lease is exactly who cleans (`Holder`): a tombstone in the hand of its deletion is never in the hand of a pass, and never among the lost (`Spared`); nothing of a process survives it (`Gone`). One lemma for the three actions that throw (`LosingKeeps`): what an exception loses is owed and patient, and nobody is on the way to it |
| `CapabilityLogoProofs` | `TypeCorrect`, `OneDrawingHolds`, `OneFaceHolds`, `NeverBlockedHolds`, `PaidWithinHolds`, `NothingRecreatedHolds` | A request past its claim is alone (`AloneInv`), owns the generating status of its row and its free path (`RequestInv`), and was counted before it paid (`CountInv`); a row that goes back to absent has a free path (`FreeInv`); a row that was served has left generating for good (`FaceInv`); attempts only rise, so an old look of recovery that still matches was followed by no claim (`PassInv`) |
| `PromptShellProofs` | `TypeCorrect`, `RowsTellTheRegistryHolds`, `LandedIsLive`, `EndingsTellTheTruthHolds`, `OneStoryHolds`, `LeaseOfARunHolds`, `BuildsOnWhatItReadHolds`, `RunsOnceHolds` | A run that is told to have ended is past its build and not live (`Settled`), and no step of the server unsettles that; so the page (`Repeated`), the frames on their way and those still to be written (`Honest`) may be as late as they like. Where a pipeline stands decides its job, row, lease and registry (`Progress`); a story stands alone, and none does while a prompt is on its way (`OneAtATime`). A job never goes back to pending, and what was started is not pending (`Known`), so `RunsOnce` rests on every path that ends a job, not on the guard of `stream` alone |

Each invariant is inductive only with the strengthening named; each proof has
one lemma per action and a last temporal step. The type invariants are proved
and not run again. Proved and not a property of a run are also
`MutualExclusion`, `ClaimedNeverExpires`, `AbortedNeverAdmitted`,
`OnlyTheOwnerGivesUp`, `ReadersCounted`, `ReadersTold`, `NoLostDrain`,
`ClosingAdmitsNobody`, `ManifestComplete`, `CommittedImmutable`,
`PlatformWritesStand`, `PaidWithin`, `RowsTellTheRegistry`, `Landed`,
`LeaseOfARun` and `LinkIInv`, and the parts of which `OneIntactLife`,
`OwedToOne` and `NothingLeftBehind` are the conjunction.

**The links.** `LinkIInv` says where texts and rows may be: a row joins two
records, under a relation between two capabilities of the desk; no chain of
relations closes a loop, asleep or not (`Relations`); a cell typed under a
sleeping relation has no row (`Unlinked`). `LinkedShowsTarget` is carried on top
of it, by what each half-done write still owes. A refresh: every link shows its
target, or leads to one of the changed fields whose round is to come
(`Pending`); a round leaves the earlier ones alone because what it reaches is
none of them, which is what `~Rings` says. A wake: every link shows its target
but those of the relations whose turn has not come (`ShownIn`), and waking the
later one does not disturb the earlier. The loops themselves are recursive
functions: `Inductive`, from the well-foundedness of `<` on `Nat`, is the
induction over their rounds, and `Iterates` that such a function exists at all.

**Hypotheses.** Two theorems have one beyond the assumptions on the constants.
`EndingsTellTheTruthHolds` is proved under `~ViewFails` (section 6, known gaps;
`LandedIsLive` needs no such thing: what the page shows as landed is live even
then). `LinkedShowsTargetHolds` is proved of the behaviours whose saves do not
ring (section 6, the third finding).

**The lease, from both sides.** `MutationCoordinatorProofs` shows that the
coordinator is the `WriteLease`; `RecordMutationProofs` shows that a save uses
it as one: granted when free, kept over every await of its Handler, given up
once. A save that was turned away never held it, so the refinement counts as
`done` the closed ones whose invocation began (`GaveBack`).

**Only model-checked.** Liveness and fairness (`Served`, `ClosingEnds`,
`ToldLetsGo`, `LeaseReturned`, `BackoffEnds`, `EnqueuedCleaned`, `AttemptsEnd`,
`EveryRunEnds`, `BarWakes`): temporal reasoning under fairness and `ENABLED` are
out of the prover's reach. And what is violated (section 6): `AskHonoured`,
`BootServes`, and `LinkedShowsTarget` where saves ring. No module uses a
`RECURSIVE` operator.

## 5. Abstractions

* Content is left out everywhere: rows, files, specifications and digests are
  identities. What is told apart is existence, wholeness and ownership.
* The write lease is a single holder in all modules but its own, justified by
  `LeaseImplemented`.
* Publish locks on disk are left out of `VersionPublication`: they hold against
  a second process only.
* In `FileLedger` a save is one step, and so it is in `LinkedText`. That its
  statements are atomic, whatever its Handler does, is `AllOrNothing` of
  `RecordMutation`. An erase that times out may finish later; a key is never
  minted twice, so that is left out.
* In `QuestionScope`, `steps` counts reads and refused decisions alike. A
  thread that was terminated may burn its processor for a while; a reply of the
  wrong kind is the thread's death.
* In `LinkedText`, spellings that compare equal are one text, and the length
  rule of a field is left out, as is a Handler that stores another text than the
  form carries. A build's link step adds one relation at a time.
* In `CapabilityLogo` incarnations meet only in the lease, so one is enough. A
  drawing is staged and linked in one step; the staging file is never at the
  logo path. Without a drawing service configured nothing happens at all.
* In `BuildJobs` the catalog a run has read is stale when another run has
  committed since; other changes of the catalog are like it. A link-only request
  is `LinkedText`'s `Link`. In `PromptShell` a page load, the question about an
  unsaved form, focus, titles and what a story shows are left out.
* `stop()` of the supervisor and `snapshot()` of the coordinator have no caller
  that changes a property.

## 6. Findings

**An ask of a desk load can be dropped** (`deletion_cleanup_ask`). A desk load
asks for a pass over *everything* owed, exhausted tombstones included
(`cleanup-supervisor.ts:139`). While a pass is in flight the ask is kept in
`retryOwed`, to be honoured when the pass ends ("rather than leaving it
dropped", lines 121-122). But the end of the pass hands it to `requestRetry()`,
line 125, which leaves exhausted tombstones out. If nothing else is owed no timer
is armed and the ask is gone; the next desk load asks again.

**A crash inside a removal can stop boot** (`version_publication_boot`).
Reconciliation removes a published candidate that never went live with a
recursive `rmSync` (`artifact-reconciliation.ts:89`). If the process dies
inside it, the next boot tries to prove the candidate from its own manifest,
cannot, and refuses to serve, on every start. `docs/architecture.md:1009` says
that every store change is ordered so that a crash leaves something boot can
repair. `OnlyTornRefuses`, proved, says that this is the only way to get there.

**A refresh can write an old text over the one it has just written**
(`linked_text`). An edit of a record `r` changes its field `a2` and picks, for
its field `a1`, a record that shows `a2`. `refreshLinkedText`
(`runtime/data/links/linked-text.ts:62`) goes through the changed fields one by
one and takes each text from `after`, the record as the save wrote it. The round
of `a2` carries the new text to the picked record, from there back into `a1`, and
on to every field linked to `a1`; the round of `a1` then carries the text of
`after`, by now old, to the same fields. They keep the old name under a relation
that holds. `docs/adr/0011-linked-capabilities.md:135` says "When a target's text
changes, every field linked to it follows."

### What an exception takes with it

The promises about retries except what an exception took, and say of it that it
is really on its own and that the next ask takes it along:

* `NothingForgotten` (of `OwedToOne`) and `BackoffEnds` except the `lost`
  tombstones. A deletion that throws past its commit is told as one whose
  cleanup is pending (`lifecycle/deletion/http.ts:157`, 166-174), but only the
  ending `cleanup_pending` asks for a retry (line 153), although the comment of
  lines 151-152 says of that ending: "'I still have a little tidying up to do'
  has to be true of *this* process, not just of the next boot." The tombstone
  waits for another deletion, a desk load or a boot. So it does when
  `requestRetry` cannot read the registry, or a pass throws.
* `EnqueuedNotForgotten` and `EnqueuedCleaned` except passes that keep throwing
  (`failedPasses` past the ladder) and a retry whose scheduling threw
  (`unscheduled`, `server/files/cleanup/file-cleanup.ts:153-157`, where it is
  only logged). The key waits for a client or a desk load.

### Known gaps without a run of their own

* Leaving a run from the desk closes its stream as *replaced*, which
  `public/app.js:111` ignores: the bar stays locked until the next run ends or
  the page is loaded (`public/desk/leaving-a-run.js:286`). `BarWakes` excepts it
  by the history variable `taken`.
* An evolution is live and drawing its view throws
  (`pipeline/evolution/intent/explicit-presentation.ts:59`): the page tells a
  failed change. The constant `ViewFails`, `FALSE` in the run, lets it happen;
  `EndingsTellTheTruth` is then violated.
* An answer window whose prompt was replaced keeps saying it is still looking
  (`public/desk/window/desk-answer-window.js:714`). What that window says is not
  modelled.
* An activation goes on when waking a relation fails (`builder/commit/commit.ts:133`,
  deliberately): such relations are `lapsed` and excepted from
  `LinkedShowsTarget`.

## 7. What could follow

* A refinement between `RecordMutation` and `ReadGates`, as deletions and
  questions have: today a save's tokens are one Boolean per request.
* The use of `WriteLease` by its other clients, as a refinement like a save's.
  Builds and passes come back for it, and a restart drops it without giving it
  up, so `WriteLease` would have to tell one holding from the next.
* The generations of a publication lock, when two processes share a data
  directory; the question a page asks about an unsaved form.
