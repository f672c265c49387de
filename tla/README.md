# PixelFlow in TLA+

Specifications of the concurrent core of PixelFlow: the Gateway (FastAPI, several
processes over one SQL database), the Agent Harness Sidecar (one process, SQLite), and
what lies between them and their remote services.  Every module is written from the code
under `src/`; `PROJECT.json` names the lines each definition stands for.

    tlc -workers 2 -config jobs.cfg MCGenerationJobs.tla      # a run
    tlapm GenerationJobs_proofs.tla                           # the proofs

## 1. Inventory

| part | state | operations | what is hard | what makes it correct |
|---|---|---|---|---|
| Generation jobs (`generation_jobs/`) | job rows with status, lease, provider id; credentials in memory | submit, claim start/poll, start, poll, reschedule, complete, reopen | scans that overlap, leases that expire under a request, lost answers, crashes | one verdict per job, only created tasks are polled, nothing is stuck |
| Generation write-back (`projector.py`, `workspace_mutation.py`, the generating Tools) | asset registry and scenes of the workspace | Tool patch, worker projection, replan | two writers with stale reads, revision conflicts | the workspace shows what the provider delivered and keeps what it showed |
| Media providers (`capabilities/`) | external tasks | start, status | answers lost or ambiguous | an unknown start is not taken for a task |
| Long-term memory (`long_term_memory/`) | write outbox, event ids | enqueue, deliver, poll, review, replay | read then commit without lock, add of unknown fate, replay against the worker | a write is not added twice unless its owner asks |
| Sidecar runs (`run_service.py`, `event_store.py`) | run rows, event log, tasks, SDK threads | create, activate, execute, cancel, close, reconcile | cancel against completion, threads that outlive their task, crash between two commits | one final verdict that log and status agree on |
| Run projection (`agent_harness/projector.py`, `sidecar.py`, SSE endpoints) | outbox of public events, messages, open streams | stream, publish, snapshot, watch | several Gateways, broken streams, slow readers | the outbox is the Sidecar's log, in order and once |
| Tool broker (`agent_tools/broker.py`, `repository.py`) | ledger of Tool calls, interrupts, resume runs, run credentials | call, confirm, cancel, authorize, resume | retries, cancelled requests, crash after the claim, double answers | a Tool's effect happens at most once and only when confirmed |
| Conversation routes, turn start (`pixelflow_conversations.py`, `start_harness_turn`) | message, binding and admission rows, the runs of the Sidecar | start, repeat, cancel a turn | a chain of awaits over four stores without a common transaction | Gateway and Sidecar agree about every bound run; an answered turn goes on |
| Recovery and admission (`recovery.py`, `admission.py`) | recovery events, one switch with a revision | recover, refuse, review, close, open | concurrent recoveries, a late Tool call, a stale close | no run is recovered after a Tool call; a close does not overrule a later opening |
| Agent runtime repository (`repositories.py`) | public events, deliveries, cursors | append, claim, complete, read pages | numbers chosen before the transaction, leases that expire | no event lost, no gap, order kept |
| Turn queue (`compaction_queue.py`) | turns, coordination row with lease and token | register, enqueue, claim, complete, acquire, finish | four operations that hand out the next turn, late finishes | one turn at a time, in order, none under a lease; one outcome per lease |
| Plans (`video/workspace`) | plan, steps, quota card | save, start, confirm, complete, fail, cancel | a failure that reads before it locks, cancels in between | a step's events tell its story once; a quota cancel is whole |
| Video workspace (`video/workspace`) | one row per workspace, a revision | patch with revision, merge of scenes | concurrent patches | a scene is not undone by the writer of another |
| Conversation store (`tasks/store.py`) | conversation rows with a revision, draft records | read, edit, runtime patch, draft report | old copies, late reports from two routes | a revision names one content; a draft never goes back |
| Message jobs (`pixelflow_conversations.py`) | table of background jobs, messages | start, poll, look up, insert, edit | repeated starts, trimming, end of the process | the first content stays |
| Gateway app, authentication, platform | configuration | start, stop | | |
| Engine plugins (TypeScript) | counters of one run | hooks | | |
| Web client (`useAgentConversation.ts`, `reducer.ts`, `eventStream.ts`) | the view of one run, one event stream | open, send, confirm, refresh, recover, apply snapshot and events | every await lets other flows run; answers used late; streams that break | the view is whole, of the open conversation, and reaches the end of the run |
| Skills, scripts, deployment | files | | | |

The parts meet in four places.  A turn's request stores its message, creates a run in the
Sidecar, binds it and activates it.  The Sidecar executes a run and calls the Gateway's Tool
broker; a Tool submits jobs and patches the workspace, and the job worker patches it again
when the provider has answered.  The Gateway streams the Sidecar's log into its own outbox,
from which snapshot and browser are served.  Everything else talks through rows of the
database.

## 2. Modules

| module | models | composed of |
|---|---|---|
| `JobLifecycle` | abstract: what a job promises whoever looks at its row | |
| `GenerationJobs` | the queue, its workers and their calls | implements `JobLifecycle` |
| `GenerationWriteBack` | jobs, the submitting Tools, storyboard edits and the workspace | `GenerationJobs` |
| `MemoryOutbox` | the memory outbox, its worker, replays | |
| `RunService` | abstract: what the Sidecar promises its callers about runs | |
| `HarnessRun` | runs inside the Sidecar | implements `RunService` |
| `RunProjection` | runs, projection tasks, outbox, messages, browser | `HarnessRun` |
| `TurnStart` | turns, bindings, recoveries and the admission switch | uses `RunService` |
| `ToolBroker` | the ledger of Tool calls, interrupts, credentials, effects | |
| `InterruptResume` | the routes that answer an interrupt, the resume runs, the engine's calls | `ToolBroker` |
| `EventLog` | public events, their delivery and paging | |
| `TurnQueue` | registration, queue of turns, compaction leases | `EventLog` |
| `PlanSteps` | one plan, its steps, its quota card | `EventLog` |
| `ConversationStore` | the aggregate of a conversation and its draft records | |
| `MessageJobs` | background saving of messages | |
| `AgentConversation` | the browser's view of a conversation against the Outbox | |
| `GenerationJobs_proofs` | theorems about `GenerationJobs` and `GenerationWriteBack` | `GenerationWriteBack`, TLAPS |
| `RunProjection_proofs` | theorems about `HarnessRun`, its refinement and `RunProjection` | `RunProjection`, TLAPS |
| `Conversation_proofs` | theorems about `ConversationStore`, `MessageJobs`, `TurnQueue` and `AgentConversation` | these four, TLAPS |
| other `*_proofs` | theorems about the module of that name | the module, TLAPS |

`HarnessRun` and `TurnStart` meet in `RunService`: the first is shown to implement it, the
second takes its actions for the Sidecar.  `TurnQueue` and `PlanSteps` append to the log of
`EventLog` with their own transactions.  `MC*` modules hold the constants of the instances;
`MCConversation` is the disjoint union of `ConversationStore`, `TurnQueue`, `EventLog` and
`MessageJobs`, whose tables no operation writes together, and `MCTurnAndPlan` that of `TurnStart`
and `PlanSteps`.

### GenerationJobs
`row[j]` is the database row, one action per repository operation (each is one
transaction).  A worker's `run_once` is `Reopen`, `ClaimStart`, `ClaimPoll` and the gather
over the claimed jobs; each claimed job is a call `<<process, job, generation>>` that moves
through `Begin`, `StartAnswered`/`PollAnswered` and `Settle`, `Raise` or `Finish`.  `gather`
has no `return_exceptions`: when a call raises because its lease is gone, the scan goes on
while the siblings still run.

Abstractions: time is a flag (a lease is live or not, a poll is due or not) and expiry is an
action; the claim's order is any subset of the allowed size; the providers honour the
`Idempotency-Key`; a Tool call submits one job; a conflict of revisions is repeated until it
succeeds or gives up (`MaxContention`).  `TIMEOUT` and `EXPIRED` of a provider become
`failed`, as in the code.  The path that reads an existing job back on submission is left
out: the Tool ledger never lets a call get that far twice.  The in-memory repository is a
double of the SQL one.

### GenerationWriteBack
A Tool reads the workspace, inserts its job and then patches, from what it read
(`OpenTool`, `PatchFromTool`), or replans an asset (`OpenReplan`, `PatchReplan`); the worker
patches from a fresh read (`WriteBack`).  A revision of the storyboard (`OpenEdit`,
`PatchEdit`) sends every scene as it was read and resets those the user named.  The registry of assets is replaced as a whole and scenes are merged one by one
(`_merge_scenes_by_id`), which is why scenes are safe from each other and assets are not.
`lost` records the decided jobs whose write-back a crash, three conflicts in a row, a Tool
slower than the provider, or an edit sent from an older read has undone for good; `DecidedIsShown` holds for
the others, with one worker whose requests end within their leases.  With two workers or a
gather that was left by a raise it does not (section 5).

### MemoryOutbox
Every operation of the outbox reads and commits in two steps, and the commit writes the
columns the operation has changed and no others (`Flush`): the session's unit of work has
no version column.  `Add` may be lost, arrive, or arrive without its answer; `Store` is the
external service, without fairness.  The answer of `add` without an id becomes the text
`None`, which is polled like an event (`"bogus"`).  A background intent that a crash
loses is `Crash` before `Enqueue`.

Every call of the database may fail (`EnqueueFails`, `ClaimFails`, `OpFails`, `ReplayFails`).
Inside the `try` of `run_once` the except branch reviews the write; in the claim, in the
commits after `add` and in that branch itself nothing catches the error, and the worker is
`Ended`: the task is done, `start()` finds `_task` set, and only a restart of the Gateway brings
a loop back.  `guarded` of a worker says on which side of the `try` its operation is.

### HarnessRun
The Sidecar is one asyncio loop whose handlers never suspend inside the event store, so a
handler is atomic for the others but commits several times: `loop` is the place between two
commits, where only a crash can fall.  `Script` lists the commits of `_execute` for every
outcome.  The SDK call runs in a thread (`sdk`) that outlives its cancelled task.  The
kinds of suspension and the failure codes other than `harness_run_recovery_required` are
merged.

### RunProjection
A stream has two loops, the Sidecar's (`ReadBatch`, `CheckStatus`) and the Gateway's
(`Publish`, then `Pass`: the event and the final message are two commits).  A projection
starts at the first event every time and skips what is published; `outbox[r]` holds the entries
of run `r` by sequence, for no query of the code relates entries of two runs.  The Sidecar reads the
status after a batch is sent, not with it.  Interrupt events are not in the model yet.

### TurnStart
A `request` of the Gateway is one walk through `start_harness_turn` or through the recovery
of a failed run: `BeginTurn`, `AddMaterials`, `StoreMessage`, `BuildContext`, `CreateNew` or
`CreateKnown`, `Bind`, `Activate`, `ConcludeTurn`; and `BeginRecovery`, `CheckLedger`,
`FindSource`, `MarkManualReview`, the same creation and binding, `ConcludeRecovery`.  It may be
dropped after any of them, and its repetition meets whatever it left.  The run of a turn is
named by the input, the run of a recovery by the run it recovers, so a repetition names the
same run; the digest is the revision of the workspace that its context was built from.
`Unreachable` is an unhealthy Sidecar, which leads to `CloseSwitch`; a refusal of a
healthy one leads there as well.  `veterans` and `answered` are history variables.

`recoverable` holds the runs whose `run.failed` says `harness_run_recovery_required`: those a
restart has closed, and those `RunFinishes` ends without a public reply while the Sidecar is up.
`CallTool` is the broker's claim of a run's first call.  It does not look at the status of the
run, so the claim may come when the run is long closed, also behind the look of its recovery at
the ledger; `looked` and `late` record the two as history, because `RecoveredSafely` promises
what the look can promise and no more (section 5).

The verification of a release before the switch is opened is one action (`OpenSwitch`), and
a Tool call is only its entry in the ledger.

### ToolBroker and InterruptResume
A `handler` serves one HTTP request of the engine plugin: `Claim` inserts or reads the ledger
row, then come `CheckConfirmation`, `LoadWorkspace`, `TakeCredential`, `Execute`, `Observe`
and `Complete`, one action per await of `AgentToolBroker.call`.  A `request` serves one
answer of a user: `Receive`, `Respond`, `PutGrant`, `CreateRun`, `BindRun`, `Activate`,
`BindResume`.  Both may be cut off at any of these places (`GatewayCrash` empties `handler`,
`request` and `vault`; `CreateFails` and `ActivateFails` lose the Sidecar's reply before or
after its commit).  What the engine knows of the workspace is `engine[r].seen`, the one
number that the plugin sends with every call and advances with completed answers only.

A run is named by the chain of interrupts and responses that led to it, which is what the
code hashes into `run_id` (`_sidecar_request`); two requests meet in one run exactly when
they carry the same chain.  `effects` is a history variable: what was executed, for which
call, with which credential.

Abstractions: three kinds of tools (plain, confirmed, costly) stand for the manifest; the
workspace is its revision; the digest of a resume run is the revision its request has read
together with its route, so that two requests differ in the digest when they read different
workspaces.  The revision check of `respond_interrupt` is left out, because a client
that shows the current workspace always passes it.  A cancelled request is a failed one whose
answer nobody hears.  Left out because no state reaches them: calls of a run without
binding, tools outside the frozen manifest, a costly tool that needs no confirmation, and
forms, which no tool raises at this commit.  Only the routes the web client uses are enabled
in the instances (`UsedRoute`); the confirmations route is modelled too.

### EventLog, TurnQueue, PlanSteps
`ReadLatest` picks the number of an event and `CreateEvent` stores it in a later
transaction, which corrects a number that has been used.  Deliveries are claimed under a
lease (`ClaimEvent`, `ExpireDelivery`, `CompleteDelivery`); a reader pages by cursor.

In `TurnQueue` every operation is one transaction under the coordination row.
`RegisterNew` writes the turn and two events; `ClaimNextTurn`, `CompleteTurn`,
`FinishWithEvent` and `FinishSilently` may each hand out the next turn.  `store` chooses the
SQL repository or its Memory double, which differ: SQL ignores `retry_not_before` and
keeps the requested status on enqueue, Memory lets a finish that asked for a retry be called
again with the same token and takes turns by `created_at`.  `InboxOrder` and `LeaseEndsOnce`
are stated for SQL, the one the application installs when it has a database.  Outside
its package and the tests, `src/` calls only the event operations of this repository;
the queue is modelled as its package defines it.

`PlanSteps` has one action per operation of both repositories.  A step and its event move
in one transaction; `FailReads` and `FailCommits` are apart because the SQL failure reads the
plan without the lock of its row.  Compare-and-set writes that are refused change nothing
and are left out.  `SavePlan` takes any step ids and any statuses, those of the revision before
included: nothing in `src/` makes the ids of a new save new.  The id of an event is made of
plan, step id and phase (`SameId`), so `HasEvent` finds the event of a row that the save has
replaced, and the new row writes none.  `gen` in rows and events is history: the revision that
inserted the row.  The quota card and its cancellation do not know it either; `ended` records
which row was cancelled.

### ConversationStore and MessageJobs
A tab reads the row and writes an edited copy later (`UpdateConversation`, with a revision);
`PatchRuntime`, `ResumeConversation` and `PatchJianyingDraft` patch without one.  A draft is
one record per storyboard version; merging, the pending job and the phase are translated,
while camel and snake case copies of a field are one.  A link expires (`ExpireLink`) in the
row and in every copy of it, because time passes for all.

A start of a message job is let in (`AskAppend`) and handled later (`StartAppend`); the job
looks the message up and inserts it in two steps.  The table is trimmed from its oldest end
whatever the status of the job, and is gone after a crash.

### AgentConversation
A `flow` is one call of the hook that waits for something; its `step` says for what.  The
server answers a flow (`AnswerRead`, `AnswerAsk`) at one moment, and the answer is used at a
later one (`OpenArrives`, `OpenHydrates`, `SubmitArrives` and so on), so answers overtake each other
freely.  `hydrateRun` writes the Snapshot over whatever the view shows; only
`openConversation` compares the generation, and it does so after `hydrateRun`.
A stream is a flow that reads (`ReadEvent`), reads a Snapshot in between (`ReloadArrives`),
pauses and connects again (`Reconnect`); `Stopped` is what an abort reaches, and a read that
waits for its Snapshot is not among it.  After its loop a stream reads a last Snapshot and looks
for a newer run (`FinalArrives`, `NewerArrives`).

`unfollowed` is a history variable: an unfinished Snapshot came into the view while no stream
would read what follows it (section 5).  `EndIsShown` holds as long as that has not happened.

Abstractions: an event is its run and its effect on the status; the four suspensions and the
verdicts are one each; a run's first delivery and the limit of the events in a Snapshot are
left out.  The effect that copies the rendered state back into `runtimeRef` (lines 107 to 126)
is left out: it can put the view back to an earlier one of the same run for a moment, which the
check of sequence numbers answers like any other gap.  Form answers and
authorizations end like confirmations.

## 3. Runs

| run | bounds | shows |
|---|---|---|
| `jobs` | 1 job, 2 processes with one worker id, 2 generations of calls, 2 late leases, 2 crashes | `LeaseExclusion`, `VerdictIsFinal`, refinement of `JobLifecycle`, `StartResolves`, `DuePollAnswered` |
| `two_scenes` | 2 videos of 2 scenes, 1 crash, 1 storyboard edit | `DecidedIsShown` |
| `one_asset` | 2 images of 1 asset with replans, 1 crash, 1 contention | `ShownSuccessIsReal`, `StatusContract`, `PolledWasAccepted` |
| `lost_image` | 2 images of 2 assets | violation of `FinishedImageKept`: a finished image goes back to generating |
| `outbox` | 1 write, 2 replay requests, 2 replays, 3 crashes or database errors, 3 polls | `NoAutomaticResubmit`, `ReviewWaitsForOwner`, `DeliveryResolves` |
| `projection` | 1 run, 5 outcomes, 2 notes, 2 Gateways, one fault of either side | `OneVerdict`, `UnfinishedIsOwned`, refinement of `RunService`, `OutboxFollowsLog`, `VerdictComesLast`, `CompletedHasReply`, `RecordedVerdictIsShown` |
| `resume_chain` | a confirmed and a costly tool, 2 resumes in a row, 2 calls in the last run, 2 interchangeable handlers, 1 request | `OneEffectPerCall`, `ConsentedEffects`, `OwnCredential` |
| `resume_requests` | 1 confirmed tool, 2 requests, 2 responses, 1 foreign write, 1 fault | `OneResumeRun`, `ResponseIsHonoured` |
| `turn_and_plan` | turn: 1 input with materials, 2 interchangeable requests, 1 generation of recoveries, 2 faults, 3 revisions of the workspace and of the switch; plan: 2 step ids, 1 with a consent, 2 revisions, saved with any of the ids, running or planning and each step pending or running, 1 quota card, 3 events | `BoundAsAccepted`, `AnsweredTurnGoesOn`, `RecoveredSafely`, `ReopenedStays`, `StepStory`, `QuotaCancelIsWhole` |
| `admission` | the same turn, 1 generation, 2 faults | violation of `OnlyHealthCloses`: a healthy refusal closes the switch |
| `conversation` | row: 2 tabs, 1 edit, 2 draft jobs, 1 version, 5 revisions; turns: 3 inputs, 2 tabs, 2 compactors, 2 leases, 2 outcomes; events: 2 writers of 1 note, 1 deliverer with 2 attempts, pages of 2; messages: 2 messages, 2 contents, a table of 1 job, 3 jobs, 1 crash | `RevisionNamesContent`, `DraftNeverGoesBack`, `ExecutionIsExclusive`, `LeaseEndsOnce`, `InboxOrder`, `NoEventLost`, `DeliveredInOrder`, `FirstContentStays` |
| `client` | 1 conversation, 2 runs, 3 events, 2 flows at once, 2 openings, 1 request, 1 fault | `ShownIsPrefix`, `EndIsShown` |

Why these bounds are enough.  A hazard of the job queue needs two calls on one row: an old
and a new one (`Gen` 2, late leases) or two processes.  A crash matters between two commits,
and two of them let the second hit what the first has left.  Two jobs are the least that can
overtake each other on an asset or a scene.  In the outbox, keys meet only through the
serial worker; two replays of one row race with each other and with the worker.  Two notes
are the greeting and one delta, which may come after the verdict.  A confirmation that is
followed by an authorization is the longest chain a tool asks for, so two resumes; the second
call in the last run is what could spend a credential again.  Two handlers are a call
and its repetition; two requests with two response ids are a double click, two tabs, or a
reload.  Inputs of different turns share only the switch and the workspace, which move freely,
so one input is enough for a turn; the recovery of a recovery is refused for want of a message
(`HasSource`), and the theorem covers it.  A second save of a plan is the first that can bring
back an id whose events are stored; that a save may give any status is left to the theorem.  Three inputs are one that runs and two whose order can be wrong; two
compactors are the owner of an expired lease and the next.  Two jobs of one draft version
are the old one and its replacement.  A table of one job is full at the second start.
In the browser a stream and the Snapshot beside it are two flows, and so are the old and the new
opening; three events are one of another run between two of the shown one.

The bounds that cost something: images in `two_scenes` would exercise the registry part of
a storyboard patch as well, and `PlanSteps` runs without other writers of events, which only
shift numbers.  Where theorems exist (section 4) the bounds do not matter.

`CHECK_DEADLOCK FALSE` stands where everything comes to an end: all writes decided, all runs
finished, or the bounds used up.

Fairness.  Jobs: the scan loop never stops while its process lives (`_run` swallows errors),
HTTP timeouts end requests, time passes, and a Gateway is restarted.  Outbox: the loop of
`MemoryWriteWorker` swallows nothing outside its `try`, so it is fair only until an error of the
database has ended it (`Ended`), and `DeliveryResolves` claims nothing once no loop is left; time
passes, a Gateway that crashed is restarted, and nothing is assumed of Mem0, nor that somebody
restarts a Gateway whose loop has ended.  Sidecar: the loop runs its ready handlers, the process is
restarted, and an SDK call ends (its budget is finite).  Projection: both loops of a stream
run, the browser keeps its SSE open, and (`Refresh`) somebody loads the snapshot again and
again.  Resumes: a request that has begun is served to its end, and the user keeps
answering an interrupt that still shows no run (`Retry`, strongly fair because a foreign
request may be in the way); nothing is assumed of the engine, of the handlers, or of who
writes the workspace.  Browser: requests end, pauses pass and a stream that is read goes
on (`FlowStep`); nothing is assumed of the user or of the runs, and losses are bounded.  Nobody is
ever obliged to cancel, to answer first, or to replay.
`TurnStart`, `EventLog`, `TurnQueue`, `PlanSteps`, `ConversationStore` and `MessageJobs` state
safety only: no loop of the code drives them, their operations come from requests.

## 4. Proofs

Every safety property of every passing run is a theorem, for all constants that satisfy the
named assumptions of its module.  Some have a further hypothesis, which is part of
the theorem:

| theorem | hypothesis | why |
|---|---|---|
| `LeaseExclusionHolds`, `DecidedIsShownHolds` | `late = 0`: no lease has run out under a request so far | a late lease is what the two are broken by |
| `DecidedIsShownHolds` | `OneProcess`: at most one Gateway process | false for two, section 5 |
| `OutboxInvHolds`, `NoAutomaticResubmitHolds`, `ReviewWaitsForOwnerHolds` | `OneProcess` | false for two, section 5 |
| `OneResumeRunHolds` | the routes in use do not hold both confirmations and authorizations | the code would let the two start one run each |

No property below is inductive by itself; the paragraphs name what has to be added and why.

`GenerationJobs_proofs`, on the queue: `TypeCorrect`, `StatusContractHolds`,
`PolledWasAcceptedHolds`, `VerdictIsFinalHolds`, `ImplementsLifecycle`, `LeaseExclusionHolds`.
`IInv` adds per row: a live lease only on a row that is starting or polling (so `complete`,
which checks the lease and no status, cannot touch a verdict); an absent row is unbound; a
bound row was accepted; and per call: what the answer of a start says implies that the
provider has the task.  `RowMoves` lists the nine ways an action may change a row; each action
is shown to make only those, and the properties of steps are proved once per move.
`Exclusive` strengthens `LeaseExclusion`: as long as no lease expired under a call, every
active call holds the lease and no job has two.

On the write-back: `QueueKept` (the composition behaves as the queue, which carries all of the
above over), `WriteBackInvHolds`, `ShownSuccessIsRealHolds`, `DecidedIsShownHolds`.  What the
workspace shows is not inductive because Tools, replans and edits write back what they read
long ago.  `WInv` therefore speaks of copies: each copy of the registry or of a scene, whether
stored or held by a Tool call or an edit, shows no success that is none, and a copy of a scene
shows nothing of a job that no Tool has registered there yet.  A success is never taken back
(`SuccessStays`, from `VerdictIsFinal`), so a copy that was right stays right however late it is sent.
`DecidedIsShown` needs three more facts: with one process and no late lease every call in
flight is one the gather awaits (`Scheduled`), so the verdict a call is about to project is
still the row's (`ProjectsRow`), and a decided video that is not lost is shown or about to be
(`ShownOrProjecting`).

`RunProjection_proofs`, on the Sidecar: `TypeCorrect`, `OneVerdictHolds`,
`UnfinishedIsOwnedHolds`, `RunServiceImplemented`.  The invariant adds what the handler between
two commits still has to write (`LoopInv`), which tasks and threads may exist for a status
(`TaskInv`), what is left when the process is down (`DownInv`), and that an event of a verdict
is only written once the status is that verdict (`VerdictInv`).

On its readers: `PInvHolds`, `OutboxFollowsLogHolds`, `VerdictComesLastHolds`,
`CompletedHasReplyHolds`, `SidecarStaysWhole` (the Sidecar's theorems under the composition).
The Sidecar only appends to a log (`LogGrows`), so what was read stays true.  `TaskOK` says of
each stream that everything behind its position is in the outbox, that none of it stops a
projection, and that its reply has been stored (`Behind`); `OutboxOK` says the same of the
outbox of a run but for its last entry, whose message is the second commit of `Pass`.
`ReplyInv` (a log that says `completed` has said `response` before) gives `CompletedHasReply`.

`TurnStart_proofs`: `BoundAsAcceptedHolds`, `AnsweredTurnGoesOnHolds`, `RecoveredSafelyHolds`,
`ReopenedStaysHolds`.  `SInv` says for each request what the place it has reached guarantees
about the stores (`RequestOK`), with what the stores never take back (`Grows`: accepted
digests, bindings, links, recoverable runs, ledgers that were looked at) to carry it over the
steps of the others.  The ledger itself may grow behind a look: `SeenEmpty` says that what it has
gained since is `late`.
`SwitchInv` says that a request older than the last opening holds an older revision.

`InterruptResume_proofs`: `OneEffectPerCallHolds`, `ConsentedEffectsHolds`,
`OneResumeRunHolds`.  `IInv` says that an executing row of the ledger has at most one handler
past its claim, what each handler and request knows, and that every run is the end of a
chain of consents (`Chain`).  `PurseInvHolds` and `OwnCredentialHolds` follow each credential
from the request that sent it to the effect it paid for: it is in the vault, in the hands of
one handler, or spent, never in two of these places, and always under the interrupt its user
answered (`VaultOK`, `HandOK`, `SpentOK`).  Credentials of one interrupt are told apart by a
number, and a new one takes a number that is not in use (`FreshCredential`); there is one because only
finitely many are, which is what `TicketAssumption` is for: there are finitely many handlers at
a time, and the ticket of a request is no run id.

`MemoryOutbox_proofs`: `OutboxInvHolds`, `NoAutomaticResubmitHolds`,
`ReviewWaitsForOwnerHolds`.  `NoAutomaticResubmit` counts what has been sent; the invariant
(`SentInv`) counts in addition what still may be: a row that has neither event nor attempt is
one chance, a worker that holds a first attempt is one, and sends and chances together never
exceed one plus the replays.  An error of the database leaves the row as it is and makes a worker
hold less (`FailIs`).  Since a commit writes the changed columns only, `WorkOK` and
`RequestOK` have to say what the row may have become between the read and the commit.

`EventLog_proofs`: `NoEventLostHolds`, `DeliveredInOrderHolds`.  The log holds as many notes of
a writer as the writer has stored (`NotesInv`); nothing but the first unpublished event is ever under
delivery (`InOrder`); and a reader has been handed the first events of the log, each once
(`FeedInv`), which rests on what `Ascending` makes of a page.

`PlanSteps_proofs`: `PlanInvHolds`, `StepStoryHolds`, `QuotaCancelIsWholeHolds`.  `Turns`
describes what all operations do to a step, `StepsGoOn` what they never do: a row that is over
or skipped stays so until the plan is saved anew.  So an event that once agreed with
its row keeps agreeing (`EventsTell`), and a step that ended with its card stays ended
(`Resolved`), which makes a failure that commits an old read harmless.  A save inserts rows of a
revision that no event and no resolution is of (`SaveKeeps`), whatever their ids and statuses;
that a phase of an id is stored once (`EventsOnce`) holds across saves.

`Conversation_proofs`, on the conversation row: `RevisionNamesContentHolds` (every copy has an
older revision than the row, or is the row), `DraftNeverGoesBackHolds`.
On message jobs: `FirstContentStaysHolds` (that the tasks are well-formed is all it needs: the
row decides whether an insert still may).
On the queue: `ExecutionIsExclusiveHolds`, `LeaseEndsOnceHolds`, `InboxOrderHolds`,
`NoEventLostInQueue`, `RegistrationIsWholeHolds` (no run checks it: it is proved).  Every way of
handing out a turn is one of four shapes (inserts, takes one, takes none, idles) and the
properties are proved per shape; `TokenInv` says that tokens were handed out before they are
used and that no outcome carries the token of a compaction that is still active.
On the browser: `ClientInvHolds`, `ShownIsPrefixHolds`.  `ViewOK` says of the view, and of every
Snapshot on its way to it (`FlowOK`), that it is what the events up to its sequence make of its
run; `OutboxGrows` says that this stays true, so the order in which they arrive does not matter.  The
proof needs the last event of a run up to a sequence number, that is the greatest element of a
bounded set; `LeastNumber` and `GreatestNumber` derive it from the well-foundedness of `<`, as the
library's induction theorems take an operator, which the provers cannot instantiate.

Only model-checked: the liveness properties `StartResolves`, `DuePollAnswered`,
`DeliveryResolves`, `RecordedVerdictIsShown`, `ResponseIsHonoured` and `EndIsShown`.  They rest on
weak and strong fairness, so a proof needs ENABLED of the actions, which the installed provers do
not handle.  The two properties of the violation runs are false.

## 5. Known deviations

The violation runs document where the code departs from its own text; `PROJECT.json` quotes
it.  Met while modelling, without a run of its own:

Jobs, workspace and memory
- A worker whose gather was left by a raise has more calls in flight than its docstring allows.
- A Tool that is slower than the provider leaves a decided video without a write-back.
- An older job of an asset that is reopened may overwrite a ready asset with its failure.
- A worker projects the record its own call has completed (worker.py:313), and the failure patch
  does not look at what is shown.  With two Gateway processes a job may be completed as
  indeterminate by the first, reopened, polled and shown as succeeded by the second, and
  then written down as failed by the first, for good; with one process the same happens if its gather
  was left by a raise.  The proof of `DecidedIsShown` does not go through without its two hypotheses,
  and TLC shows the counterexample in `GenerationWriteBack` with two processes.
- A revision of the storyboard sends all scenes as read, so a film finished in between in a
  scene that was not revised goes back; "合并写入可避免丢成片" (sql_repository.py:106)
  does not cover it.
- The claim of the outbox selects without a lock: two Gateway processes add one write twice,
  which outbox.py:251 rules out, and a late claim of the second takes a write out of its review.
  `MemoryOutbox` with two processes shows both; `outbox` has one.
- One error of the database in the claim, in a commit after `add`, or in the review of the
  except branch ends the delivery of the outbox for as long as the process lives: `_run`
  (outbox.py:207) has no `try`, and `start()` only looks whether `_task` is set.
- An answer of Mem0 without an id is polled as the event `None`; a crash between the Tool's
  answer and the background enqueue loses the preference (service.py:385).

Sidecar, projection and turns
- Closing the service delivers `CancelledError` to running tasks, and each stores the verdict
  cancelled, although run_service.py:105 says that no verdict is forged.
- A projection starts at the first event and stops at the suspension, so the cancellation of
  a suspended run is never shown (test_m2_gateway_snapshot_recovery.py:134 says it is not lost).
- Deltas of the SDK thread follow `run.cancelled` in the log; a crash between `COMPLETED` and
  its event leaves a verdict that no stream delivers.
- One request marks a recovery for manual review while another has created and bound its run
  (agent_tools/repository.py:335): the run exists and its event says manual review.
- A Tool request that was on its way when its run failed is claimed whatever the run's status
  (broker.py:90), also after the recovery has found the ledger empty: the recovery repeats a run
  whose Tool takes effect all the same, though run_service.py:272 and agent_tools/repository.py:427
  say that a run whose boundary is unknown is not continued by itself.

Tool calls and resumes
- A response whose run was created from a workspace that has moved since is never bound: its
  repetition names the run with another digest.  `ResponseIsHonoured` claims the rest.
- The resume run is activated before `bind_interrupt_resume_run`: its first call may come before
  the binding and be asked to confirm again, though the run is told not to ask twice
  (system_instruction.py:50).
- Two submissions of one response that overlap may each bind a ticket to the one run, the second
  after the first was spent: the run then makes two costly calls on one confirmation.  Each has a
  credential of its own (`OwnCredential`), but the decision was one.
- Rejected and failed answers carry no revision, so after one foreign write every further call of
  the run is rejected, also the inspection that the plugin's comment (index.ts:266) counts on.
- A crash between claim and answer leaves the row executing for good: the call is safe
  (`OneEffectPerCall`) but every repetition is told that it is in progress.
- The confirmations route accepts an authorization interrupt and would start a run of another
  trigger than the authorizations route for it.
- A response may be bound to a run that has ended in the meantime, for instance by a restart of
  the Sidecar between creation and activation.

Queue and plans
- The Memory queue takes turns by `created_at`, not by inbox number as its docstring says
  (compaction_queue.py:426), and publishes a second outcome when a finish is repeated after a
  retry.
- SQL acquires a compaction lease before `retry_not_before`.
- `start_step_with_event` of the SQL repository does not check the consent of the step.
- A plan saved anew with a step id it had keeps the old events: a pending row may stand beside a
  stored `completed` of the same id, and what the new row does is not told again, because the
  event id has no revision in it (sql_repository.py:1711).

Browser (found by checking `AgentConversation` against the text of the code)
- `submitTurn` starts the stream and reads a Snapshot beside it (useAgentConversation.ts:416).  If
  that answer was given before the run ended and arrives after the stream has ended, the task is
  shown as accepted until the user refreshes, which the comment at line 224 rules out ("避免任务看板永久停在运行中").
- `stopStream` does not reach a Snapshot that is being read, and `hydrateRun` does not compare the
  generation: after a switch the old conversation's run may replace the new view, against the
  comment at line 129.
- A Snapshot takes its status from the last event of the run, and says accepted if that event has
  none, an interrupt event of a suspended run included (projector.py:123,
  pixelflow_conversations.py:1477); folding the same events keeps the status, and the comment at
  snapshotProjector.ts:1 says that both show the same.

## 6. Not modelled, and what could follow

Not modelled: rendering, prompts, validation of payloads, authentication (one check per
request), configuration and scripts, the vendored SDK and the TypeScript plugins, the
projection of a workspace into display text.  They keep no state that two actors share, or
they are not this program's code.  Operations without a caller in `src/` (context
summaries, the client of the Jianying PATCH route) are named in the components' notes.

Next, in this order: interrupt events in `RunProjection`; images together with storyboard
edits; the rendered copy of the browser's view; proofs of what remains true of the outbox and of
`DecidedIsShown` with several processes (a bound on the repeated sends, a row that the last
projection agrees with).
