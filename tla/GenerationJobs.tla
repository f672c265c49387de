--------------------------- MODULE GenerationJobs ---------------------------
(***************************************************************************)
(* The GenerationJob queue of the Gateway: jobs are inserted by a Tool     *)
(* call, claimed under a lease by a worker, started and polled at an       *)
(* external provider, and decided by whoever still holds the lease.        *)
(*                                                                         *)
(* Every repository operation is one database transaction and one step.    *)
(* A worker's scan is three transactions followed by asyncio.gather over   *)
(* the claimed jobs; each claimed job runs as a call that interleaves with *)
(* everything else at its awaits.  gather has no return_exceptions: when   *)
(* one call raises, the scan goes on to its next round while the other     *)
(* calls of the old round keep running.                                    *)
(*                                                                         *)
(* Time is not a number: a live lease may expire, a delayed poll may fall  *)
(* due and a credential may reach its TTL at any moment.                   *)
(***************************************************************************)
EXTENDS Naturals, FiniteSets

CONSTANTS
    Job,          \* the GenerationJobs that may be submitted
    Item,         \* assets and scenes of the workspace
    ItemOf,       \* the (workspace_id, item_id) a job generates for
    CreatedAt,    \* order of created_at; jobs of one Tool call share it
    Kind,         \* "image", "video"
    KindOf,
    Process,      \* Gateway processes, each with one worker
    WorkerId,
    WorkerIdOf,   \* gateway-generation-job:{pid}: two processes may share it
    NoOwner,
    BatchLimit,   \* jobs claimed by one scan (6 in the code)
    Gen,          \* concurrent calls of one process for one job (model bound)
    MaxLate,      \* leases that may expire under a running call (model bound)
    MaxCrashes    \* Gateway crashes (model bound)

ASSUME JobAssumption ==
    /\ ItemOf \in [Job -> Item]
    /\ KindOf \in [Job -> Kind]
    /\ CreatedAt \in [Job -> Nat]

ASSUME WorkerAssumption ==
    /\ WorkerIdOf \in [Process -> WorkerId]
    /\ NoOwner \notin WorkerId

ASSUME BoundsAssumption ==
    /\ BatchLimit \in Nat \ {0}
    /\ MaxLate \in Nat
    /\ MaxCrashes \in Nat

VARIABLES
    row,        \* row[j]: the GenerationJob record
    accepted,   \* jobs the provider has created a task for
    creds,      \* creds[p]: jobs whose authorization process p holds in memory
    puts,       \* <<p, j>>: p has inserted j and not yet stored its credential
    providers,  \* providers[p]: kinds p was configured to serve
    scan,       \* scan[p]: where the worker of p is in run_once
    batch,      \* batch[p]: the calls the current gather of p awaits
    call,       \* call[c]: progress of one _start or _poll coroutine
    late,       \* leases that expired under a running call so far
    crashes

vars == <<row, accepted, creds, puts, providers, scan, batch, call, late, crashes>>
worker == <<providers, scan, batch>>
budget == <<late, crashes>>

Status == {"absent", "queued", "starting", "polling",
           "succeeded", "failed", "indeterminate"}
Terminal == {"succeeded", "failed", "indeterminate"}

\* failure_reason_code, as far as any decision depends on it.
Reason == {"none", "authorization_unavailable", "provider_unavailable",
           "provider_start_indeterminate", "result_missing",
           "mapping", "provider_business_failed"}

Row == [status : Status, bound : BOOLEAN, result : BOOLEAN, reason : Reason,
        poll : {"none", "later", "due"}, owner : WorkerId \cup {NoOwner}, live : BOOLEAN]

NoRow == [status |-> "absent", bound |-> FALSE, result |-> FALSE, reason |-> "none",
          poll |-> "none", owner |-> NoOwner, live |-> FALSE]

Call == Process \X Job \X Gen
ProcOf(c) == c[1]
JobOf(c) == c[2]

CallState == [phase : {"free", "begin", "calling", "answered", "finish", "resched", "project"},
              op : {"none", "start", "poll"},
              status : Status \cup {"none"},
              reason : Reason]

Free == [phase |-> "free", op |-> "none", status |-> "none", reason |-> "none"]

\* A call that may still write the row of its job.
Active(c) == call[c].phase \in {"begin", "calling", "answered", "finish", "resched"}

Init ==
    /\ row = [j \in Job |-> NoRow]
    /\ accepted = {}
    /\ creds = [p \in Process |-> {}]
    /\ puts = {}
    /\ providers = [p \in Process |-> Kind]
    /\ scan = [p \in Process |-> "idle"]
    /\ batch = [p \in Process |-> {}]
    /\ call = [c \in Call |-> Free]
    /\ late = 0
    /\ crashes = 0

-----------------------------------------------------------------------------
(* Submission: GenerationJobService._submit_many inserts the job and, after *)
(* the commit, stores the user's authorization in process memory.           *)

\* create_or_read: the record inserted for an idempotency key not seen before.
Queued == [NoRow EXCEPT !.status = "queued"]

Create(p, j) ==
    /\ scan[p] # "down"
    /\ KindOf[j] \in providers[p]
    /\ row[j].status = "absent"
    /\ \A k \in Job : ItemOf[k] = ItemOf[j] /\ CreatedAt[k] < CreatedAt[j]
                        => row[k].status # "absent"
    /\ row' = [row EXCEPT ![j] = Queued]
    /\ puts' = puts \cup {<<p, j>>}
    /\ UNCHANGED <<accepted, creds, worker, call, budget>>

PutCredential(p, j) ==
    /\ <<p, j>> \in puts
    /\ puts' = puts \ {<<p, j>>}
    /\ creds' = [creds EXCEPT ![p] = @ \cup {j}]
    /\ UNCHANGED <<row, accepted, worker, call, budget>>

-----------------------------------------------------------------------------
(* One scan of a worker: run_once.                                          *)

\* S is what a query with this candidate set and LIMIT n may return.
Takes(S, candidates, n) ==
    /\ S \subseteq candidates
    /\ Cardinality(S) = IF Cardinality(candidates) <= n THEN Cardinality(candidates) ELSE n

MissingUnbound ==
    {j \in Job : row[j].status = "indeterminate" /\ row[j].reason = "result_missing"}

\* Decided without a result although the provider had a task for the job.
Missing ==
    {j \in Job : /\ row[j].status = "indeterminate"
                 /\ row[j].reason = "result_missing"
                 /\ row[j].bound}

HasSuccess(i) == \E j \in Job : ItemOf[j] = i /\ row[j].status = "succeeded"

\* The newest missing job of each item that no job has succeeded for.
Reopenable ==
    {j \in Missing : /\ ~HasSuccess(ItemOf[j])
                     /\ \A k \in Missing : ItemOf[k] = ItemOf[j] => CreatedAt[k] <= CreatedAt[j]}

Reopened(r) == [r EXCEPT !.status = "polling", !.reason = "none", !.result = FALSE,
                         !.owner = NoOwner, !.live = FALSE, !.poll = "due"]

Reopen(p) ==
    /\ scan[p] = "idle"
    /\ \E S \in SUBSET Reopenable :
          /\ \A j, k \in S : ItemOf[j] = ItemOf[k] => j = k
          /\ \E I \in SUBSET Item : /\ Takes(I, {ItemOf[j] : j \in Reopenable}, BatchLimit)
                                    /\ I = {ItemOf[j] : j \in S}
          /\ row' = [j \in Job |-> IF j \in S THEN Reopened(row[j]) ELSE row[j]]
    /\ scan' = [scan EXCEPT ![p] = "reopened"]
    /\ UNCHANGED <<accepted, creds, puts, providers, batch, call, budget>>

\* Slots of p's calls; the newest call of a job takes the first free one.
FreeGens(p, j) == {g \in Gen : call[<<p, j, g>>].phase = "free"}
NewCall(p, j) == <<p, j, CHOOSE g \in FreeGens(p, j) : TRUE>>
NewCalls(p, S) == {NewCall(p, j) : j \in S}

Leased(r, p) == [r EXCEPT !.owner = WorkerIdOf[p], !.live = TRUE]

\* Start a call of the given kind for every job of S, within the same step.
Launch(p, S, op) ==
    /\ \A j \in S : FreeGens(p, j) # {}
    /\ call' = [c \in Call |-> IF c \in NewCalls(p, S)
                                 THEN [Free EXCEPT !.phase = "begin", !.op = op]
                                 ELSE call[c]]

StartableIgnoringLease ==
    {j \in Job : row[j].status \in {"queued", "starting"}}

StartableQueuedOnly ==
    {j \in Job : row[j].status = "queued"}

StartableUndecided ==
    {j \in Job : \/ row[j].status \in {"queued", "indeterminate"}
                 \/ row[j].status = "starting" /\ ~row[j].live}

Startable ==
    {j \in Job : \/ row[j].status = "queued"
                 \/ /\ row[j].status = "starting"
                    /\ row[j].owner # NoOwner
                    /\ ~row[j].live}

ClaimStart(p) ==
    /\ scan[p] = "reopened"
    /\ \E S \in SUBSET Startable :
          /\ Takes(S, Startable, BatchLimit)
          /\ Launch(p, S, "start")
          /\ row' = [j \in Job |-> IF j \in S
                                     THEN [Leased(row[j], p) EXCEPT !.status = "starting"]
                                     ELSE row[j]]
          /\ batch' = [batch EXCEPT ![p] = NewCalls(p, S)]
    /\ scan' = [scan EXCEPT ![p] = "claimed"]
    /\ UNCHANGED <<accepted, creds, puts, providers, budget>>

PollableUnleasedOnly ==
    {j \in Job : /\ row[j].status = "polling" /\ row[j].bound /\ row[j].poll = "due"
                 /\ row[j].owner = NoOwner}

Pollable ==
    {j \in Job : /\ row[j].status = "polling"
                 /\ row[j].bound
                 /\ row[j].poll = "due"
                 /\ ~row[j].live}

\* The rest of the batch is filled with polls, and gather begins.
ClaimPoll(p) ==
    /\ scan[p] = "claimed"
    /\ \E S \in SUBSET Pollable :
          /\ Takes(S, Pollable, BatchLimit - Cardinality(batch[p]))
          /\ Launch(p, S, "poll")
          /\ row' = [j \in Job |-> IF j \in S THEN Leased(row[j], p) ELSE row[j]]
          /\ batch' = [batch EXCEPT ![p] = @ \cup NewCalls(p, S)]
    /\ scan' = [scan EXCEPT ![p] = "gather"]
    /\ UNCHANGED <<accepted, creds, puts, providers, budget>>

GatherDone(p) ==
    /\ scan[p] = "gather"
    /\ \A c \in batch[p] : call[c].phase = "free"
    /\ scan' = [scan EXCEPT ![p] = "idle"]
    /\ batch' = [batch EXCEPT ![p] = {}]
    /\ UNCHANGED <<row, accepted, creds, puts, providers, call, budget>>

-----------------------------------------------------------------------------
(* One call: _start or _poll.                                               *)

Goes(c, phase, status, reason) ==
    call' = [call EXCEPT ![c].phase = phase, ![c].status = status, ![c].reason = reason]

Ends(c) == call' = [call EXCEPT ![c] = Free]

\* Up to the provider request: provider configured, credential at hand.
Begin(c) ==
    LET p == ProcOf(c)
        j == JobOf(c)
        served == KindOf[j] \in providers[p]
    IN /\ call[c].phase = "begin"
       /\ c \in batch[p] => scan[p] = "gather"
       /\ \/ /\ ~served
             /\ Goes(c, "finish",
                     IF call[c].op = "start" THEN "failed" ELSE "indeterminate",
                     "provider_unavailable")
          \/ /\ served /\ call[c].op = "start" /\ j \notin creds[p]
             /\ Goes(c, "finish", "indeterminate", "authorization_unavailable")
          \/ /\ served /\ (call[c].op = "poll" \/ j \in creds[p])
             /\ Goes(c, "calling", "none", "none")
       /\ UNCHANGED <<row, accepted, creds, puts, worker, budget>>

\* What a request can come back with: <<phase, status, reason>>.  "answered"
\* is still inside the try block, "finish" and "resched" are its handlers.
Unclear(phase, reason) == <<phase, "indeterminate", reason>>

TakenAnswers == {<<"answered", "polling", "none">>,
                 <<"answered", "succeeded", "none">>,
                 Unclear("answered", "result_missing"),
                 Unclear("answered", "mapping"),
                 Unclear("finish", "result_missing"),
                 Unclear("finish", "mapping")}

TimeoutTakenAsStarted == {<<"answered", "polling", "none">>}

\* A timeout, a 5xx or an unreadable reply says nothing about the provider.
DoubtfulAnswers == {Unclear("finish", "mapping"),
                    Unclear("finish", "provider_start_indeterminate")}

Refusal == <<"answered", "failed", "provider_business_failed">>

\* The provider honours the Idempotency-Key: a repeated start finds the task.
StartAnswered(c) ==
    /\ call[c].phase = "calling" /\ call[c].op = "start"
    /\ \/ \E a \in TakenAnswers \cup DoubtfulAnswers :
             /\ Goes(c, a[1], a[2], a[3])
             /\ accepted' = accepted \cup {JobOf(c)}
       \/ \E a \in DoubtfulAnswers \cup {Refusal} :
             /\ Goes(c, a[1], a[2], a[3])
             /\ UNCHANGED accepted
    /\ UNCHANGED <<row, creds, puts, worker, budget>>

PollAnswers == {<<"answered", "polling", "none">>,
                <<"answered", "succeeded", "none">>,
                Unclear("answered", "result_missing"),
                Unclear("finish", "result_missing"),
                Unclear("finish", "mapping"),
                Refusal,
                <<"resched", "none", "none">>}  \* no authorization, or any other error

PollAnswered(c) ==
    /\ call[c].phase = "calling" /\ call[c].op = "poll"
    /\ \E a \in PollAnswers : Goes(c, a[1], a[2], a[3])
    /\ UNCHANGED <<row, accepted, creds, puts, worker, budget>>

OwnedByAnyone(r, p) == TRUE

\* _lease_owned: same worker id, not yet expired.  There is no fencing token.
Owned(r, p) == r.owner = WorkerIdOf[p] /\ r.live

Unleased(r) == [r EXCEPT !.owner = NoOwner, !.live = FALSE]

\* bind_provider_job and reschedule_poll check the status, complete does not.
BindAllowed(j, p) == Owned(row[j], p) /\ row[j].status = "starting"
PollAllowed(j, p) == Owned(row[j], p) /\ row[j].status = "polling"

Bind(j) == row' = [row EXCEPT ![j] = [Unleased(@) EXCEPT !.status = "polling",
                                                         !.bound = TRUE, !.poll = "later"]]

Delay(j) == row' = [row EXCEPT ![j] = [Unleased(@) EXCEPT !.poll = "later"]]

Decided(r, status, reason) ==
    [Unleased(r) EXCEPT !.status = status, !.reason = reason,
                        !.result = (status = "succeeded"), !.poll = "none"]

\* complete, followed by the projection of what was written.
Complete(c) ==
    /\ row' = [row EXCEPT ![JobOf(c)] = Decided(@, call[c].status, call[c].reason)]
    /\ call' = [call EXCEPT ![c].phase = "project"]

\* The write of an answer inside the try block; a lost lease raises there.
Settle(c) ==
    LET p == ProcOf(c)
        j == JobOf(c)
        running == call[c].status = "polling"
        op == call[c].op
    IN /\ call[c].phase = "answered"
       /\ \/ /\ running /\ op = "start" /\ BindAllowed(j, p)
             /\ Bind(j) /\ Ends(c)
          \/ /\ running /\ op = "poll" /\ PollAllowed(j, p)
             /\ Delay(j) /\ Ends(c)
          \/ /\ ~running /\ Owned(row[j], p)
             /\ Complete(c)
          \/ /\ IF running THEN ~(IF op = "start" THEN BindAllowed(j, p) ELSE PollAllowed(j, p))
                           ELSE ~Owned(row[j], p)
             /\ IF op = "start"
                  THEN Goes(c, "finish", "indeterminate", "provider_start_indeterminate")
                  ELSE Goes(c, "resched", "none", "none")
             /\ UNCHANGED row
       /\ UNCHANGED <<accepted, creds, puts, worker, budget>>

\* _finish_failure before the try block or in one of its handlers.
Finish(c) ==
    /\ call[c].phase = "finish"
    /\ Owned(row[JobOf(c)], ProcOf(c))
    /\ Complete(c)
    /\ UNCHANGED <<accepted, creds, puts, worker, budget>>

\* The same with the lease lost: the exception leaves the coroutine, and the
\* gather that awaits it; the worker logs it and scans again.
Raise(c) ==
    LET p == ProcOf(c)
    IN /\ call[c].phase = "finish"
       /\ ~Owned(row[JobOf(c)], p)
       /\ Ends(c)
       /\ \/ /\ c \in batch[p]
             /\ batch' = [batch EXCEPT ![p] = {}]
             /\ scan' = [scan EXCEPT ![p] = "idle"]
          \/ /\ c \notin batch[p]
             /\ UNCHANGED <<batch, scan>>
       /\ UNCHANGED <<row, accepted, creds, puts, providers, budget>>

\* _reschedule_poll: releases the lease if it still can, never raises.
Resched(c) ==
    /\ call[c].phase = "resched"
    /\ \/ PollAllowed(JobOf(c), ProcOf(c)) /\ Delay(JobOf(c))
       \/ ~PollAllowed(JobOf(c), ProcOf(c)) /\ UNCHANGED row
    /\ Ends(c)
    /\ UNCHANGED <<accepted, creds, puts, worker, budget>>

\* Write-back to the workspace (see GenerationWriteBack), then the
\* authorization of the finished job is dropped.
Project(c) ==
    /\ call[c].phase = "project"
    /\ Ends(c)
    /\ creds' = [creds EXCEPT ![ProcOf(c)] = @ \ {JobOf(c)}]
    /\ UNCHANGED <<row, accepted, puts, worker, budget>>

-----------------------------------------------------------------------------
(* Time, crashes and restarts.                                              *)

InFlight(j) == \E c \in Call : JobOf(c) = j /\ Active(c)

\* A lease ends with its crashed holder, or (MaxLate times) under a call that
\* outlives it: a request may take connect 10 s + read 30 s, the lease is 30 s.
ExpireLease(j) ==
    /\ row[j].live
    /\ \/ ~InFlight(j) /\ UNCHANGED late
       \/ InFlight(j) /\ late < MaxLate /\ late' = late + 1
    /\ row' = [row EXCEPT ![j].live = FALSE]
    /\ UNCHANGED <<accepted, creds, puts, worker, call, crashes>>

PollFallsDue(j) ==
    /\ row[j].status = "polling" /\ row[j].poll = "later"
    /\ row' = [row EXCEPT ![j].poll = "due"]
    /\ UNCHANGED <<accepted, creds, puts, worker, call, budget>>

ExpireCredential(p, j) ==
    /\ j \in creds[p]
    /\ creds' = [creds EXCEPT ![p] = @ \ {j}]
    /\ UNCHANGED <<row, accepted, puts, worker, call, budget>>

Crash(p) ==
    /\ scan[p] # "down" /\ crashes < MaxCrashes
    /\ crashes' = crashes + 1
    /\ scan' = [scan EXCEPT ![p] = "down"]
    /\ batch' = [batch EXCEPT ![p] = {}]
    /\ call' = [c \in Call |-> IF ProcOf(c) = p THEN Free ELSE call[c]]
    /\ creds' = [creds EXCEPT ![p] = {}]
    /\ puts' = {x \in puts : x[1] # p}
    /\ UNCHANGED <<row, accepted, providers, late>>

\* The new process may be configured differently; the worker only runs when
\* some provider is configured.
Restart(p) ==
    /\ scan[p] = "down"
    /\ scan' = [scan EXCEPT ![p] = "idle"]
    /\ \E K \in (SUBSET Kind) \ {{}} : providers' = [providers EXCEPT ![p] = K]
    /\ UNCHANGED <<row, accepted, creds, puts, batch, call, budget>>

-----------------------------------------------------------------------------
Submission == \E p \in Process, j \in Job : Create(p, j) \/ PutCredential(p, j)

Scanning == \E p \in Process : Reopen(p) \/ ClaimStart(p) \/ ClaimPoll(p) \/ GatherDone(p)

CallStep(c) == \/ Begin(c) \/ StartAnswered(c) \/ PollAnswered(c)
               \/ Settle(c) \/ Finish(c) \/ Raise(c) \/ Resched(c)

Passing == \/ \E j \in Job : ExpireLease(j) \/ PollFallsDue(j)
           \/ \E p \in Process, j \in Job : ExpireCredential(p, j)

Failing == \E p \in Process : Crash(p) \/ Restart(p)

Next == \/ Submission
        \/ Scanning
        \/ \E c \in Call : CallStep(c) \/ Project(c)
        \/ Passing
        \/ Failing

Spec == Init /\ [][Next]_vars

\* The scan loop of a running process goes round, requests end (HTTP
\* timeouts), time passes, and a crashed Gateway is restarted.
Fairness ==
    /\ \A p \in Process : /\ WF_vars(Reopen(p)) /\ WF_vars(ClaimStart(p))
                          /\ WF_vars(ClaimPoll(p)) /\ WF_vars(GatherDone(p))
                          /\ WF_vars(Restart(p))
    /\ \A c \in Call : WF_vars(CallStep(c)) /\ WF_vars(Project(c))
    /\ \A j \in Job : WF_vars(ExpireLease(j)) /\ WF_vars(PollFallsDue(j))

FairSpec == Spec /\ Fairness

-----------------------------------------------------------------------------
\* The row of every job is a record complete() and the claims may write, the
\* worker is at one of the awaits of run_once, and a call at one of its own.
TypeOK ==
    /\ row \in [Job -> Row]
    /\ accepted \subseteq Job
    /\ creds \in [Process -> SUBSET Job]
    /\ puts \subseteq Process \X Job
    /\ providers \in [Process -> SUBSET Kind]
    /\ scan \in [Process -> {"down", "idle", "reopened", "claimed", "gather"}]
    /\ batch \in [Process -> SUBSET Call]
    /\ call \in [Call -> CallState]
    /\ late \in Nat
    /\ crashes \in Nat

\* The contract GenerationJobRecord.validate_status_contract checks on every
\* read.  A row that broke it would make each scan that selects it raise, so
\* whatever overlapping workers do, no committed row may break it.
PollingIsBound == \A j \in Job : row[j].status = "polling"
                                   => row[j].bound /\ row[j].poll # "none"
StartingIsLeased == \A j \in Job : row[j].status = "starting" => row[j].owner # NoOwner
DecidedIsUnleased == \A j \in Job : row[j].status \in Terminal
                                      => row[j].owner = NoOwner /\ ~row[j].live
DecidedIsExplained == \A j \in Job : /\ row[j].status = "succeeded" => row[j].result
                                     /\ row[j].status \in {"failed", "indeterminate"}
                                          => row[j].reason # "none"

\* (the conjunction the runs check)
StatusContract == PollingIsBound /\ StartingIsLeased /\ DecidedIsUnleased /\ DecidedIsExplained

\* A call holds the lease of its job, and the row is where the call left it.
HoldsLease(c) ==
    LET r == row[JobOf(c)]
    IN /\ Owned(r, ProcOf(c))
       /\ r.status = IF call[c].op = "start" THEN "starting" ELSE "polling"

\* As long as no request outlives its lease, two calls that may write one job
\* never run at the same time, in one process or in two, and every one of them
\* still holds the lease: no answer is thrown away, no worker raises.
LeaseExclusion ==
    late = 0 => /\ \A c \in Call : Active(c) => HoldsLease(c)
                /\ \A c, d \in Call : Active(c) /\ Active(d) /\ JobOf(c) = JobOf(d) => c = d

\* The provider is only asked for the status of a task it created: the
\* provider_job_id was bound from an answer, also for reopened jobs and for
\* jobs whose first start timed out.
PolledWasAccepted ==
    /\ \A j \in Job : row[j].bound => j \in accepted
    /\ \A c \in Call : call[c].op = "poll" => row[JobOf(c)].bound

\* A success or a failure is final, although complete() checks no status and
\* stale calls of an old round may still arrive with another verdict.
VerdictIsFinal ==
    [][\A j \in Job : row[j].status \in {"succeeded", "failed"}
                        => row'[j].status = row[j].status]_vars

\* The row behaves as JobLifecycle promises.
Lifecycle == INSTANCE JobLifecycle WITH
                 phase <- [j \in Job |-> row[j].status],
                 bound <- [j \in Job |-> row[j].bound]

LifecycleSpec == Lifecycle!Spec

\* A claimed job does not stay in "starting", whoever crashed holding it.
StartResolves == \A j \in Job : row[j].status = "starting" ~> row[j].status # "starting"

\* A poll that is due is made and answered, whoever crashed holding it.
DuePollAnswered ==
    \A j \in Job : row[j].status = "polling" /\ row[j].poll = "due"
                     ~> ~(row[j].status = "polling" /\ row[j].poll = "due")
=============================================================================
