----------------------- MODULE GenerationJobs_proofs -----------------------
(* Proofs about GenerationJobs, and about GenerationWriteBack on top of it, *)
(* for every set of jobs, items, processes and worker ids, every batch      *)
(* limit and every number of crashes, late leases, edits and conflicts.     *)
EXTENDS GenerationWriteBack, TLAPS

USE JobAssumption, WorkerAssumption, BoundsAssumption

-----------------------------------------------------------------------------
(* Typing.                                                                  *)

\* The parts of a call identifier.
LEMMA CallParts ==
    ASSUME NEW c \in Call
    PROVE  ProcOf(c) \in Process /\ JobOf(c) \in Job
BY DEF Call, ProcOf, JobOf

\* The slot a scan picks for a new call of a job is a free one of that job.
LEMMA NewCallIsFree ==
    ASSUME NEW p \in Process, NEW j \in Job, FreeGens(p, j) # {}
    PROVE  /\ NewCall(p, j) \in Call
           /\ ProcOf(NewCall(p, j)) = p /\ JobOf(NewCall(p, j)) = j
           /\ call[NewCall(p, j)].phase = "free"
<1> DEFINE g == CHOOSE x \in FreeGens(p, j) : TRUE
<1>1. g \in FreeGens(p, j)
  OBVIOUS
<1>2. g \in Gen /\ call[<<p, j, g>>].phase = "free"
  BY <1>1 DEF FreeGens
<1>3. NewCall(p, j) = <<p, j, g>>
  BY DEF NewCall
<1> HIDE DEF g
<1>4. <<p, j, g>> \in Call
  BY <1>2 DEF Call
<1>5. ProcOf(<<p, j, g>>) = p /\ JobOf(<<p, j, g>>) = j
  BY DEF ProcOf, JobOf
<1> QED
  BY <1>2, <1>3, <1>4, <1>5, Zenon

\* The operations on rows keep the record type.
LEMMA RowOps ==
    ASSUME NEW r \in Row, NEW p \in Process
    PROVE  /\ Leased(r, p) \in Row
           /\ [Leased(r, p) EXCEPT !.status = "starting"] \in Row
           /\ Unleased(r) \in Row
           /\ Reopened(r) \in Row
           /\ \A status \in Status, reason \in Reason : Decided(r, status, reason) \in Row
           /\ [Unleased(r) EXCEPT !.status = "polling", !.bound = TRUE, !.poll = "later"] \in Row
           /\ [Unleased(r) EXCEPT !.poll = "later"] \in Row
           /\ [r EXCEPT !.live = FALSE] \in Row
           /\ [r EXCEPT !.poll = "due"] \in Row
<1>1. WorkerIdOf[p] \in WorkerId \cup {NoOwner}
  OBVIOUS
<1>2. Leased(r, p) \in Row
  BY <1>1 DEF Row, Leased
<1>3. [Leased(r, p) EXCEPT !.status = "starting"] \in Row
  BY <1>2 DEF Row, Status
<1>4. Unleased(r) \in Row
  BY DEF Row, Unleased
<1>5. Reopened(r) \in Row
  BY DEF Row, Reopened, Status, Reason
<1>6. ASSUME NEW status \in Status, NEW reason \in Reason
      PROVE  Decided(r, status, reason) \in Row
  BY <1>4 DEF Row, Decided
<1>7. [Unleased(r) EXCEPT !.status = "polling", !.bound = TRUE, !.poll = "later"] \in Row
  BY <1>4 DEF Row, Status
<1>8. [Unleased(r) EXCEPT !.poll = "later"] \in Row
  BY <1>4 DEF Row
<1>9. [r EXCEPT !.live = FALSE] \in Row /\ [r EXCEPT !.poll = "due"] \in Row
  BY DEF Row
<1> QED
  BY <1>2, <1>3, <1>4, <1>5, <1>6, <1>7, <1>8, <1>9

\* Starting a call and moving a call on keep the type of calls.
LEMMA CallOps ==
    ASSUME call \in [Call -> CallState]
    PROVE  /\ Free \in CallState
           /\ \A op \in {"start", "poll"} :
                [Free EXCEPT !.phase = "begin", !.op = op] \in CallState
           /\ \A c \in Call : call[c].status \in Status \cup {"none"} /\ call[c].reason \in Reason
           /\ \A c \in Call : [call EXCEPT ![c].phase = "project"] \in [Call -> CallState]
           /\ \A c \in Call : [call EXCEPT ![c] = Free] \in [Call -> CallState]
           /\ \A c \in Call, phase \in {"calling", "answered", "finish", "resched"},
                status \in Status \cup {"none"}, reason \in Reason :
                  [call EXCEPT ![c].phase = phase, ![c].status = status, ![c].reason = reason]
                      \in [Call -> CallState]
<1>1. Free \in CallState
  BY DEF Free, CallState, Reason
<1>2. \A op \in {"start", "poll"} : [Free EXCEPT !.phase = "begin", !.op = op] \in CallState
  BY DEF Free, CallState, Reason
<1>3. \A c \in Call : call[c].status \in Status \cup {"none"} /\ call[c].reason \in Reason
  BY DEF CallState
<1>4. \A c \in Call : [call EXCEPT ![c].phase = "project"] \in [Call -> CallState]
  BY DEF CallState
<1>5. \A c \in Call : [call EXCEPT ![c] = Free] \in [Call -> CallState]
  BY <1>1
<1>6. ASSUME NEW c \in Call, NEW phase \in {"calling", "answered", "finish", "resched"},
             NEW status \in Status \cup {"none"}, NEW reason \in Reason
      PROVE  [call EXCEPT ![c].phase = phase, ![c].status = status, ![c].reason = reason]
                 \in [Call -> CallState]
  <2>1. [call[c] EXCEPT !.phase = phase, !.status = status, !.reason = reason] \in CallState
    BY DEF CallState
  <2>2. [call EXCEPT ![c].phase = phase, ![c].status = status, ![c].reason = reason]
          = [call EXCEPT ![c] = [call[c] EXCEPT !.phase = phase, !.status = status,
                                                !.reason = reason]]
    BY DEF CallState
  <2> QED
    BY <2>1, <2>2
<1> QED
  BY <1>1, <1>2, <1>3, <1>4, <1>5, <1>6

\* An answer a call is about to write explains itself: without a result it is
\* a failure or undecided, and carries a reason.
Unsuccessful(c) == /\ call[c].status \in {"failed", "indeterminate"}
                   /\ call[c].reason # "none"

CallsExplained ==
    \A c \in Call : /\ call[c].phase = "answered"
                         => call[c].status \in {"polling", "succeeded"} \/ Unsuccessful(c)
                    /\ call[c].phase = "finish" => Unsuccessful(c)

TInv == TypeOK /\ CallsExplained

\* Every answer a start request can come back with is a typed, explained one.
LEMMA StartAnswersTyped ==
    \A a \in TakenAnswers \cup DoubtfulAnswers \cup {Refusal} :
        /\ a[1] \in {"answered", "finish"} /\ a[2] \in Status /\ a[3] \in Reason
        /\ a[2] \in {"polling", "succeeded"} \/ (a[2] \in {"failed", "indeterminate"} /\ a[3] # "none")
        /\ a[1] = "finish" => a[2] \in {"failed", "indeterminate"} /\ a[3] # "none"
BY DEF TakenAnswers, DoubtfulAnswers, Refusal, Unclear, Status, Reason

\* Every answer a status request can come back with is a typed, explained one.
LEMMA PollAnswersTyped ==
    \A a \in PollAnswers :
        /\ a[1] \in {"answered", "finish", "resched"}
        /\ a[2] \in Status \cup {"none"} /\ a[3] \in Reason
        /\ a[1] = "answered" => \/ a[2] \in {"polling", "succeeded"}
                                \/ a[2] \in {"failed", "indeterminate"} /\ a[3] # "none"
        /\ a[1] = "finish" => a[2] \in {"failed", "indeterminate"} /\ a[3] # "none"
BY DEF PollAnswers, Refusal, Unclear, Status, Reason

\* Moving one call on to a typed and explained state.
LEMMA GoesTyped ==
    ASSUME TInv, NEW c \in Call, NEW phase \in {"calling", "answered", "finish", "resched"},
           NEW status \in Status \cup {"none"}, NEW reason \in Reason,
           Goes(c, phase, status, reason),
           phase = "answered" => \/ status \in {"polling", "succeeded"}
                                 \/ status \in {"failed", "indeterminate"} /\ reason # "none",
           phase = "finish" => status \in {"failed", "indeterminate"} /\ reason # "none"
    PROVE  call' \in [Call -> CallState] /\ CallsExplained'
<1>1. call \in [Call -> CallState]
  BY DEF TInv, TypeOK
<1>2. call' \in [Call -> CallState]
  BY <1>1, CallOps DEF Goes
<1>3. call'[c].phase = phase /\ call'[c].status = status /\ call'[c].reason = reason
  BY <1>1 DEF Goes, CallState
<1>4. \A d \in Call : d # c => call'[d] = call[d]
  BY <1>1 DEF Goes
<1>5. ASSUME NEW d \in Call
      PROVE  /\ call'[d].phase = "answered"
                  => call'[d].status \in {"polling", "succeeded"} \/ Unsuccessful(d)'
             /\ call'[d].phase = "finish" => Unsuccessful(d)'
  <2>1. CASE d = c
    BY <1>3, <2>1 DEF Unsuccessful
  <2>2. CASE d # c
    BY <1>4, <2>2 DEF Unsuccessful, TInv, CallsExplained
  <2> QED
    BY <2>1, <2>2
<1> QED
  BY <1>2, <1>5 DEF CallsExplained

\* Every other change of calls frees slots, begins calls or projects.
LEMMA QuietTyped ==
    ASSUME TInv, call' \in [Call -> CallState],
           \A c \in Call : call'[c] = call[c] \/ call'[c].phase \in {"free", "begin", "project"}
    PROVE  CallsExplained'
BY DEF TInv, CallsExplained, Unsuccessful

\* Ending a call frees its slot and leaves the other calls typed.
LEMMA EndsTyped ==
    ASSUME TInv, NEW c \in Call, Ends(c)
    PROVE  call' \in [Call -> CallState] /\ CallsExplained'
<1>1. call' \in [Call -> CallState]
  BY CallOps DEF TInv, TypeOK, Ends
<1>2. \A d \in Call : call'[d] = call[d] \/ call'[d].phase = "free"
  BY DEF TInv, TypeOK, Ends, Free
<1> QED
  BY <1>1, <1>2, QuietTyped

\* Beginning calls for the claimed jobs leaves every call typed.
LEMMA LaunchTyped ==
    ASSUME TInv, NEW p \in Process, NEW S \in SUBSET Job, NEW op \in {"start", "poll"},
           Launch(p, S, op)
    PROVE  call' \in [Call -> CallState] /\ CallsExplained' /\ NewCalls(p, S) \subseteq Call
<1>1. call' \in [Call -> CallState]
  BY CallOps DEF TInv, TypeOK, Launch
<1>2. \A d \in Call : call'[d] = call[d] \/ call'[d].phase = "begin"
  BY DEF TInv, TypeOK, Launch, Free
<1>3. NewCalls(p, S) \subseteq Call
  BY NewCallIsFree DEF NewCalls, Launch
<1> QED
  BY <1>1, <1>2, <1>3, QuietTyped

\* complete() keeps the types: what a call may write is a verdict.
LEMMA CompleteTyped ==
    ASSUME TInv, NEW c \in Call, Complete(c),
           call[c].status \in Status
    PROVE  row' \in [Job -> Row] /\ call' \in [Call -> CallState] /\ CallsExplained'
<1>1. JobOf(c) \in Job /\ ProcOf(c) \in Process
  BY CallParts
<1>2. Decided(row[JobOf(c)], call[c].status, call[c].reason) \in Row
  BY <1>1, RowOps DEF TInv, TypeOK, CallState
<1>3. row' \in [Job -> Row]
  BY <1>1, <1>2 DEF TInv, TypeOK, Complete
<1>4. call' \in [Call -> CallState]
  BY CallOps DEF TInv, TypeOK, Complete
<1>5. \A d \in Call : call'[d] = call[d] \/ call'[d].phase = "project"
  BY DEF TInv, TypeOK, Complete, CallState
<1> QED
  BY <1>3, <1>4, <1>5, QuietTyped

\* The queue starts empty, so every record is of its type.
LEMMA TypeInit == Init => TInv
<1> SUFFICES ASSUME Init PROVE TInv
  OBVIOUS
<1>1. NoRow \in Row
  BY DEF NoRow, Row, Status, Reason
<1>2. Free \in CallState
  BY DEF Free, CallState, Reason
<1>3. TypeOK
  BY <1>1, <1>2 DEF Init, TypeOK
<1>4. CallsExplained
  BY DEF Init, CallsExplained, Free
<1> QED
  BY <1>3, <1>4 DEF TInv

\* Inserting a job and storing its credential keep the types.
LEMMA TypeSubmission == TInv /\ Submission => TInv'
<1> SUFFICES ASSUME TInv, NEW p \in Process, NEW j \in Job,
                    Create(p, j) \/ PutCredential(p, j)
             PROVE  TInv'
  BY DEF Submission
<1>1. CASE Create(p, j)
  <2>1. Queued \in Row
    BY DEF Queued, NoRow, Row, Status, Reason
  <2>2. TypeOK'
    BY <1>1, <2>1 DEF TInv, TypeOK, Create, worker, budget
  <2> QED
    BY <1>1, <2>2 DEF TInv, CallsExplained, Unsuccessful, Create
<1>2. CASE PutCredential(p, j)
  <2>1. TypeOK'
    BY <1>2 DEF TInv, TypeOK, PutCredential, worker, budget
  <2> QED
    BY <1>2, <2>1 DEF TInv, CallsExplained, Unsuccessful, PutCredential
<1> QED
  BY <1>1, <1>2

\* The three transactions of a scan and the end of its gather keep the types.
LEMMA TypeScanning == TInv /\ Scanning => TInv'
<1> SUFFICES ASSUME TInv, NEW p \in Process,
                    Reopen(p) \/ ClaimStart(p) \/ ClaimPoll(p) \/ GatherDone(p)
             PROVE  TInv'
  BY DEF Scanning
<1> USE DEF TInv
<1>1. CASE Reopen(p)
  <2>1. PICK S \in SUBSET Reopenable :
           row' = [j \in Job |-> IF j \in S THEN Reopened(row[j]) ELSE row[j]]
    BY <1>1 DEF Reopen
  <2>2. row' \in [Job -> Row]
    <3>1. \A j \in Job : Reopened(row[j]) \in Row
      BY RowOps DEF TypeOK
    <3> QED
      BY <2>1, <3>1 DEF TypeOK
  <2>3. TypeOK'
    BY <1>1, <2>2 DEF TypeOK, Reopen, budget
  <2> QED
    BY <1>1, <2>3 DEF CallsExplained, Unsuccessful, Reopen
<1>2. CASE ClaimStart(p)
  <2>1. PICK S \in SUBSET Startable :
           /\ Launch(p, S, "start")
           /\ row' = [j \in Job |-> IF j \in S
                                      THEN [Leased(row[j], p) EXCEPT !.status = "starting"]
                                      ELSE row[j]]
           /\ batch' = [batch EXCEPT ![p] = NewCalls(p, S)]
    BY <1>2 DEF ClaimStart
  <2>2. S \in SUBSET Job
    BY DEF Startable
  <2>3. row' \in [Job -> Row]
    <3>1. \A j \in Job : [Leased(row[j], p) EXCEPT !.status = "starting"] \in Row
      BY RowOps DEF TypeOK
    <3> QED
      BY <2>1, <3>1 DEF TypeOK
  <2>4. call' \in [Call -> CallState] /\ CallsExplained' /\ NewCalls(p, S) \subseteq Call
    BY <2>1, <2>2, LaunchTyped
  <2> QED
    BY <1>2, <2>1, <2>3, <2>4 DEF TypeOK, ClaimStart, budget
<1>3. CASE ClaimPoll(p)
  <2>1. PICK S \in SUBSET Pollable :
           /\ Launch(p, S, "poll")
           /\ row' = [j \in Job |-> IF j \in S THEN Leased(row[j], p) ELSE row[j]]
           /\ batch' = [batch EXCEPT ![p] = @ \cup NewCalls(p, S)]
    BY <1>3 DEF ClaimPoll
  <2>2. S \in SUBSET Job
    BY DEF Pollable
  <2>3. row' \in [Job -> Row]
    <3>1. \A j \in Job : Leased(row[j], p) \in Row
      BY RowOps DEF TypeOK
    <3> QED
      BY <2>1, <3>1 DEF TypeOK
  <2>4. call' \in [Call -> CallState] /\ CallsExplained' /\ NewCalls(p, S) \subseteq Call
    BY <2>1, <2>2, LaunchTyped
  <2> QED
    BY <1>3, <2>1, <2>3, <2>4 DEF TypeOK, ClaimPoll, budget
<1>4. CASE GatherDone(p)
  <2>1. TypeOK'
    BY <1>4 DEF TypeOK, GatherDone, budget
  <2> QED
    BY <1>4, <2>1 DEF CallsExplained, Unsuccessful, GatherDone
<1> QED
  BY <1>1, <1>2, <1>3, <1>4

\* No step of a _start or _poll coroutine leaves the types.
LEMMA TypeCallStep == ASSUME TInv, NEW c \in Call, CallStep(c) \/ Project(c) PROVE TInv'
<1> USE DEF TInv
<1> DEFINE p == ProcOf(c)
           j == JobOf(c)
<1>0. p \in Process /\ j \in Job
  BY CallParts
<1>1. CASE Begin(c)
  <2>1. PICK phase \in {"finish", "calling"}, status \in {"failed", "indeterminate", "none"},
             reason \in {"provider_unavailable", "authorization_unavailable", "none"} :
               /\ Goes(c, phase, status, reason)
               /\ phase = "finish" => status # "none" /\ reason # "none"
    BY <1>1 DEF Begin
  <2>2. call' \in [Call -> CallState] /\ CallsExplained'
    <3>1. status \in Status \cup {"none"} /\ reason \in Reason
      BY DEF Status, Reason
    <3> QED
      BY <2>1, <3>1, GoesTyped
  <2> QED
    BY <1>1, <2>2 DEF TypeOK, Begin, worker, budget
<1>2. CASE StartAnswered(c)
  <2>1. PICK a \in TakenAnswers \cup DoubtfulAnswers \cup {Refusal} : Goes(c, a[1], a[2], a[3])
    BY <1>2 DEF StartAnswered
  <2>2. call' \in [Call -> CallState] /\ CallsExplained'
    BY <2>1, StartAnswersTyped, GoesTyped
  <2> QED
    BY <1>0, <1>2, <2>2 DEF TypeOK, StartAnswered, worker, budget
<1>3. CASE PollAnswered(c)
  <2>1. PICK a \in PollAnswers : Goes(c, a[1], a[2], a[3])
    BY <1>3 DEF PollAnswered
  <2>2. call' \in [Call -> CallState] /\ CallsExplained'
    BY <2>1, PollAnswersTyped, GoesTyped
  <2> QED
    BY <1>3, <2>2 DEF TypeOK, PollAnswered, worker, budget
<1>4. CASE Settle(c)
  <2>1. row' \in [Job -> Row] /\ call' \in [Call -> CallState] /\ CallsExplained'
    <3>1. CASE Bind(j) /\ Ends(c)
      <4>1. [Unleased(row[j]) EXCEPT !.status = "polling", !.bound = TRUE, !.poll = "later"] \in Row
        BY <1>0, RowOps DEF TypeOK
      <4> QED
        BY <1>0, <3>1, <4>1, EndsTyped DEF TypeOK, Bind
    <3>2. CASE Delay(j) /\ Ends(c)
      <4>1. [Unleased(row[j]) EXCEPT !.poll = "later"] \in Row
        BY <1>0, RowOps DEF TypeOK
      <4> QED
        BY <1>0, <3>2, <4>1, EndsTyped DEF TypeOK, Delay
    <3>3. CASE call[c].status # "polling" /\ Complete(c)
      <4>1. call[c].status \in Status
        BY <1>4 DEF Settle, CallsExplained, Unsuccessful, Status
      <4> QED
        BY <3>3, <4>1, CompleteTyped
    <3>4. CASE /\ UNCHANGED row
               /\ \/ Goes(c, "finish", "indeterminate", "provider_start_indeterminate")
                  \/ Goes(c, "resched", "none", "none")
      <4>1. /\ "indeterminate" \in Status \cup {"none"} /\ "none" \in Status \cup {"none"}
            /\ "provider_start_indeterminate" \in Reason /\ "none" \in Reason
        BY DEF Status, Reason
      <4> QED
        BY <3>4, <4>1, GoesTyped DEF TypeOK
    <3> QED
      BY <1>4, <3>1, <3>2, <3>3, <3>4 DEF Settle
  <2> QED
    BY <1>4, <2>1 DEF TypeOK, Settle, worker, budget
<1>5. CASE Finish(c)
  <2>1. call[c].status \in Status
    BY <1>5 DEF Finish, CallsExplained, Unsuccessful, Status
  <2> QED
    BY <1>5, <2>1, CompleteTyped DEF TypeOK, Finish, worker, budget
<1>6. CASE Raise(c)
  <2>1. call' \in [Call -> CallState] /\ CallsExplained'
    BY <1>6, EndsTyped DEF Raise
  <2> QED
    BY <1>0, <1>6, <2>1 DEF TypeOK, Raise, budget
<1>7. CASE Resched(c)
  <2>1. call' \in [Call -> CallState] /\ CallsExplained'
    BY <1>7, EndsTyped DEF Resched
  <2>2. [Unleased(row[j]) EXCEPT !.poll = "later"] \in Row
    BY <1>0, RowOps DEF TypeOK
  <2>3. row' \in [Job -> Row]
    BY <1>0, <1>7, <2>2 DEF TypeOK, Resched, Delay
  <2> QED
    BY <1>7, <2>1, <2>3 DEF TypeOK, Resched, worker, budget
<1>8. CASE Project(c)
  <2>1. call' \in [Call -> CallState] /\ CallsExplained'
    BY <1>8, EndsTyped DEF Project
  <2> QED
    BY <1>0, <1>8, <2>1 DEF TypeOK, Project, worker, budget
<1> QED
  BY <1>1, <1>2, <1>3, <1>4, <1>5, <1>6, <1>7, <1>8 DEF CallStep

\* Expiring leases, polls falling due and credential TTLs keep the types.
LEMMA TypePassing == TInv /\ Passing => TInv'
<1> SUFFICES ASSUME TInv, Passing PROVE TInv'
  OBVIOUS
<1> USE DEF TInv
<1>1. CASE \E j \in Job : ExpireLease(j)
  <2>1. PICK j \in Job : ExpireLease(j)
    BY <1>1
  <2>2. [row[j] EXCEPT !.live = FALSE] \in Row
    <3>1. row[j] \in Row
      BY DEF TypeOK
    <3> QED
      BY <3>1, Zenon DEF Row
  <2>3. row' \in [Job -> Row]
    BY <2>1, <2>2 DEF TypeOK, ExpireLease
  <2>4. late' \in Nat
    BY <2>1 DEF TypeOK, ExpireLease
  <2> QED
    BY <2>1, <2>3, <2>4 DEF TypeOK, ExpireLease, CallsExplained, Unsuccessful, worker
<1>2. CASE \E j \in Job : PollFallsDue(j)
  <2>1. PICK j \in Job : PollFallsDue(j)
    BY <1>2
  <2>2. [row[j] EXCEPT !.poll = "due"] \in Row
    BY DEF TypeOK, Row
  <2>3. row' \in [Job -> Row]
    BY <2>1, <2>2 DEF TypeOK, PollFallsDue
  <2> QED
    BY <2>1, <2>3 DEF TypeOK, PollFallsDue, CallsExplained, Unsuccessful, worker, budget
<1>3. CASE \E p \in Process, j \in Job : ExpireCredential(p, j)
  <2>1. PICK p \in Process, j \in Job : ExpireCredential(p, j)
    BY <1>3
  <2> QED
    BY <2>1 DEF TypeOK, ExpireCredential, CallsExplained, Unsuccessful, worker, budget
<1> QED
  BY <1>1, <1>2, <1>3 DEF Passing

\* A crash and a restart keep the types.
LEMMA TypeFailing == TInv /\ Failing => TInv'
<1> SUFFICES ASSUME TInv, NEW p \in Process, Crash(p) \/ Restart(p) PROVE TInv'
  BY DEF Failing
<1> USE DEF TInv
<1>1. CASE Crash(p)
  <2>1. call' \in [Call -> CallState]
    BY <1>1, CallOps DEF TypeOK, Crash
  <2>2. \A d \in Call : call'[d] = call[d] \/ call'[d].phase = "free"
    BY <1>1 DEF TypeOK, Crash, Free
  <2>3. CallsExplained'
    BY <2>1, <2>2, QuietTyped
  <2> QED
    BY <1>1, <2>1, <2>3 DEF TypeOK, Crash
<1>2. CASE Restart(p)
  <2> QED
    BY <1>2 DEF TypeOK, Restart, CallsExplained, Unsuccessful, budget
<1> QED
  BY <1>1, <1>2

\* Every step, and every stutter, keeps the types.
LEMMA TypeNext == TInv /\ [Next]_vars => TInv'
<1> SUFFICES ASSUME TInv, [Next]_vars PROVE TInv'
  OBVIOUS
<1>1. CASE UNCHANGED vars
  BY <1>1 DEF TInv, TypeOK, CallsExplained, Unsuccessful, vars
<1> QED
  BY <1>1, TypeSubmission, TypeScanning, TypeCallStep, TypePassing, TypeFailing DEF Next

\* Type correctness: no step of any process, call, crash or expiry writes a
\* row or a call outside its type, for every instance.
THEOREM TypeCorrect == Spec => []TypeOK
<1>1. TInv => TypeOK
  BY DEF TInv
<1> QED
  BY TypeInit, TypeNext, <1>1, PTL DEF Spec

-----------------------------------------------------------------------------
(* What one step may do to one row.                                         *)

\* A call with a verdict: the result, or a failure with its reason.
HasVerdict(c) == call[c].status = "succeeded" \/ Unsuccessful(c)

BindMove(j) ==
    \E c \in Call : /\ JobOf(c) = j /\ BindAllowed(j, ProcOf(c))
                    /\ call[c].phase = "answered" /\ call[c].op = "start"
                    /\ call[c].status = "polling"
                    /\ row'[j] = [Unleased(row[j]) EXCEPT !.status = "polling",
                                                          !.bound = TRUE, !.poll = "later"]

DecideMove(j) ==
    \E c \in Call : /\ JobOf(c) = j /\ Owned(row[j], ProcOf(c)) /\ HasVerdict(c)
                    /\ row'[j] = Decided(row[j], call[c].status, call[c].reason)

DelayMove(j) ==
    \E p \in Process : /\ PollAllowed(j, p)
                       /\ row'[j] = [Unleased(row[j]) EXCEPT !.poll = "later"]

ClaimMove(j) ==
    \E p \in Process :
        \/ /\ j \in Startable
           /\ row'[j] = [Leased(row[j], p) EXCEPT !.status = "starting"]
        \/ /\ j \in Pollable
           /\ row'[j] = Leased(row[j], p)

RowMove(j) ==
    \/ row'[j] = row[j]
    \/ row[j].status = "absent" /\ row'[j] = Queued
    \/ j \in Missing /\ row'[j] = Reopened(row[j])
    \/ ClaimMove(j)
    \/ BindMove(j)
    \/ DelayMove(j)
    \/ DecideMove(j)
    \/ row[j].live /\ row'[j] = [row[j] EXCEPT !.live = FALSE]
    \/ /\ row[j].status = "polling" /\ row[j].poll = "later"
       /\ row'[j] = [row[j] EXCEPT !.poll = "due"]

\* A step changes a call only in the ways a coroutine goes on, begins or ends.
LEMMA CallMoves ==
    ASSUME TInv, NEW c \in Call, CallStep(c), NEW j \in Job
    PROVE  RowMove(j)
<1> DEFINE p == ProcOf(c)
           k == JobOf(c)
<1>0. p \in Process /\ k \in Job
  BY CallParts
<1>1. CASE Begin(c) \/ StartAnswered(c) \/ PollAnswered(c) \/ Raise(c)
  BY <1>1 DEF Begin, StartAnswered, PollAnswered, Raise, RowMove
<1>2. CASE j # k
  <2>1. row'[j] = row[j]
    <3>1. Complete(c) \/ Bind(k) \/ Delay(k) => row'[j] = row[j]
      BY <1>0, <1>2 DEF Complete, Bind, Delay, TInv, TypeOK
    <3>2. CASE Settle(c)
      BY <3>1, <3>2 DEF Settle
    <3>3. CASE Finish(c) \/ Resched(c)
      BY <3>1, <3>3 DEF Finish, Resched
    <3>4. CASE Begin(c) \/ StartAnswered(c) \/ PollAnswered(c) \/ Raise(c)
      BY <3>4 DEF Begin, StartAnswered, PollAnswered, Raise
    <3> QED
      BY <3>2, <3>3, <3>4 DEF CallStep
  <2> QED
    BY <2>1 DEF RowMove
<1>3. CASE j = k /\ Settle(c)
  <2>1. CASE call[c].status = "polling" /\ call[c].op = "start" /\ BindAllowed(k, p) /\ Bind(k)
    <3>1. BindMove(j)
      BY <1>0, <1>3, <2>1 DEF BindMove, Bind, Settle, TInv, TypeOK
    <3> QED
      BY <3>1 DEF RowMove
  <2>2. CASE PollAllowed(k, p) /\ Delay(k)
    <3>1. DelayMove(j)
      BY <1>0, <1>3, <2>2 DEF DelayMove, Delay, TInv, TypeOK
    <3> QED
      BY <3>1 DEF RowMove
  <2>3. CASE call[c].status # "polling" /\ Owned(row[k], p) /\ Complete(c)
    <3>1. HasVerdict(c)
      BY <1>3, <2>3 DEF HasVerdict, Settle, TInv, CallsExplained
    <3>2. DecideMove(j)
      BY <1>0, <1>3, <2>3, <3>1 DEF DecideMove, Complete, TInv, TypeOK
    <3> QED
      BY <3>2 DEF RowMove
  <2>4. CASE UNCHANGED row
    BY <2>4 DEF RowMove
  <2> QED
    BY <1>3, <2>1, <2>2, <2>3, <2>4 DEF Settle
<1>4. CASE j = k /\ Finish(c)
  <2>1. HasVerdict(c)
    BY <1>4 DEF HasVerdict, Finish, TInv, CallsExplained
  <2>2. DecideMove(j)
    BY <1>0, <1>4, <2>1 DEF DecideMove, Finish, Complete, TInv, TypeOK
  <2> QED
    BY <2>2 DEF RowMove
<1>5. CASE j = k /\ Resched(c)
  <2>1. CASE PollAllowed(k, p) /\ Delay(k)
    <3>1. DelayMove(j)
      BY <1>0, <1>5, <2>1 DEF DelayMove, Delay, TInv, TypeOK
    <3> QED
      BY <3>1 DEF RowMove
  <2>2. CASE UNCHANGED row
    BY <2>2 DEF RowMove
  <2> QED
    BY <1>5, <2>1, <2>2 DEF Resched
<1> QED
  BY <1>1, <1>2, <1>3, <1>4, <1>5 DEF CallStep

\* In one step a row makes one of nine moves, whatever the step is: the case
\* analysis that every invariant about rows rests on.
LEMMA RowMoves ==
    ASSUME TInv, [Next]_vars, NEW j \in Job
    PROVE  RowMove(j)
<1>1. CASE Submission
  <2>1. PICK p \in Process, k \in Job : Create(p, k) \/ PutCredential(p, k)
    BY <1>1 DEF Submission
  <2>2. \/ row'[j] = row[j]
        \/ row[j].status = "absent" /\ row'[j] = Queued
    BY <2>1 DEF Create, PutCredential, TInv, TypeOK
  <2> QED
    BY <2>2 DEF RowMove
<1>2. CASE Scanning
  <2>1. PICK p \in Process : Reopen(p) \/ ClaimStart(p) \/ ClaimPoll(p) \/ GatherDone(p)
    BY <1>2 DEF Scanning
  <2>2. CASE Reopen(p)
    <3>1. row'[j] = row[j] \/ (j \in Missing /\ row'[j] = Reopened(row[j]))
      BY <2>2 DEF Reopen, Reopenable
    <3> QED
      BY <3>1 DEF RowMove
  <2>3. CASE ClaimStart(p)
    <3>1. row'[j] = row[j] \/ ClaimMove(j)
      BY <2>3 DEF ClaimStart, ClaimMove
    <3> QED
      BY <3>1 DEF RowMove
  <2>4. CASE ClaimPoll(p)
    <3>1. row'[j] = row[j] \/ ClaimMove(j)
      BY <2>4 DEF ClaimPoll, ClaimMove
    <3> QED
      BY <3>1 DEF RowMove
  <2>5. CASE GatherDone(p)
    BY <2>5 DEF GatherDone, RowMove
  <2> QED
    BY <2>1, <2>2, <2>3, <2>4, <2>5
<1>3. CASE \E c \in Call : CallStep(c) \/ Project(c)
  BY <1>3, CallMoves DEF Project, RowMove
<1>4. CASE Passing
  <2>1. CASE \E k \in Job : ExpireLease(k)
    <3>1. row'[j] = row[j] \/ (row[j].live /\ row'[j] = [row[j] EXCEPT !.live = FALSE])
      BY <2>1 DEF ExpireLease, TInv, TypeOK
    <3> QED
      BY <3>1 DEF RowMove
  <2>2. CASE \E k \in Job : PollFallsDue(k)
    <3>1. \/ row'[j] = row[j]
          \/ /\ row[j].status = "polling" /\ row[j].poll = "later"
             /\ row'[j] = [row[j] EXCEPT !.poll = "due"]
      BY <2>2 DEF PollFallsDue, TInv, TypeOK
    <3> QED
      BY <3>1 DEF RowMove
  <2>3. CASE \E p \in Process, k \in Job : ExpireCredential(p, k)
    BY <2>3 DEF ExpireCredential, RowMove
  <2> QED
    BY <1>4, <2>1, <2>2, <2>3 DEF Passing
<1>5. CASE Failing
  BY <1>5 DEF Failing, Crash, Restart, RowMove
<1>6. CASE UNCHANGED vars
  BY <1>6 DEF vars, RowMove
<1> QED
  BY <1>1, <1>2, <1>3, <1>4, <1>5, <1>6 DEF Next

-----------------------------------------------------------------------------
(* The invariant of the rows.                                               *)

\* What every committed row satisfies.  Beyond the contract that is checked:
\* only a job being started or polled has a live lease, so that nobody who
\* owns a lease can touch a decided job; and a provider id was never bound
\* to a job the provider did not take.
RowOK(j) ==
    LET r == row[j]
    IN /\ r.status = "polling" => r.bound /\ r.poll # "none"
       /\ r.status = "starting" => r.owner # NoOwner
       /\ r.status \in Terminal => r.owner = NoOwner
       /\ r.status = "succeeded" => r.result
       /\ r.status \in {"failed", "indeterminate"} => r.reason # "none"
       /\ r.live => r.status \in {"starting", "polling"}
       /\ r.status = "absent" => ~r.bound
       /\ r.bound => j \in accepted

\* A start that was answered with "running" was accepted, and only bound jobs
\* are polled.
CallsBacked ==
    \A c \in Call :
        /\ call[c].phase = "answered" /\ call[c].op = "start" /\ call[c].status = "polling"
             => JobOf(c) \in accepted
        /\ call[c].op = "poll" => row[JobOf(c)].bound

IInv == TInv /\ (\A j \in Job : RowOK(j)) /\ CallsBacked

\* The fields of a row after each of the moves that change several of them.
LEMMA RowFields ==
    ASSUME NEW r \in Row
    PROVE  /\ \A status \in Status, reason \in Reason :
              LET d == Decided(r, status, reason)
              IN /\ d.status = status /\ d.reason = reason /\ d.owner = NoOwner
                 /\ d.bound = r.bound /\ ~d.live /\ (status = "succeeded" => d.result)
           /\ LET o == Reopened(r)
              IN /\ o.status = "polling" /\ o.bound = r.bound /\ o.poll = "due"
           /\ LET b == [Unleased(r) EXCEPT !.status = "polling", !.bound = TRUE, !.poll = "later"]
              IN /\ b.status = "polling" /\ b.bound /\ b.poll = "later" /\ ~b.live
           /\ LET l == [Unleased(r) EXCEPT !.poll = "later"]
              IN /\ l.status = r.status /\ l.bound = r.bound /\ l.poll = "later" /\ ~l.live
           /\ \A p \in Process :
              LET s == [Leased(r, p) EXCEPT !.status = "starting"]
              IN /\ s.status = "starting" /\ s.bound = r.bound /\ s.owner = WorkerIdOf[p] /\ s.live
           /\ \A p \in Process :
              LET q == Leased(r, p)
              IN /\ q.status = r.status /\ q.bound = r.bound /\ q.poll = r.poll
                 /\ q.owner = WorkerIdOf[p] /\ q.live /\ q.result = r.result /\ q.reason = r.reason
           /\ LET e == [r EXCEPT !.live = FALSE]
              IN /\ e.status = r.status /\ e.bound = r.bound /\ e.poll = r.poll /\ ~e.live
                 /\ e.owner = r.owner /\ e.result = r.result /\ e.reason = r.reason
           /\ LET u == [r EXCEPT !.poll = "due"]
              IN /\ u.status = r.status /\ u.bound = r.bound /\ u.poll = "due"
                 /\ u.owner = r.owner /\ u.live = r.live /\ u.result = r.result
                 /\ u.reason = r.reason
<1>1. \A status \in Status, reason \in Reason :
      LET d == Decided(r, status, reason)
      IN /\ d.status = status /\ d.reason = reason /\ d.owner = NoOwner
         /\ d.bound = r.bound /\ ~d.live /\ (status = "succeeded" => d.result)
  BY DEF Row, Decided, Unleased
<1>2. LET o == Reopened(r)
      IN /\ o.status = "polling" /\ o.bound = r.bound /\ o.poll = "due"
  BY DEF Row, Reopened
<1>3. LET b == [Unleased(r) EXCEPT !.status = "polling", !.bound = TRUE, !.poll = "later"]
      IN /\ b.status = "polling" /\ b.bound /\ b.poll = "later" /\ ~b.live
  BY DEF Row, Unleased
<1>4. LET l == [Unleased(r) EXCEPT !.poll = "later"]
      IN /\ l.status = r.status /\ l.bound = r.bound /\ l.poll = "later" /\ ~l.live
  BY DEF Row, Unleased
<1>5. \A p \in Process :
      LET s == [Leased(r, p) EXCEPT !.status = "starting"]
      IN /\ s.status = "starting" /\ s.bound = r.bound /\ s.owner = WorkerIdOf[p] /\ s.live
  BY DEF Row, Leased
<1>6. \A p \in Process :
      LET q == Leased(r, p)
      IN /\ q.status = r.status /\ q.bound = r.bound /\ q.poll = r.poll
         /\ q.owner = WorkerIdOf[p] /\ q.live /\ q.result = r.result /\ q.reason = r.reason
  BY DEF Row, Leased
<1>7. LET e == [r EXCEPT !.live = FALSE]
      IN /\ e.status = r.status /\ e.bound = r.bound /\ e.poll = r.poll /\ ~e.live
         /\ e.owner = r.owner /\ e.result = r.result /\ e.reason = r.reason
  BY DEF Row
<1>8. LET u == [r EXCEPT !.poll = "due"]
      IN /\ u.status = r.status /\ u.bound = r.bound /\ u.poll = "due"
         /\ u.owner = r.owner /\ u.live = r.live /\ u.result = r.result
         /\ u.reason = r.reason
  BY DEF Row
<1> QED
  BY <1>1, <1>2, <1>3, <1>4, <1>5, <1>6, <1>7, <1>8

\* The provider never forgets a task it has created.
LEMMA AcceptedGrows == [Next]_vars => accepted \subseteq accepted'
<1> SUFFICES ASSUME [Next]_vars PROVE accepted \subseteq accepted'
  OBVIOUS
<1>1. CASE Submission
  BY <1>1 DEF Submission, Create, PutCredential
<1>2. CASE Scanning
  BY <1>2 DEF Scanning, Reopen, ClaimStart, ClaimPoll, GatherDone
<1>3. CASE \E c \in Call : CallStep(c) \/ Project(c)
  <2>1. PICK c \in Call : CallStep(c) \/ Project(c)
    BY <1>3
  <2>2. CASE StartAnswered(c)
    BY <2>2 DEF StartAnswered
  <2>3. CASE ~StartAnswered(c)
    BY <2>1, <2>3 DEF CallStep, Begin, PollAnswered, Settle, Finish, Raise, Resched, Project
  <2> QED
    BY <2>2, <2>3
<1>4. CASE Passing
  BY <1>4 DEF Passing, ExpireLease, PollFallsDue, ExpireCredential
<1>5. CASE Failing
  BY <1>5 DEF Failing, Crash, Restart
<1>6. CASE UNCHANGED vars
  BY <1>6 DEF vars
<1> QED
  BY <1>1, <1>2, <1>3, <1>4, <1>5, <1>6 DEF Next

\* Every move keeps a row in order.
LEMMA RowOKStep ==
    ASSUME IInv, [Next]_vars, NEW j \in Job
    PROVE  RowOK(j)'
<1> DEFINE r == row[j]
<1>1. r \in Row /\ RowOK(j) /\ RowMove(j) /\ accepted \subseteq accepted'
  BY RowMoves, AcceptedGrows DEF IInv, TInv, TypeOK
<1>2. CASE row'[j] = row[j]
  BY <1>1, <1>2 DEF RowOK
<1>3. CASE row[j].status = "absent" /\ row'[j] = Queued
  <2>1. row'[j].status = "queued" /\ row'[j].bound = FALSE /\ row'[j].live = FALSE
    BY <1>3 DEF Queued, NoRow
  <2> QED
    BY <2>1 DEF RowOK, Terminal
<1>4. CASE j \in Missing /\ row'[j] = Reopened(r)
  <2>1. row'[j].status = "polling" /\ row'[j].bound = r.bound /\ row'[j].poll = "due" /\ r.bound
    BY <1>1, <1>4, RowFields DEF Missing
  <2> QED
    BY <1>1, <2>1 DEF RowOK, Terminal
<1>5. CASE ClaimMove(j)
  <2>1. PICK p \in Process :
           \/ j \in Startable /\ row'[j] = [Leased(r, p) EXCEPT !.status = "starting"]
           \/ j \in Pollable /\ row'[j] = Leased(r, p)
    BY <1>5 DEF ClaimMove
  <2>2. WorkerIdOf[p] # NoOwner
    OBVIOUS
  <2>3. CASE j \in Startable /\ row'[j] = [Leased(r, p) EXCEPT !.status = "starting"]
    <3>1. row'[j].status = "starting" /\ row'[j].bound = r.bound /\ row'[j].owner = WorkerIdOf[p]
      BY <1>1, <2>3, RowFields
    <3> QED
      BY <1>1, <2>2, <3>1 DEF RowOK, Terminal
  <2>4. CASE j \in Pollable /\ row'[j] = Leased(r, p)
    <3>1. /\ row'[j].status = r.status /\ row'[j].bound = r.bound /\ row'[j].poll = r.poll
          /\ r.status = "polling"
      BY <1>1, <2>4, RowFields DEF Pollable
    <3> QED
      BY <1>1, <3>1 DEF RowOK, Terminal
  <2> QED
    BY <2>1, <2>3, <2>4
<1>6. CASE BindMove(j)
  <2>1. PICK c \in Call :
           /\ JobOf(c) = j /\ call[c].phase = "answered" /\ call[c].op = "start"
           /\ call[c].status = "polling"
           /\ row'[j] = [Unleased(r) EXCEPT !.status = "polling", !.bound = TRUE, !.poll = "later"]
    BY <1>6 DEF BindMove
  <2>2. j \in accepted
    BY <2>1 DEF IInv, CallsBacked
  <2>3. row'[j].status = "polling" /\ row'[j].bound /\ row'[j].poll = "later"
    BY <1>1, <2>1, RowFields
  <2> QED
    BY <1>1, <2>2, <2>3 DEF RowOK, Terminal
<1>7. CASE DelayMove(j)
  <2>1. PICK p \in Process :
           r.status = "polling" /\ row'[j] = [Unleased(r) EXCEPT !.poll = "later"]
    BY <1>7 DEF DelayMove, PollAllowed
  <2>2. row'[j].status = "polling" /\ row'[j].bound = r.bound /\ row'[j].poll = "later"
    BY <1>1, <2>1, RowFields
  <2> QED
    BY <1>1, <2>1, <2>2 DEF RowOK, Terminal
<1>8. CASE DecideMove(j)
  <2>1. PICK c \in Call : /\ HasVerdict(c) /\ Owned(r, ProcOf(c))
                          /\ row'[j] = Decided(r, call[c].status, call[c].reason)
    BY <1>8 DEF DecideMove
  <2>2. /\ call[c].status \in Status /\ call[c].reason \in Reason
        /\ call[c].status \in Terminal
        /\ call[c].status # "succeeded" => call[c].reason # "none"
    BY <2>1 DEF HasVerdict, Unsuccessful, Status, Terminal, IInv, TInv, TypeOK, CallState
  <2>3. /\ row'[j].status = call[c].status /\ row'[j].reason = call[c].reason
        /\ row'[j].owner = NoOwner /\ row'[j].bound = r.bound /\ ~row'[j].live
        /\ row'[j].status = "succeeded" => row'[j].result
    BY <1>1, <2>1, <2>2, RowFields, CallParts
  <2> QED
    BY <1>1, <2>2, <2>3 DEF RowOK, Terminal
<1>9. CASE r.live /\ row'[j] = [r EXCEPT !.live = FALSE]
  <2>1. /\ row'[j].status = r.status /\ row'[j].bound = r.bound /\ row'[j].poll = r.poll
        /\ ~row'[j].live /\ row'[j].owner = r.owner
    BY <1>1, <1>9, RowFields
  <2> QED
    BY <1>1, <1>9, <2>1 DEF RowOK, Terminal, Row
<1>10. CASE r.status = "polling" /\ r.poll = "later" /\ row'[j] = [r EXCEPT !.poll = "due"]
  <2>1. row'[j].status = "polling" /\ row'[j].bound = r.bound /\ row'[j].poll = "due"
    BY <1>1, <1>10 DEF Row
  <2> QED
    BY <1>1, <1>10, <2>1 DEF RowOK, Terminal
<1> QED
  BY <1>1, <1>2, <1>3, <1>4, <1>5, <1>6, <1>7, <1>8, <1>9, <1>10 DEF RowMove

\* A bound provider id is never removed.
LEMMA BoundGrows ==
    ASSUME IInv, [Next]_vars, NEW j \in Job, row[j].bound
    PROVE  row'[j].bound
<1> DEFINE r == row[j]
<1>1. r \in Row /\ RowOK(j) /\ RowMove(j)
  BY RowMoves DEF IInv, TInv, TypeOK
<1>2. CASE ClaimMove(j)
  <2>1. PICK p \in Process : \/ row'[j] = [Leased(r, p) EXCEPT !.status = "starting"]
                             \/ row'[j] = Leased(r, p)
    BY <1>2 DEF ClaimMove
  <2>2. /\ [Leased(r, p) EXCEPT !.status = "starting"].bound = r.bound
        /\ Leased(r, p).bound = r.bound
    BY <1>1 DEF Row, Leased
  <2> QED
    BY <2>1, <2>2
<1>3. CASE BindMove(j)
  BY <1>1, <1>3, RowFields DEF BindMove
<1>4. CASE DelayMove(j)
  BY <1>1, <1>4, RowFields DEF DelayMove
<1>5. CASE DecideMove(j)
  <2>1. PICK c \in Call : HasVerdict(c) /\ row'[j] = Decided(r, call[c].status, call[c].reason)
    BY <1>5 DEF DecideMove
  <2>2. call[c].status \in Status /\ call[c].reason \in Reason
    BY <2>1 DEF HasVerdict, Unsuccessful, Status, IInv, TInv, TypeOK, CallState
  <2> QED
    BY <1>1, <2>1, <2>2, RowFields
<1>6. CASE \/ row'[j] = r \/ row'[j] = Reopened(r)
           \/ row'[j] = [r EXCEPT !.live = FALSE] \/ row'[j] = [r EXCEPT !.poll = "due"]
  <2>1. /\ Reopened(r).bound = r.bound /\ [r EXCEPT !.live = FALSE].bound = r.bound
        /\ [r EXCEPT !.poll = "due"].bound = r.bound
    BY <1>1 DEF Row, Reopened
  <2> QED
    BY <1>6, <2>1
<1>7. CASE r.status = "absent"
  BY <1>1, <1>7 DEF RowOK
<1> QED
  BY <1>1, <1>2, <1>3, <1>4, <1>5, <1>6, <1>7 DEF RowMove

\* How one step changes one call, as far as CallsBacked depends on it.
CallMove(c) ==
    \/ call'[c] = call[c]
    \/ /\ call'[c].phase # "answered"
       /\ \/ call'[c].op \in {call[c].op, "none", "start"}
          \/ call'[c].op = "poll" /\ row[JobOf(c)].bound
    \/ call'[c].op = "poll" /\ call[c].op = "poll"
    \/ /\ call'[c].op = "start"
       /\ call'[c].status = "polling" => JobOf(c) \in accepted'

\* Moving a call on is a call move.
LEMMA GoesMove ==
    ASSUME TInv, NEW c \in Call, NEW phase, NEW status, NEW reason,
           Goes(c, phase, status, reason)
    PROVE  /\ \A d \in Call : d # c => call'[d] = call[d]
           /\ call'[c].phase = phase /\ call'[c].op = call[c].op /\ call'[c].status = status
BY DEF Goes, TInv, TypeOK, CallState

\* Ending a call is a call move.
LEMMA EndsMove ==
    ASSUME TInv, NEW c \in Call, Ends(c)
    PROVE  /\ \A d \in Call : d # c => call'[d] = call[d]
           /\ call'[c].phase = "free" /\ call'[c].op = "none"
BY DEF Ends, Free, TInv, TypeOK

\* Beginning calls for claimed jobs is a call move.
LEMMA LaunchMove ==
    ASSUME TInv, NEW p \in Process, NEW S \in SUBSET Job, NEW op, Launch(p, S, op),
           NEW d \in Call
    PROVE  \/ call'[d] = call[d]
           \/ /\ JobOf(d) \in S /\ ProcOf(d) = p /\ d = NewCall(p, JobOf(d))
              /\ call[d].phase = "free" /\ call'[d].phase = "begin" /\ call'[d].op = op
<1>1. CASE d \notin NewCalls(p, S)
  BY <1>1 DEF Launch
<1>2. CASE d \in NewCalls(p, S)
  <2>1. PICK j \in S : d = NewCall(p, j)
    BY <1>2 DEF NewCalls
  <2>2. FreeGens(p, j) # {} /\ j \in Job
    BY <2>1 DEF Launch
  <2>3. JobOf(d) = j /\ ProcOf(d) = p /\ call[d].phase = "free"
    BY <2>1, <2>2, NewCallIsFree
  <2>4. call'[d] = [Free EXCEPT !.phase = "begin", !.op = op]
    BY <1>2 DEF Launch
  <2>5. call'[d].phase = "begin" /\ call'[d].op = op
    BY <2>4 DEF Free
  <2> QED
    BY <2>1, <2>3, <2>5
<1> QED
  BY <1>1, <1>2

\* Going from complete() to the projection is a call move.
LEMMA CompleteMove ==
    ASSUME TInv, NEW c \in Call, Complete(c)
    PROVE  /\ \A d \in Call : d # c => call'[d] = call[d]
           /\ call'[c].phase = "project" /\ call'[c].op = call[c].op
BY DEF Complete, TInv, TypeOK, CallState

\* Every step of the queue moves the calls as the invariant about them needs.
LEMMA CallMoveStep ==
    ASSUME IInv, [Next]_vars, NEW d \in Call
    PROVE  CallMove(d)
<1>0. TInv
  BY DEF IInv
<1>1. CASE Submission
  BY <1>1 DEF Submission, Create, PutCredential, CallMove
<1>2. CASE Scanning
  <2>1. PICK p \in Process : Reopen(p) \/ ClaimStart(p) \/ ClaimPoll(p) \/ GatherDone(p)
    BY <1>2 DEF Scanning
  <2>2. CASE Reopen(p) \/ GatherDone(p)
    BY <2>2 DEF Reopen, GatherDone, CallMove
  <2>3. CASE ClaimStart(p)
    <3>1. PICK S \in SUBSET Startable : Launch(p, S, "start")
      BY <2>3 DEF ClaimStart
    <3>2. call'[d] = call[d] \/ (call'[d].phase = "begin" /\ call'[d].op = "start")
      BY <1>0, <3>1, LaunchMove DEF Startable
    <3> QED
      BY <3>2 DEF CallMove
  <2>4. CASE ClaimPoll(p)
    <3>1. PICK S \in SUBSET Pollable : Launch(p, S, "poll")
      BY <2>4 DEF ClaimPoll
    <3>2. \/ call'[d] = call[d]
          \/ call'[d].phase = "begin" /\ call'[d].op = "poll" /\ JobOf(d) \in S
      BY <1>0, <3>1, LaunchMove DEF Pollable
    <3> QED
      BY <3>1, <3>2 DEF CallMove, Pollable
  <2> QED
    BY <2>1, <2>2, <2>3, <2>4
<1>3. CASE \E c \in Call : CallStep(c) \/ Project(c)
  <2>1. PICK c \in Call : CallStep(c) \/ Project(c)
    BY <1>3
  <2>2. CASE \E phase \in {"calling", "finish", "resched"} : \E status, reason :
                Goes(c, phase, status, reason)
    BY <1>0, <2>2, GoesMove DEF CallMove
  <2>3. CASE Ends(c)
    BY <1>0, <2>3, EndsMove DEF CallMove
  <2>4. CASE Complete(c)
    BY <1>0, <2>4, CompleteMove DEF CallMove
  <2>5. CASE StartAnswered(c)
    <3>1. CASE \E a \in TakenAnswers \cup DoubtfulAnswers :
                  Goes(c, a[1], a[2], a[3]) /\ accepted' = accepted \cup {JobOf(c)}
      BY <1>0, <2>5, <3>1, GoesMove DEF StartAnswered, CallMove
    <3>2. CASE \E a \in DoubtfulAnswers \cup {Refusal} : Goes(c, a[1], a[2], a[3])
      <4>1. PICK a \in DoubtfulAnswers \cup {Refusal} : Goes(c, a[1], a[2], a[3])
        BY <3>2
      <4>2. a[2] # "polling"
        BY DEF DoubtfulAnswers, Refusal, Unclear
      <4> QED
        BY <1>0, <2>5, <4>1, <4>2, GoesMove DEF StartAnswered, CallMove
    <3> QED
      BY <2>5, <3>1, <3>2 DEF StartAnswered
  <2>6. CASE PollAnswered(c)
    <3>1. PICK a \in PollAnswers : Goes(c, a[1], a[2], a[3])
      BY <2>6 DEF PollAnswered
    <3> QED
      BY <1>0, <2>6, <3>1, GoesMove DEF PollAnswered, CallMove
  <2> QED
    BY <2>1, <2>2, <2>3, <2>4, <2>5, <2>6
       DEF CallStep, Begin, Settle, Finish, Raise, Resched, Project
<1>4. CASE Passing
  BY <1>4 DEF Passing, ExpireLease, PollFallsDue, ExpireCredential, CallMove
<1>5. CASE Failing
  <2>1. PICK p \in Process : Crash(p) \/ Restart(p)
    BY <1>5 DEF Failing
  <2>2. call'[d] = call[d] \/ call'[d] = Free
    BY <2>1 DEF Crash, Restart
  <2> QED
    BY <2>2 DEF CallMove, Free
<1>6. CASE UNCHANGED vars
  BY <1>6 DEF vars, CallMove
<1> QED
  BY <1>1, <1>2, <1>3, <1>4, <1>5, <1>6 DEF Next

\* The empty queue satisfies the inductive invariant.
LEMMA InvInit == Init => IInv
<1> SUFFICES ASSUME Init PROVE IInv
  OBVIOUS
<1>1. TInv
  BY TypeInit
<1>2. \A j \in Job : RowOK(j)
  BY DEF Init, RowOK, NoRow, Terminal
<1>3. CallsBacked
  BY DEF Init, CallsBacked, Free
<1> QED
  BY <1>1, <1>2, <1>3 DEF IInv

\* Every step keeps the inductive invariant.
LEMMA InvNext == IInv /\ [Next]_vars => IInv'
<1> SUFFICES ASSUME IInv, [Next]_vars PROVE IInv'
  OBVIOUS
<1>1. TInv'
  BY TypeNext DEF IInv
<1>2. \A j \in Job : RowOK(j)'
  BY RowOKStep
<1>3. ASSUME NEW c \in Call
      PROVE  /\ call'[c].phase = "answered" /\ call'[c].op = "start" /\ call'[c].status = "polling"
                  => JobOf(c) \in accepted'
             /\ call'[c].op = "poll" => row'[JobOf(c)].bound
  <2>1. /\ CallMove(c) /\ JobOf(c) \in Job /\ accepted \subseteq accepted'
        /\ row[JobOf(c)].bound => row'[JobOf(c)].bound
    BY CallMoveStep, CallParts, AcceptedGrows, BoundGrows
  <2>2. /\ call[c].phase = "answered" /\ call[c].op = "start" /\ call[c].status = "polling"
             => JobOf(c) \in accepted
        /\ call[c].op = "poll" => row[JobOf(c)].bound
    BY DEF IInv, CallsBacked
  <2> QED
    BY <2>1, <2>2 DEF CallMove
<1>4. CallsBacked'
  BY <1>3 DEF CallsBacked
<1> QED
  BY <1>1, <1>2, <1>4 DEF IInv

\* The inductive invariant holds in every reachable state.
LEMMA Invariance == Spec => []IInv
BY InvInit, InvNext, PTL DEF Spec

\* No committed row ever breaks the contract its readers validate, so no scan
\* fails on reading it: for every number of workers, crashes and late leases.
THEOREM StatusContractHolds == Spec => []StatusContract
<1>1. IInv => StatusContract
  <2> SUFFICES ASSUME IInv PROVE StatusContract
    OBVIOUS
  <2>1. \A j \in Job : RowOK(j)
    BY DEF IInv
  <2> QED
    BY <2>1 DEF RowOK, StatusContract, PollingIsBound, StartingIsLeased,
                DecidedIsUnleased, DecidedIsExplained, Terminal
<1> QED
  BY Invariance, <1>1, PTL

\* Only tasks the provider has created are asked for.
THEOREM PolledWasAcceptedHolds == Spec => []PolledWasAccepted
<1>1. IInv => PolledWasAccepted
  BY DEF IInv, RowOK, CallsBacked, PolledWasAccepted
<1> QED
  BY Invariance, <1>1, PTL

-----------------------------------------------------------------------------
(* Verdicts, and what GenerationJobs implements.                            *)

\* The moves of a row as its readers see them.
StatusMove(j) ==
    LET r == row[j]
        s == row'[j]
    IN \/ s.status = r.status /\ s.bound = r.bound
       \/ r.status = "absent" /\ s.status = "queued" /\ s.bound = r.bound
       \/ r.status = "queued" /\ s.status = "starting" /\ s.bound = r.bound
       \/ r.status = "starting" /\ s.status = "polling" /\ s.bound
       \/ r.status \in {"starting", "polling"} /\ s.status \in Terminal /\ s.bound = r.bound
       \/ r.status = "indeterminate" /\ r.bound /\ s.status = "polling" /\ s.bound = r.bound

\* The status of a row changes along the edges of the lifecycle only.
LEMMA StatusMoves ==
    ASSUME IInv, [Next]_vars, NEW j \in Job
    PROVE  StatusMove(j)
<1> DEFINE r == row[j]
<1>1. r \in Row /\ RowOK(j) /\ RowMove(j)
  BY RowMoves DEF IInv, TInv, TypeOK
<1>2. CASE row'[j] = r
  BY <1>2 DEF StatusMove
<1>3. CASE r.status = "absent" /\ row'[j] = Queued
  <2>1. row'[j].status = "queued" /\ row'[j].bound = FALSE
    BY <1>3 DEF Queued, NoRow
  <2>2. r.bound = FALSE
    BY <1>1, <1>3 DEF RowOK, Row
  <2> QED
    BY <1>3, <2>1, <2>2 DEF StatusMove
<1>4. CASE j \in Missing /\ row'[j] = Reopened(r)
  <2>1. Reopened(r).status = "polling" /\ Reopened(r).bound = r.bound
    BY <1>1 DEF Row, Reopened
  <2> QED
    BY <1>4, <2>1 DEF StatusMove, Missing
<1>5. CASE ClaimMove(j)
  <2>1. PICK p \in Process :
           \/ j \in Startable /\ row'[j] = [Leased(r, p) EXCEPT !.status = "starting"]
           \/ j \in Pollable /\ row'[j] = Leased(r, p)
    BY <1>5 DEF ClaimMove
  <2>2. /\ [Leased(r, p) EXCEPT !.status = "starting"].bound = r.bound
        /\ [Leased(r, p) EXCEPT !.status = "starting"].status = "starting"
        /\ Leased(r, p).bound = r.bound /\ Leased(r, p).status = r.status
    BY <1>1 DEF Row, Leased
  <2>3. j \in Startable => r.status \in {"queued", "starting"}
    BY DEF Startable
  <2> QED
    BY <2>1, <2>2, <2>3 DEF StatusMove
<1>6. CASE BindMove(j)
  <2>1. /\ r.status = "starting"
        /\ row'[j] = [Unleased(r) EXCEPT !.status = "polling", !.bound = TRUE, !.poll = "later"]
    BY <1>6 DEF BindMove, BindAllowed
  <2>2. row'[j].status = "polling" /\ row'[j].bound
    BY <1>1, <2>1 DEF Row, Unleased
  <2> QED
    BY <2>1, <2>2 DEF StatusMove
<1>7. CASE DelayMove(j)
  <2>1. row'[j] = [Unleased(r) EXCEPT !.poll = "later"]
    BY <1>7 DEF DelayMove
  <2>2. row'[j].status = r.status /\ row'[j].bound = r.bound
    BY <1>1, <2>1 DEF Row, Unleased
  <2> QED
    BY <2>2 DEF StatusMove
<1>8. CASE DecideMove(j)
  <2>1. PICK c \in Call : /\ HasVerdict(c) /\ Owned(r, ProcOf(c))
                          /\ row'[j] = Decided(r, call[c].status, call[c].reason)
    BY <1>8 DEF DecideMove
  <2>2. call[c].status \in Terminal
    BY <2>1 DEF HasVerdict, Unsuccessful, Terminal
  <2>3. row'[j].status = call[c].status /\ row'[j].bound = r.bound
    BY <1>1, <2>1 DEF Row, Decided, Unleased
  <2>4. r.status \in {"starting", "polling"}
    BY <1>1, <2>1 DEF Owned, RowOK
  <2> QED
    BY <2>2, <2>3, <2>4 DEF StatusMove
<1>9. CASE \/ row'[j] = [r EXCEPT !.live = FALSE]
           \/ row'[j] = [r EXCEPT !.poll = "due"]
  <2>1. row'[j].status = r.status /\ row'[j].bound = r.bound
    BY <1>1, <1>9 DEF Row
  <2> QED
    BY <2>1 DEF StatusMove
<1> QED
  BY <1>1, <1>2, <1>3, <1>4, <1>5, <1>6, <1>7, <1>8, <1>9 DEF RowMove

\* A success or a failure is never revised, although complete() looks at
\* nothing but the lease and two processes may have one worker id: a decided
\* row has no lease, and nobody can take one.
THEOREM VerdictIsFinalHolds == Spec => VerdictIsFinal
<1>1. ASSUME IInv, [Next]_vars, NEW j \in Job, row[j].status \in {"succeeded", "failed"}
      PROVE  row'[j].status = row[j].status
  BY <1>1, StatusMoves DEF StatusMove
<1>2. IInv /\ [Next]_vars
        => [\A j \in Job : row[j].status \in {"succeeded", "failed"}
                             => row'[j].status = row[j].status]_vars
  BY <1>1
<1> QED
  BY Invariance, <1>2, PTL DEF Spec, VerdictIsFinal

\* Rows behave as JobLifecycle promises: GenerationJobs implements it under
\* the mapping phase <- status, bound <- bound.
THEOREM ImplementsLifecycle == Spec => LifecycleSpec
<1>1. Init => Lifecycle!Init
  BY DEF Init, Lifecycle!Init, NoRow
<1>2. ASSUME IInv, IInv', [Next]_vars
      PROVE  Lifecycle!Next
  <2>1. [j \in Job |-> row'[j].status] \in [Job -> Lifecycle!Phase]
    BY <1>2 DEF IInv, TInv, TypeOK, Row, Status, Lifecycle!Phase
  <2>2. [j \in Job |-> row'[j].bound] \in [Job -> BOOLEAN]
    BY <1>2 DEF IInv, TInv, TypeOK, Row
  <2>3. ASSUME NEW j \in Job PROVE Lifecycle!JobStep(j)
    <3>1. StatusMove(j)
      BY <1>2, StatusMoves
    <3> QED
      BY <3>1 DEF StatusMove, Terminal, Lifecycle!JobStep, Lifecycle!Keep, Lifecycle!Submit,
                  Lifecycle!Claim, Lifecycle!Bind, Lifecycle!Decide, Lifecycle!Replay,
                  Lifecycle!Rest, Lifecycle!Verdict
  <2> QED
    BY <2>1, <2>2, <2>3 DEF Lifecycle!Next
<1>3. IInv /\ IInv' /\ [Next]_vars => [Lifecycle!Next]_(Lifecycle!vars)
  BY <1>2
<1> QED
  BY Invariance, <1>1, <1>3, PTL DEF Spec, LifecycleSpec, Lifecycle!Spec

-----------------------------------------------------------------------------
(* Lease exclusion.                                                         *)

Exclusive ==
    /\ \A c \in Call : Active(c) => HoldsLease(c)
    /\ \A c, d \in Call : Active(c) /\ Active(d) /\ JobOf(c) = JobOf(d) => c = d

SameLease(j) == /\ row'[j].owner = row[j].owner
                /\ row'[j].live = row[j].live
                /\ row'[j].status = row[j].status

\* An active call that was active before, over an unchanged lease.
Carried(d) == Active(d) /\ call'[d].op = call[d].op /\ SameLease(JobOf(d))

\* A call whose row and lease a step leaves alone still holds its lease.
LEMMA CarriedHolds ==
    ASSUME NEW d \in Call, Carried(d), HoldsLease(d)
    PROVE  HoldsLease(d)'
BY DEF Carried, SameLease, HoldsLease, Owned

\* Exclusion survives a step that carries every active call over.
LEMMA ExclusiveIfCarried ==
    ASSUME Exclusive, \A d \in Call : Active(d)' => Carried(d)
    PROVE  Exclusive'
<1>1. ASSUME NEW d \in Call, Active(d)' PROVE HoldsLease(d)'
  BY <1>1, CarriedHolds DEF Exclusive, Carried
<1>2. ASSUME NEW c \in Call, NEW d \in Call, Active(c)', Active(d)', JobOf(c) = JobOf(d)
      PROVE  c = d
  BY <1>2 DEF Exclusive, Carried
<1> QED
  BY <1>1, <1>2 DEF Exclusive

\* A claim of S: the jobs of S had no active call, every new call holds the
\* lease, and there is one new call per job.
LEMMA ExclusiveIfClaimed ==
    ASSUME Exclusive, NEW p \in Process, NEW S \in SUBSET Job,
           \A d \in Call : Active(d) => JobOf(d) \notin S,
           \A d \in Call : Active(d)' =>
              \/ Carried(d)
              \/ JobOf(d) \in S /\ d = NewCall(p, JobOf(d)) /\ HoldsLease(d)'
    PROVE  Exclusive'
<1>1. ASSUME NEW d \in Call, Active(d)' PROVE HoldsLease(d)'
  BY <1>1, CarriedHolds DEF Exclusive, Carried
<1>2. ASSUME NEW c \in Call, NEW d \in Call, Active(c)', Active(d)', JobOf(c) = JobOf(d)
      PROVE  c = d
  <2>1. CASE Carried(c) /\ Carried(d)
    BY <1>2, <2>1 DEF Exclusive, Carried
  <2>2. CASE Carried(c) /\ ~Carried(d)
    BY <1>2, <2>2 DEF Carried
  <2>3. CASE ~Carried(c) /\ Carried(d)
    BY <1>2, <2>3 DEF Carried
  <2>4. CASE ~Carried(c) /\ ~Carried(d)
    <3>1. c = NewCall(p, JobOf(c)) /\ d = NewCall(p, JobOf(d))
      BY <1>2, <2>4
    <3> QED
      BY <1>2, <3>1
  <2> QED
    BY <2>1, <2>2, <2>3, <2>4
<1> QED
  BY <1>1, <1>2 DEF Exclusive

\* A row that no active call works on may change, and calls that end may end.
LEMMA ExclusiveIfQuiet ==
    ASSUME Exclusive, \A d \in Call : call'[d] = call[d] \/ ~Active(d)',
           \A d \in Call : Active(d) => SameLease(JobOf(d))
    PROVE  Exclusive'
<1>1. \A d \in Call : Active(d)' => Carried(d)
  BY DEF Active, Carried
<1> QED
  BY <1>1, ExclusiveIfCarried

\* A scan claims only rows without a live lease, so exclusion survives it.
LEMMA ExclusiveScanning ==
    ASSUME IInv, Exclusive, Scanning
    PROVE  Exclusive'
<1>0. TInv /\ TypeOK /\ row \in [Job -> Row]
  BY DEF IInv, TInv, TypeOK
<1>a. \A d \in Call : Active(d) => /\ row[JobOf(d)].live
                                   /\ row[JobOf(d)].status \in {"starting", "polling"}
  BY DEF Exclusive, HoldsLease, Owned
<1>1. PICK p \in Process : Reopen(p) \/ ClaimStart(p) \/ ClaimPoll(p) \/ GatherDone(p)
  BY DEF Scanning
<1>2. CASE Reopen(p)
  <2>1. \A j \in Job : row'[j] = row[j] \/ row[j].status = "indeterminate"
    BY <1>0, <1>2 DEF Reopen, Reopenable, Missing
  <2>2. \A d \in Call : Active(d) => SameLease(JobOf(d))
    BY <1>a, <2>1, CallParts DEF SameLease
  <2> QED
    BY <1>2, <2>2, ExclusiveIfQuiet DEF Reopen
<1>3. CASE ClaimStart(p)
  <2>1. PICK S \in SUBSET Startable :
           /\ Launch(p, S, "start")
           /\ row' = [j \in Job |-> IF j \in S
                                      THEN [Leased(row[j], p) EXCEPT !.status = "starting"]
                                      ELSE row[j]]
    BY <1>3 DEF ClaimStart
  <2>2. S \in SUBSET Job
    BY DEF Startable
  <2>3. \A d \in Call : Active(d) => JobOf(d) \notin S
    BY <1>a DEF Startable
  <2>4. ASSUME NEW d \in Call, Active(d)'
        PROVE  \/ Carried(d)
               \/ JobOf(d) \in S /\ d = NewCall(p, JobOf(d)) /\ HoldsLease(d)'
    <3>1. CASE call'[d] = call[d]
      <4>1. Active(d) /\ JobOf(d) \in Job /\ JobOf(d) \notin S
        BY <2>3, <2>4, <3>1, CallParts DEF Active
      <4> QED
        BY <2>1, <3>1, <4>1 DEF Carried, SameLease
    <3>2. CASE call'[d] # call[d]
      <4>1. /\ JobOf(d) \in S /\ ProcOf(d) = p /\ d = NewCall(p, JobOf(d))
            /\ call'[d].op = "start"
        BY <1>0, <2>1, <2>2, <3>2, LaunchMove
      <4>2. /\ row'[JobOf(d)].status = "starting" /\ row'[JobOf(d)].live
            /\ row'[JobOf(d)].owner = WorkerIdOf[p]
        BY <1>0, <2>1, <2>2, <4>1, RowFields
      <4> QED
        BY <4>1, <4>2 DEF HoldsLease, Owned
    <3> QED
      BY <3>1, <3>2
  <2> QED
    BY <2>2, <2>3, <2>4, ExclusiveIfClaimed
<1>4. CASE ClaimPoll(p)
  <2>1. PICK S \in SUBSET Pollable :
           /\ Launch(p, S, "poll")
           /\ row' = [j \in Job |-> IF j \in S THEN Leased(row[j], p) ELSE row[j]]
    BY <1>4 DEF ClaimPoll
  <2>2. S \in SUBSET Job
    BY DEF Pollable
  <2>3. \A d \in Call : Active(d) => JobOf(d) \notin S
    BY <1>a DEF Pollable
  <2>4. ASSUME NEW d \in Call, Active(d)'
        PROVE  \/ Carried(d)
               \/ JobOf(d) \in S /\ d = NewCall(p, JobOf(d)) /\ HoldsLease(d)'
    <3>1. CASE call'[d] = call[d]
      <4>1. Active(d) /\ JobOf(d) \in Job /\ JobOf(d) \notin S
        BY <2>3, <2>4, <3>1, CallParts DEF Active
      <4> QED
        BY <2>1, <3>1, <4>1 DEF Carried, SameLease
    <3>2. CASE call'[d] # call[d]
      <4>1. /\ JobOf(d) \in S /\ ProcOf(d) = p /\ d = NewCall(p, JobOf(d))
            /\ call'[d].op = "poll"
        BY <1>0, <2>1, <2>2, <3>2, LaunchMove
      <4>2. /\ row'[JobOf(d)].status = row[JobOf(d)].status /\ row'[JobOf(d)].live
            /\ row'[JobOf(d)].owner = WorkerIdOf[p]
        BY <1>0, <2>1, <2>2, <4>1, RowFields
      <4>3. row[JobOf(d)].status = "polling"
        BY <2>1, <4>1 DEF Pollable
      <4> QED
        BY <4>1, <4>2, <4>3 DEF HoldsLease, Owned
    <3> QED
      BY <3>1, <3>2
  <2> QED
    BY <2>2, <2>3, <2>4, ExclusiveIfClaimed
<1>5. CASE GatherDone(p)
  BY <1>5, ExclusiveIfQuiet DEF GatherDone, SameLease
<1> QED
  BY <1>1, <1>2, <1>3, <1>4, <1>5

\* A call writes only the row it holds, so exclusion survives its steps.
LEMMA ExclusiveCallStep ==
    ASSUME IInv, Exclusive, NEW c \in Call, CallStep(c) \/ Project(c)
    PROVE  Exclusive'
<1> DEFINE k == JobOf(c)
<1>0. TInv /\ row \in [Job -> Row] /\ k \in Job
  BY CallParts DEF IInv, TInv, TypeOK
<1>1. CASE UNCHANGED row /\ Ends(c)
  <2>1. \A d \in Call : call'[d] = call[d] \/ ~Active(d)'
    BY <1>0, <1>1, EndsMove DEF Active
  <2> QED
    BY <1>1, <2>1, ExclusiveIfQuiet DEF SameLease
<1>2. CASE /\ UNCHANGED row /\ Active(c)
           /\ \E phase, status, reason : Goes(c, phase, status, reason)
  <2>1. \A d \in Call : call'[d] = call[d] \/ (d = c /\ call'[d].op = call[d].op)
    BY <1>0, <1>2, GoesMove
  <2>2. \A d \in Call : Active(d)' => Carried(d)
    BY <1>2, <2>1 DEF Active, Carried, SameLease
  <2> QED
    BY <2>2, ExclusiveIfCarried
<1>3. CASE /\ Active(c)
           /\ Complete(c) \/ (Bind(k) /\ Ends(c)) \/ (Delay(k) /\ Ends(c))
  <2>1. \A d \in Call : d # c => call'[d] = call[d]
    BY <1>0, <1>3, EndsMove, CompleteMove
  <2>2. ~Active(c)'
    BY <1>0, <1>3, EndsMove, CompleteMove DEF Active
  <2>3. \A j \in Job : j # k => row'[j] = row[j]
    BY <1>0, <1>3 DEF Complete, Bind, Delay
  <2>4. ASSUME NEW d \in Call, Active(d)' PROVE Carried(d)
    <3>1. d # c
      BY <2>2, <2>4
    <3>2. Active(d) /\ call'[d] = call[d]
      BY <2>1, <2>4, <3>1 DEF Active
    <3>3. JobOf(d) # k /\ JobOf(d) \in Job
      BY <1>3, <3>1, <3>2, CallParts DEF Exclusive
    <3> QED
      BY <2>3, <3>2, <3>3 DEF Carried, SameLease
  <2> QED
    BY <2>4, ExclusiveIfCarried
<1>4. CASE Begin(c)
  BY <1>2, <1>4 DEF Begin, Active
<1>5. CASE StartAnswered(c)
  BY <1>2, <1>5 DEF StartAnswered, Active
<1>6. CASE PollAnswered(c)
  BY <1>2, <1>6 DEF PollAnswered, Active
<1>7. CASE Settle(c)
  BY <1>2, <1>3, <1>7 DEF Settle, Active
<1>8. CASE Finish(c)
  BY <1>3, <1>8 DEF Finish, Active
<1>9. CASE Raise(c)
  BY <1>1, <1>9 DEF Raise
<1>10. CASE Resched(c)
  BY <1>1, <1>3, <1>10 DEF Resched, Active
<1>11. CASE Project(c)
  BY <1>1, <1>11 DEF Project
<1> QED
  BY <1>4, <1>5, <1>6, <1>7, <1>8, <1>9, <1>10, <1>11 DEF CallStep

\* Every step keeps exclusion as long as no lease expires under a call.
LEMMA ExclusiveNext ==
    ASSUME IInv, Exclusive, [Next]_vars, late' = 0
    PROVE  Exclusive'
<1>0. TInv /\ TypeOK /\ row \in [Job -> Row]
  BY DEF IInv, TInv, TypeOK
<1>1. CASE Submission
  <2>1. PICK p \in Process, k \in Job : Create(p, k) \/ PutCredential(p, k)
    BY <1>1 DEF Submission
  <2>2. UNCHANGED call
    BY <2>1 DEF Create, PutCredential
  <2>3. \A j \in Job : row'[j] = row[j] \/ row[j].status = "absent"
    BY <1>0, <2>1 DEF Create, PutCredential
  <2>4. \A d \in Call : Active(d) => SameLease(JobOf(d))
    BY <2>3, CallParts DEF SameLease, Exclusive, HoldsLease
  <2> QED
    BY <2>2, <2>4, ExclusiveIfQuiet
<1>2. CASE Passing
  <2>1. UNCHANGED call
    BY <1>2 DEF Passing, ExpireLease, PollFallsDue, ExpireCredential
  <2>2. CASE \E k \in Job : ExpireLease(k)
    <3>1. PICK k \in Job : ExpireLease(k)
      BY <2>2
    <3>2. ~InFlight(k)
      BY <1>0, <3>1 DEF ExpireLease, TypeOK
    <3>3. \A j \in Job : j # k => row'[j] = row[j]
      BY <1>0, <3>1 DEF ExpireLease
    <3>4. \A d \in Call : Active(d) => SameLease(JobOf(d))
      BY <3>2, <3>3, CallParts DEF SameLease, InFlight
    <3> QED
      BY <2>1, <3>4, ExclusiveIfQuiet
  <2>3. CASE \E k \in Job : PollFallsDue(k)
    <3>1. PICK k \in Job : PollFallsDue(k)
      BY <2>3
    <3>2. \A j \in Job : SameLease(j)
      BY <1>0, <3>1, RowFields DEF PollFallsDue, SameLease
    <3> QED
      BY <2>1, <3>2, CallParts, ExclusiveIfQuiet
  <2>4. CASE \E p \in Process, k \in Job : ExpireCredential(p, k)
    BY <2>1, <2>4, ExclusiveIfQuiet DEF ExpireCredential, SameLease
  <2> QED
    BY <1>2, <2>2, <2>3, <2>4 DEF Passing
<1>3. CASE Failing
  <2>1. PICK p \in Process : Crash(p) \/ Restart(p)
    BY <1>3 DEF Failing
  <2>2. \A d \in Call : call'[d] = call[d] \/ call'[d] = Free
    BY <1>0, <2>1 DEF Crash, Restart
  <2>3. \A d \in Call : call'[d] = call[d] \/ ~Active(d)'
    BY <2>2 DEF Active, Free
  <2>4. UNCHANGED row
    BY <2>1 DEF Crash, Restart
  <2> QED
    BY <2>3, <2>4, ExclusiveIfQuiet DEF SameLease
<1>4. CASE UNCHANGED vars
  BY <1>4, ExclusiveIfQuiet DEF vars, SameLease
<1> QED
  BY <1>1, <1>2, <1>3, <1>4, ExclusiveScanning, ExclusiveCallStep DEF Next

\* A lease that expired under a call is not forgotten.
LEMMA LateGrows ==
    ASSUME TInv, [Next]_vars, late' = 0
    PROVE  late = 0
<1>1. late \in Nat /\ (late' = late \/ late' = late + 1)
  BY DEF TInv, TypeOK, Next, vars, Submission, Create, PutCredential, Scanning,
         Reopen, ClaimStart, ClaimPoll, GatherDone, CallStep, Begin, StartAnswered,
         PollAnswered, Settle, Finish, Raise, Resched, Project, Passing, ExpireLease,
         PollFallsDue, ExpireCredential, Failing, Crash, Restart, budget
<1> QED
  BY <1>1

\* No two calls that may write one job overlap, in one process or in two, as
\* long as no request outlives its lease: for any number of workers, also
\* with one worker id, and through every crash and restart.
THEOREM LeaseExclusionHolds == Spec => []LeaseExclusion
<1>1. LeaseExclusion <=> (late = 0 => Exclusive)
  BY DEF LeaseExclusion, Exclusive
<1>2. Init => LeaseExclusion
  BY DEF Init, LeaseExclusion, Active, Free
<1>3. ASSUME IInv, IInv', LeaseExclusion, [Next]_vars
      PROVE  LeaseExclusion'
  <2>1. late' = 0 => late = 0
    BY <1>3, LateGrows DEF IInv
  <2>2. ASSUME late' = 0 PROVE Exclusive'
    BY <1>1, <1>3, <2>1, <2>2, ExclusiveNext
  <2> QED
    BY <2>2 DEF LeaseExclusion, Exclusive
<1> QED
  BY Invariance, <1>2, <1>3, PTL DEF Spec

-----------------------------------------------------------------------------
(* GenerationWriteBack: the composition, and what the workspace shows.      *)

\* Whatever the writers of the workspace do, the queue makes one of its own
\* steps or none.
LEMMA QueueStep == [WNext]_allVars => [Next]_vars
<1> SUFFICES ASSUME [WNext]_allVars PROVE [Next]_vars
  OBVIOUS
<1>1. CASE \E p \in Process, j \in Job : OpenTool(p, j) \/ StoreCredential(p, j)
  BY <1>1 DEF OpenTool, StoreCredential, Next, Submission
<1>2. CASE \/ \E j \in Job : PatchFromTool(j) \/ PatchAbandoned(j)
           \/ \E i \in Item : PatchReplan(i) \/ ReplanAbandoned(i)
           \/ \E p \in Process, i \in Item : OpenReplan(p, i)
           \/ \E p \in Process : OpenEdit(p)
           \/ PatchEdit \/ EditAbandoned
  BY <1>2 DEF PatchFromTool, PatchAbandoned, PatchReplan, ReplanAbandoned, OpenReplan,
              OpenEdit, PatchEdit, EditAbandoned, vars
<1>3. CASE \E c \in Call : WriteBack(c) \/ WriteBackAbandoned(c)
  BY <1>3 DEF WriteBack, WriteBackAbandoned, Next
<1>4. CASE \E p \in Process : CrashAll(p)
  BY <1>4 DEF CrashAll, Next, Failing
<1>5. CASE Working
  BY <1>5 DEF Working, Next, Failing
<1>6. CASE UNCHANGED allVars
  BY <1>6 DEF allVars, vars
<1> QED
  BY <1>1, <1>2, <1>3, <1>4, <1>5, <1>6 DEF WNext

\* The composition implements the queue: every theorem about Spec above holds
\* of the jobs whose results are written to a workspace as well.
THEOREM QueueKept == WSpec => Spec
<1>1. WInit => Init
  BY DEF WInit
<1> QED
  BY QueueStep, <1>1, PTL DEF WSpec, Spec

\* The invariant of the queue holds of the composition.
LEMMA QueueInvariance == WSpec => []IInv
BY QueueKept, Invariance, PTL

\* The copies of the asset registry and of the entries of a scene: what is
\* stored, and what each Tool call in progress has read and may yet write.
AssetCopy(a) ==
    \/ a = asset
    \/ \E j \in Job : tool[j].phase = "open" /\ a = tool[j].assets
    \/ \E i \in Item : replan[i].phase = "open" /\ a = replan[i].assets
    \/ edit.phase = "rebuild" /\ a = edit.assets

EntryCopy(e) ==
    \/ \E i \in Item : e = scene[i]
    \/ \E j \in Job : tool[j].phase = "open" /\ e = tool[j].entries
    \/ \E i \in Item : edit.phase # "none" /\ e = edit.entries[i]

\* tool, replan and scene are functions.
Shape == /\ tool = [j \in Job |-> tool[j]]
         /\ replan = [i \in Item |-> replan[i]]
         /\ scene = [i \in Item |-> scene[i]]

\* Where a copy of the registry comes from: it was there, or one asset of one
\* that was there was changed.
AssetFrom(a) ==
    \/ AssetCopy(a)
    \/ \E b, i, v : /\ AssetCopy(b) /\ i \in Item
                    /\ v \in {"planned", "generating", "failed"}
                    /\ a = [b EXCEPT ![i] = v]
    \/ \E b : \E c \in Call :
          /\ AssetCopy(b) /\ call[c].phase = "project" /\ call[c].status = "succeeded"
          /\ a = [b EXCEPT ![ItemOf[JobOf(c)]] = "ready"]

\* The same of the entries of a scene.  A job is registered by its own Tool
\* call, which ends with that; the worker changes registered entries only.
EntryFrom(e) ==
    \/ EntryCopy(e)
    \/ e = NoEntries
    \/ \E b : \E j \in Job :
          /\ EntryCopy(b) /\ tool[j].phase = "open" /\ tool'[j].phase = "none"
          /\ e = [b EXCEPT ![j] = "waiting"]
    \/ \E b : \E c \in Call :
          /\ EntryCopy(b) /\ call[c].phase = "project" /\ b[JobOf(c)] # "absent"
          /\ e = [b EXCEPT ![JobOf(c)] = Shown(call[c].status)]

CopiesFrom == /\ \A a : AssetCopy(a)' => AssetFrom(a)
              /\ \A e : EntryCopy(e)' => EntryFrom(e)

\* A step that opens or ends calls of Tools, but writes nothing.
LEMMA ReadsOnly ==
    ASSUME UNCHANGED <<asset, scene>>,
           \A j \in Job : \/ tool'[j] = tool[j]
                          \/ tool'[j].phase = "none"
                          \/ /\ tool'[j].assets = asset
                             /\ \E i \in Item : tool'[j].entries = scene[i],
           \A i \in Item : \/ replan'[i] = replan[i]
                           \/ replan'[i].phase = "none"
                           \/ replan'[i].assets = asset,
           \/ edit' = edit
           \/ edit'.phase = "none"
           \/ edit'.phase = "open" /\ edit'.entries = scene
           \/ /\ edit'.phase = "rebuild" /\ edit'.assets = asset
              /\ edit'.entries = [i \in Item |-> NoEntries]
    PROVE  CopiesFrom
<1>1. ASSUME NEW a, AssetCopy(a)' PROVE AssetCopy(a)
  BY <1>1 DEF AssetCopy
<1>2. ASSUME NEW e, EntryCopy(e)' PROVE EntryCopy(e) \/ e = NoEntries
  BY <1>2 DEF EntryCopy
<1> QED
  BY <1>1, <1>2 DEF CopiesFrom, AssetFrom, EntryFrom

\* Opening the Tool call that submits a job reads the registry and the scene.
LEMMA OpenToolCopies ==
    ASSUME Shape, NEW p \in Process, NEW k \in Job, OpenTool(p, k)
    PROVE  CopiesFrom /\ Shape'
<1>1. /\ \A j \in Job : j # k => tool'[j] = tool[j]
      /\ tool'[k] = [phase |-> "open", proc |-> p, assets |-> asset, entries |-> scene[ItemOf[k]]]
      /\ UNCHANGED <<asset, scene, replan, edit>>
  BY DEF OpenTool, Shape
<1>2. \A j \in Job : \/ tool'[j] = tool[j]
                     \/ /\ tool'[j].assets = asset
                        /\ \E i \in Item : tool'[j].entries = scene[i]
  BY <1>1
<1>3. CopiesFrom
  BY <1>1, <1>2, ReadsOnly
<1>4. Shape'
  BY DEF OpenTool, Shape
<1> QED
  BY <1>3, <1>4

\* The patch of a Tool call is built from what it read: an asset of its copy
\* is generating, or its job is waiting in its copy of the scene.
LEMMA PatchFromToolCopies ==
    ASSUME Shape, NEW k \in Job, PatchFromTool(k)
    PROVE  CopiesFrom /\ Shape'
<1>1. /\ \A j \in Job : j # k => tool'[j] = tool[j]
      /\ tool'[k] = NoTool /\ tool[k].phase = "open"
      /\ UNCHANGED <<replan, edit>>
  BY DEF PatchFromTool, Returned, Shape
<1>2. tool'[k].phase = "none" /\ ItemOf[k] \in Item
  BY <1>1 DEF NoTool
<1>3. ASSUME NEW a, AssetCopy(a)' PROVE AssetFrom(a)
  <2>1. CASE a = asset'
    <3>1. CASE a = asset
      BY <3>1 DEF AssetFrom, AssetCopy
    <3>2. CASE a = [tool[k].assets EXCEPT ![ItemOf[k]] = "generating"]
      <4>1. AssetCopy(tool[k].assets)
        BY <1>1 DEF AssetCopy
      <4> QED
        BY <1>2, <3>2, <4>1 DEF AssetFrom
    <3> QED
      BY <2>1, <3>1, <3>2 DEF PatchFromTool
  <2>2. CASE a # asset'
    <3>1. AssetCopy(a)
      BY <1>1, <1>2, <1>3, <2>2 DEF AssetCopy
    <3> QED
      BY <3>1 DEF AssetFrom
  <2> QED
    BY <2>1, <2>2
<1>4. ASSUME NEW e, EntryCopy(e)' PROVE EntryFrom(e)
  <2>1. CASE \E i \in Item : e = scene'[i]
    <3>1. CASE \E i \in Item : e = scene[i]
      BY <3>1 DEF EntryFrom, EntryCopy
    <3>2. CASE e = [tool[k].entries EXCEPT ![k] = "waiting"]
      <4>1. EntryCopy(tool[k].entries)
        BY <1>1 DEF EntryCopy
      <4> QED
        BY <1>1, <1>2, <3>2, <4>1 DEF EntryFrom
    <3> QED
      BY <2>1, <3>1, <3>2 DEF PatchFromTool, Merged, Shape
  <2>2. CASE ~\E i \in Item : e = scene'[i]
    <3>1. EntryCopy(e)
      BY <1>1, <1>2, <1>4, <2>2 DEF EntryCopy
    <3> QED
      BY <3>1 DEF EntryFrom
  <2> QED
    BY <2>1, <2>2
<1>5. Shape'
  BY DEF PatchFromTool, Returned, Merged, Shape
<1> QED
  BY <1>3, <1>4, <1>5 DEF CopiesFrom

\* Sending an asset back to planned writes a copy of the registry with it.
LEMMA PatchReplanCopies ==
    ASSUME Shape, NEW k \in Item, PatchReplan(k)
    PROVE  CopiesFrom /\ Shape'
<1>1. /\ \A i \in Item : i # k => replan'[i] = replan[i]
      /\ replan'[k] = NoTool /\ replan[k].phase = "open"
      /\ asset' = [replan[k].assets EXCEPT ![k] = "planned"]
      /\ UNCHANGED <<scene, tool, edit>>
  BY DEF PatchReplan, Shape
<1>2. replan'[k].phase = "none"
  BY <1>1 DEF NoTool
<1>3. AssetCopy(replan[k].assets)
  BY <1>1 DEF AssetCopy
<1>4. ASSUME NEW a, AssetCopy(a)' PROVE AssetCopy(a) \/ a = asset'
  BY <1>1, <1>2, <1>4 DEF AssetCopy
<1>5. \A a : AssetCopy(a)' => AssetFrom(a)
  BY <1>1, <1>3, <1>4 DEF AssetFrom
<1>6. \A e : EntryCopy(e)' => EntryFrom(e)
  BY <1>1 DEF EntryCopy, EntryFrom
<1>7. Shape'
  BY DEF PatchReplan, Shape
<1> QED
  BY <1>5, <1>6, <1>7 DEF CopiesFrom

\* An edit writes copies: scenes as read or without entries, the registry as
\* read.
LEMMA PatchEditCopies ==
    ASSUME Shape, PatchEdit, edit.named \subseteq Item
    PROVE  CopiesFrom /\ Shape'
<1>1. /\ UNCHANGED <<tool, replan>>
      /\ edit' = NoTool /\ edit.phase # "none"
      /\ scene' = [i \in Item |-> Edited(i)]
      /\ asset' = IF edit.phase = "rebuild" THEN edit.assets ELSE asset
  BY DEF PatchEdit
<1>2. edit'.phase = "none"
  BY <1>1 DEF NoTool
<1>3. ASSUME NEW a, AssetCopy(a)' PROVE AssetFrom(a)
  BY <1>1, <1>2, <1>3 DEF AssetCopy, AssetFrom
<1>4. ASSUME NEW e, EntryCopy(e)' PROVE EntryFrom(e)
  <2>1. \A i \in Item : scene'[i] = scene[i] \/ scene'[i] = edit.entries[i]
    BY <1>1 DEF Edited
  <2>2. EntryCopy(e)
    BY <1>1, <1>2, <1>4, <2>1 DEF EntryCopy
  <2> QED
    BY <2>2 DEF EntryFrom
<1>5. Shape'
  BY <1>1 DEF Shape
<1> QED
  BY <1>3, <1>4, <1>5 DEF CopiesFrom

\* The worker writes one asset, or one registered entry of one scene.
LEMMA WriteBackCopies ==
    ASSUME Shape, NEW c \in Call, WriteBack(c), call[c].status \in Terminal
    PROVE  CopiesFrom /\ Shape'
<1> DEFINE k == JobOf(c)
<1>0. k \in Job /\ ItemOf[k] \in Item /\ call[c].phase = "project"
  BY CallParts DEF WriteBack, Project
<1>1. UNCHANGED <<tool, replan, edit>>
  BY DEF WriteBack
<1>2. CASE WriteAsset(c)
  <2>1. /\ asset' = [asset EXCEPT ![ItemOf[k]] =
                        IF call[c].status = "succeeded" THEN "ready" ELSE "failed"]
        /\ UNCHANGED scene
    BY <1>2 DEF WriteAsset
  <2>2. AssetCopy(asset)
    BY DEF AssetCopy
  <2>3. AssetFrom(asset')
    <3>1. CASE call[c].status = "succeeded"
      BY <1>0, <2>1, <2>2, <3>1 DEF AssetFrom
    <3>2. CASE call[c].status # "succeeded"
      <4>1. asset' = [asset EXCEPT ![ItemOf[k]] = "failed"]
        BY <2>1, <3>2
      <4> QED
        BY <1>0, <2>2, <4>1 DEF AssetFrom
    <3> QED
      BY <3>1, <3>2
  <2>4. ASSUME NEW a, AssetCopy(a)' PROVE AssetCopy(a) \/ a = asset'
    BY <1>1, <2>4 DEF AssetCopy
  <2>5. \A a : AssetCopy(a)' => AssetFrom(a)
    BY <2>3, <2>4 DEF AssetFrom
  <2>6. \A e : EntryCopy(e)' => EntryFrom(e)
    BY <1>1, <2>1 DEF EntryCopy, EntryFrom
  <2>7. Shape'
    BY <1>1, <2>1 DEF Shape
  <2> QED
    BY <2>5, <2>6, <2>7 DEF CopiesFrom
<1>3. CASE WriteScene(c) /\ UNCHANGED scene
  <2>1. UNCHANGED asset
    BY <1>3 DEF WriteScene
  <2>2. CopiesFrom
    BY <1>1, <1>3, <2>1, ReadsOnly
  <2> QED
    BY <1>1, <1>3, <2>2 DEF Shape
<1>4. CASE /\ WriteScene(c) /\ scene[ItemOf[k]][k] # "absent"
           /\ scene' = [scene EXCEPT ![ItemOf[k]][k] = Shown(call[c].status)]
  <2>1. UNCHANGED asset
    BY <1>4 DEF WriteScene
  <2>2. /\ \A i \in Item : i # ItemOf[k] => scene'[i] = scene[i]
        /\ scene'[ItemOf[k]] = [scene[ItemOf[k]] EXCEPT ![k] = Shown(call[c].status)]
    BY <1>0, <1>4 DEF Shape
  <2>3. EntryCopy(scene[ItemOf[k]])
    BY <1>0 DEF EntryCopy
  <2>4. EntryFrom(scene'[ItemOf[k]])
    BY <1>0, <1>4, <2>2, <2>3 DEF EntryFrom
  <2>5. ASSUME NEW e, EntryCopy(e)' PROVE EntryCopy(e) \/ e = scene'[ItemOf[k]]
    BY <1>1, <2>2, <2>5 DEF EntryCopy
  <2>6. \A e : EntryCopy(e)' => EntryFrom(e)
    BY <2>4, <2>5 DEF EntryFrom
  <2>7. \A a : AssetCopy(a)' => AssetFrom(a)
    BY <1>1, <2>1 DEF AssetCopy, AssetFrom
  <2>8. Shape'
    BY <1>1, <1>4 DEF Shape
  <2> QED
    BY <2>6, <2>7, <2>8 DEF CopiesFrom
<1> QED
  BY <1>2, <1>3, <1>4 DEF WriteBack, WriteScene

\* Every copy after a step comes from one before it.
LEMMA CopiesStep ==
    ASSUME Shape, [WNext]_allVars, edit.phase # "none" => edit.named \subseteq Item,
           \A c \in Call : call[c].phase = "project" => call[c].status \in Terminal
    PROVE  CopiesFrom /\ Shape'
<1>1. CASE \E p \in Process, j \in Job : OpenTool(p, j)
  BY <1>1, OpenToolCopies
<1>2. CASE \/ \E p \in Process, j \in Job : StoreCredential(p, j)
           \/ \E c \in Call : WriteBackAbandoned(c)
           \/ Working /\ UNCHANGED wvars
           \/ UNCHANGED allVars
  <2>1. UNCHANGED <<asset, scene, tool, replan, edit>>
    BY <1>2 DEF StoreCredential, WriteBackAbandoned, wvars, allVars
  <2>2. CopiesFrom
    BY <2>1, ReadsOnly
  <2> QED
    BY <2>1, <2>2 DEF Shape
<1>3. CASE \E j \in Job : PatchFromTool(j)
  BY <1>3, PatchFromToolCopies
<1>4. CASE \E j \in Job : PatchAbandoned(j)
  <2>1. PICK k \in Job : PatchAbandoned(k)
    BY <1>4
  <2>2. /\ \A j \in Job : tool'[j] = tool[j] \/ tool'[j] = NoTool
        /\ UNCHANGED <<asset, scene, replan, edit>>
    BY <2>1 DEF PatchAbandoned, Returned, Shape
  <2>3. \A j \in Job : tool'[j] = tool[j] \/ tool'[j].phase = "none"
    BY <2>2 DEF NoTool
  <2>4. CopiesFrom
    BY <2>2, <2>3, ReadsOnly
  <2>5. Shape'
    BY <2>1 DEF PatchAbandoned, Returned, Shape
  <2> QED
    BY <2>4, <2>5
<1>5. CASE \E i \in Item : PatchReplan(i)
  BY <1>5, PatchReplanCopies
<1>6. CASE \/ \E i \in Item : ReplanAbandoned(i)
           \/ \E p \in Process, i \in Item : OpenReplan(p, i)
  <2>1. \A i \in Item : \/ replan'[i] = replan[i]
                        \/ replan'[i] = NoTool
                        \/ \E p \in Process :
                             replan'[i] = [phase |-> "open", proc |-> p, assets |-> asset]
    BY <1>6 DEF ReplanAbandoned, OpenReplan, Shape
  <2>2. ASSUME NEW i \in Item
        PROVE  \/ replan'[i] = replan[i]
               \/ replan'[i].phase = "none"
               \/ replan'[i].assets = asset
    <3>1. NoTool.phase = "none"
      BY DEF NoTool
    <3>2. \A p \in Process :
             [phase |-> "open", proc |-> p, assets |-> asset].assets = asset
      OBVIOUS
    <3> QED
      BY <2>1, <3>1, <3>2
  <2>3. UNCHANGED <<asset, scene, tool, edit>>
    BY <1>6 DEF ReplanAbandoned, OpenReplan
  <2>4. CopiesFrom
    BY <2>2, <2>3, ReadsOnly
  <2>5. Shape'
    BY <1>6 DEF ReplanAbandoned, OpenReplan, Shape
  <2> QED
    BY <2>4, <2>5
<1>7. CASE \E p \in Process : OpenEdit(p)
  <2>1. PICK p \in Process : OpenEdit(p)
    BY <1>7
  <2>2. UNCHANGED <<asset, scene, tool, replan>>
    BY <2>1 DEF OpenEdit
  <2>3. \/ edit'.phase = "open" /\ edit'.entries = scene
        \/ /\ edit'.phase = "rebuild" /\ edit'.assets = asset
           /\ edit'.entries = [i \in Item |-> NoEntries]
    BY <2>1 DEF OpenEdit, PatchScene, ReviewGeneratedScene, ReplaceProjectAssets,
                ReplaceSceneAsset, ReviseStoryboard, PrepareScenePackages, Sends
  <2>4. CopiesFrom
    BY <2>2, <2>3, ReadsOnly
  <2> QED
    BY <2>2, <2>4 DEF Shape
<1>8. CASE PatchEdit
  BY <1>8, PatchEditCopies DEF PatchEdit
<1>9. CASE EditAbandoned
  <2>1. UNCHANGED <<asset, scene, tool, replan>> /\ edit'.phase = "none"
    BY <1>9 DEF EditAbandoned, NoTool
  <2>2. CopiesFrom
    BY <2>1, ReadsOnly
  <2> QED
    BY <2>1, <2>2 DEF Shape
<1>10. CASE \E c \in Call : WriteBack(c)
  BY <1>10, WriteBackCopies DEF WriteBack, Project
<1>11. CASE \E p \in Process : CrashAll(p)
  <2>1. /\ \A j \in Job : tool'[j] = tool[j] \/ tool'[j] = NoTool
        /\ \A i \in Item : replan'[i] = replan[i] \/ replan'[i] = NoTool
        /\ edit' = edit \/ edit' = NoTool
        /\ UNCHANGED <<asset, scene>>
    BY <1>11 DEF CrashAll
  <2>2. /\ \A j \in Job : tool'[j] = tool[j] \/ tool'[j].phase = "none"
        /\ \A i \in Item : replan'[i] = replan[i] \/ replan'[i].phase = "none"
        /\ edit' = edit \/ edit'.phase = "none"
    BY <2>1 DEF NoTool
  <2>3. CopiesFrom
    BY <2>1, <2>2, ReadsOnly
  <2>4. Shape'
    BY <1>11, <2>1 DEF CrashAll, Shape
  <2> QED
    BY <2>3, <2>4
<1> QED
  BY <1>1, <1>2, <1>3, <1>4, <1>5, <1>6, <1>7, <1>8, <1>9, <1>10, <1>11 DEF WNext

\* A call reaches the projection by complete() only, which has written its
\* verdict to a row it held, and keeps that verdict until it has projected.
LEMMA ProjectMoves ==
    ASSUME IInv, [Next]_vars, NEW c \in Call, call'[c].phase = "project"
    PROVE  \/ call'[c] = call[c]
           \/ /\ Complete(c) /\ HasVerdict(c) /\ Owned(row[JobOf(c)], ProcOf(c))
              /\ call'[c].status = call[c].status /\ call[c].status \in Terminal
              /\ row'[JobOf(c)].status = call[c].status
<1>0. TInv /\ JobOf(c) \in Job
  BY CallParts DEF IInv
<1>1. CASE Submission
  BY <1>1 DEF Submission, Create, PutCredential
<1>2. CASE Scanning
  <2>1. PICK p \in Process : Reopen(p) \/ ClaimStart(p) \/ ClaimPoll(p) \/ GatherDone(p)
    BY <1>2 DEF Scanning
  <2>2. CASE Reopen(p) \/ GatherDone(p)
    BY <2>2 DEF Reopen, GatherDone
  <2>3. CASE ClaimStart(p)
    <3>1. PICK S \in SUBSET Startable : Launch(p, S, "start")
      BY <2>3 DEF ClaimStart
    <3> QED
      BY <1>0, <3>1, LaunchMove DEF Startable
  <2>4. CASE ClaimPoll(p)
    <3>1. PICK S \in SUBSET Pollable : Launch(p, S, "poll")
      BY <2>4 DEF ClaimPoll
    <3> QED
      BY <1>0, <3>1, LaunchMove DEF Pollable
  <2> QED
    BY <2>1, <2>2, <2>3, <2>4
<1>3. CASE \E d \in Call : CallStep(d) \/ Project(d)
  <2>1. PICK d \in Call : CallStep(d) \/ Project(d)
    BY <1>3
  <2>2. CASE \E phase \in {"calling", "answered", "finish", "resched"} : \E status, reason :
                Goes(d, phase, status, reason)
    BY <1>0, <2>2, GoesMove
  <2>3. CASE Ends(d)
    BY <1>0, <2>3, EndsMove
  <2>4. CASE Complete(d) /\ Owned(row[JobOf(d)], ProcOf(d)) /\ HasVerdict(d)
    <3>1. CASE d # c
      BY <1>0, <2>4, <3>1, CompleteMove
    <3>2. CASE d = c
      <4>1. call[c].status \in Terminal /\ call[c].status \in Status /\ call[c].reason \in Reason
        BY <1>0, <2>4, <3>2 DEF HasVerdict, Unsuccessful, Terminal, Status, TInv, TypeOK, CallState
      <4>2. call'[c].status = call[c].status
        BY <1>0, <2>4, <3>2 DEF Complete, TInv, TypeOK, CallState
      <4>3. row'[JobOf(c)] = Decided(row[JobOf(c)], call[c].status, call[c].reason)
        BY <1>0, <2>4, <3>2 DEF Complete, TInv, TypeOK
      <4>4. row[JobOf(c)] \in Row
        BY <1>0 DEF TInv, TypeOK
      <4>5. row'[JobOf(c)].status = call[c].status
        BY <4>1, <4>3, <4>4, RowFields
      <4> QED
        BY <2>4, <3>2, <4>1, <4>2, <4>5
    <3> QED
      BY <3>1, <3>2
  <2>5. CASE StartAnswered(d)
    <3>1. PICK a \in TakenAnswers \cup DoubtfulAnswers \cup {Refusal} : Goes(d, a[1], a[2], a[3])
      BY <2>5 DEF StartAnswered
    <3> QED
      BY <2>2, <3>1, StartAnswersTyped
  <2>6. CASE PollAnswered(d)
    <3>1. PICK a \in PollAnswers : Goes(d, a[1], a[2], a[3])
      BY <2>6 DEF PollAnswered
    <3> QED
      BY <2>2, <3>1, PollAnswersTyped
  <2>7. CASE Begin(d)
    BY <2>2, <2>7 DEF Begin
  <2>8. CASE Settle(d)
    <3>1. call[d].status # "polling" => HasVerdict(d)
      BY <1>0, <2>8 DEF Settle, HasVerdict, TInv, CallsExplained
    <3> QED
      BY <2>2, <2>3, <2>4, <2>8, <3>1 DEF Settle
  <2>9. CASE Finish(d)
    <3>1. HasVerdict(d)
      BY <1>0, <2>9 DEF Finish, HasVerdict, TInv, CallsExplained
    <3> QED
      BY <2>4, <2>9, <3>1 DEF Finish
  <2>10. CASE Raise(d) \/ Resched(d) \/ Project(d)
    BY <2>3, <2>10 DEF Raise, Resched, Project
  <2> QED
    BY <2>1, <2>5, <2>6, <2>7, <2>8, <2>9, <2>10 DEF CallStep
<1>4. CASE Passing
  BY <1>4 DEF Passing, ExpireLease, PollFallsDue, ExpireCredential
<1>5. CASE Failing
  <2>1. call'[c] = call[c] \/ call'[c] = Free
    BY <1>5 DEF Failing, Crash, Restart
  <2> QED
    BY <2>1 DEF Free
<1>6. CASE UNCHANGED vars
  BY <1>6 DEF vars
<1> QED
  BY <1>1, <1>2, <1>3, <1>4, <1>5, <1>6 DEF Next

\* A Tool call that is open was open before, or was opened in this step.
LEMMA ToolMoves ==
    ASSUME Shape, [WNext]_allVars, NEW j \in Job, tool'[j].phase = "open"
    PROVE  tool'[j] = tool[j] \/ \E p \in Process : OpenTool(p, j)
<1>0. NoTool.phase # "open"
  BY DEF NoTool
<1>1. CASE \E p \in Process, k \in Job : OpenTool(p, k)
  <2>1. PICK p \in Process, k \in Job : OpenTool(p, k)
    BY <1>1
  <2>2. j # k => tool'[j] = tool[j]
    BY <2>1 DEF OpenTool, Shape
  <2> QED
    BY <2>1, <2>2
<1>2. CASE \E k \in Job : PatchFromTool(k) \/ PatchAbandoned(k)
  <2>1. tool'[j] = tool[j] \/ tool'[j] = NoTool
    BY <1>2 DEF PatchFromTool, PatchAbandoned, Returned, Shape
  <2> QED
    BY <1>0, <2>1
<1>3. CASE \E p \in Process : CrashAll(p)
  <2>1. tool'[j] = tool[j] \/ tool'[j] = NoTool
    BY <1>3 DEF CrashAll
  <2> QED
    BY <1>0, <2>1
<1>4. CASE \/ \E p \in Process, k \in Job : StoreCredential(p, k)
           \/ \E i \in Item : PatchReplan(i) \/ ReplanAbandoned(i)
           \/ \E p \in Process, i \in Item : OpenReplan(p, i)
           \/ \E p \in Process : OpenEdit(p)
           \/ PatchEdit \/ EditAbandoned
           \/ \E c \in Call : WriteBack(c) \/ WriteBackAbandoned(c)
           \/ Working /\ UNCHANGED wvars
           \/ UNCHANGED allVars
  BY <1>4 DEF StoreCredential, PatchReplan, ReplanAbandoned, OpenReplan, OpenEdit, PatchEdit,
              EditAbandoned, WriteBack, WriteBackAbandoned, wvars, allVars
<1> QED
  BY <1>1, <1>2, <1>3, <1>4 DEF WNext

\* The scenes an edit names exist.
LEMMA EditNames ==
    ASSUME [WNext]_allVars, edit.phase # "none" => edit.named \subseteq Item,
           edit'.phase # "none"
    PROVE  edit'.named \subseteq Item
<1>0. NoTool.phase = "none" /\ Scenes \subseteq Item
  BY DEF NoTool, Scenes
<1>1. CASE \E p \in Process : OpenEdit(p)
  <2>1. PICK p \in Process : OpenEdit(p)
    BY <1>1
  <2>2. \A S \in SUBSET Item : Sends(p, S) => edit'.named \subseteq Item
    BY DEF Sends
  <2>3. PrepareScenePackages(p) => edit'.named \subseteq Item
    BY <1>0 DEF PrepareScenePackages
  <2>4. ReviseStoryboard(p) => edit'.named \subseteq Item
    BY <1>0, <2>2 DEF ReviseStoryboard
  <2>5. PatchScene(p) \/ ReviewGeneratedScene(p) => edit'.named \subseteq Item
    <3>1. \A i \in Scenes : {i} \in SUBSET Item
      BY <1>0
    <3> QED
      BY <2>2, <3>1 DEF PatchScene, ReviewGeneratedScene
  <2>6. ReplaceProjectAssets(p) \/ ReplaceSceneAsset(p) => edit'.named \subseteq Item
    <3>1. \A S \in SUBSET Scenes : S \in SUBSET Item
      BY <1>0
    <3> QED
      BY <2>2, <3>1 DEF ReplaceProjectAssets, ReplaceSceneAsset
  <2> QED
    BY <2>1, <2>3, <2>4, <2>5, <2>6 DEF OpenEdit
<1>2. CASE PatchEdit \/ EditAbandoned \/ \E p \in Process : CrashAll(p)
  <2>1. edit' = edit \/ edit' = NoTool
    BY <1>2 DEF PatchEdit, EditAbandoned, CrashAll
  <2> QED
    BY <1>0, <2>1
<1>3. CASE \/ \E p \in Process, k \in Job : OpenTool(p, k) \/ StoreCredential(p, k)
           \/ \E k \in Job : PatchFromTool(k) \/ PatchAbandoned(k)
           \/ \E i \in Item : PatchReplan(i) \/ ReplanAbandoned(i)
           \/ \E p \in Process, i \in Item : OpenReplan(p, i)
           \/ \E c \in Call : WriteBack(c) \/ WriteBackAbandoned(c)
           \/ Working /\ UNCHANGED wvars
           \/ UNCHANGED allVars
  BY <1>3 DEF OpenTool, StoreCredential, PatchFromTool, PatchAbandoned, PatchReplan,
              ReplanAbandoned, OpenReplan, WriteBack, WriteBackAbandoned, wvars, allVars
<1> QED
  BY <1>1, <1>2, <1>3 DEF WNext

AssetState == {"planned", "generating", "ready", "failed"}

\* What a copy of the registry and a copy of a scene's entries may say.
\* Before its Tool call has patched, no copy holds an entry of a job.
Unregistered(j) == row[j].status = "absent" \/ tool[j].phase = "open"

AssetOK(a) == /\ a \in [Item -> AssetState]
              /\ \A i \in Item : a[i] = "ready" => HasSuccess(i)

EntryOK(e) == /\ e \in [Job -> Entry]
              /\ \A j \in Job : e[j] = "succeeded" => row[j].status = "succeeded"
              /\ \A j \in Job : Unregistered(j) => e[j] = "absent"

CallsDecided ==
    \A c \in Call : call[c].phase = "project" =>
        /\ call[c].status \in Terminal
        /\ call[c].status = "succeeded" => row[JobOf(c)].status = "succeeded"

\* The inductive invariant of the composition: all copies are in order, not
\* only the stored ones, for any of them may be written back later.
WInv == /\ IInv /\ Shape /\ CallsDecided
        /\ edit.phase # "none" => edit.named \subseteq Item
        /\ \A j \in Job : tool[j].phase = "open" => row[j].status # "absent"
        /\ \A a : AssetCopy(a) => AssetOK(a)
        /\ \A e : EntryCopy(e) => EntryOK(e)

\* A success stays, so what was shown of it stays true.
LEMMA SuccessStays ==
    ASSUME IInv, [Next]_vars
    PROVE  /\ \A j \in Job : row[j].status = "succeeded" => row'[j].status = "succeeded"
           /\ \A j \in Job : row'[j].status = "absent" => row[j].status = "absent"
           /\ \A i \in Item : HasSuccess(i) => HasSuccess(i)'
<1>1. ASSUME NEW j \in Job
      PROVE  /\ row[j].status = "succeeded" => row'[j].status = "succeeded"
             /\ row'[j].status = "absent" => row[j].status = "absent"
  <2>1. StatusMove(j)
    BY StatusMoves
  <2> QED
    BY <2>1 DEF StatusMove, Terminal
<1> QED
  BY <1>1 DEF HasSuccess

\* No step makes a job unregistered again.
LEMMA RegistrationStays ==
    ASSUME IInv, Shape, [WNext]_allVars, NEW j \in Job, Unregistered(j)'
    PROVE  Unregistered(j)
<1>1. CASE row'[j].status = "absent"
  BY <1>1, QueueStep, SuccessStays DEF Unregistered
<1>2. CASE tool'[j].phase = "open"
  BY <1>2, ToolMoves DEF OpenTool, Create, Unregistered
<1> QED
  BY <1>1, <1>2 DEF Unregistered

\* The job of an open Tool call has been inserted.
LEMMA OpenIsInserted ==
    ASSUME WInv, [WNext]_allVars, NEW j \in Job, tool'[j].phase = "open"
    PROVE  row'[j].status # "absent"
<1>0. IInv /\ Shape /\ row \in [Job -> Row]
  BY DEF WInv, IInv, TInv, TypeOK
<1>1. CASE tool'[j] = tool[j]
  BY <1>0, <1>1, QueueStep, SuccessStays DEF WInv
<1>2. CASE \E p \in Process : OpenTool(p, j)
  <2>1. row'[j] = Queued
    BY <1>0, <1>2 DEF OpenTool, Create
  <2> QED
    BY <2>1 DEF Queued, NoRow
<1> QED
  BY <1>0, <1>1, <1>2, ToolMoves

\* Whatever a copy of the registry was made from, it shows no success that
\* is none.
LEMMA AssetStep ==
    ASSUME WInv, [WNext]_allVars, NEW a, AssetCopy(a)'
    PROVE  AssetOK(a)'
<1>0. IInv /\ [Next]_vars
  BY QueueStep DEF WInv
<1>1. AssetFrom(a)
  BY CopiesStep DEF WInv, CallsDecided, CopiesFrom
<1>2. CASE AssetCopy(a)
  BY <1>0, <1>2, SuccessStays DEF WInv, AssetOK
<1>3. CASE \E b, i, v : /\ AssetCopy(b) /\ i \in Item
                        /\ v \in {"planned", "generating", "failed"}
                        /\ a = [b EXCEPT ![i] = v]
  <2>1. PICK b, i, v : /\ AssetCopy(b) /\ i \in Item
                       /\ v \in {"planned", "generating", "failed"}
                       /\ a = [b EXCEPT ![i] = v]
    BY <1>3
  <2>2. AssetOK(b)
    BY <2>1 DEF WInv
  <2> QED
    BY <1>0, <2>1, <2>2, SuccessStays DEF AssetOK, AssetState
<1>4. CASE \E b : \E c \in Call :
              /\ AssetCopy(b) /\ call[c].phase = "project" /\ call[c].status = "succeeded"
              /\ a = [b EXCEPT ![ItemOf[JobOf(c)]] = "ready"]
  <2>1. PICK b : \E c \in Call :
                /\ AssetCopy(b) /\ call[c].phase = "project" /\ call[c].status = "succeeded"
                /\ a = [b EXCEPT ![ItemOf[JobOf(c)]] = "ready"]
    BY <1>4
  <2>2. PICK c \in Call :
                /\ call[c].phase = "project" /\ call[c].status = "succeeded"
                /\ a = [b EXCEPT ![ItemOf[JobOf(c)]] = "ready"]
    BY <2>1
  <2>3. AssetOK(b)
    BY <2>1 DEF WInv
  <2>4. JobOf(c) \in Job /\ row[JobOf(c)].status = "succeeded"
    BY <2>2, CallParts DEF WInv, CallsDecided
  <2>5. HasSuccess(ItemOf[JobOf(c)])
    BY <2>4 DEF HasSuccess
  <2> QED
    BY <1>0, <2>2, <2>3, <2>5, SuccessStays DEF AssetOK, AssetState
<1> QED
  BY <1>1, <1>2, <1>3, <1>4 DEF AssetFrom

\* Whatever a copy of a scene's entries was made from, it shows no success
\* that is none, and nothing of a job that is not registered.
LEMMA EntryStep ==
    ASSUME WInv, [WNext]_allVars, NEW e, EntryCopy(e)'
    PROVE  EntryOK(e)'
<1>0. IInv /\ Shape /\ [Next]_vars
  BY QueueStep DEF WInv
<1>1. EntryFrom(e)
  BY CopiesStep DEF WInv, CallsDecided, CopiesFrom
<1>u. \A j \in Job : Unregistered(j)' => Unregistered(j)
  BY <1>0, RegistrationStays
<1>s. \A j \in Job : row[j].status = "succeeded" => row'[j].status = "succeeded"
  BY <1>0, SuccessStays
<1>2. CASE EntryCopy(e)
  BY <1>2, <1>u, <1>s DEF WInv, EntryOK
<1>3. CASE e = NoEntries
  BY <1>3 DEF NoEntries, EntryOK, Entry
<1>4. CASE \E b : \E k \in Job :
              /\ EntryCopy(b) /\ tool[k].phase = "open" /\ tool'[k].phase = "none"
              /\ e = [b EXCEPT ![k] = "waiting"]
  <2>1. PICK b : \E k \in Job :
              /\ EntryCopy(b) /\ tool[k].phase = "open" /\ tool'[k].phase = "none"
              /\ e = [b EXCEPT ![k] = "waiting"]
    BY <1>4
  <2>2. PICK k \in Job : /\ tool[k].phase = "open" /\ tool'[k].phase = "none"
                         /\ e = [b EXCEPT ![k] = "waiting"]
    BY <2>1
  <2>3. EntryOK(b)
    BY <2>1 DEF WInv
  <2>4. ~Unregistered(k)'
    BY <1>0, <2>2, SuccessStays DEF WInv, Unregistered
  <2>5. e \in [Job -> Entry]
    BY <2>2, <2>3 DEF EntryOK, Entry
  <2>6. \A j \in Job : e[j] = "succeeded" => row'[j].status = "succeeded"
    BY <1>s, <2>2, <2>3 DEF EntryOK
  <2>7. \A j \in Job : Unregistered(j)' => e[j] = "absent"
    BY <1>u, <2>2, <2>3, <2>4 DEF EntryOK
  <2> QED
    BY <2>5, <2>6, <2>7 DEF EntryOK
<1>5. CASE \E b : \E c \in Call :
              /\ EntryCopy(b) /\ call[c].phase = "project" /\ b[JobOf(c)] # "absent"
              /\ e = [b EXCEPT ![JobOf(c)] = Shown(call[c].status)]
  <2>1. PICK b : \E c \in Call :
              /\ EntryCopy(b) /\ call[c].phase = "project" /\ b[JobOf(c)] # "absent"
              /\ e = [b EXCEPT ![JobOf(c)] = Shown(call[c].status)]
    BY <1>5
  <2>2. PICK c \in Call : /\ call[c].phase = "project" /\ b[JobOf(c)] # "absent"
                          /\ e = [b EXCEPT ![JobOf(c)] = Shown(call[c].status)]
    BY <2>1
  <2>3. EntryOK(b) /\ JobOf(c) \in Job
    BY <2>1, CallParts DEF WInv
  <2>4. ~Unregistered(JobOf(c))
    BY <2>2, <2>3 DEF EntryOK
  <2>5. /\ Shown(call[c].status) \in {"succeeded", "failed"}
        /\ Shown(call[c].status) = "succeeded" => row[JobOf(c)].status = "succeeded"
    BY <2>2 DEF Shown, WInv, CallsDecided
  <2>6. e \in [Job -> Entry]
    BY <2>2, <2>3, <2>5 DEF EntryOK, Entry
  <2>7. \A j \in Job : e[j] = "succeeded" => row'[j].status = "succeeded"
    BY <1>s, <2>2, <2>3, <2>5 DEF EntryOK
  <2>8. \A j \in Job : Unregistered(j)' => e[j] = "absent"
    BY <1>u, <2>2, <2>3, <2>4 DEF EntryOK
  <2> QED
    BY <2>6, <2>7, <2>8 DEF EntryOK
<1> QED
  BY <1>1, <1>2, <1>3, <1>4, <1>5 DEF EntryFrom

\* A call that is about to project has written its verdict.
LEMMA CallsDecidedStep ==
    ASSUME WInv, [WNext]_allVars
    PROVE  CallsDecided'
<1>0. IInv /\ [Next]_vars
  BY QueueStep DEF WInv
<1>1. ASSUME NEW c \in Call, call'[c].phase = "project"
      PROVE  /\ call'[c].status \in Terminal
             /\ call'[c].status = "succeeded" => row'[JobOf(c)].status = "succeeded"
  <2>1. CASE call'[c] = call[c]
    BY <1>0, <1>1, <2>1, SuccessStays, CallParts DEF WInv, CallsDecided
  <2>2. CASE call'[c] # call[c]
    BY <1>0, <1>1, <2>2, ProjectMoves
  <2> QED
    BY <2>1, <2>2
<1> QED
  BY <1>1 DEF CallsDecided

\* The workspace starts with planned assets and scenes without entries.
LEMMA WInvInit == WInit => WInv
<1> SUFFICES ASSUME WInit PROVE WInv
  OBVIOUS
<1>1. IInv
  BY InvInit DEF WInit
<1>2. NoTool.phase = "none" /\ NoEntries \in [Job -> Entry]
  BY DEF NoTool, NoEntries, Entry
<1>3. Shape
  BY DEF WInit, Shape
<1>4. CallsDecided
  BY DEF WInit, Init, CallsDecided, Free
<1>5. /\ \A j \in Job : tool[j].phase = "none"
      /\ \A i \in Item : replan[i].phase = "none"
      /\ edit.phase = "none"
  BY <1>2 DEF WInit
<1>6. \A a : AssetCopy(a) => AssetOK(a)
  BY <1>5 DEF WInit, AssetCopy, AssetOK, AssetState
<1>7. \A e : EntryCopy(e) => EntryOK(e)
  <2>1. \A e : EntryCopy(e) => e = NoEntries
    BY <1>5 DEF WInit, EntryCopy
  <2>2. EntryOK(NoEntries)
    BY <1>2 DEF EntryOK, NoEntries
  <2> QED
    BY <2>1, <2>2
<1> QED
  BY <1>1, <1>3, <1>4, <1>5, <1>6, <1>7 DEF WInv

\* Every step of the composition keeps its invariant.
LEMMA WInvNext == WInv /\ [WNext]_allVars => WInv'
<1> SUFFICES ASSUME WInv, [WNext]_allVars PROVE WInv'
  OBVIOUS
<1>1. IInv'
  BY QueueStep, InvNext DEF WInv
<1>2. Shape'
  BY CopiesStep DEF WInv, CallsDecided
<1>3. CallsDecided'
  BY CallsDecidedStep
<1>4. edit'.phase # "none" => edit'.named \subseteq Item
  BY EditNames DEF WInv
<1>5. \A j \in Job : tool'[j].phase = "open" => row'[j].status # "absent"
  BY OpenIsInserted
<1>6. \A a : AssetCopy(a)' => AssetOK(a)'
  BY AssetStep
<1>7. \A e : EntryCopy(e)' => EntryOK(e)'
  BY EntryStep
<1> QED
  BY <1>1, <1>2, <1>3, <1>4, <1>5, <1>6, <1>7 DEF WInv

\* The workspace and every unfinished Tool call are in order in every
\* reachable state: each copy of the registry and of a scene that may yet be
\* written is typed, shows no success that is none, and knows no job before
\* its Tool call has patched.
THEOREM WriteBackInvHolds == WSpec => []WInv
BY WInvInit, WInvNext, PTL DEF WSpec

\* No stale answer, replayed job, late patch or overwriting Tool ever makes
\* the workspace show a success the provider did not deliver: for any number
\* of workers, Tool calls, edits, conflicts and crashes.
THEOREM ShownSuccessIsRealHolds == WSpec => []ShownSuccessIsReal
<1>1. WInv => ShownSuccessIsReal
  <2> SUFFICES ASSUME WInv PROVE ShownSuccessIsReal
    OBVIOUS
  <2>1. AssetOK(asset)
    BY DEF WInv, AssetCopy
  <2>2. \A i \in Item : EntryOK(scene[i])
    BY DEF WInv, EntryCopy
  <2> QED
    BY <2>1, <2>2 DEF ShownSuccessIsReal, AssetOK, EntryOK
<1> QED
  BY WriteBackInvHolds, <1>1, PTL

-----------------------------------------------------------------------------
(* Decided jobs are shown as decided.                                       *)

\* The hypothesis of the theorem below.  With two processes the code may show
\* an older verdict for good (README, section 5).
OneProcess == \A p, q \in Process : p = q

\* As long as no request outlives its lease, all calls of a worker are calls
\* its gather awaits.
Scheduled ==
    \A c \in Call : call[c].phase # "free" =>
        c \in batch[ProcOf(c)] /\ scan[ProcOf(c)] \in {"claimed", "gather"}

\* The verdict a call is about to project is still that of the row.
ProjectsRow ==
    \A c \in Call : call[c].phase = "project" =>
        call[c].status = row[JobOf(c)].status /\ row[JobOf(c)].status \in Terminal

Projecting(j) == \E c \in Call : JobOf(c) = j /\ call[c].phase = "project"

\* A decided video is shown as decided, or about to be.
ShownOrProjecting ==
    \A j \in Job : row[j].status \in Terminal /\ ~IsImage(j) /\ j \notin lost
                     => Projecting(j) \/ scene[ItemOf[j]][j] = Shown(row[j].status)

\* A step of a call works on a slot in use, and no other slot changes.
LEMMA CallStepMove ==
    ASSUME TInv, NEW c \in Call, CallStep(c) \/ Project(c)
    PROVE  call[c].phase # "free" /\ \A d \in Call : d # c => call'[d] = call[d]
<1>1. \A phase, status, reason : Goes(c, phase, status, reason)
                                   => \A d \in Call : d # c => call'[d] = call[d]
  BY GoesMove
<1>2. Ends(c) => \A d \in Call : d # c => call'[d] = call[d]
  BY EndsMove
<1>3. Complete(c) => \A d \in Call : d # c => call'[d] = call[d]
  BY CompleteMove
<1>4. CASE Begin(c)
  BY <1>1, <1>4 DEF Begin
<1>5. CASE StartAnswered(c)
  BY <1>1, <1>5 DEF StartAnswered
<1>6. CASE PollAnswered(c)
  BY <1>1, <1>6 DEF PollAnswered
<1>7. CASE Settle(c)
  BY <1>1, <1>2, <1>3, <1>7 DEF Settle
<1>8. CASE Finish(c) \/ Raise(c) \/ Resched(c) \/ Project(c)
  BY <1>2, <1>3, <1>8 DEF Finish, Raise, Resched, Project
<1> QED
  BY <1>4, <1>5, <1>6, <1>7, <1>8 DEF CallStep

\* A gather is left only when its calls are free: no call raises while every
\* active call holds its lease.
LEMMA ScheduledStep ==
    ASSUME IInv, Exclusive, Scheduled, [Next]_vars
    PROVE  Scheduled'
<1>0. TInv /\ TypeOK
  BY DEF IInv, TInv
<1>1. CASE Submission
  <2>1. UNCHANGED <<call, scan, batch>>
    BY <1>1 DEF Submission, Create, PutCredential, worker
  <2> QED
    BY <2>1 DEF Scheduled
<1>2. CASE Scanning
  <2>1. PICK p \in Process : Reopen(p) \/ ClaimStart(p) \/ ClaimPoll(p) \/ GatherDone(p)
    BY <1>2 DEF Scanning
  <2>2. \A q \in Process : q # p => scan'[q] = scan[q] /\ batch'[q] = batch[q]
    BY <1>0, <2>1 DEF Reopen, ClaimStart, ClaimPoll, GatherDone, TypeOK
  <2>3. CASE Reopen(p) \/ GatherDone(p)
    <3>1. UNCHANGED call
      BY <2>3 DEF Reopen, GatherDone
    <3>2. ASSUME NEW c \in Call, call[c].phase # "free" PROVE ProcOf(c) # p
      BY <2>3, <3>2 DEF Reopen, GatherDone, Scheduled
    <3> QED
      BY <2>2, <3>1, <3>2, CallParts DEF Scheduled
  <2>4. CASE ClaimStart(p)
    <3>1. PICK S \in SUBSET Startable : /\ Launch(p, S, "start")
                                        /\ batch' = [batch EXCEPT ![p] = NewCalls(p, S)]
      BY <2>4 DEF ClaimStart
    <3>2. scan[p] = "reopened" /\ scan'[p] = "claimed" /\ batch'[p] = NewCalls(p, S)
      BY <1>0, <2>4, <3>1 DEF ClaimStart, TypeOK
    <3>3. ASSUME NEW c \in Call, call'[c].phase # "free"
          PROVE  c \in batch'[ProcOf(c)] /\ scan'[ProcOf(c)] \in {"claimed", "gather"}
      <4>1. CASE call'[c] = call[c]
        <5>1. ProcOf(c) # p
          BY <3>2, <3>3, <4>1 DEF Scheduled
        <5> QED
          BY <2>2, <3>3, <4>1, <5>1, CallParts DEF Scheduled
      <4>2. CASE call'[c] # call[c]
        <5>1. JobOf(c) \in S /\ ProcOf(c) = p /\ c = NewCall(p, JobOf(c))
          BY <1>0, <3>1, <4>2, LaunchMove DEF Startable
        <5>2. c \in NewCalls(p, S)
          BY <5>1 DEF NewCalls
        <5> QED
          BY <3>2, <5>1, <5>2
      <4> QED
        BY <4>1, <4>2
    <3> QED
      BY <3>3 DEF Scheduled
  <2>5. CASE ClaimPoll(p)
    <3>1. PICK S \in SUBSET Pollable :
             /\ Launch(p, S, "poll")
             /\ batch' = [batch EXCEPT ![p] = @ \cup NewCalls(p, S)]
      BY <2>5 DEF ClaimPoll
    <3>2. scan'[p] = "gather" /\ batch'[p] = batch[p] \cup NewCalls(p, S)
      BY <1>0, <2>5, <3>1 DEF ClaimPoll, TypeOK
    <3>3. ASSUME NEW c \in Call, call'[c].phase # "free"
          PROVE  c \in batch'[ProcOf(c)] /\ scan'[ProcOf(c)] \in {"claimed", "gather"}
      <4>1. CASE call'[c] = call[c]
        BY <2>2, <3>2, <3>3, <4>1, CallParts DEF Scheduled
      <4>2. CASE call'[c] # call[c]
        <5>1. JobOf(c) \in S /\ ProcOf(c) = p /\ c = NewCall(p, JobOf(c))
          BY <1>0, <3>1, <4>2, LaunchMove DEF Pollable
        <5>2. c \in NewCalls(p, S)
          BY <5>1 DEF NewCalls
        <5> QED
          BY <3>2, <5>1, <5>2
      <4> QED
        BY <4>1, <4>2
    <3> QED
      BY <3>3 DEF Scheduled
  <2> QED
    BY <2>1, <2>3, <2>4, <2>5
<1>3. CASE \E c \in Call : CallStep(c) \/ Project(c)
  <2>1. PICK c \in Call : CallStep(c) \/ Project(c)
    BY <1>3
  <2>2. ~Raise(c)
    BY DEF Raise, Exclusive, Active, HoldsLease
  <2>3. UNCHANGED <<scan, batch>>
    BY <2>1, <2>2 DEF CallStep, Begin, StartAnswered, PollAnswered, Settle, Finish, Resched,
                      Project, worker
  <2>4. call[c].phase # "free" /\ \A d \in Call : d # c => call'[d] = call[d]
    BY <1>0, <2>1, CallStepMove
  <2> QED
    BY <2>3, <2>4 DEF Scheduled
<1>4. CASE Passing
  <2>1. UNCHANGED <<call, scan, batch>>
    BY <1>4 DEF Passing, ExpireLease, PollFallsDue, ExpireCredential, worker
  <2> QED
    BY <2>1 DEF Scheduled
<1>5. CASE Failing
  <2>1. PICK p \in Process : Crash(p) \/ Restart(p)
    BY <1>5 DEF Failing
  <2>2. \A q \in Process : q # p => scan'[q] = scan[q] /\ batch'[q] = batch[q]
    BY <1>0, <2>1 DEF Crash, Restart, TypeOK
  <2>3. ASSUME NEW c \in Call, call'[c].phase # "free"
        PROVE  call'[c] = call[c] /\ ProcOf(c) # p
    <3>1. CASE Crash(p)
      BY <2>3, <3>1 DEF Crash, Free
    <3>2. CASE Restart(p)
      BY <2>3, <3>2 DEF Restart, Scheduled
    <3> QED
      BY <2>1, <3>1, <3>2
  <2> QED
    BY <2>2, <2>3, CallParts DEF Scheduled
<1>6. CASE UNCHANGED vars
  BY <1>6 DEF vars, Scheduled
<1> QED
  BY <1>1, <1>2, <1>3, <1>4, <1>5, <1>6 DEF Next

\* The verdict of a row changes by a replay, or by complete() of a call that
\* held the undecided row.
LEMMA VerdictMoves ==
    ASSUME IInv, [Next]_vars, NEW j \in Job
    PROVE  \/ row'[j].status = row[j].status
           \/ row[j].status \notin Terminal /\ row'[j].status \notin Terminal
           \/ row'[j].status = "polling" /\ \E p \in Process : Reopen(p)
           \/ \E c \in Call : Complete(c) /\ JobOf(c) = j /\ row[j].status \notin Terminal
<1>0. TInv /\ row \in [Job -> Row] /\ RowOK(j)
  BY DEF IInv, TInv, TypeOK
<1>1. CASE Submission
  <2>1. row'[j] = row[j] \/ (row[j].status = "absent" /\ row'[j] = Queued)
    BY <1>0, <1>1 DEF Submission, Create, PutCredential
  <2> QED
    BY <2>1 DEF Queued, NoRow, Terminal
<1>2. CASE Scanning
  <2>1. PICK p \in Process : Reopen(p) \/ ClaimStart(p) \/ ClaimPoll(p) \/ GatherDone(p)
    BY <1>2 DEF Scanning
  <2>2. CASE Reopen(p)
    <3>1. row'[j] = row[j] \/ row'[j] = Reopened(row[j])
      BY <2>2 DEF Reopen
    <3>2. Reopened(row[j]).status = "polling"
      BY <1>0, RowFields
    <3> QED
      BY <2>2, <3>1, <3>2
  <2>3. CASE ClaimStart(p)
    <3>1. \/ row'[j] = row[j]
          \/ j \in Startable /\ row'[j] = [Leased(row[j], p) EXCEPT !.status = "starting"]
      BY <2>3 DEF ClaimStart
    <3>2. [Leased(row[j], p) EXCEPT !.status = "starting"].status = "starting"
      BY <1>0, RowFields
    <3> QED
      BY <3>1, <3>2 DEF Startable, Terminal
  <2>4. CASE ClaimPoll(p)
    <3>1. row'[j] = row[j] \/ row'[j] = Leased(row[j], p)
      BY <2>4 DEF ClaimPoll
    <3>2. Leased(row[j], p).status = row[j].status
      BY <1>0, RowFields
    <3> QED
      BY <3>1, <3>2
  <2>5. CASE GatherDone(p)
    BY <2>5 DEF GatherDone
  <2> QED
    BY <2>1, <2>2, <2>3, <2>4, <2>5
<1>3. CASE \E c \in Call : CallStep(c) \/ Project(c)
  <2>1. PICK c \in Call : CallStep(c) \/ Project(c)
    BY <1>3
  <2> DEFINE k == JobOf(c)
             q == ProcOf(c)
  <2>2. k \in Job /\ q \in Process
    BY CallParts
  <2>3. CASE UNCHANGED row
    BY <2>3
  <2>4. CASE BindAllowed(k, q) /\ Bind(k)
    <3>1. row'[j] = row[j] \/ (j = k /\ row'[j] =
             [Unleased(row[j]) EXCEPT !.status = "polling", !.bound = TRUE, !.poll = "later"])
      BY <1>0, <2>4 DEF Bind
    <3>2. j = k => row[j].status = "starting"
      BY <2>4 DEF BindAllowed
    <3>3. [Unleased(row[j]) EXCEPT !.status = "polling", !.bound = TRUE,
                                   !.poll = "later"].status = "polling"
      BY <1>0, RowFields
    <3> QED
      BY <3>1, <3>2, <3>3 DEF Terminal
  <2>5. CASE Delay(k)
    <3>1. row'[j] = row[j] \/ row'[j] = [Unleased(row[j]) EXCEPT !.poll = "later"]
      BY <1>0, <2>5 DEF Delay
    <3>2. [Unleased(row[j]) EXCEPT !.poll = "later"].status = row[j].status
      BY <1>0, RowFields
    <3> QED
      BY <3>1, <3>2
  <2>6. CASE Complete(c) /\ Owned(row[k], q)
    <3>1. CASE j = k
      BY <1>0, <2>6, <3>1 DEF Owned, RowOK, Terminal
    <3>2. CASE j # k
      BY <1>0, <2>6, <3>2 DEF Complete
    <3> QED
      BY <3>1, <3>2
  <2>7. CASE Settle(c)
    BY <2>3, <2>4, <2>5, <2>6, <2>7 DEF Settle
  <2>8. CASE Finish(c) \/ Resched(c)
    BY <2>3, <2>5, <2>6, <2>8 DEF Finish, Resched
  <2>9. CASE Begin(c) \/ StartAnswered(c) \/ PollAnswered(c) \/ Raise(c) \/ Project(c)
    BY <2>3, <2>9 DEF Begin, StartAnswered, PollAnswered, Raise, Project
  <2> QED
    BY <2>1, <2>7, <2>8, <2>9 DEF CallStep
<1>4. CASE Passing
  <2>1. \/ row'[j] = row[j]
        \/ row'[j] = [row[j] EXCEPT !.live = FALSE]
        \/ row'[j] = [row[j] EXCEPT !.poll = "due"]
    BY <1>0, <1>4 DEF Passing, ExpireLease, PollFallsDue, ExpireCredential
  <2>2. /\ [row[j] EXCEPT !.live = FALSE].status = row[j].status
        /\ [row[j] EXCEPT !.poll = "due"].status = row[j].status
    BY <1>0, RowFields
  <2> QED
    BY <2>1, <2>2
<1>5. CASE Failing
  BY <1>5 DEF Failing, Crash, Restart
<1>6. CASE UNCHANGED vars
  BY <1>6 DEF vars
<1> QED
  BY <1>1, <1>2, <1>3, <1>4, <1>5, <1>6 DEF Next

\* With one worker no row is replayed while a call has yet to project: the
\* scan waits for its gather.
LEMMA ProjectsRowStep ==
    ASSUME IInv, Scheduled, ProjectsRow, OneProcess, [Next]_vars
    PROVE  ProjectsRow'
<1>1. ASSUME NEW c \in Call, call'[c].phase = "project"
      PROVE  /\ call'[c].status = row'[JobOf(c)].status
             /\ row'[JobOf(c)].status \in Terminal
  <2>1. CASE call'[c] = call[c]
    <3>1. /\ call[c].phase = "project" /\ call[c].status = row[JobOf(c)].status
          /\ row[JobOf(c)].status \in Terminal
      BY <1>1, <2>1 DEF ProjectsRow
    <3>2. ~\E p \in Process : Reopen(p)
      <4>1. scan[ProcOf(c)] \in {"claimed", "gather"} /\ ProcOf(c) \in Process
        BY <3>1, CallParts DEF Scheduled
      <4> QED
        BY <4>1 DEF OneProcess, Reopen
    <3>3. row'[JobOf(c)].status = row[JobOf(c)].status
      BY <3>1, <3>2, VerdictMoves, CallParts
    <3> QED
      BY <2>1, <3>1, <3>3
  <2>2. CASE call'[c] # call[c]
    BY <1>1, <2>2, ProjectMoves
  <2> QED
    BY <2>1, <2>2
<1> QED
  BY <1>1 DEF ProjectsRow

\* A call that has yet to project does so, or goes down with its process.
LEMMA WorkingKeepsProjects ==
    ASSUME TInv, Working, NEW c \in Call, call[c].phase = "project"
    PROVE  call'[c] = call[c]
<1>1. CASE Scanning
  <2>1. PICK p \in Process : Reopen(p) \/ ClaimStart(p) \/ ClaimPoll(p) \/ GatherDone(p)
    BY <1>1 DEF Scanning
  <2>2. CASE Reopen(p) \/ GatherDone(p)
    BY <2>2 DEF Reopen, GatherDone
  <2>3. CASE ClaimStart(p)
    <3>1. PICK S \in SUBSET Startable : Launch(p, S, "start")
      BY <2>3 DEF ClaimStart
    <3> QED
      BY <3>1, LaunchMove DEF Startable
  <2>4. CASE ClaimPoll(p)
    <3>1. PICK S \in SUBSET Pollable : Launch(p, S, "poll")
      BY <2>4 DEF ClaimPoll
    <3> QED
      BY <3>1, LaunchMove DEF Pollable
  <2> QED
    BY <2>1, <2>2, <2>3, <2>4
<1>2. CASE \E d \in Call : CallStep(d)
  <2>1. PICK d \in Call : CallStep(d)
    BY <1>2
  <2>2. d # c
    BY <2>1 DEF CallStep, Begin, StartAnswered, PollAnswered, Settle, Finish, Raise, Resched
  <2> QED
    BY <2>1, <2>2, CallStepMove
<1>3. CASE Passing \/ \E p \in Process : Restart(p)
  BY <1>3 DEF Passing, ExpireLease, PollFallsDue, ExpireCredential, Restart
<1> QED
  BY <1>1, <1>2, <1>3 DEF Working

\* A write of a scene leaves the entry of every finished job as it is, or
\* counts the job as lost.
LEMMA EntryKept ==
    ASSUME WInv, NEW j \in Job, j \notin lost',
           scene[ItemOf[j]][j] \in {"succeeded", "failed"},
           (\E k \in Job : PatchFromTool(k)) \/ PatchEdit
    PROVE  scene'[ItemOf[j]][j] = scene[ItemOf[j]][j]
<1>0. Shape /\ ItemOf[j] \in Item
  BY DEF WInv
<1>1. CASE PatchEdit
  <2>1. scene'[ItemOf[j]] = Edited(ItemOf[j])
    BY <1>0, <1>1 DEF PatchEdit
  <2>2. j \notin {k \in Job : /\ scene[ItemOf[k]][k] \in {"succeeded", "failed"}
                              /\ Edited(ItemOf[k])[k] # scene[ItemOf[k]][k]}
    BY <1>1 DEF PatchEdit
  <2> QED
    BY <2>1, <2>2
<1>2. CASE \E k \in Job : PatchFromTool(k)
  <2>1. PICK k \in Job : PatchFromTool(k)
    BY <1>2
  <2>2. CASE UNCHANGED scene
    BY <2>2
  <2>3. CASE /\ scene' = Merged(ItemOf[k], [tool[k].entries EXCEPT ![k] = "waiting"])
             /\ lost' = lost \cup Undone(k)
    <3>1. CASE ItemOf[k] # ItemOf[j]
      BY <1>0, <2>3, <3>1 DEF Merged, Shape
    <3>2. CASE ItemOf[k] = ItemOf[j]
      <4>1. tool[k].phase = "open"
        BY <2>1 DEF PatchFromTool
      <4>2. k # j
        <5>1. EntryOK(scene[ItemOf[j]])
          BY <1>0 DEF WInv, EntryCopy
        <5> QED
          BY <4>1, <5>1 DEF EntryOK, Unregistered
      <4>3. EntryOK(tool[k].entries)
        BY <4>1 DEF WInv, EntryCopy
      <4>4. scene'[ItemOf[j]] = [tool[k].entries EXCEPT ![k] = "waiting"]
        BY <1>0, <2>3, <3>2 DEF Merged, Shape
      <4>5. scene'[ItemOf[j]][j] = tool[k].entries[j]
        BY <4>2, <4>3, <4>4 DEF EntryOK
      <4>6. j \notin Undone(k)
        BY <2>3
      <4> QED
        BY <3>2, <4>5, <4>6 DEF Undone
    <3> QED
      BY <3>1, <3>2
  <2> QED
    BY <2>1, <2>2, <2>3 DEF PatchFromTool
<1> QED
  BY <1>1, <1>2

\* The worker replaces the entry of a decided video by its verdict.
LEMMA EntryWritten ==
    ASSUME WInv, ProjectsRow, NEW c \in Call, WriteBack(c), ~IsImage(JobOf(c)),
           JobOf(c) \notin lost'
    PROVE  scene'[ItemOf[JobOf(c)]][JobOf(c)] = Shown(row[JobOf(c)].status)
<1> DEFINE k == JobOf(c)
<1>1. WriteScene(c) /\ k \in Job /\ ItemOf[k] \in Item
  BY CallParts DEF WriteBack, WriteAsset
<1>2. call[c].status = row[k].status
  BY DEF WriteBack, Project, ProjectsRow
<1>3. scene' = [scene EXCEPT ![ItemOf[k]][k] = Shown(call[c].status)]
  BY <1>1 DEF WriteScene
<1>4. scene[ItemOf[k]] \in [Job -> Entry] /\ Shape
  BY <1>1 DEF WInv, EntryCopy, EntryOK
<1> QED
  BY <1>1, <1>2, <1>3, <1>4 DEF Shape

\* Every step leaves a decided video shown, about to be shown, or lost.
LEMMA ShownStep ==
    ASSUME WInv, ProjectsRow, ShownOrProjecting, [WNext]_allVars, NEW j \in Job,
           row'[j].status \in Terminal, ~IsImage(j), j \notin lost'
    PROVE  Projecting(j)' \/ scene'[ItemOf[j]][j] = Shown(row'[j].status)
<1>0. IInv /\ TInv /\ Shape /\ [Next]_vars /\ ItemOf[j] \in Item
  BY QueueStep DEF WInv, IInv
<1>1. CASE \E c \in Call : Complete(c) /\ JobOf(c) = j
  BY <1>0, <1>1, CompleteMove DEF Projecting
<1>2. CASE ~\E c \in Call : Complete(c) /\ JobOf(c) = j
  <2>1. row'[j].status = row[j].status
    BY <1>0, <1>2, VerdictMoves DEF Terminal
  <2>2. ASSUME j \notin lost
        PROVE  Projecting(j) \/ scene[ItemOf[j]][j] = Shown(row[j].status)
    BY <2>1, <2>2 DEF ShownOrProjecting
  <2>3. \A c \in Call : call[c].phase = "project" /\ call'[c] = call[c] /\ JobOf(c) = j
                          => Projecting(j)'
    BY DEF Projecting
  <2>4. CASE (\E k \in Job : PatchFromTool(k)) \/ PatchEdit
    <3>1. UNCHANGED call /\ j \notin lost
      BY <2>4 DEF PatchFromTool, PatchEdit, vars
    <3>2. CASE Projecting(j)
      BY <3>1, <3>2 DEF Projecting
    <3>3. CASE scene[ItemOf[j]][j] = Shown(row[j].status)
      <4>1. scene[ItemOf[j]][j] \in {"succeeded", "failed"}
        BY <3>3 DEF Shown
      <4> QED
        BY <2>1, <2>4, <3>3, <4>1, EntryKept
    <3> QED
      BY <2>2, <3>1, <3>2, <3>3
  <2>5. CASE \/ \E p \in Process, k \in Job : OpenTool(p, k) \/ StoreCredential(p, k)
             \/ \E k \in Job : PatchAbandoned(k)
             \/ \E i \in Item : PatchReplan(i) \/ ReplanAbandoned(i)
             \/ \E p \in Process, i \in Item : OpenReplan(p, i)
             \/ \E p \in Process : OpenEdit(p)
             \/ EditAbandoned
             \/ UNCHANGED allVars
    <3>1. UNCHANGED <<call, scene>> /\ j \notin lost
      BY <2>5 DEF OpenTool, Create, StoreCredential, PutCredential, PatchAbandoned, PatchReplan,
                  ReplanAbandoned, OpenReplan, OpenEdit, EditAbandoned, vars, wvars, allVars
    <3> QED
      BY <2>1, <2>2, <3>1 DEF Projecting
  <2>6. CASE Working /\ UNCHANGED wvars
    <3>1. UNCHANGED scene /\ j \notin lost
      BY <2>6 DEF wvars
    <3>2. Projecting(j) => Projecting(j)'
      BY <1>0, <2>3, <2>6, WorkingKeepsProjects DEF Projecting
    <3> QED
      BY <2>1, <2>2, <3>1, <3>2
  <2>7. CASE \E c \in Call : WriteBack(c) \/ WriteBackAbandoned(c)
    <3>1. PICK c \in Call : WriteBack(c) \/ WriteBackAbandoned(c)
      BY <2>7
    <3>2. j \notin lost
      BY <3>1 DEF WriteBack, WriteBackAbandoned, WriteAsset, WriteScene
    <3>3. Project(c) /\ \A d \in Call : d # c => call'[d] = call[d]
      BY <1>0, <3>1, CallStepMove DEF WriteBack, WriteBackAbandoned
    <3>4. CASE JobOf(c) = j
      <4>1. WriteBack(c)
        BY <3>1, <3>4 DEF WriteBackAbandoned
      <4> QED
        BY <2>1, <3>4, <4>1, EntryWritten
    <3>5. CASE JobOf(c) # j
      <4>1. Projecting(j) => Projecting(j)'
        BY <2>3, <3>3, <3>5 DEF Projecting
      <4>2. scene'[ItemOf[j]][j] = scene[ItemOf[j]][j]
        <5>1. CASE UNCHANGED scene
          BY <5>1
        <5>2. CASE scene' = [scene EXCEPT ![ItemOf[JobOf(c)]][JobOf(c)] = Shown(call[c].status)]
          <6>1. JobOf(c) \in Job /\ scene[ItemOf[j]] \in [Job -> Entry]
            BY <1>0, CallParts DEF WInv, EntryCopy, EntryOK
          <6> QED
            BY <1>0, <3>5, <5>2, <6>1 DEF Shape
        <5> QED
          BY <3>1, <5>1, <5>2 DEF WriteBack, WriteBackAbandoned, WriteAsset, WriteScene
      <4> QED
        BY <2>1, <2>2, <3>2, <4>1, <4>2
    <3> QED
      BY <3>4, <3>5
  <2>8. CASE \E p \in Process : CrashAll(p)
    <3>1. PICK p \in Process : CrashAll(p)
      BY <2>8
    <3>2. UNCHANGED scene /\ j \notin lost
      BY <3>1 DEF CrashAll
    <3>3. ASSUME NEW c \in Call, call[c].phase = "project", JobOf(c) = j
          PROVE  call'[c] = call[c]
      <4>1. ProcOf(c) # p
        BY <3>1, <3>3 DEF CrashAll
      <4> QED
        BY <3>1, <4>1 DEF CrashAll, Crash
    <3> QED
      BY <2>1, <2>2, <2>3, <3>2, <3>3 DEF Projecting
  <2> QED
    BY <2>4, <2>5, <2>6, <2>7, <2>8 DEF WNext
<1> QED
  BY <1>1, <1>2

\* What holds as long as no request has outlived its lease.
Undisturbed == Exclusive /\ Scheduled /\ ProjectsRow /\ ShownOrProjecting

\* With one worker, and as long as no request outlives its lease, every
\* decided video whose Tool call and worker are done with it is shown as
\* decided, except for the cases counted in lost: whatever Tools patch and
\* edits send, in whatever order, through every crash and replay.
THEOREM DecidedIsShownHolds ==
    ASSUME OneProcess
    PROVE  WSpec => [](late = 0 => DecidedIsShown)
<1>1. WInit => (late = 0 => Undisturbed)
  <2> SUFFICES ASSUME WInit PROVE Undisturbed
    OBVIOUS
  <2>1. \A c \in Call : call[c].phase = "free" /\ ~Active(c)
    BY DEF WInit, Init, Free, Active
  <2>2. \A j \in Job : row[j].status = "absent"
    BY DEF WInit, Init, NoRow
  <2> QED
    BY <2>1, <2>2 DEF Undisturbed, Exclusive, Scheduled, ProjectsRow, ShownOrProjecting, Terminal
<1>2. ASSUME WInv, late = 0 => Undisturbed, [WNext]_allVars, late' = 0
      PROVE  Undisturbed'
  <2>1. IInv /\ TInv /\ [Next]_vars
    BY <1>2, QueueStep DEF WInv, IInv
  <2>2. Exclusive /\ Scheduled /\ ProjectsRow /\ ShownOrProjecting
    BY <1>2, <2>1, LateGrows DEF Undisturbed
  <2>3. Exclusive'
    BY <1>2, <2>1, <2>2, ExclusiveNext
  <2>4. Scheduled'
    BY <2>1, <2>2, ScheduledStep
  <2>5. ProjectsRow'
    BY <2>1, <2>2, ProjectsRowStep
  <2>6. ShownOrProjecting'
    BY <1>2, <2>2, ShownStep DEF ShownOrProjecting
  <2> QED
    BY <2>3, <2>4, <2>5, <2>6 DEF Undisturbed
<1>3. WInv /\ (late = 0 => Undisturbed) /\ [WNext]_allVars => (late = 0 => Undisturbed)'
  BY <1>2
<1>4. (late = 0 => Undisturbed) => (late = 0 => DecidedIsShown)
  BY DEF Undisturbed, ShownOrProjecting, Projecting, DecidedIsShown, Settled
<1> QED
  BY WriteBackInvHolds, <1>1, <1>3, <1>4, PTL DEF WSpec
=============================================================================
