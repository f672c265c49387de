----------------------------- MODULE HarnessRun -----------------------------
(***************************************************************************)
(* The Agent Harness Sidecar: runs, their event log, and the tasks that    *)
(* execute them.                                                           *)
(*                                                                         *)
(* The Sidecar is one asyncio loop over one SQLite connection.  No method  *)
(* of the event store suspends (its lock is never contended), so a handler *)
(* runs to its end before any other starts; but it commits several times,  *)
(* and a crash may fall between two commits.  `loop' is the place between  *)
(* two commits of the handler that is running, or Free.  The only points   *)
(* where a run's task suspends are its creation and the SDK call, which    *)
(* runs in a thread that cancelling the task does not stop.                *)
(***************************************************************************)
EXTENDS Naturals, Sequences

CONSTANTS
    Run,
    Outcome,      \* what the SDK call may come to (model bound: a subset)
    MaxNotes,     \* public deltas in the log of one run (model bound)
    MaxStops      \* ends of the Sidecar process (model bound)

Outcomes == {"completed", "limit", "error", "recovery", "suspended"}

ASSUME HarnessAssumption ==
    /\ Outcome \subseteq Outcomes
    /\ MaxNotes \in Nat
    /\ MaxStops \in Nat

VARIABLES
    status,    \* harness_runs.status
    log,       \* log[r]: harness_run_events of r, in sequence
    pending,   \* runs with an entry in _pending_requests
    task,      \* task[r]: the entry of r in _tasks and where it is
    sdk,       \* runs whose SDK thread is alive
    loop,      \* the handler between two commits
    up,        \* the process is running
    stops

runVars == <<status, log, pending, task, sdk, loop, up, stops>>

Verdict == {"completed", "failed", "cancelled"}
Unfinished == {"accepted", "running", "suspended"}
Status == {"none"} \cup Unfinished \cup Verdict

\* "note" is any public delta or completed Tool, "recovery" a run.failed with
\* the code harness_run_recovery_required.
VerdictEvent == {"completed", "failed", "recovery", "cancelled"}
Event == {"accepted", "started", "note", "response", "suspended"} \cup VerdictEvent

\* "cancelled": task.cancel() has been called and is not delivered yet;
\* "dropped": cancelled before its first step, so its finally never runs and
\* the entry stays in _tasks.
Task == {"none", "new", "engine", "cancelled", "dropped"}

\* The commits a handler still has to make, in the order of the code: each
\* writes a status or appends an event, and leads to the next.
CommitOrder ==
    [greet        |-> [write |-> "event",  value |-> "note",      next |-> "free"],
     note         |-> [write |-> "event",  value |-> "note",      next |-> "respond"],
     respond      |-> [write |-> "event",  value |-> "response",  next |-> "complete"],
     complete     |-> [write |-> "status", value |-> "completed", next |-> "sayCompleted"],
     sayCompleted |-> [write |-> "event",  value |-> "completed", next |-> "free"],
     tools        |-> [write |-> "event",  value |-> "note",      next |-> "fail"],
     fail         |-> [write |-> "status", value |-> "failed",    next |-> "sayFailed"],
     sayFailed    |-> [write |-> "event",  value |-> "failed",    next |-> "free"],
     recover      |-> [write |-> "status", value |-> "failed",    next |-> "sayRecovery"],
     sayRecovery  |-> [write |-> "event",  value |-> "recovery",  next |-> "free"],
     suspend      |-> [write |-> "status", value |-> "suspended", next |-> "saySuspended"],
     saySuspended |-> [write |-> "event",  value |-> "suspended", next |-> "free"]]

\* The event before the status.
ScriptEventFirst ==
    [CommitOrder EXCEPT !.respond.next = "sayCompleted",
                        !.sayCompleted.next = "complete",
                        !.complete.next = "free"]

Script == CommitOrder

Free == [run |-> "none", step |-> "free"]
Loop == {Free} \cup [run : Run, step : DOMAIN Script]

Init ==
    /\ status = [r \in Run |-> "none"]
    /\ log = [r \in Run |-> <<>>]
    /\ pending = {}
    /\ task = [r \in Run |-> "none"]
    /\ sdk = {}
    /\ loop = Free
    /\ up = TRUE
    /\ stops = 0

Notes(r) == Len(SelectSeq(log[r], LAMBDA e : e = "note"))

\* A handler may start.
Ready == up /\ loop = Free

\* One commit that changes the status of r and appends the event of it.
Record(r, s, e) ==
    /\ status' = [status EXCEPT ![r] = s]
    /\ log' = [log EXCEPT ![r] = Append(@, e)]

-----------------------------------------------------------------------------
(* Requests of the Gateway.                                                 *)

\* A second request for the run reads it back and changes nothing.
CreateRun(r) ==
    /\ Ready
    /\ status[r] = "none"
    /\ Record(r, "accepted", "accepted")
    /\ pending' = pending \cup {r}
    /\ UNCHANGED <<task, sdk, loop, up, stops>>

Activatable(r) == status[r] = "accepted" /\ task[r] = "none"

\* Without its pending request an accepted run is refused (RunActivationError),
\* and nothing changes.
ActivateRun(r) ==
    /\ Ready
    /\ Activatable(r)
    /\ r \in pending
    /\ task' = [task EXCEPT ![r] = "new"]
    /\ UNCHANGED <<status, log, pending, sdk, loop, up, stops>>

CancelledUnchecked(r) ==
    IF status[r] # "none" THEN Record(r, "cancelled", "cancelled")
    ELSE UNCHANGED <<status, log>>

\* SqliteRunEventStore.cancel.
Cancelled(r) ==
    IF status[r] \in Unfinished THEN Record(r, "cancelled", "cancelled")
    ELSE UNCHANGED <<status, log>>

CancelRun(r) ==
    /\ Ready
    /\ status[r] # "none"
    /\ Cancelled(r)
    /\ pending' = pending \ {r}
    /\ task' = [task EXCEPT ![r] = CASE @ = "new" -> "dropped"
                                     [] @ = "engine" -> "cancelled"
                                     [] OTHER -> @]
    /\ UNCHANGED <<sdk, loop, up, stops>>

-----------------------------------------------------------------------------
(* The task of a run: _execute.                                             *)

\* The finally of _execute.
Ended(r) ==
    /\ task' = [task EXCEPT ![r] = "none"]
    /\ pending' = pending \ {r}

StartIfAccepted(r) ==
    /\ Ready
    /\ task[r] = "new"
    /\ status[r] = "accepted"
    /\ Record(r, "running", "started")
    /\ loop' = [run |-> r, step |-> "greet"]
    /\ task' = [task EXCEPT ![r] = "engine"]
    /\ sdk' = sdk \cup {r}
    /\ UNCHANGED <<pending, up, stops>>

\* A callback of the SDK thread: append_realtime_event on the loop.
SdkEmits(r) ==
    /\ Ready
    /\ r \in sdk
    /\ Notes(r) < MaxNotes
    /\ log' = [log EXCEPT ![r] = Append(@, "note")]
    /\ UNCHANGED <<status, pending, task, sdk, loop, up, stops>>

\* What _execute commits once the SDK call has come to an outcome.
FirstStep(outcome) ==
    CASE outcome = "completed" -> {"note", "respond"}
      [] outcome = "limit" -> {"tools", "fail"}
      [] outcome = "error" -> {"fail"}
      [] outcome = "recovery" -> {"recover"}
      [] outcome = "suspended" -> {"suspend"}

EngineReturns(r) ==
    /\ Ready
    /\ task[r] = "engine"
    /\ IF status[r] = "running"
       THEN \E outcome \in Outcome : \E s \in FirstStep(outcome) :
               /\ s \in {"note", "tools"} => Notes(r) < MaxNotes
               /\ loop' = [run |-> r, step |-> s]
       ELSE loop' = Free
    /\ sdk' = sdk \ {r}
    /\ Ended(r)
    /\ UNCHANGED <<status, log, up, stops>>

\* CancelledError reaches the task; the SDK thread goes on.
CancelDelivered(r) ==
    /\ Ready
    /\ task[r] = "cancelled"
    /\ Cancelled(r)
    /\ Ended(r)
    /\ UNCHANGED <<sdk, loop, up, stops>>

SdkEnds(r) ==
    /\ r \in sdk
    /\ task[r] # "engine"
    /\ sdk' = sdk \ {r}
    /\ UNCHANGED <<status, log, pending, task, loop, up, stops>>

-----------------------------------------------------------------------------
(* The commits of the running handler.                                      *)

Commit ==
    /\ up
    /\ loop # Free
    /\ LET r == loop.run
           c == Script[loop.step]
       IN  /\ IF c.write = "status"
              THEN status' = [status EXCEPT ![r] = c.value] /\ UNCHANGED log
              ELSE log' = [log EXCEPT ![r] = Append(@, c.value)] /\ UNCHANGED status
           /\ loop' = IF c.next = "free" THEN Free ELSE [loop EXCEPT !.step = c.next]
    /\ UNCHANGED <<pending, task, sdk, up, stops>>

-----------------------------------------------------------------------------
(* The process.                                                             *)

Stopped ==
    /\ up' = FALSE
    /\ pending' = {}
    /\ task' = [r \in Run |-> "none"]
    /\ sdk' = {}
    /\ loop' = Free
    /\ stops' = stops + 1

Crash ==
    /\ up
    /\ stops < MaxStops
    /\ Stopped
    /\ UNCHANGED <<status, log>>

\* aclose cancels the tasks and waits for them: a task in the SDK call handles
\* its CancelledError, one that has not run yet never does.
Shutdown ==
    /\ Ready
    /\ stops < MaxStops
    /\ LET stopped == {r \in Run : task[r] \in {"engine", "cancelled"} /\ status[r] \in Unfinished}
       IN  /\ status' = [r \in Run |-> IF r \in stopped THEN "cancelled" ELSE status[r]]
           /\ log' = [r \in Run |-> IF r \in stopped THEN Append(log[r], "cancelled") ELSE log[r]]
    /\ Stopped

\* fail_unfinished_runs_after_restart, before the first request is served.
ReconciledStarted == {"running", "suspended"}
Reconciled == Unfinished

Restart ==
    /\ ~up
    /\ up' = TRUE
    /\ status' = [r \in Run |-> IF status[r] \in Reconciled THEN "failed" ELSE status[r]]
    /\ log' = [r \in Run |-> IF status[r] \in Reconciled THEN Append(log[r], "recovery") ELSE log[r]]
    /\ UNCHANGED <<pending, task, sdk, loop, stops>>

-----------------------------------------------------------------------------

RunStep(r) ==
    \/ StartIfAccepted(r) \/ SdkEmits(r) \/ EngineReturns(r)
    \/ CancelDelivered(r) \/ SdkEnds(r)

Next ==
    \/ \E r \in Run : CreateRun(r) \/ ActivateRun(r) \/ CancelRun(r) \/ RunStep(r)
    \/ Commit
    \/ Crash \/ Shutdown \/ Restart

\* The loop runs what is ready, an SDK call ends (request and run deadlines),
\* and the container is restarted.
Fairness ==
    /\ WF_runVars(Commit)
    /\ WF_runVars(Restart)
    /\ \A r \in Run : /\ WF_runVars(StartIfAccepted(r))
                      /\ WF_runVars(EngineReturns(r))
                      /\ WF_runVars(CancelDelivered(r))

Spec == Init /\ [][Next]_runVars /\ Fairness

-----------------------------------------------------------------------------
(* Properties.                                                              *)

TypeOK ==
    /\ status \in [Run -> Status]
    /\ log \in [Run -> Seq(Event)]
    /\ pending \subseteq Run
    /\ task \in [Run -> Task]
    /\ sdk \subseteq Run
    /\ loop \in Loop
    /\ up \in BOOLEAN
    /\ stops \in 0..MaxStops

(* The statuses and requests of the runs change only as RunService allows.   *)
Service == INSTANCE RunService
ImplementsRunService == Service!SSpec

StatusOf(e) == IF e = "recovery" THEN "failed" ELSE e

\* The log never holds two verdicts, nor one that the status contradicts,
\* wherever a crash falls between the commit of the status and of the event.
OneVerdict ==
    \A r \in Run : \A i \in DOMAIN log[r] :
        log[r][i] \in VerdictEvent =>
            /\ status[r] = StatusOf(log[r][i])
            /\ \A j \in DOMAIN log[r] : log[r][j] \in VerdictEvent => i = j

\* While the process runs, an accepted run can still be activated (the
\* RunActivationError is never raised) and a running one has a task that will
\* end it: no run is left behind by a cancelled task or an old process.
UnfinishedIsOwned ==
    up => \A r \in Run :
        /\ status[r] = "accepted" => r \in pending
        /\ status[r] = "running" => task[r] = "engine" \/ loop.run = r

=============================================================================
