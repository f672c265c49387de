----------------------------- MODULE TurnStart -----------------------------
(***************************************************************************)
(* From a user's input to a started run, and from a run that has failed    *)
(* asking for a recovery to the one that recovers it.                      *)
(*                                                                         *)
(* A request of the Gateway is a chain of awaits over four stores that     *)
(* share no transaction: the admission switch, the workspace, the messages *)
(* and bindings of the Gateway, and the Sidecar's runs (RunService).  It   *)
(* may end after any of them; the browser repeats it with the same input   *)
(* id, also while the first is still on its way.                           *)
(***************************************************************************)
EXTENDS FiniteSets, Integers

CONSTANTS
    Input,          \* inputs of one user, each with its client_input_id
    HasMaterials,   \* the inputs that bring materials along
    Request,        \* requests in flight at once
    MaxDepth,       \* recoveries of recoveries (model bound)
    MaxRevision,    \* revisions of the workspace (model bound)
    MaxSwitch,      \* revisions of the switch (model bound)
    MaxFaults       \* lost requests and ends of the Sidecar (model bound)

ASSUME TurnStartAssumption ==
    /\ HasMaterials \subseteq Input
    /\ MaxDepth \in Nat /\ MaxRevision \in Nat /\ MaxSwitch \in Nat /\ MaxFaults \in Nat

VARIABLES
    status, pending,   \* RunService
    active,      \* runs with a task in the Sidecar
    up,          \* the Sidecar runs
    recoverable, \* runs whose run.failed says harness_run_recovery_required
    begun,       \* runs whose model loop has started
    accepted,    \* accepted[r]: the request_digest the Sidecar took r with
    binding,     \* binding[r]: the digest in the Gateway's binding of r
    switch,      \* the admission row
    workspace,   \* revision of the workspace
    message,     \* message[i]: the user message of i
    replied,     \* runs whose reply is a message of the conversation
    event,       \* event[r]: the recovery event of r
    called,      \* runs with a Tool call in the ledger
    looked,      \* runs whose ledger a recovery has found empty (history)
    late,        \* runs whose first call was claimed after that (history)
    request,     \* request[q]: where a request is
    veterans,    \* requests that are older than the last opening
    answered,    \* inputs whose browser has seen the answer
    faults

sidecarVars == <<status, pending, active, up, recoverable, begun, accepted>>
ledgerVars == <<called, looked, late>>
storeVars == <<binding, workspace, message, replied, event, ledgerVars>>
switchVars == <<switch, veterans>>
startVars == <<sidecarVars, storeVars, switchVars, request, answered, faults>>

\* The run of an input, of the recovery of it, and so on.
Run == Input \X (0 .. MaxDepth)
Turn(i) == <<i, 0>>
Recovery(r) == <<r[1], r[2] + 1>>
Original(r) == <<r[1], r[2] - 1>>

Service == INSTANCE RunService

NoRun == <<>>
Idle == [step |-> "idle", run |-> NoRun, seen |-> 0, rev |-> 0, digest |-> <<>>, fresh |-> FALSE]

StartInit ==
    /\ Service!SInit
    /\ active = {} /\ up = TRUE /\ recoverable = {} /\ begun = {}
    /\ accepted = <<>> /\ binding = <<>>
    /\ switch = [open |-> TRUE, rev |-> 1]
    /\ workspace = 1
    /\ message = [i \in Input |-> "none"]
    /\ replied = {} /\ called = {} /\ looked = {} /\ late = {}
    /\ event = [r \in Run |-> "none"]
    /\ request = [q \in Request |-> Idle]
    /\ veterans = {} /\ answered = {} /\ faults = 0

At(q, step) == request[q].step = step
Goes(q, to) == request' = [request EXCEPT ![q] = to]
To(q, step) == request' = [request EXCEPT ![q].step = step]
With(f, x, y) == [z \in DOMAIN f \cup {x} |-> IF z = x THEN y ELSE f[z]]

-----------------------------------------------------------------------------
(* start_harness_turn, up to the Sidecar.                                   *)

\* The browser sends the revision it knows; an older one is refused at once.
BeginTurn(q, i) ==
    /\ At(q, "idle") /\ i \notin answered
    /\ switch.open
    /\ Goes(q, [Idle EXCEPT !.step = "admitted", !.run = Turn(i), !.seen = switch.rev, !.rev = workspace])
    /\ veterans' = veterans \ {q}
    /\ UNCHANGED <<sidecarVars, storeVars, switch, answered, faults>>

\* Materials known by their id are not added again, but the revision moves.
AddMaterials(q) ==
    LET i == request[q].run[1]
        new == workspace + (IF i \in HasMaterials THEN 1 ELSE 0)
    IN  /\ At(q, "admitted")
        /\ IF request[q].rev = workspace
           THEN /\ new <= MaxRevision
                /\ workspace' = new
                /\ Goes(q, [request[q] EXCEPT !.step = "patched", !.rev = new])
           ELSE Goes(q, Idle) /\ UNCHANGED workspace
        /\ UNCHANGED <<sidecarVars, binding, message, replied, event, ledgerVars, switchVars, answered, faults>>

\* The key of the message is made of the input id.
StoreMessage(q) ==
    LET i == request[q].run[1]
    IN  /\ At(q, "patched")
        /\ message' = [message EXCEPT ![i] = IF @ = "none" THEN "stored" ELSE @]
        /\ To(q, "stored")
        /\ UNCHANGED <<sidecarVars, binding, workspace, replied, event, ledgerVars, switchVars, answered, faults>>

Talk == Cardinality({i \in Input : message[i] # "none"}) + Cardinality(replied)

\* The digest holds the workspace revision and the recent messages.
BuildContext(q) ==
    /\ At(q, "stored")
    /\ Goes(q, [request[q] EXCEPT !.step = "create", !.rev = 0, !.digest = <<request[q].rev, Talk>>])
    /\ UNCHANGED <<sidecarVars, storeVars, switchVars, answered, faults>>

-----------------------------------------------------------------------------
(* HarnessRecoveryService.recover, up to the Sidecar.                       *)

\* The recovery of a run whose public log asks for it, whether a restart has
\* closed it or it ended so; its event is created or read back, and a decided
\* one is the answer.
BeginRecovery(q, r) ==
    /\ At(q, "idle")
    /\ r \in recoverable /\ r \in DOMAIN binding /\ r[2] < MaxDepth
    /\ event[r] \in {"none", "pending"}
    /\ event' = [event EXCEPT ![r] = "pending"]
    /\ Goes(q, [Idle EXCEPT !.step = "ledger", !.run = Recovery(r)])
    /\ UNCHANGED <<sidecarVars, binding, workspace, message, replied, ledgerVars, switchVars, answered, faults>>

\* Mutant: the ledger is not looked at.
NothingCalledUnread(r) == TRUE

NothingCalled(r) == r \notin called

CheckLedger(q) ==
    LET r == Original(request[q].run)
    IN  /\ At(q, "ledger")
        /\ IF NothingCalled(r)
           THEN To(q, "source") /\ looked' = looked \cup {r}
           ELSE To(q, "doubt") /\ UNCHANGED looked
        /\ UNCHANGED <<sidecarVars, binding, workspace, message, replied, event, called, late, switchVars, answered, faults>>

\* The message that names the run; only turns are written into a message.
HasSource(r) == r[2] = 0 /\ message[r[1]] = "linked"

FindSource(q) ==
    /\ At(q, "source")
    /\ IF HasSource(Original(request[q].run))
       THEN Goes(q, [request[q] EXCEPT !.step = "create", !.digest = <<workspace>>])
       ELSE To(q, "doubt")
    /\ UNCHANGED <<sidecarVars, storeVars, switchVars, answered, faults>>

MarkManualReview(q) ==
    LET r == Original(request[q].run)
    IN  /\ At(q, "doubt")
        /\ event' = [event EXCEPT ![r] = IF @ = "created" THEN @ ELSE "manual_review"]
        /\ Goes(q, Idle)
        /\ UNCHANGED <<sidecarVars, binding, workspace, message, replied, ledgerVars, switchVars, answered, faults>>

-----------------------------------------------------------------------------
(* create_and_bind.                                                         *)

\* A turn reports the error to the switch, a recovery only to its caller.
Fails(q, why) == IF request[q].run[2] = 0 THEN To(q, why) ELSE Goes(q, Idle)

\* Mutant: a known key is answered whatever the digest.
SameRequestByKey(q) == TRUE

SameRequest(q) == accepted[request[q].run] = request[q].digest

\* The answer says accepted only to the request that finds the run so.
CreateNew(q) ==
    LET r == request[q].run
    IN  /\ At(q, "create") /\ up
        /\ Service!Accept(r)
        /\ accepted' = With(accepted, r, request[q].digest)
        /\ Goes(q, [request[q] EXCEPT !.step = "bind", !.fresh = TRUE])
        /\ UNCHANGED <<active, up, recoverable, begun, storeVars, switchVars, answered, faults>>

CreateKnown(q) ==
    LET r == request[q].run
    IN  /\ At(q, "create") /\ up
        /\ r \in DOMAIN accepted
        /\ IF SameRequest(q)
           THEN Goes(q, [request[q] EXCEPT !.step = "bind", !.fresh = (status[r] = "accepted")])
           ELSE Fails(q, "refused")
        /\ UNCHANGED <<sidecarVars, storeVars, switchVars, answered, faults>>

\* Another binding of the run is refused, which ends the request.
Bind(q) ==
    LET r == request[q].run
        d == request[q].digest
    IN  /\ At(q, "bind")
        /\ IF r \in DOMAIN binding /\ binding[r] # d
           THEN Goes(q, Idle) /\ UNCHANGED binding
           ELSE To(q, "activate") /\ binding' = With(binding, r, d)
        /\ UNCHANGED <<sidecarVars, workspace, message, replied, event, ledgerVars, switchVars, answered, faults>>

\* The Sidecar schedules the task once; what has started is read back.
Starts(q) == status[request[q].run] = "accepted" /\ request[q].run \notin active

Activate(q) ==
    LET r == request[q].run
    IN  /\ At(q, "activate") /\ up
        /\ IF Starts(q) /\ r \notin pending
           THEN Fails(q, "refused") /\ UNCHANGED active
           ELSE /\ active' = IF Starts(q) THEN active \cup {r} ELSE active
                /\ To(q, "conclude")
        /\ UNCHANGED <<status, pending, up, recoverable, begun, accepted, storeVars, switchVars, answered, faults>>

\* The request does not arrive, or its answer gets lost on the way back.
Unreachable(q) ==
    /\ At(q, "create") \/ At(q, "activate") \/ At(q, "bind")
    /\ ~up \/ faults < MaxFaults
    /\ faults' = IF up THEN faults + 1 ELSE faults
    /\ Fails(q, "unreachable")
    /\ UNCHANGED <<sidecarVars, storeVars, switchVars, answered>>

-----------------------------------------------------------------------------
(* What becomes of the answer.                                              *)

\* Only "accepted" is an answer to a turn; the message then gets the run id.
ConcludeTurn(q) ==
    LET i == request[q].run[1]
    IN  /\ At(q, "conclude") /\ request[q].run[2] = 0
        /\ IF request[q].fresh
           THEN /\ message' = [message EXCEPT ![i] = "linked"]
                /\ answered' \in {answered, answered \cup {i}}
           ELSE UNCHANGED <<message, answered>>
        /\ Goes(q, Idle)
        /\ UNCHANGED <<sidecarVars, binding, workspace, replied, event, ledgerVars, switchVars, faults>>

\* bind_recovery_run: an event in manual review refuses the run.
ConcludeRecovery(q) ==
    LET r == Original(request[q].run)
    IN  /\ At(q, "conclude") /\ request[q].run[2] > 0
        /\ event' = [event EXCEPT ![r] = IF @ = "pending" THEN "created" ELSE @]
        /\ Goes(q, Idle)
        /\ UNCHANGED <<sidecarVars, binding, workspace, message, replied, ledgerVars, switchVars, answered, faults>>

\* Mutant: the switch is closed whatever has become of it.
StillSeenAny(q) == TRUE

\* The revision the request was admitted with is still that of the switch.
StillSeen(q) == switch.rev = request[q].seen

CloseSwitch(q) ==
    /\ At(q, "unreachable") \/ At(q, "refused")
    /\ switch' = IF StillSeen(q) THEN [open |-> FALSE, rev |-> switch.rev + 1] ELSE switch
    /\ Goes(q, Idle)
    /\ UNCHANGED <<sidecarVars, storeVars, veterans, answered, faults>>

\* The process of the Gateway ends, the caller goes away, or an error that is
\* none of the above ends the request.
Drop(q) ==
    /\ ~At(q, "idle")
    /\ Goes(q, Idle)
    /\ UNCHANGED <<sidecarVars, storeVars, switchVars, answered, faults>>

\* A Gateway that starts verifies the release with the Sidecar and opens.
OpenSwitch ==
    /\ ~switch.open /\ up /\ switch.rev < MaxSwitch
    /\ switch' = [open |-> TRUE, rev |-> switch.rev + 1]
    /\ veterans' = {q \in Request : ~At(q, "idle")}
    /\ UNCHANGED <<sidecarVars, storeVars, request, answered, faults>>

-----------------------------------------------------------------------------
(* Meanwhile.                                                               *)

\* A Tool, a command or the write-back of a job moves the workspace.
WorkspaceMoves ==
    /\ workspace < MaxRevision
    /\ workspace' = workspace + 1
    /\ UNCHANGED <<sidecarVars, binding, message, replied, event, ledgerVars, switchVars, request, answered, faults>>

RunBegins(r) ==
    /\ up /\ r \in active
    /\ Service!Begin(r)
    /\ begun' = begun \cup {r}
    /\ UNCHANGED <<active, up, recoverable, accepted, storeVars, switchVars, request, answered, faults>>

\* The loop of the model ends, and a failed one may ask for a recovery
\* (max_output_tokens_without_public_response); the finally of its task follows.
RunFinishes(r) ==
    /\ up
    /\ Service!Finish(r) \/ Service!Forget(r)
    /\ active' = IF status[r] = "running" THEN active ELSE active \ {r}
    /\ \/ UNCHANGED recoverable
       \/ status[r] = "running" /\ status'[r] = "failed" /\ recoverable' = recoverable \cup {r}
    /\ UNCHANGED <<up, begun, accepted, storeVars, switchVars, request, answered, faults>>

CancelRun(r) ==
    /\ up /\ r \in DOMAIN binding
    /\ Service!Cancel(r)
    /\ UNCHANGED <<active, up, recoverable, begun, accepted, storeVars, switchVars, request, answered, faults>>

\* The broker claims a call without a look at the status of its run: a Tool
\* request that was sent while the run went on may come at any time after.
\* (Calls of a run too deep to be recovered are left out.)
CallTool(r) ==
    /\ r \in begun /\ r \in DOMAIN binding /\ r \notin called /\ r[2] < MaxDepth
    /\ called' = called \cup {r}
    /\ late' = IF r \in looked THEN late \cup {r} ELSE late
    /\ UNCHANGED <<sidecarVars, binding, workspace, message, replied, event, looked, switchVars, request, answered, faults>>

Reply(r) ==
    /\ status[r] = "completed" /\ r \in DOMAIN binding /\ r \notin replied
    /\ replied' = replied \cup {r}
    /\ UNCHANGED <<sidecarVars, binding, workspace, message, event, ledgerVars, switchVars, request, answered, faults>>

SidecarStops ==
    /\ up /\ faults < MaxFaults
    /\ Service!Stop
    /\ up' = FALSE /\ active' = {} /\ faults' = faults + 1
    /\ UNCHANGED <<recoverable, begun, accepted, storeVars, switchVars, request, answered>>

SidecarStarts ==
    /\ ~up /\ up' = TRUE
    /\ Service!Reconcile
    /\ recoverable' = recoverable \cup {r \in Run : status[r] \in Service!Unfinished}
    /\ UNCHANGED <<active, begun, accepted, storeVars, switchVars, request, answered, faults>>

-----------------------------------------------------------------------------
TurnSteps(q) ==
    \/ \E i \in Input : BeginTurn(q, i)
    \/ AddMaterials(q) \/ StoreMessage(q) \/ BuildContext(q) \/ ConcludeTurn(q) \/ CloseSwitch(q)

RecoverySteps(q) ==
    \/ \E r \in Run : BeginRecovery(q, r)
    \/ CheckLedger(q) \/ FindSource(q) \/ MarkManualReview(q) \/ ConcludeRecovery(q)

SharedSteps(q) ==
    CreateNew(q) \/ CreateKnown(q) \/ Bind(q) \/ Activate(q) \/ Unreachable(q) \/ Drop(q)

StartNext ==
    \/ \E q \in Request : TurnSteps(q) \/ RecoverySteps(q) \/ SharedSteps(q)
    \/ \E r \in Run : RunBegins(r) \/ RunFinishes(r) \/ CancelRun(r) \/ CallTool(r) \/ Reply(r)
    \/ OpenSwitch \/ WorkspaceMoves \/ SidecarStops \/ SidecarStarts

StartSpec == StartInit /\ [][StartNext]_startVars

-----------------------------------------------------------------------------
(* The Gateway and the Sidecar agree about every bound run, however often   *)
(* its request was repeated and whatever moved in between, and no run acts  *)
(* before the Gateway can tell whose it is.                                 *)
BoundAsAccepted ==
    /\ \A r \in DOMAIN binding : r \in DOMAIN accepted /\ binding[r] = accepted[r]
    /\ \A r \in active : r \in DOMAIN binding
    /\ \A r \in Run : status[r] \in {"running", "suspended", "completed"} => r \in DOMAIN binding

(* A turn the browser has seen answered has its message linked to its run,  *)
(* and the run has started or will: nobody has to activate it any more.     *)
AnsweredTurnGoesOn ==
    \A i \in answered :
        /\ message[i] = "linked" /\ Turn(i) \in DOMAIN binding
        /\ up /\ status[Turn(i)] = "accepted" => Turn(i) \in active \cap pending

(* An opening is not undone by a request that was admitted before it.       *)
ReopenedStays ==
    [][switch.open /\ ~switch'.open =>
          \E q \in Request \ veterans : ~At(q, "idle") /\ request'[q] = Idle]_startVars

SeenEmpty(r) == r \in looked /\ (r \in called => r \in late)

(* A recovery that is recorded as created continues, from the message of    *)
(* its turn, a run that failed asking for it, and no Tool call of that run  *)
(* had been claimed when its recovery looked at the ledger.  A call that is *)
(* claimed behind that look is not seen any more.                           *)
RecoveredSafely ==
    \A r \in Run : event[r] = "created" =>
        /\ r \in recoverable /\ SeenEmpty(r) /\ message[r[1]] = "linked"
        /\ Recovery(r) \in DOMAIN binding /\ status[Recovery(r)] # "none"

(* Only an unhealthy Sidecar closes the switch for everybody, as the        *)
(* docstring of close_after_health_failure says.                            *)
OnlyHealthCloses ==
    [][switch.open /\ ~switch'.open =>
          \E q \in Request : At(q, "unreachable") /\ request'[q] = Idle]_startVars

=============================================================================
