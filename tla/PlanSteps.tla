----------------------------- MODULE PlanSteps -----------------------------
(***************************************************************************)
(* One plan of a conversation, its steps, and the public events its steps  *)
(* write.  A step moves and writes its event in one transaction; a step    *)
(* that waits for quota raises a card in the workspace, through which the  *)
(* user cancels it.  Whoever saves a plan or its goal names the revision   *)
(* read: those that are refused change nothing and are left out.           *)
(*                                                                         *)
(* A plan saved again brings its own steps: their ids may be those it had, *)
(* and their statuses are stored as given.  The events stay, and the id of *)
(* an event does not say which save its step is of.                        *)
(*                                                                         *)
(* The SQL repository locks rows: a failing step holds its own row but     *)
(* reads the row of the plan without a lock, so the plan may be cancelled  *)
(* before the failure commits.  The Memory repository does all of this     *)
(* under one asyncio lock.  backend says which one runs.                   *)
(***************************************************************************)
EXTENDS EventLog

CONSTANTS
    Step,      \* the step ids of the plan
    Consent,   \* those that need a confirmation
    GivenPlan, \* the statuses a saved plan is given (model bound)
    GivenStep, \* the statuses its steps are given (model bound)
    MaxRev,    \* revisions of the plan (model bound)
    MaxCards,  \* quota cards raised (model bound)
    MaxEvents  \* events stored (model bound)

PlanStatus == {"planning", "running", "awaiting_confirmation", "waiting_for_input",
               "completed", "failed", "cancelled"}
StepStatus == {"pending", "awaiting_confirmation", "running", "completed", "failed", "skipped"}

ASSUME PlanStepsAssumption ==
    /\ Consent \subseteq Step /\ GivenPlan \subseteq PlanStatus /\ GivenStep \subseteq StepStatus
    /\ MaxRev \in Nat /\ MaxCards \in Nat /\ MaxEvents \in Nat

VARIABLES
    backend,    \* "sql" or "memory"
    plan,       \* the row of the plan
    steps,      \* steps[k]: the row of step k, if the plan has one; gen (history)
                \*   is the revision of the plan that inserted the row
    failing,    \* steps whose failure has read the plan and not committed
    picked,     \* the plan has been listed for cancellation as a script plan
    card,       \* quota_interrupt of the workspace
    asked,      \* the card a cancellation request has read
    resolved,   \* last_quota_resolution of the workspace
    ended,      \* history: gen of the row that cancellation ended
    cards       \* cards raised so far

stepVars == <<steps, failing>>
planVars == <<backend, plan, picked>>
quotaVars == <<card, asked, resolved, ended, cards>>
vars == <<planVars, stepVars, quotaVars, eventVars>>

NoPlan == [status |-> "none", rev |-> 0, script |-> FALSE]
NoCard == [step |-> "none", job |-> 0]

PInit ==
    /\ EInit
    /\ backend \in {"sql", "memory"}
    /\ plan = NoPlan /\ steps = <<>> /\ failing = {}
    /\ picked = FALSE
    /\ card = NoCard /\ asked = NoCard /\ resolved = NoCard /\ ended = 0 /\ cards = 0

-----------------------------------------------------------------------------
(* Plans.                                                                   *)

\* _PLAN_STATUS_TRANSITIONS; staying is always allowed.
Transitions(s) ==
    CASE s = "planning" ->
            {"running", "awaiting_confirmation", "waiting_for_input", "failed", "cancelled"}
      [] s = "running" -> {"awaiting_confirmation", "completed", "failed", "cancelled"}
      [] s = "awaiting_confirmation" -> {"running", "failed", "cancelled"}
      [] s = "waiting_for_input" -> {"cancelled", "completed"}
      [] OTHER -> {}

MayBecome(target) == plan.status \in PlanStatus /\ target \in Transitions(plan.status) \cup {plan.status}

\* save_plan of a new plan, and of the next revision: the steps are replaced
\* by those given.  Statuses are stored as given, with no transition checked.
SavePlan(status, script, given) ==
    /\ DOMAIN given = {} => status \in {"waiting_for_input", "running"}
    /\ plan.rev < MaxRev /\ failing = {}
    /\ plan' = [status |-> status, rev |-> plan.rev + 1, script |-> script]
    /\ steps' = [k \in DOMAIN given |-> [status |-> given[k], gen |-> plan.rev + 1]]
    /\ UNCHANGED <<backend, failing, picked, quotaVars, eventVars>>

UpdateStatus(target) ==
    /\ MayBecome(target) /\ plan.rev < MaxRev
    /\ plan' = [plan EXCEPT !.status = target, !.rev = @ + 1]
    /\ UNCHANGED <<backend, picked, stepVars, quotaVars, eventVars>>

UpdateGoal ==
    /\ plan # NoPlan /\ plan.rev < MaxRev
    /\ plan' = [plan EXCEPT !.rev = @ + 1]
    /\ UNCHANGED <<backend, picked, stepVars, quotaVars, eventVars>>

-----------------------------------------------------------------------------
(* Steps.                                                                   *)

\* The row of a step is locked by every operation on it.
Unlocked(k) == k \in DOMAIN steps /\ k \notin failing
In(k, S) == Unlocked(k) /\ steps[k].status \in S

Moved(k, status) == steps' = [steps EXCEPT ![k].status = status]

StepAlone(k) == UNCHANGED <<planVars, failing, quotaVars, eventVars>>

\* A step that needs a consent does not start without it.
StartStep(k) ==
    /\ In(k, {"pending"}) /\ k \notin Consent
    /\ Moved(k, "running")
    /\ StepAlone(k)

RequestConfirmation(k) ==
    /\ In(k, {"pending"}) /\ k \in Consent
    /\ Moved(k, "awaiting_confirmation")
    /\ StepAlone(k)

ConfirmStep(k) ==
    /\ In(k, {"awaiting_confirmation"})
    /\ Moved(k, "running")
    /\ StepAlone(k)

\* Mutant: a failed step may still be completed.
CompletesFromFailed == {"running", "failed"}

CompletesFrom == {"running"}

CompleteStep(k) ==
    /\ In(k, CompletesFrom)
    /\ Moved(k, "completed")
    /\ StepAlone(k)

\* What is stored says nothing of gen, which is kept as history.
EventOf(k, phase) == [kind |-> phase, of |-> <<k, steps[k].gen>>]

\* The id of an event is made of the plan, the step id and the phase: an event
\* of the step that had this id before is found, too.
SameId(e, k, phase) == e.kind = phase /\ e.of[1] = k

HasEvent(k, phase) == \E n \in DOMAIN log : SameId(log[n], k, phase)

WithEvent(k, phase) ==
    /\ IF HasEvent(k, phase) THEN UNCHANGED <<log, delivery>>
       ELSE LastNumber < MaxEvents /\ AppendFrom(LastNumber + 1, << EventOf(k, phase) >>)
    /\ UNCHANGED <<expect, notes, feed>>

\* The SQL repository does not look at the consent here.
StartStepWithEvent(k) ==
    /\ In(k, {"pending", "running"})
    /\ steps[k].status = "pending" /\ backend = "memory" => k \notin Consent
    /\ Moved(k, "running")
    /\ WithEvent(k, "started")
    /\ UNCHANGED <<planVars, failing, quotaVars>>

ProgressStepWithEvent(k) ==
    /\ In(k, {"running"})
    /\ WithEvent(k, "progressed")
    /\ UNCHANGED <<planVars, stepVars, quotaVars>>

CompleteStepWithEvent(k) ==
    /\ In(k, CompletesFrom \cup {"completed"})
    /\ Moved(k, "completed")
    /\ WithEvent(k, "completed")
    /\ UNCHANGED <<planVars, failing, quotaVars>>

-----------------------------------------------------------------------------
(* A failing step fails its plan.                                           *)

\* SQL: the step is locked, the plan is read as it is now.
FailReads(k) ==
    /\ backend = "sql"
    /\ In(k, {"running", "failed"}) /\ MayBecome("failed")
    /\ failing' = failing \cup {k}
    /\ UNCHANGED <<planVars, steps, quotaVars, eventVars>>

FailCommits(k) ==
    /\ k \in failing
    /\ failing' = failing \ {k}
    /\ Moved(k, "failed")
    /\ plan' = [plan EXCEPT !.status = "failed"]
    /\ WithEvent(k, "failed")
    /\ UNCHANGED <<backend, picked, quotaVars>>

\* A number taken in the meantime, or a deadlock with an operation that locks
\* the plan first, rolls the failure back.
FailRolledBack(k) ==
    /\ k \in failing
    /\ failing' = failing \ {k}
    /\ UNCHANGED <<planVars, steps, quotaVars, eventVars>>

\* Memory: the step has failed by the time the transition is refused.
FailInMemory(k) ==
    /\ backend = "memory"
    /\ In(k, {"running", "failed"})
    /\ Moved(k, "failed")
    /\ IF MayBecome("failed")
       THEN /\ plan' = [plan EXCEPT !.status = "failed"]
            /\ WithEvent(k, "failed")
       ELSE UNCHANGED <<plan, eventVars>>
    /\ UNCHANGED <<backend, picked, failing, quotaVars>>

-----------------------------------------------------------------------------
(* Cancellation.  None of these advances the revision of the plan.          *)

\* Mutant: the step is skipped and the plan forgotten.
CancelledForgotten == plan

Cancelled == [plan EXCEPT !.status = "cancelled"]

CancelConfirmation(k) ==
    /\ In(k, {"awaiting_confirmation"}) /\ plan.status = "awaiting_confirmation"
    /\ Moved(k, "skipped")
    /\ plan' = Cancelled
    /\ UNCHANGED <<backend, picked, failing, quotaVars, eventVars>>

OpenStep == {"pending", "running", "awaiting_confirmation"}
ActivePlan == {"planning", "running", "awaiting_confirmation"}

\* The plans of the conversation are listed first and cancelled one by one.
ListScriptPlans ==
    /\ plan.script /\ plan.status \in ActivePlan
    /\ picked' = TRUE
    /\ UNCHANGED <<backend, plan, stepVars, quotaVars, eventVars>>

\* A step that already ended keeps its status.
CancelScriptPlan ==
    /\ picked /\ failing = {}
    /\ picked' = FALSE
    /\ IF plan.status \in ActivePlan
       THEN /\ plan' = Cancelled
            /\ steps' = [k \in DOMAIN steps |->
                            IF steps[k].status \in OpenStep THEN [steps[k] EXCEPT !.status = "skipped"]
                            ELSE steps[k]]
       ELSE UNCHANGED <<plan, steps>>
    /\ UNCHANGED <<backend, failing, quotaVars, eventVars>>

CancelWaitingPlan ==
    /\ plan.status = "waiting_for_input"
    /\ plan' = Cancelled
    /\ UNCHANGED <<backend, picked, stepVars, quotaVars, eventVars>>

-----------------------------------------------------------------------------
(* The quota card.                                                          *)

\* A delivery Tool runs in a step and is told that the quota is spent; a
\* later delivery takes the card away.
RaiseCard(k) ==
    /\ k \in DOMAIN steps /\ steps[k].status = "running" /\ cards < MaxCards
    /\ cards' = cards + 1
    /\ card' = [step |-> k, job |-> cards']
    /\ UNCHANGED <<planVars, stepVars, asked, resolved, ended, eventVars>>

DropCard ==
    /\ card' = NoCard
    /\ UNCHANGED <<planVars, stepVars, asked, resolved, ended, cards, eventVars>>

\* The request reads the card outside the transaction that cancels.
AskCancel ==
    /\ card # NoCard
    /\ asked' = card
    /\ UNCHANGED <<planVars, stepVars, card, resolved, ended, cards, eventVars>>

\* Plan, workspace and step are locked and the card is compared field by field;
\* none of them tells the row of the step from the one it replaced.
StillAsked == card = asked

CancelForQuota ==
    /\ asked # NoCard
    /\ LET k == asked.step IN
       /\ StillAsked /\ In(k, {"running"}) /\ MayBecome("cancelled")
       /\ Moved(k, "skipped")
       /\ ended' = steps[k].gen
    /\ plan' = Cancelled
    /\ card' = NoCard /\ resolved' = asked /\ asked' = NoCard
    /\ UNCHANGED <<backend, picked, failing, cards, eventVars>>

\* Refused, or answered from the resolution.
CancelAnswered ==
    /\ asked # NoCard
    /\ asked' = NoCard
    /\ UNCHANGED <<planVars, stepVars, card, resolved, ended, cards, eventVars>>

-----------------------------------------------------------------------------
PNext ==
    \/ \E s \in GivenPlan, b \in BOOLEAN, ids \in SUBSET Step :
          \E given \in [ids -> GivenStep] : SavePlan(s, b, given)
    \/ \E s \in PlanStatus : UpdateStatus(s)
    \/ UpdateGoal
    \/ \E k \in Step :
          \/ StartStep(k) \/ RequestConfirmation(k) \/ ConfirmStep(k) \/ CompleteStep(k)
          \/ StartStepWithEvent(k) \/ ProgressStepWithEvent(k) \/ CompleteStepWithEvent(k)
          \/ FailReads(k) \/ FailCommits(k) \/ FailRolledBack(k) \/ FailInMemory(k)
          \/ CancelConfirmation(k) \/ RaiseCard(k)
    \/ ListScriptPlans \/ CancelScriptPlan \/ CancelWaitingPlan
    \/ DropCard \/ AskCancel \/ CancelForQuota \/ CancelAnswered

PSpec == PInit /\ [][PNext]_vars

-----------------------------------------------------------------------------
StepPhase == {"started", "progressed", "completed", "failed"}
StepEvents == {n \in DOMAIN log : log[n].kind \in StepPhase}

(* The events of a step tell its story: each phase once, over all saves of  *)
(* the plan, and those written since the row was saved agree with it,       *)
(* whatever was repeated, cancelled, failed at the same time or rolled back *)
(* (SqlVideoWorkspaceRepository and its Memory double).                     *)
StepStory ==
    /\ \A m, n \in StepEvents : SameId(log[m], log[n].of[1], log[n].kind) => m = n
    /\ \A n \in StepEvents, k \in DOMAIN steps :
          log[n].of = <<k, steps[k].gen>> =>
              /\ log[n].kind \in {"completed", "failed"} => steps[k].status = log[n].kind
              /\ steps[k].status \notin {"pending", "awaiting_confirmation"}

\* The row that the last resolution ended has not been replaced.
StillEnded == resolved.step \in DOMAIN steps /\ steps[resolved.step].gen = ended

(* A cancelled quota card has ended its step and its plan together, and     *)
(* does not come back; a failure of another step that was under way may     *)
(* still turn the plan to failed, and only saving the plan anew opens it    *)
(* again (cancel_quota_interrupted_plan).                                   *)
QuotaCancelIsWhole ==
    resolved # NoCard =>
        /\ card # resolved
        /\ StillEnded => /\ steps[resolved.step].status = "skipped"
                         /\ plan.status \in {"cancelled", "failed"}

=============================================================================
