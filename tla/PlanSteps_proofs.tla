--------------------------- MODULE PlanSteps_proofs ---------------------------
(***************************************************************************)
(* Proofs about PlanSteps, for every set of steps and of consents, either  *)
(* backend, any statuses a plan is saved with, and any number of           *)
(* revisions, cards and events.                                            *)
(***************************************************************************)
EXTENDS PlanSteps, EventLog_proofs

Early == {"pending", "awaiting_confirmation"}
Over == {"completed", "failed"}

\* The plan has the steps of its last save, each inserted by a revision there has been.
PlanTypeOK ==
    /\ plan \in [status : PlanStatus \cup {"none"}, rev : Nat, script : BOOLEAN]
    /\ steps \in [DOMAIN steps -> [status : StepStatus, gen : Nat]]
    /\ DOMAIN steps \subseteq Step
    /\ \A k \in DOMAIN steps : steps[k].gen <= plan.rev
    /\ plan.status = "none" => ~plan.script /\ DOMAIN steps = {}

\* A step whose failure is under way is locked, so it is where it was read.
FailingOK == \A k \in failing : k \in DOMAIN steps /\ steps[k].status \in {"running", "failed"}

\* Every event is of a row that some revision has inserted.
EventsOK ==
    \A n \in DOMAIN log : \E k \in Step, g \in Nat, phase \in StepPhase :
        g <= plan.rev /\ log[n] = [kind |-> phase, of |-> <<k, g>>]

\* An id is stored once, over all saves of the plan.
EventsOnce ==
    \A m, n \in DOMAIN log : log[m].kind = log[n].kind /\ log[m].of[1] = log[n].of[1] => m = n

\* What the events of a step say of its row.
Tells(n, k) ==
    /\ log[n].kind \in Over => steps[k].status = log[n].kind
    /\ steps[k].status \notin Early

EventsTell ==
    \A n \in DOMAIN log, k \in DOMAIN steps : log[n].of = <<k, steps[k].gen>> => Tells(n, k)

\* The jobs of cards are counted.
CardOK(c) == c # NoCard => c.job \in 1 .. cards

\* The row that the resolution ended is as the cancellation left it, or replaced.
Resolved ==
    resolved # NoCard =>
        /\ card # resolved
        /\ StillEnded => /\ steps[resolved.step].status = "skipped"
                         /\ plan.status \in {"cancelled", "failed"}

StoryInv == EventsOK /\ EventsOnce /\ EventsTell
QuotaInv ==
    /\ cards \in Nat /\ CardOK(card) /\ CardOK(resolved)
    /\ ended \in Nat /\ ended <= plan.rev
    /\ Resolved

PlanInv == LogShape /\ PlanTypeOK /\ FailingOK /\ StoryInv /\ QuotaInv

-----------------------------------------------------------------------------
(* How a step moves.                                                        *)

\* Step k turns to status s and no other step moves.
Turns(k, s) ==
    /\ steps' \in [DOMAIN steps -> [status : StepStatus, gen : Nat]] /\ DOMAIN steps' = DOMAIN steps
    /\ steps'[k].status = s /\ steps'[k].gen = steps[k].gen
    /\ \A j \in DOMAIN steps \ {k} : steps'[j] = steps[j]

\* A step that is over or skipped stays so, and one that has begun does not
\* begin again.
MayGo(a, b) == a = b \/ (a \notin Over \cup {"skipped"} /\ (b \notin Early \/ a \in Early))

LEMMA MovedTurns ==
    ASSUME PlanTypeOK, NEW k \in DOMAIN steps, NEW s \in StepStatus, Moved(k, s)
    PROVE  Turns(k, s)
  <1>1. steps[k] \in [status : StepStatus, gen : Nat]
    BY DEF PlanTypeOK
  <1>2. steps' = [steps EXCEPT ![k] = [steps[k] EXCEPT !.status = s]]
    BY DEF Moved
  <1>3. [steps[k] EXCEPT !.status = s] \in [status : StepStatus, gen : Nat]
    BY <1>1
  <1>4. /\ [steps[k] EXCEPT !.status = s].status = s
        /\ [steps[k] EXCEPT !.status = s].gen = steps[k].gen
    BY <1>1
  <1> QED  BY <1>2, <1>3, <1>4 DEF PlanTypeOK, Turns

\* The rows of the steps stay in place and go on.
StepsGoOn ==
    /\ DOMAIN steps' = DOMAIN steps
    /\ \A k \in DOMAIN steps : steps'[k].gen = steps[k].gen /\ MayGo(steps[k].status, steps'[k].status)

LEMMA TurnsGoesOn ==
    ASSUME NEW k \in DOMAIN steps, NEW s, Turns(k, s), MayGo(steps[k].status, s)
    PROVE  StepsGoOn
  BY DEF Turns, StepsGoOn, MayGo

LEMMA SameGoesOn ==
    ASSUME UNCHANGED steps
    PROVE  StepsGoOn
  BY DEF StepsGoOn, MayGo

-----------------------------------------------------------------------------
(* The story.                                                               *)

LEMMA TellsGoesOn ==
    ASSUME EventsTell, StepsGoOn, NEW n \in DOMAIN log, NEW k \in DOMAIN steps,
           log[n].of = <<k, steps'[k].gen>>
    PROVE  /\ log[n].kind \in Over => steps'[k].status = log[n].kind
           /\ steps'[k].status \notin Early
  <1>1. steps'[k].gen = steps[k].gen /\ MayGo(steps[k].status, steps'[k].status)
    BY DEF StepsGoOn
  <1>2. Tells(n, k)
    BY <1>1 DEF EventsTell
  <1> QED  BY <1>1, <1>2 DEF Tells, MayGo

LEMMA SameLogKeeps ==
    ASSUME StoryInv, StepsGoOn, UNCHANGED log, plan.rev \in Nat, plan'.rev \in Nat, plan'.rev >= plan.rev
    PROVE  StoryInv'
  <1>1. EventsOK'
    <2> SUFFICES ASSUME NEW n \in DOMAIN log
                 PROVE  \E k \in Step, g \in Nat, phase \in StepPhase :
                            g <= plan'.rev /\ log[n] = [kind |-> phase, of |-> <<k, g>>]
      BY DEF EventsOK
    <2>1. PICK k \in Step, g \in Nat, phase \in StepPhase :
              g <= plan.rev /\ log[n] = [kind |-> phase, of |-> <<k, g>>]
      BY DEF StoryInv, EventsOK
    <2>2. g <= plan'.rev
      BY <2>1
    <2> QED  BY <2>1, <2>2
  <1>2. EventsOnce'
    BY DEF StoryInv, EventsOnce
  <1>3. EventsTell'
    <2> SUFFICES ASSUME NEW n \in DOMAIN log, NEW k \in DOMAIN steps', log[n].of = <<k, steps'[k].gen>>
                 PROVE  Tells(n, k)'
      BY DEF EventsTell
    <2> QED  BY TellsGoesOn DEF StoryInv, StepsGoOn, Tells
  <1> QED  BY <1>1, <1>2, <1>3 DEF StoryInv

\* A step that moves with its event: the event is new, or has been told before.
LEMMA EventKeeps ==
    ASSUME LogShape, PlanTypeOK, StoryInv, NEW k \in DOMAIN steps, NEW s \in StepStatus \ Early,
           NEW phase \in StepPhase, Turns(k, s), MayGo(steps[k].status, s),
           phase \in Over => s = phase,
           WithEvent(k, phase), plan'.rev = plan.rev
    PROVE  LogShape' /\ StoryInv'
  <1> DEFINE e == EventOf(k, phase)
  <1>1. StepsGoOn /\ plan.rev \in Nat
    BY TurnsGoesOn DEF PlanTypeOK
  <1>2. CASE HasEvent(k, phase)
    <2>1. UNCHANGED <<log, delivery>>
      BY <1>2 DEF WithEvent
    <2> QED  BY <1>1, <2>1, SameLogKeeps DEF LogShape, LastNumber
  <1>3. CASE ~HasEvent(k, phase)
    <2>1. /\ AppendFrom(LastNumber + 1, <<e>>)
          /\ \A n \in DOMAIN log : ~(log[n].kind = phase /\ log[n].of[1] = k)
      BY <1>3 DEF WithEvent, HasEvent, SameId
    <2> HIDE DEF e
    <2>2. Len(<<e>>) = 1 /\ <<e>>[1] = e
      OBVIOUS
    <2>3. /\ LastNumber \in Nat /\ DOMAIN log = 1 .. LastNumber
          /\ LogShape' /\ DOMAIN log' = 1 .. LastNumber + 1
          /\ \A n \in DOMAIN log : log'[n] = log[n]
          /\ log'[LastNumber + 1] = e
      <3>1. /\ LastNumber' = LastNumber + Len(<<e>>) /\ LogShape'
            /\ \A n \in 1 .. LastNumber : log'[n] = log[n]
            /\ \A i \in 1 .. Len(<<e>>) : log'[LastNumber + i] = <<e>>[i]
        <4>1. Len(<<e>>) \in Nat \ {0}
          BY <2>2
        <4> QED  BY <2>1, <4>1, AppendAtEnd, Zenon
      <3>2. LastNumber \in Nat /\ DOMAIN log = 1 .. LastNumber
        BY DEF LogShape
      <3>3. LastNumber' = LastNumber + 1 /\ log'[LastNumber + 1] = e
        BY <2>2, <3>1
      <3> QED  BY <3>1, <3>2, <3>3 DEF LogShape
    <2>4. \A n \in DOMAIN log' : n \in DOMAIN log \/ n = LastNumber + 1
      BY <2>3
    <2>5. e.kind = phase /\ e.of = <<k, steps[k].gen>> /\ e.of[1] = k /\ k \in Step
          /\ e = [kind |-> phase, of |-> <<k, steps[k].gen>>]
          /\ steps[k].gen \in Nat /\ steps[k].gen <= plan.rev
      BY DEF e, EventOf, PlanTypeOK
    <2>6. EventsOK'
      <3> SUFFICES ASSUME NEW n \in DOMAIN log'
                   PROVE  \E j \in Step, g \in Nat, p \in StepPhase :
                              g <= plan.rev /\ log'[n] = [kind |-> p, of |-> <<j, g>>]
        BY DEF EventsOK
      <3>1. CASE n \in DOMAIN log
        BY <2>3, <3>1 DEF StoryInv, EventsOK
      <3>2. CASE n = LastNumber + 1
        BY <2>3, <2>5, <3>2
      <3> QED  BY <2>4, <3>1, <3>2
    <2>7. EventsOnce'
      <3> SUFFICES ASSUME NEW m \in DOMAIN log', NEW n \in DOMAIN log',
                          log'[m].kind = log'[n].kind, log'[m].of[1] = log'[n].of[1]
                   PROVE  m = n
        BY DEF EventsOnce
      <3>1. log'[LastNumber + 1].kind = phase /\ log'[LastNumber + 1].of[1] = k
        BY <2>3, <2>5
      <3>2. CASE m \in DOMAIN log /\ n \in DOMAIN log
        BY <2>3, <3>2 DEF StoryInv, EventsOnce
      <3>3. CASE m = LastNumber + 1 \/ n = LastNumber + 1
        BY <2>1, <2>3, <2>4, <3>1, <3>3
      <3> QED  BY <2>4, <3>2, <3>3
    <2>8. EventsTell'
      <3> SUFFICES ASSUME NEW n \in DOMAIN log', NEW j \in DOMAIN steps', log'[n].of = <<j, steps'[j].gen>>
                   PROVE  Tells(n, j)'
        BY DEF EventsTell
      <3>1. j \in DOMAIN steps
        BY <1>1 DEF StepsGoOn
      <3>2. CASE n \in DOMAIN log
        BY <1>1, <2>3, <3>1, <3>2, TellsGoesOn DEF StoryInv, Tells
      <3>3. CASE n = LastNumber + 1
        <4>1. j = k /\ log'[n].kind = phase
          BY <2>3, <2>5, <3>3
        <4> QED  BY <4>1 DEF Turns, Tells
      <3> QED  BY <2>4, <3>2, <3>3
    <2> QED  BY <2>3, <2>6, <2>7, <2>8 DEF StoryInv
  <1> QED  BY <1>2, <1>3

-----------------------------------------------------------------------------
(* The plan and the quota card.                                             *)

Ended == {"cancelled", "failed"}

\* The plan goes on, in the same revision or a later one; once ended it stays so.
PlanGoesOn ==
    /\ plan' \in [status : PlanStatus \cup {"none"}, rev : Nat, script : BOOLEAN]
    /\ plan'.rev >= plan.rev /\ plan'.script = plan.script
    /\ plan'.status = "none" <=> plan.status = "none"
    /\ plan.status \in Ended => plan'.status \in Ended

StepsType == steps' \in [DOMAIN steps' -> [status : StepStatus, gen : Nat]]

LEMMA TypeGoesOn ==
    ASSUME PlanTypeOK, StepsGoOn, StepsType, PlanGoesOn
    PROVE  PlanTypeOK'
  <1>1. \A k \in DOMAIN steps' : steps'[k].gen <= plan'.rev
    BY DEF PlanTypeOK, StepsGoOn, PlanGoesOn
  <1> QED  BY <1>1 DEF PlanTypeOK, StepsGoOn, StepsType, PlanGoesOn

LEMMA QuotaGoesOn ==
    ASSUME PlanTypeOK, QuotaInv, StepsGoOn, PlanGoesOn, UNCHANGED <<card, resolved, ended, cards>>
    PROVE  QuotaInv'
  <1>1. /\ cards' \in Nat /\ CardOK(card)' /\ CardOK(resolved)'
        /\ ended' \in Nat /\ ended' <= plan'.rev
    BY DEF QuotaInv, CardOK, PlanGoesOn, PlanTypeOK
  <1>2. Resolved'
    <2> SUFFICES ASSUME resolved # NoCard, StillEnded'
                 PROVE  steps'[resolved.step].status = "skipped" /\ plan'.status \in Ended
      BY DEF QuotaInv, Resolved, Ended
    <2>1. StillEnded /\ MayGo(steps[resolved.step].status, steps'[resolved.step].status)
      BY DEF StillEnded, StepsGoOn
    <2>2. steps[resolved.step].status = "skipped" /\ plan.status \in Ended
      BY <2>1 DEF QuotaInv, Resolved, Ended
    <2> QED  BY <2>1, <2>2 DEF MayGo, PlanGoesOn
  <1> QED  BY <1>1, <1>2 DEF QuotaInv

\* Steps and plan that go on keep the invariant, if the events do.
LEMMA GoingOnKeeps ==
    ASSUME PlanInv, StepsGoOn, StepsType, PlanGoesOn, FailingOK', UNCHANGED <<card, resolved, ended, cards>>,
           UNCHANGED <<log, delivery>> \/ (LogShape' /\ StoryInv')
    PROVE  PlanInv'
  <1>1. LogShape' /\ StoryInv'
    <2>1. CASE UNCHANGED <<log, delivery>>
      BY <2>1, SameLogKeeps DEF PlanInv, PlanTypeOK, PlanGoesOn, LogShape, LastNumber
    <2> QED  BY <2>1
  <1> QED  BY <1>1, TypeGoesOn, QuotaGoesOn DEF PlanInv

LEMMA PlanStays ==
    ASSUME PlanTypeOK, UNCHANGED plan
    PROVE  PlanGoesOn
  BY DEF PlanTypeOK, PlanGoesOn

\* A status that its table lets the plan have.
LEMMA PlanBecomes ==
    ASSUME PlanTypeOK, NEW target \in PlanStatus, MayBecome(target),
           \/ plan' = [plan EXCEPT !.status = target]
           \/ plan' = [plan EXCEPT !.status = target, !.rev = @ + 1]
    PROVE  PlanGoesOn
  <1>1. plan \in [status : PlanStatus \cup {"none"}, rev : Nat, script : BOOLEAN]
    BY DEF PlanTypeOK
  <1>2. plan.status \in Ended => target = plan.status
    BY DEF MayBecome, Transitions, Ended
  <1>3. plan.status # "none" /\ target # "none"
    BY DEF MayBecome, PlanStatus
  <1>4. /\ plan' \in [status : PlanStatus \cup {"none"}, rev : Nat, script : BOOLEAN]
        /\ plan'.status = target /\ plan'.script = plan.script
        /\ plan'.rev >= plan.rev
    <2>1. CASE plan' = [plan EXCEPT !.status = target]
      <3>1. plan' = [status |-> target, rev |-> plan.rev, script |-> plan.script]
        BY <1>1, <2>1
      <3>2. plan.rev \in Nat /\ plan.script \in BOOLEAN
        BY <1>1
      <3> QED  BY <3>1, <3>2
    <2>2. CASE plan' = [plan EXCEPT !.status = target, !.rev = @ + 1]
      <3>1. plan' = [status |-> target, rev |-> plan.rev + 1, script |-> plan.script]
        BY <1>1, <2>2
      <3>2. plan.rev + 1 \in Nat /\ plan.rev + 1 >= plan.rev /\ plan.script \in BOOLEAN
        BY <1>1
      <3> QED  BY <3>1, <3>2
    <2> QED  BY <2>1, <2>2
  <1> QED  BY <1>2, <1>3, <1>4 DEF PlanGoesOn

\* A step that moves, its row unlocked or its failure done.
LEMMA FailingStays ==
    ASSUME FailingOK, NEW k \in DOMAIN steps, NEW s, Turns(k, s), failing' \subseteq failing, k \notin failing'
    PROVE  FailingOK'
  BY DEF FailingOK, Turns

LEMMA StatusesAre ==
    /\ {"pending", "running", "awaiting_confirmation", "completed", "failed", "skipped"} = StepStatus
    /\ {"running", "completed", "failed", "skipped"} = StepStatus \ Early
  BY DEF StepStatus, Early

\* One step moves.
LEMMA MoveKeeps ==
    ASSUME PlanInv, NEW k \in DOMAIN steps, NEW s \in StepStatus, Moved(k, s),
           MayGo(steps[k].status, s), PlanGoesOn, failing' \subseteq failing, k \notin failing',
           UNCHANGED <<card, resolved, ended, cards>>,
           \/ UNCHANGED <<log, delivery>>
           \/ /\ plan'.rev = plan.rev
              /\ s \notin Early
              /\ \E phase \in StepPhase : WithEvent(k, phase) /\ (phase \in Over => s = phase)
    PROVE  PlanInv'
  <1>1. Turns(k, s)
    BY MovedTurns DEF PlanInv
  <1>2. StepsGoOn /\ StepsType /\ FailingOK'
    BY <1>1, TurnsGoesOn, FailingStays DEF PlanInv, Turns, StepsType
  <1>3. UNCHANGED <<log, delivery>> \/ (LogShape' /\ StoryInv')
    BY <1>1, EventKeeps DEF PlanInv
  <1> QED  BY <1>2, <1>3, GoingOnKeeps

-----------------------------------------------------------------------------
(* The operations on steps.                                                 *)

LEMMA StepMoveKeeps ==
    ASSUME PlanInv, NEW k \in Step,
           StartStep(k) \/ RequestConfirmation(k) \/ ConfirmStep(k) \/ CompleteStep(k)
    PROVE  PlanInv'
  <1>1. k \in DOMAIN steps /\ k \notin failing /\ UNCHANGED <<plan, failing, card, resolved, ended, cards, log, delivery>>
    BY DEF StartStep, RequestConfirmation, ConfirmStep, CompleteStep, In, Unlocked, StepAlone,
           planVars, quotaVars, eventVars
  <1>2. PlanGoesOn
    BY <1>1, PlanStays DEF PlanInv
  <1>3. \E s \in StepStatus : Moved(k, s) /\ MayGo(steps[k].status, s)
    BY DEF StartStep, RequestConfirmation, ConfirmStep, CompleteStep, In, CompletesFrom,
           MayGo, Over, Early, StepStatus
  <1> QED  BY <1>1, <1>2, <1>3, MoveKeeps

LEMMA StepEventKeeps ==
    ASSUME PlanInv, NEW k \in Step,
           StartStepWithEvent(k) \/ ProgressStepWithEvent(k) \/ CompleteStepWithEvent(k)
    PROVE  PlanInv'
  <1>1. k \in DOMAIN steps /\ k \notin failing /\ UNCHANGED <<plan, failing, card, resolved, ended, cards>>
    BY DEF StartStepWithEvent, ProgressStepWithEvent, CompleteStepWithEvent, In, Unlocked,
           planVars, stepVars, quotaVars
  <1>2. PlanGoesOn
    BY <1>1, PlanStays DEF PlanInv
  <1>3. CASE StartStepWithEvent(k)
    <2>1. /\ "running" \in StepStatus \ Early /\ MayGo(steps[k].status, "running")
          /\ "started" \in StepPhase \ Over
      BY <1>3 DEF StartStepWithEvent, In, MayGo, Over, Early, StepStatus, StepPhase
    <2> QED  BY <1>1, <1>2, <1>3, <2>1, MoveKeeps DEF StartStepWithEvent
  <1>4. CASE CompleteStepWithEvent(k)
    <2>1. /\ "completed" \in StepStatus \ Early /\ MayGo(steps[k].status, "completed")
          /\ "completed" \in StepPhase
      BY <1>4 DEF CompleteStepWithEvent, In, CompletesFrom, MayGo, Over, Early, StepStatus, StepPhase
    <2> QED  BY <1>1, <1>2, <1>4, <2>1, MoveKeeps DEF CompleteStepWithEvent
  <1>5. CASE ProgressStepWithEvent(k)
    <2>1. steps' = steps /\ steps[k].status = "running" /\ WithEvent(k, "progressed")
      BY <1>5 DEF ProgressStepWithEvent, In, stepVars
    <2>2. Turns(k, "running") /\ StepsType /\ StepsGoOn
      BY <1>1, <2>1, SameGoesOn DEF Turns, PlanInv, PlanTypeOK, StepsType
    <2>3. "running" \in StepStatus \ Early /\ "progressed" \in StepPhase \ Over /\ MayGo("running", "running")
      BY DEF StepStatus, Early, StepPhase, Over, MayGo
    <2>4. LogShape' /\ StoryInv'
      BY <1>1, <2>1, <2>2, <2>3, EventKeeps DEF PlanInv
    <2>5. FailingOK'
      BY <1>1, <2>1 DEF PlanInv, FailingOK
    <2> QED  BY <1>1, <1>2, <2>2, <2>4, <2>5, GoingOnKeeps
  <1> QED  BY <1>3, <1>4, <1>5

\* A failure that has been read commits on a step that is still where it was.
LEMMA FailKeeps ==
    ASSUME PlanInv, NEW k \in Step,
           FailReads(k) \/ FailCommits(k) \/ FailRolledBack(k) \/ FailInMemory(k)
    PROVE  PlanInv'
  <1>1. "failed" \in StepStatus \ Early /\ "failed" \in StepPhase /\ "failed" \in PlanStatus
    BY DEF StepStatus, Early, StepPhase, PlanStatus
  <1>2. MayGo("running", "failed") /\ MayGo("failed", "failed")
    BY DEF MayGo, Over, Early
  <1>3. CASE FailReads(k) \/ FailRolledBack(k)
    <2>1. UNCHANGED <<plan, steps, card, resolved, ended, cards, log, delivery>>
      BY <1>3 DEF FailReads, FailRolledBack, planVars, quotaVars, eventVars
    <2>2. FailingOK'
      BY <1>3, <2>1 DEF FailReads, FailRolledBack, In, Unlocked, FailingOK, PlanInv
    <2>3. StepsGoOn /\ StepsType /\ PlanGoesOn
      BY <2>1, SameGoesOn, PlanStays DEF StepsType, PlanInv, PlanTypeOK
    <2> QED  BY <2>1, <2>2, <2>3, GoingOnKeeps
  <1>4. CASE FailCommits(k)
    <2>1. /\ k \in DOMAIN steps /\ steps[k].status \in {"running", "failed"}
          /\ failing' = failing \ {k} /\ Moved(k, "failed") /\ WithEvent(k, "failed")
          /\ plan' = [plan EXCEPT !.status = "failed"] /\ UNCHANGED <<card, resolved, ended, cards>>
      BY <1>4 DEF FailCommits, PlanInv, FailingOK, quotaVars
    <2>2. plan.status # "none"
      BY <2>1 DEF PlanInv, PlanTypeOK
    <2>3. PlanGoesOn /\ plan'.rev = plan.rev
      BY <1>1, <2>1, <2>2 DEF PlanInv, PlanTypeOK, PlanGoesOn, Ended
    <2> QED  BY <1>1, <1>2, <2>1, <2>3, MoveKeeps
  <1>5. CASE FailInMemory(k)
    <2>1. /\ k \in DOMAIN steps /\ k \notin failing /\ steps[k].status \in {"running", "failed"}
          /\ Moved(k, "failed") /\ UNCHANGED <<failing, card, resolved, ended, cards>>
      BY <1>5 DEF FailInMemory, In, Unlocked, quotaVars
    <2>2. CASE MayBecome("failed")
      <3>1. plan' = [plan EXCEPT !.status = "failed"] /\ WithEvent(k, "failed")
        BY <1>5, <2>2 DEF FailInMemory
      <3>2. PlanGoesOn /\ plan'.rev = plan.rev
        BY <1>1, <2>2, <3>1, PlanBecomes DEF PlanInv, PlanTypeOK
      <3> QED  BY <1>1, <1>2, <2>1, <3>1, <3>2, MoveKeeps
    <2>3. CASE ~MayBecome("failed")
      <3>1. UNCHANGED <<plan, log, delivery>>
        BY <1>5, <2>3 DEF FailInMemory, eventVars
      <3>2. PlanGoesOn
        BY <3>1, PlanStays DEF PlanInv
      <3> QED  BY <1>1, <1>2, <2>1, <3>1, <3>2, MoveKeeps
    <2> QED  BY <2>2, <2>3
  <1> QED  BY <1>3, <1>4, <1>5

-----------------------------------------------------------------------------
(* Cancellation and the quota card.                                         *)

LEMMA CancelledIs ==
    ASSUME PlanTypeOK, plan.status # "none", plan' = Cancelled
    PROVE  PlanGoesOn
  <1>1. plan' = [status |-> "cancelled", rev |-> plan.rev, script |-> plan.script]
    BY DEF Cancelled, PlanTypeOK
  <1>2. plan.rev \in Nat /\ plan.script \in BOOLEAN
    BY DEF PlanTypeOK
  <1> QED  BY <1>1, <1>2 DEF PlanGoesOn, Ended, PlanStatus

\* The plan of the cancellations is there, and no step moves out of turn.
LEMMA CancelKeeps ==
    ASSUME PlanInv,
           (\E k \in Step : CancelConfirmation(k)) \/ ListScriptPlans \/ CancelScriptPlan \/ CancelWaitingPlan
    PROVE  PlanInv'
  <1>1. UNCHANGED <<failing, card, resolved, ended, cards, log, delivery>>
    BY DEF CancelConfirmation, ListScriptPlans, CancelScriptPlan, CancelWaitingPlan,
           stepVars, quotaVars, eventVars
  <1>2. ASSUME NEW k \in Step, CancelConfirmation(k) PROVE PlanInv'
    <2>1. /\ k \in DOMAIN steps /\ k \notin failing /\ steps[k].status = "awaiting_confirmation"
          /\ Moved(k, "skipped") /\ plan.status = "awaiting_confirmation" /\ plan' = Cancelled
      BY <1>2 DEF CancelConfirmation, In, Unlocked
    <2>2. PlanGoesOn
      BY <2>1, CancelledIs DEF PlanInv
    <2>3. "skipped" \in StepStatus /\ MayGo("awaiting_confirmation", "skipped")
      BY DEF StepStatus, MayGo, Over, Early
    <2> QED  BY <1>1, <2>1, <2>2, <2>3, MoveKeeps
  <1>3. ASSUME StepsGoOn, StepsType, PlanGoesOn, FailingOK' PROVE PlanInv'
    BY <1>1, <1>3, GoingOnKeeps
  <1>4. CASE UNCHANGED steps /\ PlanGoesOn
    <2>1. FailingOK' /\ StepsType
      BY <1>1, <1>4 DEF PlanInv, FailingOK, PlanTypeOK, StepsType
    <2> QED  BY <1>3, <1>4, <2>1, SameGoesOn
  <1>5. CASE ListScriptPlans
    <2>1. UNCHANGED <<steps, plan>>
      BY <1>5 DEF ListScriptPlans, stepVars
    <2> QED  BY <1>4, <2>1, PlanStays DEF PlanInv
  <1>6. CASE CancelWaitingPlan
    <2>1. UNCHANGED steps /\ plan.status # "none" /\ plan' = Cancelled
      BY <1>6 DEF CancelWaitingPlan, stepVars
    <2> QED  BY <1>4, <2>1, CancelledIs DEF PlanInv
  <1>7. CASE CancelScriptPlan
    <2>1. CASE plan.status \notin ActivePlan
      <3>1. UNCHANGED <<steps, plan>>
        BY <1>7, <2>1 DEF CancelScriptPlan
      <3> QED  BY <1>4, <3>1, PlanStays DEF PlanInv
    <2>2. CASE plan.status \in ActivePlan
      <3>1. /\ plan' = Cancelled /\ failing = {} /\ plan.status # "none"
            /\ steps' = [k \in DOMAIN steps |->
                            IF steps[k].status \in OpenStep THEN [steps[k] EXCEPT !.status = "skipped"]
                            ELSE steps[k]]
        BY <1>7, <2>2 DEF CancelScriptPlan, ActivePlan
      <3>2. DOMAIN steps' = DOMAIN steps
        BY <3>1
      <3>3. ASSUME NEW k \in DOMAIN steps
            PROVE  /\ steps'[k] \in [status : StepStatus, gen : Nat] /\ steps'[k].gen = steps[k].gen
                   /\ MayGo(steps[k].status, steps'[k].status)
        <4>1. steps[k] \in [status : StepStatus, gen : Nat]
          BY DEF PlanInv, PlanTypeOK
        <4>2. CASE steps[k].status \in OpenStep
          <5>1. steps'[k] = [status |-> "skipped", gen |-> steps[k].gen]
            BY <3>1, <4>1, <4>2
          <5> QED  BY <4>1, <4>2, <5>1 DEF OpenStep, MayGo, StepStatus, Over, Early
        <4>3. CASE steps[k].status \notin OpenStep
          BY <3>1, <4>1, <4>3 DEF MayGo
        <4> QED  BY <4>2, <4>3
      <3>4. StepsType /\ StepsGoOn
        BY <3>1, <3>2, <3>3 DEF StepsType, StepsGoOn
      <3>5. FailingOK'
        BY <1>1, <3>1 DEF FailingOK
      <3> QED  BY <1>3, <3>1, <3>4, <3>5, CancelledIs DEF PlanInv
    <2> QED  BY <2>1, <2>2
  <1> QED  BY <1>2, <1>5, <1>6, <1>7

\* Steps and plan stay as they are.
LEMMA StillKeeps ==
    ASSUME PlanInv, UNCHANGED <<plan, steps, failing, log, delivery>>, QuotaInv'
    PROVE  PlanInv'
  <1>1. StoryInv'
    BY SameGoesOn, SameLogKeeps DEF PlanInv, PlanTypeOK
  <1> QED  BY <1>1 DEF PlanInv, PlanTypeOK, FailingOK, LogShape, LastNumber

LEMMA CardKeeps ==
    ASSUME PlanInv, (\E k \in Step : RaiseCard(k)) \/ DropCard \/ AskCancel \/ CancelAnswered
    PROVE  PlanInv'
  <1>1. UNCHANGED <<plan, steps, failing, log, delivery, resolved, ended>>
    BY DEF RaiseCard, DropCard, AskCancel, CancelAnswered, planVars, stepVars, eventVars
  <1>2. QuotaInv
    BY DEF PlanInv
  <1> SUFFICES QuotaInv'
    BY <1>1, StillKeeps
  <1>3. ASSUME NEW k \in Step, RaiseCard(k) PROVE QuotaInv'
    <2>1. cards \in Nat /\ cards' = cards + 1 /\ card'.job = cards + 1
      BY <1>2, <1>3 DEF RaiseCard, QuotaInv
    <2>2. CardOK(card)'
      BY <2>1 DEF CardOK
    <2>3. CardOK(resolved)' /\ (resolved # NoCard => card' # resolved)
      BY <1>1, <1>2, <2>1 DEF QuotaInv, CardOK
    <2> QED  BY <1>1, <1>2, <2>1, <2>2, <2>3 DEF QuotaInv, Resolved, StillEnded
  <1>4. CASE DropCard \/ AskCancel \/ CancelAnswered
    <2>1. UNCHANGED cards /\ card' \in {card, NoCard}
      BY <1>4 DEF DropCard, AskCancel, CancelAnswered
    <2> QED  BY <1>1, <1>2, <2>1 DEF QuotaInv, CardOK, Resolved, StillEnded
  <1> QED  BY <1>3, <1>4

\* The card the user saw is the card of the workspace, and its step runs.
LEMMA QuotaCancelKeeps ==
    ASSUME PlanInv, CancelForQuota
    PROVE  PlanInv'
  <1> DEFINE k == asked.step
  <1>1. /\ asked # NoCard /\ card = asked /\ k \in DOMAIN steps /\ k \notin failing
        /\ steps[k].status = "running" /\ MayBecome("cancelled")
        /\ Moved(k, "skipped") /\ plan' = Cancelled
        /\ card' = NoCard /\ resolved' = asked /\ ended' = steps[k].gen
        /\ UNCHANGED <<failing, cards, log, delivery>>
    BY DEF CancelForQuota, StillAsked, In, Unlocked, eventVars
  <1>2. "skipped" \in StepStatus /\ MayGo("running", "skipped")
    BY DEF StepStatus, MayGo, Over, Early
  <1>3. PlanGoesOn /\ plan'.status = "cancelled"
    <2>1. plan.status # "none"
      BY <1>1 DEF MayBecome, PlanStatus
    <2>2. plan'.status = "cancelled"
      BY <1>1 DEF Cancelled, PlanInv, PlanTypeOK
    <2> QED  BY <1>1, <2>1, <2>2, CancelledIs DEF PlanInv
  <1>4. Turns(k, "skipped")
    BY <1>1, <1>2, MovedTurns DEF PlanInv
  <1>5. StepsGoOn /\ StepsType /\ FailingOK'
    BY <1>1, <1>2, <1>4, TurnsGoesOn, FailingStays DEF PlanInv, Turns, StepsType
  <1>6. PlanTypeOK' /\ StoryInv' /\ LogShape'
    BY <1>1, <1>3, <1>5, TypeGoesOn, SameLogKeeps
       DEF PlanInv, PlanTypeOK, PlanGoesOn, LogShape, LastNumber
  <1>7. /\ cards' \in Nat /\ CardOK(card)' /\ CardOK(resolved)'
        /\ ended' \in Nat /\ ended' <= plan'.rev
    <2>1. CardOK(asked) /\ cards \in Nat
      BY <1>1 DEF PlanInv, QuotaInv
    <2>2. steps[k].gen \in Nat /\ steps[k].gen <= plan.rev
      BY <1>1 DEF PlanInv, PlanTypeOK
    <2> QED  BY <1>1, <1>3, <2>1, <2>2 DEF CardOK, PlanGoesOn, PlanInv, PlanTypeOK
  <1>8. Resolved'
    BY <1>1, <1>3, <1>4 DEF Resolved, Turns
  <1> QED  BY <1>5, <1>6, <1>7, <1>8 DEF PlanInv, QuotaInv

-----------------------------------------------------------------------------
(* Revisions of the plan.                                                   *)

\* The rows a save inserts are of a new revision, which no event and no
\* resolution is of, whatever ids and statuses they are given.
LEMMA SaveKeeps ==
    ASSUME PlanInv, NEW status \in GivenPlan, NEW script \in BOOLEAN, NEW ids \in SUBSET Step,
           NEW given \in [ids -> GivenStep], SavePlan(status, script, given)
    PROVE  PlanInv'
  <1> DEFINE g == plan.rev + 1
  <1>1. /\ failing = {} /\ UNCHANGED <<failing, card, resolved, ended, cards, log, delivery>>
        /\ plan' = [status |-> status, rev |-> g, script |-> script]
        /\ steps' = [k \in ids |-> [status |-> given[k], gen |-> g]]
    BY DEF SavePlan, quotaVars, eventVars
  <1>2. /\ plan.rev \in Nat /\ g \in Nat /\ g > plan.rev /\ plan'.rev = g
        /\ status \in PlanStatus /\ status # "none"
    BY <1>1, PlanStepsAssumption DEF PlanInv, PlanTypeOK, PlanStatus
  <1> HIDE DEF g
  <1>3. /\ DOMAIN steps' = ids /\ steps' \in [ids -> [status : StepStatus, gen : Nat]]
        /\ \A k \in ids : steps'[k].gen = g
    BY <1>1, <1>2, PlanStepsAssumption
  <1>4. PlanTypeOK' /\ FailingOK'
    BY <1>1, <1>2, <1>3 DEF PlanTypeOK, FailingOK
  <1>5. \A n \in DOMAIN log, k \in Step : log[n].of # <<k, g>>
    <2> SUFFICES ASSUME NEW n \in DOMAIN log, NEW k \in Step, log[n].of = <<k, g>> PROVE FALSE
      OBVIOUS
    <2>1. PICK j \in Step, h \in Nat, phase \in StepPhase :
              h <= plan.rev /\ log[n] = [kind |-> phase, of |-> <<j, h>>]
      BY DEF PlanInv, StoryInv, EventsOK
    <2>2. h = g
      BY <2>1
    <2> QED  BY <1>2, <2>1, <2>2
  <1>6. StoryInv'
    <2>1. EventsOK'
      <3> SUFFICES ASSUME NEW n \in DOMAIN log
                   PROVE  \E k \in Step, h \in Nat, phase \in StepPhase :
                              h <= plan'.rev /\ log[n] = [kind |-> phase, of |-> <<k, h>>]
        BY <1>1 DEF EventsOK
      <3>1. PICK k \in Step, h \in Nat, phase \in StepPhase :
                h <= plan.rev /\ log[n] = [kind |-> phase, of |-> <<k, h>>]
        BY DEF PlanInv, StoryInv, EventsOK
      <3>2. h <= plan'.rev
        BY <1>2, <3>1
      <3> QED  BY <3>1, <3>2
    <2>2. EventsOnce'
      BY <1>1 DEF PlanInv, StoryInv, EventsOnce
    <2>3. EventsTell'
      BY <1>1, <1>3, <1>5 DEF EventsTell
    <2> QED  BY <2>1, <2>2, <2>3 DEF StoryInv
  <1>7. QuotaInv'
    <2>1. ~StillEnded'
      BY <1>1, <1>2, <1>3 DEF StillEnded, PlanInv, QuotaInv
    <2> QED  BY <1>1, <1>2, <2>1 DEF PlanInv, QuotaInv, CardOK, Resolved
  <1>8. LogShape'
    BY <1>1 DEF PlanInv, LogShape, LastNumber
  <1> QED  BY <1>4, <1>6, <1>7, <1>8 DEF PlanInv

LEMMA UpdateKeeps ==
    ASSUME PlanInv, UpdateGoal \/ \E s \in PlanStatus : UpdateStatus(s)
    PROVE  PlanInv'
  <1>1. UNCHANGED <<steps, failing, card, resolved, ended, cards, log, delivery>>
    BY DEF UpdateGoal, UpdateStatus, stepVars, quotaVars, eventVars
  <1>2. PlanGoesOn
    <2>1. ASSUME NEW s \in PlanStatus, UpdateStatus(s) PROVE PlanGoesOn
      BY <2>1, PlanBecomes DEF UpdateStatus, PlanInv
    <2>2. CASE UpdateGoal
      <3>1. plan' = [status |-> plan.status, rev |-> plan.rev + 1, script |-> plan.script]
        BY <2>2 DEF UpdateGoal, PlanInv, PlanTypeOK
      <3>2. plan.rev \in Nat /\ plan.script \in BOOLEAN /\ plan.status \in PlanStatus \cup {"none"}
        BY DEF PlanInv, PlanTypeOK
      <3> QED  BY <3>1, <3>2 DEF PlanGoesOn
    <2> QED  BY <2>1, <2>2
  <1>3. FailingOK' /\ StepsType /\ StepsGoOn
    BY <1>1, SameGoesOn DEF PlanInv, FailingOK, PlanTypeOK, StepsType
  <1> QED  BY <1>1, <1>2, <1>3, GoingOnKeeps

-----------------------------------------------------------------------------
(* The theorems.                                                            *)

LEMMA PlanInvInit == PInit => PlanInv
  <1> SUFFICES ASSUME PInit PROVE PlanInv
    OBVIOUS
  <1>1. LogShape /\ DOMAIN log = {}
    BY EInvInit DEF PInit, EInit, EInv
  <1>2. PlanTypeOK
    BY DEF PInit, PlanTypeOK, NoPlan
  <1>3. FailingOK /\ StoryInv
    BY <1>1 DEF PInit, FailingOK, StoryInv, EventsOK, EventsOnce, EventsTell
  <1>4. QuotaInv
    BY DEF PInit, QuotaInv, CardOK, Resolved, NoPlan
  <1> QED  BY <1>1, <1>2, <1>3, <1>4 DEF PlanInv

LEMMA PlanInvStep == PlanInv /\ [PNext]_vars => PlanInv'
  <1> SUFFICES ASSUME PlanInv, [PNext]_vars PROVE PlanInv'
    OBVIOUS
  <1>1. CASE UNCHANGED vars
    <2>1. UNCHANGED <<plan, steps, failing, log, delivery, card, resolved, ended, cards>>
      BY <1>1 DEF vars, planVars, stepVars, quotaVars, eventVars
    <2>2. QuotaInv'
      BY <2>1 DEF PlanInv, QuotaInv, CardOK, Resolved, StillEnded
    <2> QED  BY <2>1, <2>2, StillKeeps
  <1> QED
    BY <1>1, SaveKeeps, UpdateKeeps, StepMoveKeeps, StepEventKeeps, FailKeeps, CancelKeeps, CardKeeps,
       QuotaCancelKeeps DEF PNext

\* The invariant: the rows of a save, the events written for them, and what a
\* quota cancellation left, over saves that may bring back a step id with any status.
THEOREM PlanInvHolds == PSpec => []PlanInv
  BY PlanInvInit, PlanInvStep, PTL DEF PSpec

\* A phase of a step id is stored once however often the plan is saved, and what
\* was stored since the row was saved agrees with it, though a failure of
\* SqlVideoWorkspaceRepository commits what it read before a cancellation.
THEOREM StepStoryHolds == PSpec => []StepStory
  <1>1. PlanInv => StepStory
    BY DEF PlanInv, StoryInv, EventsOnce, EventsTell, Tells, Over, Early, StepStory, StepEvents, SameId
  <1> QED  BY <1>1, PlanInvHolds, PTL

\* cancel_quota_interrupted_plan ends card, step and plan together, once, whatever
\* fails or is cancelled at the same time, until the plan is saved anew.
THEOREM QuotaCancelIsWholeHolds == PSpec => []QuotaCancelIsWhole
  <1>1. PlanInv => QuotaCancelIsWhole
    BY DEF PlanInv, QuotaInv, Resolved, QuotaCancelIsWhole
  <1> QED  BY <1>1, PlanInvHolds, PTL
=============================================================================
