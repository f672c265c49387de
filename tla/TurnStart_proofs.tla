--------------------------- MODULE TurnStart_proofs ---------------------------
(***************************************************************************)
(* Proofs about TurnStart, for any inputs, requests and bounds.  A request *)
(* knows something at each step of its chain of awaits (RequestOK); what   *)
(* other requests, the Sidecar and the tools do in between never takes it  *)
(* away (Grows), and what the stores promise follows.                      *)
(***************************************************************************)
EXTENDS TurnStart, TLAPS

Fields == {"step", "run", "seen", "rev", "digest", "fresh"}
Turning == {"admitted", "patched", "stored"}
Reviewing == {"ledger", "source", "doubt"}
Shared == {"create", "bind", "activate", "conclude"}

\* Nothing is left to activate.
Goes_on(r) == (up /\ status[r] = "accepted") => r \in active \cap pending

RequestShape ==
    /\ DOMAIN request = Request
    /\ \A q \in Request : DOMAIN request[q] = Fields

\* What a request may rely on; x is the state of one.
RequestOK(x) ==
    /\ x.step # "idle" => x.run \in Run
    /\ x.step \in Turning => x.run[2] = 0
    /\ x.step \in Reviewing => x.run[2] # 0
    /\ x.step = "bind" => x.run \in DOMAIN accepted /\ accepted[x.run] = x.digest
    /\ x.step \in {"activate", "conclude"} => x.run \in DOMAIN binding
    /\ x.step = "conclude" => Goes_on(x.run)
    /\ (x.step \in Reviewing \cup Shared /\ x.run[2] # 0) => Original(x.run) \in recoverable
    /\ (x.step \in Shared \cup {"source"} /\ x.run[2] # 0) => SeenEmpty(Original(x.run))
    /\ (x.step \in Shared /\ x.run[2] # 0) => message[Original(x.run)[1]] = "linked"

StoreInv ==
    /\ DOMAIN status = Run
    /\ DOMAIN accepted = {r \in Run : status[r] # "none"}
    /\ \A r \in active : (up /\ status[r] = "accepted") => r \in pending
    /\ recoverable \subseteq Run /\ \A r \in recoverable : status[r] = "failed"
    /\ DOMAIN message = Input
    /\ DOMAIN event = Run
    /\ answered \subseteq Input

SwitchInv ==
    /\ switch.rev \in Nat \ {0}
    /\ \A q \in Request : request[q].seen \in 0 .. switch.rev
    /\ \A q \in veterans : q \in Request /\ request[q].seen < switch.rev

SInv ==
    /\ RequestShape
    /\ \A q \in Request : RequestOK(request[q])
    /\ StoreInv
    /\ BoundAsAccepted
    /\ AnsweredTurnGoesOn
    /\ RecoveredSafely

-----------------------------------------------------------------------------
(* Runs and requests.                                                       *)

LEMMA RunsAre ==
    /\ \A r \in Run : r[1] \in Input /\ r[2] \in 0 .. MaxDepth /\ r = <<r[1], r[2]>>
    /\ \A i \in Input : Turn(i) \in Run /\ Turn(i)[1] = i /\ Turn(i)[2] = 0
    /\ \A r \in Run : r[2] = 0 => Turn(r[1]) = r
    /\ \A r \in Run : r[2] < MaxDepth =>
          Recovery(r) \in Run /\ Recovery(r)[2] # 0 /\ Original(Recovery(r)) = r
    /\ \A r \in Run : r[2] # 0 =>
          Original(r) \in Run /\ Recovery(Original(r)) = r /\ Original(r)[1] = r[1]
  <1>0. MaxDepth \in Nat
    BY TurnStartAssumption
  <1>1. \A r \in Run : r[1] \in Input /\ r[2] \in 0 .. MaxDepth /\ r = <<r[1], r[2]>>
    BY DEF Run
  <1>2. \A i \in Input : Turn(i) \in Run /\ Turn(i)[1] = i /\ Turn(i)[2] = 0
    BY <1>0 DEF Run, Turn
  <1>3. \A r \in Run : r[2] = 0 => Turn(r[1]) = r
    BY <1>1 DEF Turn
  <1>4. ASSUME NEW r \in Run, r[2] < MaxDepth
        PROVE  Recovery(r) \in Run /\ Recovery(r)[2] # 0 /\ Original(Recovery(r)) = r
    <2>1. r[1] \in Input /\ r[2] \in Nat /\ r[2] + 1 \in 0 .. MaxDepth /\ r = <<r[1], r[2]>>
      BY <1>0, <1>1, <1>4
    <2>2. Recovery(r) \in Run /\ Recovery(r)[1] = r[1] /\ Recovery(r)[2] = r[2] + 1
      BY <2>1 DEF Recovery, Run
    <2>3. Original(Recovery(r)) = <<r[1], r[2] + 1 - 1>>
      BY <2>1, <2>2 DEF Original
    <2>4. r[2] + 1 - 1 = r[2] /\ Recovery(r)[2] # 0
      BY <2>1, <2>2
    <2>5. Original(Recovery(r)) = r
      BY <2>1, <2>3, <2>4
    <2> QED  BY <2>2, <2>4, <2>5
  <1>5. ASSUME NEW r \in Run, r[2] # 0
        PROVE  Original(r) \in Run /\ Recovery(Original(r)) = r /\ Original(r)[1] = r[1]
    <2>1. r[1] \in Input /\ r[2] - 1 \in 0 .. MaxDepth /\ r[2] - 1 + 1 = r[2] /\ r = <<r[1], r[2]>>
      BY <1>0, <1>1, <1>5
    <2>2. Original(r) \in Run /\ Original(r)[1] = r[1] /\ Original(r)[2] = r[2] - 1
      BY <2>1 DEF Original, Run
    <2>3. Recovery(Original(r)) = <<r[1], r[2] - 1 + 1>>
      BY <2>1, <2>2 DEF Recovery
    <2>4. Recovery(Original(r)) = r
      BY <2>1, <2>3
    <2> QED  BY <2>2, <2>4
  <1> QED  BY <1>1, <1>2, <1>3, <1>4, <1>5

\* One request goes on, the others stay where they are.
OneMoves(q) ==
    /\ RequestShape'
    /\ \A p \in Request \ {q} : request'[p] = request[p]

LEMMA IdleIs == DOMAIN Idle = Fields /\ Idle.step = "idle" /\ Idle.seen = 0
  BY DEF Idle, Fields

LEMMA GoesIs ==
    ASSUME RequestShape, NEW q \in Request, NEW x, DOMAIN x = Fields, Goes(q, x)
    PROVE  OneMoves(q) /\ request'[q] = x
  BY DEF Goes, RequestShape, OneMoves

LEMMA ToIs ==
    ASSUME RequestShape, NEW q \in Request, NEW s, To(q, s)
    PROVE  /\ OneMoves(q)
           /\ request'[q].step = s /\ request'[q].run = request[q].run
           /\ request'[q].seen = request[q].seen /\ request'[q].digest = request[q].digest
           /\ request'[q].fresh = request[q].fresh
  <1>1. request' = [request EXCEPT ![q] = [request[q] EXCEPT !.step = s]]
    BY DEF To
  <1> DEFINE x == [request[q] EXCEPT !.step = s]
  <1>2. DOMAIN x = Fields /\ x.step = s /\ x.run = request[q].run /\ x.seen = request[q].seen
        /\ x.digest = request[q].digest /\ x.fresh = request[q].fresh
    BY DEF RequestShape, Fields
  <1>3. Goes(q, x)
    BY <1>1 DEF Goes
  <1> HIDE DEF x
  <1> QED  BY <1>2, <1>3, GoesIs

-----------------------------------------------------------------------------
(* What the stores never take back.                                         *)

Grows ==
    /\ \A r \in DOMAIN accepted : r \in DOMAIN accepted' /\ accepted'[r] = accepted[r]
    /\ DOMAIN binding \subseteq DOMAIN binding'
    /\ \A r \in DOMAIN binding : Goes_on(r) => Goes_on(r)'
    /\ recoverable \subseteq recoverable'
    /\ \A r \in looked : SeenEmpty(r) => SeenEmpty(r)'
    /\ \A i \in Input : message[i] = "linked" => message'[i] = "linked"

LEMMA KeptRequests ==
    ASSUME SInv, Grows, NEW x, RequestOK(x)
    PROVE  RequestOK(x)'
  <1>1. x.step # "idle" => x.run \in Run
    BY DEF RequestOK
  <1>2. (x.step \in Shared /\ x.run[2] # 0) => Original(x.run)[1] \in Input
    BY <1>1, RunsAre DEF Shared
  <1>3. x.step \in Shared \cup {"source"} => x.step \in Reviewing \cup Shared
    BY DEF Reviewing
  <1>4. x.step = "conclude" => Goes_on(x.run)'
    BY DEF RequestOK, Grows, Goes_on
  <1> QED  BY <1>2, <1>3, <1>4 DEF RequestOK, Grows, SeenEmpty

\* The others keep what they know; the one that moves has to show it.
LEMMA AllRequests ==
    ASSUME SInv, Grows, NEW q \in Request, OneMoves(q), RequestOK(request[q])' 
    PROVE  RequestShape' /\ \A p \in Request : RequestOK(request[p])'
  <1>1. ASSUME NEW p \in Request, p # q PROVE RequestOK(request[p])'
    <2>1. RequestOK(request[p]) /\ request'[p] = request[p]
      BY <1>1 DEF SInv, OneMoves
    <2> QED  BY <2>1, KeptRequests DEF RequestOK
  <1> QED  BY <1>1 DEF OneMoves

StoresOK == StoreInv /\ BoundAsAccepted /\ AnsweredTurnGoesOn /\ RecoveredSafely

\* Steps that only read the stores.
StoresStay == UNCHANGED <<sidecarVars, binding, message, event, ledgerVars, answered>>

LEMMA ReadingKeeps ==
    ASSUME SInv, StoresStay
    PROVE  Grows /\ StoresOK'
  <1>1. Grows
    BY DEF StoresStay, sidecarVars, Grows, Goes_on, ledgerVars, SeenEmpty
  <1>2. StoreInv' /\ BoundAsAccepted'
    BY DEF SInv, StoresStay, sidecarVars, StoreInv, BoundAsAccepted
  <1>3. AnsweredTurnGoesOn' /\ RecoveredSafely'
    BY DEF SInv, StoresStay, sidecarVars, AnsweredTurnGoesOn, RecoveredSafely, ledgerVars, SeenEmpty
  <1> QED  BY <1>1, <1>2, <1>3 DEF StoresOK

\* A request that has given up, or is about to report an error.
LEMMA Quits ==
    ASSUME NEW x, x.step \in {"idle", "refused", "unreachable"}, x.step # "idle" => x.run \in Run
    PROVE  RequestOK(x) /\ RequestOK(x)'
  BY DEF RequestOK, Turning, Reviewing, Shared

LEMMA GivesUp ==
    ASSUME SInv, NEW q \in Request, Goes(q, Idle)
    PROVE  OneMoves(q) /\ RequestOK(request[q])'
  <1>1. OneMoves(q) /\ request'[q] = Idle
    BY IdleIs, GoesIs DEF SInv
  <1> QED  BY <1>1, IdleIs DEF RequestOK, Turning, Reviewing, Shared

LEMMA FailsIs ==
    ASSUME SInv, NEW q \in Request, NEW why \in {"refused", "unreachable"}, Fails(q, why),
           request[q].step # "idle"
    PROVE  OneMoves(q) /\ RequestOK(request[q])'
  <1>1. CASE To(q, why)
    <2>1. OneMoves(q) /\ request'[q].step = why /\ request'[q].run = request[q].run
      BY <1>1, ToIs DEF SInv
    <2>2. request[q].run \in Run
      BY DEF SInv, RequestOK
    <2> QED  BY <2>1, <2>2 DEF RequestOK, Turning, Reviewing, Shared
  <1>2. CASE Goes(q, Idle)
    BY <1>2, GivesUp
  <1> QED  BY <1>1, <1>2 DEF Fails

\* What a step of request q has to show.
Steps(q) == Grows /\ StoresOK' /\ OneMoves(q) /\ RequestOK(request[q])'

LEMMA StepKeeps ==
    ASSUME SInv, NEW q \in Request, Steps(q)
    PROVE  SInv'
  BY AllRequests DEF Steps, StoresOK, SInv

\* Between them nothing is stored and no request moves.
LEMMA StutterKeeps ==
    ASSUME SInv, Grows, StoresOK', UNCHANGED request
    PROVE  SInv'
  <1>1. ASSUME NEW p \in Request PROVE RequestOK(request[p])'
    <2>1. RequestOK(request[p])
      BY DEF SInv
    <2> QED  BY <2>1, KeptRequests DEF RequestOK
  <1> QED  BY <1>1 DEF SInv, StoresOK, RequestShape

-----------------------------------------------------------------------------
(* The steps of a turn up to the Sidecar.                                   *)

LEMMA BeginTurnKeeps ==
    ASSUME SInv, NEW q \in Request, NEW i \in Input, BeginTurn(q, i)
    PROVE  Steps(q)
  <1> DEFINE x == [Idle EXCEPT !.step = "admitted", !.run = Turn(i), !.seen = switch.rev,
                               !.rev = workspace]
  <1>1. DOMAIN x = Fields /\ x.step = "admitted" /\ x.run = Turn(i)
    BY DEF Idle, Fields
  <1>2. Goes(q, x) /\ StoresStay
    BY DEF BeginTurn, StoresStay, storeVars
  <1> HIDE DEF x
  <1>3. OneMoves(q) /\ request'[q] = x
    BY <1>1, <1>2, GoesIs DEF SInv
  <1>4. RequestOK(request[q])'
    BY <1>1, <1>3, RunsAre DEF RequestOK, Turning, Reviewing, Shared
  <1> QED  BY <1>2, <1>3, <1>4, ReadingKeeps DEF Steps

\* A turn that goes on within the Gateway.
LEMMA TurningKeeps ==
    ASSUME SInv, NEW q \in Request, request[q].step \in Turning, OneMoves(q),
           request'[q].run = request[q].run, request'[q].step \in Turning \cup {"create"}
    PROVE  RequestOK(request[q])'
  <1>1. request[q].run \in Run /\ request[q].run[2] = 0
    BY DEF SInv, RequestOK, Turning
  <1> QED  BY <1>1 DEF RequestOK, Turning, Reviewing, Shared

LEMMA AddMaterialsKeeps ==
    ASSUME SInv, NEW q \in Request, AddMaterials(q)
    PROVE  Steps(q)
  <1>1. StoresStay
    BY DEF AddMaterials, StoresStay
  <1>2. CASE Goes(q, Idle)
    BY <1>1, <1>2, GivesUp, ReadingKeeps DEF Steps
  <1>3. ASSUME NEW n, Goes(q, [request[q] EXCEPT !.step = "patched", !.rev = n])
        PROVE  Steps(q)
    <2> DEFINE x == [request[q] EXCEPT !.step = "patched", !.rev = n]
    <2>1. DOMAIN x = Fields /\ x.step = "patched" /\ x.run = request[q].run
      BY DEF SInv, RequestShape, Fields
    <2>2. Goes(q, x)
      BY <1>3
    <2> HIDE DEF x
    <2>3. OneMoves(q) /\ request'[q] = x
      BY <2>1, <2>2, GoesIs DEF SInv
    <2>4. request[q].step \in Turning
      BY DEF AddMaterials, At, Turning
    <2>5. RequestOK(request[q])'
      BY <2>1, <2>3, <2>4, TurningKeeps DEF Turning
    <2> QED  BY <1>1, <2>3, <2>5, ReadingKeeps DEF Steps
  <1> QED  BY <1>2, <1>3 DEF AddMaterials

LEMMA StoreMessageKeeps ==
    ASSUME SInv, NEW q \in Request, StoreMessage(q)
    PROVE  Steps(q)
  <1> DEFINE i == request[q].run[1]
  <1>1. /\ message' = [message EXCEPT ![i] = IF @ = "none" THEN "stored" ELSE @]
        /\ request[q].step \in Turning /\ To(q, "stored")
        /\ UNCHANGED <<sidecarVars, binding, event, ledgerVars, answered>>
    BY DEF StoreMessage, At, Turning
  <1>2. \A j \in Input : message[j] = "linked" => message'[j] = "linked"
    BY <1>1 DEF SInv, StoreInv
  <1>3. Grows
    BY <1>1, <1>2 DEF sidecarVars, Grows, Goes_on, ledgerVars, SeenEmpty
  <1>4. StoreInv' /\ BoundAsAccepted'
    BY <1>1 DEF SInv, sidecarVars, StoreInv, BoundAsAccepted
  <1>5. AnsweredTurnGoesOn'
    BY <1>1, <1>2 DEF SInv, StoreInv, sidecarVars, AnsweredTurnGoesOn
  <1>6. RecoveredSafely'
    BY <1>1, <1>2, RunsAre DEF SInv, sidecarVars, RecoveredSafely, ledgerVars, SeenEmpty
  <1>7. OneMoves(q) /\ request'[q].step = "stored" /\ request'[q].run = request[q].run
    BY <1>1, ToIs DEF SInv
  <1>8. RequestOK(request[q])'
    BY <1>1, <1>7, TurningKeeps DEF Turning
  <1> QED  BY <1>3, <1>4, <1>5, <1>6, <1>7, <1>8 DEF Steps, StoresOK

LEMMA BuildContextKeeps ==
    ASSUME SInv, NEW q \in Request, BuildContext(q)
    PROVE  Steps(q)
  <1> DEFINE x == [request[q] EXCEPT !.step = "create", !.rev = 0,
                                     !.digest = <<request[q].rev, Talk>>]
  <1>1. DOMAIN x = Fields /\ x.step = "create" /\ x.run = request[q].run
    BY DEF SInv, RequestShape, Fields
  <1>2. Goes(q, x) /\ StoresStay /\ request[q].step \in Turning
    BY DEF BuildContext, StoresStay, storeVars, At, Turning
  <1> HIDE DEF x
  <1>3. OneMoves(q) /\ request'[q] = x
    BY <1>1, <1>2, GoesIs DEF SInv
  <1>4. RequestOK(request[q])'
    BY <1>1, <1>2, <1>3, TurningKeeps
  <1> QED  BY <1>2, <1>3, <1>4, ReadingKeeps DEF Steps

-----------------------------------------------------------------------------
(* The steps of a recovery up to the Sidecar.                               *)

LEMMA BeginRecoveryKeeps ==
    ASSUME SInv, NEW q \in Request, NEW r \in Run, BeginRecovery(q, r)
    PROVE  Steps(q)
  <1> DEFINE x == [Idle EXCEPT !.step = "ledger", !.run = Recovery(r)]
  <1>1. DOMAIN x = Fields /\ x.step = "ledger" /\ x.run = Recovery(r)
    BY DEF Idle, Fields
  <1>2. /\ Goes(q, x) /\ event' = [event EXCEPT ![r] = "pending"]
        /\ r \in recoverable /\ r[2] < MaxDepth /\ event[r] \in {"none", "pending"}
        /\ UNCHANGED <<sidecarVars, binding, message, ledgerVars, answered>>
    BY DEF BeginRecovery
  <1> HIDE DEF x
  <1>3. OneMoves(q) /\ request'[q] = x
    BY <1>1, <1>2, GoesIs DEF SInv
  <1>4. RequestOK(request[q])'
    BY <1>1, <1>2, <1>3, RunsAre DEF RequestOK, Turning, Reviewing, Shared, sidecarVars
  <1>5. Grows
    BY <1>2 DEF sidecarVars, Grows, Goes_on, ledgerVars, SeenEmpty
  <1>6. StoreInv' /\ BoundAsAccepted' /\ AnsweredTurnGoesOn'
    BY <1>2 DEF SInv, sidecarVars, StoreInv, BoundAsAccepted, AnsweredTurnGoesOn
  <1>7. RecoveredSafely'
    BY <1>2 DEF SInv, StoreInv, sidecarVars, RecoveredSafely, ledgerVars, SeenEmpty
  <1> QED  BY <1>3, <1>4, <1>5, <1>6, <1>7 DEF Steps, StoresOK

\* A recovery that goes on by what it has just found.
LEMMA ReviewingKeeps ==
    ASSUME SInv, NEW q \in Request, request[q].step \in Reviewing, OneMoves(q), Grows, StoresOK',
           UNCHANGED message, request'[q].run = request[q].run,
           \/ request'[q].step = "doubt"
           \/ request'[q].step = "source" /\ SeenEmpty(Original(request[q].run))'
           \/ /\ request'[q].step = "create" /\ request[q].step = "source"
              /\ message[Original(request[q].run)[1]] = "linked"
    PROVE  Steps(q)
  <1> DEFINE o == Original(request[q].run)
  <1>1. /\ request[q].run \in Run /\ request[q].run[2] # 0 /\ o \in recoverable
        /\ request[q].step = "source" => SeenEmpty(o)
    BY DEF SInv, RequestOK, Reviewing
  <1>2. o \in recoverable' /\ Original(request[q].run)' = o
        /\ (request[q].step = "source" => SeenEmpty(o)')
    BY <1>1 DEF Grows, SeenEmpty
  <1> HIDE DEF o
  <1>3. RequestOK(request[q])'
    BY <1>1, <1>2 DEF RequestOK, Turning, Reviewing, Shared, o
  <1> QED  BY <1>3 DEF Steps

LEMMA CheckLedgerKeeps ==
    ASSUME SInv, NEW q \in Request, CheckLedger(q)
    PROVE  Steps(q)
  <1> DEFINE r == Original(request[q].run)
  <1>1. /\ request[q].step \in Reviewing
        /\ UNCHANGED <<sidecarVars, binding, message, event, called, late, answered>>
    BY DEF CheckLedger, At, Reviewing
  <1>2. PICK s \in {"source", "doubt"} :
            To(q, s) /\ (s = "source" => r \notin called /\ r \in looked')
    BY DEF CheckLedger, NothingCalled
  <1>3. looked' \in {looked, looked \cup {r}} /\ (looked' # looked => r \notin called)
    BY DEF CheckLedger, NothingCalled
  <1> HIDE DEF r
  <1>4. \A o \in looked : SeenEmpty(o) => SeenEmpty(o)'
    BY <1>1, <1>3 DEF SeenEmpty
  <1>5. Grows
    BY <1>1, <1>4 DEF sidecarVars, Grows, Goes_on
  <1>6. StoreInv' /\ BoundAsAccepted' /\ AnsweredTurnGoesOn'
    BY <1>1 DEF SInv, sidecarVars, StoreInv, BoundAsAccepted, AnsweredTurnGoesOn
  <1>7. RecoveredSafely'
    BY <1>1, <1>4 DEF SInv, sidecarVars, RecoveredSafely, SeenEmpty
  <1>8. OneMoves(q) /\ request'[q].step = s /\ request'[q].run = request[q].run
    BY <1>2, ToIs DEF SInv
  <1>9. r' = r
    BY <1>8 DEF r
  <1>10. s = "source" => SeenEmpty(r)'
    BY <1>1, <1>2, <1>9 DEF SeenEmpty
  <1> QED  BY <1>1, <1>2, <1>5, <1>6, <1>7, <1>8, <1>10, ReviewingKeeps DEF r, StoresOK

LEMMA FindSourceKeeps ==
    ASSUME SInv, NEW q \in Request, FindSource(q)
    PROVE  Steps(q)
  <1>1. StoresStay /\ request[q].step = "source" /\ request[q].step \in Reviewing
    BY DEF FindSource, StoresStay, storeVars, At, Reviewing
  <1>4. Grows /\ StoresOK' /\ UNCHANGED message
    BY <1>1, ReadingKeeps DEF StoresStay
  <1>2. CASE HasSource(Original(request[q].run))
    <2> DEFINE x == [request[q] EXCEPT !.step = "create", !.digest = <<workspace>>]
    <2>1. DOMAIN x = Fields /\ x.step = "create" /\ x.run = request[q].run
      BY DEF SInv, RequestShape, Fields
    <2>2. Goes(q, x)
      BY <1>2 DEF FindSource
    <2> HIDE DEF x
    <2>3. OneMoves(q) /\ request'[q] = x
      BY <2>1, <2>2, GoesIs DEF SInv
    <2> QED  BY <1>1, <1>2, <1>4, <2>1, <2>3, ReviewingKeeps DEF HasSource
  <1>3. CASE ~HasSource(Original(request[q].run))
    <2>1. OneMoves(q) /\ request'[q].step = "doubt" /\ request'[q].run = request[q].run
      BY <1>3, ToIs DEF FindSource, SInv
    <2> QED  BY <1>1, <1>4, <2>1, ReviewingKeeps
  <1> QED  BY <1>2, <1>3

LEMMA MarkManualReviewKeeps ==
    ASSUME SInv, NEW q \in Request, MarkManualReview(q)
    PROVE  Steps(q)
  <1>1. PICK r : event' = [event EXCEPT ![r] = IF @ = "created" THEN @ ELSE "manual_review"]
    BY DEF MarkManualReview
  <1>2. Goes(q, Idle) /\ UNCHANGED <<sidecarVars, binding, message, ledgerVars, answered>>
    BY DEF MarkManualReview
  <1>3. Grows
    BY <1>2 DEF sidecarVars, Grows, Goes_on, ledgerVars, SeenEmpty
  <1>4. StoreInv' /\ BoundAsAccepted' /\ AnsweredTurnGoesOn'
    BY <1>1, <1>2 DEF SInv, sidecarVars, StoreInv, BoundAsAccepted, AnsweredTurnGoesOn
  <1>5. RecoveredSafely'
    BY <1>1, <1>2 DEF SInv, StoreInv, sidecarVars, RecoveredSafely, ledgerVars, SeenEmpty
  <1> QED  BY <1>2, <1>3, <1>4, <1>5, GivesUp DEF Steps, StoresOK

-----------------------------------------------------------------------------
(* create_and_bind.                                                         *)

LEMMA CreateNewKeeps ==
    ASSUME SInv, NEW q \in Request, CreateNew(q)
    PROVE  Steps(q)
  <1> DEFINE r == request[q].run
             x == [request[q] EXCEPT !.step = "bind", !.fresh = TRUE]
  <1>1. /\ r \in Run /\ request[q].step = "create" /\ status[r] = "none"
        /\ (r[2] # 0) => /\ Original(r) \in recoverable /\ SeenEmpty(Original(r))
                         /\ message[Original(r)[1]] = "linked"
    BY DEF CreateNew, At, SInv, RequestOK, Service!Accept, Shared
  <1>2. /\ status' = [status EXCEPT ![r] = "accepted"] /\ pending' = pending \cup {r}
        /\ accepted' = With(accepted, r, request[q].digest) /\ Goes(q, x)
        /\ UNCHANGED <<active, up, recoverable, begun, binding, message, event, ledgerVars, answered>>
    BY DEF CreateNew, Service!Accept, storeVars
  <1>3. DOMAIN x = Fields /\ x.step = "bind" /\ x.run = r /\ x.digest = request[q].digest
    BY DEF SInv, RequestShape, Fields
  <1> HIDE DEF r, x
  <1>4. OneMoves(q) /\ request'[q] = x
    BY <1>2, <1>3, GoesIs DEF SInv
  <1>5. DOMAIN status = Run /\ DOMAIN accepted = {s \in Run : status[s] # "none"}
    BY DEF SInv, StoreInv
  <1>6. /\ r \notin DOMAIN accepted /\ DOMAIN accepted' = DOMAIN accepted \cup {r}
        /\ accepted'[r] = request[q].digest
        /\ \A s \in DOMAIN accepted : accepted'[s] = accepted[s]
    <2>1. r \notin DOMAIN accepted
      BY <1>1, <1>5 DEF r
    <2>2. accepted' = With(accepted, r, request[q].digest)
      BY <1>2
    <2> DEFINE d == request[q].digest
    <2> HIDE DEF d
    <2>3. /\ DOMAIN With(accepted, r, d) = DOMAIN accepted \cup {r}
          /\ With(accepted, r, d)[r] = d
          /\ \A s \in DOMAIN accepted : s # r => With(accepted, r, d)[s] = accepted[s]
      BY DEF With
    <2> QED  BY <2>1, <2>2, <2>3 DEF d
  <1>7. r \notin DOMAIN binding /\ r \notin active /\ r \notin recoverable
        /\ \A s \in DOMAIN binding : s \in DOMAIN accepted /\ binding[s] = accepted[s]
    BY <1>1, <1>6 DEF SInv, StoreInv, BoundAsAccepted
  <1>8. status'[r] = "accepted" /\ \A s \in Run : s # r => status'[s] = status[s]
    BY <1>1, <1>2, <1>5
  <1>9. \A s \in DOMAIN binding : s # r /\ s \in Run /\ status'[s] = status[s]
    BY <1>5, <1>7, <1>8
  <1>10. Grows
    BY <1>2, <1>6, <1>9 DEF Grows, Goes_on, ledgerVars, SeenEmpty
  <1>11. StoreInv'
    <2>1. DOMAIN status' = Run /\ DOMAIN accepted' = {s \in Run : status'[s] # "none"}
      BY <1>1, <1>2, <1>5, <1>6, <1>8
    <2>2. \A s \in active : s \in DOMAIN binding
      BY DEF SInv, BoundAsAccepted
    <2> QED  BY <1>2, <1>7, <1>8, <1>9, <2>1, <2>2 DEF SInv, StoreInv
  <1>12. BoundAsAccepted'
    BY <1>2, <1>6, <1>7, <1>8 DEF SInv, BoundAsAccepted
  <1>13. AnsweredTurnGoesOn'
    BY <1>2, <1>9 DEF SInv, AnsweredTurnGoesOn
  <1>14. RecoveredSafely'
    BY <1>2, <1>8, <1>9 DEF SInv, RecoveredSafely, ledgerVars, SeenEmpty
  <1>15. RequestOK(request[q])'
    BY <1>1, <1>2, <1>3, <1>4, <1>6
    DEF RequestOK, Turning, Reviewing, Shared, ledgerVars, SeenEmpty
  <1> QED  BY <1>4, <1>10, <1>11, <1>12, <1>13, <1>14, <1>15 DEF Steps, StoresOK

LEMMA CreateKnownKeeps ==
    ASSUME SInv, NEW q \in Request, CreateKnown(q)
    PROVE  Steps(q)
  <1>1. StoresStay /\ request[q].step = "create" /\ request[q].run \in DOMAIN accepted
    BY DEF CreateKnown, StoresStay, storeVars, At
  <1>2. CASE SameRequest(q)
    <2> DEFINE x == [request[q] EXCEPT !.step = "bind",
                                       !.fresh = (status[request[q].run] = "accepted")]
    <2>1. /\ DOMAIN x = Fields /\ x.step = "bind" /\ x.run = request[q].run
          /\ x.digest = request[q].digest
      BY DEF SInv, RequestShape, Fields
    <2>2. Goes(q, x)
      BY <1>2 DEF CreateKnown
    <2> HIDE DEF x
    <2>3. OneMoves(q) /\ request'[q] = x
      BY <2>1, <2>2, GoesIs DEF SInv
    <2>4. RequestOK(request[q])
      BY DEF SInv
    <2>5. RequestOK(request[q])'
      BY <1>1, <1>2, <2>1, <2>3, <2>4
         DEF RequestOK, Turning, Reviewing, Shared, StoresStay, sidecarVars, SameRequest, ledgerVars,
             SeenEmpty
    <2> QED  BY <1>1, <2>3, <2>5, ReadingKeeps DEF Steps
  <1>3. CASE ~SameRequest(q)
    BY <1>1, <1>3, FailsIs, ReadingKeeps DEF CreateKnown, Steps
  <1> QED  BY <1>2, <1>3

LEMMA BindKeeps ==
    ASSUME SInv, NEW q \in Request, Bind(q)
    PROVE  Steps(q)
  <1> DEFINE r == request[q].run
             d == request[q].digest
  <1>1. /\ request[q].step = "bind"
        /\ UNCHANGED <<sidecarVars, message, event, ledgerVars, answered>>
    BY DEF Bind, At
  <1>2. CASE Goes(q, Idle) /\ UNCHANGED binding
    <2>1. StoresStay
      BY <1>1, <1>2 DEF StoresStay
    <2> QED  BY <1>2, <2>1, GivesUp, ReadingKeeps DEF Steps
  <1>3. CASE To(q, "activate") /\ binding' = With(binding, r, d)
                /\ ~(r \in DOMAIN binding /\ binding[r] # d)
    <2>1. /\ r \in Run /\ r \in DOMAIN accepted /\ accepted[r] = d
          /\ (r[2] # 0) => /\ Original(r) \in recoverable /\ SeenEmpty(Original(r))
                           /\ message[Original(r)[1]] = "linked"
      BY <1>1 DEF SInv, RequestOK, Shared
    <2>2. OneMoves(q) /\ request'[q].step = "activate" /\ request'[q].run = r
      BY <1>3, ToIs DEF SInv
    <2> HIDE DEF r, d
    <2>3. /\ DOMAIN binding' = DOMAIN binding \cup {r} /\ binding'[r] = d
          /\ \A s \in DOMAIN binding : s # r => binding'[s] = binding[s]
      BY <1>3 DEF With
    <2>4. Grows
      BY <1>1, <2>3 DEF sidecarVars, Grows, Goes_on, ledgerVars, SeenEmpty
    <2>5. StoreInv'
      BY <1>1 DEF SInv, sidecarVars, StoreInv
    <2>6. BoundAsAccepted'
      BY <1>1, <2>1, <2>3 DEF SInv, sidecarVars, BoundAsAccepted
    <2>7. AnsweredTurnGoesOn' /\ RecoveredSafely'
      BY <1>1, <2>3 DEF SInv, sidecarVars, AnsweredTurnGoesOn, RecoveredSafely, ledgerVars, SeenEmpty
    <2>8. RequestOK(request[q])'
      BY <1>1, <2>1, <2>2, <2>3
         DEF sidecarVars, RequestOK, Turning, Reviewing, Shared, ledgerVars, SeenEmpty
    <2> QED  BY <2>2, <2>4, <2>5, <2>6, <2>7, <2>8 DEF Steps, StoresOK
  <1> QED  BY <1>2, <1>3 DEF Bind

LEMMA ActivateKeeps ==
    ASSUME SInv, NEW q \in Request, Activate(q)
    PROVE  Steps(q)
  <1> DEFINE r == request[q].run
  <1>1. /\ request[q].step = "activate" /\ up
        /\ UNCHANGED <<status, pending, up, recoverable, begun, accepted, storeVars, answered>>
    BY DEF Activate, At
  <1>2. CASE Fails(q, "refused") /\ UNCHANGED active
    <2>1. StoresStay
      BY <1>1, <1>2 DEF StoresStay, sidecarVars, storeVars
    <2> QED  BY <1>1, <1>2, <2>1, FailsIs, ReadingKeeps DEF Steps
  <1>3. CASE /\ ~(Starts(q) /\ r \notin pending)
             /\ active' = IF Starts(q) THEN active \cup {r} ELSE active
             /\ To(q, "conclude")
    <2>1. /\ r \in Run /\ r \in DOMAIN binding
          /\ (r[2] # 0) => /\ Original(r) \in recoverable /\ SeenEmpty(Original(r))
                           /\ message[Original(r)[1]] = "linked"
      BY <1>1 DEF SInv, RequestOK, Shared
    <2>2. OneMoves(q) /\ request'[q].step = "conclude" /\ request'[q].run = r
      BY <1>3, ToIs DEF SInv
    <2>3. Starts(q) <=> (status[r] = "accepted" /\ r \notin active)
      BY DEF Starts
    <2> HIDE DEF r
    <2>4. /\ active \subseteq active' /\ active' \subseteq active \cup {r}
          /\ (r \in active' /\ r \notin active) => r \in pending
      BY <1>3, <2>3
    <2>5. Grows
      BY <1>1, <2>4 DEF storeVars, Grows, Goes_on, ledgerVars, SeenEmpty
    <2>6. StoreInv'
      BY <1>1, <2>4 DEF SInv, storeVars, StoreInv
    <2>7. BoundAsAccepted'
      BY <1>1, <2>1, <2>4 DEF SInv, storeVars, BoundAsAccepted
    <2>8. AnsweredTurnGoesOn' /\ RecoveredSafely'
      BY <1>1, <2>4 DEF SInv, storeVars, AnsweredTurnGoesOn, RecoveredSafely, ledgerVars, SeenEmpty
    <2>9. status[r] = "accepted" => r \in active' \cap pending
      BY <1>1, <1>3, <2>3, <2>4 DEF SInv, StoreInv
    <2>10. RequestOK(request[q])'
      BY <1>1, <2>1, <2>2, <2>9
         DEF storeVars, RequestOK, Turning, Reviewing, Shared, Goes_on, ledgerVars, SeenEmpty
    <2> QED  BY <2>2, <2>5, <2>6, <2>7, <2>8, <2>10 DEF Steps, StoresOK
  <1> QED  BY <1>2, <1>3 DEF Activate

-----------------------------------------------------------------------------
(* The end of a request.                                                    *)

LEMMA UnreachableKeeps ==
    ASSUME SInv, NEW q \in Request, Unreachable(q)
    PROVE  Steps(q)
  <1>1. StoresStay /\ request[q].step # "idle" /\ Fails(q, "unreachable")
    BY DEF Unreachable, StoresStay, storeVars, At
  <1> QED  BY <1>1, FailsIs, ReadingKeeps DEF Steps

LEMMA QuittingKeeps ==
    ASSUME SInv, NEW q \in Request, CloseSwitch(q) \/ Drop(q)
    PROVE  Steps(q)
  <1>1. StoresStay /\ Goes(q, Idle)
    BY DEF CloseSwitch, Drop, StoresStay, storeVars
  <1> QED  BY <1>1, GivesUp, ReadingKeeps DEF Steps

LEMMA ConcludeTurnKeeps ==
    ASSUME SInv, NEW q \in Request, ConcludeTurn(q)
    PROVE  Steps(q)
  <1> DEFINE r == request[q].run
             i == r[1]
  <1>1. /\ request[q].step = "conclude" /\ r[2] = 0 /\ Goes(q, Idle)
        /\ UNCHANGED <<sidecarVars, binding, event, ledgerVars>>
    BY DEF ConcludeTurn, At
  <1>2. r \in Run /\ r \in DOMAIN binding /\ Goes_on(r)
    BY <1>1 DEF SInv, RequestOK
  <1>3. i \in Input /\ Turn(i) = r
    BY <1>1, <1>2, RunsAre
  <1>4. CASE UNCHANGED <<message, answered>>
    <2>1. StoresStay
      BY <1>1, <1>4 DEF StoresStay
    <2> QED  BY <1>1, <2>1, GivesUp, ReadingKeeps DEF Steps
  <1>5. CASE /\ message' = [message EXCEPT ![i] = "linked"]
             /\ answered' \in {answered, answered \cup {i}}
    <2> HIDE DEF r, i
    <2>1. DOMAIN message = Input /\ answered \subseteq Input
      BY DEF SInv, StoreInv
    <2>2. \A j \in Input : (message[j] = "linked" \/ j = i) => message'[j] = "linked"
      BY <1>5, <2>1
    <2>3. Grows
      BY <1>1, <2>2 DEF sidecarVars, Grows, Goes_on, ledgerVars, SeenEmpty
    <2>4. StoreInv' /\ BoundAsAccepted'
      BY <1>1, <1>3, <1>5 DEF SInv, sidecarVars, StoreInv, BoundAsAccepted
    <2>5. AnsweredTurnGoesOn'
      BY <1>1, <1>2, <1>3, <1>5, <2>1, <2>2 DEF SInv, sidecarVars, AnsweredTurnGoesOn, Goes_on
    <2>6. RecoveredSafely'
      BY <1>1, <2>2, RunsAre DEF SInv, sidecarVars, RecoveredSafely, ledgerVars, SeenEmpty
    <2> QED  BY <1>1, <2>3, <2>4, <2>5, <2>6, GivesUp DEF Steps, StoresOK
  <1> QED  BY <1>4, <1>5 DEF ConcludeTurn

LEMMA ConcludeRecoveryKeeps ==
    ASSUME SInv, NEW q \in Request, ConcludeRecovery(q)
    PROVE  Steps(q)
  <1> DEFINE n == request[q].run
             r == Original(n)
  <1>1. /\ request[q].step = "conclude" /\ n[2] # 0 /\ Goes(q, Idle)
        /\ event' = [event EXCEPT ![r] = IF @ = "pending" THEN "created" ELSE @]
        /\ UNCHANGED <<sidecarVars, binding, message, ledgerVars, answered>>
    BY DEF ConcludeRecovery, At
  <1>2. /\ n \in Run /\ n \in DOMAIN binding /\ r \in recoverable /\ SeenEmpty(r)
        /\ message[r[1]] = "linked"
    BY <1>1 DEF SInv, RequestOK, Shared
  <1>3. Recovery(r) = n /\ status[n] # "none"
    BY <1>1, <1>2, RunsAre DEF SInv, BoundAsAccepted, StoreInv
  <1> HIDE DEF n, r
  <1>4. Grows
    BY <1>1 DEF sidecarVars, Grows, Goes_on, ledgerVars, SeenEmpty
  <1>5. StoreInv' /\ BoundAsAccepted' /\ AnsweredTurnGoesOn'
    BY <1>1 DEF SInv, sidecarVars, StoreInv, BoundAsAccepted, AnsweredTurnGoesOn
  <1>6. RecoveredSafely'
    BY <1>1, <1>2, <1>3 DEF SInv, StoreInv, sidecarVars, RecoveredSafely, ledgerVars, SeenEmpty
  <1> QED  BY <1>1, <1>4, <1>5, <1>6, GivesUp DEF Steps, StoresOK

-----------------------------------------------------------------------------
(* Meanwhile.                                                               *)

Unasked == Grows /\ StoresOK' /\ UNCHANGED request

LEMMA RunBeginsKeeps ==
    ASSUME SInv, NEW r \in Run, RunBegins(r)
    PROVE  Unasked
  <1>1. /\ status[r] = "accepted" /\ status' = [status EXCEPT ![r] = "running"]
        /\ r \in active
        /\ UNCHANGED <<pending, active, up, recoverable, accepted, storeVars, request, answered>>
    BY DEF RunBegins, Service!Begin
  <1>2. DOMAIN status = Run /\ r \in DOMAIN binding /\ r \notin recoverable
    BY <1>1 DEF SInv, StoreInv, BoundAsAccepted
  <1>3. status'[r] = "running" /\ \A s \in Run : s # r => status'[s] = status[s]
    BY <1>1, <1>2
  <1>4. \A s \in DOMAIN binding : s \in Run
    BY DEF SInv, BoundAsAccepted, StoreInv
  <1>5. Grows
    BY <1>1, <1>3, <1>4 DEF storeVars, Grows, Goes_on, ledgerVars, SeenEmpty
  <1>6. StoreInv'
    <2>1. DOMAIN status' = Run /\ \A s \in active : s \in Run
      BY <1>1, <1>2, <1>4 DEF SInv, BoundAsAccepted
    <2> QED  BY <1>1, <1>2, <1>3, <2>1 DEF SInv, storeVars, StoreInv
  <1>7. BoundAsAccepted'
    BY <1>1, <1>2, <1>3 DEF SInv, storeVars, BoundAsAccepted
  <1>8. AnsweredTurnGoesOn'
    BY <1>1, <1>3, <1>4 DEF SInv, storeVars, AnsweredTurnGoesOn
  <1>9. RecoveredSafely'
    BY <1>1, <1>3, <1>4 DEF SInv, storeVars, RecoveredSafely, ledgerVars, SeenEmpty
  <1> QED  BY <1>1, <1>5, <1>6, <1>7, <1>8, <1>9 DEF Unasked, StoresOK

\* A run that ends one way or another, and whose task may go.
LEMMA EndingKeeps ==
    ASSUME SInv, NEW r \in Run, status[r] \in {"accepted", "running", "suspended"},
           NEW v \in {"completed", "failed", "suspended", "cancelled"},
           v # "cancelled" => status[r] = "running",
           status' = [status EXCEPT ![r] = v],
           pending' \subseteq pending, pending \subseteq pending' \cup {r},
           active' = active,
           recoverable' \in {recoverable, recoverable \cup {r}},
           recoverable' # recoverable => v = "failed",
           UNCHANGED <<up, accepted, storeVars, request, answered>>
    PROVE  Unasked
  <1>2. DOMAIN status = Run /\ r \notin recoverable
    BY DEF SInv, StoreInv
  <1>3. status'[r] = v /\ \A s \in Run : s # r => status'[s] = status[s]
    BY <1>2
  <1>4. \A s \in DOMAIN binding : s \in Run
    BY DEF SInv, BoundAsAccepted, StoreInv
  <1>5. Grows
    BY <1>3, <1>4 DEF storeVars, Grows, Goes_on, ledgerVars, SeenEmpty
  <1>6. StoreInv'
    <2>1. DOMAIN status' = Run /\ \A s \in active : s \in Run
      BY <1>2, <1>4 DEF SInv, BoundAsAccepted
    <2>2. DOMAIN accepted' = {s \in Run : status'[s] # "none"}
      BY <1>3 DEF SInv, StoreInv
    <2> QED  BY <1>2, <1>3, <2>1, <2>2 DEF SInv, storeVars, StoreInv
  <1>7. BoundAsAccepted'
    <2>1. v \in {"completed", "suspended"} => r \in DOMAIN binding
      BY DEF SInv, BoundAsAccepted
    <2> QED  BY <1>3, <2>1 DEF SInv, storeVars, BoundAsAccepted
  <1>8. AnsweredTurnGoesOn'
    BY <1>3, <1>4 DEF SInv, storeVars, AnsweredTurnGoesOn
  <1>9. RecoveredSafely'
    BY <1>3, <1>4 DEF SInv, storeVars, RecoveredSafely, ledgerVars, SeenEmpty
  <1> QED  BY <1>5, <1>6, <1>7, <1>8, <1>9 DEF Unasked, StoresOK

LEMMA RunFinishesKeeps ==
    ASSUME SInv, NEW r \in Run, RunFinishes(r)
    PROVE  Unasked
  <1>1. CASE Service!Finish(r)
    <2>1. PICK v \in {"completed", "failed", "suspended"} : status' = [status EXCEPT ![r] = v]
      BY <1>1 DEF Service!Finish
    <2>2. status[r] = "running" /\ pending' = pending /\ active' = active
          /\ UNCHANGED <<up, accepted, storeVars, request, answered>>
      BY <1>1 DEF RunFinishes, Service!Finish
    <2>3. /\ recoverable' \in {recoverable, recoverable \cup {r}}
          /\ recoverable' # recoverable => v = "failed"
      <3>1. status'[r] = v
        BY <2>1 DEF SInv, StoreInv
      <3> QED  BY <3>1 DEF RunFinishes
    <2> QED  BY <2>1, <2>2, <2>3, EndingKeeps
  <1>2. CASE Service!Forget(r)
    <2>1. /\ status[r] # "accepted" /\ pending' = pending \ {r} /\ status' = status
          /\ active' \subseteq active /\ active \subseteq active' \cup {r}
          /\ UNCHANGED <<up, recoverable, accepted, storeVars, request, answered>>
      BY <1>2 DEF RunFinishes, Service!Forget
    <2>2. Grows
      BY <2>1 DEF storeVars, Grows, Goes_on, ledgerVars, SeenEmpty
    <2>3. StoreInv' /\ BoundAsAccepted'
      BY <2>1 DEF SInv, storeVars, StoreInv, BoundAsAccepted
    <2>4. AnsweredTurnGoesOn' /\ RecoveredSafely'
      BY <2>1 DEF SInv, storeVars, AnsweredTurnGoesOn, RecoveredSafely, ledgerVars, SeenEmpty
    <2> QED  BY <2>1, <2>2, <2>3, <2>4 DEF Unasked, StoresOK
  <1> QED  BY <1>1, <1>2 DEF RunFinishes

LEMMA CancelKeeps ==
    ASSUME SInv, NEW r \in Run, CancelRun(r)
    PROVE  Unasked
  <1>1. /\ status[r] \in {"accepted", "running", "suspended"}
        /\ status' = [status EXCEPT ![r] = "cancelled"] /\ pending' = pending \ {r}
        /\ active' = active /\ UNCHANGED <<up, recoverable, accepted, storeVars, request, answered>>
    BY DEF CancelRun, Service!Cancel, Service!Unfinished
  <1>2. pending' \subseteq pending /\ pending \subseteq pending' \cup {r}
    BY <1>1
  <1> QED  BY <1>1, <1>2, EndingKeeps

LEMMA CallToolKeeps ==
    ASSUME SInv, NEW r \in Run, CallTool(r)
    PROVE  Unasked
  <1>1. /\ called' = called \cup {r} /\ looked' = looked
        /\ late' = IF r \in looked THEN late \cup {r} ELSE late
        /\ UNCHANGED <<sidecarVars, binding, message, event, request, answered>>
    BY DEF CallTool
  <1>2. \A o \in looked : SeenEmpty(o) => SeenEmpty(o)'
    BY <1>1 DEF SeenEmpty
  <1>3. Grows
    BY <1>1, <1>2 DEF sidecarVars, Grows, Goes_on
  <1>4. StoreInv' /\ BoundAsAccepted' /\ AnsweredTurnGoesOn'
    BY <1>1 DEF SInv, sidecarVars, StoreInv, BoundAsAccepted, AnsweredTurnGoesOn
  <1>5. RecoveredSafely'
    BY <1>1, <1>2 DEF SInv, sidecarVars, RecoveredSafely, SeenEmpty
  <1> QED  BY <1>1, <1>3, <1>4, <1>5 DEF Unasked, StoresOK

LEMMA SidecarStopsKeeps ==
    ASSUME SInv, SidecarStops
    PROVE  Unasked
  <1>1. PICK S \in SUBSET {r \in Run : status[r] \in {"running", "suspended"}} :
            status' = [r \in Run |-> IF r \in S THEN "cancelled" ELSE status[r]]
    BY DEF SidecarStops, Service!Stop, Service!Unfinished
  <1>2. /\ up' = FALSE /\ active' = {}
        /\ UNCHANGED <<recoverable, accepted, storeVars, request, answered>>
    BY DEF SidecarStops
  <1>3. Grows
    BY <1>2 DEF storeVars, Grows, Goes_on, ledgerVars, SeenEmpty
  <1>4. \A r \in Run : r \in S => status[r] \in {"running", "suspended"}
    BY <1>1
  <1>5. StoreInv'
    <2>1. DOMAIN accepted' = {r \in Run : status'[r] # "none"}
      BY <1>1, <1>2, <1>4 DEF SInv, StoreInv
    <2> QED  BY <1>1, <1>2, <1>4, <2>1 DEF SInv, storeVars, StoreInv
  <1>6. BoundAsAccepted'
    BY <1>1, <1>2, <1>4 DEF SInv, storeVars, BoundAsAccepted
  <1>7. AnsweredTurnGoesOn' /\ RecoveredSafely'
    <2>1. \A r \in Run : Recovery(r) \in DOMAIN binding => Recovery(r) \in Run
      BY DEF SInv, BoundAsAccepted, StoreInv
    <2> QED  BY <1>1, <1>2, <1>4, <2>1
             DEF SInv, storeVars, AnsweredTurnGoesOn, RecoveredSafely, ledgerVars, SeenEmpty
  <1> QED  BY <1>2, <1>3, <1>5, <1>6, <1>7 DEF Unasked, StoresOK

LEMMA SidecarStartsKeeps ==
    ASSUME SInv, SidecarStarts
    PROVE  Unasked
  <1> DEFINE open == {"accepted", "running", "suspended"}
  <1>1. /\ pending' = pending /\ recoverable' = recoverable \cup {r \in Run : status[r] \in open}
        /\ status' = [r \in Run |-> IF status[r] \in open THEN "failed" ELSE status[r]]
        /\ UNCHANGED <<active, accepted, storeVars, request, answered>>
    BY DEF SidecarStarts, Service!Reconcile, Service!Left, Service!Unfinished
  <1>2. \A r \in Run : status'[r] # "accepted"
    BY <1>1
  <1>3. \A r \in DOMAIN binding : r \in Run
    BY DEF SInv, BoundAsAccepted, StoreInv
  <1>4. Grows
    BY <1>1, <1>2, <1>3 DEF storeVars, Grows, Goes_on, ledgerVars, SeenEmpty
  <1>5. StoreInv'
    <2>1. DOMAIN accepted' = {r \in Run : status'[r] # "none"}
      BY <1>1 DEF SInv, StoreInv
    <2>2. \A r \in active : r \in Run
      BY <1>3 DEF SInv, BoundAsAccepted
    <2> QED  BY <1>1, <1>2, <2>1, <2>2 DEF SInv, storeVars, StoreInv
  <1>6. BoundAsAccepted'
    BY <1>1 DEF SInv, storeVars, BoundAsAccepted
  <1>7. AnsweredTurnGoesOn'
    BY <1>1, <1>2, <1>3 DEF SInv, storeVars, AnsweredTurnGoesOn
  <1>8. RecoveredSafely'
    BY <1>1, <1>3 DEF SInv, storeVars, RecoveredSafely, ledgerVars, SeenEmpty
  <1> QED  BY <1>1, <1>4, <1>5, <1>6, <1>7, <1>8 DEF Unasked, StoresOK

-----------------------------------------------------------------------------
(* The invariant.                                                           *)

LEMMA SInvInit == StartInit => SInv
  <1> SUFFICES ASSUME StartInit PROVE SInv
    OBVIOUS
  <1>1. RequestShape /\ \A q \in Request : RequestOK(request[q])
    BY DEF StartInit, RequestShape, Idle, Fields, RequestOK, Turning, Reviewing, Shared
  <1>2. StoreInv
    BY DEF StartInit, Service!SInit, StoreInv
  <1>3. BoundAsAccepted
    BY DEF StartInit, Service!SInit, BoundAsAccepted
  <1>4. AnsweredTurnGoesOn /\ RecoveredSafely
    BY DEF StartInit, AnsweredTurnGoesOn, RecoveredSafely
  <1> QED  BY <1>1, <1>2, <1>3, <1>4 DEF SInv

LEMMA SInvStep == SInv /\ [StartNext]_startVars => SInv'
  <1> SUFFICES ASSUME SInv, [StartNext]_startVars PROVE SInv'
    OBVIOUS
  <1>1. ASSUME NEW q \in Request, TurnSteps(q) PROVE SInv'
    <2>1. Steps(q)
      BY <1>1, BeginTurnKeeps, AddMaterialsKeeps, StoreMessageKeeps, BuildContextKeeps,
         ConcludeTurnKeeps, QuittingKeeps DEF TurnSteps
    <2> QED  BY <2>1, StepKeeps
  <1>2. ASSUME NEW q \in Request, RecoverySteps(q) PROVE SInv'
    <2>1. Steps(q)
      BY <1>2, BeginRecoveryKeeps, CheckLedgerKeeps, FindSourceKeeps, MarkManualReviewKeeps,
         ConcludeRecoveryKeeps DEF RecoverySteps
    <2> QED  BY <2>1, StepKeeps
  <1>3. ASSUME NEW q \in Request, SharedSteps(q) PROVE SInv'
    <2>1. Steps(q)
      BY <1>3, CreateNewKeeps, CreateKnownKeeps, BindKeeps, ActivateKeeps, UnreachableKeeps,
         QuittingKeeps DEF SharedSteps
    <2> QED  BY <2>1, StepKeeps
  <1>4. ASSUME Unasked PROVE SInv'
    BY <1>4, StutterKeeps DEF Unasked
  <1>5. ASSUME NEW r \in Run, RunBegins(r) \/ RunFinishes(r) \/ CancelRun(r) \/ CallTool(r)
        PROVE  SInv'
    BY <1>4, <1>5, RunBeginsKeeps, RunFinishesKeeps, CancelKeeps, CallToolKeeps
  <1>6. ASSUME SidecarStops \/ SidecarStarts PROVE SInv'
    BY <1>4, <1>6, SidecarStopsKeeps, SidecarStartsKeeps
  <1>7. ASSUME StoresStay, UNCHANGED request PROVE SInv'
    BY <1>7, ReadingKeeps, StutterKeeps
  <1>8. ASSUME OpenSwitch \/ WorkspaceMoves \/ (\E r \in Run : Reply(r)) \/ UNCHANGED startVars
        PROVE  SInv'
    BY <1>7, <1>8 DEF OpenSwitch, WorkspaceMoves, Reply, startVars, StoresStay, storeVars
  <1> QED  BY <1>1, <1>2, <1>3, <1>5, <1>6, <1>8 DEF StartNext

\* The invariant: what each request may rely on, and what the stores promise.
THEOREM SInvHolds == StartSpec => []SInv
  BY SInvInit, SInvStep, PTL DEF StartSpec

\* However often a turn or a recovery is repeated, recoverable or dropped, the Gateway
\* binds a run with the digest the Sidecar took it with, and before it acts.
THEOREM BoundAsAcceptedHolds == StartSpec => []BoundAsAccepted
  <1>1. SInv => BoundAsAccepted
    BY DEF SInv
  <1> QED  BY <1>1, SInvHolds, PTL

\* An answer that the browser has seen names a run that nobody has to activate.
THEOREM AnsweredTurnGoesOnHolds == StartSpec => []AnsweredTurnGoesOn
  <1>1. SInv => AnsweredTurnGoesOn
    BY DEF SInv
  <1> QED  BY <1>1, SInvHolds, PTL

\* No recovery, and no recovery of a recovery, repeats a run with a Tool call in
\* the ledger when the recovery looked there, whether a restart had closed the
\* run or it ended so, and whatever requests of it were still on their way.
THEOREM RecoveredSafelyHolds == StartSpec => []RecoveredSafely
  <1>1. SInv => RecoveredSafely
    BY DEF SInv
  <1> QED  BY <1>1, SInvHolds, PTL

-----------------------------------------------------------------------------
(* The switch.                                                              *)

\* Only BeginTurn takes a revision of the switch, anew.
SeenStays == \A p \in Request : request'[p].seen \in {request[p].seen, 0}

LEMMA GoesSeen ==
    ASSUME RequestShape, NEW q \in Request, NEW x, DOMAIN x = Fields,
           x.seen \in {request[q].seen, 0}, Goes(q, x)
    PROVE  SeenStays
  BY GoesIs DEF OneMoves, SeenStays

LEMMA ToSeen ==
    ASSUME RequestShape, NEW q \in Request, NEW s, To(q, s)
    PROVE  SeenStays
  BY ToIs DEF OneMoves, SeenStays

LEMMA FailsSeen ==
    ASSUME RequestShape, NEW q \in Request, NEW why, Fails(q, why)
    PROVE  SeenStays
  BY GoesSeen, ToSeen, IdleIs DEF Fails

LEMMA TurnSeen ==
    ASSUME RequestShape, NEW q \in Request,
           AddMaterials(q) \/ StoreMessage(q) \/ BuildContext(q) \/ ConcludeTurn(q)
    PROVE  SeenStays /\ UNCHANGED switchVars
  <1>1. CASE AddMaterials(q)
    <2>1. ASSUME NEW n, Goes(q, [request[q] EXCEPT !.step = "patched", !.rev = n]) PROVE SeenStays
      <3> DEFINE x == [request[q] EXCEPT !.step = "patched", !.rev = n]
      <3>1. DOMAIN x = Fields /\ x.seen = request[q].seen
        BY DEF RequestShape, Fields
      <3> HIDE DEF x
      <3> QED  BY <2>1, <3>1, GoesSeen DEF x
    <2> QED  BY <1>1, <2>1, GoesSeen, IdleIs DEF AddMaterials
  <1>2. CASE StoreMessage(q)
    BY <1>2, ToSeen DEF StoreMessage
  <1>3. CASE BuildContext(q)
    <2> DEFINE x == [request[q] EXCEPT !.step = "create", !.rev = 0,
                                       !.digest = <<request[q].rev, Talk>>]
    <2>1. DOMAIN x = Fields /\ x.seen = request[q].seen
      BY DEF RequestShape, Fields
    <2>2. Goes(q, x) /\ UNCHANGED switchVars
      BY <1>3 DEF BuildContext
    <2> HIDE DEF x
    <2> QED  BY <2>1, <2>2, GoesSeen
  <1>4. CASE ConcludeTurn(q)
    BY <1>4, GoesSeen, IdleIs DEF ConcludeTurn
  <1> QED  BY <1>1, <1>2, <1>3, <1>4

LEMMA RecoverySeen ==
    ASSUME RequestShape, NEW q \in Request, RecoverySteps(q)
    PROVE  SeenStays /\ UNCHANGED switchVars
  <1>1. ASSUME NEW r \in Run, BeginRecovery(q, r) PROVE SeenStays /\ UNCHANGED switchVars
    <2> DEFINE x == [Idle EXCEPT !.step = "ledger", !.run = Recovery(r)]
    <2>1. DOMAIN x = Fields /\ x.seen = 0
      BY DEF Idle, Fields
    <2>2. Goes(q, x) /\ UNCHANGED switchVars
      BY <1>1 DEF BeginRecovery
    <2> HIDE DEF x
    <2> QED  BY <2>1, <2>2, GoesSeen
  <1>2. CASE CheckLedger(q)
    BY <1>2, ToSeen DEF CheckLedger
  <1>3. CASE FindSource(q)
    <2> DEFINE x == [request[q] EXCEPT !.step = "create", !.digest = <<workspace>>]
    <2>1. DOMAIN x = Fields /\ x.seen = request[q].seen
      BY DEF RequestShape, Fields
    <2>2. (Goes(q, x) \/ To(q, "doubt")) /\ UNCHANGED switchVars
      BY <1>3 DEF FindSource
    <2> HIDE DEF x
    <2> QED  BY <2>1, <2>2, GoesSeen, ToSeen
  <1>4. CASE MarkManualReview(q) \/ ConcludeRecovery(q)
    BY <1>4, GoesSeen, IdleIs DEF MarkManualReview, ConcludeRecovery
  <1> QED  BY <1>1, <1>2, <1>3, <1>4 DEF RecoverySteps

LEMMA SharedSeen ==
    ASSUME RequestShape, NEW q \in Request, SharedSteps(q)
    PROVE  SeenStays /\ UNCHANGED switchVars
  <1>1. ASSUME NEW f, Goes(q, [request[q] EXCEPT !.step = "bind", !.fresh = f]) PROVE SeenStays
    <2> DEFINE x == [request[q] EXCEPT !.step = "bind", !.fresh = f]
    <2>1. DOMAIN x = Fields /\ x.seen = request[q].seen
      BY DEF RequestShape, Fields
    <2>2. Goes(q, x)
      BY <1>1
    <2> HIDE DEF x
    <2> QED  BY <2>1, <2>2, GoesSeen
  <1>2. CASE CreateNew(q)
    BY <1>1, <1>2 DEF CreateNew
  <1>3. CASE CreateKnown(q)
    BY <1>1, <1>3, FailsSeen DEF CreateKnown
  <1>4. CASE Bind(q)
    BY <1>4, GoesSeen, ToSeen, IdleIs DEF Bind
  <1>5. CASE Activate(q)
    BY <1>5, FailsSeen, ToSeen DEF Activate
  <1>6. CASE Unreachable(q)
    BY <1>6, FailsSeen DEF Unreachable
  <1>7. CASE Drop(q)
    BY <1>7, GoesSeen, IdleIs DEF Drop
  <1> QED  BY <1>2, <1>3, <1>4, <1>5, <1>6, <1>7 DEF SharedSteps

LEMMA SwitchInvInit == StartInit => SwitchInv
  BY DEF StartInit, SwitchInv, Idle

LEMMA SwitchStep ==
    ASSUME SInv, SwitchInv, [StartNext]_startVars
    PROVE  /\ SwitchInv'
           /\ (switch.open /\ ~switch'.open) =>
                 \E q \in Request \ veterans : ~At(q, "idle") /\ request'[q] = Idle
  <1> DEFINE Goal == /\ SwitchInv'
                     /\ (switch.open /\ ~switch'.open) =>
                           \E q \in Request \ veterans : ~At(q, "idle") /\ request'[q] = Idle
  <1>0. RequestShape
    BY DEF SInv
  <1>1. ASSUME SeenStays, UNCHANGED switchVars PROVE Goal
    BY <1>1 DEF SwitchInv, SeenStays, switchVars
  <1>2. ASSUME NEW q \in Request, NEW i \in Input, BeginTurn(q, i) PROVE Goal
    <2> DEFINE x == [Idle EXCEPT !.step = "admitted", !.run = Turn(i), !.seen = switch.rev,
                                 !.rev = workspace]
    <2>1. DOMAIN x = Fields /\ x.seen = switch.rev
      BY DEF Idle, Fields
    <2>2. Goes(q, x) /\ veterans' = veterans \ {q} /\ switch' = switch
      BY <1>2 DEF BeginTurn
    <2> HIDE DEF x
    <2>3. OneMoves(q) /\ request'[q].seen = switch.rev
      BY <1>0, <2>1, <2>2, GoesIs
    <2> QED  BY <2>2, <2>3 DEF OneMoves, SwitchInv
  <1>3. ASSUME NEW q \in Request, CloseSwitch(q) PROVE Goal
    <2>1. /\ ~At(q, "idle") /\ Goes(q, Idle) /\ veterans' = veterans
          /\ \/ switch' = switch
             \/ request[q].seen = switch.rev /\ switch' = [open |-> FALSE, rev |-> switch.rev + 1]
      BY <1>3 DEF CloseSwitch, At, StillSeen
    <2>2. OneMoves(q) /\ request'[q] = Idle /\ SeenStays
      BY <1>0, <2>1, GoesIs, GoesSeen, IdleIs
    <2>3. CASE switch' = switch
      BY <1>1, <2>1, <2>2, <2>3 DEF switchVars
    <2>4. CASE request[q].seen = switch.rev /\ switch' = [open |-> FALSE, rev |-> switch.rev + 1]
      <3>1. q \notin veterans
        BY <2>4 DEF SwitchInv
      <3>2. SwitchInv'
        BY <2>1, <2>2, <2>4 DEF SeenStays, SwitchInv
      <3> QED  BY <2>1, <2>2, <3>1, <3>2
    <2> QED  BY <2>1, <2>3, <2>4
  <1>4. CASE OpenSwitch
    <2>1. /\ switch' = [open |-> TRUE, rev |-> switch.rev + 1] /\ request' = request
          /\ veterans' \subseteq Request
      BY <1>4 DEF OpenSwitch
    <2> QED  BY <2>1 DEF SwitchInv
  <1>5. ASSUME request' = request, UNCHANGED switchVars PROVE Goal
    BY <1>1, <1>5 DEF SeenStays
  <1>6. ASSUME NEW r \in Run,
               RunBegins(r) \/ RunFinishes(r) \/ CancelRun(r) \/ CallTool(r) \/ Reply(r)
        PROVE  Goal
    BY <1>5, <1>6 DEF RunBegins, RunFinishes, CancelRun, CallTool, Reply
  <1>7. ASSUME WorkspaceMoves \/ SidecarStops \/ SidecarStarts \/ UNCHANGED startVars PROVE Goal
    BY <1>5, <1>7 DEF WorkspaceMoves, SidecarStops, SidecarStarts, startVars
  <1>8. ASSUME NEW q \in Request, TurnSteps(q) PROVE Goal
    BY <1>0, <1>1, <1>2, <1>3, <1>8, TurnSeen DEF TurnSteps
  <1>9. ASSUME NEW q \in Request, RecoverySteps(q) \/ SharedSteps(q) PROVE Goal
    BY <1>0, <1>1, <1>9, RecoverySeen, SharedSeen
  <1> QED  BY <1>4, <1>6, <1>7, <1>8, <1>9 DEF StartNext

\* An operator, or a Gateway that has verified the release, opens the switch for
\* good against every request that was admitted before: the revision it saw
\* is older, whatever becomes of it.
THEOREM ReopenedStaysHolds == StartSpec => ReopenedStays
  <1>1. SInv /\ SwitchInv /\ [StartNext]_startVars => SwitchInv'
    BY SwitchStep
  <1>2. SInv /\ SwitchInv /\ [StartNext]_startVars =>
          ((switch.open /\ ~switch'.open) =>
              \E q \in Request \ veterans : ~At(q, "idle") /\ request'[q] = Idle)
    BY SwitchStep
  <1> QED  BY <1>1, <1>2, SInvHolds, SwitchInvInit, PTL DEF StartSpec, ReopenedStays
=============================================================================
