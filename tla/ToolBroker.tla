----------------------------- MODULE ToolBroker -----------------------------
(***************************************************************************)
(* The Tool Broker of the Gateway: how a tool call of a run is claimed in  *)
(* the ledger, confirmed, paid for, executed and answered.                 *)
(*                                                                         *)
(* A handler serves one HTTP request of an engine.  It suspends at every   *)
(* transaction, so each action below is the code between two awaits, and   *)
(* handlers of one Gateway, or of several, interleave there.  The tables   *)
(* (ledger, interrupt, workspace) are shared by all; `vault' is the memory *)
(* of the one Gateway that the deployment runs.                            *)
(*                                                                         *)
(* A resume run is identified by what triggered it, as in the code: the    *)
(* Sidecar's run id is a hash of the trigger's type, the interrupt and the *)
(* response.  An interrupt is identified by its call.                      *)
(***************************************************************************)
EXTENDS Integers, Sequences, FiniteSets, Functions

CONSTANTS
    PlainTool,     \* cost "none", no confirmation
    ConfirmTool,   \* cost "none", confirmation required
    CostlyTool,    \* any other cost; the manifest makes all of them confirmed
    MaxCalls,      \* MaxCalls[n]: calls of a run at the end of n resumes (model bound)
    Response,      \* client response ids
    Handler,       \* requests the broker serves at a time (model bound)
    Request,       \* requests of users served at a time (model bound)
    MaxDepth,      \* length of a chain of resume runs (model bound)
    MaxRevision,   \* revisions of the workspace (model bound)
    MaxFaults      \* crashes, lost replies, expiries, ends of runs (model bound)

ASSUME BrokerAssumption ==
    /\ PlainTool \cap ConfirmTool = {}
    /\ PlainTool \cap CostlyTool = {}
    /\ ConfirmTool \cap CostlyTool = {}
    /\ MaxDepth \in Nat
    /\ MaxCalls \in [0 .. MaxDepth -> Nat]
    /\ MaxRevision \in Nat
    /\ MaxFaults \in Nat

VARIABLES
    revision,   \* of the workspace
    ledger,     \* ledger[c]: the row of call c, if there is one: tool, expected
                \*   revision, completed, answer (status and revision)
    interrupt,  \* interrupt[c]: the interrupt of call c, if there is one: kind, tool,
                \*   granted, payload (what the response said, which differs by
                \*   route), response and resumed, of at most one element each
    engine,     \* engine[r]: run r in the Sidecar, if it was created: digest (what
                \*   the creating request said), status, seen (the revision sent
                \*   with its next call)
    vault,      \* vault[o]: the credential of request or run o, told from the
                \*   others of its interrupt by a number
    handler,    \* handler[h]: the call h serves and where it is
    effects,    \* executions of tools (history)
    faults

brokerVars == <<revision, ledger, interrupt, engine, vault, handler, effects, faults>>

Tool == PlainTool \cup ConfirmTool \cup CostlyTool
NeedsConsent == ConfirmTool \cup CostlyTool
Revision == 0 .. MaxRevision

Trigger == {"confirmation_resume", "authorization_resume"}
Route == {"confirm", "respond", "authorize"}

CallId == UNION {1 .. MaxCalls[n] : n \in 0 .. MaxDepth}

\* A run is the chain of interrupts and responses that led to it.
Link == [id : CallId, response : Response, trigger : Trigger]
Run == UNION {[1 .. n -> Link] : n \in 0 .. MaxDepth}
Root == << >>
Call == [run : Run, id : CallId]

Resumed(c, response, trigger) ==
    Append(c.run, [id |-> c.id, response |-> response, trigger |-> trigger])

\* The call whose interrupt triggered step k of run r.
Cause(r, k) == [run |-> SubSeq(r, 1, k - 1), id |-> r[k].id]

\* "pending_operation": completed, with generation jobs to wait for.
Done == {"completed", "pending_operation"}
Suspending == {"pending_operation", "awaiting_confirmation", "authorization_required"}
NoAnswer == [status |-> "failed", revision |-> 0]

Idle == [at |-> "idle"]

With(f, x, y) == [z \in DOMAIN f \cup {x} |-> IF z = x THEN y ELSE f[z]]

BrokerInit ==
    /\ revision = 0
    /\ ledger = << >>
    /\ interrupt = << >>
    /\ engine = With(<< >>, Root, [digest |-> <<0, "respond">>, status |-> "running", seen |-> 0])
    /\ vault = << >>
    /\ handler = [h \in Handler |-> Idle]
    /\ effects = {}
    /\ faults = 0

-----------------------------------------------------------------------------
(* Operators *)

Without(f, x) == Restrict(f, DOMAIN f \ {x})

\* What the engine makes of an answer: a completed call tells it the current
\* revision, a suspending one ends the run.  A rejected or failed one tells it
\* nothing, and a run that has ended hears nothing.
Heard(run, answer) ==
    [run EXCEPT !.seen = IF answer.status \in Done /\ answer.revision >= @ THEN answer.revision ELSE @,
                !.status = IF answer.status \in Suspending THEN "ended" ELSE @]

\* The reply to the engine arrives, or the engine has given up waiting.
Reply(r, answer) ==
    engine' \in {engine, [engine EXCEPT ![r] = Heard(@, answer)]}

\* Mutant: a call that nobody seems to finish is taken over.
ClaimableUntilAnswered(c) == c \in DOMAIN ledger => ~ledger[c].completed

Claimable(c) == c \notin DOMAIN ledger

SameDigest(row, s) == row.tool = s.tool /\ row.expected = s.expected

\* Mutant: whatever tool the interrupt asked for.
GrantedForAnyTool(r, t) == \E c \in DOMAIN interrupt : interrupt[c].resumed = {r}

\* Confirmed for run r: the interrupt that r resumes asked for this tool, and
\* its response has been bound to r.
Granted(r, t) ==
    \E c \in DOMAIN interrupt :
        /\ interrupt[c].resumed = {r}
        /\ interrupt[c].tool = t
        /\ interrupt[c].kind = "awaiting_confirmation" \/ interrupt[c].granted

\* Mutant: the credential is left for the next call.
TakenByReading(r) == vault

\* The credential is removed as it is read.
Taken(r) == Without(vault, r)

Put(h, s) == handler' = [handler EXCEPT ![h] = s]

Go(h, place) == Put(h, [handler[h] EXCEPT !.at = place])

Answered(h, place, status) ==
    Put(h, [handler[h] EXCEPT !.at = place, !.answer.status = status])

-----------------------------------------------------------------------------
(* Actions of the broker *)

\* The engine of a running run calls a tool.  Call ids are the provider's, and
\* nothing keeps it from using one again.
Send(h, c, t) ==
    /\ handler[h] = Idle
    /\ c.run \in DOMAIN engine
    /\ c.id <= MaxCalls[Len(c.run)]
    /\ engine[c.run].status = "running"
    /\ Put(h, [at |-> "claim", call |-> c, tool |-> t, expected |-> engine[c.run].seen,
               credential |-> {}, answer |-> NoAnswer])
    /\ UNCHANGED <<revision, ledger, interrupt, engine, vault, effects, faults>>

\* claim_tool_call: insert the row or read it.  The answer to a call that is
\* executing, or whose digest differs, changes nothing anywhere.
Claim(h) ==
    LET s == handler[h] IN
    /\ s.at = "claim"
    /\ \/ /\ Claimable(s.call)
          /\ ledger' = With(ledger, s.call,
                 [tool |-> s.tool, expected |-> s.expected, completed |-> FALSE, answer |-> NoAnswer])
          /\ Go(h, "check")
          /\ UNCHANGED engine
       \/ /\ ~Claimable(s.call)
          /\ Put(h, Idle)
          /\ IF ledger[s.call].completed /\ SameDigest(ledger[s.call], s)
             THEN Reply(s.call.run, ledger[s.call].answer)
             ELSE UNCHANGED engine
          /\ UNCHANGED ledger
    /\ UNCHANGED <<revision, interrupt, vault, effects, faults>>

CheckConfirmation(h) ==
    LET s == handler[h] IN
    /\ s.at = "check"
    /\ IF s.tool \in NeedsConsent /\ ~Granted(s.call.run, s.tool)
       THEN Answered(h, "interrupt", "awaiting_confirmation")
       ELSE Go(h, "workspace")
    /\ UNCHANGED <<revision, ledger, interrupt, engine, vault, effects, faults>>

LoadWorkspace(h) ==
    LET s == handler[h] IN
    /\ s.at = "workspace"
    /\ IF revision # s.expected
       THEN Answered(h, "complete", "rejected")
       ELSE Go(h, IF s.tool \in CostlyTool THEN "credential" ELSE "execute")
    /\ UNCHANGED <<revision, ledger, interrupt, engine, vault, effects, faults>>

TakeCredential(h) ==
    LET s == handler[h] IN
    /\ s.at = "credential"
    /\ IF s.call.run \in DOMAIN vault
       THEN /\ Put(h, [s EXCEPT !.at = "execute", !.credential = {vault[s.call.run]}])
            /\ vault' = Taken(s.call.run)
       ELSE /\ Answered(h, "interrupt", "authorization_required")
            /\ UNCHANGED vault
    /\ UNCHANGED <<revision, ledger, interrupt, engine, effects, faults>>

\* get_or_create_interrupt.  Only a costly tool that was confirmed comes to be
\* asked for an authorization.
OpenInterrupt(h) ==
    LET s == handler[h]
        row == [kind |-> s.answer.status, tool |-> s.tool,
                granted |-> s.answer.status = "authorization_required",
                payload |-> {}, response |-> {}, resumed |-> {}] IN
    /\ s.at = "interrupt"
    /\ interrupt' = IF s.call \in DOMAIN interrupt THEN interrupt ELSE With(interrupt, s.call, row)
    /\ Go(h, "complete")
    /\ UNCHANGED <<revision, ledger, engine, vault, effects, faults>>

Effect(s) ==
    [call |-> s.call, tool |-> s.tool, credential |-> s.credential,
     n |-> 1 + Cardinality({e \in effects : e.call = s.call})]

\* The executor commits what the tool does, which may write the workspace, or
\* raises before or after that.  A cancelled request is answered "failed" too:
\* nobody hears that, which Complete allows.
Execute(h) ==
    LET s == handler[h] IN
    /\ s.at = "execute"
    /\ \/ /\ effects' = effects \cup {Effect(s)}
          /\ revision' \in {revision, revision + 1} \cap Revision
          /\ Go(h, "observe") \/ Answered(h, "complete", "failed")
       \/ /\ Answered(h, "complete", "failed")
          /\ UNCHANGED <<revision, effects>>
    /\ UNCHANGED <<ledger, interrupt, engine, vault, faults>>

\* The workspace is read again for the answer; an observation the whitelist
\* does not allow is an exception.
Observe(h) ==
    LET s == handler[h] IN
    /\ s.at = "observe"
    /\ \/ \E status \in IF s.tool \in CostlyTool THEN Done ELSE {"completed"} :
              Put(h, [s EXCEPT !.at = "complete",
                               !.answer = [status |-> status, revision |-> revision]])
       \/ Answered(h, "complete", "failed")
    /\ UNCHANGED <<revision, ledger, interrupt, engine, vault, effects, faults>>

\* complete_tool_call: the first answer stays.
Complete(h) ==
    LET s == handler[h]
        answer == IF ledger[s.call].completed THEN ledger[s.call].answer ELSE s.answer IN
    /\ s.at = "complete"
    /\ SameDigest(ledger[s.call], s)
    /\ ledger' = [ledger EXCEPT ![s.call].completed = TRUE, ![s.call].answer = answer]
    /\ Reply(s.call.run, answer)
    /\ Put(h, Idle)
    /\ UNCHANGED <<revision, interrupt, vault, effects, faults>>

BrokerStep(h) ==
    \/ Claim(h)
    \/ CheckConfirmation(h)
    \/ LoadWorkspace(h)
    \/ TakeCredential(h)
    \/ OpenInterrupt(h)
    \/ Execute(h)
    \/ Observe(h)
    \/ Complete(h)
=============================================================================
