--------------------------- MODULE RunProjection ---------------------------
(***************************************************************************)
(* The Gateway's public view of the Sidecar's runs: a projection task      *)
(* streams the log of a run from its start and copies it into the Outbox   *)
(* of the conversation; Snapshot and browser SSE read only the Outbox.     *)
(*                                                                         *)
(* The stream is two loops with the network between them.  The Sidecar's   *)
(* reads a batch of events, sends it (the only place where it suspends,    *)
(* when the reader is slow), and then asks for the status of the run; the  *)
(* Gateway's takes the events one by one, each with commits of its own.    *)
(***************************************************************************)
EXTENDS HarnessRun

CONSTANTS
    Gateway,
    MaxFaults     \* Gateway crashes and network cuts (model bound)

ASSUME ProjectionAssumption == MaxFaults \in Nat /\ "none" \notin Gateway

VARIABLES
    bound,     \* runs with a run binding
    proj,      \* proj[g][r]: the projection task of r on g and its stream
    outbox,    \* outbox[r]: the entries of r in pixelflow_agent_events, by sequence
    message,   \* runs whose final reply is a message of the conversation
    watch,     \* watch[r]: the Gateway the browser's SSE of r is open on
    faults

projVars == <<bound, proj, outbox, message, watch, faults>>
allVars == <<runVars, projVars>>

Stops == VerdictEvent \cup {"suspended"}

\* stream: the Sidecar's side, "send" while a batch is being sent; sent: the
\* events it has sent; done: those the task has finished with.
Task0(stream) == [stream |-> stream, sent |-> 0, done |-> 0]
Off == Task0("off")

PInit ==
    /\ Init
    /\ bound = {}
    /\ proj = [g \in Gateway |-> [r \in Run |-> Off]]
    /\ outbox = [r \in Run |-> <<>>]
    /\ message = {}
    /\ watch = [r \in Run |-> "none"]
    /\ faults = 0

-----------------------------------------------------------------------------
(* The Outbox and what is read from it.                                     *)

Entry(r, i) == [event |-> log[r][i], sequence |-> i]
Published(r, i) == \E k \in DOMAIN outbox[r] : outbox[r][k].sequence = i

StateOf(e) ==
    CASE e \in VerdictEvent -> StatusOf(e)
      [] e = "started" -> "running"
      [] e = "suspended" -> "suspended"
      [] OTHER -> "accepted"

\* snapshot(): the status in the last event of the run, if it has one.
Shown(r) ==
    LET own == outbox[r]
    IN  IF own = <<>> THEN "accepted" ELSE StateOf(own[Len(own)].event)

-----------------------------------------------------------------------------
(* Requests.                                                                *)

\* create_and_bind: the binding of a run that the Sidecar has accepted.
Bind(r) ==
    /\ status[r] # "none"
    /\ r \notin bound
    /\ bound' = bound \cup {r}
    /\ UNCHANGED <<runVars, proj, outbox, message, watch, faults>>

\* A task that goes on where the Outbox ends, or only if nothing is there.
StartedAfterOutbox(g, r) ==
    LET known == Len(outbox[r])
    IN  proj' = IF up /\ proj[g][r] = Off
                THEN [proj EXCEPT ![g][r] = [stream |-> "read", sent |-> known, done |-> known]]
                ELSE proj
StartedOnce(g, r) ==
    proj' = IF up /\ proj[g][r] = Off /\ outbox[r] = <<>>
            THEN [proj EXCEPT ![g][r] = Task0("read")] ELSE proj

\* projector.start: at most one task of a run on a Gateway, which begins at
\* the first event.  A task that finds no Sidecar ends at once.
Started(g, r) ==
    proj' = IF up /\ proj[g][r] = Off THEN [proj EXCEPT ![g][r] = Task0("read")] ELSE proj

\* A Snapshot, a cancel or a recovery request.
EnsureProjection(g, r) ==
    /\ r \in bound
    /\ Started(g, r)
    /\ UNCHANGED <<runVars, bound, outbox, message, watch, faults>>

-----------------------------------------------------------------------------
(* The browser.                                                             *)

\* It opens the SSE of a run it takes to be going on, again after a cut.
OpenWatch(g, r) ==
    /\ r \in bound
    /\ watch[r] = "none"
    /\ Shown(r) \notin Verdict \cup {"suspended"}
    /\ watch' = [watch EXCEPT ![r] = g]
    /\ Started(g, r)
    /\ UNCHANGED <<runVars, bound, outbox, message, faults>>

\* The Gateway ends it at a verdict, the browser at a suspension.
CloseWatch(r) ==
    /\ watch[r] # "none"
    /\ Shown(r) \in Verdict \cup {"suspended"}
    /\ watch' = [watch EXCEPT ![r] = "none"]
    /\ UNCHANGED <<runVars, bound, proj, outbox, message, faults>>

-----------------------------------------------------------------------------
(* The Sidecar's side of a stream.                                          *)

\* stream_events: everything after the cursor; with nothing to send, the
\* status is read before anything else can happen.
ReadBatch(g, r) ==
    /\ Ready
    /\ proj[g][r].stream = "read"
    /\ IF proj[g][r].sent < Len(log[r])
       THEN proj' = [proj EXCEPT ![g][r] = [@ EXCEPT !.sent = Len(log[r]), !.stream = "send"]]
       ELSE /\ status[r] \in Verdict
            /\ proj' = [proj EXCEPT ![g][r].stream = "ended"]
    /\ UNCHANGED <<runVars, bound, outbox, message, watch, faults>>

\* The batch is sent; the events that came meanwhile are not looked for.
CheckStatus(g, r) ==
    /\ Ready
    /\ proj[g][r].stream = "send"
    /\ proj' = [proj EXCEPT ![g][r].stream = IF status[r] \in Verdict THEN "ended" ELSE "read"]
    /\ UNCHANGED <<runVars, bound, outbox, message, watch, faults>>

-----------------------------------------------------------------------------
(* The Gateway's side: _project_until_terminal.                             *)

HasNext(g, r) == proj[g][r].done < proj[g][r].sent
NextEvent(g, r) == proj[g][r].done + 1

\* Without the look for the event's identity.
IsNewAlways(r, i) == TRUE

\* get_event by the identity of the source event.
IsNew(r, i) == ~Published(r, i)

\* _append_source_event.
Publish(g, r) ==
    /\ HasNext(g, r)
    /\ IsNew(r, NextEvent(g, r))
    /\ outbox' = [outbox EXCEPT ![r] = Append(@, Entry(r, NextEvent(g, r)))]
    /\ UNCHANGED <<runVars, bound, proj, message, watch, faults>>

\* A projector that goes on after a cancellation.
EndsAtResult(e) == e \in Stops \ {"cancelled"}

EndsProjection(e) == e \in Stops

\* _append_response_message comes after the event, whoever published it.
Replies(g, r) == log[r][NextEvent(g, r)] = "response"

Pass(g, r) ==
    /\ HasNext(g, r)
    /\ Published(r, NextEvent(g, r))
    /\ message' = IF Replies(g, r) THEN message \cup {r} ELSE message
    /\ proj' = [proj EXCEPT ![g][r] = IF EndsProjection(log[r][NextEvent(g, r)])
                                      THEN Off ELSE [@ EXCEPT !.done = NextEvent(g, r)]]
    /\ UNCHANGED <<runVars, bound, outbox, watch, faults>>

\* The stream has ended and all of it is done: the task returns.
Drained(g, r) ==
    /\ proj[g][r].stream = "ended"
    /\ ~HasNext(g, r)
    /\ proj' = [proj EXCEPT ![g][r] = Off]
    /\ UNCHANGED <<runVars, bound, outbox, message, watch, faults>>

-----------------------------------------------------------------------------
(* Faults.                                                                  *)

\* The stream of a task breaks, and the task with it.
CutStream(g, r) ==
    /\ faults < MaxFaults
    /\ proj[g][r] # Off
    /\ proj' = [proj EXCEPT ![g][r] = Off]
    /\ faults' = faults + 1
    /\ UNCHANGED <<runVars, bound, outbox, message, watch>>

GatewayCrash(g) ==
    /\ faults < MaxFaults
    /\ proj' = [proj EXCEPT ![g] = [r \in Run |-> Off]]
    /\ watch' = [r \in Run |-> IF watch[r] = g THEN "none" ELSE watch[r]]
    /\ faults' = faults + 1
    /\ UNCHANGED <<runVars, bound, outbox, message>>

\* The Sidecar takes its streams with it.
SidecarStop ==
    /\ Crash \/ Shutdown
    /\ proj' = [g \in Gateway |-> [r \in Run |-> Off]]
    /\ UNCHANGED <<bound, outbox, message, watch, faults>>

-----------------------------------------------------------------------------

\* The Gateway activates and cancels only what it has bound.
SidecarStep ==
    /\ \/ \E r \in Run : CreateRun(r) \/ RunStep(r)
       \/ \E r \in bound : ActivateRun(r) \/ CancelRun(r)
       \/ Commit
       \/ Restart
    /\ UNCHANGED projVars

ProjectStep(g, r) ==
    \/ ReadBatch(g, r) \/ CheckStatus(g, r)
    \/ Publish(g, r) \/ Pass(g, r) \/ Drained(g, r)

PNext ==
    \/ SidecarStep
    \/ SidecarStop
    \/ \E r \in Run : Bind(r) \/ CloseWatch(r)
    \/ \E g \in Gateway, r \in Run :
          EnsureProjection(g, r) \/ OpenWatch(g, r) \/ ProjectStep(g, r) \/ CutStream(g, r)
    \/ \E g \in Gateway : GatewayCrash(g)

\* The Sidecar's fairness, both loops of a stream, and a browser that keeps
\* the SSE of its run open.
PFairness ==
    /\ WF_allVars(Commit /\ UNCHANGED projVars)
    /\ WF_allVars(Restart /\ UNCHANGED projVars)
    /\ \A r \in Run :
          /\ WF_allVars((StartIfAccepted(r) \/ EngineReturns(r) \/ CancelDelivered(r)) /\ UNCHANGED projVars)
          /\ WF_allVars(CloseWatch(r))
          /\ WF_allVars(\E g \in Gateway : OpenWatch(g, r))
          /\ \A g \in Gateway : WF_allVars(ProjectStep(g, r))

PSpec == PInit /\ [][PNext]_allVars /\ PFairness

\* Somebody loads the Snapshot of the run again and again.
Refresh == \A r \in Run : \A g \in Gateway : WF_allVars(EnsureProjection(g, r))

-----------------------------------------------------------------------------
(* Properties.                                                              *)

\* Whatever Gateways, cuts and crashes take part in it, the Outbox holds the
\* beginning of the Sidecar's log of a run: nothing twice, nothing missing,
\* nothing out of order.
OutboxFollowsLog ==
    \A r \in Run :
        /\ Len(outbox[r]) <= Len(log[r])
        /\ \A i \in DOMAIN outbox[r] : outbox[r][i] = Entry(r, i)

\* "也不得遗留投影协程继续消费": no projection goes on past a verdict, although
\* the Sidecar's log of a cancelled run may.
VerdictComesLast ==
    \A r \in Run : \A i \in DOMAIN outbox[r] :
        outbox[r][i].event \in VerdictEvent => i = Len(outbox[r])

\* A run that is shown as completed has its reply in the conversation, though
\* the event of the reply and the message are two commits.
CompletedHasReply == \A r \in Run : Shown(r) = "completed" => r \in message

Recorded(r) ==
    \E i \in DOMAIN log[r] :
        /\ log[r][i] \in VerdictEvent
        /\ \A j \in 1..i : log[r][j] # "suspended"

\* The verdict in the log of a bound run is shown, if no suspension comes
\* before it and somebody keeps asking.
RecordedVerdictIsShown ==
    \A r \in Run : (r \in bound /\ Recorded(r)) ~> Shown(r) \in Verdict
=============================================================================
