-------------------------- MODULE AgentConversation --------------------------
(***************************************************************************)
(* The browser's view of a conversation (useAgentConversation, its reducer *)
(* and its event stream) against the Outbox of the Gateway.                *)
(*                                                                         *)
(* JavaScript runs one piece of code at a time, but every await lets the   *)
(* other flows run: a flow is one call of the hook that has not come to    *)
(* its end, and its step says which answer it waits for.  The server       *)
(* answers with what it knows at that moment, and the answer is used       *)
(* later, whatever the view shows by then.  Events come over the one       *)
(* stream of the browser; whoever starts another aborts it.                *)
(*                                                                         *)
(* A kind of event stands for what the view makes of it: "delta" changes   *)
(* no status, "tool" makes it read a Snapshot, "closed" is the answer to   *)
(* an interrupt.  Verdicts are one, and so are the kinds of suspension.    *)
(***************************************************************************)
EXTENDS FiniteSets, FiniteSetsExt, Integers, Sequences, SequencesExt

CONSTANTS
    Conversation,
    Kind,        \* kinds of events the runs write
    Slot,        \* flows at once (model bound)
    MaxPublic,   \* events of a conversation (model bound)
    MaxRuns,     \* runs of a conversation (model bound)
    MaxOpens,    \* conversations opened by the user (model bound)
    MaxAsks,     \* other requests of the user (model bound)
    MaxFaults    \* answers and connections lost (model bound)

StateKind == {"running", "suspended", "completed"}

ASSUME AgentConversationAssumption ==
    /\ Kind \subseteq StateKind \cup {"delta", "tool"}
    /\ "none" \notin Conversation
    /\ {MaxPublic, MaxRuns, MaxOpens, MaxAsks, MaxFaults} \subseteq Nat

VARIABLES
    outbox,      \* outbox[c]: the public events of c
    runs,        \* runs[c]: the number of runs of c
    opened,      \* the conversation the user has opened last
    generation,  \* requestGenerationRef
    detail,      \* the conversation whose commands the page sends
    view,        \* runtimeRef
    flow,        \* flow[s]
    asks, faults,
    unfollowed   \* an unfinished run has been shown that no stream goes on from

serverVars == <<outbox, runs>>
pageVars == <<opened, generation, detail>>
clientVars == <<serverVars, pageVars, view, flow, asks, faults, unfollowed>>

\* ready: there is a workspace, without which no command is sent.
NoView == [conv |-> "none", run |-> 0, seq |-> 0, seen |-> 0, status |-> "none", last |-> "none",
           ready |-> FALSE]

\* An answer is a view (of a Snapshot) or names a run.
NoAnswer == [named |-> -1]
RunNamed(r) == [named |-> r]
NoFlow == [step |-> "free", conv |-> "none", run |-> 0, gen |-> 0, cursor |-> 0, gap |-> FALSE,
         live |-> FALSE, answer |-> NoAnswer]

ClientInit ==
    /\ outbox = [c \in Conversation |-> <<>>]
    /\ runs = [c \in Conversation |-> 0]
    /\ opened = "none" /\ generation = 0 /\ detail = "none"
    /\ view = NoView
    /\ flow = [s \in Slot |-> NoFlow]
    /\ asks = 0 /\ faults = 0
    /\ unfollowed = FALSE

-----------------------------------------------------------------------------
(* The server.                                                              *)

Of(c, r) == {n \in DOMAIN outbox[c] : outbox[c][n].run = r}
States(c, r) == {n \in Of(c, r) : outbox[c][n].kind \in StateKind}
LastOr(ns, n0) == IF ns = {} THEN n0 ELSE Max(ns)
StatusIn(c, ns, none) == IF ns = {} THEN none ELSE outbox[c][Max(ns)].kind
Over(c, r) == StatusIn(c, States(c, r), "none") \in {"suspended", "completed"}

\* snapshot(): the status is the one in the last event of the run, if it has
\* one, and accepted otherwise.
ShownStatus(c, r) ==
    LET k == StatusIn(c, Of(c, r), "none") IN IF k \in StateKind THEN k ELSE "accepted"

\* seen: how many events of the run are in it; last: its last event of status.
Snapshot(c, r) ==
    [conv |-> c, run |-> r, seq |-> LastOr(Of(c, r), 0), seen |-> Cardinality(Of(c, r)),
     status |-> ShownStatus(c, r), last |-> StatusIn(c, States(c, r), "none"), ready |-> TRUE]

\* The run of the latest event, or of the latest message if there is none.
LatestRun(c) == IF outbox[c] = <<>> THEN runs[c] ELSE Last(outbox[c]).run

Room(c) == Len(outbox[c]) < MaxPublic
Write(c, r, k) == outbox' = [outbox EXCEPT ![c] = Append(@, [run |-> r, kind |-> k])]

\* A run writes until it is suspended or has its verdict.
Emit(c) ==
    /\ Room(c)
    /\ \E r \in 1 .. runs[c], k \in Kind : ~Over(c, r) /\ Write(c, r, k)
    /\ UNCHANGED <<runs, pageVars, view, flow, asks, faults, unfollowed>>

\* A turn of another tab, or one the server has started by itself.
RunElsewhere(c) ==
    /\ runs[c] < MaxRuns
    /\ runs' = [runs EXCEPT ![c] = @ + 1]
    /\ UNCHANGED <<outbox, pageVars, view, flow, asks, faults, unfollowed>>

-----------------------------------------------------------------------------
(* The pieces the flows are made of.                                        *)

IsTerminal(v) == {v.status, v.last} \cap {"suspended", "completed"} # {}

Waiting(step, c, r) == [NoFlow EXCEPT !.step = step, !.conv = c, !.run = r]
EndFlow(s) == flow' = [flow EXCEPT ![s] = NoFlow]
Arrived(s, step) == flow[s].step = step /\ flow[s].answer # NoAnswer

\* The loop of a stream: it ends when the view is terminal, whichever run the
\* view is of, and then reads a last Snapshot if the view is of its run.
Closing(c, r, v) == IF v.conv = c /\ v.run = r THEN Waiting("final", c, r) ELSE NoFlow
Loop(c, r, v) ==
    IF IsTerminal(v) THEN Closing(c, r, v)
    ELSE [Waiting("read", c, r) EXCEPT !.cursor = v.seq, !.live = TRUE]

\* stopStream: the abort ends a stream that reads or pauses; one that waits
\* for a Snapshot ends after it, and one past its loop does not look.
Stopped ==
    [s \in Slot |-> CASE flow[s].step \in {"read", "delay"} -> NoFlow
                      [] flow[s].step = "reload" -> [flow[s] EXCEPT !.live = FALSE]
                      [] OTHER -> flow[s]]

\* startEventStream.
Stream(s, c, r, v) == [Stopped EXCEPT ![s] = Loop(c, r, v)]

\* A stream of the run will read what comes after v, or v is all there is.
Followed(v, f) ==
    \/ IsTerminal(v)
    \/ \E s \in Slot : /\ f[s].live /\ f[s].conv = v.conv /\ f[s].run = v.run
                       /\ f[s].step = "read" => f[s].cursor <= v.seq

\* foldAppliedEvent.
Folded(v, e, n) ==
    LET k == IF e.kind \in StateKind THEN e.kind ELSE v.status
        l == IF e.kind \in StateKind THEN e.kind ELSE v.last
    IN  [v EXCEPT !.seq = n, !.seen = @ + 1, !.status = k, !.last = l]

\* Mutant: any later event is taken for the next one.
AppliesAny(c, r, n) ==
    IF view.conv # c \/ view.run # r \/ n <= view.seq THEN "ignored" ELSE "applied"

\* applyPublicEvent.
Applies(c, r, n) ==
    IF view.conv # c \/ view.run # r \/ n <= view.seq THEN "ignored"
    ELSE IF n = view.seq + 1 THEN "applied" ELSE "gap"

-----------------------------------------------------------------------------
(* What the user does.                                                      *)

IsIdle(s) == flow[s].step = "free" /\ \A t \in Slot : t < s => flow[t].step # "free"

OpenConversation(s, c) ==
    /\ IsIdle(s) /\ generation < MaxOpens
    /\ generation' = generation + 1 /\ opened' = c
    /\ view' = NoView
    /\ flow' = [Stopped EXCEPT ![s] = [Waiting("open", c, 0) EXCEPT !.gen = generation + 1]]
    /\ UNCHANGED <<serverVars, detail, asks, faults, unfollowed>>

Asks(s, step, r) ==
    /\ IsIdle(s) /\ asks < MaxAsks /\ asks' = asks + 1
    /\ flow' = [flow EXCEPT ![s] = Waiting(step, detail, r)]
    /\ UNCHANGED <<serverVars, pageVars, view, faults, unfollowed>>

Submit(s) == detail # "none" /\ view.ready /\ Asks(s, "submit", 0)

\* Those about a run of another conversation are refused; a cancel is a
\* verdict and a refresh.
About(step) ==
    CASE step = "refresh" -> view.run # 0
      [] step = "confirm" -> view.status = "suspended"
      [] step = "recover" -> view.status = "completed"
Ask(s, step) == view.conv = detail /\ About(step) /\ Asks(s, step, view.run)

-----------------------------------------------------------------------------
(* The server answers.                                                      *)

Hydrating == {"opened", "settle", "refresh", "resumed", "reload", "final", "next"}
Answers(s, a) == flow' = [flow EXCEPT ![s].answer = a]

AnswerRead(s) ==
    /\ flow[s].answer = NoAnswer
    /\ \/ flow[s].step \in Hydrating /\ Answers(s, Snapshot(flow[s].conv, flow[s].run))
       \/ flow[s].step \in {"open", "newer"} /\ Answers(s, RunNamed(LatestRun(flow[s].conv)))
    /\ UNCHANGED <<serverVars, pageVars, view, asks, faults, unfollowed>>

\* A turn and a recovery give a new run, and so does a response, which also
\* closes its interrupt.
AnswerAsk(s) ==
    LET f == flow[s] c == f.conv IN
    /\ f.answer = NoAnswer /\ f.step \in {"submit", "recover", "confirm"}
    /\ runs[c] < MaxRuns
    /\ runs' = [runs EXCEPT ![c] = @ + 1]
    /\ Answers(s, RunNamed(runs[c] + 1))
    /\ IF f.step = "confirm"
       THEN Room(c) /\ StatusIn(c, Of(c, f.run), "none") = "suspended" /\ Write(c, f.run, "closed")
       ELSE UNCHANGED outbox
    /\ UNCHANGED <<pageVars, view, asks, faults, unfollowed>>

-----------------------------------------------------------------------------
(* The answers arrive.                                                      *)

OpenArrives(s) ==
    LET f == flow[s] IN
    /\ Arrived(s, "open")
    /\ IF f.gen # generation THEN EndFlow(s) /\ UNCHANGED <<detail, view>>
       ELSE /\ detail' = f.conv
            /\ view' = [view EXCEPT !.ready = TRUE]
            /\ IF f.answer.named = 0 THEN EndFlow(s)
               ELSE flow' = [flow EXCEPT ![s] = [Waiting("opened", f.conv, f.answer.named) EXCEPT !.gen = generation]]
    /\ UNCHANGED <<serverVars, opened, generation, asks, faults, unfollowed>>

\* hydrateRun: the view becomes the Snapshot, whatever it shows now.
Hydrates(s, step) == Arrived(s, step) /\ view' = flow[s].answer
PageKept == UNCHANGED <<serverVars, pageVars, asks, faults>>

OpenHydrates(s) ==
    LET f == flow[s] IN
    /\ Hydrates(s, "opened")
    /\ IF IsTerminal(view') \/ f.gen # generation THEN EndFlow(s)
       ELSE flow' = Stream(s, f.conv, f.run, view')
    /\ unfollowed' = (unfollowed \/ ~Followed(view', flow'))
    /\ PageKept

\* The stream of a turn starts at once, with a view that nothing is known of,
\* and a Snapshot is read beside it.
SubmitArrives(s) ==
    \E t \in Slot \ {s} :
        LET f == flow[s]
            v == [NoView EXCEPT !.conv = f.conv, !.run = f.answer.named, !.status = "accepted",
                                !.ready = TRUE]
        IN  /\ Arrived(s, "submit")
            /\ flow[t].step = "free" /\ \A u \in Slot \ {s} : u < t => flow[u].step # "free"
            /\ view' = v
            /\ flow' = [Stream(s, f.conv, v.run, v) EXCEPT ![t] = Waiting("settle", f.conv, v.run)]
            /\ PageKept /\ UNCHANGED unfollowed

SettleArrives(s) ==
    /\ Hydrates(s, "settle")
    /\ EndFlow(s)
    /\ unfollowed' = (unfollowed \/ ~Followed(view', flow'))
    /\ PageKept

RecoverArrives(s) ==
    /\ \/ Arrived(s, "recover") /\ flow' = [flow EXCEPT ![s] = Waiting("refresh", @.conv, @.answer.named)]
       \/ Arrived(s, "confirm") /\ flow' = [flow EXCEPT ![s] = Waiting("resumed", @.conv, @.answer.named)]
    /\ UNCHANGED <<view, unfollowed>> /\ PageKept

\* A refresh, a recovery and the search for a newer run go on with a stream if
\* there is more to come, a confirmation does in any case.
RefreshArrives(s) ==
    LET f == flow[s] IN
    /\ \/ /\ \E step \in {"refresh", "next"} : Hydrates(s, step)
          /\ IF IsTerminal(view') THEN EndFlow(s) ELSE flow' = Stream(s, f.conv, f.run, view')
       \/ /\ Hydrates(s, "resumed")
          /\ flow' = Stream(s, f.conv, f.run, view')
    /\ UNCHANGED unfollowed /\ PageKept

-----------------------------------------------------------------------------
(* The event stream.                                                        *)

\* The next event of the run on the connection.
NextEvent(s) ==
    LET f == flow[s]
        ns == {n \in Of(f.conv, f.run) : n > f.cursor}
    IN  LastOr({n \in ns : \A m \in ns : n <= m}, 0)

\* Mutant: no Snapshot is read for a number that is missed.
ReadsNoGap(e, result) == result = "applied" /\ e.kind \in {"tool", "suspended", "completed"}

\* shouldReloadSnapshot.
Reads(e, result) ==
    \/ result = "gap"
    \/ result = "applied" /\ e.kind \in {"tool", "suspended", "completed"}

ReadEvent(s) ==
    LET f == flow[s] n == NextEvent(s) e == outbox[f.conv][n] result == Applies(f.conv, f.run, n) IN
    /\ f.step = "read" /\ n # 0
    /\ view' = IF result = "applied" THEN Folded(view, e, n) ELSE view
    /\ flow' = [flow EXCEPT ![s] = [@ EXCEPT !.cursor = n, !.gap = (result = "gap"),
                      !.step = IF Reads(e, result) THEN "reload" ELSE "read"]]
    /\ UNCHANGED unfollowed /\ PageKept

ReloadArrives(s) ==
    LET f == flow[s] IN
    /\ Hydrates(s, "reload")
    /\ flow' = [flow EXCEPT ![s] =
                   IF ~f.live THEN NoFlow
                   ELSE IF f.gap \/ IsTerminal(view') THEN Loop(f.conv, f.run, view')
                   ELSE [f EXCEPT !.step = "read", !.answer = NoAnswer]]
    /\ unfollowed' = (unfollowed \/ ~Followed(view', flow'))
    /\ PageKept

\* The Gateway ends the response after a verdict, never after a suspension.
EndOfStream(s) ==
    LET f == flow[s] IN
    /\ f.step = "read" /\ NextEvent(s) = 0 /\ ShownStatus(f.conv, f.run) = "completed"
    /\ flow' = [flow EXCEPT ![s] = IF IsTerminal(view) THEN Closing(f.conv, f.run, view)
                                    ELSE [f EXCEPT !.step = "delay"]]
    /\ UNCHANGED <<view, unfollowed>> /\ PageKept

Reconnect(s) ==
    /\ flow[s].step = "delay"
    /\ flow' = [flow EXCEPT ![s] = Loop(@.conv, @.run, view)]
    /\ UNCHANGED <<view, unfollowed>> /\ PageKept

\* After the loop: a last Snapshot, and the next run if there is one.
FinalArrives(s) ==
    LET f == flow[s] IN
    /\ Hydrates(s, "final")
    /\ IF IsTerminal(view') THEN flow' = [flow EXCEPT ![s] = Waiting("newer", f.conv, f.run)] ELSE EndFlow(s)
    /\ UNCHANGED unfollowed /\ PageKept

NewerArrives(s) ==
    LET f == flow[s] IN
    /\ Arrived(s, "newer")
    /\ IF f.answer.named \in {0, f.run} THEN EndFlow(s)
       ELSE flow' = [flow EXCEPT ![s] = Waiting("next", f.conv, f.answer.named)]
    /\ UNCHANGED <<view, unfollowed>> /\ PageKept

\* A request fails or its answer is lost, or a connection breaks: a stream
\* tries again after a pause, every other flow ends.
Lose(s) ==
    /\ faults < MaxFaults /\ faults' = faults + 1
    /\ flow[s].step \notin {"free", "delay"}
    /\ flow' = [flow EXCEPT ![s] =
                   IF @.live THEN [@ EXCEPT !.step = "delay", !.answer = NoAnswer] ELSE NoFlow]
    /\ UNCHANGED <<serverVars, pageVars, view, asks, unfollowed>>

-----------------------------------------------------------------------------
FlowStep(s) ==
    \/ AnswerRead(s) \/ AnswerAsk(s)
    \/ OpenArrives(s) \/ OpenHydrates(s) \/ SubmitArrives(s) \/ SettleArrives(s)
    \/ RecoverArrives(s) \/ RefreshArrives(s)
    \/ ReadEvent(s) \/ ReloadArrives(s) \/ EndOfStream(s) \/ Reconnect(s)
    \/ FinalArrives(s) \/ NewerArrives(s)

ClientNext ==
    \/ \E c \in Conversation : Emit(c) \/ RunElsewhere(c)
    \/ \E s \in Slot :
          \/ \E c \in Conversation : OpenConversation(s, c)
          \/ Submit(s) \/ \E step \in {"refresh", "confirm", "recover"} : Ask(s, step)
          \/ FlowStep(s) \/ Lose(s)

ClientSpec == ClientInit /\ [][ClientNext]_clientVars

\* Requests come to an end and pauses pass; nothing is assumed of the user,
\* of the runs, or of the network beyond that.
ClientFairSpec == ClientSpec /\ \A s \in Slot : WF_clientVars(FlowStep(s))

-----------------------------------------------------------------------------
(* What is shown of a run is what its events up to the shown sequence make  *)
(* of it: none is missing or folded twice, though Snapshots and events come *)
(* in any order and share the numbers with other runs.                      *)
ShownIsPrefix ==
    view.run # 0 =>
        view.seen = Cardinality({n \in Of(view.conv, view.run) : n <= view.seq})

(* The end of the shown run is shown, whatever connections break and        *)
(* numbers are missed, unless a Snapshot that was overtaken has set the     *)
(* view to what no stream goes on from.                                     *)
EndIsShown ==
    \A c \in Conversation : \A r \in 1 .. MaxRuns :
        (view.conv = c /\ view.run = r /\ Over(c, r)) ~>
            (IsTerminal(view) \/ view.conv # c \/ view.run # r \/ unfollowed)
=============================================================================
