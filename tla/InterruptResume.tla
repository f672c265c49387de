--------------------------- MODULE InterruptResume ---------------------------
(***************************************************************************)
(* How a user's confirmation or authorization of an interrupted tool call  *)
(* becomes a run that may make the call: the three routes of the Gateway,  *)
(* the creation of the run in the Sidecar, and the hand-over of the user's *)
(* credential to it, composed with the Tool Broker that serves its calls.  *)
(*                                                                         *)
(* A request suspends at every transaction and at every call of the        *)
(* Sidecar, and may be cut off by a crash anywhere; the user then sends it *)
(* again, with the response id of before or, after a reload of the page,   *)
(* with another.                                                           *)
(***************************************************************************)
EXTENDS ToolBroker

CONSTANT UsedRoute    \* the routes that clients call

ASSUME RouteAssumption == UsedRoute \subseteq Route

\* The ticket of a request is no run id, and there are finitely many requests at a time.
ASSUME TicketAssumption == IsFiniteSet(Handler) /\ \A q \in Request : q \notin Seq(Link)

\* request[q]: the call, route and response q serves and where it is; `base' is
\* the workspace revision it has read, which stands for all it puts into the
\* digest of the run, the context it builds as well; `paid': it carries an
\* Authorization header.
VARIABLE request

vars == <<brokerVars, request>>

Init ==
    /\ BrokerInit
    /\ request = [q \in Request |-> Idle]

-----------------------------------------------------------------------------
(* Operators *)

\* The confirmations route takes an interrupt of any kind and always starts a
\* confirmation_resume; the others take their own kind only.
TakenBy(route, kind) ==
    CASE route = "confirm"   -> TRUE
      [] route = "respond"   -> kind = "awaiting_confirmation"
      [] route = "authorize" -> kind = "authorization_required"

TriggerOf(route) == IF route = "authorize" THEN "authorization_resume" ELSE "confirmation_resume"

\* Only the responses route sends a payload, so the others agree with each
\* other on it.
Payload(route) == IF route = "respond" THEN "respond" ELSE "confirm"

\* Mutant: a response that was recorded ends the matter.
ContinuesNever(row, route) == FALSE

\* A route that has read the row as responded trusts its own reading: only the
\* responses route compares the payload there.
Continues(row, route) ==
    /\ row.response # {}
    /\ \/ route = "authorize"
       \/ route = "respond" /\ row.payload = {Payload(route)}

\* Mutant: any response, until a run is bound.
AcceptsUntilBound(row, s) == row.resumed = {}

\* respond_interrupt: an interrupt has one response, and only that response
\* may be sent again.
Accepts(row, s) ==
    \/ row.response = {}
    \/ row.response = {s.response} /\ row.payload = {Payload(s.route)}

RunOf(s) == Resumed(s.call, s.response, TriggerOf(s.route))

DigestOf(s) == <<s.base, s.route>>

\* The credentials there are, in the vault, at a handler or spent.
Known ==
    {vault[o] : o \in DOMAIN vault}
    \cup (UNION {e.credential : e \in effects})
    \cup (UNION {handler[h].credential : h \in {g \in Handler : handler[g] # Idle}})

\* A number tells a credential of c from all others.
FreshCredential(c) ==
    [of |-> c, n |-> CHOOSE n \in 0 .. Cardinality(Known) : [of |-> c, n |-> n] \notin Known]

\* bind_grant: the ticket of q becomes the credential of run r.
Transferred(q, r) == Without(With(vault, r, vault[q]), q)

Ask(q, s) == request' = [request EXCEPT ![q] = s]

Step(q, place) == Ask(q, [request[q] EXCEPT !.at = place])

Quit(q) == Ask(q, Idle)

Fault == faults < MaxFaults /\ faults' = faults + 1

-----------------------------------------------------------------------------
(* The routes *)

\* A request arrives: it reads the workspace, and the responses and the
\* authorizations route read the interrupt.  An interrupt is known outside
\* once its call has been answered.  The bound MaxDepth ends the chain.
Receive(q, c, route, response, paid) ==
    LET row == interrupt[c]
        s == [at |-> "respond", call |-> c, route |-> route, response |-> response,
              base |-> revision, paid |-> paid] IN
    /\ request[q] = Idle
    /\ c \in DOMAIN interrupt
    /\ ledger[c].completed
    /\ TakenBy(route, row.kind)
    /\ Len(c.run) < MaxDepth
    /\ route = "authorize" => paid
    /\ \/ /\ row.response = {} \/ route = "confirm"
          /\ Ask(q, s)
       \/ /\ Continues(row, route)
          /\ row.resumed = {}
          /\ Ask(q, [s EXCEPT !.at = "grant", !.response = CHOOSE r \in row.response : TRUE])
    /\ UNCHANGED brokerVars

Respond(q) ==
    LET s == request[q]
        row == interrupt[s.call] IN
    /\ s.at = "respond"
    /\ IF Accepts(row, s)
       THEN /\ interrupt' = [interrupt EXCEPT ![s.call].response = {s.response},
                                              ![s.call].payload = {Payload(s.route)}]
            /\ IF row.resumed = {} THEN Step(q, "grant") ELSE Quit(q)
       ELSE /\ Quit(q)
            /\ UNCHANGED interrupt
    /\ UNCHANGED <<revision, ledger, engine, vault, handler, effects, faults>>

\* put_grant, under a ticket of this request only.
PutGrant(q) ==
    LET s == request[q] IN
    /\ s.at = "grant"
    /\ vault' = IF s.paid THEN With(vault, q, FreshCredential(s.call)) ELSE vault
    /\ Step(q, "create")
    /\ UNCHANGED <<revision, ledger, interrupt, engine, handler, effects, faults>>

\* POST runs: the Sidecar creates the run, or finds it and compares digests.
Created(s) ==
    IF RunOf(s) \in DOMAIN engine
    THEN engine
    ELSE With(engine, RunOf(s), [digest |-> DigestOf(s), status |-> "accepted", seen |-> s.base])

SameRequest(s) == RunOf(s) \in DOMAIN engine => engine[RunOf(s)].digest = DigestOf(s)

CreateRun(q) ==
    LET s == request[q] IN
    /\ s.at = "create"
    /\ IF SameRequest(s)
       THEN engine' = Created(s) /\ Step(q, "bind") /\ UNCHANGED vault
       ELSE vault' = Without(vault, q) /\ Quit(q) /\ UNCHANGED engine
    /\ UNCHANGED <<revision, ledger, interrupt, handler, effects, faults>>

\* The call does not get through, before or after the Sidecar's commit: the
\* ticket is discarded and the user sees 503.
CreateFails(q) ==
    LET s == request[q] IN
    /\ s.at = "create"
    /\ Fault
    /\ engine' \in {engine} \cup (IF SameRequest(s) THEN {Created(s)} ELSE {})
    /\ vault' = Without(vault, q)
    /\ Quit(q)
    /\ UNCHANGED <<revision, ledger, interrupt, handler, effects>>

\* register_run_binding and on_run_bound.  A ticket that has expired is a
\* LookupError, which no handler catches.
BindRun(q) ==
    LET s == request[q] IN
    /\ s.at = "bind"
    /\ IF s.paid /\ q \notin DOMAIN vault
       THEN Quit(q) /\ UNCHANGED vault
       ELSE /\ vault' = IF s.paid THEN Transferred(q, RunOf(s)) ELSE vault
            /\ Step(q, "activate")
    /\ UNCHANGED <<revision, ledger, interrupt, engine, handler, effects, faults>>

\* Only an accepted run is started; activating another changes nothing.
Activated(r) ==
    IF engine[r].status = "accepted" THEN [engine EXCEPT ![r].status = "running"] ELSE engine

Activate(q) ==
    /\ request[q].at = "activate"
    /\ engine' = Activated(RunOf(request[q]))
    /\ Step(q, "finish")
    /\ UNCHANGED <<revision, ledger, interrupt, vault, handler, effects, faults>>

ActivateFails(q) ==
    /\ request[q].at = "activate"
    /\ Fault
    /\ engine' \in {engine, Activated(RunOf(request[q]))}
    /\ Quit(q)
    /\ UNCHANGED <<revision, ledger, interrupt, vault, handler, effects>>

\* bind_interrupt_resume_run; a second run for the interrupt is a conflict.
BindResume(q) ==
    LET s == request[q]
        row == interrupt[s.call] IN
    /\ s.at = "finish"
    /\ interrupt' = IF row.response = {s.response} /\ row.resumed = {}
                    THEN [interrupt EXCEPT ![s.call].resumed = {RunOf(s)}]
                    ELSE interrupt
    /\ Quit(q)
    /\ UNCHANGED <<revision, ledger, engine, vault, handler, effects, faults>>

RequestStep(q) ==
    \/ Respond(q)
    \/ PutGrant(q)
    \/ CreateRun(q)
    \/ BindRun(q)
    \/ Activate(q)
    \/ BindResume(q)

-----------------------------------------------------------------------------
(* The environment *)

\* A user, a worker or another run writes the workspace.
WriteElsewhere ==
    /\ revision < MaxRevision
    /\ revision' = revision + 1
    /\ UNCHANGED <<ledger, interrupt, engine, vault, handler, effects, faults, request>>

\* A credential is discarded five minutes after it was put.
Expire(o) ==
    /\ o \in DOMAIN vault
    /\ Fault
    /\ vault' = Without(vault, o)
    /\ UNCHANGED <<revision, ledger, interrupt, engine, handler, effects, request>>

\* The run ends with a verdict, or the Sidecar does, which fails the accepted
\* runs too when it starts again.
EndRun(r) ==
    /\ r \in DOMAIN engine
    /\ engine[r].status # "ended"
    /\ Fault
    /\ engine' = [engine EXCEPT ![r].status = "ended"]
    /\ UNCHANGED <<revision, ledger, interrupt, vault, handler, effects, request>>

\* The Gateway ends: what is in its memory is lost.
GatewayCrash ==
    /\ Fault
    /\ vault' = << >>
    /\ handler' = [h \in Handler |-> Idle]
    /\ request' = [q \in Request |-> Idle]
    /\ UNCHANGED <<revision, ledger, interrupt, engine, effects>>

Next ==
    \/ \E h \in Handler, c \in [run : DOMAIN engine, id : CallId], t \in Tool :
           Send(h, c, t) /\ UNCHANGED request
    \/ \E h \in Handler : BrokerStep(h) /\ UNCHANGED request
    \/ \E q \in Request, c \in DOMAIN interrupt, route \in UsedRoute, response \in Response,
          paid \in BOOLEAN : Receive(q, c, route, response, paid)
    \/ \E q \in Request : RequestStep(q) \/ CreateFails(q) \/ ActivateFails(q)
    \/ WriteElsewhere
    \/ \E o \in DOMAIN vault : Expire(o)
    \/ \E r \in DOMAIN engine : EndRun(r)
    \/ GatewayCrash

Spec == Init /\ [][Next]_vars

\* A request that has begun is carried on, and the user keeps asking with a
\* response to an interrupt that the page still shows.
Retry(c) ==
    \E q \in Request, route \in UsedRoute, response \in Response :
        Receive(q, c, route, response, TRUE)

Answerable == {c \in Call : Len(c.run) < MaxDepth /\ c.id <= MaxCalls[Len(c.run)]}

FairSpec ==
    /\ Spec
    /\ \A q \in Request : WF_vars(RequestStep(q))
    /\ \A c \in Answerable : SF_vars(Retry(c))

-----------------------------------------------------------------------------
(* Safety *)

\* A call takes effect at most once, whatever is sent again, lost or crashed.
OneEffectPerCall == \A e, f \in effects : e.call = f.call => e = f

\* A tool that needs confirmation takes effect only in a run at the end of a
\* chain that begins with the user's confirmation of that tool; what lies
\* between are authorizations for the same tool.
ConsentedEffects ==
    \A e \in effects : e.tool \in NeedsConsent =>
        LET r == e.call.run
            Asked(k) == interrupt[Cause(r, k)] IN
        \E k \in 1 .. Len(r) :
            /\ Asked(k).kind = "awaiting_confirmation"
            /\ \A i \in k .. Len(r) :
                /\ Asked(i).tool = e.tool
                /\ Asked(i).response = {r[i].response}
                /\ i > k => Asked(i).kind = "authorization_required"

\* A costly effect has a credential of its own, which the user sent with the
\* response that led to its run.
OwnCredential ==
    \A e \in effects : e.tool \in CostlyTool =>
        /\ \E x \in e.credential : e.credential = {x} /\ x.of = Cause(e.call.run, Len(e.call.run))
        /\ \A f \in effects : e.credential = f.credential => e = f

\* However often and by how many requests an interrupt is answered, one run
\* comes of it.
OneResumeRun ==
    \A r, s \in DOMAIN engine \ {Root} : Cause(r, Len(r)) = Cause(s, Len(s)) => r = s

-----------------------------------------------------------------------------
(* Liveness *)

HasResponse(c) == c \in DOMAIN interrupt /\ interrupt[c].response # {}

HasRun(c) == c \in DOMAIN interrupt /\ interrupt[c].resumed # {}

\* The run of the recorded response was created from a workspace that has
\* changed since, so that no request can name it again.
Drifted(c) ==
    \E r \in DOMAIN engine \ {Root} : Cause(r, Len(r)) = c /\ engine[r].digest[1] < revision

\* A recorded response gets its run, whatever request dies on the way, if the
\* user keeps asking and the workspace stands still meanwhile.
ResponseIsHonoured == \A c \in Answerable : HasResponse(c) ~> HasRun(c) \/ Drifted(c)

=============================================================================
