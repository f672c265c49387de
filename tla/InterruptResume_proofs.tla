------------------------ MODULE InterruptResume_proofs ------------------------
(***************************************************************************)
(* Proofs about InterruptResume, for any tools, handlers, requests, faults *)
(* and depth of the chain of resume runs.  The ledger row of a call admits *)
(* one handler to it for good; a handler past the confirmation holds a     *)
(* chain of consent (Chain), which the interrupts never take back (Grows). *)
(***************************************************************************)
EXTENDS InterruptResume, SequenceTheorems, FiniteSetTheorems, TLAPS

HandlerFields == {"at", "call", "tool", "expected", "credential", "answer"}
RequestFields == {"at", "call", "route", "response", "base", "paid"}
RowFields == {"kind", "tool", "granted", "payload", "response", "resumed"}

\* A handler that has inserted the row of its call, one that may still execute
\* the tool, and one past the confirmation; a request whose response is stored.
Served == {"check", "workspace", "credential", "interrupt", "execute", "observe", "complete"}
Ahead == {"check", "workspace", "credential", "execute"}
Passed == {"workspace", "credential", "execute", "observe"}
Recorded == {"grant", "create", "bind", "activate", "finish"}

Calls == [run : DOMAIN engine, id : CallId]

\* Run r is at the end of a chain that begins with a confirmation of tool t.
Chain(r, t) ==
    \E k \in 1 .. Len(r) :
        /\ Cause(r, k) \in DOMAIN interrupt
        /\ interrupt[Cause(r, k)].kind = "awaiting_confirmation"
        /\ \A i \in k .. Len(r) :
            /\ Cause(r, i) \in DOMAIN interrupt
            /\ interrupt[Cause(r, i)].tool = t
            /\ interrupt[Cause(r, i)].response = {r[i].response}
            /\ i > k => interrupt[Cause(r, i)].kind = "authorization_required"

\* What a handler and a request may rely on; s is the state of one.
HandlerOK(s) ==
    s.at # "idle" =>
        /\ s.call \in Calls
        /\ s.at \in Served => s.call \in DOMAIN ledger
        /\ s.at \in Ahead => \A e \in effects : e.call # s.call
        /\ (s.at \in Passed /\ s.tool \in NeedsConsent) => Chain(s.call.run, s.tool)
        /\ s.at = "credential" => s.tool \in CostlyTool
        /\ s.at = "interrupt" =>
              \/ s.answer.status = "awaiting_confirmation"
              \/ s.answer.status = "authorization_required" /\ Chain(s.call.run, s.tool)

RequestOK(s) ==
    s.at # "idle" =>
        /\ s.call \in DOMAIN interrupt
        /\ s.route \in UsedRoute /\ s.response \in Response
        /\ TakenBy(s.route, interrupt[s.call].kind)
        /\ s.at \in Recorded => interrupt[s.call].response = {s.response}

InterruptOK(c) ==
    /\ c \in Calls
    /\ DOMAIN interrupt[c] = RowFields
    /\ interrupt[c].granted <=> interrupt[c].kind = "authorization_required"
    /\ interrupt[c].granted => Chain(c.run, interrupt[c].tool)
    /\ interrupt[c].response = {} \/ \E x \in Response : interrupt[c].response = {x}
    /\ \/ interrupt[c].resumed = {}
       \/ \E x \in Response, trigger \in Trigger :
             /\ interrupt[c].response = {x}
             /\ interrupt[c].resumed = {Resumed(c, x, trigger)}

\* A run that is not the first comes of the response to an interrupt.
RunOK(r) ==
    \E c \in DOMAIN interrupt, x \in Response, route \in UsedRoute :
        /\ r = Resumed(c, x, TriggerOf(route))
        /\ interrupt[c].response = {x}
        /\ TakenBy(route, interrupt[c].kind)

Shapes ==
    /\ DOMAIN handler = Handler
    /\ \A h \in Handler :
          \/ handler[h] = Idle
          \/ /\ DOMAIN handler[h] = HandlerFields
             /\ DOMAIN handler[h].answer = {"status", "revision"}
             /\ handler[h].at \in Served \cup {"claim"}
    /\ DOMAIN request = Request
    /\ \A q \in Request :
          \/ request[q] = Idle
          \/ DOMAIN request[q] = RequestFields /\ request[q].at \in Recorded \cup {"respond"}

OneHandlerPerCall ==
    \A h, g \in Handler :
        (handler[h].at \in Served /\ handler[g].at \in Served /\ handler[h].call = handler[g].call)
            => h = g

EffectsOK ==
    /\ \A e \in effects : e.call \in DOMAIN ledger
    /\ \A e \in effects : e.tool \in NeedsConsent => Chain(e.call.run, e.tool)
    /\ OneEffectPerCall

IInv ==
    /\ Shapes
    /\ \A h \in Handler : HandlerOK(handler[h])
    /\ OneHandlerPerCall
    /\ \A q \in Request : RequestOK(request[q])
    /\ \A c \in DOMAIN interrupt : InterruptOK(c)
    /\ DOMAIN engine \subseteq Seq(Link) /\ \A r \in DOMAIN engine \ {Root} : RunOK(r)
    /\ EffectsOK

-----------------------------------------------------------------------------
(* Chains of runs.                                                          *)

Site == [run : Seq(Link), id : CallId]

LEMMA ResumedIs ==
    ASSUME NEW c \in Site, NEW x \in Response, NEW trigger \in Trigger
    PROVE  /\ Resumed(c, x, trigger) \in Seq(Link)
           /\ Len(Resumed(c, x, trigger)) = Len(c.run) + 1
           /\ Resumed(c, x, trigger)[Len(c.run) + 1] = [id |-> c.id, response |-> x, trigger |-> trigger]
           /\ Cause(Resumed(c, x, trigger), Len(c.run) + 1) = c
           /\ \A i \in 1 .. Len(c.run) :
                 /\ Resumed(c, x, trigger)[i] = c.run[i]
                 /\ Cause(Resumed(c, x, trigger), i) = Cause(c.run, i)
  <1> DEFINE l == [id |-> c.id, response |-> x, trigger |-> trigger]
             s == c.run
             r == Append(s, l)
             n == Len(s)
  <1>1. s \in Seq(Link) /\ l \in Link /\ c = [run |-> s, id |-> c.id] /\ l.id = c.id
    BY DEF Site, Link
  <1>2. Resumed(c, x, trigger) = r
    BY DEF Resumed
  <1> HIDE DEF l, s
  <1>3. /\ r \in Seq(Link) /\ n \in Nat /\ Len(r) = n + 1 /\ r[n + 1] = l
        /\ \A i \in 1 .. n : r[i] = s[i]
    BY <1>1, AppendProperties, LenProperties
  <1>4. ASSUME NEW i \in 0 .. n PROVE SubSeq(r, 1, i) = SubSeq(s, 1, i)
    <2>1. SubSeq(r, 1, i) = [k \in 1 .. i |-> r[k]]
      BY <1>3, SubSeqRestrict
    <2>2. SubSeq(s, 1, i) = [k \in 1 .. i |-> s[k]]
      BY <1>1, <1>3, SubSeqRestrict
    <2>3. \A k \in 1 .. i : r[k] = s[k]
      BY <1>3
    <2> QED  BY <2>1, <2>2, <2>3
  <1>5. SubSeq(s, 1, n) = s
    BY <1>1, SubSeqFull
  <1> HIDE DEF r, n
  <1>6. Cause(r, n + 1) = c
    <2>1. n \in 0 .. n /\ n + 1 - 1 = n
      BY <1>3
    <2>2. SubSeq(r, 1, n) = s
      BY <1>4, <1>5, <2>1
    <2>3. Cause(r, n + 1) = [run |-> SubSeq(r, 1, n), id |-> r[n + 1].id]
      BY <2>1 DEF Cause
    <2> QED  BY <1>1, <1>3, <2>2, <2>3
  <1>7. ASSUME NEW i \in 1 .. n PROVE Cause(r, i) = Cause(s, i)
    <2>1. i - 1 \in 0 .. n
      BY <1>3
    <2> QED  BY <1>3, <1>4, <2>1 DEF Cause
  <1> QED  BY <1>2, <1>3, <1>6, <1>7 DEF n, l, s

\* The last step of a resumed run is the response to the call it was resumed from.
LEMMA ResumedCause ==
    \A c \in Site, x \in Response, trigger \in Trigger :
        Cause(Resumed(c, x, trigger), Len(Resumed(c, x, trigger))) = c
  <1> TAKE c \in Site, x \in Response, trigger \in Trigger
  <1> DEFINE r == Resumed(c, x, trigger)
             n == Len(c.run) + 1
  <1>1. Len(r) = n /\ Cause(r, n) = c
    BY ResumedIs
  <1> HIDE DEF r, n
  <1>2. Cause(r, Len(r)) = c
    BY <1>1, Zenon
  <1> QED  BY <1>2 DEF r

LEMMA TriggersAre == \A route : TriggerOf(route) \in Trigger
  BY DEF TriggerOf, Trigger

\* What is granted to the run of a response is a chain of consent.
LEMMA ConfirmedChain ==
    ASSUME NEW c \in Site, NEW x \in Response, NEW trigger \in Trigger, NEW t,
           c \in DOMAIN interrupt, interrupt[c].tool = t, interrupt[c].response = {x},
           \/ interrupt[c].kind = "awaiting_confirmation"
           \/ interrupt[c].kind = "authorization_required" /\ Chain(c.run, t)
    PROVE  Chain(Resumed(c, x, trigger), t)
  <1> DEFINE r == Resumed(c, x, trigger)
             n == Len(c.run)
  <1>1. /\ n \in Nat /\ Len(r) = n + 1 /\ r[n + 1].response = x /\ Cause(r, n + 1) = c
        /\ \A i \in 1 .. n : r[i] = c.run[i] /\ Cause(r, i) = Cause(c.run, i)
    <2>1. c.run \in Seq(Link) /\ n \in Nat
      BY LenProperties DEF Site
    <2>2. /\ Len(r) = n + 1 /\ Cause(r, n + 1) = c
          /\ r[n + 1] = [id |-> c.id, response |-> x, trigger |-> trigger]
          /\ \A i \in 1 .. n : r[i] = c.run[i] /\ Cause(r, i) = Cause(c.run, i)
      BY ResumedIs
    <2> HIDE DEF r, n
    <2> QED  BY <2>1, <2>2
  <1> HIDE DEF r, n
  <1>2. CASE interrupt[c].kind = "awaiting_confirmation"
    <2>1. n + 1 \in 1 .. Len(r) /\ \A i \in n + 1 .. Len(r) : i = n + 1
      BY <1>1
    <2> QED  BY <1>1, <1>2, <2>1 DEF Chain, r
  <1>3. CASE interrupt[c].kind = "authorization_required" /\ Chain(c.run, t)
    <2>1. PICK k \in 1 .. n :
              /\ Cause(c.run, k) \in DOMAIN interrupt
              /\ interrupt[Cause(c.run, k)].kind = "awaiting_confirmation"
              /\ \A i \in k .. n :
                  /\ Cause(c.run, i) \in DOMAIN interrupt
                  /\ interrupt[Cause(c.run, i)].tool = t
                  /\ interrupt[Cause(c.run, i)].response = {c.run[i].response}
                  /\ i > k => interrupt[Cause(c.run, i)].kind = "authorization_required"
      BY <1>3 DEF Chain, n
    <2>2. k \in 1 .. Len(r) /\ Cause(r, k) \in DOMAIN interrupt
          /\ interrupt[Cause(r, k)].kind = "awaiting_confirmation"
      BY <1>1, <2>1
    <2>3. ASSUME NEW i \in k .. Len(r)
          PROVE  /\ Cause(r, i) \in DOMAIN interrupt
                 /\ interrupt[Cause(r, i)].tool = t
                 /\ interrupt[Cause(r, i)].response = {r[i].response}
                 /\ i > k => interrupt[Cause(r, i)].kind = "authorization_required"
      <3>1. CASE i = n + 1
        BY <1>1, <1>3, <3>1
      <3>2. CASE i # n + 1
        <4>1. i \in k .. n /\ i \in 1 .. n
          BY <1>1, <2>1, <3>2
        <4> QED  BY <1>1, <2>1, <4>1
      <3> QED  BY <3>1, <3>2
    <2> QED  BY <2>2, <2>3 DEF Chain, r
  <1> QED  BY <1>2, <1>3

-----------------------------------------------------------------------------
(* What the tables never take back.                                         *)

Grows ==
    /\ DOMAIN ledger \subseteq DOMAIN ledger'
    /\ DOMAIN engine \subseteq DOMAIN engine'
    /\ \A c \in DOMAIN interrupt :
          /\ c \in DOMAIN interrupt'
          /\ interrupt'[c].kind = interrupt[c].kind
          /\ interrupt'[c].tool = interrupt[c].tool
          /\ interrupt[c].response # {} => interrupt'[c].response = interrupt[c].response

LEMMA ChainStays ==
    ASSUME Grows, NEW r, NEW t, Chain(r, t)
    PROVE  Chain(r, t)'
  <1>1. PICK k \in 1 .. Len(r) :
            /\ Cause(r, k) \in DOMAIN interrupt
            /\ interrupt[Cause(r, k)].kind = "awaiting_confirmation"
            /\ \A i \in k .. Len(r) :
                /\ Cause(r, i) \in DOMAIN interrupt
                /\ interrupt[Cause(r, i)].tool = t
                /\ interrupt[Cause(r, i)].response = {r[i].response}
                /\ i > k => interrupt[Cause(r, i)].kind = "authorization_required"
    BY DEF Chain
  <1>2. ASSUME NEW i \in k .. Len(r)
        PROVE  /\ Cause(r, i) \in DOMAIN interrupt'
               /\ interrupt'[Cause(r, i)].tool = t
               /\ interrupt'[Cause(r, i)].response = {r[i].response}
               /\ i > k => interrupt'[Cause(r, i)].kind = "authorization_required"
    BY <1>1 DEF Grows
  <1>3. /\ Cause(r, k) \in DOMAIN interrupt'
        /\ interrupt'[Cause(r, k)].kind = "awaiting_confirmation"
    BY <1>1 DEF Grows
  <1> QED  BY <1>2, <1>3 DEF Chain

LEMMA KeptHandler ==
    ASSUME Grows, NEW s, HandlerOK(s), s.at \in Ahead => \A e \in effects' : e.call # s.call
    PROVE  HandlerOK(s)'
  <1>1. s.at # "idle" => s.call \in Calls'
    BY DEF HandlerOK, Calls, Grows
  <1>2. Chain(s.call.run, s.tool) => Chain(s.call.run, s.tool)'
    BY ChainStays
  <1>3. s.at # "idle" => (s.at \in Served => s.call \in DOMAIN ledger')
    BY DEF HandlerOK, Grows
  <1> QED  BY <1>1, <1>2, <1>3 DEF HandlerOK

LEMMA KeptRequest ==
    ASSUME Grows, NEW s, RequestOK(s)
    PROVE  RequestOK(s)'
  BY DEF Grows, RequestOK

LEMMA KeptInterrupt ==
    ASSUME Grows, NEW c \in DOMAIN interrupt, InterruptOK(c), interrupt'[c] = interrupt[c]
    PROVE  InterruptOK(c)'
  <1>1. c \in Calls'
    BY DEF InterruptOK, Calls, Grows
  <1>2. ASSUME NEW t, interrupt[c].granted, interrupt[c].tool = t PROVE Chain(c.run, t)'
    BY <1>2, ChainStays DEF InterruptOK
  <1> QED  BY <1>1, <1>2 DEF InterruptOK

LEMMA KeptRun ==
    ASSUME Grows, NEW r, RunOK(r)
    PROVE  RunOK(r)'
  BY DEF Grows, RunOK

LEMMA KeptEffects ==
    ASSUME Grows, EffectsOK, UNCHANGED effects
    PROVE  EffectsOK'
  <1>1. ASSUME NEW e \in effects, e.tool \in NeedsConsent PROVE Chain(e.call.run, e.tool)'
    BY <1>1, ChainStays DEF EffectsOK
  <1> QED  BY <1>1 DEF EffectsOK, Grows, OneEffectPerCall

-----------------------------------------------------------------------------
(* One handler, or one request, goes on.                                    *)

ShapeOK(s) ==
    \/ s = Idle
    \/ /\ DOMAIN s = HandlerFields /\ DOMAIN s.answer = {"status", "revision"}
       /\ s.at \in Served \cup {"claim"}

AskOK(s) ==
    \/ s = Idle
    \/ DOMAIN s = RequestFields /\ s.at \in Recorded \cup {"respond"}

LEMMA IdleIs == Idle.at = "idle" /\ HandlerOK(Idle)' /\ RequestOK(Idle)'
  BY DEF Idle, HandlerOK, RequestOK

LEMMA PutIs ==
    ASSUME Shapes, NEW h \in Handler, NEW s, ShapeOK(s), Put(h, s), UNCHANGED request
    PROVE  Shapes' /\ handler'[h] = s /\ \A g \in Handler \ {h} : handler'[g] = handler[g]
  BY DEF Shapes, Put, ShapeOK

LEMMA GoIs ==
    ASSUME Shapes, NEW h \in Handler, handler[h].at # "idle", NEW place \in Served,
           Go(h, place), UNCHANGED request
    PROVE  /\ Shapes' /\ \A g \in Handler \ {h} : handler'[g] = handler[g]
           /\ handler'[h].at = place /\ handler'[h].call = handler[h].call
           /\ handler'[h].tool = handler[h].tool /\ handler'[h].answer = handler[h].answer
           /\ handler'[h].credential = handler[h].credential
  <1> DEFINE s == [handler[h] EXCEPT !.at = place]
  <1>1. DOMAIN handler[h] = HandlerFields /\ DOMAIN handler[h].answer = {"status", "revision"}
    BY IdleIs DEF Shapes
  <1>2. /\ s.at = place /\ s.call = handler[h].call /\ s.tool = handler[h].tool
        /\ s.answer = handler[h].answer /\ s.credential = handler[h].credential
        /\ DOMAIN s = HandlerFields
    BY <1>1 DEF HandlerFields
  <1>3. Put(h, s)
    BY DEF Go
  <1> HIDE DEF s
  <1>4. ShapeOK(s)
    BY <1>1, <1>2 DEF ShapeOK
  <1> QED  BY <1>2, <1>3, <1>4, PutIs

LEMMA AnsweredIs ==
    ASSUME Shapes, NEW h \in Handler, handler[h].at # "idle", NEW place \in Served, NEW status,
           Answered(h, place, status), UNCHANGED request
    PROVE  /\ Shapes' /\ \A g \in Handler \ {h} : handler'[g] = handler[g]
           /\ handler'[h].at = place /\ handler'[h].call = handler[h].call
           /\ handler'[h].tool = handler[h].tool /\ handler'[h].answer.status = status
           /\ handler'[h].credential = handler[h].credential
  <1> DEFINE a == [handler[h].answer EXCEPT !.status = status]
             s == [handler[h] EXCEPT !.at = place, !.answer = a]
  <1>1. DOMAIN handler[h] = HandlerFields /\ DOMAIN handler[h].answer = {"status", "revision"}
    BY IdleIs DEF Shapes
  <1>2. a.status = status /\ DOMAIN a = {"status", "revision"}
    BY <1>1
  <1>3. Put(h, s)
    BY <1>1 DEF Answered, HandlerFields
  <1> HIDE DEF a
  <1>4. /\ s.at = place /\ s.call = handler[h].call /\ s.tool = handler[h].tool
        /\ s.answer = a /\ s.credential = handler[h].credential /\ DOMAIN s = HandlerFields
    BY <1>1 DEF HandlerFields
  <1> HIDE DEF s
  <1>5. ShapeOK(s)
    BY <1>2, <1>4 DEF ShapeOK
  <1> QED  BY <1>2, <1>3, <1>4, <1>5, PutIs

LEMMA AskIs ==
    ASSUME Shapes, NEW q \in Request, NEW s, AskOK(s), Ask(q, s), UNCHANGED handler
    PROVE  Shapes' /\ request'[q] = s /\ \A p \in Request \ {q} : request'[p] = request[p]
  BY DEF Shapes, Ask, AskOK

LEMMA StepIs ==
    ASSUME Shapes, NEW q \in Request, request[q].at # "idle", NEW place \in Recorded,
           Step(q, place), UNCHANGED handler
    PROVE  /\ Shapes' /\ \A p \in Request \ {q} : request'[p] = request[p]
           /\ request'[q].at = place /\ request'[q].call = request[q].call
           /\ request'[q].route = request[q].route /\ request'[q].response = request[q].response
           /\ request'[q].paid = request[q].paid
  <1> DEFINE s == [request[q] EXCEPT !.at = place]
  <1>1. DOMAIN request[q] = RequestFields
    BY IdleIs DEF Shapes
  <1>2. /\ s.at = place /\ s.call = request[q].call /\ s.route = request[q].route
        /\ s.response = request[q].response /\ s.paid = request[q].paid /\ DOMAIN s = RequestFields
    BY <1>1 DEF RequestFields
  <1>3. Ask(q, s)
    BY DEF Step
  <1> HIDE DEF s
  <1>4. AskOK(s)
    BY <1>2 DEF AskOK
  <1> QED  BY <1>2, <1>3, <1>4, AskIs

TablesOK ==
    /\ \A c \in DOMAIN interrupt : InterruptOK(c)
    /\ DOMAIN engine \subseteq Seq(Link) /\ \A r \in DOMAIN engine \ {Root} : RunOK(r)
    /\ EffectsOK

\* What a step of handler h has to show.
Serves(h) ==
    /\ Grows /\ Shapes' /\ TablesOK'
    /\ request' = request
    /\ \A g \in Handler \ {h} : handler'[g] = handler[g]
    /\ HandlerOK(handler[h])'
    /\ handler'[h].at \in Served =>
          /\ handler'[h].call = handler[h].call
          /\ handler[h].at \in Served \/ handler[h].call \notin DOMAIN ledger
    /\ \A e \in effects' \ effects : e.call = handler[h].call /\ handler[h].at \in Served

LEMMA ServesKeeps ==
    ASSUME IInv, NEW h \in Handler, Serves(h)
    PROVE  IInv'
  <1>1. ASSUME NEW g \in Handler, g # h PROVE HandlerOK(handler[g])'
    <2>1. handler'[g] = handler[g] /\ HandlerOK(handler[g])
      BY <1>1 DEF Serves, IInv
    <2>2. handler[g].at \in Ahead => \A e \in effects' : e.call # handler[g].call
      <3>1. handler[g].at \in Ahead => handler[g].at \in Served /\ handler[g].at # "idle"
        BY DEF Ahead, Served
      <3>2. ASSUME NEW e \in effects', handler[g].at \in Ahead PROVE e.call # handler[g].call
        <4>1. CASE e \in effects
          BY <2>1, <3>1, <3>2, <4>1 DEF HandlerOK
        <4>2. CASE e \notin effects
          BY <1>1, <3>1, <3>2, <4>2 DEF Serves, IInv, OneHandlerPerCall
        <4> QED  BY <4>1, <4>2
      <3> QED  BY <3>2
    <2>3. HandlerOK(handler[g]) /\ Grows
      BY <2>1 DEF Serves
    <2> QED  BY <2>1, <2>2, <2>3, KeptHandler DEF HandlerOK
  <1>2. ASSUME NEW q \in Request PROVE RequestOK(request[q])'
    <2>1. RequestOK(request[q]) /\ request'[q] = request[q] /\ Grows
      BY DEF Serves, IInv
    <2> QED  BY <2>1, KeptRequest DEF RequestOK
  <1>3. OneHandlerPerCall'
    <2> SUFFICES ASSUME NEW f \in Handler, NEW g \in Handler, f # g,
                        handler'[f].at \in Served, handler'[g].at \in Served,
                        handler'[f].call = handler'[g].call
                 PROVE  FALSE
      BY DEF OneHandlerPerCall
    <2>1. \A k \in Handler : handler[k].at \in Served => handler[k].call \in DOMAIN ledger
      BY DEF IInv, HandlerOK, Served
    <2>2. \A k \in Handler : handler'[k].at \in Served =>
              /\ handler'[k].call = handler[k].call
              /\ handler[k].at \in Served \/ (k = h /\ handler[k].call \notin DOMAIN ledger)
      BY DEF Serves
    <2> QED  BY <2>1, <2>2 DEF IInv, OneHandlerPerCall
  <1> QED  BY <1>1, <1>2, <1>3 DEF IInv, Serves, TablesOK

\* What a step of request q has to show.
Asks(q) ==
    /\ Grows /\ Shapes' /\ TablesOK'
    /\ UNCHANGED <<handler, effects>>
    /\ \A p \in Request \ {q} : request'[p] = request[p]
    /\ RequestOK(request[q])'

LEMMA HandlersStay ==
    ASSUME IInv, Grows, UNCHANGED <<handler, effects>>
    PROVE  OneHandlerPerCall' /\ \A h \in Handler : HandlerOK(handler[h])'
  <1>1. ASSUME NEW h \in Handler PROVE HandlerOK(handler[h])'
    <2>1. HandlerOK(handler[h]) /\ handler'[h] = handler[h]
      BY DEF IInv
    <2>2. handler[h].at \in Ahead => \A e \in effects' : e.call # handler[h].call
      BY <2>1 DEF HandlerOK, Ahead
    <2> QED  BY <2>1, <2>2, KeptHandler DEF HandlerOK
  <1> QED  BY <1>1 DEF IInv, OneHandlerPerCall

LEMMA AsksKeeps ==
    ASSUME IInv, NEW q \in Request, Asks(q)
    PROVE  IInv'
  <1>1. ASSUME NEW p \in Request, p # q PROVE RequestOK(request[p])'
    <2>1. RequestOK(request[p]) /\ request'[p] = request[p] /\ Grows
      BY <1>1 DEF Asks, IInv
    <2> QED  BY <2>1, KeptRequest DEF RequestOK
  <1> QED  BY <1>1, HandlersStay DEF IInv, Asks, TablesOK

\* No run, interrupt or effect comes; the ledger may grow.
TablesStay ==
    /\ UNCHANGED <<interrupt, effects>>
    /\ DOMAIN engine' = DOMAIN engine
    /\ DOMAIN ledger \subseteq DOMAIN ledger'

LEMMA TablesStayOK ==
    ASSUME IInv, TablesStay
    PROVE  Grows /\ TablesOK'
  <1>1. Grows
    BY DEF TablesStay, Grows
  <1>2. ASSUME NEW c \in DOMAIN interrupt PROVE InterruptOK(c)'
    BY <1>1, KeptInterrupt DEF TablesStay, IInv
  <1>3. ASSUME NEW r \in DOMAIN engine \ {Root} PROVE RunOK(r)'
    BY <1>1, KeptRun DEF IInv
  <1>4. EffectsOK'
    BY <1>1, KeptEffects DEF TablesStay, IInv
  <1> QED  BY <1>1, <1>2, <1>3, <1>4 DEF TablesStay, TablesOK, IInv

LEMMA InitHolds == Init => IInv
  <1> SUFFICES ASSUME Init PROVE IInv
    OBVIOUS
  <1>1. DOMAIN interrupt = {} /\ effects = {} /\ DOMAIN engine = {Root} /\ Root \in Seq(Link)
    BY DEF Init, BrokerInit, With, Root
  <1>2. Shapes /\ OneHandlerPerCall
    BY DEF Init, BrokerInit, Shapes, OneHandlerPerCall, Idle, Served
  <1>3. (\A h \in Handler : HandlerOK(handler[h])) /\ \A q \in Request : RequestOK(request[q])
    BY DEF Init, BrokerInit, HandlerOK, RequestOK, Idle
  <1> QED  BY <1>1, <1>2, <1>3 DEF IInv, EffectsOK, OneEffectPerCall

-----------------------------------------------------------------------------
(* The steps of a handler.                                                  *)

LEMMA SendServes ==
    ASSUME IInv, NEW h \in Handler, NEW c \in Calls, NEW t, Send(h, c, t), UNCHANGED request
    PROVE  Serves(h)
  <1> DEFINE s == [at |-> "claim", call |-> c, tool |-> t, expected |-> engine[c.run].seen,
                   credential |-> {}, answer |-> NoAnswer]
  <1>1. s.at = "claim" /\ s.call = c /\ ShapeOK(s)
    BY DEF ShapeOK, HandlerFields, NoAnswer
  <1>2. Put(h, s) /\ TablesStay /\ effects' = effects /\ DOMAIN engine' = DOMAIN engine
    BY DEF Send, TablesStay
  <1> HIDE DEF s
  <1>3. Shapes' /\ handler'[h] = s /\ \A g \in Handler \ {h} : handler'[g] = handler[g]
    BY <1>1, <1>2, PutIs DEF IInv
  <1>4. HandlerOK(handler[h])'
    BY <1>1, <1>2, <1>3 DEF HandlerOK, Calls, Served, Ahead, Passed
  <1> QED  BY <1>1, <1>2, <1>3, <1>4, TablesStayOK DEF Serves, Served

\* A handler that is done.
LEMMA RestsServes ==
    ASSUME IInv, NEW h \in Handler, Put(h, Idle), TablesStay, UNCHANGED request
    PROVE  Serves(h)
  <1>1. Shapes' /\ handler'[h] = Idle /\ \A g \in Handler \ {h} : handler'[g] = handler[g]
    BY PutIs DEF IInv, ShapeOK
  <1>2. HandlerOK(handler[h])' /\ handler'[h].at \notin Served
    BY <1>1, IdleIs DEF HandlerOK, Served
  <1> QED  BY <1>1, <1>2, TablesStayOK DEF Serves, TablesStay

LEMMA ReplyIs ==
    ASSUME NEW r, NEW answer, Reply(r, answer)
    PROVE  DOMAIN engine' = DOMAIN engine
  BY DEF Reply

LEMMA ClaimServes ==
    ASSUME IInv, NEW h \in Handler, Claim(h), UNCHANGED request
    PROVE  Serves(h)
  <1> DEFINE s == handler[h]
  <1>1. s.at = "claim" /\ s.at # "idle" /\ s.at \notin Served /\ HandlerOK(s)
    BY DEF Claim, IInv, Served
  <1>2. CASE Claimable(s.call) /\ Go(h, "check")
             /\ DOMAIN ledger' = DOMAIN ledger \cup {s.call} /\ TablesStay
    <2>1. /\ Shapes' /\ \A g \in Handler \ {h} : handler'[g] = handler[g]
          /\ handler'[h].at = "check" /\ handler'[h].call = s.call
      BY <1>1, <1>2, GoIs DEF IInv, Served
    <2>2. s.call \in Calls' /\ s.call \notin DOMAIN ledger
      BY <1>1, <1>2 DEF HandlerOK, Claimable, TablesStay, Calls
    <2>3. HandlerOK(handler[h])'
      BY <1>2, <2>1, <2>2 DEF HandlerOK, TablesStay, IInv, EffectsOK, Passed
    <2> QED  BY <1>2, <2>1, <2>2, <2>3, TablesStayOK DEF Serves, TablesStay
  <1>3. CASE Put(h, Idle) /\ TablesStay
    BY <1>3, RestsServes
  <1>4. \/ Claimable(s.call) /\ Go(h, "check")
           /\ DOMAIN ledger' = DOMAIN ledger \cup {s.call} /\ TablesStay
        \/ Put(h, Idle) /\ TablesStay
    BY ReplyIs DEF Claim, TablesStay, With
  <1> QED  BY <1>2, <1>3, <1>4

\* A handler that has served its call so far and goes on serving it, past the
\* point where it may execute, if it was.
LEMMA GoesOnServes ==
    ASSUME IInv, NEW h \in Handler, TablesStay, UNCHANGED request, Shapes',
           \A g \in Handler \ {h} : handler'[g] = handler[g],
           handler[h].at \in Served, handler'[h].at \in Served,
           handler'[h].at \in Ahead => handler[h].at \in Ahead,
           handler'[h].call = handler[h].call, handler'[h].tool = handler[h].tool,
           (handler'[h].at \in Passed /\ handler[h].tool \in NeedsConsent)
                => Chain(handler[h].call.run, handler[h].tool),
           handler'[h].at = "credential" => handler[h].tool \in CostlyTool,
           handler'[h].at = "interrupt" =>
              \/ handler'[h].answer.status = "awaiting_confirmation"
              \/ /\ handler'[h].answer.status = "authorization_required"
                 /\ Chain(handler[h].call.run, handler[h].tool)
    PROVE  Serves(h)
  <1>1. Grows /\ TablesOK'
    BY TablesStayOK
  <1>2. HandlerOK(handler[h]) /\ handler[h].at # "idle"
    BY DEF IInv, Served
  <1>3. handler[h].call \in Calls' /\ handler[h].call \in DOMAIN ledger'
    BY <1>1, <1>2 DEF HandlerOK, Calls, Grows
  <1>4. handler[h].at \in Ahead => \A e \in effects' : e.call # handler[h].call
    BY <1>2 DEF HandlerOK, TablesStay
  <1>5. ASSUME NEW r, NEW t, Chain(r, t) PROVE Chain(r, t)'
    BY <1>1, <1>5, ChainStays
  <1>6. ASSUME NEW r, NEW t, r = handler'[h].call.run, t = handler'[h].tool, Chain(r, t)'
        PROVE  Chain(handler[h].call.run, handler[h].tool)'
    BY <1>6 DEF Chain
  <1>7. Chain(handler[h].call.run, handler[h].tool) => Chain(handler[h].call.run, handler[h].tool)'
    BY <1>5, <1>6
  <1>8. HandlerOK(handler[h])'
    BY <1>3, <1>4, <1>7 DEF HandlerOK
  <1> QED  BY <1>1, <1>8 DEF Serves, TablesStay

LEMMA GrantedChain ==
    ASSUME IInv, NEW r, NEW t, Granted(r, t)
    PROVE  Chain(r, t)
  <1>1. PICK c \in DOMAIN interrupt :
            /\ interrupt[c].resumed = {r}
            /\ interrupt[c].tool = t
            /\ interrupt[c].kind = "awaiting_confirmation" \/ interrupt[c].granted
    BY DEF Granted
  <1>2. InterruptOK(c) /\ c \in Site
    BY DEF IInv, InterruptOK, Calls, Site
  <1>3. PICK x \in Response, trigger \in Trigger :
            interrupt[c].response = {x} /\ r = Resumed(c, x, trigger)
    BY <1>1, <1>2 DEF InterruptOK
  <1>4. \/ interrupt[c].kind = "awaiting_confirmation"
        \/ interrupt[c].kind = "authorization_required" /\ Chain(c.run, t)
    BY <1>1, <1>2 DEF InterruptOK
  <1> QED  BY <1>1, <1>2, <1>3, <1>4, ConfirmedChain

LEMMA CheckServes ==
    ASSUME IInv, NEW h \in Handler, CheckConfirmation(h), UNCHANGED request
    PROVE  Serves(h)
  <1> DEFINE s == handler[h]
  <1>1. s.at = "check" /\ s.at # "idle" /\ s.at \in Served /\ TablesStay
    BY DEF CheckConfirmation, Served, TablesStay
  <1>2. CASE Answered(h, "interrupt", "awaiting_confirmation")
    <2>1. /\ Shapes' /\ \A g \in Handler \ {h} : handler'[g] = handler[g]
          /\ handler'[h].at = "interrupt" /\ handler'[h].call = s.call
          /\ handler'[h].tool = s.tool /\ handler'[h].answer.status = "awaiting_confirmation"
      BY <1>1, <1>2, AnsweredIs DEF IInv, Served
    <2> QED  BY <1>1, <2>1, GoesOnServes DEF Served, Ahead, Passed
  <1>3. CASE Go(h, "workspace") /\ (s.tool \in NeedsConsent => Granted(s.call.run, s.tool))
    <2>1. /\ Shapes' /\ \A g \in Handler \ {h} : handler'[g] = handler[g]
          /\ handler'[h].at = "workspace" /\ handler'[h].call = s.call /\ handler'[h].tool = s.tool
      BY <1>1, <1>3, GoIs DEF IInv, Served
    <2>2. s.tool \in NeedsConsent => Chain(s.call.run, s.tool)
      BY <1>3, GrantedChain
    <2> QED  BY <1>1, <2>1, <2>2, GoesOnServes DEF Served, Ahead, Passed
  <1> QED  BY <1>2, <1>3 DEF CheckConfirmation

\* A handler past the confirmation has its consent.
LEMMA PassedChain ==
    ASSUME IInv, NEW h \in Handler, handler[h].at \in Passed, handler[h].tool \in NeedsConsent
    PROVE  Chain(handler[h].call.run, handler[h].tool)
  BY DEF IInv, HandlerOK, Passed

LEMMA LoadServes ==
    ASSUME IInv, NEW h \in Handler, LoadWorkspace(h), UNCHANGED request
    PROVE  Serves(h)
  <1> DEFINE s == handler[h]
  <1>1. s.at = "workspace" /\ s.at # "idle" /\ s.at \in Served /\ s.at \in Passed /\ TablesStay
    BY DEF LoadWorkspace, Served, Passed, TablesStay
  <1>2. CASE Answered(h, "complete", "rejected")
    <2>1. /\ Shapes' /\ \A g \in Handler \ {h} : handler'[g] = handler[g]
          /\ handler'[h].at = "complete" /\ handler'[h].call = s.call /\ handler'[h].tool = s.tool
      BY <1>1, <1>2, AnsweredIs DEF IInv, Served
    <2> QED  BY <1>1, <2>1, GoesOnServes DEF Served, Ahead, Passed
  <1>3. ASSUME NEW place \in {"credential", "execute"}, Go(h, place),
               place = "credential" => s.tool \in CostlyTool
        PROVE  Serves(h)
    <2>0. place \in Served
      BY DEF Served
    <2>1. /\ Shapes' /\ \A g \in Handler \ {h} : handler'[g] = handler[g]
          /\ handler'[h].at = place /\ handler'[h].call = s.call /\ handler'[h].tool = s.tool
      BY <1>1, <1>3, <2>0, GoIs DEF IInv
    <2> QED  BY <1>1, <1>3, <2>1, PassedChain, GoesOnServes DEF Served, Ahead, Passed
  <1> QED  BY <1>2, <1>3 DEF LoadWorkspace

LEMMA TakeServes ==
    ASSUME IInv, NEW h \in Handler, TakeCredential(h), UNCHANGED request
    PROVE  Serves(h)
  <1> DEFINE s == handler[h]
  <1>1. /\ s.at = "credential" /\ s.at # "idle" /\ s.at \in Served /\ s.at \in Passed /\ TablesStay
        /\ s.tool \in NeedsConsent
    BY DEF TakeCredential, Served, Passed, TablesStay, IInv, HandlerOK, NeedsConsent
  <1>2. Chain(s.call.run, s.tool)
    BY <1>1, PassedChain
  <1>3. ASSUME NEW x, Put(h, [s EXCEPT !.at = "execute", !.credential = x])
        PROVE  Serves(h)
    <2> DEFINE n == [s EXCEPT !.at = "execute", !.credential = x]
    <2>1. DOMAIN s = HandlerFields /\ DOMAIN s.answer = {"status", "revision"}
      BY <1>1, IdleIs DEF IInv, Shapes
    <2>2. /\ n.at = "execute" /\ n.call = s.call /\ n.tool = s.tool /\ n.answer = s.answer
          /\ DOMAIN n = HandlerFields
      BY <2>1 DEF HandlerFields
    <2>3. Put(h, n)
      BY <1>3
    <2> HIDE DEF n
    <2>4. ShapeOK(n)
      BY <2>1, <2>2 DEF ShapeOK, Served
    <2>5. Shapes' /\ handler'[h] = n /\ \A g \in Handler \ {h} : handler'[g] = handler[g]
      BY <2>3, <2>4, PutIs DEF IInv
    <2> QED  BY <1>1, <1>2, <2>2, <2>5, GoesOnServes DEF Served, Ahead, Passed
  <1>4. CASE Answered(h, "interrupt", "authorization_required")
    <2>1. /\ Shapes' /\ \A g \in Handler \ {h} : handler'[g] = handler[g]
          /\ handler'[h].at = "interrupt" /\ handler'[h].call = s.call
          /\ handler'[h].tool = s.tool /\ handler'[h].answer.status = "authorization_required"
      BY <1>1, <1>4, AnsweredIs DEF IInv, Served
    <2> QED  BY <1>1, <1>2, <2>1, GoesOnServes DEF Served, Ahead, Passed
  <1> QED  BY <1>3, <1>4 DEF TakeCredential

LEMMA OpenServes ==
    ASSUME IInv, NEW h \in Handler, OpenInterrupt(h), UNCHANGED request
    PROVE  Serves(h)
  <1> DEFINE s == handler[h]
             row == [kind |-> s.answer.status, tool |-> s.tool,
                     granted |-> s.answer.status = "authorization_required",
                     payload |-> {}, response |-> {}, resumed |-> {}]
  <1>1. /\ s.at = "interrupt" /\ s.at # "idle" /\ s.at \in Served /\ Go(h, "complete")
        /\ interrupt' = IF s.call \in DOMAIN interrupt THEN interrupt ELSE With(interrupt, s.call, row)
        /\ UNCHANGED <<ledger, engine, effects>>
    BY DEF OpenInterrupt, Served
  <1>2. /\ Shapes' /\ \A g \in Handler \ {h} : handler'[g] = handler[g]
        /\ handler'[h].at = "complete" /\ handler'[h].call = s.call /\ handler'[h].tool = s.tool
    BY <1>1, GoIs DEF IInv, Served
  <1>3. CASE s.call \in DOMAIN interrupt
    <2>1. TablesStay
      BY <1>1, <1>3 DEF TablesStay
    <2> QED  BY <1>1, <1>2, <2>1, GoesOnServes DEF Served, Ahead, Passed
  <1>4. CASE s.call \notin DOMAIN interrupt
    <2>1. /\ DOMAIN interrupt' = DOMAIN interrupt \cup {s.call} /\ interrupt'[s.call] = row
          /\ \A c \in DOMAIN interrupt : interrupt'[c] = interrupt[c]
      BY <1>1, <1>4 DEF With
    <2>2. Grows
      BY <1>1, <2>1 DEF Grows
    <2>3. HandlerOK(s)
      BY DEF IInv
    <2>4. HandlerOK(handler[h])'
      BY <1>1, <1>2, <2>3 DEF HandlerOK, Calls, Served, Ahead, Passed
    <2>5. ASSUME NEW c, c = s.call PROVE InterruptOK(c)'
      <3>1. /\ DOMAIN row = RowFields /\ row.kind = s.answer.status /\ row.tool = s.tool
            /\ row.granted <=> s.answer.status = "authorization_required"
            /\ row.response = {} /\ row.resumed = {}
        BY DEF RowFields
      <3> HIDE DEF row
      <3>2. c \in Calls'
        BY <1>1, <2>3, <2>5 DEF HandlerOK, Calls
      <3>3. ASSUME NEW t, t = s.tool, row.granted PROVE Chain(c.run, t)'
        <4>1. Chain(c.run, t)
          BY <1>1, <2>3, <2>5, <3>1, <3>3 DEF HandlerOK
        <4> QED  BY <2>2, <4>1, ChainStays
      <3> QED  BY <1>1, <2>1, <2>3, <2>5, <3>1, <3>2, <3>3 DEF InterruptOK, HandlerOK
    <2>6. ASSUME NEW c \in DOMAIN interrupt PROVE InterruptOK(c)'
      BY <2>1, <2>2, KeptInterrupt DEF IInv
    <2>7. ASSUME NEW r \in DOMAIN engine \ {Root} PROVE RunOK(r)'
      BY <2>2, KeptRun DEF IInv
    <2>8. EffectsOK'
      BY <1>1, <2>2, KeptEffects DEF IInv
    <2>9. TablesOK'
      <3>1. \A c \in DOMAIN interrupt' : InterruptOK(c)'
        BY <2>1, <2>5, <2>6
      <3> QED  BY <1>1, <2>7, <2>8, <3>1 DEF TablesOK, IInv
    <2> QED  BY <1>1, <1>2, <2>2, <2>4, <2>9 DEF Serves
  <1> QED  BY <1>3, <1>4

LEMMA ExecuteServes ==
    ASSUME IInv, NEW h \in Handler, Execute(h), UNCHANGED request
    PROVE  Serves(h)
  <1> DEFINE s == handler[h]
  <1>1. /\ s.at = "execute" /\ s.at # "idle" /\ s.at \in Served /\ s.at \in Ahead /\ s.at \in Passed
        /\ UNCHANGED <<ledger, interrupt, engine>>
    BY DEF Execute, Served, Ahead, Passed
  <1>2. HandlerOK(s)
    BY DEF IInv
  <1>3. ASSUME NEW place \in {"observe", "complete"},
               Go(h, place) \/ Answered(h, place, "failed")
        PROVE  /\ Shapes' /\ \A g \in Handler \ {h} : handler'[g] = handler[g]
               /\ handler'[h].at = place /\ handler'[h].call = s.call /\ handler'[h].tool = s.tool
    <2>1. place \in Served
      BY DEF Served
    <2> QED  BY <1>1, <1>3, <2>1, GoIs, AnsweredIs DEF IInv
  <1>4. PICK place \in {"observe", "complete"} : Go(h, place) \/ Answered(h, place, "failed")
    BY DEF Execute
  <1>5. CASE UNCHANGED effects
    <2>1. TablesStay
      BY <1>1, <1>5 DEF TablesStay
    <2> QED  BY <1>1, <1>3, <1>4, <2>1, PassedChain, GoesOnServes DEF Served, Ahead, Passed
  <1>6. CASE effects' = effects \cup {Effect(s)}
    <2>1. Effect(s).call = s.call /\ Effect(s).tool = s.tool
      BY DEF Effect
    <2>2. Grows
      BY <1>1 DEF Grows
    <2>3. s.call \in DOMAIN ledger /\ \A e \in effects : e.call # s.call
      BY <1>1, <1>2 DEF HandlerOK
    <2>4. ASSUME NEW e \in effects', e.tool \in NeedsConsent PROVE Chain(e.call.run, e.tool)'
      <3>1. CASE e \in effects
        BY <2>2, <2>4, <3>1, ChainStays DEF IInv, EffectsOK
      <3>2. CASE e = Effect(s)
        <4>1. Chain(e.call.run, e.tool)
          BY <1>1, <2>1, <2>4, <3>2, PassedChain
        <4> QED  BY <2>2, <4>1, ChainStays
      <3> QED  BY <1>6, <3>1, <3>2
    <2>5. EffectsOK'
      <3>1. OneEffectPerCall'
        BY <1>6, <2>1, <2>3 DEF IInv, EffectsOK, OneEffectPerCall
      <3>2. \A e \in effects' : e.call \in DOMAIN ledger'
        BY <1>1, <1>6, <2>1, <2>3 DEF IInv, EffectsOK
      <3> QED  BY <2>4, <3>1, <3>2 DEF EffectsOK
    <2>6. ASSUME NEW c \in DOMAIN interrupt PROVE InterruptOK(c)'
      BY <1>1, <2>2, KeptInterrupt DEF IInv
    <2>7. ASSUME NEW r \in DOMAIN engine \ {Root} PROVE RunOK(r)'
      BY <2>2, KeptRun DEF IInv
    <2>8. TablesOK'
      BY <1>1, <2>5, <2>6, <2>7 DEF TablesOK, IInv
    <2>9. /\ Shapes' /\ \A g \in Handler \ {h} : handler'[g] = handler[g]
          /\ handler'[h].at = place /\ handler'[h].call = s.call /\ handler'[h].tool = s.tool
      BY <1>3, <1>4
    <2>10. s.call \in Calls'
      BY <1>1, <1>2 DEF HandlerOK, Calls
    <2>11. ASSUME NEW r, NEW t, r = s.call.run, t = s.tool, t \in NeedsConsent PROVE Chain(r, t)'
      <3>1. Chain(r, t)
        BY <1>1, <2>11, PassedChain
      <3> QED  BY <2>2, <3>1, ChainStays
    <2>12. ASSUME NEW x, x.at = place, x.call = s.call, x.tool = s.tool PROVE HandlerOK(x)'
      <3>1. x.tool \in NeedsConsent => Chain(x.call.run, x.tool)'
        BY <2>11, <2>12
      <3> QED  BY <1>1, <2>3, <2>10, <2>12, <3>1 DEF HandlerOK, Ahead
    <2>13. HandlerOK(handler[h])'
      BY <2>9, <2>12 DEF HandlerOK
    <2> QED  BY <1>1, <1>6, <2>1, <2>2, <2>8, <2>9, <2>13 DEF Serves
  <1> QED  BY <1>5, <1>6 DEF Execute

LEMMA ObserveServes ==
    ASSUME IInv, NEW h \in Handler, Observe(h), UNCHANGED request
    PROVE  Serves(h)
  <1> DEFINE s == handler[h]
  <1>1. s.at = "observe" /\ s.at # "idle" /\ s.at \in Served /\ TablesStay
    BY DEF Observe, Served, TablesStay
  <1>2. ASSUME NEW status,
               Put(h, [s EXCEPT !.at = "complete", !.answer = [status |-> status, revision |-> revision]])
        PROVE  Serves(h)
    <2> DEFINE a == [status |-> status, revision |-> revision]
               n == [s EXCEPT !.at = "complete", !.answer = a]
    <2>1. DOMAIN s = HandlerFields /\ DOMAIN a = {"status", "revision"}
      BY <1>1, IdleIs DEF IInv, Shapes
    <2>2. Put(h, n)
      BY <1>2
    <2> HIDE DEF a
    <2>3. /\ n.at = "complete" /\ n.call = s.call /\ n.tool = s.tool /\ n.answer = a
          /\ DOMAIN n = HandlerFields
      BY <2>1 DEF HandlerFields
    <2> HIDE DEF n
    <2>4. ShapeOK(n)
      BY <2>1, <2>3 DEF ShapeOK, Served
    <2>5. Shapes' /\ handler'[h] = n /\ \A g \in Handler \ {h} : handler'[g] = handler[g]
      BY <1>1, <2>2, <2>4, PutIs DEF IInv
    <2> QED  BY <1>1, <2>3, <2>5, GoesOnServes DEF Served, Ahead, Passed
  <1>3. CASE Answered(h, "complete", "failed")
    <2>1. /\ Shapes' /\ \A g \in Handler \ {h} : handler'[g] = handler[g]
          /\ handler'[h].at = "complete" /\ handler'[h].call = s.call /\ handler'[h].tool = s.tool
      BY <1>1, <1>3, AnsweredIs DEF IInv, Served
    <2> QED  BY <1>1, <2>1, GoesOnServes DEF Served, Ahead, Passed
  <1> QED  BY <1>2, <1>3 DEF Observe

LEMMA CompleteServes ==
    ASSUME IInv, NEW h \in Handler, Complete(h), UNCHANGED request
    PROVE  Serves(h)
  <1>1. Put(h, Idle) /\ DOMAIN ledger' = DOMAIN ledger /\ UNCHANGED <<interrupt, effects>>
    BY DEF Complete
  <1>2. DOMAIN engine' = DOMAIN engine
    BY ReplyIs DEF Complete
  <1> QED  BY <1>1, <1>2, RestsServes DEF TablesStay

LEMMA BrokerKeeps ==
    ASSUME IInv, NEW h \in Handler, BrokerStep(h), UNCHANGED request
    PROVE  IInv'
  BY ClaimServes, CheckServes, LoadServes, TakeServes, OpenServes, ExecuteServes, ObserveServes,
     CompleteServes, ServesKeeps DEF BrokerStep

-----------------------------------------------------------------------------
(* The steps of a request.                                                  *)

\* A request that is done.
LEMMA QuitsIs ==
    ASSUME IInv, NEW q \in Request, Quit(q), UNCHANGED handler
    PROVE  /\ Shapes' /\ RequestOK(request[q])'
           /\ \A p \in Request \ {q} : request'[p] = request[p]
  <1>1. /\ Shapes' /\ request'[q] = Idle
        /\ \A p \in Request \ {q} : request'[p] = request[p]
    BY AskIs DEF IInv, Quit, AskOK
  <1> QED  BY <1>1, IdleIs DEF RequestOK

LEMMA ReceiveAsks ==
    ASSUME IInv, NEW q \in Request, NEW c \in DOMAIN interrupt, NEW route \in UsedRoute,
           NEW response \in Response, NEW paid, Receive(q, c, route, response, paid)
    PROVE  Asks(q)
  <1> DEFINE s == [at |-> "respond", call |-> c, route |-> route, response |-> response,
                   base |-> revision, paid |-> paid]
             n(x) == [at |-> "grant", call |-> c, route |-> route, response |-> x,
                      base |-> revision, paid |-> paid]
             one == CHOOSE r \in interrupt[c].response : TRUE
  <1>1. TakenBy(route, interrupt[c].kind) /\ UNCHANGED brokerVars
    BY DEF Receive
  <1>2. TablesStay /\ UNCHANGED <<handler, effects, interrupt>>
    BY <1>1 DEF TablesStay, brokerVars
  <1>3. CASE Ask(q, s)
    <2>1. AskOK(s) /\ s.at = "respond" /\ s.call = c /\ s.route = route /\ s.response = response
      BY DEF AskOK, RequestFields
    <2> HIDE DEF s
    <2>2. Shapes' /\ request'[q] = s /\ \A p \in Request \ {q} : request'[p] = request[p]
      BY <1>2, <1>3, <2>1, AskIs DEF IInv
    <2>3. RequestOK(request[q])'
      BY <1>1, <1>2, <2>1, <2>2 DEF RequestOK, Recorded
    <2> QED  BY <1>2, <2>2, <2>3, TablesStayOK DEF Asks
  <1>4. CASE interrupt[c].response # {} /\ Ask(q, n(one))
    <2>1. InterruptOK(c)
      BY DEF IInv
    <2>2. one \in Response /\ interrupt[c].response = {one}
      BY <1>4, <2>1 DEF InterruptOK
    <2> HIDE DEF one
    <2>3. /\ AskOK(n(one)) /\ n(one).at = "grant" /\ n(one).call = c /\ n(one).route = route
          /\ n(one).response = one
      BY DEF AskOK, RequestFields, Recorded
    <2> HIDE DEF n
    <2>4. Shapes' /\ request'[q] = n(one) /\ \A p \in Request \ {q} : request'[p] = request[p]
      BY <1>2, <1>4, <2>3, AskIs DEF IInv
    <2>5. RequestOK(request[q])'
      BY <1>1, <1>2, <2>2, <2>3, <2>4 DEF RequestOK
    <2> QED  BY <1>2, <2>4, <2>5, TablesStayOK DEF Asks
  <1>5. [s EXCEPT !.at = "grant", !.response = one] = n(one)
    <2> DEFINE m == [s EXCEPT !.at = "grant"]
    <2>1. m = n(response)
      OBVIOUS
    <2>2. \A x : [n(response) EXCEPT !.response = x] = n(x)
      OBVIOUS
    <2>3. [s EXCEPT !.at = "grant", !.response = one] = [m EXCEPT !.response = one]
      OBVIOUS
    <2> HIDE DEF m, n, one
    <2> QED  BY <2>1, <2>2, <2>3
  <1> QED  BY <1>3, <1>4, <1>5 DEF Receive, Continues

\* A request gives up, or goes on with what it has, and writes no table.
LEMMA QuitAsks ==
    ASSUME IInv, NEW q \in Request, Quit(q), TablesStay, UNCHANGED <<handler, effects>>
    PROVE  Asks(q)
  BY QuitsIs, TablesStayOK DEF Asks

LEMMA StepAsks ==
    ASSUME IInv, NEW q \in Request, NEW place \in Recorded, Step(q, place), TablesStay,
           UNCHANGED <<handler, effects>>, request[q].at \in Recorded
    PROVE  Asks(q)
  <1>1. request[q].at # "idle" /\ RequestOK(request[q])
    BY DEF Recorded, IInv
  <1>2. /\ Shapes' /\ \A p \in Request \ {q} : request'[p] = request[p]
        /\ request'[q].at = place /\ request'[q].call = request[q].call
        /\ request'[q].route = request[q].route /\ request'[q].response = request[q].response
    BY <1>1, StepIs DEF IInv
  <1>3. RequestOK(request[q])'
    BY <1>1, <1>2 DEF RequestOK, TablesStay
  <1> QED  BY <1>2, <1>3, TablesStayOK DEF Asks

\* One row of an interrupt changes, in its response or in its run.
LEMMA InterruptAsks ==
    ASSUME IInv, NEW c \in DOMAIN interrupt, NEW row, InterruptOK(c)',
           interrupt' = [interrupt EXCEPT ![c] = row],
           row.kind = interrupt[c].kind, row.tool = interrupt[c].tool,
           interrupt[c].response # {} => row.response = interrupt[c].response,
           UNCHANGED <<ledger, effects>>, DOMAIN engine' = DOMAIN engine
    PROVE  Grows /\ TablesOK'
  <1>1. Grows
    BY DEF Grows
  <1>2. ASSUME NEW d \in DOMAIN interrupt, d # c PROVE InterruptOK(d)'
    BY <1>1, <1>2, KeptInterrupt DEF IInv
  <1>3. ASSUME NEW r \in DOMAIN engine \ {Root} PROVE RunOK(r)'
    BY <1>1, KeptRun DEF IInv
  <1>4. EffectsOK'
    BY <1>1, KeptEffects DEF IInv
  <1>5. DOMAIN interrupt' = DOMAIN interrupt
    OBVIOUS
  <1> QED  BY <1>1, <1>2, <1>3, <1>4, <1>5 DEF TablesOK, IInv

LEMMA RespondAsks ==
    ASSUME IInv, NEW q \in Request, Respond(q)
    PROVE  Asks(q)
  <1> DEFINE s == request[q]
  <1>1. s.at = "respond" /\ s.at # "idle" /\ RequestOK(s)
    BY DEF Respond, IInv
  <1>2. PICK c \in DOMAIN interrupt : c = s.call
    BY <1>1 DEF RequestOK
  <1>3. InterruptOK(c)
    BY DEF IInv
  <1>4. UNCHANGED <<revision, ledger, engine, vault, handler, effects, faults>>
    BY DEF Respond
  <1>5. CASE Quit(q) /\ UNCHANGED interrupt
    <2>1. TablesStay /\ UNCHANGED <<handler, effects>>
      BY <1>4, <1>5 DEF TablesStay
    <2> QED  BY <1>5, <2>1, QuitAsks
  <1>6. CASE /\ Accepts(interrupt[c], s) /\ (Step(q, "grant") \/ Quit(q))
             /\ interrupt' = [interrupt EXCEPT ![c].response = {s.response},
                                               ![c].payload = {Payload(s.route)}]
    <2> DEFINE row == [interrupt[c] EXCEPT !.response = {s.response}, !.payload = {Payload(s.route)}]
    <2>1. DOMAIN interrupt[c] = RowFields
      BY <1>3 DEF InterruptOK
    <2>2. /\ DOMAIN row = RowFields /\ row.kind = interrupt[c].kind /\ row.tool = interrupt[c].tool
          /\ row.granted = interrupt[c].granted /\ row.resumed = interrupt[c].resumed
          /\ row.response = {s.response}
      BY <2>1 DEF RowFields
    <2>3. interrupt' = [interrupt EXCEPT ![c] = row]
      BY <1>6
    <2> HIDE DEF row
    <2>4. interrupt'[c] = row
      BY <2>3
    <2>5. s.response \in Response
      BY <1>1 DEF RequestOK
    <2>6. interrupt[c].response # {} => row.response = interrupt[c].response
      BY <1>6, <2>2 DEF Accepts
    <2>7. Grows
      BY <1>4, <2>2, <2>3, <2>6 DEF Grows
    <2>8. InterruptOK(c)'
      <3>1. c \in Calls'
        BY <1>3, <1>4 DEF InterruptOK, Calls
      <3>2. ASSUME NEW t, t = interrupt[c].tool, interrupt[c].granted PROVE Chain(c.run, t)'
        BY <1>3, <2>7, <3>2, ChainStays DEF InterruptOK
      <3>3. \/ row.resumed = {}
            \/ \E x \in Response, trigger \in Trigger :
                  row.response = {x} /\ row.resumed = {Resumed(c, x, trigger)}
        <4>1. CASE interrupt[c].resumed = {}
          BY <2>2, <4>1
        <4>2. CASE interrupt[c].resumed # {}
          <5>1. PICK x \in Response, trigger \in Trigger :
                    interrupt[c].response = {x} /\ interrupt[c].resumed = {Resumed(c, x, trigger)}
            BY <1>3, <4>2 DEF InterruptOK
          <5>2. row.response = {x}
            BY <2>6, <5>1
          <5> QED  BY <2>2, <5>1, <5>2
        <4> QED  BY <4>1, <4>2
      <3>4. row.granted <=> row.kind = "authorization_required"
        BY <1>3, <2>2 DEF InterruptOK
      <3>5. ASSUME NEW t, t = row.tool, row.granted PROVE Chain(c.run, t)'
        BY <2>2, <3>2, <3>5
      <3> QED  BY <2>2, <2>4, <2>5, <3>1, <3>3, <3>4, <3>5 DEF InterruptOK
    <2>9. Grows /\ TablesOK'
      BY <1>4, <2>2, <2>3, <2>6, <2>8, InterruptAsks
    <2>10. CASE Quit(q)
      BY <1>4, <2>9, <2>10, QuitsIs DEF Asks
    <2>11. CASE Step(q, "grant")
      <3>1. /\ Shapes' /\ \A p \in Request \ {q} : request'[p] = request[p]
            /\ request'[q].at = "grant" /\ request'[q].call = c
            /\ request'[q].route = s.route /\ request'[q].response = s.response
        BY <1>1, <1>2, <1>4, <2>11, StepIs DEF IInv, Recorded
      <3>2. RequestOK(request[q])'
        BY <1>1, <1>2, <2>2, <2>3, <2>4, <3>1 DEF RequestOK
      <3> QED  BY <1>4, <2>9, <3>1, <3>2 DEF Asks
    <2> QED  BY <1>6, <2>10, <2>11
  <1> QED  BY <1>2, <1>5, <1>6 DEF Respond

\* What the creation of a run adds to the engine.
LEMMA CreatedAdds ==
    ASSUME IInv, NEW q \in Request, request[q].at = "create", engine' = Created(request[q]),
           UNCHANGED <<ledger, interrupt, effects>>
    PROVE  Grows /\ TablesOK'
  <1> DEFINE s == request[q]
  <1>1. RequestOK(s) /\ s.at # "idle" /\ s.at \in Recorded
    BY DEF IInv, Recorded
  <1>2. PICK c \in DOMAIN interrupt, route \in UsedRoute, x \in Response :
            /\ c = s.call /\ route = s.route /\ x = s.response
            /\ TakenBy(route, interrupt[c].kind) /\ interrupt[c].response = {x}
    BY <1>1 DEF RequestOK
  <1>3. c \in Site
    BY DEF IInv, InterruptOK, Calls, Site
  <1> DEFINE r == Resumed(c, x, TriggerOf(route))
  <1>4. r \in Seq(Link)
    BY <1>3, TriggersAre, ResumedIs
  <1>5. RunOf(s) = r
    BY <1>2 DEF RunOf
  <1>6. DOMAIN engine' = DOMAIN engine \cup {r}
    BY <1>5 DEF Created, With
  <1>7. RunOK(r)
    BY <1>2 DEF RunOK
  <1> HIDE DEF r
  <1>8. Grows
    BY <1>6 DEF Grows
  <1>9. ASSUME NEW z \in DOMAIN engine' \ {Root} PROVE RunOK(z)'
    BY <1>6, <1>7, <1>8, KeptRun DEF IInv
  <1>10. ASSUME NEW d \in DOMAIN interrupt PROVE InterruptOK(d)'
    BY <1>8, KeptInterrupt DEF IInv
  <1>11. EffectsOK'
    BY <1>8, KeptEffects DEF IInv
  <1> QED  BY <1>4, <1>6, <1>8, <1>9, <1>10, <1>11 DEF TablesOK, IInv

LEMMA CreateAsks ==
    ASSUME IInv, NEW q \in Request, CreateRun(q) \/ CreateFails(q)
    PROVE  Asks(q)
  <1> DEFINE s == request[q]
  <1>1. /\ s.at = "create" /\ s.at # "idle" /\ s.at \in Recorded /\ RequestOK(s)
        /\ UNCHANGED <<ledger, interrupt, handler, effects>>
    BY DEF CreateRun, CreateFails, Recorded, IInv
  <1>2. CASE engine' = engine /\ Quit(q)
    <2>1. TablesStay
      BY <1>1, <1>2 DEF TablesStay
    <2> QED  BY <1>1, <1>2, <2>1, QuitAsks
  <1>3. CASE engine' = Created(s) /\ Quit(q)
    BY <1>1, <1>3, CreatedAdds, QuitsIs DEF Asks
  <1>4. CASE engine' = Created(s) /\ Step(q, "bind")
    <2>1. /\ Shapes' /\ \A p \in Request \ {q} : request'[p] = request[p]
          /\ request'[q].at = "bind" /\ request'[q].call = s.call
          /\ request'[q].route = s.route /\ request'[q].response = s.response
      BY <1>1, <1>4, StepIs DEF IInv, Recorded
    <2>2. RequestOK(request[q])'
      BY <1>1, <2>1 DEF RequestOK
    <2> QED  BY <1>1, <1>4, <2>1, <2>2, CreatedAdds DEF Asks
  <1> QED  BY <1>2, <1>3, <1>4 DEF CreateRun, CreateFails

LEMMA ActivatedRuns == \A r : DOMAIN Activated(r) = DOMAIN engine
  BY DEF Activated

LEMMA GrantAsks ==
    ASSUME IInv, NEW q \in Request, PutGrant(q) \/ BindRun(q) \/ Activate(q) \/ ActivateFails(q)
    PROVE  Asks(q)
  <1>1. /\ request[q].at \in Recorded
        /\ UNCHANGED <<ledger, interrupt, handler, effects>>
        /\ DOMAIN engine' = DOMAIN engine
    BY ActivatedRuns DEF PutGrant, BindRun, Activate, ActivateFails, Recorded
  <1>2. TablesStay
    BY <1>1 DEF TablesStay
  <1>3. (\E place \in Recorded : Step(q, place)) \/ Quit(q)
    BY DEF PutGrant, BindRun, Activate, ActivateFails, Recorded
  <1> QED  BY <1>1, <1>2, <1>3, StepAsks, QuitAsks

LEMMA BindAsks ==
    ASSUME IInv, NEW q \in Request, BindResume(q)
    PROVE  Asks(q)
  <1> DEFINE s == request[q]
  <1>1. /\ s.at = "finish" /\ s.at # "idle" /\ RequestOK(s) /\ Quit(q)
        /\ UNCHANGED <<ledger, engine, handler, effects>>
    BY DEF BindResume, IInv
  <1>2. PICK c \in DOMAIN interrupt : c = s.call
    BY <1>1 DEF RequestOK
  <1>3. InterruptOK(c)
    BY DEF IInv
  <1>4. CASE UNCHANGED interrupt
    <2>1. TablesStay
      BY <1>1, <1>4 DEF TablesStay
    <2> QED  BY <1>1, <2>1, QuitAsks
  <1>5. CASE /\ interrupt[c].response = {s.response}
             /\ interrupt' = [interrupt EXCEPT ![c].resumed = {RunOf(s)}]
    <2>1. PICK x \in Response, route \in UsedRoute : x = s.response /\ route = s.route
      BY <1>1 DEF RequestOK
    <2>2. RunOf(s) = Resumed(c, x, TriggerOf(route)) /\ interrupt[c].response = {x}
      BY <1>2, <1>5, <2>1 DEF RunOf
    <2> DEFINE run == RunOf(s)
               row == [interrupt[c] EXCEPT !.resumed = {run}]
    <2>3. interrupt' = [interrupt EXCEPT ![c] = row]
      BY <1>5
    <2>4. DOMAIN interrupt[c] = RowFields
      BY <1>3 DEF InterruptOK
    <2> HIDE DEF run
    <2>5. /\ DOMAIN row = RowFields /\ row.kind = interrupt[c].kind /\ row.tool = interrupt[c].tool
          /\ row.granted = interrupt[c].granted /\ row.resumed = {run}
          /\ row.response = interrupt[c].response
      BY <2>4 DEF RowFields
    <2>6. run = Resumed(c, x, TriggerOf(route))
      BY <2>2 DEF run
    <2> HIDE DEF row
    <2>7. interrupt'[c] = row
      BY <2>3
    <2>8. Grows
      BY <1>1, <2>3, <2>5 DEF Grows
    <2>9. InterruptOK(c)'
      <3>1. c \in Calls'
        BY <1>1, <1>3 DEF InterruptOK, Calls
      <3>2. ASSUME NEW t, t = row.tool, row.granted PROVE Chain(c.run, t)'
        BY <1>3, <2>5, <2>8, <3>2, ChainStays DEF InterruptOK
      <3>3. row.granted <=> row.kind = "authorization_required"
        BY <1>3, <2>5 DEF InterruptOK
      <3>4. \E y \in Response, trigger \in Trigger :
                row.response = {y} /\ row.resumed = {Resumed(c, y, trigger)}
        BY <2>2, <2>5, <2>6, TriggersAre
      <3> QED  BY <2>5, <2>7, <3>1, <3>2, <3>3, <3>4 DEF InterruptOK
    <2>10. Grows /\ TablesOK'
      BY <1>1, <2>3, <2>5, <2>9, InterruptAsks
    <2> QED  BY <1>1, <2>10, QuitsIs DEF Asks
  <1> QED  BY <1>2, <1>4, <1>5 DEF BindResume

-----------------------------------------------------------------------------
(* The environment, and the whole.                                          *)

LEMMA EnvironmentKeeps ==
    ASSUME IInv, TablesStay, UNCHANGED <<handler, effects, request>>
    PROVE  IInv'
  <1>1. Grows /\ TablesOK'
    BY TablesStayOK
  <1>2. ASSUME NEW q \in Request PROVE RequestOK(request[q])'
    <2>1. RequestOK(request[q]) /\ request'[q] = request[q]
      BY DEF IInv
    <2> QED  BY <1>1, <2>1, KeptRequest DEF RequestOK
  <1> QED  BY <1>1, <1>2, HandlersStay DEF IInv, TablesOK, Shapes

LEMMA CrashKeeps ==
    ASSUME IInv, GatewayCrash
    PROVE  IInv'
  <1>1. TablesStay /\ handler' = [h \in Handler |-> Idle] /\ request' = [q \in Request |-> Idle]
    BY DEF GatewayCrash, TablesStay
  <1>2. Shapes' /\ OneHandlerPerCall'
    BY <1>1, IdleIs DEF Shapes, OneHandlerPerCall, Served
  <1>3. (\A h \in Handler : HandlerOK(handler[h])') /\ \A q \in Request : RequestOK(request[q])'
    BY <1>1, IdleIs DEF HandlerOK, RequestOK
  <1> QED  BY <1>1, <1>2, <1>3, TablesStayOK DEF IInv, TablesOK

LEMMA NextKeeps == IInv /\ [Next]_vars => IInv'
  <1> SUFFICES ASSUME IInv, [Next]_vars PROVE IInv'
    OBVIOUS
  <1>1. ASSUME NEW h \in Handler, NEW c \in Calls, NEW t \in Tool, Send(h, c, t), UNCHANGED request
        PROVE  IInv'
    BY <1>1, SendServes, ServesKeeps
  <1>2. ASSUME NEW h \in Handler, BrokerStep(h), UNCHANGED request PROVE IInv'
    BY <1>2, BrokerKeeps
  <1>3. ASSUME NEW q \in Request, NEW c \in DOMAIN interrupt, NEW route \in UsedRoute,
               NEW response \in Response, NEW paid \in BOOLEAN, Receive(q, c, route, response, paid)
        PROVE  IInv'
    BY <1>3, ReceiveAsks, AsksKeeps
  <1>4. ASSUME NEW q \in Request, RequestStep(q) \/ CreateFails(q) \/ ActivateFails(q) PROVE IInv'
    BY <1>4, RespondAsks, CreateAsks, GrantAsks, BindAsks, AsksKeeps DEF RequestStep
  <1>5. ASSUME WriteElsewhere \/ (\E o \in DOMAIN vault : Expire(o))
               \/ (\E r \in DOMAIN engine : EndRun(r)) \/ UNCHANGED vars
        PROVE  IInv'
    <2>1. TablesStay /\ UNCHANGED <<handler, effects, request>>
      BY <1>5 DEF WriteElsewhere, Expire, EndRun, vars, brokerVars, TablesStay
    <2> QED  BY <2>1, EnvironmentKeeps
  <1> QED  BY <1>1, <1>2, <1>3, <1>4, <1>5, CrashKeeps DEF Next, Calls

\* The invariant: what handlers, requests, interrupts, runs and effects owe each
\* other, for every value of the constants.
THEOREM IInvHolds == Spec => []IInv
  BY InitHolds, NextKeeps, PTL DEF Spec

\* Whatever the engine sends again, however the Gateway crashes and however many
\* requests it serves at a time, a Tool call takes effect at most once.
THEOREM OneEffectPerCallHolds == Spec => []OneEffectPerCall
  <1>1. IInv => OneEffectPerCall
    BY DEF IInv, EffectsOK
  <1> QED  BY <1>1, IInvHolds, PTL

\* No tool that needs confirmation takes effect without the user's confirmation
\* of that tool at the beginning of its chain of runs, however long.
THEOREM ConsentedEffectsHolds == Spec => []ConsentedEffects
  <1>1. IInv => ConsentedEffects
    <2> SUFFICES ASSUME IInv, NEW e \in effects, e.tool \in NeedsConsent
                 PROVE  \E k \in 1 .. Len(e.call.run) :
                            /\ interrupt[Cause(e.call.run, k)].kind = "awaiting_confirmation"
                            /\ \A i \in k .. Len(e.call.run) :
                                /\ interrupt[Cause(e.call.run, i)].tool = e.tool
                                /\ interrupt[Cause(e.call.run, i)].response = {e.call.run[i].response}
                                /\ i > k =>
                                    interrupt[Cause(e.call.run, i)].kind = "authorization_required"
      BY DEF ConsentedEffects
    <2>1. Chain(e.call.run, e.tool)
      BY DEF IInv, EffectsOK
    <2> QED  BY <2>1 DEF Chain
  <1> QED  BY <1>1, IInvHolds, PTL

\* However often and by how many requests an interrupt is answered, one run comes
\* of it, if clients do not mix the authorizations route with the confirmations
\* route: the two name different runs for one response.
THEOREM OneResumeRunHolds ==
    ASSUME ~({"confirm", "authorize"} \subseteq UsedRoute)
    PROVE  Spec => []OneResumeRun
  <1>1. IInv => OneResumeRun
    <2> SUFFICES ASSUME IInv, NEW r \in DOMAIN engine \ {Root}, NEW s \in DOMAIN engine \ {Root},
                        Cause(r, Len(r)) = Cause(s, Len(s))
                 PROVE  r = s
      BY DEF OneResumeRun
    <2>1. ASSUME NEW z \in DOMAIN engine \ {Root}
          PROVE  \E c \in DOMAIN interrupt, x \in Response, route \in UsedRoute :
                    /\ z = Resumed(c, x, TriggerOf(route)) /\ Cause(z, Len(z)) = c
                    /\ interrupt[c].response = {x} /\ TakenBy(route, interrupt[c].kind)
      <3>1. PICK c \in DOMAIN interrupt, x \in Response, route \in UsedRoute :
                /\ z = Resumed(c, x, TriggerOf(route))
                /\ interrupt[c].response = {x} /\ TakenBy(route, interrupt[c].kind)
        BY DEF IInv, RunOK
      <3>2. c \in Site
        BY DEF IInv, InterruptOK, Calls, Site
      <3>3. PICK trigger \in Trigger : trigger = TriggerOf(route)
        BY TriggersAre
      <3>4. z = Resumed(c, x, trigger)
        BY <3>1, <3>3
      <3>5. Cause(z, Len(z)) = c
        BY <3>2, <3>4, ResumedCause, Zenon
      <3> QED  BY <3>1, <3>5, Zenon
    <2>2. PICK c \in DOMAIN interrupt, x \in Response, route \in UsedRoute :
              /\ r = Resumed(c, x, TriggerOf(route)) /\ Cause(r, Len(r)) = c
              /\ interrupt[c].response = {x} /\ TakenBy(route, interrupt[c].kind)
      BY <2>1
    <2>3. PICK d \in DOMAIN interrupt, y \in Response, other \in UsedRoute :
              /\ s = Resumed(d, y, TriggerOf(other)) /\ Cause(s, Len(s)) = d
              /\ interrupt[d].response = {y} /\ TakenBy(other, interrupt[d].kind)
      BY <2>1
    <2>4. c = d /\ x = y
      BY <2>2, <2>3
    <2>5. TriggerOf(route) = TriggerOf(other)
      BY <2>2, <2>3, <2>4, RouteAssumption DEF TakenBy, TriggerOf, Route
    <2> QED  BY <2>2, <2>3, <2>4, <2>5
  <1> QED  BY <1>1, IInvHolds, PTL

-----------------------------------------------------------------------------
(* Where credentials are: under the ticket of a request, under a run, at a  *)
(* handler, spent.  Each is in one place, and names the interrupt that the  *)
(* user answered with it.                                                   *)

Held(h) == IF handler[h].at = "idle" THEN {} ELSE handler[h].credential
LastCause(r) == Cause(r, Len(r))
OwnOf(s, call) == s = {} \/ \E x \in s : s = {x} /\ x.of = LastCause(call.run)

TicketOK(q) ==
    request[q].at \in {"create", "bind"} /\ request[q].paid /\ vault[q].of = request[q].call

VaultOK ==
    /\ IsFiniteSet(DOMAIN vault)
    /\ \A q \in DOMAIN vault \cap Request : TicketOK(q)
    /\ \A r \in DOMAIN vault \ Request : vault[r].of = LastCause(r)
    /\ \A o, p \in DOMAIN vault : vault[o] = vault[p] => o = p

HandOK(h) ==
    /\ OwnOf(Held(h), handler[h].call)
    /\ handler[h].at = "execute" /\ handler[h].tool \in CostlyTool => Held(h) # {}
    /\ \A o \in DOMAIN vault : vault[o] \notin Held(h)

SpentOK(e) ==
    /\ OwnOf(e.credential, e.call)
    /\ e.tool \in CostlyTool => e.credential # {}
    /\ \A o \in DOMAIN vault : vault[o] \notin e.credential
    /\ \A h \in Handler : e.credential \cap Held(h) # {} => e.call = handler[h].call

PurseInv ==
    /\ VaultOK
    /\ \A h \in Handler : HandOK(h)
    /\ \A h, g \in Handler : h # g => Held(g) \cap Held(h) = {}
    /\ IsFiniteSet(effects)
    /\ \A e \in effects : SpentOK(e)
    /\ \A e, f \in effects : e # f => e.credential \cap f.credential = {}

LEMMA FiniteImage ==
    ASSUME NEW S, IsFiniteSet(S), NEW f, DOMAIN f = S
    PROVE  IsFiniteSet({f[x] : x \in S})
  <1> DEFINE T == {f[x] : x \in S}
             g == [x \in S |-> f[x]]
  <1>1. g \in Surjection(S, T)
    BY DEF Surjection
  <1> HIDE DEF g, T
  <1>2. IsFiniteSet(T)
    BY <1>1, FS_Surjection
  <1> QED  BY <1>2 DEF T

LEMMA OwnIsFinite ==
    ASSUME NEW s, NEW call, OwnOf(s, call)
    PROVE  IsFiniteSet(s)
  <1>1. s = {} \/ \E x : s = {x}
    BY DEF OwnOf
  <1> QED  BY <1>1, FS_EmptySet, FS_Singleton

LEMMA KnownIsFinite ==
    ASSUME Shapes, PurseInv
    PROVE  IsFiniteSet(Known)
  <1> DEFINE G == {g \in Handler : handler[g] # Idle}
             A == {vault[o] : o \in DOMAIN vault}
             B == {e.credential : e \in effects}
             C == {handler[h].credential : h \in G}
             b == [e \in effects |-> e.credential]
             c == [h \in G |-> handler[h].credential]
  <1>1. IsFiniteSet(A)
    BY FiniteImage DEF PurseInv, VaultOK
  <1>2. IsFiniteSet(UNION B)
    <2>1. B = {b[e] : e \in effects} /\ DOMAIN b = effects /\ IsFiniteSet(effects)
      BY DEF PurseInv
    <2> HIDE DEF b
    <2>2. IsFiniteSet(B)
      BY <2>1, FiniteImage
    <2>3. ASSUME NEW e \in effects PROVE IsFiniteSet(e.credential)
      <3>1. OwnOf(e.credential, e.call)
        BY DEF PurseInv, SpentOK
      <3> QED  BY <3>1, OwnIsFinite
    <2> QED  BY <2>2, <2>3, FS_UNION
  <1>3. IsFiniteSet(UNION C)
    <2>1. IsFiniteSet(G)
      <3>1. G \in SUBSET Handler
        OBVIOUS
      <3> QED  BY <3>1, TicketAssumption, FS_Subset
    <2>2. C = {c[h] : h \in G} /\ DOMAIN c = G
      <3> HIDE DEF G
      <3> QED  OBVIOUS
    <2>3. ASSUME NEW h \in G PROVE IsFiniteSet(handler[h].credential)
      <3>1. h \in Handler /\ handler[h].credential = Held(h)
        BY DEF Held, Shapes, Served
      <3>2. OwnOf(Held(h), handler[h].call)
        BY <3>1 DEF PurseInv, HandOK
      <3>3. IsFiniteSet(Held(h))
        BY <3>2, OwnIsFinite
      <3> QED  BY <3>1, <3>3
    <2>4. IsFiniteSet(C)
      <3> HIDE DEF c, G, C
      <3>1. IsFiniteSet({c[h] : h \in G})
        BY <2>1, <2>2, FiniteImage
      <3> QED  BY <2>2, <3>1
    <2> QED  BY <2>3, <2>4, FS_UNION
  <1>4. Known = A \cup (UNION B) \cup (UNION C)
    BY DEF Known
  <1> HIDE DEF A, B, C
  <1>5. IsFiniteSet(A \cup (UNION B))
    BY <1>1, <1>2, FS_Union
  <1> QED  BY <1>3, <1>4, <1>5, FS_Union

\* A ticket is put with a credential that is nowhere else.
LEMMA FreshIsNew ==
    ASSUME Shapes, PurseInv, NEW c
    PROVE  FreshCredential(c) \notin Known /\ FreshCredential(c).of = c
  <1> DEFINE N == Cardinality(Known)
             x(n) == [of |-> c, n |-> n]
             f == [n \in 0 .. N |-> x(n)]
  <1>1. N \in Nat
    BY KnownIsFinite, FS_CardinalityType
  <1>2. Cardinality(0 .. N) = N + 1
    <2>1. 0 \in Int /\ N \in Int
      BY <1>1
    <2> QED  BY <1>1, <2>1, FS_Interval
  <1>3. \E n \in 0 .. N : x(n) \notin Known
    <2> SUFFICES ASSUME \A n \in 0 .. N : x(n) \in Known PROVE FALSE
      OBVIOUS
    <2>1. f \in Injection(0 .. N, Known)
      BY DEF Injection, IsInjective
    <2> HIDE DEF f, N
    <2>2. Cardinality(0 .. N) <= Cardinality(Known)
      BY <2>1, KnownIsFinite, FS_Injection
    <2> QED  BY <1>1, <1>2, <2>2 DEF N
  <1> DEFINE m == CHOOSE n \in 0 .. N : x(n) \notin Known
  <1>4. x(m) \notin Known
    BY <1>3
  <1>5. FreshCredential(c) = x(m)
    BY DEF FreshCredential
  <1> HIDE DEF m
  <1> QED  BY <1>4, <1>5

LEMMA WithoutIs ==
    ASSUME NEW f, NEW x
    PROVE  DOMAIN Without(f, x) = DOMAIN f \ {x} /\ \A z \in DOMAIN f \ {x} : Without(f, x)[z] = f[z]
  BY DEF Without, Restrict

\* A handler goes on with what it has, or lets go of it.
LEMMA HandGoesOn ==
    ASSUME PurseInv, NEW h \in Handler, UNCHANGED <<vault, effects, request>>,
           \A g \in Handler \ {h} : handler'[g] = handler[g],
           \/ Held(h)' = {}
           \/ Held(h)' = Held(h) /\ handler'[h].call = handler[h].call,
           handler'[h].at = "execute" /\ handler'[h].tool \in CostlyTool => Held(h)' # {}
    PROVE  PurseInv'
  <1>1. \A g \in Handler : /\ g # h => Held(g)' = Held(g) /\ handler'[g] = handler[g]
                           /\ Held(g)' \subseteq Held(g)
    BY DEF Held
  <1>2. VaultOK'
    BY DEF PurseInv, VaultOK, TicketOK
  <1>3. ASSUME NEW g \in Handler PROVE HandOK(g)'
    <2>1. HandOK(g)
      BY DEF PurseInv
    <2>2. OwnOf(Held(g)', handler'[g].call)
      BY <1>1, <2>1 DEF HandOK, OwnOf
    <2> QED  BY <1>1, <2>1, <2>2 DEF HandOK
  <1>4. ASSUME NEW e \in effects PROVE SpentOK(e)'
    <2>1. SpentOK(e)
      BY DEF PurseInv
    <2>2. ASSUME NEW g \in Handler, e.credential \cap Held(g)' # {} PROVE e.call = handler'[g].call
      BY <1>1, <2>1, <2>2 DEF SpentOK
    <2> QED  BY <2>1, <2>2 DEF SpentOK
  <1>5. \A f, g \in Handler : f # g => Held(g)' \cap Held(f)' = {}
    BY <1>1 DEF PurseInv
  <1> QED  BY <1>2, <1>3, <1>4, <1>5 DEF PurseInv

\* The vault changes: what it holds afterwards is new, or was there.
LEMMA VaultGoesOn ==
    ASSUME Shapes, PurseInv, VaultOK', UNCHANGED <<handler, effects>>,
           \A o \in DOMAIN vault' : \/ \E p \in DOMAIN vault : vault'[o] = vault[p]
                                    \/ vault'[o] \notin Known
    PROVE  PurseInv'
  <1>1. \A h \in Handler : Held(h)' = Held(h)
    BY DEF Held
  <1>2. ASSUME NEW h \in Handler, NEW o \in DOMAIN vault' PROVE vault'[o] \notin Held(h)
    <2>1. CASE \E p \in DOMAIN vault : vault'[o] = vault[p]
      BY <2>1 DEF PurseInv, HandOK
    <2>2. CASE vault'[o] \notin Known
      <3>1. Held(h) \subseteq Known
        BY DEF Known, Held, Idle
      <3> QED  BY <2>2, <3>1
    <2> QED  BY <2>1, <2>2
  <1>3. ASSUME NEW e \in effects, NEW o \in DOMAIN vault' PROVE vault'[o] \notin e.credential
    <2>1. CASE \E p \in DOMAIN vault : vault'[o] = vault[p]
      BY <2>1 DEF PurseInv, SpentOK
    <2>2. CASE vault'[o] \notin Known
      BY <2>2 DEF Known
    <2> QED  BY <2>1, <2>2
  <1>4. ASSUME NEW h \in Handler PROVE HandOK(h)'
    BY <1>1, <1>2 DEF PurseInv, HandOK
  <1>5. ASSUME NEW e \in effects PROVE SpentOK(e)'
    BY <1>1, <1>3 DEF PurseInv, SpentOK
  <1> QED  BY <1>1, <1>4, <1>5 DEF PurseInv

\* Credentials are taken out of the vault, and the requests that still have a
\* ticket are where a ticket may be.
LEMMA VaultShrinks ==
    ASSUME PurseInv, DOMAIN vault' \subseteq DOMAIN vault, \A o \in DOMAIN vault' : vault'[o] = vault[o],
           \A q \in DOMAIN vault' \cap Request :
               \/ request'[q] = request[q]
               \/ /\ request'[q].at \in {"create", "bind"}
                  /\ request'[q].paid = request[q].paid /\ request'[q].call = request[q].call
    PROVE  VaultOK'
  <1>1. IsFiniteSet(DOMAIN vault')
    BY FS_Subset DEF PurseInv, VaultOK
  <1>2. ASSUME NEW q \in DOMAIN vault' \cap Request PROVE TicketOK(q)'
    <2>1. TicketOK(q) /\ vault'[q] = vault[q]
      BY DEF PurseInv, VaultOK
    <2> QED  BY <2>1 DEF TicketOK
  <1>3. \A r \in DOMAIN vault' \ Request : vault'[r].of = LastCause(r)
    BY DEF PurseInv, VaultOK
  <1>4. \A o, p \in DOMAIN vault' : vault'[o] = vault'[p] => o = p
    BY DEF PurseInv, VaultOK
  <1> QED  BY <1>1, <1>2, <1>3, <1>4 DEF VaultOK, LastCause

-----------------------------------------------------------------------------
(* What each step does with credentials.                                    *)

\* Handlers that take no credential and spend none.
LEMMA OtherHandsKeep ==
    ASSUME IInv, PurseInv, NEW h \in Handler, UNCHANGED request,
           \/ \E c \in Calls, t \in Tool : Send(h, c, t)
           \/ Claim(h) \/ CheckConfirmation(h) \/ LoadWorkspace(h) \/ OpenInterrupt(h)
           \/ Observe(h) \/ Complete(h)
    PROVE  PurseInv'
  <1> DEFINE s == handler[h]
  <1>1. Shapes /\ UNCHANGED <<vault, effects>>
    BY DEF IInv, Send, Claim, CheckConfirmation, LoadWorkspace, OpenInterrupt, Observe, Complete
  <1>2. ASSUME NEW n, ShapeOK(n), Put(h, n), n.at # "execute",
               \/ n.at = "idle" \/ n.credential = {}
               \/ s.at # "idle" /\ n.credential = s.credential /\ n.call = s.call
        PROVE  PurseInv'
    <2>1. handler'[h] = n /\ \A g \in Handler \ {h} : handler'[g] = handler[g]
      BY <1>1, <1>2, PutIs
    <2> QED  BY <1>1, <1>2, <2>1, HandGoesOn DEF Held
  <1>3. ASSUME NEW place \in Served, s.at # "idle",
               Go(h, place) \/ \E status : Answered(h, place, status),
               place = "execute" => s.tool \notin CostlyTool
        PROVE  PurseInv'
    <2>1. /\ handler'[h].at = place /\ handler'[h].call = s.call /\ handler'[h].tool = s.tool
          /\ handler'[h].credential = s.credential
          /\ \A g \in Handler \ {h} : handler'[g] = handler[g]
      BY <1>1, <1>3, GoIs, AnsweredIs
    <2>2. Held(h)' = Held(h)
      BY <1>3, <2>1 DEF Held, Served
    <2> QED  BY <1>1, <1>3, <2>1, <2>2, HandGoesOn
  <1>4. CASE Put(h, Idle)
    <2>1. ShapeOK(Idle) /\ Idle.at = "idle"
      BY DEF ShapeOK, Idle
    <2> QED  BY <1>2, <1>4, <2>1
  <1>5. ASSUME NEW c \in Calls, NEW t \in Tool, Send(h, c, t) PROVE PurseInv'
    <2> DEFINE n == [at |-> "claim", call |-> c, tool |-> t, expected |-> engine[c.run].seen,
                     credential |-> {}, answer |-> NoAnswer]
    <2>1. ShapeOK(n) /\ n.at # "execute" /\ n.credential = {}
      BY DEF ShapeOK, HandlerFields, NoAnswer
    <2>2. Put(h, n)
      BY <1>5 DEF Send
    <2> HIDE DEF n
    <2> QED  BY <1>2, <2>1, <2>2
  <1>6. CASE Claim(h)
    <2>1. s.at # "idle" /\ "check" \in Served /\ "check" # "execute"
      BY <1>6 DEF Claim, Served
    <2>2. Go(h, "check") \/ Put(h, Idle)
      BY <1>6 DEF Claim
    <2> QED  BY <1>3, <1>4, <2>1, <2>2
  <1>7. CASE CheckConfirmation(h)
    <2>1. /\ s.at # "idle" /\ "interrupt" \in Served /\ "workspace" \in Served
          /\ "interrupt" # "execute" /\ "workspace" # "execute"
      BY <1>7 DEF CheckConfirmation, Served
    <2>2. Answered(h, "interrupt", "awaiting_confirmation") \/ Go(h, "workspace")
      BY <1>7 DEF CheckConfirmation
    <2> QED  BY <1>3, <2>1, <2>2
  <1>8. CASE LoadWorkspace(h)
    <2>1. s.at # "idle" /\ "complete" \in Served /\ "credential" \in Served /\ "execute" \in Served
          /\ "complete" # "execute" /\ "credential" # "execute"
      BY <1>8 DEF LoadWorkspace, Served
    <2>2. \/ Answered(h, "complete", "rejected") \/ Go(h, "credential")
          \/ Go(h, "execute") /\ s.tool \notin CostlyTool
      BY <1>8 DEF LoadWorkspace
    <2> QED  BY <1>3, <2>1, <2>2
  <1>9. CASE OpenInterrupt(h)
    <2>1. s.at # "idle" /\ "complete" \in Served /\ "complete" # "execute" /\ Go(h, "complete")
      BY <1>9 DEF OpenInterrupt, Served
    <2> QED  BY <1>3, <2>1
  <1>10. CASE Observe(h)
    <2>1. s.at = "observe" /\ s.at # "idle" /\ "complete" \in Served /\ "complete" # "execute"
      BY <1>10 DEF Observe, Served
    <2>2. ASSUME NEW status,
                 Put(h, [s EXCEPT !.at = "complete", !.answer = [status |-> status, revision |-> revision]])
          PROVE  PurseInv'
      <3> DEFINE a == [status |-> status, revision |-> revision]
                 n == [s EXCEPT !.at = "complete", !.answer = a]
      <3>1. DOMAIN s = HandlerFields /\ DOMAIN a = {"status", "revision"}
        BY <1>1, <2>1, IdleIs DEF Shapes
      <3>2. Put(h, n)
        BY <2>2
      <3> HIDE DEF a
      <3>3. /\ n.at = "complete" /\ n.call = s.call /\ n.answer = a
            /\ n.credential = s.credential /\ DOMAIN n = HandlerFields
        BY <3>1 DEF HandlerFields
      <3> HIDE DEF n
      <3>4. ShapeOK(n)
        BY <3>1, <3>3 DEF ShapeOK, Served
      <3> QED  BY <1>2, <2>1, <3>2, <3>3, <3>4
    <2> QED  BY <1>3, <1>10, <2>1, <2>2 DEF Observe
  <1>11. CASE Complete(h)
    BY <1>4, <1>11 DEF Complete
  <1> QED  BY <1>5, <1>6, <1>7, <1>8, <1>9, <1>10, <1>11

\* The broker takes the credential of the run out of the vault as it reads it.
LEMMA TakeKeeps ==
    ASSUME IInv, PurseInv, NEW h \in Handler, TakeCredential(h), UNCHANGED request
    PROVE  PurseInv'
  <1> DEFINE s == handler[h]
             r == s.call.run
  <1>1. s.at = "credential" /\ s.at # "idle" /\ Shapes /\ UNCHANGED effects
    BY DEF TakeCredential, IInv
  <1>2. CASE Answered(h, "interrupt", "authorization_required") /\ UNCHANGED vault
    <2>1. "interrupt" \in Served
      BY DEF Served
    <2>2. /\ handler'[h].at = "interrupt" /\ handler'[h].call = s.call
          /\ handler'[h].credential = s.credential
          /\ \A g \in Handler \ {h} : handler'[g] = handler[g]
      BY <1>1, <1>2, <2>1, AnsweredIs
    <2>3. Held(h)' = Held(h)
      BY <1>1, <2>2 DEF Held
    <2> QED  BY <1>1, <1>2, <2>2, <2>3, HandGoesOn
  <1>3. CASE /\ r \in DOMAIN vault /\ vault' = Without(vault, r)
             /\ Put(h, [s EXCEPT !.at = "execute", !.credential = {vault[r]}])
    <2> DEFINE x == vault[r]
               n == [s EXCEPT !.at = "execute", !.credential = {x}]
    <2>1. DOMAIN s = HandlerFields /\ DOMAIN s.answer = {"status", "revision"}
      BY <1>1, IdleIs DEF Shapes
    <2>2. Put(h, n)
      BY <1>3
    <2>3. /\ n.at = "execute" /\ n.call = s.call /\ n.answer = s.answer /\ n.credential = {x}
          /\ DOMAIN n = HandlerFields
      BY <2>1 DEF HandlerFields
    <2> HIDE DEF n
    <2>4. ShapeOK(n)
      BY <2>1, <2>3 DEF ShapeOK, Served
    <2>5. handler'[h] = n /\ \A g \in Handler \ {h} : handler'[g] = handler[g]
      BY <1>1, <2>2, <2>4, PutIs
    <2>6. Held(h)' = {x} /\ handler'[h].call = s.call /\ \A g \in Handler \ {h} : Held(g)' = Held(g)
      BY <2>3, <2>5 DEF Held
    <2>7. /\ DOMAIN vault' = DOMAIN vault \ {r}
          /\ \A o \in DOMAIN vault' : o \in DOMAIN vault /\ vault'[o] = vault[o] /\ vault'[o] # x
      <3>1. DOMAIN vault' = DOMAIN vault \ {r} /\ \A o \in DOMAIN vault \ {r} : vault'[o] = vault[o]
        BY <1>3, WithoutIs
      <3>2. \A o \in DOMAIN vault : vault[o] = x => o = r
        BY <1>3 DEF PurseInv, VaultOK
      <3> QED  BY <3>1, <3>2
    <2>8. r \notin Request
      BY <1>1, TicketAssumption DEF IInv, HandlerOK, Calls
    <2>9. x.of = LastCause(r)
      BY <1>3, <2>8 DEF PurseInv, VaultOK
    <2>10. VaultOK'
      BY <2>7, VaultShrinks
    <2>11. ASSUME NEW g \in Handler PROVE HandOK(g)' /\ (g # h => x \notin Held(g))
      <3>1. HandOK(g)
        BY DEF PurseInv
      <3>2. CASE g = h
        BY <2>6, <2>7, <2>9, <3>2 DEF HandOK, OwnOf, LastCause, Cause
      <3>3. CASE g # h
        <4>1. Held(g)' = Held(g) /\ handler'[g] = handler[g]
          BY <2>5, <2>6, <3>3
        <4>2. \A o \in DOMAIN vault' : vault'[o] \notin Held(g)
          BY <2>7, <3>1 DEF HandOK
        <4>3. x \notin Held(g)
          BY <1>3, <3>1 DEF HandOK
        <4>4. OwnOf(Held(g), handler[g].call)' = OwnOf(Held(g), handler[g].call)
          BY <4>1 DEF OwnOf, LastCause, Cause
        <4> QED  BY <3>1, <4>1, <4>2, <4>3, <4>4 DEF HandOK
      <3> QED  BY <3>2, <3>3
    <2>12. ASSUME NEW e \in effects PROVE SpentOK(e)'
      <3>1. SpentOK(e) /\ x \notin e.credential
        BY <1>3 DEF PurseInv, SpentOK
      <3>2. ASSUME NEW g \in Handler, e.credential \cap Held(g)' # {} PROVE e.call = handler'[g].call
        BY <2>5, <2>6, <3>1, <3>2 DEF SpentOK
      <3> QED  BY <2>7, <3>1, <3>2 DEF SpentOK, OwnOf, LastCause, Cause
    <2>13. \A f, g \in Handler : f # g => Held(g)' \cap Held(f)' = {}
      BY <2>6, <2>11 DEF PurseInv
    <2> QED  BY <1>1, <2>10, <2>11, <2>12, <2>13 DEF PurseInv
  <1> QED  BY <1>2, <1>3 DEF TakeCredential, Taken

\* A credential is spent by the handler that took it: no other effect is of its call.
LEMMA ExecuteKeeps ==
    ASSUME IInv, PurseInv, NEW h \in Handler, Execute(h), UNCHANGED request
    PROVE  PurseInv'
  <1> DEFINE s == handler[h]
             e0 == Effect(s)
  <1>1. /\ s.at = "execute" /\ s.at # "idle" /\ s.at \in Ahead /\ Shapes /\ UNCHANGED vault
        /\ HandlerOK(s) /\ HandOK(h) /\ Held(h) = s.credential
    BY DEF Execute, Ahead, IInv, PurseInv, Held
  <1>2. PICK place \in {"observe", "complete"} : Go(h, place) \/ Answered(h, place, "failed")
    BY DEF Execute
  <1>3. /\ handler'[h].at = place /\ handler'[h].call = s.call
        /\ handler'[h].credential = s.credential
        /\ \A g \in Handler \ {h} : handler'[g] = handler[g]
    <2>1. place \in Served
      BY DEF Served
    <2> QED  BY <1>1, <1>2, <2>1, GoIs, AnsweredIs
  <1>4. handler'[h].at # "execute" /\ \A g \in Handler : Held(g)' = Held(g)
    BY <1>1, <1>3 DEF Held
  <1>5. CASE UNCHANGED effects
    BY <1>1, <1>3, <1>4, <1>5, HandGoesOn
  <1>6. CASE effects' = effects \cup {e0}
    <2>1. e0.call = s.call /\ e0.tool = s.tool /\ e0.credential = Held(h)
      BY <1>1 DEF Effect
    <2> HIDE DEF e0
    <2>2. VaultOK'
      BY <1>1 DEF PurseInv, VaultOK, TicketOK
    <2>3. ASSUME NEW g \in Handler PROVE HandOK(g)'
      <3>1. HandOK(g)
        BY DEF PurseInv
      <3>2. OwnOf(Held(g)', handler'[g].call)
        BY <1>3, <1>4, <3>1 DEF HandOK, OwnOf
      <3> QED  BY <1>1, <1>3, <1>4, <3>1, <3>2 DEF HandOK
    <2>4. ASSUME NEW e \in effects PROVE e.credential \cap Held(h) = {}
      BY <1>1 DEF HandlerOK, PurseInv, SpentOK
    <2>5. ASSUME NEW e \in effects PROVE SpentOK(e)'
      <3>1. SpentOK(e)
        BY DEF PurseInv
      <3>2. ASSUME NEW g \in Handler, e.credential \cap Held(g)' # {} PROVE e.call = handler'[g].call
        BY <1>3, <1>4, <3>1, <3>2 DEF SpentOK
      <3> QED  BY <1>1, <3>1, <3>2 DEF SpentOK
    <2>6. ASSUME NEW e, e = e0 PROVE SpentOK(e)'
      <3>1. OwnOf(e.credential, e.call)
        BY <1>1, <2>1, <2>6 DEF HandOK, OwnOf
      <3>2. ASSUME NEW g \in Handler, e.credential \cap Held(g)' # {} PROVE e.call = handler'[g].call
        <4>1. g = h
          BY <1>4, <2>1, <2>6, <3>2 DEF PurseInv
        <4> QED  BY <1>3, <2>1, <2>6, <4>1
      <3>3. e.tool \in CostlyTool => e.credential # {}
        BY <1>1, <2>1, <2>6 DEF HandOK
      <3>4. \A o \in DOMAIN vault : vault[o] \notin e.credential
        BY <1>1, <2>1, <2>6 DEF HandOK
      <3> QED  BY <1>1, <3>1, <3>2, <3>3, <3>4 DEF SpentOK
    <2>7. \A e, f \in effects' : e # f => e.credential \cap f.credential = {}
      BY <1>6, <2>1, <2>4 DEF PurseInv
    <2>8. IsFiniteSet(effects')
      BY <1>6, FS_AddElement DEF PurseInv
    <2>9. \A f, g \in Handler : f # g => Held(g)' \cap Held(f)' = {}
      BY <1>4 DEF PurseInv
    <2>10. \A e \in effects' : SpentOK(e)'
      BY <1>6, <2>5, <2>6
    <2> QED  BY <2>2, <2>3, <2>7, <2>8, <2>9, <2>10 DEF PurseInv
  <1> QED  BY <1>5, <1>6 DEF Execute

\* A request that has no ticket, before or after, goes on.
LEMMA NoTicketKeeps ==
    ASSUME IInv, PurseInv, NEW q \in Request, Asks(q), UNCHANGED vault,
           request[q].at \in {"create", "bind"} => ~request[q].paid \/ q \notin DOMAIN vault
    PROVE  PurseInv'
  <1>1. q \notin DOMAIN vault
    BY DEF PurseInv, VaultOK, TicketOK
  <1>2. UNCHANGED <<handler, effects>> /\ \A p \in Request \ {q} : request'[p] = request[p]
    BY DEF Asks
  <1>3. VaultOK'
    BY <1>1, <1>2, VaultShrinks
  <1> QED  BY <1>2, <1>3, VaultGoesOn DEF IInv

\* A request gives its ticket back.
LEMMA DiscardKeeps ==
    ASSUME IInv, PurseInv, NEW q \in Request, Asks(q), vault' = Without(vault, q)
    PROVE  PurseInv'
  <1>1. UNCHANGED <<handler, effects>> /\ \A p \in Request \ {q} : request'[p] = request[p]
    BY DEF Asks
  <1>2. DOMAIN vault' = DOMAIN vault \ {q} /\ \A o \in DOMAIN vault' : vault'[o] = vault[o]
    BY WithoutIs
  <1>3. VaultOK'
    BY <1>1, <1>2, VaultShrinks
  <1> QED  BY <1>1, <1>2, <1>3, VaultGoesOn DEF IInv

LEMMA PutKeeps ==
    ASSUME IInv, PurseInv, NEW q \in Request, PutGrant(q)
    PROVE  PurseInv'
  <1> DEFINE s == request[q]
             x == FreshCredential(s.call)
  <1>1. Asks(q)
    BY GrantAsks
  <1>2. s.at = "grant" /\ s.at # "idle" /\ Shapes /\ Step(q, "create") /\ UNCHANGED <<handler, effects>>
    BY DEF PutGrant, IInv
  <1>3. CASE ~s.paid
    BY <1>1, <1>2, <1>3, NoTicketKeeps DEF PutGrant
  <1>4. CASE s.paid
    <2>1. vault' = With(vault, q, x)
      BY <1>4 DEF PutGrant
    <2>2. x \notin Known /\ x.of = s.call
      BY <1>2, FreshIsNew
    <2> HIDE DEF x
    <2>3. q \notin DOMAIN vault
      BY <1>2 DEF PurseInv, VaultOK, TicketOK
    <2>4. /\ DOMAIN vault' = DOMAIN vault \cup {q} /\ vault'[q] = x
          /\ \A o \in DOMAIN vault : vault'[o] = vault[o] /\ vault'[o] # x
      <3>1. \A o \in DOMAIN vault : vault[o] # x
        BY <2>2 DEF Known
      <3>2. /\ DOMAIN vault' = DOMAIN vault \cup {q} /\ vault'[q] = x
            /\ \A o \in DOMAIN vault \ {q} : vault'[o] = vault[o]
        BY <2>1 DEF With
      <3> QED  BY <2>3, <3>1, <3>2
    <2>5. /\ request'[q].at = "create" /\ request'[q].call = s.call /\ request'[q].paid = s.paid
          /\ \A p \in Request \ {q} : request'[p] = request[p]
      BY <1>2, StepIs DEF Recorded
    <2>6. VaultOK'
      <3>1. IsFiniteSet(DOMAIN vault')
        BY <2>4, FS_AddElement DEF PurseInv, VaultOK
      <3>2. ASSUME NEW p \in DOMAIN vault' \cap Request PROVE TicketOK(p)'
        <4>1. CASE p = q
          BY <1>4, <2>2, <2>4, <2>5, <4>1 DEF TicketOK
        <4>2. CASE p # q
          <5>1. p \in DOMAIN vault \cap Request
            BY <2>4, <4>2
          <5>2. TicketOK(p) /\ request'[p] = request[p] /\ vault'[p] = vault[p]
            BY <2>4, <2>5, <4>2, <5>1 DEF PurseInv, VaultOK
          <5> QED  BY <5>2 DEF TicketOK
        <4> QED  BY <4>1, <4>2
      <3>3. \A r \in DOMAIN vault' \ Request : vault'[r].of = LastCause(r)
        BY <2>4 DEF PurseInv, VaultOK
      <3>4. \A o, p \in DOMAIN vault' : vault'[o] = vault'[p] => o = p
        BY <2>4 DEF PurseInv, VaultOK
      <3> QED  BY <3>1, <3>2, <3>3, <3>4 DEF VaultOK, LastCause
    <2>7. \A o \in DOMAIN vault' : \/ \E p \in DOMAIN vault : vault'[o] = vault[p]
                                   \/ vault'[o] \notin Known
      BY <2>2, <2>4
    <2> QED  BY <1>2, <2>6, <2>7, VaultGoesOn
  <1> QED  BY <1>3, <1>4

\* The ticket becomes the credential of the run of the response, which names the
\* interrupt that was answered.
LEMMA BindRunKeeps ==
    ASSUME IInv, PurseInv, NEW q \in Request, BindRun(q)
    PROVE  PurseInv'
  <1> DEFINE s == request[q]
             r == RunOf(s)
  <1>1. Asks(q)
    BY GrantAsks
  <1>2. s.at = "bind" /\ s.at # "idle" /\ Shapes /\ UNCHANGED <<handler, effects>> /\ RequestOK(s)
    BY DEF BindRun, IInv
  <1>3. CASE ~(s.paid /\ q \in DOMAIN vault)
    BY <1>1, <1>2, <1>3, NoTicketKeeps DEF BindRun
  <1>4. CASE s.paid /\ q \in DOMAIN vault
    <2>1. vault' = Without(With(vault, r, vault[q]), q)
      BY <1>4 DEF BindRun, Transferred
    <2>2. PICK c \in DOMAIN interrupt, x \in Response : c = s.call /\ x = s.response
      BY <1>2 DEF RequestOK
    <2>3. c \in Site
      BY DEF IInv, InterruptOK, Calls, Site
    <2>4. PICK trigger \in Trigger : trigger = TriggerOf(s.route)
      BY TriggersAre
    <2>5. r = Resumed(c, x, trigger)
      BY <2>2, <2>4 DEF RunOf
    <2>6. LastCause(r) = c
      BY <2>3, <2>5, ResumedCause DEF LastCause
    <2>7. r \notin Request /\ r # q
      <3>1. r \in Seq(Link)
        BY <2>3, <2>5, ResumedIs
      <3> QED  BY <3>1, TicketAssumption
    <2>8. TicketOK(q)
      BY <1>4 DEF PurseInv, VaultOK
    <2> HIDE DEF r
    <2>9. /\ DOMAIN vault' = (DOMAIN vault \cup {r}) \ {q} /\ vault'[r] = vault[q]
          /\ \A o \in DOMAIN vault' \ {r} : o \in DOMAIN vault /\ vault'[o] = vault[o]
      <3> DEFINE v == With(vault, r, vault[q])
      <3>1. /\ DOMAIN v = DOMAIN vault \cup {r} /\ v[r] = vault[q]
            /\ \A o \in DOMAIN vault \ {r} : v[o] = vault[o]
        BY DEF With
      <3> HIDE DEF v
      <3>2. DOMAIN vault' = DOMAIN v \ {q} /\ \A o \in DOMAIN v \ {q} : vault'[o] = v[o]
        BY <2>1, WithoutIs DEF v
      <3> QED  BY <2>7, <3>1, <3>2
    <2>10. \A p \in Request \ {q} : request'[p] = request[p]
      BY <1>1 DEF Asks
    <2>11. VaultOK'
      <3>1. IsFiniteSet(DOMAIN vault')
        <4>1. IsFiniteSet(DOMAIN vault \cup {r})
          BY FS_AddElement DEF PurseInv, VaultOK
        <4> QED  BY <2>9, <4>1, FS_RemoveElement
      <3>2. ASSUME NEW p \in DOMAIN vault' \cap Request PROVE TicketOK(p)'
        <4>1. p \in DOMAIN vault \cap Request /\ p # q /\ vault'[p] = vault[p]
          BY <2>7, <2>9
        <4>2. TicketOK(p) /\ request'[p] = request[p]
          BY <2>10, <4>1 DEF PurseInv, VaultOK
        <4> QED  BY <4>1, <4>2 DEF TicketOK
      <3>3. ASSUME NEW o \in DOMAIN vault' \ Request PROVE vault'[o].of = LastCause(o)
        <4>1. CASE o = r
          BY <2>2, <2>6, <2>8, <2>9, <4>1 DEF TicketOK
        <4>2. CASE o # r
          BY <2>9, <4>2 DEF PurseInv, VaultOK
        <4> QED  BY <4>1, <4>2
      <3>4. \A o, p \in DOMAIN vault' : vault'[o] = vault'[p] => o = p
        BY <1>4, <2>9 DEF PurseInv, VaultOK
      <3> QED  BY <3>1, <3>2, <3>3, <3>4 DEF VaultOK, LastCause
    <2>12. \A o \in DOMAIN vault' : \E p \in DOMAIN vault : vault'[o] = vault[p]
      BY <1>4, <2>9
    <2> QED  BY <1>2, <2>11, <2>12, VaultGoesOn
  <1> QED  BY <1>3, <1>4

\* The other steps of requests: they have no ticket, or give it back, or keep it.
LEMMA OtherRequestsKeep ==
    ASSUME IInv, PurseInv, NEW q \in Request,
           \/ \E c \in DOMAIN interrupt, route \in UsedRoute, response \in Response, paid \in BOOLEAN :
                 Receive(q, c, route, response, paid)
           \/ Respond(q) \/ CreateRun(q) \/ CreateFails(q) \/ Activate(q) \/ ActivateFails(q)
           \/ BindResume(q)
    PROVE  PurseInv'
  <1>1. Asks(q)
    BY ReceiveAsks, RespondAsks, CreateAsks, GrantAsks, BindAsks
  <1>2. CASE UNCHANGED vault /\ request[q].at \notin {"create", "bind"}
    BY <1>1, <1>2, NoTicketKeeps
  <1>3. CASE vault' = Without(vault, q)
    BY <1>1, <1>3, DiscardKeeps
  <1>4. CASE UNCHANGED vault /\ request[q].at = "create" /\ Step(q, "bind")
    <2>1. UNCHANGED <<handler, effects>> /\ Shapes /\ request[q].at # "idle" /\ "bind" \in Recorded
      BY <1>1, <1>4 DEF Asks, IInv, Recorded
    <2>2. /\ request'[q].at = "bind" /\ request'[q].call = request[q].call
          /\ request'[q].paid = request[q].paid
          /\ \A p \in Request \ {q} : request'[p] = request[p]
      BY <1>4, <2>1, StepIs
    <2>3. VaultOK'
      BY <1>4, <2>2, VaultShrinks
    <2> QED  BY <1>4, <2>1, <2>3, VaultGoesOn
  <1>5. \/ UNCHANGED vault /\ request[q].at \notin {"create", "bind"}
        \/ vault' = Without(vault, q)
        \/ UNCHANGED vault /\ request[q].at = "create" /\ Step(q, "bind")
    <2> DEFINE TicketFree == UNCHANGED vault /\ request[q].at \notin {"create", "bind"}
    <2>1. ASSUME NEW c \in DOMAIN interrupt, NEW route \in UsedRoute, NEW response \in Response,
                 NEW paid \in BOOLEAN, Receive(q, c, route, response, paid)
          PROVE  TicketFree
      <3>1. request[q] = Idle /\ UNCHANGED brokerVars
        BY <2>1, Zenon DEF Receive
      <3> QED  BY <3>1, IdleIs DEF brokerVars
    <2>2. Respond(q) => TicketFree
      BY DEF Respond
    <2>3. Activate(q) \/ ActivateFails(q) \/ BindResume(q) => TicketFree
      BY DEF Activate, ActivateFails, BindResume
    <2>4. CreateRun(q) =>
              \/ vault' = Without(vault, q)
              \/ UNCHANGED vault /\ request[q].at = "create" /\ Step(q, "bind")
      BY DEF CreateRun
    <2>5. CreateFails(q) => vault' = Without(vault, q)
      BY DEF CreateFails
    <2> HIDE DEF TicketFree
    <2>6. \/ TicketFree
          \/ vault' = Without(vault, q)
          \/ UNCHANGED vault /\ request[q].at = "create" /\ Step(q, "bind")
      BY <2>1, <2>2, <2>3, <2>4, <2>5
    <2> QED  BY <2>6 DEF TicketFree
  <1> QED  BY <1>2, <1>3, <1>4, <1>5

LEMMA PurseInit == Init => PurseInv
  <1> SUFFICES ASSUME Init PROVE PurseInv
    OBVIOUS
  <1>1. DOMAIN vault = {} /\ effects = {} /\ handler = [h \in Handler |-> Idle]
    BY DEF Init, BrokerInit
  <1>2. \A h \in Handler : Held(h) = {} /\ handler[h].at = "idle"
    BY <1>1 DEF Held, Idle
  <1> QED  BY <1>1, <1>2, FS_EmptySet DEF PurseInv, VaultOK, HandOK, OwnOf

LEMMA PurseStep == IInv /\ PurseInv /\ [Next]_vars => PurseInv'
  <1> SUFFICES ASSUME IInv, PurseInv, [Next]_vars PROVE PurseInv'
    OBVIOUS
  <1>1. Shapes
    BY DEF IInv
  <1>2. ASSUME NEW h \in Handler, UNCHANGED request,
               BrokerStep(h) \/ \E c \in Calls, t \in Tool : Send(h, c, t)
        PROVE  PurseInv'
    BY <1>2, OtherHandsKeep, TakeKeeps, ExecuteKeeps DEF BrokerStep
  <1>3. ASSUME NEW q \in Request,
               \/ \E c \in DOMAIN interrupt, route \in UsedRoute, response \in Response,
                     paid \in BOOLEAN : Receive(q, c, route, response, paid)
               \/ RequestStep(q) \/ CreateFails(q) \/ ActivateFails(q)
        PROVE  PurseInv'
    BY <1>3, OtherRequestsKeep, PutKeeps, BindRunKeeps DEF RequestStep
  <1>4. ASSUME UNCHANGED <<handler, effects, request>>,
               DOMAIN vault' \subseteq DOMAIN vault, \A o \in DOMAIN vault' : vault'[o] = vault[o]
        PROVE  PurseInv'
    <2>1. VaultOK'
      BY <1>4, VaultShrinks
    <2> QED  BY <1>1, <1>4, <2>1, VaultGoesOn
  <1>5. ASSUME NEW o \in DOMAIN vault, Expire(o) PROVE PurseInv'
    BY <1>4, <1>5, WithoutIs DEF Expire
  <1>6. ASSUME WriteElsewhere \/ (\E r \in DOMAIN engine : EndRun(r)) \/ UNCHANGED vars
        PROVE  PurseInv'
    BY <1>4, <1>6 DEF WriteElsewhere, EndRun, vars, brokerVars
  <1>7. ASSUME GatewayCrash PROVE PurseInv'
    <2>1. DOMAIN vault' = {} /\ handler' = [h \in Handler |-> Idle] /\ effects' = effects
      BY <1>7 DEF GatewayCrash
    <2>2. \A h \in Handler : Held(h)' = {} /\ handler'[h].at = "idle"
      BY <2>1 DEF Held, Idle
    <2>3. VaultOK'
      BY <2>1, FS_EmptySet DEF VaultOK
    <2>4. ASSUME NEW e \in effects PROVE SpentOK(e)'
      <3>1. SpentOK(e)
        BY DEF PurseInv
      <3> QED  BY <2>1, <2>2, <3>1 DEF SpentOK
    <2>5. ASSUME NEW h \in Handler PROVE HandOK(h)'
      BY <2>1, <2>2 DEF HandOK, OwnOf
    <2> QED  BY <2>1, <2>2, <2>3, <2>4, <2>5 DEF PurseInv
  <1> QED  BY <1>2, <1>3, <1>5, <1>6, <1>7 DEF Next, Calls

\* The invariant: every credential is in one place, under the name of the
\* interrupt that the user answered with it.
THEOREM PurseInvHolds == Spec => []PurseInv
  BY InitHolds, NextKeeps, PurseInit, PurseStep, PTL DEF Spec

\* Whatever crashes, expires, is retried or runs at the same time, a costly
\* effect is paid with a credential of its own, sent with the response that led
\* to its run.
THEOREM OwnCredentialHolds == Spec => []OwnCredential
  <1>1. PurseInv => OwnCredential
    <2> SUFFICES ASSUME PurseInv, NEW e \in effects, e.tool \in CostlyTool
                 PROVE  /\ \E x \in e.credential :
                              e.credential = {x} /\ x.of = Cause(e.call.run, Len(e.call.run))
                        /\ \A f \in effects : e.credential = f.credential => e = f
      BY DEF OwnCredential
    <2>1. SpentOK(e)
      BY DEF PurseInv
    <2>2. PICK x \in e.credential : e.credential = {x} /\ x.of = Cause(e.call.run, Len(e.call.run))
      BY <2>1 DEF SpentOK, OwnOf, LastCause
    <2>3. ASSUME NEW f \in effects, e.credential = f.credential PROVE e = f
      BY <2>2, <2>3 DEF PurseInv
    <2> QED  BY <2>2, <2>3
  <1> QED  BY <1>1, PurseInvHolds, PTL
====
