------------------------- MODULE MemoryOutbox_proofs -------------------------
(***************************************************************************)
(* Proofs about MemoryOutbox, for any writes, replay requests and bounds   *)
(* and for one Gateway process: two of them may claim the same write, and  *)
(* then neither property holds.  A write may be sent once by a row that    *)
(* was never claimed and once by a worker that has claimed it as the       *)
(* first; the invariant counts the two with the requests already sent.     *)
(***************************************************************************)
EXTENDS MemoryOutbox, TLAPS

OneProcess == \A p, q \in Process : p = q

RowStatus == {"absent", "pending", "processing", "manual_review", "completed"}
EventId == {"none", "real", "bogus"}

RowShape ==
    [status : RowStatus, event : EventId, attempts : Nat, retry : {"none", "later", "due"},
     owner : WorkerId \cup {NoOwner}, lease : {"none", "live", "expired"}]

Busy == {"claiming", "claimed", "deciding", "writing"}

WorkerShape ==
    [phase : Busy \cup {"idle", "down", "ended"}, key : Key \cup {"none"}, seen : RowShape, task : RowShape,
     op : {"none", "save", "retry", "manual_review", "complete"}, answer : EventId,
     guarded : BOOLEAN]

RequestShape ==
    [phase : {"none", "writing"}, key : Key \cup {"none"}, seen : RowShape,
     proc : Process \cup {"none"}]

OutboxTypeOK ==
    /\ row \in [Key -> RowShape]
    /\ intents \subseteq Process \X Key
    /\ worker \in [Process -> WorkerShape]
    /\ request \in [Request -> RequestShape]
    /\ sent \in [Key -> Nat]
    /\ replays \in [Key -> Nat]

\* A write is accepted before it is inserted, and its row is new then.
AcceptedInv ==
    /\ \A k \in Key : row[k].status = "absent" => row[k] = NoRow
    /\ \A x \in intents : row[x[2]].status = "absent"

\* What the worker is at: the write of a claim has not been given up, its
\* event id is the row's, and an operation has what it is going to store.
WorkOK(w) ==
    /\ w.phase \in Busy => w.key \in Key /\ row[w.key].status \notin {"absent", "manual_review"}
    /\ w.phase = "claiming" =>
          /\ Claimable(w.seen)
          /\ w.seen.event = row[w.key].event
          /\ w.seen.event = "none" /\ w.seen.attempts = 0 => row[w.key].attempts = 0
    /\ w.phase = "claimed" => w.task.attempts > 0
    /\ w.phase \in {"deciding", "writing"} =>
          /\ w.op # "none"
          /\ w.op = "save" => w.answer # "none"
          /\ w.op = "complete" => w.task.event # "none"

\* A replay has read a write under review; an event id is never taken back.
RequestOK(q) ==
    q.phase = "writing" =>
        /\ q.key \in Key /\ row[q.key].status # "absent"
        /\ q.seen.status = "manual_review"
        /\ q.seen.event # "none" => row[q.key].event # "none"

\* Rows that were never claimed: the next claim may send the write.
Fresh == {k \in Key : row[k].event = "none" /\ row[k].attempts = 0}

\* The worker has claimed the row as the first and not sent it yet.
Holding(p, k) ==
    /\ worker[p].phase = "claimed" /\ worker[p].key = k
    /\ worker[p].task.event = "none" /\ worker[p].task.attempts = 1

Held == {k \in Key : \E p \in Process : Holding(p, k)}

Chances(k, fresh, held) == (IF k \in fresh THEN 1 ELSE 0) + (IF k \in held THEN 1 ELSE 0)

SentInv == \A k \in Key : sent[k] + Chances(k, Fresh, Held) <= 1 + replays[k]

OutboxInv ==
    /\ OutboxTypeOK
    /\ AcceptedInv
    /\ \A p \in Process : WorkOK(worker[p])
    /\ \A r \in Request : RequestOK(request[r])
    /\ SentInv

-----------------------------------------------------------------------------
(* What the writes of a row do to it.                                       *)

LEMMA FlushIs ==
    ASSUME OutboxTypeOK, NEW k \in Key, NEW seen \in RowShape, NEW new \in RowShape,
           Flush(k, seen, new)
    PROVE  /\ row' \in [Key -> RowShape]
           /\ \A j \in Key : j # k => row'[j] = row[j]
           /\ row'[k].status = IF new.status # seen.status THEN new.status ELSE row[k].status
           /\ row'[k].event = IF new.event # seen.event THEN new.event ELSE row[k].event
           /\ row'[k].attempts = IF new.attempts # seen.attempts THEN new.attempts ELSE row[k].attempts
  <1> DEFINE g == [f \in DOMAIN NoRow |-> IF new[f] # seen[f] THEN new[f] ELSE row[k][f]]
  <1>1. row' = [row EXCEPT ![k] = g]
    BY DEF Flush
  <1>2. DOMAIN NoRow = {"status", "event", "attempts", "retry", "owner", "lease"}
    BY DEF NoRow
  <1>3. row[k] \in RowShape
    BY DEF OutboxTypeOK
  <1>4. /\ g.status = IF new.status # seen.status THEN new.status ELSE row[k].status
        /\ g.event = IF new.event # seen.event THEN new.event ELSE row[k].event
        /\ g.attempts = IF new.attempts # seen.attempts THEN new.attempts ELSE row[k].attempts
        /\ g.retry = IF new.retry # seen.retry THEN new.retry ELSE row[k].retry
        /\ g.owner = IF new.owner # seen.owner THEN new.owner ELSE row[k].owner
        /\ g.lease = IF new.lease # seen.lease THEN new.lease ELSE row[k].lease
    BY <1>2
  <1>5. g = [status |-> g.status, event |-> g.event, attempts |-> g.attempts,
             retry |-> g.retry, owner |-> g.owner, lease |-> g.lease]
    BY <1>2
  <1> HIDE DEF g
  <1>6. g \in RowShape
    BY <1>3, <1>4, <1>5 DEF RowShape
  <1> QED  BY <1>1, <1>4, <1>6 DEF OutboxTypeOK

LEMMA ClaimedShape ==
    ASSUME NEW r \in RowShape, NEW p \in Process
    PROVE  /\ Claimed(r, p) \in RowShape
           /\ Claimed(r, p).status = "processing"
           /\ Claimed(r, p).event = r.event
           /\ Claimed(r, p).attempts = r.attempts + 1
  <1>1. WorkerIdOf[p] \in WorkerId
    BY OutboxAssumption
  <1>2. r.event \in EventId /\ r.attempts + 1 \in Nat
    BY DEF RowShape
  <1> QED  BY <1>1, <1>2 DEF Claimed, RowShape, RowStatus

LEMMA InitialShapes ==
    /\ NoRow \in RowShape /\ Idle \in WorkerShape
    /\ Down \in WorkerShape /\ Ended \in WorkerShape
  <1>1. NoRow \in RowShape
    BY DEF NoRow, RowShape, RowStatus, EventId
  <1> QED  BY <1>1 DEF Idle, Down, Ended, WorkerShape, Busy, EventId

\* A claim: the row has been claimed once more than the worker had read.
LEMMA ClaimIs ==
    ASSUME OutboxTypeOK, NEW p \in Process, WorkOK(worker[p]), ClaimWrite(p)
    PROVE  LET w == worker[p]
               k == worker[p].key
           IN /\ k \in Key
              /\ row' \in [Key -> RowShape]
              /\ \A j \in Key : j # k => row'[j] = row[j]
              /\ row'[k].status \in {row[k].status, "processing"}
              /\ row'[k].event = row[k].event
              /\ row'[k].attempts = w.seen.attempts + 1
              /\ worker'[p] \in WorkerShape
              /\ worker'[p].phase = "claimed" /\ worker'[p].key = k
              /\ worker'[p].task.event = row[k].event
              /\ worker'[p].task.attempts = w.seen.attempts + 1
  <1> DEFINE w == worker[p]
             k == worker[p].key
             new == Claimed(w.seen, p)
  <1>1. w \in WorkerShape /\ w.phase = "claiming"
    BY DEF OutboxTypeOK, ClaimWrite
  <1>2. w.seen \in RowShape /\ k \in Key /\ w.seen.event = row[k].event
    BY <1>1 DEF WorkerShape, WorkOK, Busy
  <1>3. /\ new \in RowShape
        /\ new.status = "processing" /\ new.event = w.seen.event
        /\ new.attempts = w.seen.attempts + 1
    BY <1>2, ClaimedShape, Zenon
  <1>4. Flush(k, w.seen, new)
    BY DEF ClaimWrite
  <1>5. worker'[p] = [Idle EXCEPT !.phase = "claimed", !.key = k, !.task = new]
    BY DEF ClaimWrite, OutboxTypeOK
  <1>6. w.seen.attempts \in Nat
    BY <1>2 DEF RowShape
  <1> HIDE DEF new
  <1>7. /\ worker'[p] \in WorkerShape
        /\ worker'[p].phase = "claimed" /\ worker'[p].key = k /\ worker'[p].task = new
    BY <1>2, <1>3, <1>5, InitialShapes DEF Idle, WorkerShape, Busy
  <1> QED  BY <1>2, <1>3, <1>4, <1>6, <1>7, FlushIs

\* An operation of the outbox never takes an event id back and never claims.
LEMMA OpIs ==
    ASSUME OutboxTypeOK, NEW p \in Process, WorkOK(worker[p]), OpWrite(p)
    PROVE  LET w == worker[p]
               k == worker[p].key
           IN /\ k \in Key
              /\ row' \in [Key -> RowShape]
              /\ \A j \in Key : j # k => row'[j] = row[j]
              /\ row'[k].status \in {row[k].status, "pending", "manual_review", "completed"}
              /\ w.op = "save" => row'[k].status = row[k].status
              /\ row[k].event # "none" => row'[k].event # "none"
              /\ row'[k].attempts = row[k].attempts
  <1> DEFINE w == worker[p]
             k == worker[p].key
             new == OpResult(w)
  <1>1. w \in WorkerShape /\ w.phase = "writing"
    BY DEF OutboxTypeOK, OpWrite
  <1>2. w.seen \in RowShape /\ w.task \in RowShape /\ w.answer \in EventId /\ k \in Key
    BY <1>1 DEF WorkerShape, WorkOK, Busy
  <1>3. w.op \in {"save", "retry", "manual_review", "complete"}
    BY <1>1 DEF WorkerShape, WorkOK
  <1>4. Flush(k, w.seen, new)
    BY DEF OpWrite
  <1>5. /\ new \in RowShape
        /\ new.status \in {w.seen.status, "pending", "manual_review", "completed"}
        /\ w.op = "save" => new.status = w.seen.status
        /\ new.event \in {w.seen.event, w.answer, w.task.event}
        /\ new.event # w.seen.event => new.event # "none"
        /\ new.attempts = w.seen.attempts
    <2>1. CASE w.op = "save"
      <3>1. new = [w.seen EXCEPT !.event = w.answer, !.lease = "live"]
        BY <2>1 DEF OpResult
      <3>2. w.answer # "none"
        BY <1>1, <2>1 DEF WorkOK
      <3> QED  BY <1>2, <2>1, <3>1, <3>2 DEF RowShape
    <2>2. CASE w.op = "retry"
      <3>1. new = Released(w.seen, "pending", "later")
        BY <2>2 DEF OpResult
      <3> QED  BY <1>2, <2>2, <3>1 DEF Released, RowShape, RowStatus
    <2>3. CASE w.op = "manual_review"
      <3>1. new = Released(w.seen, "manual_review", "none")
        BY <2>3 DEF OpResult
      <3> QED  BY <1>2, <2>3, <3>1 DEF Released, RowShape, RowStatus
    <2>4. CASE w.op = "complete"
      <3>1. new = [Released(w.seen, "completed", "none") EXCEPT !.event = w.task.event]
        BY <2>4 DEF OpResult
      <3>2. w.task.event # "none" /\ w.task.event \in EventId
        BY <1>1, <1>2, <2>4 DEF WorkOK, RowShape
      <3> QED  BY <1>2, <2>4, <3>1, <3>2 DEF Released, RowShape, RowStatus
    <2> QED  BY <1>3, <2>1, <2>2, <2>3, <2>4
  <1> HIDE DEF new
  <1> QED  BY <1>2, <1>4, <1>5, FlushIs

\* A replay makes a write claimable again, as the first time or not.
LEMMA ReplayIs ==
    ASSUME OutboxTypeOK, NEW r \in Request, RequestOK(request[r]), ReplayWrite(r)
    PROVE  LET q == request[r]
               k == request[r].key
           IN /\ k \in Key /\ q.phase = "writing"
              /\ row' \in [Key -> RowShape]
              /\ \A j \in Key : j # k => row'[j] = row[j]
              /\ row'[k].status = "pending"
              /\ row'[k].event = row[k].event
              /\ row'[k].attempts \in {row[k].attempts, IF q.seen.event = "none" THEN 0 ELSE 1}
  <1> DEFINE q == request[r]
             k == request[r].key
             new == Replayed(q.seen)
  <1>1. q \in RequestShape /\ q.phase = "writing"
    BY DEF OutboxTypeOK, ReplayWrite
  <1>2. q.seen \in RowShape /\ k \in Key /\ q.seen.status = "manual_review"
    BY <1>1 DEF RequestShape, RequestOK
  <1>3. /\ new \in RowShape
        /\ new.status = "pending" /\ new.event = q.seen.event
        /\ new.attempts = IF q.seen.event = "none" THEN 0 ELSE 1
    BY <1>2 DEF Replayed, Released, RowShape, RowStatus
  <1>4. Flush(k, q.seen, new)
    BY DEF ReplayWrite
  <1> HIDE DEF new
  <1> QED  BY <1>1, <1>2, <1>3, <1>4, FlushIs

-----------------------------------------------------------------------------
(* Types.                                                                   *)

LEMMA ThenIs ==
    ASSUME OutboxTypeOK, NEW p \in Process, NEW e \in EventId,
           NEW op \in {"save", "retry", "manual_review", "complete"}, NEW g \in BOOLEAN,
           Then(p, op, e, g)
    PROVE  /\ worker' \in [Process -> WorkerShape]
           /\ worker'[p].phase = "deciding" /\ worker'[p].key = worker[p].key
           /\ worker'[p].op = op /\ worker'[p].answer = e /\ worker'[p].task = worker[p].task
  <1> DEFINE w == [worker[p] EXCEPT !.phase = "deciding", !.op = op, !.answer = e, !.guarded = g]
  <1>1. worker[p] \in WorkerShape /\ worker \in [Process -> WorkerShape]
    BY DEF OutboxTypeOK
  <1>2. worker' = [worker EXCEPT ![p] = w]
    BY DEF Then
  <1>3. /\ w \in WorkerShape /\ w.phase = "deciding" /\ w.key = worker[p].key
        /\ w.op = op /\ w.answer = e /\ w.task = worker[p].task
    BY <1>1 DEF WorkerShape, Busy
  <1> HIDE DEF w
  <1> QED  BY <1>1, <1>2, <1>3

\* What run_once does next.
DecideStep(p) == Poll(p) \/ GiveUp(p) \/ Add(p)

LEMMA DecideIs ==
    ASSUME OutboxTypeOK, NEW p \in Process, WorkOK(worker[p]), DecideStep(p)
    PROVE  /\ worker[p].phase = "claimed" /\ worker[p].key \in Key
           /\ worker' \in [Process -> WorkerShape]
           /\ worker'[p].phase = "deciding" /\ worker'[p].key = worker[p].key
           /\ WorkOK(worker'[p])
           /\ UNCHANGED <<row, intents, request, replays>>
           /\ \/ UNCHANGED sent
              \/ Holding(p, worker[p].key) /\ sent' = [sent EXCEPT ![worker[p].key] = @ + 1]
  <1>1. worker[p].phase = "claimed" /\ worker[p] \in WorkerShape
    BY DEF DecideStep, Poll, GiveUp, Add, OutboxTypeOK
  <1>2. worker[p].key \in Key /\ worker[p].task.attempts > 0 /\ worker[p].task.attempts \in Nat
    BY <1>1 DEF WorkOK, Busy, WorkerShape, RowShape
  <1>3. \E op \in {"save", "retry", "manual_review", "complete"}, e \in EventId, g \in BOOLEAN :
           /\ Then(p, op, e, g)
           /\ op = "save" => e # "none"
           /\ op = "complete" => worker[p].task.event # "none"
    BY DEF DecideStep, Poll, GiveUp, Add, EventId
  <1>4. PICK op \in {"save", "retry", "manual_review", "complete"}, e \in EventId, g \in BOOLEAN :
           /\ Then(p, op, e, g)
           /\ op = "save" => e # "none"
           /\ op = "complete" => worker[p].task.event # "none"
    BY <1>3
  <1>5. /\ worker' \in [Process -> WorkerShape]
        /\ worker'[p].phase = "deciding" /\ worker'[p].key = worker[p].key
        /\ worker'[p].op = op /\ worker'[p].answer = e /\ worker'[p].task = worker[p].task
    BY <1>4, ThenIs
  <1>6. WorkOK(worker'[p])
    BY <1>1, <1>4, <1>5 DEF WorkOK, Busy
  <1>7. UNCHANGED <<row, intents, request, replays>>
    BY DEF DecideStep, Poll, GiveUp, Add
  <1>8. \/ UNCHANGED sent
        \/ Holding(p, worker[p].key) /\ sent' = [sent EXCEPT ![worker[p].key] = @ + 1]
    <2>1. CASE Poll(p) \/ GiveUp(p)
      BY <2>1 DEF Poll, GiveUp, mem0
    <2>2. CASE Add(p)
      <3>1. UNCHANGED sent \/ sent' = [sent EXCEPT ![worker[p].key] = @ + 1]
        BY <2>2 DEF Add
      <3>2. Holding(p, worker[p].key)
        BY <1>1, <1>2, <2>2 DEF Add, Holding, BoundaryUnknown
      <3> QED  BY <3>1, <3>2
    <2> QED  BY <2>1, <2>2 DEF DecideStep
  <1> QED  BY <1>1, <1>2, <1>5, <1>6, <1>7, <1>8

\* An error of the database moves no row: it ends the loop or has the write
\* reviewed.
Failing(p) == ClaimFails(p) \/ OpFails(p)

LEMMA FailIs ==
    ASSUME OutboxTypeOK, NEW p \in Process, WorkOK(worker[p]), Failing(p)
    PROVE  /\ worker' \in [Process -> WorkerShape]
           /\ \A q \in Process : q # p => worker'[q] = worker[q]
           /\ worker'[p].phase \notin {"claimed", "claiming"}
           /\ WorkOK(worker'[p])
           /\ UNCHANGED <<row, intents, request, sent, stored, replays>>
  <1>1. worker \in [Process -> WorkerShape]
    BY DEF OutboxTypeOK
  <1>2. UNCHANGED <<row, intents, request, sent, stored, replays>>
    BY DEF Failing, ClaimFails, OpFails, mem0
  <1>3. CASE worker' = [worker EXCEPT ![p] = Ended]
    <2>1. worker'[p].phase = "ended"
      BY <1>1, <1>3 DEF Ended, Idle
    <2> QED  BY <1>1, <1>2, <1>3, <2>1, InitialShapes DEF WorkOK, Busy
  <1>4. CASE OpFails(p) /\ Then(p, "manual_review", "none", FALSE)
    <2>1. /\ worker' \in [Process -> WorkerShape]
          /\ worker'[p].phase = "deciding" /\ worker'[p].key = worker[p].key
          /\ worker'[p].op = "manual_review"
      BY <1>4, ThenIs DEF EventId
    <2>2. \A q \in Process : q # p => worker'[q] = worker[q]
      BY <1>1, <1>4 DEF Then
    <2>3. worker[p].phase \in Busy
      BY <1>4 DEF OpFails, Busy
    <2>4. WorkOK(worker'[p])
      BY <2>1, <2>3 DEF WorkOK, Busy
    <2> QED  BY <1>2, <2>1, <2>2, <2>4
  <1> QED  BY <1>3, <1>4 DEF Failing, ClaimFails, OpFails

LEMMA TypeKeeps ==
    ASSUME OutboxInv, Next
    PROVE  OutboxTypeOK'
  <1> USE DEF OutboxInv
  <1>1. ASSUME NEW p \in Process, NEW k \in Key, WriteBackground(p, k) PROVE OutboxTypeOK'
    BY <1>1 DEF WriteBackground, OutboxTypeOK, mem0
  <1>2. ASSUME NEW p \in Process, NEW k \in Key, Enqueue(p, k) PROVE OutboxTypeOK'
    <2>1. [NoRow EXCEPT !.status = "pending"] \in RowShape
      BY InitialShapes DEF RowShape, RowStatus
    <2> QED  BY <1>2, <2>1 DEF Enqueue, OutboxTypeOK, mem0
  <1>14. ASSUME NEW p \in Process, NEW k \in Key, EnqueueFails(p, k) PROVE OutboxTypeOK'
    BY <1>14 DEF EnqueueFails, OutboxTypeOK, mem0
  <1>15. ASSUME NEW p \in Process, Failing(p) PROVE OutboxTypeOK'
    BY <1>15, FailIs DEF OutboxTypeOK
  <1>16. ASSUME NEW r \in Request, ReplayFails(r) PROVE OutboxTypeOK'
    <2>1. NoRequest \in RequestShape
      BY InitialShapes DEF NoRequest, RequestShape
    <2> QED  BY <1>16, <2>1 DEF ReplayFails, OutboxTypeOK, mem0
  <1>3. ASSUME NEW p \in Process, ClaimRead(p) PROVE OutboxTypeOK'
    <2>1. PICK k \in Key : worker' = [worker EXCEPT ![p] =
                              [Idle EXCEPT !.phase = "claiming", !.key = k, !.seen = row[k]]]
      BY <1>3 DEF ClaimRead
    <2>2. [Idle EXCEPT !.phase = "claiming", !.key = k, !.seen = row[k]] \in WorkerShape
      BY InitialShapes DEF Idle, WorkerShape, Busy, OutboxTypeOK
    <2> QED  BY <1>3, <2>1, <2>2 DEF ClaimRead, OutboxTypeOK, mem0
  <1>4. ASSUME NEW p \in Process, ClaimWrite(p) PROVE OutboxTypeOK'
    <2>1. row' \in [Key -> RowShape] /\ worker'[p] \in WorkerShape
      BY <1>4, ClaimIs
    <2>2. \A q \in Process : q # p => worker'[q] = worker[q]
      BY <1>4 DEF ClaimWrite, OutboxTypeOK
    <2>3. worker' = [worker EXCEPT ![p] = worker'[p]]
      BY <1>4 DEF ClaimWrite, OutboxTypeOK
    <2> QED  BY <1>4, <2>1, <2>3 DEF ClaimWrite, OutboxTypeOK, mem0
  <1>5. ASSUME NEW p \in Process, DecideStep(p) PROVE OutboxTypeOK'
    <2>1. worker' \in [Process -> WorkerShape] /\ UNCHANGED <<row, intents, request, replays>>
      BY <1>5, DecideIs
    <2>2. sent' \in [Key -> Nat]
      BY <1>5, DecideIs DEF OutboxTypeOK
    <2> QED  BY <2>1, <2>2 DEF OutboxTypeOK
  <1>6. ASSUME NEW p \in Process, OpRead(p) PROVE OutboxTypeOK'
    <2>1. worker[p].key \in Key
      BY <1>6 DEF OpRead, WorkOK, Busy
    <2> QED  BY <1>6, <2>1, InitialShapes DEF OpRead, OutboxTypeOK, WorkerShape, Busy, mem0
  <1>7. ASSUME NEW p \in Process, OpWrite(p) PROVE OutboxTypeOK'
    <2>1. row' \in [Key -> RowShape]
      BY <1>7, OpIs
    <2>2. worker' \in [Process -> WorkerShape]
      BY <1>7, ThenIs, InitialShapes DEF OpWrite, OutboxTypeOK, EventId
    <2> QED  BY <1>7, <2>1, <2>2 DEF OpWrite, OutboxTypeOK, mem0
  <1>8. ASSUME NEW p \in Process, Crash(p) PROVE OutboxTypeOK'
    <2>1. NoRequest \in RequestShape
      BY InitialShapes DEF NoRequest, RequestShape
    <2> QED  BY <1>8, <2>1, InitialShapes DEF Crash, OutboxTypeOK, mem0
  <1>9. ASSUME NEW p \in Process, Restart(p) PROVE OutboxTypeOK'
    BY <1>9, InitialShapes DEF Restart, OutboxTypeOK, mem0
  <1>10. ASSUME NEW k \in Key, Store(k) PROVE OutboxTypeOK'
    BY <1>10 DEF Store, OutboxTypeOK
  <1>11. ASSUME NEW k \in Key, ExpireLease(k) \/ RetryFallsDue(k) PROVE OutboxTypeOK'
    <2>1. /\ row[k] \in RowShape
          /\ [row[k] EXCEPT !.lease = "expired"] \in RowShape
          /\ [row[k] EXCEPT !.retry = "due"] \in RowShape
      BY DEF OutboxTypeOK, RowShape
    <2>2. row' \in {[row EXCEPT ![k] = [row[k] EXCEPT !.lease = "expired"]],
                    [row EXCEPT ![k] = [row[k] EXCEPT !.retry = "due"]]}
      BY <1>11 DEF ExpireLease, RetryFallsDue
    <2>3. row' \in [Key -> RowShape]
      BY <2>1, <2>2 DEF OutboxTypeOK
    <2> QED  BY <1>11, <2>3 DEF ExpireLease, RetryFallsDue, OutboxTypeOK, mem0
  <1>12. ASSUME NEW r \in Request, NEW p \in Process, NEW k \in Key, ReplayRead(r, p, k)
         PROVE OutboxTypeOK'
    BY <1>12 DEF ReplayRead, OutboxTypeOK, RequestShape, mem0
  <1>13. ASSUME NEW r \in Request, ReplayWrite(r) PROVE OutboxTypeOK'
    <2>1. row' \in [Key -> RowShape] /\ request[r].key \in Key
      BY <1>13, ReplayIs
    <2>2. NoRequest \in RequestShape
      BY InitialShapes DEF NoRequest, RequestShape
    <2>3. request' \in [Request -> RequestShape]
      BY <1>13, <2>2 DEF ReplayWrite, OutboxTypeOK
    <2>4. replays' \in [Key -> Nat]
      BY <1>13, <2>1 DEF ReplayWrite, OutboxTypeOK
    <2> QED  BY <1>13, <2>1, <2>3, <2>4 DEF ReplayWrite, OutboxTypeOK, mem0
  <1> QED
    BY <1>1, <1>2, <1>3, <1>4, <1>5, <1>6, <1>7, <1>8, <1>9, <1>10, <1>11, <1>12, <1>13,
       <1>14, <1>15, <1>16
    DEF Next, Working, DecideStep, Failing

-----------------------------------------------------------------------------
(* The rows: what each step may do to them.                                 *)

\* A row that has been inserted stays, and keeps its event id.
RowsGoOn ==
    \A k \in Key :
        /\ row[k].status # "absent" => row'[k].status # "absent"
        /\ row[k].event # "none" => row'[k].event # "none"

LEMMA AgeingIs ==
    ASSUME OutboxTypeOK, NEW k \in Key, ExpireLease(k) \/ RetryFallsDue(k)
    PROVE  /\ \A j \in Key : row'[j].status = row[j].status /\ row'[j].event = row[j].event
                             /\ row'[j].attempts = row[j].attempts
           /\ \A j \in Key : row[j] = NoRow => row'[j] = row[j]
  <1>1. row[k] \in RowShape
    BY DEF OutboxTypeOK
  <1>2. row[k] # NoRow
    BY DEF ExpireLease, RetryFallsDue, NoRow
  <1>3. \/ row' = [row EXCEPT ![k] = [row[k] EXCEPT !.lease = "expired"]]
        \/ row' = [row EXCEPT ![k] = [row[k] EXCEPT !.retry = "due"]]
    BY DEF ExpireLease, RetryFallsDue
  <1>4. \A j \in Key : j # k => row'[j] = row[j]
    BY <1>3 DEF OutboxTypeOK
  <1>5. row'[k].status = row[k].status /\ row'[k].event = row[k].event
        /\ row'[k].attempts = row[k].attempts
    BY <1>1, <1>3 DEF OutboxTypeOK, RowShape
  <1> QED  BY <1>2, <1>4, <1>5

LEMMA EnqueueIs ==
    ASSUME OutboxInv, NEW p \in Process, NEW k \in Key, Enqueue(p, k)
    PROVE  /\ row[k] = NoRow /\ row'[k].status = "pending"
           /\ row'[k].event = "none" /\ row'[k].attempts = 0
           /\ \A j \in Key : j # k => row'[j] = row[j]
  <1>1. row[k] = NoRow
    BY DEF Enqueue, OutboxInv, AcceptedInv
  <1> QED  BY <1>1 DEF Enqueue, OutboxInv, OutboxTypeOK, NoRow

LEMMA RowsKeep ==
    ASSUME OutboxInv, Next
    PROVE  RowsGoOn
  <1> SUFFICES ASSUME row' # row PROVE RowsGoOn
    BY DEF RowsGoOn
  <1>1. ASSUME NEW p \in Process, NEW k \in Key, Enqueue(p, k) PROVE RowsGoOn
    BY <1>1, EnqueueIs DEF RowsGoOn, NoRow
  <1>2. ASSUME NEW p \in Process, ClaimWrite(p) PROVE RowsGoOn
    BY <1>2, ClaimIs DEF RowsGoOn, OutboxInv
  <1>3. ASSUME NEW p \in Process, OpWrite(p) PROVE RowsGoOn
    BY <1>3, OpIs DEF RowsGoOn, OutboxInv
  <1>4. ASSUME NEW k \in Key, ExpireLease(k) \/ RetryFallsDue(k) PROVE RowsGoOn
    BY <1>4, AgeingIs DEF RowsGoOn, OutboxInv
  <1>5. ASSUME NEW r \in Request, ReplayWrite(r) PROVE RowsGoOn
    BY <1>5, ReplayIs DEF RowsGoOn, OutboxInv
  <1> QED
    BY <1>1, <1>2, <1>3, <1>4, <1>5
    DEF Next, Working, WriteBackground, EnqueueFails, ClaimRead, ClaimFails, Poll, GiveUp, Add,
        OpRead, OpFails, Crash, Restart, Store, ReplayRead, ReplayFails

LEMMA AcceptedKeeps ==
    ASSUME OneProcess, OutboxInv, Next
    PROVE  AcceptedInv'
  <1> USE DEF OutboxInv
  <1>a. RowsGoOn
    BY RowsKeep
  <1>1. ASSUME NEW p \in Process, NEW k \in Key, WriteBackground(p, k) PROVE AcceptedInv'
    BY <1>1 DEF WriteBackground, AcceptedInv
  <1>2. ASSUME NEW p \in Process, NEW k \in Key, Enqueue(p, k) PROVE AcceptedInv'
    <2>1. ASSUME NEW x \in intents' PROVE row'[x[2]] = row[x[2]] /\ x \in intents
      <3>1. x \in intents /\ x # <<p, k>> /\ x \in Process \X Key
        BY <1>2, <2>1 DEF Enqueue, OutboxTypeOK
      <3>2. x = <<x[1], x[2]>> /\ x[1] = p
        BY <3>1 DEF OneProcess
      <3>3. x[2] # k /\ x[2] \in Key
        BY <3>1, <3>2
      <3> QED  BY <1>2, <3>1, <3>3, EnqueueIs
    <2>2. \A j \in Key : row'[j].status = "absent" => row'[j] = NoRow
      BY <1>2, EnqueueIs DEF AcceptedInv
    <2> QED  BY <2>1, <2>2 DEF AcceptedInv
  <1>3. ASSUME NEW k \in Key, row'[k].status \in {row[k].status, "processing", "pending",
                                                "manual_review", "completed"},
               row[k].status # "absent", \A j \in Key : j # k => row'[j] = row[j],
               UNCHANGED intents
        PROVE  AcceptedInv'
    BY <1>3 DEF AcceptedInv, OutboxTypeOK
  <1>4. ASSUME NEW p \in Process, ClaimWrite(p) PROVE AcceptedInv'
    <2>1. row[worker[p].key].status # "absent"
      BY <1>4 DEF ClaimWrite, WorkOK, Busy
    <2> QED  BY <1>3, <1>4, <2>1, ClaimIs DEF ClaimWrite
  <1>5. ASSUME NEW p \in Process, OpWrite(p) PROVE AcceptedInv'
    <2>1. row[worker[p].key].status # "absent"
      BY <1>5 DEF OpWrite, WorkOK, Busy
    <2> QED  BY <1>3, <1>5, <2>1, OpIs DEF OpWrite
  <1>6. ASSUME NEW r \in Request, ReplayWrite(r) PROVE AcceptedInv'
    <2>1. row[request[r].key].status # "absent"
      BY <1>6 DEF ReplayWrite, RequestOK
    <2> QED  BY <1>3, <1>6, <2>1, ReplayIs DEF ReplayWrite
  <1>7. ASSUME NEW k \in Key, ExpireLease(k) \/ RetryFallsDue(k) PROVE AcceptedInv'
    <2>1. UNCHANGED intents
      BY <1>7 DEF ExpireLease, RetryFallsDue
    <2> QED  BY <1>7, <2>1, AgeingIs DEF AcceptedInv, OutboxTypeOK
  <1>8. ASSUME UNCHANGED row, intents' \subseteq intents PROVE AcceptedInv'
    BY <1>8 DEF AcceptedInv
  <1> QED
    BY <1>1, <1>2, <1>4, <1>5, <1>6, <1>7, <1>8
    DEF Next, Working, EnqueueFails, ClaimRead, ClaimFails, Poll, GiveUp, Add, OpRead, OpFails,
        Crash, Restart, Store, ReplayRead, ReplayFails

LEMMA RequestKeeps ==
    ASSUME OutboxInv, Next, NEW r \in Request
    PROVE  RequestOK(request[r])'
  <1>1. RowsGoOn /\ OutboxTypeOK /\ RequestOK(request[r])
    BY RowsKeep DEF OutboxInv
  <1>2. CASE request'[r] = request[r] \/ request'[r] = NoRequest
    BY <1>1, <1>2 DEF RequestOK, RowsGoOn, NoRequest
  <1>3. ASSUME NEW p \in Process, NEW k \in Key, ReplayRead(r, p, k) PROVE RequestOK(request[r])'
    <2>1. request'[r] = [phase |-> "writing", key |-> k, seen |-> row[k], proc |-> p]
      BY <1>1, <1>3 DEF ReplayRead, OutboxTypeOK
    <2>2. row' = row /\ row[k].status = "manual_review"
      BY <1>3 DEF ReplayRead
    <2> QED  BY <2>1, <2>2 DEF RequestOK
  <1>4. request'[r] = request[r] \/ request'[r] = NoRequest
          \/ \E p \in Process, k \in Key : ReplayRead(r, p, k)
    BY <1>1
    DEF Next, Working, WriteBackground, Enqueue, EnqueueFails, ClaimRead, ClaimWrite, ClaimFails,
        Poll, GiveUp, Add, OpRead, OpWrite, OpFails, Crash, Restart, Store, ExpireLease,
        RetryFallsDue, ReplayRead, ReplayWrite, ReplayFails, OutboxTypeOK
  <1> QED  BY <1>2, <1>3, <1>4

-----------------------------------------------------------------------------
(* The worker.                                                              *)

\* A worker that does not move is not disturbed by a step that leaves its
\* write inserted and unreviewed, and what it has read of a claim still true.
LEMMA WorkStays ==
    ASSUME NEW p \in Process, WorkOK(worker[p]), worker'[p] = worker[p],
           worker[p].phase \in Busy =>
             LET k == worker[p].key
             IN /\ row'[k].status \notin {"absent", "manual_review"}
                /\ row'[k].event = row[k].event
                /\ row[k].attempts = 0 /\ row[k].event = "none" => row'[k].attempts = 0
    PROVE  WorkOK(worker[p])'
  BY DEF WorkOK, Busy

LEMMA WorkKeeps ==
    ASSUME OneProcess, OutboxInv, Next, NEW p \in Process
    PROVE  WorkOK(worker[p])'
  <1>a. OutboxTypeOK /\ WorkOK(worker[p])
    BY DEF OutboxInv
  <1>b. \A q \in Process : q = p
    BY DEF OneProcess
  <1> DEFINE k == worker[p].key
  <1>1. ASSUME UNCHANGED <<row, worker>> PROVE WorkOK(worker[p])'
    BY <1>a, <1>1 DEF WorkOK
  <1>2. ASSUME NEW q \in Process, NEW j \in Key, Enqueue(q, j) PROVE WorkOK(worker[p])'
    <2>1. worker'[p] = worker[p] /\ row[j].status = "absent"
      BY <1>2 DEF Enqueue, OutboxInv, AcceptedInv
    <2>2. worker[p].phase \in Busy => k \in Key /\ k # j /\ row'[k] = row[k]
                                      /\ row[k].status \notin {"absent", "manual_review"}
      BY <1>a, <1>2, <2>1, EnqueueIs DEF WorkOK
    <2> QED  BY <1>a, <2>1, <2>2, WorkStays
  <1>3. ASSUME ClaimRead(p) PROVE WorkOK(worker[p])'
    <2>1. PICK j \in Key : /\ Claimable(row[j])
                          /\ worker' = [worker EXCEPT ![p] =
                                [Idle EXCEPT !.phase = "claiming", !.key = j, !.seen = row[j]]]
      BY <1>3 DEF ClaimRead
    <2>2. /\ worker'[p].phase = "claiming" /\ worker'[p].key = j
          /\ worker'[p].seen = row[j] /\ row' = row
      BY <1>a, <1>3, <2>1 DEF ClaimRead, OutboxTypeOK, Idle
    <2>3. row[j].status \notin {"absent", "manual_review"}
      BY <2>1 DEF Claimable
    <2> QED  BY <2>1, <2>2, <2>3 DEF WorkOK, Busy
  <1>4. ASSUME ClaimWrite(p) PROVE WorkOK(worker[p])'
    <2>1. row[k].status \notin {"absent", "manual_review"} /\ worker[p].seen \in RowShape
      BY <1>a, <1>4 DEF ClaimWrite, WorkOK, Busy, OutboxTypeOK, WorkerShape
    <2>2. worker[p].seen.attempts \in Nat
      BY <2>1 DEF RowShape
    <2> QED  BY <1>a, <1>4, <2>1, <2>2, ClaimIs DEF WorkOK, Busy
  <1>5. ASSUME DecideStep(p) PROVE WorkOK(worker[p])'
    <2>1. WorkOK(worker'[p]) /\ row' = row
      BY <1>a, <1>5, DecideIs
    <2> QED  BY <2>1 DEF WorkOK
  <1>6. ASSUME OpRead(p) PROVE WorkOK(worker[p])'
    <2>1. /\ row' = row
          /\ \/ worker'[p] = Idle
             \/ worker'[p] = [worker[p] EXCEPT !.phase = "writing", !.seen = row[k]]
      BY <1>a, <1>6 DEF OpRead, OutboxTypeOK
    <2>2. worker[p].phase = "deciding" /\ worker[p] \in WorkerShape
      BY <1>a, <1>6 DEF OpRead, OutboxTypeOK
    <2>3. CASE worker'[p] = Idle
      BY <2>3 DEF WorkOK, Busy, Idle
    <2>4. CASE worker'[p] = [worker[p] EXCEPT !.phase = "writing", !.seen = row[k]]
      <3>1. /\ worker'[p].phase = "writing" /\ worker'[p].key = k /\ worker'[p].op = worker[p].op
            /\ worker'[p].answer = worker[p].answer /\ worker'[p].task = worker[p].task
        BY <2>2, <2>4 DEF WorkerShape
      <3> QED  BY <1>a, <2>1, <2>2, <3>1 DEF WorkOK, Busy
    <2> QED  BY <2>1, <2>3, <2>4
  <1>7. ASSUME OpWrite(p) PROVE WorkOK(worker[p])'
    <2>1. CASE worker[p].op = "save"
      <3>1. Then(p, "retry", "none", FALSE)
        BY <1>7, <2>1 DEF OpWrite
      <3>2. /\ worker'[p].phase = "deciding" /\ worker'[p].key = k /\ worker'[p].op = "retry"
        BY <1>a, <3>1, ThenIs DEF EventId
      <3>3. row'[k].status = row[k].status /\ row[k].status \notin {"absent", "manual_review"}
            /\ k \in Key
        BY <1>a, <1>7, <2>1, OpIs DEF OpWrite, WorkOK, Busy
      <3> QED  BY <3>2, <3>3 DEF WorkOK
    <2>2. CASE worker[p].op # "save"
      <3>1. worker'[p] = Idle
        BY <1>a, <1>7, <2>2 DEF OpWrite, OutboxTypeOK
      <3> QED  BY <3>1 DEF WorkOK, Idle, Busy
    <2> QED  BY <2>1, <2>2
  <1>8. ASSUME Crash(p) \/ Restart(p) PROVE WorkOK(worker[p])'
    <2>1. worker'[p] \in {Idle, Down}
      BY <1>a, <1>8 DEF Crash, Restart, OutboxTypeOK
    <2> QED  BY <2>1 DEF WorkOK, Idle, Down, Busy
  <1>9. ASSUME NEW j \in Key, ExpireLease(j) \/ RetryFallsDue(j) PROVE WorkOK(worker[p])'
    <2>1. worker' = worker
      BY <1>9 DEF ExpireLease, RetryFallsDue
    <2>2. worker[p].phase \in Busy => k \in Key /\ row[k].status \notin {"absent", "manual_review"}
      BY <1>a DEF WorkOK
    <2> QED  BY <1>a, <1>9, <2>1, <2>2, AgeingIs, WorkStays
  <1>10. ASSUME NEW r \in Request, ReplayWrite(r) PROVE WorkOK(worker[p])'
    <2>1. worker' = worker
      BY <1>10 DEF ReplayWrite
    <2>2. RequestOK(request[r]) /\ request[r].phase = "writing"
      BY <1>10 DEF OutboxInv, ReplayWrite
    <2>3. worker[p].phase \in Busy => k \in Key /\ row[k].status \notin {"absent", "manual_review"}
      BY <1>a DEF WorkOK
    <2>4. \A j \in Key : row'[j].event = row[j].event /\ row'[j].status \in {row[j].status, "pending"}
                        /\ (row[j].attempts = 0 /\ row[j].event = "none" => row'[j].attempts = 0)
      BY <1>a, <1>10, <2>2, ReplayIs DEF RequestOK
    <2> QED  BY <1>a, <2>1, <2>3, <2>4, WorkStays
  <1>11. ASSUME Failing(p) PROVE WorkOK(worker[p])'
    <2>1. WorkOK(worker'[p]) /\ row' = row
      BY <1>a, <1>11, FailIs
    <2> QED  BY <2>1 DEF WorkOK
  <1> QED
    BY <1>b, <1>1, <1>2, <1>3, <1>4, <1>5, <1>6, <1>7, <1>8, <1>9, <1>10, <1>11
    DEF Next, Working, DecideStep, Failing, WriteBackground, EnqueueFails, Store, ReplayRead,
        ReplayFails

-----------------------------------------------------------------------------
(* The requests Mem0 has received.                                          *)

LEMMA CountTypes ==
    ASSUME SentInv, NEW k \in Key, OutboxTypeOK, OutboxTypeOK'
    PROVE  /\ sent[k] \in Nat /\ replays[k] \in Nat /\ sent'[k] \in Nat /\ replays'[k] \in Nat
           /\ sent[k] + Chances(k, Fresh, Held) <= 1 + replays[k]
  BY DEF SentInv, OutboxTypeOK

LEMMA CountStays ==
    ASSUME SentInv, NEW k \in Key, OutboxTypeOK, OutboxTypeOK',
           sent'[k] = sent[k], replays'[k] = replays[k],
           k \in Fresh' => k \in Fresh,
           k \in Held' => k \in Held \/ (k \in Fresh /\ k \notin Fresh')
    PROVE  sent'[k] + Chances(k, Fresh', Held') <= 1 + replays'[k]
  BY CountTypes DEF Chances

LEMMA CountReplay ==
    ASSUME SentInv, NEW k \in Key, OutboxTypeOK, OutboxTypeOK',
           sent'[k] = sent[k], replays'[k] = replays[k] + 1, k \in Held' => k \in Held
    PROVE  sent'[k] + Chances(k, Fresh', Held') <= 1 + replays'[k]
  BY CountTypes DEF Chances

LEMMA CountSends ==
    ASSUME SentInv, NEW k \in Key, OutboxTypeOK, OutboxTypeOK',
           sent'[k] = sent[k] + 1, replays'[k] = replays[k],
           k \in Fresh' => k \in Fresh, k \in Held, k \notin Held'
    PROVE  sent'[k] + Chances(k, Fresh', Held') <= 1 + replays'[k]
  BY CountTypes DEF Chances

LEMMA SentKeeps ==
    ASSUME OneProcess, OutboxInv, Next, OutboxTypeOK', NEW k \in Key
    PROVE  sent'[k] + Chances(k, Fresh', Held') <= 1 + replays'[k]
  <1>a. OutboxTypeOK /\ SentInv
    BY DEF OutboxInv
  <1> DEFINE Counted == sent'[k] + Chances(k, Fresh', Held') <= 1 + replays'[k]
  <1>1. ASSUME UNCHANGED <<row, sent, replays>>, \A p \in Process : Holding(p, k)' => Holding(p, k)
        PROVE  Counted
    <2>1. k \in Fresh' => k \in Fresh
      BY <1>1 DEF Fresh
    <2>2. k \in Held' => k \in Held
      BY <1>1 DEF Held
    <2>3. sent'[k] = sent[k] /\ replays'[k] = replays[k]
      BY <1>1
    <2>4. sent'[k] + Chances(k, Fresh', Held') <= 1 + replays'[k]
      BY <1>a, <2>1, <2>2, <2>3, CountStays, Zenon
    <2> QED  BY <2>4
  <1>2. ASSUME UNCHANGED <<worker, sent, replays>>, k \in Fresh' => k \in Fresh PROVE Counted
    <2>1. k \in Held' => k \in Held
      BY <1>2 DEF Held, Holding
    <2> QED  BY <1>a, <1>2, <2>1, CountStays
  <1>3. ASSUME NEW q \in Process, NEW j \in Key, Enqueue(q, j) PROVE Counted
    <2>1. k \in Fresh' => k \in Fresh
      BY <1>3, EnqueueIs DEF Fresh, NoRow
    <2> QED  BY <1>2, <1>3, <2>1 DEF Enqueue, mem0
  <1>4. ASSUME NEW p \in Process, ClaimRead(p) \/ OpRead(p) \/ Crash(p) \/ Restart(p) PROVE Counted
    <2>1. \E w : w.phase # "claimed" /\ worker' = [worker EXCEPT ![p] = w]
      <3>1. CASE ClaimRead(p)
        <4>1. PICK j \in Key : worker' = [worker EXCEPT ![p] =
                                 [Idle EXCEPT !.phase = "claiming", !.key = j, !.seen = row[j]]]
          BY <3>1 DEF ClaimRead
        <4>2. [Idle EXCEPT !.phase = "claiming", !.key = j, !.seen = row[j]].phase = "claiming"
          BY DEF Idle
        <4> QED  BY <4>1, <4>2
      <3>2. CASE OpRead(p)
        <4>1. worker[p] \in WorkerShape
          BY <1>a DEF OutboxTypeOK
        <4>2. [worker[p] EXCEPT !.phase = "writing", !.seen = row[worker[p].key]].phase = "writing"
          BY <4>1 DEF WorkerShape
        <4> QED  BY <3>2, <4>2 DEF OpRead, Idle
      <3>3. CASE Crash(p) \/ Restart(p)
        BY <3>3 DEF Crash, Restart, Idle, Down
      <3> QED  BY <1>4, <3>1, <3>2, <3>3
    <2>2. worker'[p].phase # "claimed" /\ \A q \in Process : q # p => worker'[q] = worker[q]
      BY <1>a, <2>1 DEF OutboxTypeOK
    <2>3. \A q \in Process : Holding(q, k)' => Holding(q, k)
      BY <2>2 DEF Holding
    <2> QED  BY <1>1, <1>4, <2>3 DEF ClaimRead, OpRead, Crash, Restart, mem0
  <1>5. ASSUME NEW p \in Process, ClaimWrite(p) PROVE Counted
    <2>1. WorkOK(worker[p]) /\ worker[p].phase = "claiming" /\ worker[p].seen \in RowShape
      BY <1>a, <1>5 DEF OutboxInv, ClaimWrite, OutboxTypeOK, WorkerShape
    <2>2. worker[p].seen.attempts \in Nat
      BY <2>1 DEF RowShape
    <2>3. UNCHANGED <<sent, replays>> /\ \A q \in Process : q # p => worker'[q] = worker[q]
      BY <1>a, <1>5 DEF ClaimWrite, mem0, OutboxTypeOK
    <2>4. CASE worker[p].key # k
      <3>1. row'[k] = row[k] /\ \A q \in Process : Holding(q, k)' => Holding(q, k)
        BY <1>a, <1>5, <2>1, <2>3, <2>4, ClaimIs DEF Holding
      <3>2. (k \in Fresh' => k \in Fresh) /\ (k \in Held' => k \in Held)
        BY <3>1 DEF Held, Fresh
      <3> QED  BY <1>a, <2>3, <3>2, CountStays
    <2>5. CASE worker[p].key = k
      <3>1. k \notin Fresh'
        BY <1>a, <1>5, <2>1, <2>2, <2>5, ClaimIs DEF Fresh
      <3>2. \A q \in Process : q # p /\ Holding(q, k)' => Holding(q, k)
        BY <2>3 DEF Holding
      <3>3. Holding(p, k)' => k \in Fresh
        BY <1>a, <1>5, <2>1, <2>2, <2>5, ClaimIs DEF Holding, Fresh, WorkOK
      <3>4. k \in Held' => k \in Held \/ k \in Fresh
        BY <3>2, <3>3 DEF Held
      <3> QED  BY <1>a, <2>3, <3>1, <3>4, CountStays
    <2> QED  BY <2>4, <2>5
  <1>6. ASSUME NEW p \in Process, DecideStep(p) PROVE Counted
    <2>1. WorkOK(worker[p])
      BY DEF OutboxInv
    <2>2. /\ worker[p].key \in Key /\ worker'[p].phase = "deciding"
          /\ UNCHANGED <<row, replays>>
          /\ \/ UNCHANGED sent
             \/ Holding(p, worker[p].key) /\ sent' = [sent EXCEPT ![worker[p].key] = @ + 1]
      BY <1>a, <1>6, <2>1, DecideIs
    <2>3. \A q \in Process : q # p => worker'[q] = worker[q]
      BY <1>a, <1>6 DEF DecideStep, Poll, GiveUp, Add, Then, OutboxTypeOK
    <2>4. \A q \in Process : Holding(q, k)' => Holding(q, k)
      BY <2>2, <2>3 DEF Holding
    <2>5. CASE UNCHANGED sent \/ worker[p].key # k
      <3>1. sent'[k] = sent[k]
        BY <1>a, <2>2, <2>5 DEF OutboxTypeOK
      <3>2. (k \in Fresh' => k \in Fresh) /\ (k \in Held' => k \in Held)
        BY <2>2, <2>4 DEF Held, Fresh
      <3> QED  BY <1>a, <2>2, <3>1, <3>2, CountStays
    <2>6. CASE ~UNCHANGED sent /\ worker[p].key = k
      <3>1. k \in Held /\ sent'[k] = sent[k] + 1 /\ (k \in Fresh' => k \in Fresh)
        BY <1>a, <2>2, <2>6 DEF Held, Fresh, OutboxTypeOK
      <3>2. k \notin Held'
        <4>1. \A q \in Process : q = p
          BY DEF OneProcess
        <4>2. ~Holding(p, k)'
          BY <2>2 DEF Holding
        <4> QED  BY <4>1, <4>2 DEF Held
      <3> QED  BY <1>a, <2>2, <3>1, <3>2, CountSends
    <2> QED  BY <2>5, <2>6
  <1>7. ASSUME NEW p \in Process, OpWrite(p) PROVE Counted
    <2>1. WorkOK(worker[p])
      BY DEF OutboxInv
    <2>2. worker'[p].phase # "claimed" /\ \A q \in Process : q # p => worker'[q] = worker[q]
      <3>1. CASE Then(p, "retry", "none", FALSE)
        <4>1. worker'[p].phase = "deciding"
          BY <1>a, <3>1, ThenIs DEF EventId
        <4> QED  BY <1>a, <3>1, <4>1 DEF Then, OutboxTypeOK
      <3>2. CASE worker' = [worker EXCEPT ![p] = Idle]
        BY <1>a, <3>2 DEF Idle, OutboxTypeOK
      <3> QED  BY <1>7, <3>1, <3>2 DEF OpWrite
    <2>3. \A q \in Process : Holding(q, k)' => Holding(q, k)
      BY <2>2 DEF Holding
    <2>4. k \in Fresh' => k \in Fresh
      BY <1>a, <1>7, <2>1, OpIs DEF Fresh
    <2>5. UNCHANGED <<sent, replays>>
      BY <1>7 DEF OpWrite, mem0
    <2>6. k \in Held' => k \in Held
      BY <2>3 DEF Held
    <2> QED  BY <1>a, <2>4, <2>5, <2>6, CountStays
  <1>8. ASSUME NEW j \in Key, Store(j) PROVE Counted
    BY <1>2, <1>8 DEF Store, Fresh
  <1>9. ASSUME NEW j \in Key, ExpireLease(j) \/ RetryFallsDue(j) PROVE Counted
    <2>1. k \in Fresh' => k \in Fresh
      BY <1>a, <1>9, AgeingIs DEF Fresh
    <2> QED  BY <1>2, <1>9, <2>1 DEF ExpireLease, RetryFallsDue, mem0
  <1>10. ASSUME NEW r \in Request, ReplayWrite(r) PROVE Counted
    <2>1. RequestOK(request[r])
      BY DEF OutboxInv
    <2>2. request[r].key \in Key /\ \A j \in Key : j # request[r].key => row'[j] = row[j]
      BY <1>a, <1>10, <2>1, ReplayIs
    <2>3. /\ UNCHANGED <<worker, sent>>
          /\ replays' = [replays EXCEPT ![request[r].key] = @ + 1]
      BY <1>10 DEF ReplayWrite, mem0
    <2>4. k \in Held' => k \in Held
      BY <2>3 DEF Held, Holding
    <2>5. CASE request[r].key # k
      <3>1. (k \in Fresh' => k \in Fresh) /\ replays'[k] = replays[k]
        BY <1>a, <2>2, <2>3, <2>5 DEF Fresh, OutboxTypeOK
      <3> QED  BY <1>a, <2>3, <2>4, <3>1, CountStays
    <2>6. CASE request[r].key = k
      <3>1. replays'[k] = replays[k] + 1
        BY <1>a, <2>2, <2>3, <2>6 DEF OutboxTypeOK
      <3> QED  BY <1>a, <2>3, <2>4, <3>1, CountReplay
    <2> QED  BY <2>5, <2>6
  <1>11. ASSUME UNCHANGED <<row, worker, sent, replays>> PROVE Counted
    BY <1>2, <1>11 DEF Fresh
  <1>12. ASSUME NEW p \in Process, Failing(p) PROVE Counted
    <2>1. WorkOK(worker[p])
      BY DEF OutboxInv
    <2>2. /\ worker'[p].phase # "claimed" /\ UNCHANGED <<row, sent, replays>>
          /\ \A q \in Process : q # p => worker'[q] = worker[q]
      BY <1>a, <1>12, <2>1, FailIs
    <2>3. \A q \in Process : Holding(q, k)' => Holding(q, k)
      BY <2>2 DEF Holding
    <2> QED  BY <1>1, <2>2, <2>3
  <1> QED
    BY <1>3, <1>4, <1>5, <1>6, <1>7, <1>8, <1>9, <1>10, <1>11, <1>12
    DEF Next, Working, DecideStep, Failing, WriteBackground, EnqueueFails, ReplayRead, ReplayFails,
        mem0

-----------------------------------------------------------------------------
(* The theorems.                                                            *)

LEMMA OutboxInvInit == Init => OutboxInv
  <1> SUFFICES ASSUME Init PROVE OutboxInv
    OBVIOUS
  <1>1. NoRequest \in RequestShape
    BY InitialShapes DEF NoRequest, RequestShape
  <1>2. OutboxTypeOK
    BY <1>1, InitialShapes DEF Init, OutboxTypeOK
  <1>3. \A k \in Key : k \notin Held
    BY DEF Init, Held, Holding, Idle
  <1>4. SentInv
    <2>1. ASSUME NEW k \in Key PROVE sent[k] + Chances(k, Fresh, Held) <= 1 + replays[k]
      <3>1. Chances(k, Fresh, Held) \in {0, 1}
        BY <1>3 DEF Chances
      <3>2. sent[k] = 0 /\ replays[k] = 0
        BY DEF Init
      <3> QED  BY <3>1, <3>2
    <2> QED  BY <2>1 DEF SentInv
  <1> QED  BY <1>2, <1>4 DEF Init, OutboxInv, AcceptedInv, WorkOK, RequestOK, Idle, NoRequest, Busy

LEMMA OutboxInvStep == OneProcess /\ OutboxInv /\ [Next]_vars => OutboxInv'
  <1> SUFFICES ASSUME OneProcess, OutboxInv, [Next]_vars PROVE OutboxInv'
    OBVIOUS
  <1>1. CASE Next
    BY <1>1, TypeKeeps, AcceptedKeeps, WorkKeeps, RequestKeeps, SentKeeps DEF OutboxInv, SentInv
  <1>2. CASE UNCHANGED vars
    BY <1>2 DEF vars, OutboxInv, OutboxTypeOK, AcceptedInv, WorkOK, RequestOK, SentInv, Chances,
                Fresh, Held, Holding
  <1> QED  BY <1>1, <1>2

\* The inductive invariant of the outbox of one Gateway process.
THEOREM OutboxInvHolds ==
    ASSUME OneProcess
    PROVE  Spec => []OutboxInv
  <1>1. OneProcess
    OBVIOUS
  <1>2. OutboxInv /\ [Next]_vars => OutboxInv'
    BY <1>1, OutboxInvStep
  <1> QED  BY <1>2, OutboxInvInit, PTL DEF Spec

\* With one Gateway process Mem0 receives a write once, and once more for each
\* replay its owner has confirmed, however often the process crashes or the
\* database fails between the request and the commit of its answer.
THEOREM NoAutomaticResubmitHolds ==
    ASSUME OneProcess
    PROVE  Spec => []NoAutomaticResubmit
  <1>1. OutboxInv => NoAutomaticResubmit
    <2> SUFFICES ASSUME OutboxInv, NEW k \in Key PROVE sent[k] <= 1 + replays[k]
      BY DEF NoAutomaticResubmit
    <2>1. sent[k] \in Nat /\ replays[k] \in Nat /\ sent[k] + Chances(k, Fresh, Held) <= 1 + replays[k]
      BY DEF OutboxInv, OutboxTypeOK, SentInv
    <2> QED  BY <2>1 DEF Chances
  <1> QED  BY <1>1, OutboxInvHolds, PTL

LEMMA ReviewStep ==
    ASSUME OneProcess, OutboxInv, Next, NEW k \in Key, row[k].status = "manual_review",
           row'[k].status # "manual_review"
    PROVE  replays'[k] = replays[k] + 1
  <1>a. OutboxTypeOK
    BY DEF OutboxInv
  <1>1. ASSUME NEW p \in Process, NEW j \in Key, Enqueue(p, j) PROVE FALSE
    BY <1>1, EnqueueIs DEF NoRow
  <1>2. ASSUME NEW p \in Process, ClaimWrite(p) \/ OpWrite(p) PROVE FALSE
    <2>1. WorkOK(worker[p]) /\ worker[p].phase \in Busy
      BY <1>2 DEF OutboxInv, ClaimWrite, OpWrite, Busy
    <2>2. worker[p].key # k
      BY <2>1 DEF WorkOK
    <2> QED  BY <1>a, <1>2, <2>1, <2>2, ClaimIs, OpIs
  <1>3. ASSUME NEW j \in Key, ExpireLease(j) \/ RetryFallsDue(j) PROVE FALSE
    BY <1>a, <1>3, AgeingIs
  <1>4. ASSUME NEW r \in Request, ReplayWrite(r) PROVE replays'[k] = replays[k] + 1
    <2>1. RequestOK(request[r])
      BY DEF OutboxInv
    <2>2. request[r].key = k
      BY <1>a, <1>4, <2>1, ReplayIs
    <2> QED  BY <1>a, <1>4, <2>2 DEF ReplayWrite, OutboxTypeOK
  <1>5. row' # row
    OBVIOUS
  <1> QED
    BY <1>1, <1>2, <1>3, <1>4, <1>5
    DEF Next, Working, WriteBackground, EnqueueFails, ClaimRead, ClaimFails, Poll, GiveUp, Add,
        OpRead, OpFails, Crash, Restart, Store, ReplayRead, ReplayFails

\* With one Gateway process a write the worker gave up on waits for its owner:
\* no claim that was read before and no lease that ends brings it back.
THEOREM ReviewWaitsForOwnerHolds ==
    ASSUME OneProcess
    PROVE  Spec => ReviewWaitsForOwner
  <1> DEFINE Waits == \A k \in Key : row[k].status = "manual_review" /\ row'[k].status # "manual_review"
                                      => replays'[k] = replays[k] + 1
  <1>1. OutboxInv /\ [Next]_vars => [Waits]_vars
    BY ReviewStep
  <1> QED  BY <1>1, OutboxInvHolds, PTL DEF Spec, ReviewWaitsForOwner
=============================================================================
