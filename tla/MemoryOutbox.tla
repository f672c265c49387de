---------------------------- MODULE MemoryOutbox ----------------------------
(***************************************************************************)
(* The write outbox of the long-term memory: a confirmed preference is     *)
(* inserted as a pending write, a worker adds it to Mem0 once, keeps the   *)
(* event id Mem0 answers with, and polls for the record until it is there; *)
(* what it cannot tell goes to manual review, which the owner may replay.  *)
(*                                                                         *)
(* Every operation of the outbox reads the row and commits later, without  *)
(* a lock in between, and the commit updates the columns the operation has *)
(* changed and no others (the session's unit of work).  So an operation is *)
(* two steps here, and Flush is what the second one does.                  *)
(***************************************************************************)
EXTENDS Naturals

CONSTANTS
    Key,          \* write_key: one per confirmed Tool call
    Process,      \* Gateway processes, each with one MemoryWriteWorker
    WorkerId,
    WorkerIdOf,   \* gateway-memory:{pid}
    NoOwner,
    Request,      \* concurrent replay requests of the owner (model bound)
    MaxPolls,     \* max_event_poll_attempts (6 in the code)
    MaxReplays,   \* replays after which no other is asked for (model bound)
    MaxFaults     \* Gateway crashes and database errors (model bound)

ASSUME OutboxAssumption ==
    /\ WorkerIdOf \in [Process -> WorkerId]
    /\ NoOwner \notin WorkerId
    /\ MaxPolls \in Nat \ {0}
    /\ MaxReplays \in Nat
    /\ MaxFaults \in Nat

VARIABLES
    row,       \* row[k]: PixelFlowLongTermMemoryWriteRow
    intents,   \* <<p, k>>: p has accepted the write and not inserted it yet
    worker,    \* worker[p]: where run_once of p is
    request,   \* request[r]: progress of one replay request
    sent,      \* sent[k]: add requests Mem0 has received
    stored,    \* keys Mem0 has a record of
    replays,   \* replays[k]: replays that were answered with success
    faults

vars == <<row, intents, worker, request, sent, stored, replays, faults>>

\* A write has been inserted when its status is not "absent"; its event is
\* "none", "real" or "bogus", the text None that add makes of an answer without
\* an id; its retry "none", "later" or "due"; its lease "none", "live" or "expired".
NoRow == [status |-> "absent", event |-> "none", attempts |-> 0, retry |-> "none",
          owner |-> NoOwner, lease |-> "none"]

\* task is the MemoryWrite of the claim, op the outbox operation to do next,
\* answer the event id add has returned; guarded is whether the operation is
\* inside the try of run_once.  The task of an ended worker has died of an
\* exception: its process serves on and starts no other.
Idle == [phase |-> "idle", key |-> "none", seen |-> NoRow, task |-> NoRow,
         op |-> "none", answer |-> "none", guarded |-> FALSE]
Down == [Idle EXCEPT !.phase = "down"]
Ended == [Idle EXCEPT !.phase = "ended"]
NoRequest == [phase |-> "none", key |-> "none", seen |-> NoRow, proc |-> "none"]

Init ==
    /\ row = [k \in Key |-> NoRow]
    /\ intents = {}
    /\ worker = [p \in Process |-> Idle]
    /\ request = [r \in Request |-> NoRequest]
    /\ sent = [k \in Key |-> 0]
    /\ stored = {}
    /\ replays = [k \in Key |-> 0]
    /\ faults = 0

Up(p) == worker[p].phase # "down"
mem0 == <<sent, stored>>

\* A commit writes the columns in which the operation's row differs from what
\* the operation had read.
Flush(k, seen, new) ==
    row' = [row EXCEPT ![k] =
              [f \in DOMAIN NoRow |-> IF new[f] # seen[f] THEN new[f] ELSE row[k][f]]]

-----------------------------------------------------------------------------
(* Accepting a write: write_background and enqueue.                         *)

WriteBackground(p, k) ==
    /\ Up(p)
    /\ row[k].status = "absent"
    /\ \A q \in Process : <<q, k>> \notin intents
    /\ intents' = intents \cup {<<p, k>>}
    /\ UNCHANGED <<row, worker, request, mem0, replays, faults>>

Enqueue(p, k) ==
    /\ <<p, k>> \in intents
    /\ intents' = intents \ {<<p, k>>}
    /\ row' = [row EXCEPT ![k] = [NoRow EXCEPT !.status = "pending"]]
    /\ UNCHANGED <<worker, request, mem0, replays, faults>>

\* An error of the database ends the task of write_background, and the write
\* with it.
EnqueueFails(p, k) ==
    /\ <<p, k>> \in intents /\ faults < MaxFaults
    /\ faults' = faults + 1
    /\ intents' = intents \ {<<p, k>>}
    /\ UNCHANGED <<row, worker, request, mem0, replays>>

-----------------------------------------------------------------------------
(* Claiming a write.                                                        *)

ClaimableUnlessCompleted(r) ==
    \/ r.status \in {"pending", "manual_review"} /\ r.retry # "later"
    \/ r.status = "processing" /\ r.lease = "expired"

ClaimablePendingOnly(r) == r.status = "pending" /\ r.retry # "later"

Claimable(r) ==
    \/ r.status = "pending" /\ r.retry # "later"
    \/ r.status = "processing" /\ r.lease = "expired"

ClaimRead(p) ==
    /\ worker[p].phase = "idle"
    /\ \E k \in Key :
          /\ Claimable(row[k])
          /\ worker' = [worker EXCEPT ![p] =
                          [Idle EXCEPT !.phase = "claiming", !.key = k, !.seen = row[k]]]
    /\ UNCHANGED <<row, intents, request, mem0, replays, faults>>

Claimed(r, p) ==
    [status |-> "processing", event |-> r.event, attempts |-> r.attempts + 1,
     retry |-> "none", owner |-> WorkerIdOf[p], lease |-> "live"]

ClaimWrite(p) ==
    LET w == worker[p]
        new == Claimed(w.seen, p)
    IN /\ w.phase = "claiming"
       /\ Flush(w.key, w.seen, new)
       /\ worker' = [worker EXCEPT ![p] = [Idle EXCEPT !.phase = "claimed", !.key = w.key,
                                                       !.task = new]]
       /\ UNCHANGED <<intents, request, mem0, replays, faults>>

\* An error of the database in the claim, before its commit or after it, ends
\* the loop: neither _run nor run_once catches it.
ClaimFails(p) ==
    /\ worker[p].phase \in {"idle", "claiming", "claimed"} /\ faults < MaxFaults
    /\ faults' = faults + 1
    /\ worker' = [worker EXCEPT ![p] = Ended]
    /\ UNCHANGED <<row, intents, request, mem0, replays>>

-----------------------------------------------------------------------------
(* Delivering it: run_once after the claim.                                 *)

\* Go on to an operation of the outbox, which will read the row again.
Then(p, op, answer, guarded) ==
    worker' = [worker EXCEPT ![p].phase = "deciding", ![p].op = op, ![p].answer = answer,
                             ![p].guarded = guarded]

\* get_event searches for a record with the write key.
Found(k) == k \in stored

Exhausted(attempts) == attempts >= MaxPolls

\* Not finding the record, an HTTP error and a search that misses it are the same.
Poll(p) ==
    LET w == worker[p]
    IN /\ w.phase = "claimed" /\ w.task.event # "none"
       /\ \/ Found(w.key) /\ Then(p, "complete", "none", TRUE)
          \/ Then(p, IF Exhausted(w.task.attempts) THEN "manual_review" ELSE "retry",
                  "none", TRUE)
          \/ Then(p, "manual_review", "none", FALSE)   \* any other exception
       /\ UNCHANGED <<row, intents, request, mem0, replays, faults>>

BoundaryNeverUnknown(task) == FALSE

\* A second claim without an event id: the add of the first may have arrived.
BoundaryUnknown(task) == task.event = "none" /\ task.attempts > 1

GiveUp(p) ==
    /\ worker[p].phase = "claimed" /\ BoundaryUnknown(worker[p].task)
    /\ Then(p, "manual_review", "none", TRUE)
    /\ UNCHANGED <<row, intents, request, mem0, replays, faults>>

\* The request may be lost, arrive and be answered, or arrive and the answer
\* be lost; an answer holds an event id, or none that add could find.
Add(p) ==
    LET w == worker[p]
    IN /\ w.phase = "claimed" /\ w.task.event = "none" /\ ~BoundaryUnknown(w.task)
       /\ \/ /\ \/ \E e \in {"real", "bogus"} : Then(p, "save", e, FALSE)
                \/ Then(p, "manual_review", "none", FALSE)
             /\ sent' = [sent EXCEPT ![w.key] = @ + 1]
          \/ Then(p, "manual_review", "none", FALSE) /\ UNCHANGED sent
       /\ UNCHANGED <<row, intents, request, stored, replays, faults>>

Store(k) ==
    /\ sent[k] > 0
    /\ stored' = stored \cup {k}
    /\ UNCHANGED <<row, intents, worker, request, sent, replays, faults>>

-----------------------------------------------------------------------------
(* save_event_id, retry, move_to_manual_review, complete.                   *)

\* The owner is checked on what is read: an operation of another owner, or of
\* one that lost the row, does nothing.  (worker_id, not the lease's age.)
OpRead(p) ==
    LET w == worker[p]
    IN /\ w.phase = "deciding"
       /\ IF row[w.key].owner = WorkerIdOf[p]
            THEN worker' = [worker EXCEPT ![p].phase = "writing", ![p].seen = row[w.key]]
            ELSE worker' = [worker EXCEPT ![p] = Idle]
       /\ UNCHANGED <<row, intents, request, mem0, replays, faults>>

Released(r, status, retry) ==
    [r EXCEPT !.status = status, !.owner = NoOwner, !.lease = "none", !.retry = retry]

OpResult(w) ==
    CASE w.op = "save" -> [w.seen EXCEPT !.event = w.answer, !.lease = "live"]
      [] w.op = "retry" -> Released(w.seen, "pending", "later")
      [] w.op = "manual_review" -> Released(w.seen, "manual_review", "none")
      [] w.op = "complete" -> [Released(w.seen, "completed", "none") EXCEPT !.event = w.task.event]

\* After the event id has been saved the write is put off; every other
\* operation ends run_once.
OpWrite(p) ==
    LET w == worker[p]
    IN /\ w.phase = "writing"
       /\ Flush(w.key, w.seen, OpResult(w))
       /\ IF w.op = "save" THEN Then(p, "retry", "none", FALSE)
                           ELSE worker' = [worker EXCEPT ![p] = Idle]
       /\ UNCHANGED <<intents, request, mem0, replays, faults>>

\* An error of the database in an operation inside the try ends in the except
\* branch, which reviews the write; anywhere else it ends the loop.
OpFails(p) ==
    /\ worker[p].phase \in {"deciding", "writing"} /\ faults < MaxFaults
    /\ faults' = faults + 1
    /\ IF worker[p].guarded THEN Then(p, "manual_review", "none", FALSE)
                            ELSE worker' = [worker EXCEPT ![p] = Ended]
    /\ UNCHANGED <<row, intents, request, mem0, replays>>

-----------------------------------------------------------------------------
(* The owner's replay: requeue_manual_review.                               *)

ReplayRead(r, p, k) ==
    /\ Up(p) /\ request[r].phase = "none"
    /\ row[k].status = "manual_review"
    /\ replays[k] < MaxReplays
    /\ request' = [request EXCEPT ![r] = [phase |-> "writing", key |-> k,
                                          seen |-> row[k], proc |-> p]]
    /\ UNCHANGED <<row, intents, worker, mem0, replays, faults>>

Replayed(r) == [Released(r, "pending", "none") EXCEPT
                  !.attempts = IF r.event = "none" THEN 0 ELSE 1]

ReplayWrite(r) ==
    LET q == request[r]
    IN /\ q.phase = "writing"
       /\ Flush(q.key, q.seen, Replayed(q.seen))
       /\ request' = [request EXCEPT ![r] = NoRequest]
       /\ replays' = [replays EXCEPT ![q.key] = @ + 1]
       /\ UNCHANGED <<intents, worker, mem0, faults>>

ReplayFails(r) ==
    /\ request[r].phase = "writing" /\ faults < MaxFaults
    /\ faults' = faults + 1
    /\ request' = [request EXCEPT ![r] = NoRequest]
    /\ UNCHANGED <<row, intents, worker, mem0, replays>>

-----------------------------------------------------------------------------
(* Time, crashes and restarts.                                              *)

ExpireLease(k) ==
    /\ row[k].lease = "live"
    /\ row' = [row EXCEPT ![k].lease = "expired"]
    /\ UNCHANGED <<intents, worker, request, mem0, replays, faults>>

RetryFallsDue(k) ==
    /\ row[k].retry = "later"
    /\ row' = [row EXCEPT ![k].retry = "due"]
    /\ UNCHANGED <<intents, worker, request, mem0, replays, faults>>

\* An accepted write that was not inserted yet is lost.
Crash(p) ==
    /\ Up(p) /\ faults < MaxFaults
    /\ faults' = faults + 1
    /\ worker' = [worker EXCEPT ![p] = Down]
    /\ intents' = {x \in intents : x[1] # p}
    /\ request' = [r \in Request |-> IF request[r].proc = p THEN NoRequest ELSE request[r]]
    /\ UNCHANGED <<row, mem0, replays>>

Restart(p) ==
    /\ ~Up(p)
    /\ worker' = [worker EXCEPT ![p] = Idle]
    /\ UNCHANGED <<row, intents, request, mem0, replays, faults>>

-----------------------------------------------------------------------------
Working(p) == \/ ClaimRead(p) \/ ClaimWrite(p) \/ Poll(p) \/ GiveUp(p) \/ Add(p)
              \/ OpRead(p) \/ OpWrite(p)

Next ==
    \/ \E p \in Process, k \in Key : WriteBackground(p, k) \/ Enqueue(p, k) \/ EnqueueFails(p, k)
    \/ \E p \in Process : Working(p) \/ ClaimFails(p) \/ OpFails(p) \/ Crash(p) \/ Restart(p)
    \/ \E k \in Key : Store(k) \/ ExpireLease(k) \/ RetryFallsDue(k)
    \/ \E r \in Request, p \in Process, k \in Key : ReplayRead(r, p, k)
    \/ \E r \in Request : ReplayWrite(r) \/ ReplayFails(r)

Spec == Init /\ [][Next]_vars

\* The loop goes round as long as no exception has ended it, its requests time
\* out, time passes and a crashed Gateway is restarted.  Nothing is assumed of
\* Mem0, and nothing restarts a loop that has ended but a restart of its Gateway.
Fairness ==
    /\ \A p \in Process : WF_vars(Working(p)) /\ WF_vars(Restart(p))
    /\ \A k \in Key : WF_vars(ExpireLease(k)) /\ WF_vars(RetryFallsDue(k))

FairSpec == Spec /\ Fairness

-----------------------------------------------------------------------------
\* "An add whose submission is unknown must never be written again
\* automatically" (run_once): Mem0 receives a write once, and once more for
\* each replay the owner has confirmed, whatever crashes in between.
NoAutomaticResubmit == \A k \in Key : sent[k] <= 1 + replays[k]

\* A write the worker gave up on waits for its owner: only a replay brings it
\* back, though a lease of the row may expire and crashes restart workers.
ReviewWaitsForOwner ==
    [][\A k \in Key : row[k].status = "manual_review" /\ row'[k].status # "manual_review"
                        => replays'[k] = replays[k] + 1]_vars

\* Every write that has been inserted is completed or reviewed in the end,
\* whether Mem0 ever shows the record or not, unless no process has a delivery
\* loop left; where a Gateway is restarted it must be all the same.
DeliveryResolves ==
    \A k \in Key : row[k].status \in {"pending", "processing"}
                     ~> \/ row[k].status \in {"completed", "manual_review"}
                        \/ \A p \in Process : worker[p].phase = "ended"

=============================================================================
