----------------------------- MODULE TurnQueue -----------------------------
(***************************************************************************)
(* The turns of one conversation and the compaction of its context.  User  *)
(* inputs are registered as turns; a turn is taken for execution when no   *)
(* other is processing; a compaction takes the conversation for itself     *)
(* under a lease with a fencing token and hands it back with the next turn *)
(* or keeps it until a retry.                                              *)
(*                                                                         *)
(* Every operation is one transaction that locks the coordination row of   *)
(* the conversation.  What interleaves are the operations: a worker whose  *)
(* lease has expired still finishes, a caller completes a turn twice, a    *)
(* tab submits with the version another tab has moved.  The SQL repository *)
(* and its Memory double are both modelled; store says which one runs.     *)
(***************************************************************************)
EXTENDS EventLog

CONSTANTS
    Input,        \* client inputs, each of which becomes at most one turn
    Tab,          \* clients of the conversation
    Compactor,    \* workers that compact
    MaxLeases,    \* leases handed out (model bound)
    MaxOutcomes   \* outcomes of compactions published (model bound)

ASSUME TurnQueueAssumption ==
    /\ MaxLeases \in Nat /\ MaxOutcomes \in Nat /\ "nobody" \notin Compactor

VARIABLES
    store,     \* "sql" or "memory"
    turns,     \* turns[i]: the turn of input i, once there is one
    lock,      \* the coordination row and its lease
    held,      \* held[w]: the token of the lease w last got, 0 for none
    leases,    \* leases handed out so far; the tokens are 1 .. leases
    version,   \* context_version of the conversation
    stale      \* the tabs whose context version is behind

queueVars == <<store, turns, lock, held, leases, version, stale>>
turnVars == <<queueVars, eventVars>>

Pending == {"accepted", "queued"}
Active == Pending \cup {"processing"}

\* The row of the conversation, created once before its first use.
Free == [state |-> "idle", owner |-> "nobody", token |-> 0, live |-> FALSE]

TInit ==
    /\ EInit
    /\ store \in {"sql", "memory"}
    /\ turns = <<>>
    /\ lock = Free
    /\ held = [w \in Compactor |-> 0]
    /\ leases = 0 /\ version = 0
    /\ stale = {}

-----------------------------------------------------------------------------
(* The queue.                                                               *)

With(S) == {i \in DOMAIN turns : turns[i].status \in S}

Known(i) == i \in DOMAIN turns
Processing == With({"processing"})

Locked == lock.state \in {"active", "retry_required"}

\* The pending turns that arrived first; inbox is the autoincrement key.
Earliest == {i \in With(Pending) : \A j \in With(Pending) : turns[i].inbox <= turns[j].inbox}

Started(S) == [i \in DOMAIN turns |->
                  IF i \in S THEN [turns[i] EXCEPT !.status = "processing"] ELSE turns[i]]

Inserted(i, status) ==
    [j \in DOMAIN turns \cup {i} |->
        IF j = i THEN [status |-> status, inbox |-> Cardinality(DOMAIN turns) + 1] ELSE turns[j]]

\* The status a turn is stored with: nothing is handed out under a lease.
SavedStatus(requested) == IF Locked THEN "queued" ELSE requested

\* Somebody executes, or is about to.
HasExecutionOwner == With({"accepted", "processing"}) # {}
AdmittedStatus == IF Locked \/ HasExecutionOwner THEN "queued" ELSE "accepted"

-----------------------------------------------------------------------------
(* Registration of an input: message, turn, version and the first two       *)
(* events are one transaction.                                              *)

Announced(i) == << [kind |-> "input", of |-> i], [kind |-> "message", of |-> i] >>
FirstNumber == LastNumber + 1

RegisterNew(c, i) ==
    /\ ~Known(i) /\ c \notin stale
    /\ turns' = Inserted(i, AdmittedStatus)
    /\ version' = version + 1
    /\ stale' = Tab \ {c}
    /\ AppendFrom(FirstNumber, Announced(i))
    /\ UNCHANGED <<store, lock, held, leases, expect, notes, feed>>

\* A known input is answered before the version is looked at; a version that
\* has moved is refused.  Both answers carry the current version.
RegisterAnswered(c, i) ==
    /\ Known(i) \/ c \in stale
    /\ stale' = stale \ {c}
    /\ UNCHANGED <<store, turns, lock, held, leases, version, eventVars>>

\* enqueue_turn_for_execution of the SQL repository stores what it is asked
\* to; a known turn that a lease has overtaken is put back in the queue.
EnqueueSql(i, requested) ==
    /\ store = "sql"
    /\ IF Known(i)
       THEN /\ Locked /\ turns[i].status = "accepted"
            /\ turns' = [turns EXCEPT ![i].status = "queued"]
       ELSE turns' = Inserted(i, SavedStatus(requested))
    /\ UNCHANGED <<store, lock, held, leases, version, stale, eventVars>>

EnqueueMemory(i) ==
    /\ store = "memory" /\ ~Known(i)
    /\ turns' = Inserted(i, AdmittedStatus)
    /\ UNCHANGED <<store, lock, held, leases, version, stale, eventVars>>

-----------------------------------------------------------------------------
(* Taking turns.                                                            *)

\* Mutant: A turn is taken without looking at the lease.
MayTakeIgnoringLease == Processing = {}

\* Nothing is taken under a lease, nor while a turn is processing.
MayTake == ~Locked /\ Processing = {}

ClaimNextTurn ==
    /\ MayTake
    /\ \E i \in Earliest : turns' = Started({i})
    /\ UNCHANGED <<store, lock, held, leases, version, stale, eventVars>>

\* Completing a turn takes the next one in the same transaction.  The Memory
\* double orders the candidates by created_at, which the caller sets: any of
\* them may come first.
Completed(i) == [turns EXCEPT ![i].status = "completed"]

\* Mutant: the SQL repository orders the candidates as the Memory double does.
NextAfterByTime(i) == With(Pending) \ {i}

NextAfter(i) ==
    LET rest == With(Pending) \ {i}
    IN  IF store = "memory" THEN rest
        ELSE {j \in rest : \A k \in rest : turns[j].inbox <= turns[k].inbox}

CompleteTurn(i) ==
    /\ Known(i) /\ turns[i].status \in {"accepted", "processing", "completed"}
    /\ IF Locked \/ Processing \ {i} # {} \/ NextAfter(i) = {}
       THEN turns' = Completed(i)
       ELSE \E j \in NextAfter(i) : turns' = [Completed(i) EXCEPT ![j].status = "processing"]
    /\ UNCHANGED <<store, lock, held, leases, version, stale, eventVars>>

-----------------------------------------------------------------------------
(* Compaction.                                                              *)

\* An active lease is respected until it expires; retry_required is not a
\* lease, so the SQL repository does not wait for retry_not_before.
Acquirable == Locked => ~lock.live \/ (store = "sql" /\ lock.state = "retry_required")

\* Accepted turns go back to the queue: their executor will find them there.
Demoted == [i \in DOMAIN turns |->
               IF turns[i].status = "accepted" THEN [turns[i] EXCEPT !.status = "queued"]
               ELSE turns[i]]

AcquireLease(w) ==
    /\ leases < MaxLeases
    /\ Acquirable /\ Processing = {}
    /\ turns' = Demoted
    /\ leases' = leases + 1
    /\ lock' = [state |-> "active", owner |-> w, token |-> leases', live |-> TRUE]
    /\ held' = [held EXCEPT ![w] = leases']
    /\ UNCHANGED <<store, version, stale, eventVars>>

\* The lease, or the wait for a retry, runs out.
ExpireLease ==
    /\ lock.live
    /\ lock' = [lock EXCEPT !.live = FALSE]
    /\ UNCHANGED <<store, turns, held, leases, version, stale, eventVars>>

\* Mutant: the Memory double's fencing in both: a lease that waits for its retry counts.
HoldsLeaseUntilRetry(w) ==
    Locked /\ lock.live /\ lock.owner = w /\ lock.token = held[w]

\* Fencing: the row still names this worker and this token, and has not expired.
HoldsLease(w) ==
    /\ lock.state = "active" /\ lock.live
    /\ lock.owner = w /\ lock.token = held[w]

Outcomes == {n \in DOMAIN log : log[n].kind = "outcome"}
Terminal(w) == << [kind |-> "outcome", of |-> held[w]] >>
NextTaken == IF Earliest = {} THEN turns ELSE Started(Earliest)

\* The Memory double has no state for a retry: its lease lives on until then.
AwaitingRetry == [lock EXCEPT !.state = IF store = "sql" THEN "retry_required" ELSE "active"]

FinishCompaction(w, claim) ==
    /\ HoldsLease(w)
    /\ claim => Processing = {}
    /\ IF claim THEN lock' = Free /\ turns' = NextTaken
                ELSE lock' = AwaitingRetry /\ UNCHANGED turns
    /\ UNCHANGED <<store, held, leases, version, stale>>

\* The event commits with the lease: a worker that does not know whether its
\* commit arrived calls again, and the row tells.
FinishWithEvent(w, claim) ==
    /\ FinishCompaction(w, claim)
    /\ Cardinality(Outcomes) < MaxOutcomes
    /\ AppendFrom(FirstNumber, Terminal(w))
    /\ UNCHANGED <<expect, notes, feed>>

FinishSilently(w, claim) ==
    /\ FinishCompaction(w, claim)
    /\ UNCHANGED eventVars

-----------------------------------------------------------------------------
WriterStep(w) == (ReadLatest(w) \/ CreateEvent(w)) /\ UNCHANGED queueVars

TNext ==
    \/ \E c \in Tab, i \in Input : RegisterNew(c, i) \/ RegisterAnswered(c, i)
    \/ \E i \in Input, s \in Pending : EnqueueSql(i, s)
    \/ \E i \in Input : EnqueueMemory(i) \/ CompleteTurn(i)
    \/ ClaimNextTurn
    \/ \E w \in Compactor : AcquireLease(w)
    \/ ExpireLease
    \/ \E w \in Compactor, claim \in BOOLEAN :
          FinishWithEvent(w, claim) \/ FinishSilently(w, claim)
    \/ \E w \in Writer : WriterStep(w)

TSpec == TInit /\ [][TNext]_turnVars

-----------------------------------------------------------------------------
(* The shape of the state.                                                  *)
TurnTypeOK ==
    /\ store \in {"sql", "memory"}
    /\ DOMAIN turns \subseteq Input
    /\ \A i \in DOMAIN turns :
          turns[i] \in [status : Active \cup {"completed"}, inbox : Nat]
    /\ lock \in [state : {"idle", "active", "retry_required"},
                 owner : Compactor \cup {"nobody"}, token : Nat, live : BOOLEAN]
    /\ held \in [Compactor -> Nat]
    /\ leases \in Nat /\ version \in Nat
    /\ stale \subseteq Tab

(* One turn of a conversation is executed at a time, and none while its     *)
(* context is compacted or waits for the retry of a compaction, whichever   *)
(* of the four operations hands the turns out.                              *)
ExecutionIsExclusive ==
    /\ \A i, j \in Processing : i = j
    /\ Locked => With({"accepted", "processing"}) = {}

(* A lease ends once: a worker that calls again, or that was overtaken,     *)
(* publishes no second outcome of its compaction (SQL repository).          *)
LeaseEndsOnce ==
    store = "sql" =>
        \A m, n \in Outcomes : log[m].of = log[n].of => m = n

(* A registered input has its two events side by side, once, and moved the  *)
(* version by one, whatever the other tabs and the event writers do.        *)
RegistrationIsWhole ==
    LET inputs == {n \in DOMAIN log : log[n].kind = "input"}
    IN  /\ version = Cardinality(inputs)
        /\ Cardinality({n \in DOMAIN log : log[n].kind = "message"}) = version
        /\ \A n \in inputs :
              /\ Known(log[n].of)
              /\ n + 1 \in DOMAIN log /\ log[n + 1] = [kind |-> "message", of |-> log[n].of]
              /\ \A m \in inputs : log[m].of = log[n].of => m = n

TakesEarliest ==
    \A i \in DOMAIN turns :
        (turns'[i].status = "processing" /\ turns[i].status # "processing") =>
            \A j \in DOMAIN turns' :
                turns'[j].status \in Pending => turns[i].inbox < turns'[j].inbox

(* Turns are taken in the order of the inbox (SQL repository).              *)
InboxOrder == [][store = "sql" => TakesEarliest]_turnVars

=============================================================================
