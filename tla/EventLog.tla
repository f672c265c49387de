------------------------------ MODULE EventLog ------------------------------
(***************************************************************************)
(* The public events of one conversation (pixelflow_agent_events): rows    *)
(* numbered by the database, a queue of deliveries over them, and readers  *)
(* that page through them by cursor.                                       *)
(*                                                                         *)
(* A writer picks the number of its event before the transaction that      *)
(* stores it, so the number may be stale when it is used; the store        *)
(* corrects a number that is too small under the lock of the coordination  *)
(* row.  A delivery is held under a lease that may expire while the        *)
(* deliverer still works.  The Memory repository does the same under one   *)
(* asyncio lock.                                                           *)
(***************************************************************************)
EXTENDS FiniteSetsExt, Integers, Sequences, SequencesExt

CONSTANTS
    Writer,       \* callers of create_event (projector, interrupt response)
    Deliverer,    \* workers that claim events for delivery
    Page,         \* the page size of a reader
    MaxNotes,     \* events a writer adds (model bound)
    MaxAttempts   \* deliveries of one event (model bound)

ASSUME EventLogAssumption ==
    /\ Page \in Nat \ {0} /\ MaxNotes \in Nat /\ MaxAttempts \in Nat
    /\ "nobody" \notin Deliverer

VARIABLES
    log,        \* log[n]: the event stored with sequence n
    expect,     \* expect[w]: the number w has read and not used yet, 0 for none
    notes,      \* notes[w]: events w was told are stored
    delivery,   \* delivery[n]: the delivery fields of row n
    feed        \* the numbers a reader has been handed, in order

eventVars == <<log, expect, notes, delivery, feed>>
readVars == <<delivery, feed>>

Undelivered == [status |-> "pending", owner |-> "nobody", live |-> FALSE, attempts |-> 0]

EInit ==
    /\ log = <<>>
    /\ expect = [w \in Writer |-> 0]
    /\ notes = [w \in Writer |-> 0]
    /\ delivery = <<>>
    /\ feed = <<>>

-----------------------------------------------------------------------------
(* Appending.                                                               *)

LastNumber == Max({0} \cup DOMAIN log)

\* The rows of es are stored from number n on, each with fresh delivery fields.
\* The unique keys of the table are left out: the invariants show that the
\* numbering alone never takes a row twice.
AppendFrom(n, es) ==
    LET new == n .. n + Len(es) - 1
    IN  /\ log' = [k \in DOMAIN log \cup new |-> IF k \in new THEN es[k - n + 1] ELSE log[k]]
        /\ delivery' = [k \in DOMAIN delivery \cup new |->
                            IF k \in new THEN Undelivered ELSE delivery[k]]

\* get_latest_event, outside any lock.
ReadLatest(w) ==
    /\ expect[w] = 0 /\ notes[w] < MaxNotes
    /\ expect' = [expect EXCEPT ![w] = LastNumber + 1]
    /\ UNCHANGED <<log, notes, readVars>>

\* Mutant: the number read before the lock is trusted.
NumberedAsRead(n) == n

\* Under the lock: a number that is too large is refused, one that is too
\* small is replaced.
Numbered(n) == LastNumber + 1

CreateEvent(w) ==
    /\ expect[w] \in 1 .. LastNumber + 1
    /\ AppendFrom(Numbered(expect[w]), << [kind |-> "note", of |-> w] >>)
    /\ expect' = [expect EXCEPT ![w] = 0]
    /\ notes' = [notes EXCEPT ![w] = @ + 1]
    /\ UNCHANGED feed

-----------------------------------------------------------------------------
(* Delivery.                                                                *)

Open == {n \in DOMAIN delivery : delivery[n].status # "published"}

\* Mutant: a claimed event does not hold back the next one.
DeliverableSkippingClaimed(n) ==
    /\ n \in Open
    /\ \A m \in Open : delivery[m].status = "pending" => n <= m
    /\ delivery[n].status = "delivering" => ~delivery[n].live

\* The oldest event that is not published is the only one to be claimed.
Deliverable(n) ==
    /\ n \in Open /\ \A m \in Open : n <= m
    /\ delivery[n].status = "delivering" => ~delivery[n].live

ClaimEvent(d) ==
    \E n \in Open :
        /\ Deliverable(n) /\ delivery[n].attempts < MaxAttempts
        /\ delivery' = [delivery EXCEPT ![n] =
               [status |-> "delivering", owner |-> d, live |-> TRUE, attempts |-> @.attempts + 1]]
        /\ UNCHANGED <<log, expect, notes, feed>>

\* A deliverer answers for any event it once claimed; without the lease it is
\* refused, which changes nothing.
HoldsDelivery(d, n) ==
    delivery[n].status = "delivering" /\ delivery[n].owner = d /\ delivery[n].live

CompleteDelivery(d) ==
    \E n \in Open :
        /\ HoldsDelivery(d, n)
        /\ delivery' = [delivery EXCEPT ![n].status = "published"]
        /\ UNCHANGED <<log, expect, notes, feed>>

ExpireDelivery ==
    \E n \in Open :
        /\ delivery[n].live
        /\ delivery' = [delivery EXCEPT ![n].live = FALSE]
        /\ UNCHANGED <<log, expect, notes, feed>>

-----------------------------------------------------------------------------
(* Reading.                                                                 *)

\* The cursor is the last event handed out; a page is the oldest rows after it.
NewerThan(c) == {n \in DOMAIN log : n > c}
Cursor == IF feed = <<>> THEN 0 ELSE Last(feed)
PageAfter(c) == {n \in NewerThan(c) : Cardinality({m \in NewerThan(c) : m < n}) < Page}

\* The numbers S from the smallest to the largest.
Ascending(S) == [i \in 1 .. Cardinality(S) |->
                     CHOOSE n \in S : Cardinality({m \in S : m < n}) = i - 1]

ReadPage ==
    /\ NewerThan(Cursor) # {}
    /\ feed' = feed \o Ascending(PageAfter(Cursor))
    /\ UNCHANGED <<log, expect, notes, delivery>>

-----------------------------------------------------------------------------
ENext ==
    \/ \E w \in Writer : ReadLatest(w) \/ CreateEvent(w)
    \/ \E d \in Deliverer : ClaimEvent(d) \/ CompleteDelivery(d)
    \/ ExpireDelivery
    \/ ReadPage

ESpec == EInit /\ [][ENext]_eventVars

-----------------------------------------------------------------------------
(* Numbers have no gap, and every event a writer was told is stored is      *)
(* there: the stale number of one writer never takes the row of another.    *)
NoEventLost ==
    /\ DOMAIN log = 1 .. Cardinality(DOMAIN log)
    /\ \A w \in Writer :
          Cardinality({n \in DOMAIN log : log[n].kind = "note" /\ log[n].of = w}) = notes[w]

(* Events are published in the order of their numbers, at most one is on    *)
(* its way, and a reader is handed each of them once and in order.          *)
DeliveredInOrder ==
    /\ \A n \in DOMAIN delivery :
          delivery[n].status # "pending" =>
              \A m \in DOMAIN delivery : m < n => delivery[m].status = "published"
    /\ feed = [k \in 1 .. Len(feed) |-> k]
=============================================================================
