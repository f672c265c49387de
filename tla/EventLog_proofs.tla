--------------------------- MODULE EventLog_proofs ---------------------------
(***************************************************************************)
(* Proofs about EventLog, for any number of writers and deliverers.  The   *)
(* log is 1 .. LastNumber with no gap, whatever number a writer brings, so *)
(* a new row never replaces an old one.                                    *)
(***************************************************************************)
EXTENDS EventLog, FiniteSetTheorems, SequenceTheorems, TLAPS

LogShape ==
    /\ LastNumber \in Nat
    /\ DOMAIN log = 1 .. LastNumber
    /\ DOMAIN delivery = 1 .. LastNumber

NotesOf(w) == {n \in DOMAIN log : log[n].kind = "note" /\ log[n].of = w}

NotesInv ==
    /\ notes \in [Writer -> Nat]
    /\ expect \in [Writer -> Nat]
    /\ \A w \in Writer : Cardinality(NotesOf(w)) = notes[w]

InOrder ==
    \A n \in DOMAIN delivery :
        delivery[n].status # "pending" =>
            \A m \in DOMAIN delivery : m < n => delivery[m].status = "published"

\* A reader has been handed an initial part of the log.
FeedInv ==
    /\ feed \in Seq(Nat) /\ Len(feed) <= LastNumber
    /\ \A k \in 1 .. Len(feed) : feed[k] = k

EInv == LogShape /\ NotesInv

-----------------------------------------------------------------------------
(* Appending.                                                               *)

LEMMA LastOfInterval ==
    ASSUME NEW N \in Nat
    PROVE  Max({0} \cup 1 .. N) = N
  <1> DEFINE S == {0} \cup 1 .. N
  <1>1. N \in S /\ \A k \in S : k \in Int /\ N >= k
    OBVIOUS
  <1>2. PICK x \in S : \A y \in S : x >= y
    BY <1>1
  <1>4. Max(S) \in S /\ \A y \in S : Max(S) >= y
    BY <1>1 DEF Max
  <1> QED  BY <1>1, <1>4

\* Events that are stored after the last one leave every row where it was.
LEMMA AppendAtEnd ==
    ASSUME LogShape, NEW es, Len(es) \in Nat \ {0}, AppendFrom(LastNumber + 1, es)
    PROVE  /\ LastNumber' = LastNumber + Len(es)
           /\ LogShape'
           /\ \A k \in 1 .. LastNumber : log'[k] = log[k] /\ delivery'[k] = delivery[k]
           /\ \A i \in 1 .. Len(es) : /\ log'[LastNumber + i] = es[i]
                                      /\ delivery'[LastNumber + i] = Undelivered
  <1> DEFINE N == LastNumber
             M == Len(es)
             new == (N + 1) .. (N + 1 + M - 1)
  <1>1. N \in Nat /\ M \in Nat \ {0} /\ DOMAIN log = 1 .. N /\ DOMAIN delivery = 1 .. N
    BY DEF LogShape
  <1>2. /\ log' = [k \in DOMAIN log \cup new |-> IF k \in new THEN es[k - (N + 1) + 1] ELSE log[k]]
        /\ delivery' = [k \in DOMAIN delivery \cup new |->
                            IF k \in new THEN Undelivered ELSE delivery[k]]
    BY DEF AppendFrom
  <1> HIDE DEF N, M
  <1>3. DOMAIN log \cup new = 1 .. N + M /\ DOMAIN delivery \cup new = 1 .. N + M
    BY <1>1
  <1>4. DOMAIN log' = 1 .. N + M /\ DOMAIN delivery' = 1 .. N + M
    BY <1>2, <1>3
  <1>5. LastNumber' = N + M
    <2>1. N + M \in Nat
      BY <1>1
    <2> QED  BY <1>4, <2>1, LastOfInterval DEF LastNumber
  <1>6. LogShape'
    BY <1>1, <1>4, <1>5 DEF LogShape
  <1>7. \A k \in 1 .. N : k \notin new /\ k \in DOMAIN log \cup new /\ k \in DOMAIN delivery \cup new
    BY <1>1
  <1>8. \A k \in 1 .. N : log'[k] = log[k] /\ delivery'[k] = delivery[k]
    BY <1>2, <1>7
  <1>9. \A i \in 1 .. M : N + i \in new /\ N + i - (N + 1) + 1 = i
    BY <1>1
  <1>10. ASSUME NEW i \in 1 .. M PROVE log'[N + i] = es[i] /\ delivery'[N + i] = Undelivered
    <2>1. N + i \in new /\ N + i - (N + 1) + 1 = i
      BY <1>9
    <2> DEFINE k == N + i
    <2> HIDE DEF k, new
    <2>2. log'[k] = es[k - (N + 1) + 1] /\ delivery'[k] = Undelivered
      BY <1>2, <2>1 DEF k
    <2>3. k - (N + 1) + 1 = i
      BY <1>1, <2>1 DEF k
    <2> QED  BY <2>2, <2>3 DEF k
  <1> QED  BY <1>5, <1>6, <1>8, <1>10 DEF N, M

LEMMA NotesAreFinite ==
    ASSUME LogShape, NEW w
    PROVE  IsFiniteSet(NotesOf(w))
  BY FS_Interval, FS_Subset, 1 \in Int DEF LogShape, NotesOf

\* Rows of other kinds leave a writer's events alone; a note is one more.
LEMMA OthersAppended ==
    ASSUME LogShape, NEW es, Len(es) \in Nat \ {0}, AppendFrom(LastNumber + 1, es), NEW w,
           \A i \in 1 .. Len(es) : ~(es[i].kind = "note" /\ es[i].of = w)
    PROVE  NotesOf(w)' = NotesOf(w)
  <1>1. /\ DOMAIN log = 1 .. LastNumber /\ LastNumber \in Nat
        /\ DOMAIN log' = 1 .. LastNumber + Len(es)
        /\ \A k \in 1 .. LastNumber : log'[k] = log[k]
        /\ \A i \in 1 .. Len(es) : log'[LastNumber + i] = es[i]
    BY AppendAtEnd DEF LogShape
  <1>2. ASSUME NEW n \in DOMAIN log', n \notin DOMAIN log
        PROVE  ~(log'[n].kind = "note" /\ log'[n].of = w)
    <2>1. n - LastNumber \in 1 .. Len(es) /\ LastNumber + (n - LastNumber) = n
      BY <1>1, <1>2
    <2>2. log'[n] = es[n - LastNumber]
      BY <1>1, <2>1
    <2> QED  BY <2>1, <2>2
  <1>3. \A n \in DOMAIN log : n \in DOMAIN log' /\ log'[n] = log[n]
    BY <1>1
  <1> QED  BY <1>2, <1>3 DEF NotesOf

LEMMA NoteAppended ==
    ASSUME LogShape, NEW w, AppendFrom(LastNumber + 1, << [kind |-> "note", of |-> w] >>)
    PROVE  Cardinality(NotesOf(w)') = Cardinality(NotesOf(w)) + 1
  <1> DEFINE es == << [kind |-> "note", of |-> w] >>
             N == LastNumber
  <1>1. Len(es) = 1 /\ es[1] = [kind |-> "note", of |-> w]
    OBVIOUS
  <1>2. AppendFrom(LastNumber + 1, es)
    OBVIOUS
  <1> HIDE DEF es
  <1>3. /\ DOMAIN log = 1 .. N /\ N \in Nat /\ DOMAIN log' = 1 .. N + 1
        /\ \A k \in 1 .. N : log'[k] = log[k]
        /\ log'[N + 1] = es[1]
    <2>1. Len(es) \in Nat \ {0} /\ 1 \in 1 .. Len(es) /\ LastNumber + Len(es) = LastNumber + 1
      BY <1>1
    <2> QED  BY <1>2, <2>1, AppendAtEnd DEF LogShape
  <1>4. NotesOf(w)' = NotesOf(w) \cup {N + 1}
    <2>1. \A n \in DOMAIN log' : n \in DOMAIN log \/ n = N + 1
      BY <1>3
    <2>2. N + 1 \in DOMAIN log' /\ log'[N + 1].kind = "note" /\ log'[N + 1].of = w
      BY <1>1, <1>3
    <2>3. \A n \in DOMAIN log : n \in DOMAIN log' /\ log'[n] = log[n]
      BY <1>3
    <2> QED  BY <2>1, <2>2, <2>3 DEF NotesOf
  <1>5. N + 1 \notin NotesOf(w)
    BY <1>3 DEF NotesOf
  <1> QED  BY <1>4, <1>5, NotesAreFinite, FS_AddElement

\* CreateEvent adds its event and counts it, at whatever number it read.
LEMMA CreateKeeps ==
    ASSUME EInv, NEW w \in Writer, CreateEvent(w)
    PROVE  EInv'
  <1> DEFINE es == << [kind |-> "note", of |-> w] >>
  <1>1. Len(es) = 1 /\ es[1] = [kind |-> "note", of |-> w]
    OBVIOUS
  <1>2. AppendFrom(LastNumber + 1, es) /\ notes' = [notes EXCEPT ![w] = @ + 1]
        /\ expect' = [expect EXCEPT ![w] = 0]
    BY DEF CreateEvent, Numbered
  <1>3. LogShape /\ NotesInv
    BY DEF EInv
  <1> HIDE DEF es
  <1>4. LogShape'
    BY <1>1, <1>2, <1>3, AppendAtEnd
  <1>5. Cardinality(NotesOf(w)') = Cardinality(NotesOf(w)) + 1
    BY <1>2, <1>3, NoteAppended DEF es
  <1>6. ASSUME NEW x \in Writer, x # w PROVE NotesOf(x)' = NotesOf(x)
    <2>1. \A i \in 1 .. Len(es) : ~(es[i].kind = "note" /\ es[i].of = x)
      BY <1>1, <1>6
    <2> QED  BY <1>1, <1>2, <1>3, <2>1, OthersAppended
  <1>7. NotesInv'
    <2>1. notes' \in [Writer -> Nat] /\ expect' \in [Writer -> Nat]
      BY <1>2, <1>3 DEF NotesInv
    <2>2. ASSUME NEW x \in Writer PROVE Cardinality(NotesOf(x)') = notes'[x]
      <3>1. CASE x = w
        BY <1>2, <1>3, <1>5, <3>1 DEF NotesInv
      <3>2. CASE x # w
        BY <1>2, <1>3, <1>6, <3>2 DEF NotesInv
      <3> QED  BY <3>1, <3>2
    <2> QED  BY <2>1, <2>2 DEF NotesInv
  <1> QED  BY <1>4, <1>7 DEF EInv

LEMMA SameLog ==
    ASSUME EInv, UNCHANGED <<log, notes>>, DOMAIN delivery' = DOMAIN delivery,
           expect' \in [Writer -> Nat]
    PROVE  EInv'
  <1>1. LastNumber' = LastNumber /\ \A w \in Writer : NotesOf(w)' = NotesOf(w)
    BY DEF LastNumber, NotesOf
  <1> QED  BY <1>1 DEF EInv, LogShape, NotesInv

LEMMA ReadKeeps ==
    ASSUME EInv, NEW w \in Writer, ReadLatest(w)
    PROVE  EInv'
  <1>1. expect' \in [Writer -> Nat]
    BY DEF ReadLatest, EInv, LogShape, NotesInv
  <1> QED  BY <1>1, SameLog DEF ReadLatest, readVars

-----------------------------------------------------------------------------
(* The invariant.                                                           *)

LEMMA EInvInit == EInit => EInv
  <1> SUFFICES ASSUME EInit PROVE EInv
    OBVIOUS
  <1>1. DOMAIN log = 1 .. 0 /\ DOMAIN delivery = 1 .. 0
    BY DEF EInit
  <1>2. LastNumber = 0
    BY <1>1, LastOfInterval, 0 \in Nat DEF LastNumber
  <1>3. \A w \in Writer : NotesOf(w) = {}
    BY <1>1 DEF NotesOf
  <1>4. NotesInv
    BY <1>3, FS_EmptySet DEF EInit, NotesInv
  <1> QED  BY <1>1, <1>2, <1>4 DEF EInv, LogShape

LEMMA EInvStep == EInv /\ [ENext]_eventVars => EInv'
  <1> SUFFICES ASSUME EInv, [ENext]_eventVars PROVE EInv'
    OBVIOUS
  <1>1. expect \in [Writer -> Nat]
    BY DEF EInv, NotesInv
  <1>2. ASSUME NEW w \in Writer, ReadLatest(w) \/ CreateEvent(w) PROVE EInv'
    BY <1>2, ReadKeeps, CreateKeeps
  <1>3. ASSUME NEW d \in Deliverer, ClaimEvent(d) \/ CompleteDelivery(d) PROVE EInv'
    BY <1>1, <1>3, SameLog DEF ClaimEvent, CompleteDelivery
  <1>4. ASSUME ExpireDelivery \/ ReadPage PROVE EInv'
    BY <1>1, <1>4, SameLog DEF ExpireDelivery, ReadPage
  <1>5. CASE UNCHANGED eventVars
    BY <1>1, <1>5, SameLog DEF eventVars
  <1> QED  BY <1>2, <1>3, <1>4, <1>5 DEF ENext

LEMMA EInvImplies == EInv => NoEventLost
  <1> SUFFICES ASSUME EInv PROVE NoEventLost
    OBVIOUS
  <1>1. LastNumber \in Nat /\ DOMAIN log = 1 .. LastNumber
    BY DEF EInv, LogShape
  <1>2. Cardinality(1 .. LastNumber) = LastNumber
    BY <1>1, FS_Interval, 1 \in Int
  <1> QED  BY <1>1, <1>2 DEF EInv, NotesInv, NotesOf, NoEventLost

\* However many writers number their events outside the transaction of
\* create_event, the sequence of a conversation has no gap and no event that a
\* writer was told is stored is missing.
THEOREM NoEventLostHolds == ESpec => []NoEventLost
  BY EInvInit, EInvStep, EInvImplies, PTL DEF ESpec

-----------------------------------------------------------------------------
(* Delivery.                                                                *)

LEMMA InOrderStep == EInv /\ InOrder /\ [ENext]_eventVars => InOrder'
  <1> SUFFICES ASSUME EInv, InOrder, [ENext]_eventVars PROVE InOrder'
    OBVIOUS
  <1>1. ASSUME NEW w \in Writer, CreateEvent(w) PROVE InOrder'
    <2> DEFINE es == << [kind |-> "note", of |-> w] >>
    <2>1. Len(es) = 1 /\ AppendFrom(LastNumber + 1, es)
      BY <1>1 DEF CreateEvent, Numbered
    <2> HIDE DEF es
    <2>2. LastNumber \in Nat /\ DOMAIN delivery = 1 .. LastNumber
      BY DEF EInv, LogShape
    <2>3. /\ DOMAIN delivery' = 1 .. LastNumber + 1
          /\ \A k \in 1 .. LastNumber : delivery'[k] = delivery[k]
          /\ delivery'[LastNumber + 1] = Undelivered
      <3>1. LogShape /\ Len(es) \in Nat \ {0} /\ 1 \in 1 .. Len(es)
        BY <2>1 DEF EInv
      <3> QED  BY <2>1, <3>1, AppendAtEnd DEF LogShape
    <2>4. ASSUME NEW n \in DOMAIN delivery', delivery'[n].status # "pending"
          PROVE  n \in DOMAIN delivery /\ delivery'[n] = delivery[n]
      BY <2>2, <2>3, <2>4 DEF Undelivered
    <2> QED  BY <2>2, <2>3, <2>4 DEF InOrder
  <1>2. ASSUME NEW d \in Deliverer, ClaimEvent(d) PROVE InOrder'
    <2>1. PICK n \in Open : /\ \A m \in Open : n <= m
                           /\ delivery' = [delivery EXCEPT ![n] =
                                 [status |-> "delivering", owner |-> d, live |-> TRUE,
                                  attempts |-> @.attempts + 1]]
      BY <1>2 DEF ClaimEvent, Deliverable
    <2>2. \A m \in DOMAIN delivery : m \in Int
      BY DEF EInv, LogShape
    <2>3. \A m \in DOMAIN delivery : m < n => delivery[m].status = "published"
      BY <2>1, <2>2 DEF Open
    <2>4. \A m \in DOMAIN delivery : m > n => delivery[m].status = "pending"
      BY <2>2 DEF InOrder, Open
    <2>5. DOMAIN delivery' = DOMAIN delivery /\ \A m \in DOMAIN delivery \ {n} : delivery'[m] = delivery[m]
      BY <2>1
    <2>6. ASSUME NEW k \in DOMAIN delivery', delivery'[k].status # "pending",
                 NEW m \in DOMAIN delivery', m < k
          PROVE  delivery'[m].status = "published"
      <3>1. k = n \/ k < n
        BY <2>2, <2>4, <2>5, <2>6 DEF Open
      <3>2. m < n
        BY <2>2, <2>5, <2>6, <3>1 DEF Open
      <3> QED  BY <2>2, <2>3, <2>5, <3>2 DEF Open
    <2> QED  BY <2>6 DEF InOrder
  <1>3. ASSUME NEW d \in Deliverer, CompleteDelivery(d) PROVE InOrder'
    <2>1. PICK n \in Open : delivery[n].status = "delivering"
                           /\ delivery' = [delivery EXCEPT ![n].status = "published"]
      BY <1>3 DEF CompleteDelivery, HoldsDelivery
    <2>2. DOMAIN delivery' = DOMAIN delivery /\ \A m \in DOMAIN delivery :
              /\ delivery'[m].status # "pending" => delivery[m].status # "pending"
              /\ delivery[m].status = "published" => delivery'[m].status = "published"
      BY <2>1 DEF Open
    <2> QED  BY <2>2 DEF InOrder
  <1>4. ASSUME ExpireDelivery PROVE InOrder'
    <2>1. PICK n \in Open : delivery' = [delivery EXCEPT ![n].live = FALSE]
      BY <1>4 DEF ExpireDelivery
    <2>2. DOMAIN delivery' = DOMAIN delivery
          /\ \A m \in DOMAIN delivery : delivery'[m].status = delivery[m].status
      BY <2>1 DEF Open
    <2> QED  BY <2>2 DEF InOrder
  <1>5. ASSUME ReadPage \/ (\E w \in Writer : ReadLatest(w)) \/ UNCHANGED eventVars PROVE InOrder'
    BY <1>5 DEF ReadPage, ReadLatest, readVars, eventVars, InOrder
  <1> QED  BY <1>1, <1>2, <1>3, <1>4, <1>5 DEF ENext

-----------------------------------------------------------------------------
(* Reading.                                                                 *)

\* The numbers of an interval, in order.
LEMMA AscendingInterval ==
    ASSUME NEW c \in Nat, NEW k \in Nat
    PROVE  Ascending(c + 1 .. c + k) = [i \in 1 .. k |-> c + i]
  <1> DEFINE S == c + 1 .. c + k
  <1>1. Cardinality(S) = k
    <2>1. c + 1 \in Int /\ c + k \in Int
      OBVIOUS
    <2>2. Cardinality(S) = IF c + 1 > c + k THEN 0 ELSE (c + k) - (c + 1) + 1
      BY <2>1, FS_Interval
    <2> QED  BY <2>2
  <1>2. ASSUME NEW n \in S PROVE Cardinality({m \in S : m < n}) = n - c - 1
    <2>1. {m \in S : m < n} = c + 1 .. n - 1
      OBVIOUS
    <2>2. c + 1 \in Int /\ n - 1 \in Int
      OBVIOUS
    <2>3. Cardinality(c + 1 .. n - 1) = IF c + 1 > n - 1 THEN 0 ELSE (n - 1) - (c + 1) + 1
      BY <2>2, FS_Interval
    <2>4. Cardinality(c + 1 .. n - 1) = n - c - 1
      BY <2>3
    <2> HIDE DEF S
    <2> QED  BY <2>1, <2>4, Zenon
  <1>3. ASSUME NEW i \in 1 .. k
        PROVE  (CHOOSE n \in S : Cardinality({m \in S : m < n}) = i - 1) = c + i
    <2>1. c + i \in S
      OBVIOUS
    <2>2. \A n \in S : Cardinality({m \in S : m < n}) = i - 1 <=> n = c + i
      BY <1>2
    <2> HIDE DEF S
    <2> QED  BY <2>1, <2>2
  <1> HIDE DEF S
  <1>4. Ascending(S) = [i \in 1 .. k |-> c + i]
    BY <1>1, <1>3 DEF Ascending
  <1> QED  BY <1>4 DEF S

LEMMA PageIsNext ==
    ASSUME LogShape, NEW c \in 0 .. LastNumber
    PROVE  \E k \in 0 .. LastNumber - c : PageAfter(c) = c + 1 .. c + k
  <1> DEFINE N == LastNumber
  <1>1. N \in Nat /\ c \in Nat /\ c <= N /\ Page \in Nat \ {0}
    BY EventLogAssumption DEF LogShape
  <1>2. NewerThan(c) = c + 1 .. N
    BY <1>1 DEF NewerThan, LogShape
  <1> HIDE DEF N
  <1>3. ASSUME NEW n \in c + 1 .. N
        PROVE  Cardinality({m \in NewerThan(c) : m < n}) = n - c - 1
    <2>1. {m \in NewerThan(c) : m < n} = c + 1 .. n - 1
      BY <1>1, <1>2
    <2>2. c + 1 \in Int /\ n - 1 \in Int
      BY <1>1
    <2>3. Cardinality(c + 1 .. n - 1) = IF c + 1 > n - 1 THEN 0 ELSE (n - 1) - (c + 1) + 1
      BY <2>2, FS_Interval
    <2>4. Cardinality(c + 1 .. n - 1) = n - c - 1
      BY <1>1, <2>3
    <2> QED  BY <2>1, <2>4, Zenon
  <1>4. PageAfter(c) = {n \in c + 1 .. N : n - c - 1 < Page}
    BY <1>2, <1>3 DEF PageAfter
  <1>5. CASE N - c <= Page
    <2>1. PageAfter(c) = c + 1 .. c + (N - c)
      BY <1>1, <1>4, <1>5
    <2>2. N - c \in 0 .. N - c
      BY <1>1
    <2> QED  BY <2>1, <2>2 DEF N
  <1>6. CASE ~(N - c <= Page)
    <2>1. PageAfter(c) = c + 1 .. c + Page
      BY <1>1, <1>4, <1>6
    <2>2. Page \in 0 .. N - c
      BY <1>1, <1>6
    <2> QED  BY <2>1, <2>2 DEF N
  <1> QED  BY <1>5, <1>6

\* The next page goes on where the reader is.
LEMMA ReadGoesOn ==
    ASSUME LogShape, FeedInv, ReadPage
    PROVE  FeedInv'
  <1> DEFINE L == Len(feed)
             N == LastNumber
  <1>1. N \in Nat /\ L \in 0 .. N /\ feed \in Seq(Nat) /\ \A i \in 1 .. L : feed[i] = i
    BY LenProperties DEF LogShape, FeedInv
  <1>2. Cursor = L
    <2>1. CASE feed = <<>>
      BY <2>1 DEF Cursor
    <2>2. CASE feed # <<>>
      <3>1. L \in 1 .. L
        BY <1>1, <2>2, EmptySeq
      <3> QED  BY <1>1, <2>2, <3>1 DEF Cursor, Last
    <2> QED  BY <2>1, <2>2
  <1>3. PICK k \in 0 .. N - L : PageAfter(L) = L + 1 .. L + k
    BY <1>1, PageIsNext
  <1> DEFINE page == [i \in 1 .. k |-> L + i]
  <1> HIDE DEF L, N
  <1>4. feed' = feed \o page
    <2>1. L \in Nat /\ k \in Nat
      BY <1>1, <1>3
    <2> QED  BY <1>2, <1>3, <2>1, AscendingInterval DEF ReadPage
  <1>5. page \in Seq(Nat) /\ Len(page) = k /\ k \in Nat
    <2>1. k \in Nat /\ L \in Nat
      BY <1>1, <1>3
    <2> QED  BY <2>1
  <1>6. /\ feed \o page \in Seq(Nat) /\ Len(feed \o page) = L + k
        /\ \A i \in 1 .. L + k : (feed \o page)[i] = IF i <= L THEN feed[i] ELSE page[i - L]
    <2> HIDE DEF page
    <2> QED  BY <1>1, <1>5, ConcatProperties DEF L
  <1>7. \A i \in 1 .. L + k : (feed \o page)[i] = i
    <2> TAKE i \in 1 .. L + k
    <2>1. CASE i <= L
      BY <1>1, <1>5, <1>6, <2>1
    <2>2. CASE ~(i <= L)
      <3>1. i - L \in 1 .. k /\ L + (i - L) = i
        BY <1>1, <1>5, <2>2
      <3> QED  BY <1>6, <2>2, <3>1
    <2> QED  BY <2>1, <2>2
  <1>8. L + k <= N
    BY <1>1, <1>3
  <1>9. LastNumber' = N
    BY DEF ReadPage, LastNumber, N
  <1> HIDE DEF page
  <1> QED  BY <1>4, <1>6, <1>7, <1>8, <1>9 DEF FeedInv

LEMMA FeedStep == EInv /\ FeedInv /\ [ENext]_eventVars => FeedInv'
  <1> SUFFICES ASSUME EInv, FeedInv, [ENext]_eventVars PROVE FeedInv'
    OBVIOUS
  <1>1. LogShape
    BY DEF EInv
  <1>2. CASE ReadPage
    BY <1>1, <1>2, ReadGoesOn
  <1>3. ASSUME NEW w \in Writer, CreateEvent(w) PROVE FeedInv'
    <2> DEFINE es == << [kind |-> "note", of |-> w] >>
    <2>1. Len(es) = 1 /\ AppendFrom(LastNumber + 1, es) /\ feed' = feed
      BY <1>3 DEF CreateEvent, Numbered
    <2> HIDE DEF es
    <2>2. LastNumber' = LastNumber + 1 /\ LastNumber \in Nat
      <3>1. LastNumber \in Nat /\ Len(es) \in Nat \ {0}
        BY <1>1, <2>1 DEF LogShape
      <3>2. LastNumber' = LastNumber + Len(es)
        BY <1>1, <2>1, <3>1, AppendAtEnd
      <3> QED  BY <2>1, <3>1, <3>2
    <2> QED  BY <2>1, <2>2, LenProperties DEF FeedInv
  <1>4. ASSUME \/ \E w \in Writer : ReadLatest(w)
               \/ \E d \in Deliverer : ClaimEvent(d) \/ CompleteDelivery(d)
               \/ ExpireDelivery
               \/ UNCHANGED eventVars
        PROVE  FeedInv'
    <2>1. log' = log /\ feed' = feed
      BY <1>4 DEF ReadLatest, readVars, ClaimEvent, CompleteDelivery, ExpireDelivery, eventVars
    <2> QED  BY <2>1 DEF FeedInv, LastNumber
  <1> QED  BY <1>2, <1>3, <1>4 DEF ENext

\* Events are published in the order of their numbers, and a reader that goes on
\* from its cursor, whatever the page size and whatever is written between two
\* pages, is handed each of them once and in order.
THEOREM DeliveredInOrderHolds == ESpec => []DeliveredInOrder
  <1>1. EInit => InOrder
    BY DEF EInit, InOrder
  <1>2. EInit => FeedInv
    <2> SUFFICES ASSUME EInit PROVE FeedInv
      OBVIOUS
    <2>1. feed = <<>> /\ LastNumber \in Nat
      BY EInvInit DEF EInit, EInv, LogShape
    <2>2. feed \in Seq(Nat) /\ Len(feed) = 0
      BY <2>1
    <2> QED  BY <2>1, <2>2 DEF FeedInv
  <1>3. InOrder /\ FeedInv => DeliveredInOrder
    <2> SUFFICES ASSUME InOrder, FeedInv PROVE DeliveredInOrder
      OBVIOUS
    <2>1. feed = [k \in 1 .. Len(feed) |-> k]
      BY DEF FeedInv
    <2> QED  BY <2>1 DEF DeliveredInOrder, InOrder
  <1> QED  BY <1>1, <1>2, <1>3, EInvInit, EInvStep, InOrderStep, FeedStep, PTL DEF ESpec
=============================================================================
