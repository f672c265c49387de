------------------------ MODULE Conversation_proofs -------------------------
(***************************************************************************)
(* Proofs about the tables of a conversation: ConversationStore, for every *)
(* set of tabs, edits, drafts and versions; MessageJobs, for any messages, *)
(* contents and bounds; TurnQueue, for any number of inputs, tabs,         *)
(* compactors and event writers, and for both stores.  The invariant of    *)
(* the row: no copy is newer, and a copy of the row's revision is the row. *)
(* Each operation of the queue is shown once to change the turns in one of *)
(* three ways (an insertion, a change of statuses, nothing); its           *)
(* invariants are then argued from these shapes.  Last, the browser's view *)
(* in AgentConversation, for any conversations, runs and flows: whatever   *)
(* waits or is shown is what the events up to its sequence make of its     *)
(* run, and the Outbox grows at its end only.                              *)
(***************************************************************************)
EXTENDS ConversationStore, MessageJobs, TurnQueue, AgentConversation, EventLog_proofs,
        WellFoundedInduction

Phase == {"idle", "draft_running", "draft_succeeded", "draft_failed"}

Row == [revision : Nat \ {0}, edit : Edit \cup {"none"}, phase : Phase, runtime : Nat,
        records : [Version -> Records \cup {NoRecord}],
        pending : [job : Job \cup {"none"}, version : Version \cup {"none"}]]

RowTypeOK == row \in Row /\ copy \in [Reader -> Row \cup {Unread}]

CopiesArePast ==
    \A t \in Reader :
        /\ copy[t].revision <= row.revision
        /\ copy[t].revision = row.revision => copy[t] = row

CInv == RowTypeOK /\ CopiesArePast

-----------------------------------------------------------------------------
(* Writing the row.                                                         *)

LEMMA StoredType ==
    ASSUME row \in Row, NEW new \in Row
    PROVE  Stored(new) \in Row
  BY DEF Stored, Row

\* A write stores what it was given.
LEMMA StoredRecords ==
    ASSUME row \in Row, NEW new \in Row
    PROVE  Stored(new).records = new.records /\ Stored(new).pending = new.pending
  <1> DEFINE content(r) == [r EXCEPT !.revision = 0]
  <1>1. CASE content(new) = content(row)
    <2>1. content(new).records = new.records /\ content(new).pending = new.pending
      BY DEF Row
    <2>2. content(row).records = row.records /\ content(row).pending = row.pending
      BY DEF Row
    <2> QED  BY <1>1, <2>1, <2>2 DEF Stored
  <1>2. CASE content(new) # content(row)
    BY <1>2 DEF Stored, Row
  <1> QED  BY <1>1, <1>2

\* A write either leaves the row alone or makes it newer than every copy.
LEMMA StoredIsNewer ==
    ASSUME row \in Row, NEW new \in Row
    PROVE  Stored(new) = row \/ Stored(new).revision = row.revision + 1
  BY DEF Stored, Row

\* What a write of one tab's request does to the invariant.
LEMMA WriteKeepsCopies ==
    ASSUME CInv, NEW new \in Row, row' = Stored(new),
           \/ UNCHANGED copy
           \/ \E t \in Reader : copy' = [copy EXCEPT ![t] = Unread]
    PROVE  CInv'
  <1>1. row' \in Row
    BY StoredType DEF CInv, RowTypeOK
  <1>2. copy' \in [Reader -> Row \cup {Unread}] /\ \A t \in Reader : copy'[t] \in {copy[t], Unread}
    BY DEF CInv, RowTypeOK
  <1>3. ASSUME NEW t \in Reader
        PROVE  /\ copy'[t].revision <= row'.revision
               /\ copy'[t].revision = row'.revision => copy'[t] = row'
    <2>1. CASE copy'[t] = Unread
      BY <1>1, <2>1 DEF Unread, Row
    <2>2. CASE copy'[t] = copy[t] /\ copy[t] # Unread
      <3>1. /\ copy[t].revision \in Nat /\ row.revision \in Nat
            /\ copy[t].revision <= row.revision
            /\ copy[t].revision = row.revision => copy[t] = row
        BY <2>2 DEF CInv, RowTypeOK, CopiesArePast, Row
      <3>2. row' = row \/ row'.revision = row.revision + 1
        BY StoredIsNewer DEF CInv, RowTypeOK
      <3> QED  BY <2>2, <3>1, <3>2
    <2> QED  BY <1>2, <2>1, <2>2
  <1> QED  BY <1>1, <1>2, <1>3 DEF CInv, RowTypeOK, CopiesArePast

-----------------------------------------------------------------------------
(* What each kind of request asks the store to write.                       *)

LEMMA UpdateWrites ==
    ASSUME CInv, NEW t \in Reader, UpdateConversation(t)
    PROVE  \E new \in Row : /\ row' = Stored(new)
                            /\ new.records = row.records
  <1>1. row \in Row /\ copy[t] \in Row
    BY DEF CInv, RowTypeOK, UpdateConversation
  <1>2. PICK e \in Edit \cup {copy[t].edit}, p \in {row.phase, "idle"} :
            row' = Stored([Replaced(row, [copy[t] EXCEPT !.edit = e]) EXCEPT !.phase = p])
    BY DEF UpdateConversation
  <1> DEFINE new == [Replaced(row, [copy[t] EXCEPT !.edit = e]) EXCEPT !.phase = p]
  <1>3. new \in Row /\ new.records = row.records
    BY <1>1 DEF Replaced, Row, Phase
  <1> QED  BY <1>2, <1>3

LEMMA ResumeWrites ==
    ASSUME CInv, NEW t \in Reader, ResumeConversation(t)
    PROVE  \E new \in Row : /\ row' = Stored(new)
                            /\ new.records = row.records
  <1>1. row \in Row /\ copy[t] \in Row
    BY DEF CInv, RowTypeOK, ResumeConversation
  <1>2. Replaced(row, copy[t]) \in Row /\ Replaced(row, copy[t]).records = row.records
    BY <1>1 DEF Replaced, Row
  <1> QED  BY <1>2 DEF ResumeConversation

LEMMA RuntimeWrites ==
    ASSUME CInv, NEW t \in Reader, PatchRuntime(t)
    PROVE  \E new \in Row : /\ row' = Stored(new)
                            /\ new.records = row.records
  <1>1. row \in Row /\ copy[t] \in Row
    BY DEF CInv, RowTypeOK, PatchRuntime
  <1> DEFINE new == [row EXCEPT !.runtime = copy[t].runtime + 1]
  <1>2. new \in Row /\ new.records = row.records
    BY <1>1 DEF Row
  <1> QED  BY <1>2 DEF PatchRuntime

LEMMA DraftWrites ==
    ASSUME CInv, PatchJianyingDraft
    PROVE  \E j \in Job, named \in SUBSET Version : \E report \in [named -> {r \in Records : r.job = j}] :
              \E new \in Row : row' = Stored(new) /\ new.records = MergedRecords(report, j)
  <1>1. row \in Row
    BY DEF CInv, RowTypeOK
  <1>2. PICK j \in Job, v \in Version \cup {"none"}, named \in SUBSET Version,
             requested \in {"idle", "draft_running"} :
          \E report \in [named -> {r \in Records : r.job = j}] :
            LET recs == MergedRecords(report, j)
                pend == ResolvedPending(j, v, recs)
            IN  row' = Stored([row EXCEPT
                  !.records = recs, !.pending = pend,
                  !.phase = IF Authorised(report, j, v, recs)
                            THEN PhaseAfter(report, j, pend, recs, requested) ELSE @])
    BY DEF PatchJianyingDraft
  <1>3. PICK report \in [named -> {r \in Records : r.job = j}] :
            LET recs == MergedRecords(report, j)
                pend == ResolvedPending(j, v, recs)
            IN  row' = Stored([row EXCEPT
                  !.records = recs, !.pending = pend,
                  !.phase = IF Authorised(report, j, v, recs)
                            THEN PhaseAfter(report, j, pend, recs, requested) ELSE @])
    BY <1>2
  <1> DEFINE recs == MergedRecords(report, j)
             pend == ResolvedPending(j, v, recs)
             phase == IF Authorised(report, j, v, recs)
                      THEN PhaseAfter(report, j, pend, recs, requested) ELSE row.phase
             new == [row EXCEPT !.records = recs, !.pending = pend, !.phase = phase]
  <1>4. recs \in [Version -> Records \cup {NoRecord}]
    BY <1>1 DEF MergedRecords, Row
  <1>5. pend \in [job : Job \cup {"none"}, version : Version \cup {"none"}]
    BY <1>1 DEF ResolvedPending, Row, NoJob
  <1>6. phase \in Phase
    BY <1>1 DEF PhaseAfter, Phase, Row
  <1>7. row' = Stored(new)
    BY <1>3
  <1> HIDE DEF recs, pend, phase
  <1>8. new \in Row /\ new.records = recs
    BY <1>1, <1>4, <1>5, <1>6 DEF Row
  <1> QED  BY <1>7, <1>8 DEF recs

-----------------------------------------------------------------------------
(* The invariant.                                                           *)

LEMMA CInvInit == CInit => CInv
  BY DEF CInit, CInv, RowTypeOK, CopiesArePast, Row, Phase, NoJob, Unread

\* An expired link is no new revision, but every copy tells it as the row does.
LEMMA ExpireKeepsCopies == CInv /\ ExpireLink => CInv'
  <1> SUFFICES ASSUME CInv, ExpireLink PROVE CInv'
    OBVIOUS
  <1>1. PICK v \in Version :
          /\ row.records[v].live
          /\ row' = [row EXCEPT !.records[v].live = FALSE]
          /\ copy' = [t \in Reader |-> IF copy[t] = Unread THEN Unread
                                    ELSE IF Valid(copy[t].records[v])
                                            /\ copy[t].records[v].job = row.records[v].job
                                         THEN [copy[t] EXCEPT !.records[v].live = FALSE]
                                         ELSE copy[t]]
    BY DEF ExpireLink
  <1>2. row \in Row /\ copy \in [Reader -> Row \cup {Unread}]
    BY DEF CInv, RowTypeOK
  <1> DEFINE dead(r) == [r EXCEPT !.records[v].live = FALSE]
  <1>3. ASSUME NEW r \in Row, r.records[v] # NoRecord
        PROVE  dead(r) \in Row /\ dead(r).revision = r.revision
    <2>1. r.records[v] \in Records
      BY <1>3 DEF Row
    <2>2. [r.records[v] EXCEPT !.live = FALSE] \in Records
      BY <2>1 DEF Records
    <2> QED  BY <2>2 DEF Row
  <1>4. row.records[v] \in Records /\ row.records[v].status = "succeeded"
    BY <1>1, <1>2 DEF Row, Records, NoRecord
  <1>5. row' \in Row /\ row'.revision = row.revision
    BY <1>1, <1>2, <1>3, <1>4 DEF NoRecord
  <1>6. ASSUME NEW t \in Reader
        PROVE  /\ copy'[t] \in Row \cup {Unread} /\ copy'[t].revision = copy[t].revision
               /\ copy[t] = row => copy'[t] = row'
    <2>1. CASE copy[t] = Unread
      BY <1>1, <1>2, <2>1 DEF Unread, Row
    <2>2. CASE copy[t] # Unread /\ Valid(copy[t].records[v])
                  /\ copy[t].records[v].job = row.records[v].job
      <3>1. copy[t] \in Row /\ copy[t].records[v] # NoRecord /\ copy'[t] = dead(copy[t])
        BY <1>1, <1>2, <2>2 DEF Valid, NoRecord
      <3> QED  BY <1>1, <1>3, <3>1
    <2>3. CASE copy[t] # Unread /\ ~(Valid(copy[t].records[v])
                  /\ copy[t].records[v].job = row.records[v].job)
      <3>1. copy'[t] = copy[t]
        BY <1>1, <2>3
      <3>2. copy[t] # row
        BY <1>1, <1>4, <2>3 DEF Valid
      <3> QED  BY <1>2, <3>1, <3>2
    <2> QED  BY <2>1, <2>2, <2>3
  <1>7. copy' \in [Reader -> Row \cup {Unread}]
    <2>1. DOMAIN copy' = Reader /\ copy' = [t \in Reader |-> copy'[t]]
      BY <1>1
    <2> QED  BY <1>6, <2>1
  <1>8. CopiesArePast'
    BY <1>5, <1>6 DEF CInv, CopiesArePast
  <1> QED  BY <1>5, <1>7, <1>8 DEF CInv, RowTypeOK

LEMMA CInvStep == CInv /\ [CNext]_convVars => CInv'
  <1> SUFFICES ASSUME CInv, [CNext]_convVars PROVE CInv'
    OBVIOUS
  <1>1. ASSUME NEW t \in Reader, Read(t) PROVE CInv'
    BY <1>1 DEF Read, CInv, RowTypeOK, CopiesArePast, Row
  <1>2. ASSUME NEW t \in Reader, UpdateConversation(t) PROVE CInv'
    <2>1. copy' = [copy EXCEPT ![t] = Unread]
      BY <1>2 DEF UpdateConversation
    <2> QED  BY <1>2, <2>1, UpdateWrites, WriteKeepsCopies
  <1>3. ASSUME NEW t \in Reader, ResumeConversation(t) PROVE CInv'
    <2>1. copy' = [copy EXCEPT ![t] = Unread]
      BY <1>3 DEF ResumeConversation
    <2> QED  BY <1>3, <2>1, ResumeWrites, WriteKeepsCopies
  <1>4. ASSUME NEW t \in Reader, PatchRuntime(t) PROVE CInv'
    <2>1. copy' = [copy EXCEPT ![t] = Unread]
      BY <1>4 DEF PatchRuntime
    <2> QED  BY <1>4, <2>1, RuntimeWrites, WriteKeepsCopies
  <1>5. ASSUME PatchJianyingDraft PROVE CInv'
    <2>1. UNCHANGED copy
      BY <1>5 DEF PatchJianyingDraft
    <2>2. PICK new \in Row : row' = Stored(new)
      BY <1>5, DraftWrites
    <2> QED  BY <2>1, <2>2, WriteKeepsCopies
  <1>6. ASSUME ExpireLink PROVE CInv'
    BY <1>6, ExpireKeepsCopies
  <1>7. CASE UNCHANGED convVars
    BY <1>7 DEF convVars, CInv, RowTypeOK, CopiesArePast
  <1> QED  BY <1>1, <1>2, <1>3, <1>4, <1>5, <1>6, <1>7 DEF CNext

\* The invariant: copies are of the past, and one of the present is the row.
THEOREM CInvHolds == CSpec => []CInv
  BY CInvInit, CInvStep, PTL DEF CSpec

\* Two readers of one revision of a conversation have read the same
\* conversation, although the runtime and draft patches of the store name no
\* revision and a link expires without one.
THEOREM RevisionNamesContentHolds == CSpec => []RevisionNamesContent
  <1>1. CInv => RevisionNamesContent
    BY DEF CInv, CopiesArePast, RevisionNamesContent
  <1> QED  BY <1>1, CInvHolds, PTL

-----------------------------------------------------------------------------
(* Drafts.                                                                  *)

DraftStep ==
    \A v \in Version :
         LET old == row.records[v] new == row.records'[v]
         IN  old # new /\ old # NoRecord =>
               \/ Valid(old) /\ new = [old EXCEPT !.live = FALSE]
               \/ /\ ~Valid(old)
                  /\ \/ new.job # old.job /\ new.job = row.pending.job
                     \/ /\ new.job = old.job
                        /\ \/ new.status = "succeeded"
                           \/ /\ old.status \notin Outcome
                              /\ new.status \notin Outcome => Rank[new.status] >= Rank[old.status]

LEMMA SameRecords ==
    ASSUME CInv, NEW new \in Row, row' = Stored(new), new.records = row.records
    PROVE  DraftStep
  <1>1. row'.records = row.records
    BY StoredRecords DEF CInv, RowTypeOK
  <1> QED  BY <1>1 DEF DraftStep

LEMMA DraftHolds == CInv /\ [CNext]_convVars => DraftStep
  <1> SUFFICES ASSUME CInv, [CNext]_convVars PROVE DraftStep
    OBVIOUS
  <1>1. ASSUME NEW t \in Reader, Read(t) PROVE DraftStep
    BY <1>1 DEF Read, DraftStep
  <1>2. ASSUME NEW t \in Reader, UpdateConversation(t) PROVE DraftStep
    BY <1>2, UpdateWrites, SameRecords
  <1>3. ASSUME NEW t \in Reader, ResumeConversation(t) PROVE DraftStep
    BY <1>3, ResumeWrites, SameRecords
  <1>4. ASSUME NEW t \in Reader, PatchRuntime(t) PROVE DraftStep
    BY <1>4, RuntimeWrites, SameRecords
  <1>5. ASSUME PatchJianyingDraft PROVE DraftStep
    <2>1. PICK j \in Job, named \in SUBSET Version : \E report \in [named -> {r \in Records : r.job = j}] :
              \E new \in Row : row' = Stored(new) /\ new.records = MergedRecords(report, j)
      BY <1>5, DraftWrites
    <2>2. PICK report \in [named -> {r \in Records : r.job = j}] :
              \E new \in Row : row' = Stored(new) /\ new.records = MergedRecords(report, j)
      BY <2>1
    <2>3. row'.records = MergedRecords(report, j)
      BY <2>2, StoredRecords DEF CInv, RowTypeOK
    <2>4. ASSUME NEW v \in Version, row.records[v] # row'.records[v], row.records[v] # NoRecord
          PROVE  /\ v \in named /\ row'.records[v] = report[v] /\ report[v].job = j
                 /\ Supersedes(row.records[v], report[v], j)
      BY <2>3, <2>4 DEF MergedRecords
    <2> QED  BY <2>4 DEF DraftStep, Supersedes
  <1>6. ASSUME ExpireLink PROVE DraftStep
    <2>1. PICK v \in Version : /\ row.records[v].live
                               /\ row' = [row EXCEPT !.records[v].live = FALSE]
      BY <1>6 DEF ExpireLink
    <2>2. row \in Row
      BY DEF CInv, RowTypeOK
    <2>3. Valid(row.records[v])
      BY <2>1, <2>2 DEF Row, Records, NoRecord, Valid
    <2>4. /\ row'.records[v] = [row.records[v] EXCEPT !.live = FALSE]
          /\ \A u \in Version \ {v} : row'.records[u] = row.records[u]
      BY <2>1, <2>2 DEF Row
    <2> QED  BY <2>3, <2>4 DEF DraftStep
  <1>7. CASE UNCHANGED convVars
    BY <1>7 DEF convVars, DraftStep
  <1> QED  BY <1>1, <1>2, <1>3, <1>4, <1>5, <1>6, <1>7 DEF CNext

\* What is known about a Jianying draft is never taken back: no late or
\* repeated report (_merge_jianying_draft_record), no tab and no version patch
\* replaces a usable draft or an outcome.
THEOREM DraftNeverGoesBackHolds == CSpec => DraftNeverGoesBack
  <1>1. CInv /\ [CNext]_convVars => [DraftStep]_convVars
    BY DraftHolds
  <1>2. [](CInv) /\ [][CNext]_convVars => [][DraftStep]_convVars
    BY <1>1, PTL
  <1>3. [][DraftStep]_convVars => DraftNeverGoesBack
    BY DEF DraftStep, DraftNeverGoesBack
  <1> QED  BY <1>2, <1>3, CInvHolds DEF CSpec

-----------------------------------------------------------------------------
(* MessageJobs.  A job that has found no message inserts one, whatever has   *)
(* become of the message, its key and its place in the table meanwhile; the  *)
(* row decides.                                                              *)

\* The tasks know their messages, and every task has a number of its own.
TasksOK ==
    /\ DOMAIN message = Msg
    /\ ids \in Nat
    /\ DOMAIN tasks \subseteq 1 .. ids
    /\ \A j \in DOMAIN tasks : DOMAIN tasks[j] = {"msg", "content", "step"} /\ tasks[j].msg \in Msg

LEMMA TasksInit == JInit => TasksOK
  BY DEF JInit, TasksOK

\* A task that ends leaves the others as they are.
LEMMA EndsKeeps ==
    ASSUME TasksOK, NEW j \in DOMAIN tasks, NEW status, Ends(j, status), DOMAIN message' = Msg
    PROVE  TasksOK'
  BY DEF Ends, TasksOK

LEMMA InsertIs ==
    ASSUME TasksOK, NEW j \in DOMAIN tasks,
           message' = [message EXCEPT ![tasks[j].msg] = RowAfterInsert(j)]
    PROVE  /\ DOMAIN message' = Msg
           /\ \A m \in Msg : message[m] # "absent" => message'[m] = message[m]
  BY DEF TasksOK, RowAfterInsert

\* What a step does to the tasks and to the messages there are.
LEMMA JobStep ==
    ASSUME TasksOK, [JNext]_jobVars
    PROVE  /\ TasksOK'
           /\ \A m \in Msg : message[m] # "absent" => message'[m] \in {message[m], "edited"}
  <1> DEFINE Goal == /\ TasksOK'
                     /\ \A m \in Msg : message[m] # "absent" => message'[m] \in {message[m], "edited"}
  <1>1. ASSUME NEW m \in Msg, NEW c \in Content, AskAppend(m, c) PROVE Goal
    BY <1>1 DEF AskAppend, TasksOK
  <1>2. ASSUME NEW m \in Msg, NEW c \in Content, StartAppend(m, c) PROVE Goal
    <2>1. message' = message
      BY <1>2 DEF StartAppend
    <2>2. CASE UNCHANGED <<tasks, ids>>
      BY <2>1, <2>2 DEF TasksOK
    <2>3. CASE /\ ids' = ids + 1
               /\ tasks' = [j \in DOMAIN tasks \cup {ids'} |->
                               IF j = ids' THEN [msg |-> m, content |-> c, step |-> "look"]
                               ELSE tasks[j]]
      BY <2>1, <2>3 DEF TasksOK
    <2> QED  BY <1>2, <2>2, <2>3 DEF StartAppend
  <1>3. ASSUME NEW j \in DOMAIN tasks, LookUp(j) PROVE Goal
    <2>1. message' = message /\ DOMAIN message = Msg
      BY <1>3 DEF LookUp, TasksOK
    <2>2. CASE tasks' = [tasks EXCEPT ![j].step = "insert"] /\ UNCHANGED ids
      BY <2>1, <2>2 DEF TasksOK
    <2>3. CASE Ends(j, "completed")
      BY <2>1, <2>3, EndsKeeps
    <2> QED  BY <1>3, <2>2, <2>3 DEF LookUp
  <1>4. ASSUME NEW j \in DOMAIN tasks, Insert(j) PROVE Goal
    BY <1>4, InsertIs, EndsKeeps DEF Insert
  <1>5. ASSUME NEW j \in DOMAIN tasks, Fail(j) PROVE Goal
    <2>1. DOMAIN message = Msg
      BY DEF TasksOK
    <2> QED  BY <1>5, <2>1, InsertIs, EndsKeeps DEF Fail
  <1>6. ASSUME NEW m \in Msg, EditMessage(m) PROVE Goal
    BY <1>6 DEF EditMessage, TasksOK
  <1>7. CASE Crash
    BY <1>7 DEF Crash, TasksOK
  <1>8. CASE UNCHANGED jobVars
    BY <1>8 DEF jobVars, TasksOK
  <1> QED  BY <1>1, <1>2, <1>3, <1>4, <1>5, <1>6, <1>7, <1>8 DEF JNext

\* The invariant: the tasks of the process refer to messages and to jobs started.
THEOREM TasksOKHolds == JSpec => []TasksOK
  BY TasksInit, JobStep, PTL DEF JSpec

\* However often a save is repeated, trimmed, failed or cut off by the end of the
\* process, no payload replaces a stored message or what an edit made of it.
THEOREM FirstContentStaysHolds == JSpec => FirstContentStays
  <1>1. TasksOK /\ [JNext]_jobVars =>
          \A m \in Msg : message[m] # "absent" => message'[m] \in {message[m], "edited"}
    BY JobStep
  <1> QED  BY <1>1, TasksOKHolds, PTL DEF JSpec, FirstContentStays

-----------------------------------------------------------------------------
(* The turns.                                                              *)

TurnShape == [status : Active \cup {"completed"}, inbox : Nat]

\* The inbox keys are those of an autoincrement column.
InboxInv ==
    /\ IsFiniteSet(DOMAIN turns)
    /\ \A i \in DOMAIN turns : turns[i].inbox \in 1 .. Cardinality(DOMAIN turns)
    /\ \A i, j \in DOMAIN turns : turns[i].inbox = turns[j].inbox => i = j

\* Tokens come from leases, and a lease that is active has no outcome yet.
TokenInv ==
    /\ lock.token \in 0 .. leases
    /\ \A n \in Outcomes : log[n].of \in 0 .. leases
    /\ (store = "sql" /\ lock.state = "active") => \A n \in Outcomes : log[n].of # lock.token
    /\ LeaseEndsOnce

TInv ==
    /\ TurnTypeOK
    /\ EInv
    /\ InboxInv
    /\ ExecutionIsExclusive
    /\ TokenInv

-----------------------------------------------------------------------------
(* What the operations do to the turns.                                     *)

\* A turn of a new input, which is not handed out under a lease.
Inserts ==
    /\ UNCHANGED lock
    /\ \E i \in Input \ DOMAIN turns, s \in Pending :
          /\ turns' = Inserted(i, s)
          /\ Locked => s = "queued"

SameKeys ==
    /\ DOMAIN turns' = DOMAIN turns
    /\ \A i \in DOMAIN turns : turns'[i] \in TurnShape /\ turns'[i].inbox = turns[i].inbox

\* Nothing is taken; under a lease that begins, nothing is left to execute.
TakesNone ==
    /\ SameKeys
    /\ \A i \in DOMAIN turns : turns'[i].status = "processing" => turns[i].status = "processing"
    /\ Locked' => With({"accepted", "processing"})' = {}

\* The only one that is processing afterwards is the earliest pending turn of
\* the inbox, or, in the Memory double, any pending one.
TakesOne ==
    /\ SameKeys
    /\ ~Locked'
    /\ \E j \in With(Pending) :
          /\ \A i \in DOMAIN turns : turns'[i].status = "processing" => i = j
          /\ store = "sql" =>
                \A i \in DOMAIN turns :
                    (i # j /\ turns'[i].status \in Pending) => turns[j].inbox < turns[i].inbox

Idles == UNCHANGED <<turns, lock>>

LEMMA StartedIs ==
    ASSUME TurnTypeOK, InboxInv, NEW j \in Earliest, NEW S, S = {j}, Processing = {},
           turns' = Started(S), ~Locked'
    PROVE  TakesOne
  <1>1. j \in With(Pending) /\ \A k \in With(Pending) : turns[j].inbox <= turns[k].inbox
    BY DEF Earliest
  <1>2. j \in DOMAIN turns /\ \A i \in DOMAIN turns : turns[i].status # "processing"
    BY <1>1 DEF With, Processing
  <1>3. SameKeys
    BY DEF Started, SameKeys, TurnTypeOK, TurnShape, Active
  <1>4. \A i \in DOMAIN turns : i # j => turns'[i] = turns[i]
    BY DEF Started
  <1>5. ASSUME NEW i \in DOMAIN turns, i # j, turns'[i].status \in Pending
        PROVE  turns[j].inbox < turns[i].inbox
    <2>1. i \in With(Pending)
      BY <1>4, <1>5 DEF With
    <2>2. turns[j].inbox <= turns[i].inbox /\ turns[j].inbox # turns[i].inbox
      BY <1>1, <1>2, <1>5, <2>1 DEF InboxInv
    <2>3. turns[j].inbox \in Nat /\ turns[i].inbox \in Nat
      BY <1>2 DEF TurnTypeOK
    <2> QED  BY <2>2, <2>3
  <1>6. \A i \in DOMAIN turns : turns'[i].status = "processing" => i = j
    BY <1>2, <1>4
  <1> QED  BY <1>1, <1>3, <1>5, <1>6 DEF TakesOne

\* The keys of the inbox are unique, so one turn is the earliest.
LEMMA OneEarliest ==
    ASSUME TurnTypeOK, InboxInv, NEW i \in Earliest, NEW j \in Earliest
    PROVE  i = j
  <1>1. i \in DOMAIN turns /\ j \in DOMAIN turns
        /\ turns[i].inbox <= turns[j].inbox /\ turns[j].inbox <= turns[i].inbox
    BY DEF Earliest, With
  <1>2. turns[i].inbox = turns[j].inbox
    BY <1>1 DEF TurnTypeOK
  <1> QED  BY <1>1, <1>2 DEF InboxInv

LEMMA RegisterShape ==
    ASSUME TInv, NEW c \in Tab, NEW i \in Input, RegisterNew(c, i) \/ RegisterAnswered(c, i)
    PROVE  Inserts \/ Idles
  BY DEF RegisterNew, RegisterAnswered, Inserts, Idles, AdmittedStatus, Known, Pending

LEMMA EnqueueShape ==
    ASSUME TInv, NEW i \in Input, NEW s \in Pending, EnqueueSql(i, s) \/ EnqueueMemory(i)
    PROVE  Inserts \/ TakesNone
  <1>1. CASE ~Known(i)
    BY <1>1 DEF EnqueueSql, EnqueueMemory, Inserts, SavedStatus, AdmittedStatus, Known, Pending
  <1>2. CASE Known(i) /\ EnqueueSql(i, s)
    BY <1>2 DEF EnqueueSql, Known, TInv, ExecutionIsExclusive, With
  <1> QED  BY <1>1, <1>2 DEF EnqueueMemory

LEMMA ClaimShape ==
    ASSUME TInv, ClaimNextTurn
    PROVE  TakesOne
  <1>1. PICK i \in Earliest : turns' = Started({i})
    BY DEF ClaimNextTurn
  <1>2. ~Locked' /\ Processing = {}
    BY DEF ClaimNextTurn, MayTake, Locked
  <1> QED  BY <1>1, <1>2, StartedIs DEF TInv

LEMMA CompleteShape ==
    ASSUME TInv, NEW i \in Input, CompleteTurn(i)
    PROVE  TakesNone \/ TakesOne
  <1>1. i \in DOMAIN turns /\ lock' = lock
    BY DEF CompleteTurn, Known
  <1>2. TurnTypeOK /\ InboxInv /\ ExecutionIsExclusive
    BY DEF TInv
  <1>3. CASE turns' = Completed(i)
    <2>1. SameKeys
      BY <1>1, <1>2, <1>3 DEF Completed, SameKeys, TurnTypeOK, TurnShape
    <2>2. \A k \in DOMAIN turns : turns'[k].status \in {turns[k].status, "completed"}
      BY <1>1, <1>3 DEF Completed
    <2>3. Locked' => With({"accepted", "processing"})' = {}
      BY <1>1, <1>2, <2>1, <2>2 DEF ExecutionIsExclusive, With, Locked, SameKeys
    <2> QED  BY <2>1, <2>2, <2>3 DEF TakesNone
  <1>4. CASE turns' # Completed(i)
    <2>1. PICK j \in NextAfter(i) : turns' = [Completed(i) EXCEPT ![j].status = "processing"]
      BY <1>4 DEF CompleteTurn
    <2>2. ~Locked' /\ Processing \ {i} = {}
      BY <1>1, <1>4 DEF CompleteTurn, Locked
    <2>3. /\ j \in With(Pending) /\ j # i /\ j \in DOMAIN turns
          /\ store = "sql" => \A k \in With(Pending) \ {i} : turns[j].inbox <= turns[k].inbox
      BY <2>1 DEF NextAfter, With
    <2>4. SameKeys
      BY <1>1, <1>2, <2>1, <2>3 DEF Completed, SameKeys, TurnTypeOK, TurnShape, Active
    <2>5. \A k \in DOMAIN turns : k \notin {i, j} => turns'[k] = turns[k]
      BY <1>1, <2>1, <2>3 DEF Completed
    <2>6. turns'[i].status = "completed"
      BY <1>1, <1>2, <2>1, <2>3 DEF Completed, TurnTypeOK
    <2>7. ASSUME NEW k \in DOMAIN turns, turns'[k].status = "processing" PROVE k = j
      BY <2>2, <2>5, <2>6, <2>7 DEF Processing, With
    <2>8. ASSUME store = "sql", NEW k \in DOMAIN turns, k # j, turns'[k].status \in Pending
          PROVE  turns[j].inbox < turns[k].inbox
      <3>1. k # i /\ k \in With(Pending)
        BY <2>5, <2>6, <2>8 DEF Pending, With
      <3>2. turns[j].inbox <= turns[k].inbox /\ turns[j].inbox # turns[k].inbox
        BY <1>2, <2>3, <2>8, <3>1 DEF InboxInv
      <3>3. turns[j].inbox \in Nat /\ turns[k].inbox \in Nat
        BY <1>2, <2>3 DEF TurnTypeOK
      <3> QED  BY <3>2, <3>3
    <2> QED  BY <2>2, <2>3, <2>4, <2>7, <2>8 DEF TakesOne
  <1> QED  BY <1>3, <1>4

LEMMA AcquireShape ==
    ASSUME TInv, NEW w \in Compactor, AcquireLease(w)
    PROVE  TakesNone
  <1>1. turns' = Demoted /\ Processing = {} /\ TurnTypeOK
    BY DEF AcquireLease, TInv
  <1>2. DOMAIN turns' = DOMAIN turns /\ \A i \in DOMAIN turns :
            /\ turns'[i].inbox = turns[i].inbox
            /\ turns'[i].status = IF turns[i].status = "accepted" THEN "queued" ELSE turns[i].status
            /\ turns'[i] \in TurnShape
    BY <1>1 DEF Demoted, TurnTypeOK, TurnShape, Active, Pending
  <1>3. \A i \in DOMAIN turns : turns[i].status # "processing"
    BY <1>1 DEF Processing, With
  <1> QED  BY <1>2, <1>3 DEF TakesNone, SameKeys, With

LEMMA FinishShape ==
    ASSUME TInv, NEW w \in Compactor, NEW claim \in BOOLEAN, FinishCompaction(w, claim)
    PROVE  TakesNone \/ TakesOne
  <1>1. TurnTypeOK /\ InboxInv /\ ExecutionIsExclusive /\ Locked
    BY DEF TInv, FinishCompaction, HoldsLease, Locked
  <1>2. SameKeys \/ turns' # turns
    BY <1>1 DEF SameKeys, TurnTypeOK, TurnShape
  <1>3. CASE turns' = turns
    BY <1>1, <1>2, <1>3 DEF TakesNone, ExecutionIsExclusive, With
  <1>4. CASE turns' # turns
    <2>1. lock' = Free /\ turns' = Started(Earliest) /\ Earliest # {} /\ Processing = {}
      BY <1>4 DEF FinishCompaction, NextTaken
    <2>2. ~Locked'
      BY <2>1 DEF Locked, Free
    <2>3. PICK j \in Earliest : TRUE
      BY <2>1
    <2>4. Earliest = {j}
      BY <1>1, <2>3, OneEarliest
    <2> QED  BY <1>1, <2>1, <2>2, <2>4, StartedIs
  <1> QED  BY <1>3, <1>4

LEMMA TurnsShape ==
    ASSUME TInv, [TNext]_turnVars
    PROVE  Inserts \/ TakesNone \/ TakesOne \/ Idles
           \/ (turns' = turns /\ lock' = [lock EXCEPT !.live = FALSE])
  <1>1. ASSUME NEW w \in Compactor, NEW claim \in BOOLEAN,
               FinishWithEvent(w, claim) \/ FinishSilently(w, claim)
        PROVE  TakesNone \/ TakesOne
    BY <1>1, FinishShape DEF FinishWithEvent, FinishSilently
  <1>2. CASE ExpireLease
    BY <1>2 DEF ExpireLease
  <1>3. ASSUME NEW w \in Writer, WriterStep(w) PROVE Idles
    BY <1>3 DEF WriterStep, queueVars, Idles
  <1>4. CASE UNCHANGED turnVars
    BY <1>4 DEF turnVars, queueVars, Idles
  <1>5. ASSUME NEW i \in Input, NEW s \in Pending, EnqueueSql(i, s) PROVE Inserts \/ TakesNone
    BY <1>5, EnqueueShape
  <1>6. ASSUME NEW i \in Input, EnqueueMemory(i) PROVE Inserts \/ TakesNone
    <2>1. "queued" \in Pending
      BY DEF Pending
    <2> QED  BY <1>6, <2>1, EnqueueShape
  <1>7. ASSUME NEW c \in Tab, NEW i \in Input, RegisterNew(c, i) \/ RegisterAnswered(c, i)
        PROVE  Inserts \/ Idles
    BY <1>7, RegisterShape
  <1>8. ASSUME NEW i \in Input, CompleteTurn(i) PROVE TakesNone \/ TakesOne
    BY <1>8, CompleteShape
  <1>9. ASSUME NEW w \in Compactor, AcquireLease(w) PROVE TakesNone
    BY <1>9, AcquireShape
  <1>10. ASSUME ClaimNextTurn PROVE TakesOne
    BY <1>10, ClaimShape
  <1> QED  BY <1>1, <1>2, <1>3, <1>4, <1>5, <1>6, <1>7, <1>8, <1>9, <1>10 DEF TNext

-----------------------------------------------------------------------------
(* The turns.                                                               *)

LEMMA InsertKeepsInbox ==
    ASSUME TInv, Inserts
    PROVE  /\ DOMAIN turns' \subseteq Input
           /\ \A k \in DOMAIN turns' : turns'[k] \in TurnShape
           /\ InboxInv'
           /\ ExecutionIsExclusive'
  <1>1. PICK i \in Input \ DOMAIN turns, s \in Pending :
            turns' = Inserted(i, s) /\ (Locked => s = "queued")
    BY DEF Inserts
  <1> DEFINE C == Cardinality(DOMAIN turns)
  <1>2. TurnTypeOK /\ InboxInv /\ ExecutionIsExclusive
    BY DEF TInv
  <1>3. C \in Nat /\ IsFiniteSet(DOMAIN turns)
    BY <1>2, FS_CardinalityType DEF InboxInv
  <1>4. DOMAIN turns' = DOMAIN turns \cup {i}
    BY <1>1 DEF Inserted
  <1>5. IsFiniteSet(DOMAIN turns') /\ Cardinality(DOMAIN turns') = C + 1
    BY <1>1, <1>3, <1>4, FS_AddElement
  <1>6. turns'[i] = [status |-> s, inbox |-> C + 1]
        /\ \A k \in DOMAIN turns : turns'[k] = turns[k]
    BY <1>1 DEF Inserted
  <1> HIDE DEF C
  <1>7. \A k \in DOMAIN turns : turns[k] \in TurnShape /\ turns[k].inbox \in 1 .. C
    BY <1>2 DEF TurnTypeOK, TurnShape, InboxInv, C
  <1>8. turns'[i] \in TurnShape /\ turns'[i].inbox = C + 1 /\ turns'[i].status = s
    BY <1>3, <1>6 DEF TurnShape, Active
  <1>9. \A k \in DOMAIN turns' : turns'[k] \in TurnShape
    BY <1>4, <1>6, <1>7, <1>8
  <1>10. \A k \in DOMAIN turns' : turns'[k].inbox \in 1 .. C + 1
    BY <1>3, <1>4, <1>6, <1>7, <1>8
  <1>11. \A k, l \in DOMAIN turns' : turns'[k].inbox = turns'[l].inbox => k = l
    <2>1. \A k \in DOMAIN turns : turns'[k].inbox # C + 1
      BY <1>3, <1>6, <1>7
    <2>2. \A k, l \in DOMAIN turns : turns'[k].inbox = turns'[l].inbox => k = l
      BY <1>2, <1>6 DEF InboxInv
    <2> QED  BY <1>4, <1>8, <2>1, <2>2
  <1>12. InboxInv'
    BY <1>5, <1>10, <1>11 DEF InboxInv
  <1>13. Processing' = Processing
    BY <1>1, <1>4, <1>6, <1>8 DEF Processing, With, Pending
  <1>14. Locked' = Locked /\ (Locked => With({"accepted", "processing"})' = With({"accepted", "processing"}))
    BY <1>1, <1>4, <1>6, <1>8 DEF Inserts, Locked, With
  <1>15. ExecutionIsExclusive'
    BY <1>2, <1>13, <1>14 DEF ExecutionIsExclusive
  <1> QED  BY <1>1, <1>2, <1>4, <1>9, <1>12, <1>15 DEF TurnTypeOK

LEMMA SameKeysKeepsInbox ==
    ASSUME TInv, SameKeys
    PROVE  /\ DOMAIN turns' \subseteq Input
           /\ \A k \in DOMAIN turns' : turns'[k] \in TurnShape
           /\ InboxInv'
  BY DEF TInv, SameKeys, TurnTypeOK, InboxInv

LEMMA TurnsStep ==
    ASSUME TInv, [TNext]_turnVars
    PROVE  /\ DOMAIN turns' \subseteq Input
           /\ \A k \in DOMAIN turns' : turns'[k] \in TurnShape
           /\ InboxInv'
           /\ ExecutionIsExclusive'
  <1>1. CASE Inserts
    BY <1>1, InsertKeepsInbox
  <1>2. CASE TakesNone
    <2>1. ExecutionIsExclusive'
      BY <1>2 DEF TakesNone, SameKeys, TInv, ExecutionIsExclusive, Processing, With
    <2> QED  BY <1>2, <2>1, SameKeysKeepsInbox DEF TakesNone
  <1>3. CASE TakesOne
    <2>1. ExecutionIsExclusive'
      BY <1>3 DEF TakesOne, SameKeys, ExecutionIsExclusive, Processing, With
    <2> QED  BY <1>3, <2>1, SameKeysKeepsInbox DEF TakesOne
  <1>4. ASSUME turns' = turns, lock'.state = lock.state
        PROVE  /\ DOMAIN turns' \subseteq Input
               /\ \A k \in DOMAIN turns' : turns'[k] \in TurnShape
               /\ InboxInv'
               /\ ExecutionIsExclusive'
    <2>1. Processing' = Processing /\ Locked' = Locked
          /\ With({"accepted", "processing"})' = With({"accepted", "processing"})
      BY <1>4 DEF Processing, With, Locked
    <2> QED  BY <1>4, <2>1 DEF TInv, TurnTypeOK, TurnShape, InboxInv, ExecutionIsExclusive
  <1>5. (lock' = [lock EXCEPT !.live = FALSE]) => lock'.state = lock.state
    BY DEF TInv, TurnTypeOK
  <1> QED  BY <1>1, <1>2, <1>3, <1>4, <1>5, TurnsShape DEF Idles

LEMMA OrderStep ==
    ASSUME TInv, [TNext]_turnVars, store = "sql"
    PROVE  TakesEarliest
  <1>1. CASE Inserts
    BY <1>1 DEF Inserts, Inserted, TakesEarliest
  <1>2. CASE TakesNone
    BY <1>2 DEF TakesNone, TakesEarliest
  <1>3. CASE TakesOne
    BY <1>3 DEF TakesOne, SameKeys, TakesEarliest, Pending
  <1>4. CASE turns' = turns
    BY <1>4 DEF TakesEarliest
  <1> QED  BY <1>1, <1>2, <1>3, <1>4, TurnsShape DEF Idles

-----------------------------------------------------------------------------
(* The events of the turns.                                                 *)

LEMMA RowsAppended ==
    ASSUME LogShape, NEW es, Len(es) \in Nat \ {0}, AppendFrom(LastNumber + 1, es)
    PROVE  /\ \A n \in DOMAIN log : n \in DOMAIN log' /\ log'[n] = log[n]
           /\ \A n \in DOMAIN log' : n \in DOMAIN log
                  \/ \E i \in 1 .. Len(es) : n = LastNumber + i /\ log'[n] = es[i]
           /\ \A i \in 1 .. Len(es) :
                  /\ LastNumber + i \in DOMAIN log' /\ LastNumber + i \notin DOMAIN log
                  /\ log'[LastNumber + i] = es[i]
  <1>1. /\ DOMAIN log = 1 .. LastNumber /\ LastNumber \in Nat
        /\ DOMAIN log' = 1 .. LastNumber + Len(es)
        /\ \A k \in 1 .. LastNumber : log'[k] = log[k]
        /\ \A i \in 1 .. Len(es) : log'[LastNumber + i] = es[i]
    BY AppendAtEnd DEF LogShape
  <1>2. ASSUME NEW n \in DOMAIN log', n \notin DOMAIN log
        PROVE  \E i \in 1 .. Len(es) : n = LastNumber + i /\ log'[n] = es[i]
    <2>1. n - LastNumber \in 1 .. Len(es) /\ LastNumber + (n - LastNumber) = n
      BY <1>1, <1>2
    <2>2. log'[n] = es[n - LastNumber]
      BY <1>1, <2>1
    <2> QED  BY <2>1, <2>2
  <1> QED  BY <1>1, <1>2

\* Rows that are no notes leave the event writers alone.
LEMMA QueueRowsKeep ==
    ASSUME EInv, NEW es, Len(es) \in Nat \ {0}, AppendFrom(LastNumber + 1, es),
           \A i \in 1 .. Len(es) : es[i].kind # "note", UNCHANGED <<expect, notes>>
    PROVE  EInv'
  <1>1. LogShape /\ NotesInv
    BY DEF EInv
  <1>2. LogShape'
    BY <1>1, AppendAtEnd
  <1>3. \A w \in Writer : NotesOf(w)' = NotesOf(w)
    BY <1>1, OthersAppended
  <1> QED  BY <1>1, <1>2, <1>3 DEF EInv, NotesInv

LEMMA AnnouncedRows ==
    ASSUME NEW i
    PROVE  /\ Len(Announced(i)) = 2 /\ Len(Announced(i)) \in Nat \ {0}
           /\ 1 .. Len(Announced(i)) = {1, 2}
           /\ Announced(i)[1] = [kind |-> "input", of |-> i]
           /\ Announced(i)[2] = [kind |-> "message", of |-> i]
           /\ \A k \in 1 .. Len(Announced(i)) : Announced(i)[k].kind \in {"input", "message"}
  <1> DEFINE es == Announced(i)
  <1>1. /\ Len(es) = 2 /\ 1 .. 2 = {1, 2}
        /\ es[1] = [kind |-> "input", of |-> i] /\ es[2] = [kind |-> "message", of |-> i]
    BY DEF Announced
  <1> HIDE DEF es
  <1>2. \A k \in {1, 2} : es[k].kind \in {"input", "message"}
    BY <1>1
  <1> QED  BY <1>1, <1>2 DEF es

LEMMA TerminalRow ==
    ASSUME NEW w
    PROVE  /\ Len(Terminal(w)) = 1 /\ Len(Terminal(w)) \in Nat \ {0}
           /\ 1 .. Len(Terminal(w)) = {1}
           /\ Terminal(w)[1] = [kind |-> "outcome", of |-> held[w]]
           /\ \A k \in 1 .. Len(Terminal(w)) : Terminal(w)[k].kind = "outcome"
  <1> DEFINE es == Terminal(w)
  <1>1. Len(es) = 1 /\ 1 .. 1 = {1} /\ es[1] = [kind |-> "outcome", of |-> held[w]]
    BY DEF Terminal
  <1> HIDE DEF es
  <1>2. \A k \in {1} : es[k].kind = "outcome"
    BY <1>1
  <1> QED  BY <1>1, <1>2 DEF es

LEMMA EventsStep ==
    ASSUME TInv, [TNext]_turnVars
    PROVE  EInv'
  <1>0. EInv /\ expect \in [Writer -> Nat]
    BY DEF TInv, EInv, NotesInv
  <1>1. ASSUME NEW c \in Tab, NEW i \in Input, RegisterNew(c, i) PROVE EInv'
    <2> DEFINE es == Announced(i)
    <2>1. AppendFrom(LastNumber + 1, es) /\ UNCHANGED <<expect, notes>>
      BY <1>1 DEF RegisterNew, FirstNumber
    <2>2. Len(es) \in Nat \ {0} /\ \A k \in 1 .. Len(es) : es[k].kind # "note"
      <3>1. \A k \in 1 .. Len(es) : es[k].kind \in {"input", "message"}
        BY AnnouncedRows
      <3>2. Len(es) \in Nat \ {0}
        BY AnnouncedRows
      <3> HIDE DEF es
      <3> QED  BY <3>1, <3>2
    <2> HIDE DEF es
    <2> QED  BY <1>0, <2>1, <2>2, QueueRowsKeep
  <1>2. ASSUME NEW w \in Compactor, NEW claim \in BOOLEAN, FinishWithEvent(w, claim) PROVE EInv'
    <2> DEFINE es == Terminal(w)
    <2>1. AppendFrom(LastNumber + 1, es) /\ UNCHANGED <<expect, notes>>
      BY <1>2 DEF FinishWithEvent, FirstNumber
    <2>2. Len(es) \in Nat \ {0} /\ \A k \in 1 .. Len(es) : es[k].kind # "note"
      <3>1. \A k \in 1 .. Len(es) : es[k].kind = "outcome"
        BY TerminalRow
      <3>2. Len(es) \in Nat \ {0}
        BY TerminalRow
      <3> HIDE DEF es
      <3> QED  BY <3>1, <3>2
    <2> HIDE DEF es
    <2> QED  BY <1>0, <2>1, <2>2, QueueRowsKeep
  <1>3. ASSUME NEW w \in Writer, WriterStep(w) PROVE EInv'
    BY <1>0, <1>3, ReadKeeps, CreateKeeps DEF WriterStep
  <1>4. CASE UNCHANGED eventVars
    BY <1>0, <1>4, SameLog DEF eventVars
  <1> QED  BY <1>1, <1>2, <1>3, <1>4
           DEF TNext, RegisterAnswered, EnqueueSql, EnqueueMemory, CompleteTurn, ClaimNextTurn,
               AcquireLease, ExpireLease, FinishSilently, turnVars

-----------------------------------------------------------------------------
(* Leases and their outcomes.                                               *)

\* Rows that are no outcomes leave the outcomes where they are.
LEMMA OtherRows ==
    ASSUME LogShape, NEW es, Len(es) \in Nat \ {0}, AppendFrom(LastNumber + 1, es),
           \A i \in 1 .. Len(es) : es[i].kind # "outcome"
    PROVE  Outcomes' = Outcomes /\ \A n \in Outcomes : log'[n] = log[n]
  BY RowsAppended DEF Outcomes

LEMMA SameOutcomes ==
    ASSUME TInv, store' = store, leases' = leases, lock'.token = lock.token,
           lock'.state = "active" => lock.state = "active",
           Outcomes' = Outcomes, \A n \in Outcomes : log'[n] = log[n]
    PROVE  TokenInv'
  BY DEF TInv, TokenInv, LeaseEndsOnce

LEMMA FinishKeepsTokens ==
    ASSUME TInv, NEW w \in Compactor, NEW claim \in BOOLEAN, FinishWithEvent(w, claim)
    PROVE  TokenInv'
  <1>1. LogShape /\ TokenInv /\ TurnTypeOK
    BY DEF TInv, EInv
  <1>2. /\ AppendFrom(LastNumber + 1, Terminal(w)) /\ store' = store /\ leases' = leases
        /\ lock.state = "active" /\ held[w] = lock.token
        /\ lock' = Free \/ lock' = AwaitingRetry
    BY DEF FinishWithEvent, FinishCompaction, HoldsLease, FirstNumber
  <1>3. /\ lock'.token \in 0 .. leases
        /\ store = "sql" => lock'.state # "active"
    BY <1>1, <1>2 DEF Free, AwaitingRetry, TokenInv, TurnTypeOK
  <1> DEFINE new == LastNumber + 1
  <1>4. /\ Outcomes' = Outcomes \cup {new} /\ new \notin Outcomes
        /\ log'[new].of = lock.token
        /\ \A n \in Outcomes : log'[n] = log[n]
    <2>1. /\ \A n \in DOMAIN log : n \in DOMAIN log' /\ log'[n] = log[n]
          /\ \A n \in DOMAIN log' : n \in DOMAIN log \/ n = new
          /\ new \in DOMAIN log' /\ new \notin DOMAIN log
          /\ log'[new] = [kind |-> "outcome", of |-> lock.token]
      <3> DEFINE es == Terminal(w)
      <3>1. Len(es) \in Nat \ {0} /\ 1 .. Len(es) = {1}
            /\ es[1] = [kind |-> "outcome", of |-> lock.token]
        BY <1>2, TerminalRow
      <3>2. AppendFrom(LastNumber + 1, es)
        BY <1>2
      <3> HIDE DEF es
      <3> QED  BY <1>1, <3>1, <3>2, RowsAppended
    <2> HIDE DEF new
    <2> QED  BY <2>1 DEF Outcomes
  <1> HIDE DEF new
  <1>5. \A n \in Outcomes' : log'[n].of \in 0 .. leases
    BY <1>1, <1>4 DEF TokenInv
  <1>6. store = "sql" => \A m, n \in Outcomes' : log'[m].of = log'[n].of => m = n
    <2> SUFFICES ASSUME store = "sql", NEW m \in Outcomes', NEW n \in Outcomes',
                        log'[m].of = log'[n].of
                 PROVE  m = n
      OBVIOUS
    <2>1. \A k \in Outcomes : log'[k].of # log'[new].of
      BY <1>1, <1>2, <1>4 DEF TokenInv
    <2>2. \A k, l \in Outcomes : log'[k].of = log'[l].of => k = l
      BY <1>1, <1>4 DEF TokenInv, LeaseEndsOnce
    <2> QED  BY <1>4, <2>1, <2>2
  <1> QED  BY <1>2, <1>3, <1>5, <1>6 DEF TokenInv, LeaseEndsOnce

LEMMA AcquireKeepsTokens ==
    ASSUME TInv, NEW w \in Compactor, AcquireLease(w)
    PROVE  TokenInv'
  <1>1. TokenInv /\ leases \in Nat
    BY DEF TInv, TurnTypeOK
  <1>2. leases' = leases + 1 /\ lock'.token = leases + 1 /\ log' = log /\ store' = store
    BY DEF AcquireLease, eventVars
  <1>3. Outcomes' = Outcomes
    BY <1>2 DEF Outcomes
  <1>4. \A n \in Outcomes : log[n].of \in 0 .. leases
    BY <1>1 DEF TokenInv
  <1>5. lock'.token \in 0 .. leases'
    BY <1>1, <1>2
  <1>6. \A n \in Outcomes' : log'[n].of \in 0 .. leases' /\ log'[n].of # lock'.token
    BY <1>1, <1>2, <1>3, <1>4
  <1>7. LeaseEndsOnce'
    BY <1>1, <1>2, <1>3 DEF TokenInv, LeaseEndsOnce
  <1> QED  BY <1>5, <1>6, <1>7 DEF TokenInv

LEMMA TokensStep ==
    ASSUME TInv, [TNext]_turnVars
    PROVE  TokenInv'
  <1>0. LogShape /\ TurnTypeOK
    BY DEF TInv, EInv
  <1>1. ASSUME NEW c \in Tab, NEW i \in Input, RegisterNew(c, i) PROVE TokenInv'
    <2> DEFINE es == Announced(i)
    <2>1. AppendFrom(LastNumber + 1, es) /\ UNCHANGED <<store, lock, leases>>
      BY <1>1 DEF RegisterNew, FirstNumber
    <2>2. Len(es) \in Nat \ {0} /\ \A k \in 1 .. Len(es) : es[k].kind # "outcome"
      <3>1. \A k \in 1 .. Len(es) : es[k].kind \in {"input", "message"}
        BY AnnouncedRows
      <3>2. Len(es) \in Nat \ {0}
        BY AnnouncedRows
      <3> HIDE DEF es
      <3> QED  BY <3>1, <3>2
    <2> HIDE DEF es
    <2> QED  BY <1>0, <2>1, <2>2, OtherRows, SameOutcomes
  <1>2. ASSUME NEW w \in Writer, CreateEvent(w), UNCHANGED queueVars PROVE TokenInv'
    <2> DEFINE es == << [kind |-> "note", of |-> w] >>
    <2>1. AppendFrom(LastNumber + 1, es) /\ UNCHANGED <<store, lock, leases>>
      BY <1>2 DEF CreateEvent, Numbered, queueVars
    <2>2. Len(es) \in Nat \ {0} /\ \A k \in 1 .. Len(es) : es[k].kind # "outcome"
      OBVIOUS
    <2> HIDE DEF es
    <2> QED  BY <1>0, <2>1, <2>2, OtherRows, SameOutcomes
  <1>3. ASSUME log' = log, UNCHANGED <<store, leases>>, lock'.token = lock.token,
               lock'.state = "active" => lock.state = "active"
        PROVE  TokenInv'
    BY <1>3, SameOutcomes DEF Outcomes
  <1>4. ASSUME UNCHANGED <<store, leases, lock>>, UNCHANGED log PROVE TokenInv'
    BY <1>3, <1>4
  <1>5. ASSUME NEW w \in Compactor, NEW claim \in BOOLEAN, FinishSilently(w, claim)
        PROVE  TokenInv'
    <2>1. /\ log' = log /\ UNCHANGED <<store, leases>>
          /\ lock.state = "active" /\ (lock' = Free \/ lock' = AwaitingRetry)
      BY <1>5 DEF FinishSilently, FinishCompaction, HoldsLease, eventVars
    <2>2. CASE lock' = AwaitingRetry
      BY <1>0, <1>3, <2>1, <2>2 DEF AwaitingRetry, TurnTypeOK
    <2>3. CASE lock' = Free
      <3>1. lock'.token = 0 /\ lock'.state = "idle" /\ Outcomes' = Outcomes
        BY <2>1, <2>3 DEF Free, Outcomes
      <3> QED  BY <1>0, <2>1, <3>1 DEF TInv, TokenInv, LeaseEndsOnce, TurnTypeOK
    <2> QED  BY <2>1, <2>2, <2>3
  <1>6. CASE ExpireLease
    BY <1>0, <1>3, <1>6 DEF ExpireLease, eventVars, TurnTypeOK
  <1>7. ASSUME NEW w \in Writer, WriterStep(w) PROVE TokenInv'
    BY <1>2, <1>4, <1>7 DEF WriterStep, ReadLatest, queueVars
  <1>8. ASSUME NEW w \in Compactor, AcquireLease(w) \/ \E claim \in BOOLEAN : FinishWithEvent(w, claim)
        PROVE  TokenInv'
    BY <1>8, AcquireKeepsTokens, FinishKeepsTokens
  <1>9. ASSUME NEW i \in Input, EnqueueMemory(i) \/ CompleteTurn(i)
        PROVE  TokenInv'
    BY <1>4, <1>9 DEF EnqueueMemory, CompleteTurn, eventVars
  <1>10. CASE ClaimNextTurn \/ UNCHANGED turnVars
    BY <1>4, <1>10 DEF ClaimNextTurn, turnVars, queueVars, eventVars
  <1>11. ASSUME NEW i \in Input, NEW s \in Pending, EnqueueSql(i, s) PROVE TokenInv'
    BY <1>4, <1>11 DEF EnqueueSql, eventVars
  <1>12. ASSUME NEW c \in Tab, NEW i \in Input, RegisterAnswered(c, i) PROVE TokenInv'
    BY <1>4, <1>12 DEF RegisterAnswered, eventVars
  <1> QED  BY <1>1, <1>5, <1>6, <1>7, <1>8, <1>9, <1>10, <1>11, <1>12 DEF TNext

-----------------------------------------------------------------------------
(* The invariant.                                                           *)

LEMMA TypesStep ==
    ASSUME TInv, [TNext]_turnVars
    PROVE  TurnTypeOK'
  <1>0. TurnTypeOK
    BY DEF TInv
  <1> DEFINE Rest ==
          /\ store' \in {"sql", "memory"}
          /\ lock' \in [state : {"idle", "active", "retry_required"},
                        owner : Compactor \cup {"nobody"}, token : Nat, live : BOOLEAN]
          /\ held' \in [Compactor -> Nat]
          /\ leases' \in Nat /\ version' \in Nat
          /\ stale' \subseteq Tab
  <1>1. ASSUME NEW c \in Tab, NEW i \in Input, RegisterNew(c, i) \/ RegisterAnswered(c, i)
        PROVE  Rest
    BY <1>0, <1>1 DEF RegisterNew, RegisterAnswered, TurnTypeOK
  <1>2. ASSUME NEW i \in Input, NEW s \in Pending, EnqueueSql(i, s)
        PROVE  Rest
    BY <1>0, <1>2 DEF EnqueueSql, TurnTypeOK
  <1>3. ASSUME NEW i \in Input, EnqueueMemory(i) \/ CompleteTurn(i)
        PROVE  Rest
    BY <1>0, <1>3 DEF EnqueueMemory, CompleteTurn, TurnTypeOK
  <1>4. ASSUME NEW w \in Compactor, AcquireLease(w)
        PROVE  Rest
    BY <1>0, <1>4 DEF AcquireLease, TurnTypeOK
  <1>5. ASSUME NEW w \in Compactor, NEW claim \in BOOLEAN, FinishCompaction(w, claim)
        PROVE  Rest
    <2> DEFINE Locks == [state : {"idle", "active", "retry_required"},
                         owner : Compactor \cup {"nobody"}, token : Nat, live : BOOLEAN]
    <2>1. lock \in Locks
      BY <1>0 DEF TurnTypeOK
    <2>2. Free \in Locks /\ AwaitingRetry \in Locks
      BY <2>1 DEF Free, AwaitingRetry
    <2>3. lock' \in Locks /\ UNCHANGED <<store, held, leases, version, stale>>
      BY <1>5, <2>2 DEF FinishCompaction
    <2> QED  BY <1>0, <2>3 DEF TurnTypeOK
  <1>6. ASSUME ExpireLease
        PROVE  Rest
    BY <1>0, <1>6 DEF ExpireLease, TurnTypeOK
  <1>7. ASSUME NEW w \in Writer, WriterStep(w)
        PROVE  Rest
    BY <1>0, <1>7 DEF WriterStep, queueVars, TurnTypeOK
  <1>8. ASSUME ClaimNextTurn \/ UNCHANGED turnVars
        PROVE  Rest
    BY <1>0, <1>8 DEF ClaimNextTurn, turnVars, queueVars, TurnTypeOK
  <1>9. Rest
    BY <1>1, <1>2, <1>3, <1>4, <1>5, <1>6, <1>7, <1>8 DEF TNext, FinishWithEvent, FinishSilently
  <1> QED  BY <1>9, TurnsStep DEF TurnTypeOK, TurnShape

LEMMA TInvInit == TInit => TInv
  <1> SUFFICES ASSUME TInit PROVE TInv
    OBVIOUS
  <1>1. DOMAIN turns = {} /\ DOMAIN log = {}
    BY DEF TInit, EInit
  <1>2. With({"accepted", "processing"}) = {} /\ Processing = {} /\ Outcomes = {}
    BY <1>1 DEF With, Processing, Outcomes
  <1>3. EInv
    BY EInvInit DEF TInit
  <1>4. InboxInv
    BY <1>1, FS_EmptySet DEF InboxInv
  <1>5. ExecutionIsExclusive
    BY <1>2 DEF ExecutionIsExclusive
  <1>6. TokenInv
    BY <1>2 DEF TInit, Free, TokenInv, LeaseEndsOnce
  <1>7. TurnTypeOK
    BY <1>1 DEF TInit, Free, TurnTypeOK
  <1> QED  BY <1>3, <1>4, <1>5, <1>6, <1>7 DEF TInv

LEMMA TInvStep == TInv /\ [TNext]_turnVars => TInv'
  BY TypesStep, TurnsStep, EventsStep, TokensStep DEF TInv

\* The invariant: the inbox, the log, the one execution and the tokens agree.
THEOREM TInvHolds == TSpec => []TInv
  BY TInvInit, TInvStep, PTL DEF TSpec

\* One turn at a time, and none under a lease or before the retry of a
\* compaction: however many tabs, compactors and late callers there are, no
\* order of claim_next_turn, complete_turn, acquire and finish starts a second.
THEOREM ExecutionIsExclusiveHolds == TSpec => []ExecutionIsExclusive
  <1>1. TInv => ExecutionIsExclusive
    BY DEF TInv
  <1> QED  BY <1>1, TInvHolds, PTL

\* The fencing token ends with its lease: in the SQL repository a compaction
\* has one published outcome, whoever calls finish again.
THEOREM LeaseEndsOnceHolds == TSpec => []LeaseEndsOnce
  <1>1. TInv => LeaseEndsOnce
    BY DEF TInv, TokenInv
  <1> QED  BY <1>1, TInvHolds, PTL

\* The SQL repository executes the turns in the order in which they arrived,
\* by whichever of the three operations a turn is taken.
THEOREM InboxOrderHolds == TSpec => InboxOrder
  <1>1. TInv /\ [TNext]_turnVars => (store = "sql" => TakesEarliest)
    BY OrderStep
  <1> QED  BY <1>1, TInvHolds, PTL DEF TSpec, InboxOrder

\* No event of a writer is lost among those of the queue either.
THEOREM NoEventLostInQueue == TSpec => []NoEventLost
  <1>1. TInv => NoEventLost
    BY EInvImplies DEF TInv
  <1> QED  BY <1>1, TInvHolds, PTL

-----------------------------------------------------------------------------
(* Registration.                                                            *)

RowsOf(kind) == {n \in DOMAIN log : log[n].kind = kind}

LEMMA RowsAreFinite ==
    ASSUME LogShape, NEW kind
    PROVE  IsFiniteSet(RowsOf(kind))
  BY FS_Interval, FS_Subset, 1 \in Int DEF LogShape, RowsOf

\* Other rows do not disturb what a registration has written.
LEMMA SameRegistrations ==
    ASSUME TInv, RegistrationIsWhole, version' = version, DOMAIN turns \subseteq DOMAIN turns',
           \A n \in DOMAIN log : n \in DOMAIN log' /\ log'[n] = log[n],
           \A n \in DOMAIN log' : n \notin DOMAIN log => log'[n].kind \notin {"input", "message"}
    PROVE  RegistrationIsWhole'
  <1>1. RowsOf("input")' = RowsOf("input") /\ RowsOf("message")' = RowsOf("message")
    BY DEF RowsOf
  <1> QED  BY <1>1 DEF RegistrationIsWhole, RowsOf, Known

LEMMA RegisterIsWhole ==
    ASSUME TInv, RegistrationIsWhole, NEW c \in Tab, NEW i \in Input, RegisterNew(c, i)
    PROVE  RegistrationIsWhole'
  <1> DEFINE a == LastNumber + 1
             b == LastNumber + 2
  <1>1. LogShape /\ version \in Nat
    BY DEF TInv, EInv, TurnTypeOK
  <1>2. /\ version' = version + 1 /\ i \notin DOMAIN turns
        /\ DOMAIN turns' = DOMAIN turns \cup {i}
    BY DEF RegisterNew, Known, Inserted
  <1>3. /\ \A n \in DOMAIN log : n \in DOMAIN log' /\ log'[n] = log[n]
        /\ \A n \in DOMAIN log' : n \in DOMAIN log \/ n = a \/ n = b
        /\ a \in DOMAIN log' /\ a \notin DOMAIN log /\ b \in DOMAIN log' /\ b \notin DOMAIN log
        /\ log'[a] = [kind |-> "input", of |-> i] /\ log'[b] = [kind |-> "message", of |-> i]
    <2> DEFINE es == Announced(i)
    <2>1. AppendFrom(LastNumber + 1, es)
      BY DEF RegisterNew, FirstNumber
    <2>2. Len(es) \in Nat \ {0} /\ 1 .. Len(es) = {1, 2}
          /\ es[1] = [kind |-> "input", of |-> i] /\ es[2] = [kind |-> "message", of |-> i]
      BY AnnouncedRows
    <2> HIDE DEF es
    <2>3. /\ \A n \in DOMAIN log : n \in DOMAIN log' /\ log'[n] = log[n]
          /\ \A n \in DOMAIN log' : n \in DOMAIN log
                 \/ \E j \in 1 .. Len(es) : n = LastNumber + j /\ log'[n] = es[j]
          /\ \A j \in 1 .. Len(es) :
                 /\ LastNumber + j \in DOMAIN log' /\ LastNumber + j \notin DOMAIN log
                 /\ log'[LastNumber + j] = es[j]
      BY <1>1, <2>1, <2>2, RowsAppended, Zenon
    <2> QED  BY <2>2, <2>3
  <1>4. a + 1 = b /\ a # b
    BY <1>1 DEF LogShape
  <1> HIDE DEF a, b
  <1>5. RowsOf("input")' = RowsOf("input") \cup {a} /\ a \notin RowsOf("input")
    BY <1>3, <1>4 DEF RowsOf
  <1>6. RowsOf("message")' = RowsOf("message") \cup {b} /\ b \notin RowsOf("message")
    BY <1>3, <1>4 DEF RowsOf
  <1>7. version = Cardinality(RowsOf("input")) /\ Cardinality(RowsOf("message")) = version
    BY DEF RegistrationIsWhole, RowsOf
  <1>8. version' = Cardinality(RowsOf("input")') /\ Cardinality(RowsOf("message")') = version'
    BY <1>1, <1>2, <1>5, <1>6, <1>7, RowsAreFinite, FS_AddElement
  <1>9. \A n \in RowsOf("input") :
            /\ log[n].of \in DOMAIN turns
            /\ n + 1 \in DOMAIN log /\ log[n + 1] = [kind |-> "message", of |-> log[n].of]
            /\ \A m \in RowsOf("input") : log[m].of = log[n].of => m = n
    BY DEF RegistrationIsWhole, RowsOf, Known
  <1>10. \A n \in RowsOf("input") : log'[n] = log[n] /\ log[n].of # i
    BY <1>2, <1>3, <1>9 DEF RowsOf
  <1>11. ASSUME NEW n \in RowsOf("input")'
         PROVE  /\ log'[n].of \in DOMAIN turns'
                /\ n + 1 \in DOMAIN log' /\ log'[n + 1] = [kind |-> "message", of |-> log'[n].of]
                /\ \A m \in RowsOf("input")' : log'[m].of = log'[n].of => m = n
    <2>1. CASE n = a
      BY <1>2, <1>3, <1>4, <1>5, <1>10, <2>1
    <2>2. CASE n \in RowsOf("input")
      BY <1>2, <1>3, <1>5, <1>9, <1>10, <2>2
    <2> QED  BY <1>5, <2>1, <2>2
  <1> QED  BY <1>8, <1>11 DEF RegistrationIsWhole, RowsOf, Known

LEMMA WholeStep == TInv /\ RegistrationIsWhole /\ [TNext]_turnVars => RegistrationIsWhole'
  <1> SUFFICES ASSUME TInv, RegistrationIsWhole, [TNext]_turnVars PROVE RegistrationIsWhole'
    OBVIOUS
  <1>0. LogShape
    BY DEF TInv, EInv
  <1>1. DOMAIN turns \subseteq DOMAIN turns'
    BY TurnsShape DEF Inserts, Inserted, TakesNone, TakesOne, SameKeys, Idles
  <1>2. ASSUME NEW c \in Tab, NEW i \in Input, RegisterNew(c, i) PROVE RegistrationIsWhole'
    BY <1>2, RegisterIsWhole
  <1>3. ASSUME NEW w \in Compactor, NEW claim \in BOOLEAN, FinishWithEvent(w, claim)
        PROVE  RegistrationIsWhole'
    <2> DEFINE es == Terminal(w)
    <2>1. AppendFrom(LastNumber + 1, es) /\ version' = version
      BY <1>3 DEF FinishWithEvent, FinishCompaction, FirstNumber
    <2>2. \A k \in 1 .. Len(es) : es[k].kind = "outcome"
      BY TerminalRow
    <2>3. Len(es) \in Nat \ {0}
      BY TerminalRow
    <2> HIDE DEF es
    <2> QED  BY <1>0, <1>1, <2>1, <2>2, <2>3, RowsAppended, SameRegistrations
  <1>4. ASSUME NEW w \in Writer, CreateEvent(w), UNCHANGED queueVars PROVE RegistrationIsWhole'
    <2> DEFINE es == << [kind |-> "note", of |-> w] >>
    <2>1. AppendFrom(LastNumber + 1, es) /\ version' = version
      BY <1>4 DEF CreateEvent, Numbered, queueVars
    <2>2. Len(es) \in Nat \ {0} /\ \A k \in 1 .. Len(es) : es[k].kind = "note"
      OBVIOUS
    <2> HIDE DEF es
    <2> QED  BY <1>0, <1>1, <2>1, <2>2, RowsAppended, SameRegistrations
  <1>5. ASSUME UNCHANGED <<version, log>> PROVE RegistrationIsWhole'
    BY <1>1, <1>5, SameRegistrations
  <1>6. ASSUME NEW w \in Writer, WriterStep(w) PROVE RegistrationIsWhole'
    BY <1>4, <1>5, <1>6 DEF WriterStep, ReadLatest, queueVars
  <1>7. ASSUME NEW c \in Tab, NEW i \in Input, RegisterAnswered(c, i) PROVE RegistrationIsWhole'
    BY <1>5, <1>7 DEF RegisterAnswered, eventVars
  <1>8. ASSUME NEW i \in Input, NEW s \in Pending, EnqueueSql(i, s) PROVE RegistrationIsWhole'
    BY <1>5, <1>8 DEF EnqueueSql, eventVars
  <1>9. ASSUME NEW i \in Input, EnqueueMemory(i) \/ CompleteTurn(i) PROVE RegistrationIsWhole'
    BY <1>5, <1>9 DEF EnqueueMemory, CompleteTurn, eventVars
  <1>10. ASSUME NEW w \in Compactor,
                AcquireLease(w) \/ \E claim \in BOOLEAN : FinishSilently(w, claim)
         PROVE  RegistrationIsWhole'
    BY <1>5, <1>10 DEF AcquireLease, FinishSilently, FinishCompaction, eventVars
  <1>11. CASE ClaimNextTurn \/ ExpireLease \/ UNCHANGED turnVars
    BY <1>5, <1>11 DEF ClaimNextTurn, ExpireLease, turnVars, queueVars, eventVars
  <1> QED  BY <1>2, <1>3, <1>6, <1>7, <1>8, <1>9, <1>10, <1>11 DEF TNext

\* register_user_turn writes all of a registration or none of it: the version
\* counts the inputs, and each has its two events side by side.
THEOREM RegistrationIsWholeHolds == TSpec => []RegistrationIsWhole
  <1>1. TInit => RegistrationIsWhole
    <2> SUFFICES ASSUME TInit PROVE RegistrationIsWhole
      OBVIOUS
    <2>1. DOMAIN log = {} /\ version = 0
      BY DEF TInit, EInit
    <2> QED  BY <2>1, FS_EmptySet DEF RegistrationIsWhole
  <1> QED  BY <1>1, TInvInit, TInvStep, WholeStep, PTL DEF TSpec

-----------------------------------------------------------------------------
(* The view of the browser.                                                *)

EventShape == [run : Nat, kind : Kind \cup {"closed"}]

ViewShape ==
    [conv : Conversation \cup {"none"}, run : Nat, seq : Nat, seen : Nat,
     status : StateKind \cup {"none", "accepted"}, last : StateKind \cup {"none"}, ready : BOOLEAN]

Asking == {"open", "newer", "submit", "recover", "confirm"}

FlowShape ==
    [step : Hydrating \cup Asking \cup {"free", "read", "delay"}, conv : Conversation \cup {"none"},
     run : Nat, gen : Nat, cursor : Nat, gap : BOOLEAN, live : BOOLEAN,
     answer : [named : Int] \cup ViewShape]

ClientTypeOK ==
    /\ outbox \in [Conversation -> Seq(EventShape)]
    /\ runs \in [Conversation -> Nat]
    /\ generation \in Nat
    /\ detail \in Conversation \cup {"none"}
    /\ view \in ViewShape
    /\ flow \in [Slot -> FlowShape]

Upto(c, r, n) == {m \in Of(c, r) : m <= n}

\* A view, shown or still on its way, is what the first seq events make of its run.
ViewOK(v) ==
    /\ v.conv \in Conversation
    /\ v.seq <= Len(outbox[v.conv])
    /\ v.seen = Cardinality(Upto(v.conv, v.run, v.seq))

\* An answer is of the kind its flow waits for.
FlowOK(f) ==
    /\ f.step # "free" => f.conv \in Conversation
    /\ f.step \in Hydrating /\ f.answer # NoAnswer => f.answer \in ViewShape /\ ViewOK(f.answer)
    /\ f.step \in Asking /\ f.answer # NoAnswer => f.answer \in [named : Nat]
    /\ f.step \in {"free", "read", "delay"} => f.answer = NoAnswer

ShownOK(v) == IF v.conv = "none" THEN v.run = 0 /\ v.status = "none" ELSE ViewOK(v)

ClientInv == ClientTypeOK /\ ShownOK(view) /\ \A s \in Slot : FlowOK(flow[s])

-----------------------------------------------------------------------------
(* The least and the greatest of a set of numbers.                         *)

LEMMA LeastNumber ==
    ASSUME NEW S \in SUBSET Nat, S # {}
    PROVE  \E n \in S : \A m \in S : n <= m
  <1> DEFINE R == OpToRel(<, Nat)
  <1>1. IsWellFoundedOn(R, Nat)
    BY NatLessThanWellFounded
  <1> HIDE DEF R
  <1>2. PICK x \in S : \A y \in S : ~ (<<y, x>> \in R)
    BY <1>1, WFMin, Zenon
  <1>3. ASSUME NEW y \in S, y < x PROVE <<y, x>> \in R
    <2>1. <<y, x>> \in Nat \X Nat
      BY <1>2
    <2> QED  BY <1>3, <2>1 DEF R, OpToRel
  <1>4. ASSUME NEW y \in S PROVE x <= y
    <2>1. x \in Nat /\ y \in Nat /\ ~ (y < x)
      BY <1>2, <1>3
    <2> QED  BY <2>1
  <1> QED  BY <1>2, <1>4

LEMMA GreatestNumber ==
    ASSUME NEW N \in Nat, NEW S \in SUBSET (1 .. N), S # {}
    PROVE  Max(S) \in S /\ \A n \in S : n <= Max(S)
  <1> DEFINE T == {N - n : n \in S}
  <1>a. \A n \in S : n \in Nat /\ n <= N
    OBVIOUS
  <1>1. T \in SUBSET Nat /\ T # {}
    <2>1. \A n \in S : N - n \in Nat
      BY <1>a
    <2>2. PICK n : n \in S
      OBVIOUS
    <2>3. N - n \in T
      BY <2>2
    <2> QED  BY <2>1, <2>3
  <1>2. PICK x \in T : \A m \in T : x <= m
    BY <1>1, LeastNumber
  <1>3. PICK g \in S : x = N - g
    BY <1>2
  <1>4. ASSUME NEW n \in S PROVE g >= n
    <2>1. N - n \in T
      OBVIOUS
    <2>2. N - g <= N - n
      BY <1>2, <1>3, <2>1
    <2> HIDE DEF T
    <2> QED  BY <1>a, <2>2
  <1>5. Max(S) \in S /\ \A n \in S : Max(S) >= n
    BY <1>4 DEF Max
  <1> QED  BY <1>5

-----------------------------------------------------------------------------
(* Snapshots.                                                               *)

Outboxes == outbox \in [Conversation -> Seq(EventShape)]

LEMMA OfIs ==
    ASSUME Outboxes, NEW c \in Conversation, NEW r
    PROVE  /\ Len(outbox[c]) \in Nat
           /\ Of(c, r) \subseteq 1 .. Len(outbox[c])
           /\ \A n \in 1 .. Len(outbox[c]) : outbox[c][n] \in EventShape
           /\ IsFiniteSet(Of(c, r))
  <1>1. outbox[c] \in Seq(EventShape)
    BY DEF Outboxes
  <1>2. /\ Len(outbox[c]) \in Nat
        /\ Of(c, r) \subseteq 1 .. Len(outbox[c])
        /\ \A n \in 1 .. Len(outbox[c]) : outbox[c][n] \in EventShape
    BY <1>1 DEF Of
  <1>3. IsFiniteSet(1 .. Len(outbox[c]))
    BY <1>2, FS_Interval
  <1> QED  BY <1>2, <1>3, FS_Subset

LEMMA UptoIs ==
    ASSUME Outboxes, NEW c \in Conversation, NEW r, NEW n
    PROVE  IsFiniteSet(Upto(c, r, n)) /\ Cardinality(Upto(c, r, n)) \in Nat
  <1>1. Upto(c, r, n) \subseteq Of(c, r)
    BY DEF Upto
  <1> QED  BY <1>1, OfIs, FS_Subset, FS_CardinalityType

LEMMA SnapshotIs ==
    ASSUME Outboxes, NEW c \in Conversation, NEW r \in Nat
    PROVE  Snapshot(c, r) \in ViewShape /\ ViewOK(Snapshot(c, r)) /\ Snapshot(c, r).conv # "none"
  <1> DEFINE N == Len(outbox[c])
             seq == LastOr(Of(c, r), 0)
             last == StatusIn(c, States(c, r), "none")
  <1>1. N \in Nat /\ Of(c, r) \in SUBSET (1 .. N) /\ States(c, r) \in SUBSET (1 .. N)
    BY OfIs DEF States
  <1>2. seq \in 0 .. N /\ \A n \in Of(c, r) : n <= seq
    <2>1. CASE Of(c, r) = {}
      BY <1>1, <2>1 DEF LastOr
    <2>2. CASE Of(c, r) # {}
      <3>1. Max(Of(c, r)) \in Of(c, r) /\ \A n \in Of(c, r) : n <= Max(Of(c, r))
        BY <1>1, <2>2, GreatestNumber, Zenon
      <3> QED  BY <1>1, <2>2, <3>1 DEF LastOr
    <2> QED  BY <2>1, <2>2
  <1>3. last \in StateKind \cup {"none"}
    <2>1. CASE States(c, r) = {}
      BY <2>1 DEF StatusIn
    <2>2. CASE States(c, r) # {}
      <3>1. Max(States(c, r)) \in States(c, r)
        BY <1>1, <2>2, GreatestNumber, Zenon
      <3> QED  BY <2>2, <3>1 DEF StatusIn, States
    <2> QED  BY <2>1, <2>2
  <1>4. Upto(c, r, seq) = Of(c, r) /\ Cardinality(Of(c, r)) \in Nat
    BY <1>2, OfIs, FS_CardinalityType DEF Upto
  <1>5. ShownStatus(c, r) \in StateKind \cup {"none", "accepted"}
    BY DEF ShownStatus
  <1> HIDE DEF seq, last
  <1>6. Snapshot(c, r) = [conv |-> c, run |-> r, seq |-> seq, seen |-> Cardinality(Of(c, r)),
                          status |-> ShownStatus(c, r), last |-> last, ready |-> TRUE]
    BY DEF Snapshot, seq, last
  <1>7. c # "none"
    BY AgentConversationAssumption
  <1>8. Snapshot(c, r) \in ViewShape
    BY <1>1, <1>2, <1>3, <1>4, <1>5, <1>6 DEF ViewShape
  <1>9. ViewOK(Snapshot(c, r))
    BY <1>1, <1>2, <1>4, <1>6 DEF ViewOK
  <1> QED  BY <1>6, <1>7, <1>8, <1>9

-----------------------------------------------------------------------------
(* The Outbox grows at its end, which leaves every view what it was.        *)

OutboxGrows ==
    \A c \in Conversation :
        /\ Len(outbox[c]) <= Len(outbox'[c])
        /\ \A n \in 1 .. Len(outbox[c]) : outbox'[c][n] = outbox[c][n]

LEMMA WriteIs ==
    ASSUME Outboxes, NEW c \in Conversation, NEW r \in Nat, NEW k \in Kind \cup {"closed"},
           Write(c, r, k)
    PROVE  Outboxes' /\ OutboxGrows
  <1> DEFINE e == [run |-> r, kind |-> k]
  <1>1. e \in EventShape /\ outbox[c] \in Seq(EventShape)
    BY DEF EventShape, Outboxes
  <1>2. /\ Append(outbox[c], e) \in Seq(EventShape)
        /\ Len(Append(outbox[c], e)) = Len(outbox[c]) + 1
        /\ \A n \in 1 .. Len(outbox[c]) : Append(outbox[c], e)[n] = outbox[c][n]
        /\ Len(outbox[c]) \in Nat
    BY <1>1
  <1>3. outbox' = [outbox EXCEPT ![c] = Append(outbox[c], e)]
    BY DEF Write
  <1> HIDE DEF e
  <1>4. Outboxes'
    BY <1>2, <1>3 DEF Outboxes
  <1>5. ASSUME NEW d \in Conversation
        PROVE  /\ Len(outbox[d]) <= Len(outbox'[d])
               /\ \A n \in 1 .. Len(outbox[d]) : outbox'[d][n] = outbox[d][n]
    <2>1. CASE d = c
      BY <1>2, <1>3, <2>1 DEF Outboxes
    <2>2. CASE d # c
      <3>1. outbox'[d] = outbox[d] /\ Len(outbox[d]) \in Nat
        BY <1>3, <2>2 DEF Outboxes
      <3> QED  BY <3>1
    <2> QED  BY <2>1, <2>2
  <1> QED  BY <1>4, <1>5 DEF OutboxGrows

LEMMA UptoStays ==
    ASSUME Outboxes, Outboxes', OutboxGrows, NEW c \in Conversation, NEW r, NEW n \in Nat,
           n <= Len(outbox[c])
    PROVE  Upto(c, r, n)' = Upto(c, r, n)
  <1>1. /\ Len(outbox[c]) \in Nat /\ Len(outbox'[c]) \in Nat
        /\ DOMAIN outbox[c] = 1 .. Len(outbox[c]) /\ DOMAIN outbox'[c] = 1 .. Len(outbox'[c])
    BY DEF Outboxes
  <1>2. /\ Len(outbox[c]) <= Len(outbox'[c])
        /\ \A m \in 1 .. Len(outbox[c]) : outbox'[c][m] = outbox[c][m]
    BY DEF OutboxGrows
  <1> QED  BY <1>1, <1>2 DEF Upto, Of

LEMMA ViewStays ==
    ASSUME Outboxes, Outboxes', OutboxGrows
    PROVE  \A v \in ViewShape : ViewOK(v) => ViewOK(v)'
  <1> SUFFICES ASSUME NEW v \in ViewShape, ViewOK(v) PROVE ViewOK(v)'
    OBVIOUS
  <1>1. v.conv \in Conversation /\ v.seq \in Nat /\ v.seq <= Len(outbox[v.conv])
    BY DEF ViewOK, ViewShape
  <1>2. Upto(v.conv, v.run, v.seq)' = Upto(v.conv, v.run, v.seq)
    BY <1>1, UptoStays
  <1>3. Len(outbox[v.conv]) <= Len(outbox'[v.conv])
    BY <1>1 DEF OutboxGrows
  <1>4. Len(outbox[v.conv]) \in Nat /\ Len(outbox'[v.conv]) \in Nat
    BY <1>1 DEF Outboxes
  <1> QED  BY <1>1, <1>2, <1>3, <1>4 DEF ViewOK

\* What a step has to show: the Outbox grows, and each flow and the view is
\* what it may be, by the Outbox before the step.
FlowGood(f) == f \in FlowShape /\ FlowOK(f)

ViewGood(v) == v \in ViewShape /\ ShownOK(v)

LEMMA GoodStays ==
    ASSUME ClientInv, Outboxes', OutboxGrows, runs' \in [Conversation -> Nat], generation' \in Nat,
           detail' \in Conversation \cup {"none"}, ViewGood(view'),
           flow' \in [Slot -> FlowShape], \A s \in Slot : FlowOK(flow'[s])
    PROVE  ClientInv'
  <1>1. Outboxes
    BY DEF ClientInv, ClientTypeOK, Outboxes
  <1>2. \A v \in ViewShape : ViewOK(v) => ViewOK(v)'
    BY <1>1, ViewStays
  <1>3. ASSUME NEW f \in FlowShape, FlowOK(f) PROVE FlowOK(f)'
    BY <1>2, <1>3 DEF FlowOK
  <1>4. ASSUME NEW v, ViewGood(v) PROVE ShownOK(v)'
    BY <1>2, <1>4 DEF ViewGood, ShownOK
  <1>5. ShownOK(view)' /\ view' \in ViewShape
    <2>1. \A v : ViewGood(v) => ShownOK(v)'
      BY <1>4
    <2> DEFINE v2 == view'
    <2>2. ViewGood(v2)
      OBVIOUS
    <2> QED  BY <2>1, <2>2 DEF ViewGood, ShownOK, ViewOK, Upto, Of
  <1>6. ASSUME NEW s \in Slot PROVE FlowOK(flow[s])'
    <2>1. \A f \in FlowShape : FlowOK(f) => FlowOK(f)'
      BY <1>3
    <2>2. flow'[s] \in FlowShape /\ FlowOK(flow'[s])
      OBVIOUS
    <2> QED  BY <2>1, <2>2 DEF FlowOK, ViewOK, Upto, Of
  <1>7. ClientTypeOK'
    BY <1>5 DEF ClientTypeOK, Outboxes
  <1> QED  BY <1>5, <1>6, <1>7 DEF ClientInv

\* A step that leaves the server as it is.
LEMMA PageStep ==
    ASSUME ClientInv, UNCHANGED serverVars, generation' \in Nat,
           detail' \in Conversation \cup {"none"}, ViewGood(view'),
           flow' \in [Slot -> FlowShape], \A s \in Slot : FlowOK(flow'[s])
    PROVE  ClientInv'
  <1>1. Outboxes' /\ runs' \in [Conversation -> Nat] /\ Outboxes
    BY DEF ClientInv, ClientTypeOK, Outboxes, serverVars
  <1>2. OutboxGrows
    <2>1. \A c \in Conversation : Len(outbox[c]) \in Nat
      BY <1>1 DEF Outboxes
    <2> QED  BY <2>1 DEF OutboxGrows, serverVars
  <1> QED  BY <1>1, <1>2, GoodStays

-----------------------------------------------------------------------------
(* The flows that the steps make.                                           *)

LEMMA FlowsAre ==
    ASSUME ClientInv
    PROVE  /\ flow \in [Slot -> FlowShape]
           /\ \A s \in Slot : FlowGood(flow[s])
           /\ ViewGood(view)
           /\ Outboxes
  BY DEF ClientInv, ClientTypeOK, FlowGood, ViewGood, Outboxes

LEMMA NoFlowGood == FlowGood(NoFlow)
  BY DEF FlowGood, FlowShape, FlowOK, NoFlow, NoAnswer, Hydrating, Asking

LEMMA WaitingGood ==
    ASSUME NEW step \in Hydrating \cup Asking \cup {"read"}, NEW c \in Conversation, NEW r \in Nat,
           NEW g \in Nat, NEW n \in Nat
    PROVE  /\ FlowGood(Waiting(step, c, r))
           /\ FlowGood([Waiting(step, c, r) EXCEPT !.gen = g])
           /\ FlowGood([Waiting(step, c, r) EXCEPT !.cursor = n, !.live = TRUE])
  <1>1. NoFlow \in FlowShape /\ NoFlow.answer = NoAnswer
    BY NoFlowGood DEF FlowGood, NoFlow
  <1> DEFINE w == Waiting(step, c, r)
  <1>2. w \in FlowShape /\ w.answer = NoAnswer /\ w.conv = c /\ w.step = step
    BY <1>1 DEF Waiting, FlowShape
  <1> HIDE DEF w
  <1>3. ASSUME NEW f \in FlowShape, f.answer = NoAnswer, f.conv \in Conversation PROVE FlowGood(f)
    BY <1>3 DEF FlowGood, FlowOK
  <1>4. [w EXCEPT !.gen = g] \in FlowShape /\ [w EXCEPT !.gen = g].answer = NoAnswer
        /\ [w EXCEPT !.gen = g].conv = c
    BY <1>2 DEF FlowShape
  <1>5. [w EXCEPT !.cursor = n, !.live = TRUE] \in FlowShape
        /\ [w EXCEPT !.cursor = n, !.live = TRUE].answer = NoAnswer
        /\ [w EXCEPT !.cursor = n, !.live = TRUE].conv = c
    BY <1>2 DEF FlowShape
  <1> QED  BY <1>2, <1>3, <1>4, <1>5 DEF w

LEMMA OneFlow ==
    ASSUME ClientInv, NEW s \in Slot, NEW f, FlowGood(f), NEW g, g = [flow EXCEPT ![s] = f]
    PROVE  g \in [Slot -> FlowShape] /\ \A t \in Slot : FlowOK(g[t])
  BY FlowsAre DEF FlowGood

LEMMA LoopGood ==
    ASSUME NEW c \in Conversation, NEW r \in Nat, NEW v \in ViewShape
    PROVE  FlowGood(Loop(c, r, v)) /\ FlowGood(Closing(c, r, v))
  <1>1. v.seq \in Nat
    BY DEF ViewShape
  <1>2. FlowGood(Closing(c, r, v))
    BY NoFlowGood, WaitingGood DEF Closing, Hydrating
  <1> QED  BY <1>1, <1>2, WaitingGood DEF Loop

LEMMA StoppedGood ==
    ASSUME ClientInv
    PROVE  Stopped \in [Slot -> FlowShape] /\ \A s \in Slot : FlowGood(Stopped[s])
  <1>1. ASSUME NEW s \in Slot PROVE FlowGood(Stopped[s])
    <2>1. FlowGood(flow[s])
      BY FlowsAre
    <2>2. flow[s].step = "reload" => FlowGood([flow[s] EXCEPT !.live = FALSE])
      BY <2>1 DEF FlowGood, FlowShape, FlowOK
    <2> QED  BY <2>1, <2>2, NoFlowGood DEF Stopped
  <1> QED  BY <1>1 DEF Stopped, FlowGood

LEMMA StreamGood ==
    ASSUME ClientInv, NEW s \in Slot, NEW c \in Conversation, NEW r \in Nat, NEW v \in ViewShape
    PROVE  /\ Stream(s, c, r, v) \in [Slot -> FlowShape]
           /\ \A t \in Slot : FlowOK(Stream(s, c, r, v)[t])
  BY StoppedGood, LoopGood DEF Stream, FlowGood

\* The Snapshot a flow waits for is what the view becomes.
LEMMA HydratesIs ==
    ASSUME ClientInv, NEW s \in Slot, NEW step \in Hydrating, Hydrates(s, step)
    PROVE  /\ ViewGood(view') /\ view' \in ViewShape
           /\ flow[s] \in FlowShape /\ flow[s].conv \in Conversation /\ flow[s].run \in Nat
  <1>1. FlowGood(flow[s]) /\ flow[s].step = step /\ flow[s].answer # NoAnswer /\ view' = flow[s].answer
    BY FlowsAre DEF Hydrates, Arrived
  <1>2. view' \in ViewShape /\ ViewOK(view')
    BY <1>1 DEF FlowGood, FlowOK
  <1>3. view'.conv # "none"
    BY <1>2, AgentConversationAssumption DEF ViewOK
  <1>4. step # "free"
    BY DEF Hydrating
  <1> QED  BY <1>1, <1>2, <1>3, <1>4 DEF ViewGood, ShownOK, FlowGood, FlowOK, FlowShape

-----------------------------------------------------------------------------
(* The steps of the server.                                                 *)

LEMMA ServerKeeps ==
    ASSUME ClientInv, NEW c \in Conversation, Emit(c) \/ RunElsewhere(c)
    PROVE  ClientInv'
  <1>1. /\ flow \in [Slot -> FlowShape] /\ \A s \in Slot : FlowOK(flow[s])
        /\ ViewGood(view) /\ Outboxes /\ runs \in [Conversation -> Nat]
        /\ detail \in Conversation \cup {"none"} /\ generation \in Nat
    BY FlowsAre DEF ClientInv, ClientTypeOK
  <1>2. UNCHANGED <<view, flow, generation, detail>> /\ runs' \in [Conversation -> Nat]
    BY <1>1 DEF Emit, RunElsewhere, pageVars
  <1>3. Outboxes' /\ OutboxGrows
    <2>1. CASE Emit(c)
      <3>1. PICK r \in 1 .. runs[c], k \in Kind : Write(c, r, k)
        BY <2>1 DEF Emit
      <3>2. r \in Nat
        BY <1>1
      <3> QED  BY <1>1, <3>1, <3>2, WriteIs
    <2>2. CASE RunElsewhere(c)
      <3>1. outbox' = outbox /\ \A d \in Conversation : Len(outbox[d]) \in Nat
        BY <1>1, <2>2 DEF RunElsewhere, Outboxes
      <3> QED  BY <1>1, <3>1 DEF Outboxes, OutboxGrows
    <2> QED  BY <2>1, <2>2
  <1> QED  BY <1>1, <1>2, <1>3, GoodStays

\* The latest run of a conversation is one.
LEMMA LatestRunIs ==
    ASSUME ClientInv, NEW c \in Conversation
    PROVE  LatestRun(c) \in Nat
  <1>1. outbox[c] \in Seq(EventShape) /\ runs[c] \in Nat
    BY DEF ClientInv, ClientTypeOK
  <1>2. outbox[c] # <<>> => outbox[c][Len(outbox[c])] \in EventShape
    BY <1>1
  <1> QED  BY <1>1, <1>2 DEF LatestRun, Last, EventShape

LEMMA AnswerGood ==
    ASSUME NEW f, FlowGood(f), NEW a,
           \/ f.step \in Hydrating /\ a \in ViewShape /\ ViewOK(a)
           \/ f.step \in Asking /\ \E r \in Nat : a = RunNamed(r)
    PROVE  FlowGood([f EXCEPT !.answer = a])
  <1> DEFINE g == [f EXCEPT !.answer = a]
  <1>1. f \in FlowShape /\ f.step # "free" /\ f.step \notin {"free", "read", "delay"}
    BY DEF FlowGood, Hydrating, Asking
  <1>2. a \in [named : Int] \cup ViewShape
    BY DEF RunNamed
  <1>3. g \in FlowShape /\ g.step = f.step /\ g.conv = f.conv /\ g.answer = a
    BY <1>1, <1>2 DEF FlowShape
  <1>4. f.step \in Asking => f.step \notin Hydrating
    BY DEF Asking, Hydrating
  <1>5. f.step \in Asking => a \in [named : Nat]
    BY <1>4 DEF RunNamed
  <1> HIDE DEF g
  <1> QED  BY <1>1, <1>3, <1>4, <1>5 DEF FlowGood, FlowOK, g

LEMMA AnswerReadKeeps ==
    ASSUME ClientInv, NEW s \in Slot, AnswerRead(s)
    PROVE  ClientInv'
  <1>1. FlowGood(flow[s]) /\ Outboxes /\ ViewGood(view)
    BY FlowsAre
  <1>2. flow[s].run \in Nat
    BY <1>1 DEF FlowGood, FlowShape
  <1>3. \E a : FlowGood([flow[s] EXCEPT !.answer = a]) /\ flow' = [flow EXCEPT ![s].answer = a]
    <2>1. CASE flow[s].step \in Hydrating /\ Answers(s, Snapshot(flow[s].conv, flow[s].run))
      <3>1. flow[s].conv \in Conversation
        BY <1>1, <2>1 DEF FlowGood, FlowOK, Hydrating
      <3>2. Snapshot(flow[s].conv, flow[s].run) \in ViewShape /\ ViewOK(Snapshot(flow[s].conv, flow[s].run))
        BY <1>1, <1>2, <3>1, SnapshotIs
      <3> QED  BY <1>1, <2>1, <3>2, AnswerGood DEF Answers
    <2>2. CASE flow[s].step \in {"open", "newer"} /\ Answers(s, RunNamed(LatestRun(flow[s].conv)))
      <3>1. flow[s].conv \in Conversation /\ flow[s].step \in Asking
        BY <1>1, <2>2 DEF FlowGood, FlowOK, Asking
      <3>2. LatestRun(flow[s].conv) \in Nat
        BY <3>1, LatestRunIs
      <3> QED  BY <1>1, <2>2, <3>1, <3>2, AnswerGood DEF Answers
    <2> QED  BY <2>1, <2>2 DEF AnswerRead
  <1>4. flow' \in [Slot -> FlowShape] /\ \A t \in Slot : FlowOK(flow'[t])
    <2>1. PICK a : FlowGood([flow[s] EXCEPT !.answer = a]) /\ flow' = [flow EXCEPT ![s].answer = a]
      BY <1>3
    <2>2. flow' = [flow EXCEPT ![s] = [flow[s] EXCEPT !.answer = a]]
      BY <2>1
    <2> QED  BY <2>1, <2>2, OneFlow, Zenon
  <1>5. UNCHANGED serverVars /\ view' = view /\ generation' = generation /\ detail' = detail
    BY DEF AnswerRead, pageVars
  <1>6. generation \in Nat /\ detail \in Conversation \cup {"none"}
    BY DEF ClientInv, ClientTypeOK
  <1> QED  BY <1>1, <1>4, <1>5, <1>6, PageStep

LEMMA AnswerAskKeeps ==
    ASSUME ClientInv, NEW s \in Slot, AnswerAsk(s)
    PROVE  ClientInv'
  <1> DEFINE c == flow[s].conv
  <1>1. /\ FlowGood(flow[s]) /\ Outboxes /\ ViewGood(view) /\ runs \in [Conversation -> Nat]
        /\ detail \in Conversation \cup {"none"} /\ generation \in Nat
    BY FlowsAre DEF ClientInv, ClientTypeOK
  <1>2. flow[s].run \in Nat /\ c \in Conversation /\ flow[s].step \in Asking
    BY <1>1 DEF FlowGood, FlowShape, FlowOK, AnswerAsk, Asking
  <1>3. runs[c] + 1 \in Nat /\ runs' \in [Conversation -> Nat]
    BY <1>1, <1>2 DEF AnswerAsk
  <1>4. flow' = [flow EXCEPT ![s] = [flow[s] EXCEPT !.answer = RunNamed(runs[c] + 1)]]
    BY DEF AnswerAsk, Answers
  <1>5. FlowGood([flow[s] EXCEPT !.answer = RunNamed(runs[c] + 1)])
    BY <1>1, <1>2, <1>3, AnswerGood
  <1>6. flow' \in [Slot -> FlowShape] /\ \A t \in Slot : FlowOK(flow'[t])
    BY <1>4, <1>5, OneFlow, Zenon
  <1>7. Outboxes' /\ OutboxGrows
    <2>1. CASE Write(c, flow[s].run, "closed")
      BY <1>1, <1>2, <2>1, WriteIs
    <2>2. CASE UNCHANGED outbox
      <3>1. \A d \in Conversation : Len(outbox[d]) \in Nat
        BY <1>1 DEF Outboxes
      <3> QED  BY <1>1, <2>2, <3>1 DEF Outboxes, OutboxGrows
    <2> QED  BY <2>1, <2>2 DEF AnswerAsk
  <1>8. UNCHANGED <<view, generation, detail>>
    BY DEF AnswerAsk, pageVars
  <1> QED  BY <1>1, <1>3, <1>6, <1>7, <1>8, GoodStays

-----------------------------------------------------------------------------
(* The steps of the page.                                                   *)

LEMMA NoViewGood ==
    /\ ViewGood(NoView)
    /\ \A v : ViewGood(v) => ViewGood([v EXCEPT !.ready = TRUE])
  <1>1. ViewGood(NoView)
    BY DEF ViewGood, ViewShape, NoView, ShownOK
  <1>2. ASSUME NEW v, ViewGood(v) PROVE ViewGood([v EXCEPT !.ready = TRUE])
    BY <1>2 DEF ViewGood, ViewShape, ShownOK, ViewOK
  <1> QED  BY <1>1, <1>2

LEMMA OpenKeeps ==
    ASSUME ClientInv, NEW s \in Slot, NEW c \in Conversation, OpenConversation(s, c)
    PROVE  ClientInv'
  <1> DEFINE f == [Waiting("open", c, 0) EXCEPT !.gen = generation + 1]
  <1>1. generation \in Nat /\ detail \in Conversation \cup {"none"}
    BY DEF ClientInv, ClientTypeOK
  <1>2. FlowGood(f)
    <2>1. \A g \in Nat : FlowGood([Waiting("open", c, 0) EXCEPT !.gen = g])
      BY WaitingGood DEF Asking
    <2> QED  BY <1>1, <2>1
  <1>3. flow' = [Stopped EXCEPT ![s] = f] /\ view' = NoView
        /\ UNCHANGED <<serverVars, detail>> /\ generation' = generation + 1
    BY DEF OpenConversation
  <1> HIDE DEF f
  <1>4. flow' \in [Slot -> FlowShape] /\ \A t \in Slot : FlowOK(flow'[t])
    BY <1>2, <1>3, StoppedGood DEF FlowGood
  <1> QED  BY <1>1, <1>3, <1>4, NoViewGood, PageStep

LEMMA AskKeeps ==
    ASSUME ClientInv, NEW s \in Slot,
           Submit(s) \/ \E step \in {"refresh", "confirm", "recover"} : Ask(s, step)
    PROVE  ClientInv'
  <1>1. /\ ViewGood(view) /\ generation \in Nat /\ detail \in Conversation \cup {"none"}
        /\ view.run \in Nat
    BY FlowsAre DEF ClientInv, ClientTypeOK, ViewShape
  <1>2. \E step \in Hydrating \cup Asking, r \in Nat :
           detail \in Conversation /\ Asks(s, step, r)
    <2>1. CASE Submit(s)
      BY <1>1, <2>1 DEF Submit, Asking
    <2>2. CASE \E step \in {"refresh", "confirm", "recover"} : Ask(s, step)
      <3>1. PICK step \in {"refresh", "confirm", "recover"} : Ask(s, step)
        BY <2>2
      <3>2. view.conv # "none"
        BY <1>1, <3>1 DEF Ask, About, ViewGood, ShownOK
      <3>3. detail \in Conversation
        BY <1>1, <3>1, <3>2 DEF Ask
      <3> QED  BY <1>1, <3>1, <3>3 DEF Ask, Hydrating, Asking
    <2> QED  BY <2>1, <2>2
  <1>3. PICK step \in Hydrating \cup Asking, r \in Nat :
           detail \in Conversation /\ Asks(s, step, r)
    BY <1>2
  <1>4. FlowGood(Waiting(step, detail, r))
    <2>1. \A d \in Conversation : FlowGood(Waiting(step, d, r))
      BY WaitingGood
    <2> QED  BY <1>3, <2>1
  <1>5. /\ flow' = [flow EXCEPT ![s] = Waiting(step, detail, r)]
        /\ UNCHANGED <<serverVars, view, generation, detail>>
    BY <1>3 DEF Asks, pageVars
  <1>6. flow' \in [Slot -> FlowShape] /\ \A t \in Slot : FlowOK(flow'[t])
    BY <1>4, <1>5, OneFlow, Zenon
  <1> QED  BY <1>1, <1>5, <1>6, PageStep

\* A step in which one flow goes on.
LEMMA GoesOn ==
    ASSUME ClientInv, NEW s \in Slot, NEW f, FlowGood(f), flow' = [flow EXCEPT ![s] = f],
           ViewGood(view'), UNCHANGED <<serverVars, generation>>,
           detail' \in Conversation \cup {"none"}
    PROVE  ClientInv'
  <1>1. flow' \in [Slot -> FlowShape] /\ \A t \in Slot : FlowOK(flow'[t])
    BY OneFlow, Zenon
  <1>2. generation' \in Nat
    BY DEF ClientInv, ClientTypeOK
  <1> QED  BY <1>1, <1>2, PageStep

\* A step in which a flow starts a stream.
LEMMA StartsStream ==
    ASSUME ClientInv, NEW s \in Slot, NEW c \in Conversation, NEW r \in Nat,
           flow' = Stream(s, c, r, view'), ViewGood(view'), PageKept
    PROVE  ClientInv'
  <1>1. view' \in ViewShape
    BY DEF ViewGood
  <1>2. flow' \in [Slot -> FlowShape] /\ \A t \in Slot : FlowOK(flow'[t])
    <2>1. \A v \in ViewShape : /\ Stream(s, c, r, v) \in [Slot -> FlowShape]
                              /\ \A t \in Slot : FlowOK(Stream(s, c, r, v)[t])
      BY StreamGood
    <2> QED  BY <1>1, <2>1
  <1>3. generation' \in Nat /\ detail' \in Conversation \cup {"none"} /\ UNCHANGED serverVars
    BY DEF ClientInv, ClientTypeOK, PageKept, pageVars
  <1> QED  BY <1>2, <1>3, PageStep

LEMMA OpenArrivesKeeps ==
    ASSUME ClientInv, NEW s \in Slot, OpenArrives(s)
    PROVE  ClientInv'
  <1> DEFINE f == flow[s]
  <1>1. /\ FlowGood(f) /\ ViewGood(view) /\ generation \in Nat
        /\ detail \in Conversation \cup {"none"}
    BY FlowsAre DEF ClientInv, ClientTypeOK
  <1>2. f.conv \in Conversation /\ f.answer.named \in Nat
    BY <1>1 DEF OpenArrives, Arrived, FlowGood, FlowOK, Asking
  <1>3. ViewGood(view') /\ detail' \in Conversation \cup {"none"} /\ UNCHANGED <<serverVars, generation>>
    BY <1>1, <1>2, NoViewGood DEF OpenArrives
  <1>4. \E g : FlowGood(g) /\ flow' = [flow EXCEPT ![s] = g]
    <2>1. CASE EndFlow(s)
      BY <2>1, NoFlowGood DEF EndFlow
    <2>2. CASE flow' = [flow EXCEPT ![s] = [Waiting("opened", f.conv, f.answer.named) EXCEPT !.gen = generation]]
      <3>1. FlowGood([Waiting("opened", f.conv, f.answer.named) EXCEPT !.gen = generation])
        <4>1. \A c \in Conversation, r \in Nat, h \in Nat :
                FlowGood([Waiting("opened", c, r) EXCEPT !.gen = h])
          BY WaitingGood DEF Hydrating
        <4> QED  BY <1>1, <1>2, <4>1
      <3> QED  BY <2>2, <3>1
    <2> QED  BY <2>1, <2>2 DEF OpenArrives
  <1> QED  BY <1>3, <1>4, GoesOn

LEMMA OpenHydratesKeeps ==
    ASSUME ClientInv, NEW s \in Slot, OpenHydrates(s)
    PROVE  ClientInv'
  <1>1. /\ ViewGood(view') /\ PageKept
        /\ flow[s].conv \in Conversation /\ flow[s].run \in Nat
    BY HydratesIs DEF OpenHydrates, Hydrating
  <1>2. CASE EndFlow(s)
    BY <1>1, <1>2, GoesOn, NoFlowGood DEF EndFlow, PageKept, pageVars, ClientInv, ClientTypeOK
  <1>3. CASE flow' = Stream(s, flow[s].conv, flow[s].run, view')
    BY <1>1, <1>3, StartsStream
  <1> QED  BY <1>2, <1>3 DEF OpenHydrates

\* The view of a turn that has just been accepted: nothing is known of its run.
LEMMA AcceptedGood ==
    ASSUME Outboxes, NEW c \in Conversation, NEW r \in Nat,
           NEW v, v = [NoView EXCEPT !.conv = c, !.run = r, !.status = "accepted", !.ready = TRUE]
    PROVE  ViewGood(v) /\ v.run = r
  <1>1. v \in ViewShape /\ v.conv = c /\ v.run = r /\ v.seq = 0 /\ v.seen = 0
    BY DEF NoView, ViewShape
  <1>2. Upto(c, r, 0) = {} /\ Len(outbox[c]) \in Nat
    BY OfIs DEF Upto
  <1>3. c # "none"
    BY AgentConversationAssumption
  <1> QED  BY <1>1, <1>2, <1>3, FS_EmptySet DEF ViewGood, ShownOK, ViewOK

LEMMA SubmitArrivesKeeps ==
    ASSUME ClientInv, NEW s \in Slot, SubmitArrives(s)
    PROVE  ClientInv'
  <1> DEFINE f == flow[s]
             c == f.conv
             r == f.answer.named
             v == [NoView EXCEPT !.conv = c, !.run = r, !.status = "accepted", !.ready = TRUE]
  <1>1. PICK t \in Slot \ {s} :
           /\ Arrived(s, "submit") /\ view' = v /\ PageKept
           /\ flow' = [Stream(s, c, v.run, v) EXCEPT ![t] = Waiting("settle", c, v.run)]
    BY DEF SubmitArrives
  <1>2. FlowGood(f) /\ Outboxes
    BY FlowsAre
  <1>3. c \in Conversation /\ r \in Nat
    BY <1>1, <1>2 DEF Arrived, FlowGood, FlowOK, Asking
  <1>a. v = [NoView EXCEPT !.conv = c, !.run = r, !.status = "accepted", !.ready = TRUE]
    OBVIOUS
  <1> HIDE DEF f, c, r, v
  <1>b. ViewGood(v) /\ v.run = r
    <2> DEFINE new(w) == w = [NoView EXCEPT !.conv = c, !.run = r, !.status = "accepted", !.ready = TRUE]
    <2>1. new(v)
      BY <1>a
    <2>2. \A w : new(w) => ViewGood(w) /\ w.run = r
      BY <1>2, <1>3, AcceptedGood
    <2> HIDE DEF new
    <2> QED  BY <2>1, <2>2
  <1>4. v \in ViewShape /\ ViewGood(v) /\ v.run = r
    BY <1>b DEF ViewGood
  <1>5. /\ Stream(s, c, r, v) \in [Slot -> FlowShape]
        /\ \A u \in Slot : FlowOK(Stream(s, c, r, v)[u])
    BY <1>3, <1>4, StreamGood, Zenon
  <1>6. FlowGood(Waiting("settle", c, r))
    BY <1>3, WaitingGood, Zenon DEF Hydrating
  <1>7. flow' = [Stream(s, c, r, v) EXCEPT ![t] = Waiting("settle", c, r)]
    BY <1>1, <1>4
  <1>8. flow' \in [Slot -> FlowShape] /\ \A u \in Slot : FlowOK(flow'[u])
    BY <1>5, <1>6, <1>7 DEF FlowGood
  <1>9. generation' \in Nat /\ detail' \in Conversation \cup {"none"} /\ UNCHANGED serverVars
        /\ ViewGood(view')
    BY <1>1, <1>4 DEF ClientInv, ClientTypeOK, PageKept, pageVars
  <1> QED  BY <1>8, <1>9, PageStep

\* A step of a flow that leaves the page as it is.
LEMMA FlowGoesOn ==
    ASSUME ClientInv, NEW s \in Slot, NEW f, FlowGood(f), flow' = [flow EXCEPT ![s] = f],
           ViewGood(view'), PageKept
    PROVE  ClientInv'
  BY GoesOn DEF PageKept, pageVars, ClientInv, ClientTypeOK

LEMMA HydratedKeeps ==
    ASSUME ClientInv, NEW s \in Slot, SettleArrives(s) \/ RefreshArrives(s) \/ FinalArrives(s)
    PROVE  ClientInv'
  <1> DEFINE f == flow[s]
  <1>1. PICK step \in Hydrating : Hydrates(s, step)
    BY DEF SettleArrives, RefreshArrives, FinalArrives, Hydrating
  <1>2. ViewGood(view') /\ f.conv \in Conversation /\ f.run \in Nat /\ PageKept
    BY <1>1, HydratesIs DEF SettleArrives, RefreshArrives, FinalArrives
  <1>3. CASE flow' = Stream(s, f.conv, f.run, view')
    BY <1>2, <1>3, StartsStream
  <1>4. CASE EndFlow(s)
    BY <1>2, <1>4, FlowGoesOn, NoFlowGood DEF EndFlow
  <1>5. CASE flow' = [flow EXCEPT ![s] = Waiting("newer", f.conv, f.run)]
    <2>1. FlowGood(Waiting("newer", f.conv, f.run))
      BY <1>2, WaitingGood, Zenon DEF Asking
    <2> QED  BY <1>2, <1>5, <2>1, FlowGoesOn
  <1> QED  BY <1>3, <1>4, <1>5 DEF SettleArrives, RefreshArrives, FinalArrives

LEMMA NamedKeeps ==
    ASSUME ClientInv, NEW s \in Slot, RecoverArrives(s) \/ NewerArrives(s)
    PROVE  ClientInv'
  <1> DEFINE f == flow[s]
  <1>1. FlowGood(f) /\ ViewGood(view) /\ PageKept /\ view' = view
    BY FlowsAre DEF RecoverArrives, NewerArrives
  <1>2. f.conv \in Conversation /\ f.answer.named \in Nat
    BY <1>1 DEF RecoverArrives, NewerArrives, Arrived, FlowGood, FlowOK, Asking
  <1>3. \A step \in Hydrating : FlowGood(Waiting(step, f.conv, f.answer.named))
    BY <1>2, WaitingGood, Zenon
  <1>4. \/ EndFlow(s)
        \/ \E step \in Hydrating : flow' = [flow EXCEPT ![s] = Waiting(step, f.conv, f.answer.named)]
    BY DEF RecoverArrives, NewerArrives, Hydrating
  <1>5. CASE EndFlow(s)
    BY <1>1, <1>5, FlowGoesOn, NoFlowGood DEF EndFlow
  <1>6. CASE \E step \in Hydrating : flow' = [flow EXCEPT ![s] = Waiting(step, f.conv, f.answer.named)]
    BY <1>1, <1>3, <1>6, FlowGoesOn
  <1> QED  BY <1>4, <1>5, <1>6

-----------------------------------------------------------------------------
(* The steps of a stream.                                                   *)

\* What a stream reads next is an event of its run.
LEMMA NextEventIs ==
    ASSUME ClientInv, NEW s \in Slot, flow[s].conv \in Conversation, NextEvent(s) # 0
    PROVE  NextEvent(s) \in Of(flow[s].conv, flow[s].run)
  <1> DEFINE f == flow[s]
             ns == {n \in Of(f.conv, f.run) : n > f.cursor}
             first == {n \in ns : \A m \in ns : n <= m}
             N == Len(outbox[f.conv])
  <1>1. Of(f.conv, f.run) \subseteq 1 .. N /\ N \in Nat
    BY FlowsAre, OfIs
  <1>2. first \in SUBSET (1 .. N) /\ first \subseteq Of(f.conv, f.run)
    BY <1>1
  <1>3. NextEvent(s) = LastOr(first, 0)
    BY DEF NextEvent
  <1> HIDE DEF first
  <1>4. first # {}
    BY <1>3 DEF LastOr
  <1>5. Max(first) \in first
    BY <1>1, <1>2, <1>4, GreatestNumber, Zenon
  <1> QED  BY <1>2, <1>3, <1>4, <1>5 DEF LastOr

\* The next event of the view's run is folded into the view.
LEMMA FoldedGood ==
    ASSUME Outboxes, NEW v, ViewGood(v), v.conv \in Conversation, NEW n \in Of(v.conv, v.run), n = v.seq + 1
    PROVE  ViewGood(Folded(v, outbox[v.conv][n], n))
  <1> DEFINE c == v.conv
             e == outbox[c][n]
             w == Folded(v, e, n)
             k == IF e.kind \in StateKind THEN e.kind ELSE v.status
             l == IF e.kind \in StateKind THEN e.kind ELSE v.last
  <1>1. /\ v \in ViewShape /\ ViewOK(v) /\ c # "none"
        /\ v.seq \in Nat /\ v.seen \in Nat
    BY AgentConversationAssumption DEF ViewGood, ShownOK, ViewShape
  <1>2. n \in Nat /\ n <= Len(outbox[c])
    BY <1>1, OfIs
  <1>3. k \in StateKind \cup {"none", "accepted"} /\ l \in StateKind \cup {"none"}
    BY <1>1 DEF ViewShape
  <1>4. w = [v EXCEPT !.seq = n, !.seen = v.seen + 1, !.status = k, !.last = l]
    BY DEF Folded
  <1> HIDE DEF e, k, l, w
  <1>5. /\ w \in ViewShape /\ w.conv = c /\ w.run = v.run /\ w.seq = n /\ w.seen = v.seen + 1
    <2> DEFINE m == v.seen + 1
               u == [v EXCEPT !.seq = n, !.seen = m]
    <2>a. m \in Nat
      BY <1>1
    <2> HIDE DEF m
    <2>1. /\ u \in ViewShape /\ u.conv = c /\ u.run = v.run /\ u.seq = n /\ u.seen = m
      BY <1>1, <1>2, <2>a DEF ViewShape
    <2>2. w = [u EXCEPT !.status = k, !.last = l] /\ m = v.seen + 1
      BY <1>4 DEF m
    <2> HIDE DEF u
    <2> QED  BY <1>3, <2>1, <2>2 DEF ViewShape
  <1>6. Upto(c, v.run, n) = Upto(c, v.run, v.seq) \cup {n} /\ n \notin Upto(c, v.run, v.seq)
    BY <1>1, OfIs DEF Upto
  <1>7. Cardinality(Upto(c, v.run, n)) = v.seen + 1
    BY <1>1, <1>6, UptoIs, FS_AddElement DEF ViewOK
  <1> QED  BY <1>1, <1>2, <1>5, <1>7 DEF ViewGood, ShownOK, ViewOK, w, e

LEMMA ReadEventKeeps ==
    ASSUME ClientInv, NEW s \in Slot, ReadEvent(s)
    PROVE  ClientInv'
  <1> DEFINE f == flow[s]
             n == NextEvent(s)
             e == outbox[f.conv][n]
             result == Applies(f.conv, f.run, n)
             g == [f EXCEPT !.cursor = n, !.gap = (result = "gap"),
                            !.step = IF Reads(e, result) THEN "reload" ELSE "read"]
  <1>1. FlowGood(f) /\ ViewGood(view) /\ Outboxes /\ f.step = "read" /\ n # 0 /\ PageKept
    BY FlowsAre DEF ReadEvent
  <1>2. f.conv \in Conversation /\ f.answer = NoAnswer
    BY <1>1 DEF FlowGood, FlowOK
  <1>3. n \in Of(f.conv, f.run)
    BY <1>1, <1>2, NextEventIs
  <1>4. n \in Nat
    BY <1>1, <1>2, <1>3, OfIs
  <1>5. ViewGood(view')
    <2>1. CASE result = "applied"
      <3>1. view.conv = f.conv /\ view.run = f.run /\ n = view.seq + 1
        BY <2>1 DEF Applies
      <3>2. view' = Folded(view, e, n)
        BY <2>1 DEF ReadEvent
      <3>3. ViewGood(Folded(view, outbox[view.conv][n], n))
        BY <1>1, <1>2, <1>3, <3>1, FoldedGood
      <3> QED  BY <3>1, <3>2, <3>3
    <2>2. CASE result # "applied"
      BY <1>1, <2>2 DEF ReadEvent
    <2> QED  BY <2>1, <2>2
  <1>6. flow' = [flow EXCEPT ![s] = g]
    BY DEF ReadEvent
  <1>7. g \in FlowShape /\ g.conv = f.conv /\ g.answer = f.answer /\ g.step \in {"reload", "read"}
    BY <1>1, <1>4 DEF FlowGood, FlowShape, Hydrating
  <1> HIDE DEF g
  <1>8. FlowGood(g)
    BY <1>2, <1>7 DEF FlowGood, FlowOK, Asking
  <1> QED  BY <1>1, <1>5, <1>6, <1>8, FlowGoesOn

LEMMA ReloadKeeps ==
    ASSUME ClientInv, NEW s \in Slot, ReloadArrives(s)
    PROVE  ClientInv'
  <1> DEFINE f == flow[s]
             g == [f EXCEPT !.step = "read", !.answer = NoAnswer]
  <1>1. /\ ViewGood(view') /\ view' \in ViewShape /\ PageKept
        /\ f \in FlowShape /\ f.conv \in Conversation /\ f.run \in Nat
    BY HydratesIs DEF ReloadArrives, Hydrating
  <1>2. \E h : h \in {NoFlow, Loop(f.conv, f.run, view'), g} /\ flow' = [flow EXCEPT ![s] = h]
    BY DEF ReloadArrives
  <1>3. g \in FlowShape /\ g.step = "read" /\ g.answer = NoAnswer /\ g.conv = f.conv
    <2>1. NoAnswer \in [named : Int] \cup ViewShape
      BY DEF NoAnswer
    <2> QED  BY <1>1, <2>1 DEF FlowShape, Hydrating
  <1> HIDE DEF g
  <1>4. FlowGood(g)
    BY <1>1, <1>3 DEF FlowGood, FlowOK, Hydrating, Asking
  <1>5. FlowGood(Loop(f.conv, f.run, view'))
    <2>1. \A v \in ViewShape : FlowGood(Loop(f.conv, f.run, v))
      BY <1>1, LoopGood, Zenon
    <2> QED  BY <1>1, <2>1
  <1> QED  BY <1>1, <1>2, <1>4, <1>5, NoFlowGood, FlowGoesOn

LEMMA StreamKeeps ==
    ASSUME ClientInv, NEW s \in Slot, EndOfStream(s) \/ Reconnect(s)
    PROVE  ClientInv'
  <1> DEFINE f == flow[s]
             g == [f EXCEPT !.step = "delay"]
  <1>1. FlowGood(f) /\ ViewGood(view) /\ view \in ViewShape /\ PageKept /\ view' = view
    BY FlowsAre DEF EndOfStream, Reconnect, ViewGood
  <1>2. f.conv \in Conversation /\ f.run \in Nat /\ f.answer = NoAnswer
    BY <1>1 DEF FlowGood, FlowOK, FlowShape, EndOfStream, Reconnect
  <1>3. FlowGood(Closing(f.conv, f.run, view)) /\ FlowGood(Loop(f.conv, f.run, view))
    BY <1>1, <1>2, LoopGood, Zenon
  <1>4. FlowGood(g)
    <2>1. g \in FlowShape /\ g.conv = f.conv /\ g.answer = NoAnswer /\ g.step = "delay"
      BY <1>1, <1>2 DEF FlowGood, FlowShape
    <2> HIDE DEF g
    <2> QED  BY <1>2, <2>1 DEF FlowGood, FlowOK, Hydrating, Asking
  <1>5. \E h : h \in {Closing(f.conv, f.run, view), Loop(f.conv, f.run, view), g}
              /\ flow' = [flow EXCEPT ![s] = h]
    BY DEF EndOfStream, Reconnect
  <1> QED  BY <1>1, <1>3, <1>4, <1>5, FlowGoesOn

LEMMA LoseKeeps ==
    ASSUME ClientInv, NEW s \in Slot, Lose(s)
    PROVE  ClientInv'
  <1> DEFINE f == flow[s]
             g == [f EXCEPT !.step = "delay", !.answer = NoAnswer]
  <1>1. FlowGood(f) /\ ViewGood(view) /\ f.step # "free"
        /\ UNCHANGED <<serverVars, generation, detail, view>>
    BY FlowsAre DEF Lose, pageVars
  <1>2. g \in FlowShape /\ g.conv = f.conv /\ g.answer = NoAnswer /\ g.step = "delay"
    <2>1. NoAnswer \in [named : Int] \cup ViewShape
      BY DEF NoAnswer
    <2> QED  BY <1>1, <2>1 DEF FlowGood, FlowShape
  <1>3. \E h \in {NoFlow, g} : flow' = [flow EXCEPT ![s] = h]
    BY DEF Lose
  <1> HIDE DEF g
  <1>4. FlowGood(g)
    BY <1>1, <1>2 DEF FlowGood, FlowOK, Hydrating, Asking
  <1>5. detail' \in Conversation \cup {"none"} /\ ViewGood(view')
    BY <1>1 DEF ClientInv, ClientTypeOK
  <1> QED  BY <1>1, <1>3, <1>4, <1>5, NoFlowGood, GoesOn

-----------------------------------------------------------------------------
LEMMA ClientInvInit == ClientInit => ClientInv
  <1> SUFFICES ASSUME ClientInit PROVE ClientInv
    OBVIOUS
  <1>1. NoFlow \in FlowShape /\ FlowOK(NoFlow)
    BY NoFlowGood DEF FlowGood
  <1>2. view \in ViewShape /\ ShownOK(view)
    BY NoViewGood DEF ViewGood, ClientInit
  <1>3. outbox \in [Conversation -> Seq(EventShape)]
    BY DEF ClientInit
  <1> QED  BY <1>1, <1>2, <1>3 DEF ClientInit, ClientInv, ClientTypeOK

LEMMA ClientInvStep == ClientInv /\ [ClientNext]_clientVars => ClientInv'
  <1> SUFFICES ASSUME ClientInv, [ClientNext]_clientVars PROVE ClientInv'
    OBVIOUS
  <1>1. ASSUME NEW c \in Conversation, Emit(c) \/ RunElsewhere(c) PROVE ClientInv'
    BY <1>1, ServerKeeps
  <1>2. ASSUME NEW s \in Slot, NEW c \in Conversation, OpenConversation(s, c) PROVE ClientInv'
    BY <1>2, OpenKeeps
  <1>3. ASSUME NEW s \in Slot, Submit(s) \/ \E step \in {"refresh", "confirm", "recover"} : Ask(s, step)
        PROVE  ClientInv'
    BY <1>3, AskKeeps
  <1>4. ASSUME NEW s \in Slot, FlowStep(s) PROVE ClientInv'
    BY <1>4, AnswerReadKeeps, AnswerAskKeeps, OpenArrivesKeeps, OpenHydratesKeeps, SubmitArrivesKeeps,
       HydratedKeeps, NamedKeeps, ReadEventKeeps, ReloadKeeps, StreamKeeps DEF FlowStep
  <1>5. ASSUME NEW s \in Slot, Lose(s) PROVE ClientInv'
    BY <1>5, LoseKeeps
  <1>6. CASE UNCHANGED clientVars
    BY <1>6, FlowsAre, PageStep DEF clientVars, pageVars, ClientInv, ClientTypeOK
  <1> QED  BY <1>1, <1>2, <1>3, <1>4, <1>5, <1>6 DEF ClientNext

\* The inductive invariant of the browser's view.
THEOREM ClientInvHolds == ClientSpec => []ClientInv
  BY ClientInvInit, ClientInvStep, PTL DEF ClientSpec

\* What the page shows of a run is what the events up to the shown sequence
\* make of it, whatever Snapshots and events overtake each other.
THEOREM ShownIsPrefixHolds == ClientSpec => []ShownIsPrefix
  <1>1. ClientInv => ShownIsPrefix
    BY DEF ClientInv, ShownOK, ViewOK, Upto, ShownIsPrefix
  <1> QED  BY <1>1, ClientInvHolds, PTL
=============================================================================
