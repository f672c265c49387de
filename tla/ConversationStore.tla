-------------------------- MODULE ConversationStore --------------------------
(***************************************************************************)
(* The aggregate of one conversation (pixelflow/tasks/store.py): a row     *)
(* that browser tabs read, edit and write back, that the registration of a *)
(* turn patches, and that holds what the browser reported about Jianying   *)
(* draft jobs.                                                             *)
(*                                                                         *)
(* The routes read the row and write it later, so a tab may write a copy   *)
(* that others have changed since.  One write of the store is one step:    *)
(* SQL locks the row, Memory takes a lock of the conversation.  The draft  *)
(* fields are stored twice, in camel and in snake case, always with one    *)
(* value; the model has one.  Titles, task links and the resume error are  *)
(* part of `edit'.                                                         *)
(***************************************************************************)
EXTENDS Integers, FiniteSets

CONSTANTS
    Reader,           \* browser tabs, each holding at most one copy of the row
    Edit,          \* what a tab may put into its own part of the context
    Job,           \* Jianying draft jobs
    Version,       \* storyboard versions a draft is made of
    MaxRevision    \* writes of the row (model bound)

ASSUME ConversationAssumption ==
    /\ MaxRevision \in Nat \ {0}
    /\ "none" \notin Job \cup Edit \cup Version

VARIABLES
    row,     \* the conversation row
    copy     \* copy[t]: the row as tab t has read it, or Unread

convVars == <<row, copy>>

Rank == [queued |-> 1, running |-> 2]
Outcome == {"succeeded", "failed"}           \* a timeout is a failure here
Status == DOMAIN Rank \cup Outcome
\* A record of a draft; `live' is the download link of a success: https and
\* not expired.
NoRecord == [job |-> "none", status |-> "none", live |-> FALSE]
Records ==
    {r \in [job : Job, status : Status, live : BOOLEAN] : r.live => r.status = "succeeded"}
NoJob == [job |-> "none", version |-> "none"]
Unread == [revision |-> 0]

CInit ==
    /\ row = [revision |-> 1, edit |-> "none", phase |-> "idle", runtime |-> 0,
              records |-> [v \in Version |-> NoRecord], pending |-> NoJob]
    /\ copy = [t \in Reader |-> Unread]

-----------------------------------------------------------------------------
(* Writing the row.                                                         *)

\* Mutant: only an edit is a new revision.
StoredByEdit(new) ==
    [new EXCEPT !.revision = IF new.edit = row.edit THEN row.revision ELSE row.revision + 1]

\* A write that changes something is a new revision.
Stored(new) ==
    LET content(r) == [r EXCEPT !.revision = 0]
    IN  IF content(new) = content(row) THEN row
        ELSE [new EXCEPT !.revision = row.revision + 1]

CanWrite == row.revision < MaxRevision

\* get_conversation of a route, or the answer a tab keeps.
Read(t) ==
    /\ copy[t] # row
    /\ copy' = [copy EXCEPT ![t] = row]
    /\ UNCHANGED row

\* Mutant: the tab's copy of the server's fields is stored with its edit.
ReplacedWhole(cur, new) == [new EXCEPT !.phase = cur.phase, !.runtime = cur.runtime]

\* The client replaces the context except the fields the server owns.
Replaced(cur, new) == [cur EXCEPT !.edit = new.edit]

\* PUT: a tab writes its copy with an edit, a phase or both; the revision it
\* expects is optional, and a stale one is answered 409.
UpdateConversation(t) ==
    /\ CanWrite /\ copy[t] # Unread
    /\ \E e \in Edit \cup {copy[t].edit}, p \in {row.phase, "idle"}, versioned \in BOOLEAN :
          /\ versioned => copy[t].revision = row.revision
          /\ row' = Stored([Replaced(row, [copy[t] EXCEPT !.edit = e]) EXCEPT !.phase = p])
    /\ copy' = [copy EXCEPT ![t] = Unread]

\* /resume writes back the context it has read, whatever was stored since.
ResumeConversation(t) ==
    /\ CanWrite /\ copy[t] # Unread
    /\ row' = Stored(Replaced(row, copy[t]))
    /\ copy' = [copy EXCEPT ![t] = Unread]

\* The registration of a turn moves the context version, from the revision it
\* has read.
PatchRuntime(t) ==
    /\ CanWrite /\ copy[t] # Unread /\ copy[t].revision = row.revision
    /\ row' = Stored([row EXCEPT !.runtime = copy[t].runtime + 1])
    /\ copy' = [copy EXCEPT ![t] = Unread]

-----------------------------------------------------------------------------
(* Jianying drafts.                                                         *)

Valid(r) == r.status = "succeeded" /\ r.live

EffectiveStatus(r) == IF r.status = "succeeded" /\ ~r.live THEN "failed" ELSE r.status

\* The reported record inc of job j replaces the stored one.
Supersedes(cur, inc, j) ==
    \/ cur = NoRecord
    \/ /\ j \in {cur.job, row.pending.job}
       /\ ~Valid(cur)
       /\ \/ inc.status = "succeeded"
          \/ cur.job # j
          \/ /\ cur.status \notin Outcome
             /\ inc.status \notin Outcome => Rank[inc.status] >= Rank[cur.status]

\* The report repeats the outcome that is stored.
Repeats(cur, inc, j) ==
    cur.job = j /\ cur.status = inc.status
        /\ (Valid(cur) \/ cur.status \in Outcome \ {"succeeded"})

MergedRecords(report, j) ==
    [v \in Version |-> IF v \in DOMAIN report /\ Supersedes(row.records[v], report[v], j)
                       THEN report[v] ELSE row.records[v]]

\* A job is pending if no other is, and its version has no draft and no
\* outcome of this job yet.
CanSetPending(j, v, recs) ==
    /\ row.pending.job \in {"none", j}
    /\ ~Valid(recs[v])
    /\ ~(recs[v].job = j /\ recs[v].status \in Outcome)

\* The report says that j is pending for v, or (v = "none") that it no longer is.
ResolvedPending(j, v, recs) ==
    IF v = "none" THEN IF row.pending.job = j THEN NoJob ELSE row.pending
    ELSE IF CanSetPending(j, v, recs) THEN [job |-> j, version |-> v] ELSE row.pending

Authorised(report, j, v, recs) ==
    \/ \E u \in DOMAIN report :
          Supersedes(row.records[u], report[u], j) \/ Repeats(row.records[u], report[u], j)
    \/ v = "none" /\ row.pending.job = j
    \/ v # "none" /\ CanSetPending(j, v, recs)

PhaseAfter(report, j, pend, recs, requested) ==
    LET shown == {EffectiveStatus(recs[u]) : u \in DOMAIN report}
    IN  IF pend.job # "none" THEN IF pend.job = j THEN "draft_running" ELSE row.phase
        ELSE IF "succeeded" \in shown THEN "draft_succeeded"
        ELSE IF "failed" \in shown THEN "draft_failed" ELSE requested

\* PATCH jianying-draft-context: any report the validator lets through; every
\* record in it is of the job it names.  There is no revision to expect.
PatchJianyingDraft ==
    /\ CanWrite
    /\ \E j \in Job, v \in Version \cup {"none"}, keys \in SUBSET Version, requested \in {"idle", "draft_running"} :
       \E report \in [keys -> {r \in Records : r.job = j}] :
          LET recs == MergedRecords(report, j)
              pend == ResolvedPending(j, v, recs)
          IN  row' = Stored([row EXCEPT
                  !.records = recs, !.pending = pend,
                  !.phase = IF Authorised(report, j, v, recs)
                            THEN PhaseAfter(report, j, pend, recs, requested) ELSE @])
    /\ UNCHANGED copy

\* The download link of a draft expires; nothing is written.
ExpireLink ==
    \E v \in Version :
        /\ row.records[v].live
        /\ row' = [row EXCEPT !.records[v].live = FALSE]
        /\ copy' = [t \in Reader |-> IF copy[t] = Unread THEN Unread
                                  ELSE IF Valid(copy[t].records[v])
                                          /\ copy[t].records[v].job = row.records[v].job
                                       THEN [copy[t] EXCEPT !.records[v].live = FALSE]
                                       ELSE copy[t]]

CNext ==
    \/ \E t \in Reader : Read(t) \/ UpdateConversation(t) \/ ResumeConversation(t) \/ PatchRuntime(t)
    \/ PatchJianyingDraft
    \/ ExpireLink

CSpec == CInit /\ [][CNext]_convVars

-----------------------------------------------------------------------------
(* Two readers who saw one revision saw the same conversation: an edit that *)
(* names its revision replaces exactly what its author was looking at,      *)
(* although runtime and draft patches write the row without naming any.     *)
RevisionNamesContent ==
    \A t \in Reader : copy[t].revision = row.revision => copy[t] = row

(* What is known about a draft is never taken back, by a late or repeated   *)
(* report or by a tab that writes an old copy: a usable draft stays until   *)
(* its link expires, an outcome only ever gives way to a success of its     *)
(* job, and another job takes the version over only while it is pending.    *)
DraftNeverGoesBack ==
    [][\A v \in Version :
         LET old == row.records[v] new == row.records'[v]
         IN  old # new /\ old # NoRecord =>
               \/ Valid(old) /\ new = [old EXCEPT !.live = FALSE]
               \/ /\ ~Valid(old)
                  /\ \/ new.job # old.job /\ new.job = row.pending.job
                     \/ /\ new.job = old.job
                        /\ \/ new.status = "succeeded"
                           \/ /\ old.status \notin Outcome
                              /\ new.status \notin Outcome => Rank[new.status] >= Rank[old.status]]_convVars
=============================================================================
