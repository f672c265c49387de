----------------------------- MODULE MessageJobs -----------------------------
(***************************************************************************)
(* Saving the messages of a conversation in the background.  The browser   *)
(* starts a job and polls it; the jobs and their keys are a table of the   *)
(* Gateway process, trimmed from its oldest end and gone when the process  *)
(* ends; the message is a row whose id is made of the client's id, looked  *)
(* up before it is inserted.  The browser repeats a start it got no answer *)
(* to, possibly with a payload that has changed since.                     *)
(***************************************************************************)
EXTENDS Integers, Sequences, SequencesExt

CONSTANTS
    Msg,       \* messages, each with its client_message_id
    Content,   \* contents and payloads a start may carry
    MaxJobs,   \* _MAX_CONVERSATION_MESSAGE_JOBS
    MaxIds,    \* jobs started (model bound)
    MaxCrash   \* ends of the process (model bound)

ASSUME MessageJobsAssumption ==
    /\ MaxJobs \in Nat \ {0} /\ MaxIds \in Nat /\ MaxCrash \in Nat
    /\ "absent" \notin Content /\ "edited" \notin Content

VARIABLES
    message,   \* message[m]: the content stored, or "absent"
    table,     \* the jobs, oldest first
    keys,      \* keys[m]: the job of the key of m, 0 for none
    asking,    \* starts that have been let in and not handled
    tasks,     \* tasks[j]: the background task of job j
    ids,       \* jobs started so far
    crashes

jobVars == <<message, table, keys, asking, tasks, ids, crashes>>

JInit ==
    /\ message = [m \in Msg |-> "absent"]
    /\ table = <<>> /\ keys = [m \in Msg |-> 0]
    /\ asking = {} /\ tasks = <<>>
    /\ ids = 0 /\ crashes = 0

StatusOf(j) == LET rows == {k \in DOMAIN table : table[k].id = j}
               IN  IF rows = {} THEN "unknown" ELSE table[CHOOSE k \in rows : TRUE].status

\* The oldest jobs make room for one more, whatever their status, and take
\* their keys along.
Overflow == IF Len(table) < MaxJobs THEN 0 ELSE Len(table) - MaxJobs + 1

Trimmed == {table[k].id : k \in 1 .. Overflow}

\* A start trims before its first await.
AskAppend(m, c) ==
    /\ ids < MaxIds /\ <<m, c>> \notin asking
    /\ asking' = asking \cup {<<m, c>>}
    /\ table' = SubSeq(table, Overflow + 1, Len(table))
    /\ keys' = [x \in Msg |-> IF keys[x] \in Trimmed THEN 0 ELSE keys[x]]
    /\ UNCHANGED <<message, tasks, ids, crashes>>

\* A job of the same key answers unless it has failed.
Reusable(m) == StatusOf(keys[m]) \in {"running", "completed"}

StartAppend(m, c) ==
    /\ <<m, c>> \in asking
    /\ asking' = asking \ {<<m, c>>}
    /\ IF Reusable(m) THEN UNCHANGED <<table, keys, tasks, ids>>
       ELSE /\ ids < MaxIds /\ ids' = ids + 1
            /\ table' = Append(table, [id |-> ids', msg |-> m, status |-> "running"])
            /\ keys' = [keys EXCEPT ![m] = ids']
            /\ tasks' = [j \in DOMAIN tasks \cup {ids'} |->
                            IF j = ids' THEN [msg |-> m, content |-> c, step |-> "look"] ELSE tasks[j]]
    /\ UNCHANGED <<message, crashes>>

\* A job that was trimmed while it ran comes back as the youngest.
Written(j, status) ==
    LET job == [id |-> j, msg |-> tasks[j].msg, status |-> status]
    IN  IF StatusOf(j) = "unknown" THEN Append(table, job)
        ELSE [k \in DOMAIN table |-> IF table[k].id = j THEN job ELSE table[k]]

Ends(j, status) ==
    /\ table' = Written(j, status)
    /\ tasks' = [i \in DOMAIN tasks \ {j} |-> tasks[i]]
    /\ UNCHANGED <<keys, asking, ids, crashes>>

\* A message that is there is the answer.
LookUp(j) ==
    /\ j \in DOMAIN tasks /\ tasks[j].step = "look"
    /\ IF message[tasks[j].msg] = "absent"
       THEN tasks' = [tasks EXCEPT ![j].step = "insert"] /\ UNCHANGED <<table, keys, asking, ids, crashes>>
       ELSE Ends(j, "completed")
    /\ UNCHANGED message

\* Mutant: the insert replaces a row that came in between.
RowReplaced(j) == tasks[j].content

\* A row that came in between is the answer (IntegrityError).
RowAfterInsert(j) ==
    IF message[tasks[j].msg] = "absent" THEN tasks[j].content ELSE message[tasks[j].msg]

Insert(j) ==
    /\ j \in DOMAIN tasks /\ tasks[j].step = "insert"
    /\ message' = [message EXCEPT ![tasks[j].msg] = RowAfterInsert(j)]
    /\ Ends(j, "completed")

\* Any exception, of a commit that arrived as well.
Fail(j) ==
    /\ j \in DOMAIN tasks
    /\ \/ UNCHANGED message
       \/ tasks[j].step = "insert" /\ message' = [message EXCEPT ![tasks[j].msg] = RowAfterInsert(j)]
    /\ Ends(j, "failed")

\* PATCH: an edit of a stored message, by its row id or its client id.
EditMessage(m) ==
    /\ message[m] \notin {"absent", "edited"}
    /\ message' = [message EXCEPT ![m] = "edited"]
    /\ UNCHANGED <<table, keys, asking, tasks, ids, crashes>>

Crash ==
    /\ crashes < MaxCrash /\ crashes' = crashes + 1
    /\ table' = <<>> /\ keys' = [m \in Msg |-> 0] /\ asking' = {} /\ tasks' = <<>>
    /\ UNCHANGED <<message, ids>>

JNext ==
    \/ \E m \in Msg, c \in Content : AskAppend(m, c) \/ StartAppend(m, c)
    \/ \E j \in DOMAIN tasks : LookUp(j) \/ Insert(j) \/ Fail(j)
    \/ \E m \in Msg : EditMessage(m)
    \/ Crash

JSpec == JInit /\ [][JNext]_jobVars

-----------------------------------------------------------------------------
(* A stored message changes only by an edit: no repeated start, in this     *)
(* process or the next, puts its own payload over it, and none brings back  *)
(* what an edit has replaced.                                               *)
FirstContentStays ==
    [][\A m \in Msg : message[m] # "absent" => message'[m] \in {message[m], "edited"}]_jobVars

=============================================================================
