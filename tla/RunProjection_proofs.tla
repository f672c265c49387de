------------------------ MODULE RunProjection_proofs ------------------------
(***************************************************************************)
(* Proofs about HarnessRun and RunProjection, for every set of runs, of    *)
(* outcomes and of Gateways and any number of tasks, cuts and crashes.  The*)
(* invariant of the first says what a handler that is between two commits  *)
(* has already written, and which task or request answers for an unfinished*)
(* run.  A projection task is described by what lies behind it: everything *)
(* it is done with is in the Outbox, none of it stops a projection, and its*)
(* reply has been kept.                                                    *)
(***************************************************************************)
EXTENDS RunProjection, Integers, TLAPS

\* Steps of a handler that has not written its verdict, and the statuses a
\* handler has written without saying so.
Deciding == {"note", "respond", "complete", "tools", "fail", "recover", "suspend"}

Said == [sayCompleted |-> "completed", sayFailed |-> "failed", sayRecovery |-> "failed"]

Quiet(l) == \A i \in DOMAIN l : l[i] \notin VerdictEvent

Agrees(s, l) ==
    \A i \in DOMAIN l : l[i] \in VerdictEvent =>
        /\ s = StatusOf(l[i])
        /\ \A j \in DOMAIN l : l[j] \in VerdictEvent => i = j

LoopInv ==
    /\ loop.step \in Deciding => status[loop.run] = "running"
    /\ loop.step \in DOMAIN Said => status[loop.run] = Said[loop.step] /\ Quiet(log[loop.run])

TaskInv ==
    \A r \in Run :
        /\ task[r] \in {"engine", "cancelled"} => status[r] \notin {"none", "accepted"}
        /\ up /\ status[r] = "accepted" => r \in pending
        /\ up /\ status[r] = "running" =>
              task[r] = "engine" \/ (loop.step \in Deciding /\ loop.run = r)

DownInv == ~up => loop = Free /\ pending = {}

VerdictInv == \A r \in Run : Agrees(status[r], log[r])

Inv == TypeOK /\ LoopInv /\ TaskInv /\ DownInv /\ VerdictInv

-----------------------------------------------------------------------------
(* The log.                                                                 *)

LEMMA Appending ==
    ASSUME NEW S, NEW l \in Seq(S), NEW e \in S
    PROVE  /\ Append(l, e) \in Seq(S)
           /\ DOMAIN Append(l, e) = 1 .. Len(l) + 1
           /\ DOMAIN l = 1 .. Len(l)
           /\ Len(l) \in Nat
           /\ \A i \in 1 .. Len(l) : Append(l, e)[i] = l[i]
           /\ Append(l, e)[Len(l) + 1] = e
  OBVIOUS

LEMMA QuietAppend ==
    ASSUME NEW l \in Seq(Event), NEW e \in Event \ VerdictEvent, Quiet(l)
    PROVE  Quiet(Append(l, e))
  <1>1. \A i \in 1 .. Len(l) + 1 : i \in 1 .. Len(l) \/ i = Len(l) + 1
    BY Appending
  <1> QED  BY <1>1, Appending DEF Quiet

LEMMA OtherAppend ==
    ASSUME NEW l \in Seq(Event), NEW e \in Event \ VerdictEvent, NEW s, Agrees(s, l)
    PROVE  Agrees(s, Append(l, e))
  <1>1. \A i \in 1 .. Len(l) + 1 : i \in 1 .. Len(l) \/ i = Len(l) + 1
    BY Appending
  <1>2. \A i \in DOMAIN Append(l, e) :
            Append(l, e)[i] \in VerdictEvent => i \in DOMAIN l /\ Append(l, e)[i] = l[i]
    BY <1>1, Appending
  <1> QED  BY <1>2 DEF Agrees

LEMMA VerdictAppend ==
    ASSUME NEW l \in Seq(Event), NEW e \in VerdictEvent, Quiet(l)
    PROVE  Agrees(StatusOf(e), Append(l, e))
  <1>1. e \in Event
    BY DEF Event
  <1>2. \A i \in 1 .. Len(l) + 1 : i \in 1 .. Len(l) \/ i = Len(l) + 1
    BY Appending
  <1>3. \A i \in DOMAIN Append(l, e) :
            Append(l, e)[i] \in VerdictEvent => i = Len(l) + 1 /\ Append(l, e)[i] = e
    BY <1>1, <1>2, Appending DEF Quiet
  <1> QED  BY <1>3 DEF Agrees

LEMMA UndecidedIsQuiet ==
    ASSUME NEW l, NEW s, s \notin Verdict, Agrees(s, l)
    PROVE  Quiet(l)
  BY DEF Agrees, Quiet, StatusOf, Verdict, VerdictEvent

LEMMA QuietAgrees ==
    ASSUME NEW l, NEW s, Quiet(l)
    PROVE  Agrees(s, l)
  BY DEF Agrees, Quiet

-----------------------------------------------------------------------------
(* Types.                                                                   *)

LEMMA TypeInit == Init => TypeOK
  BY HarnessAssumption DEF Init, TypeOK, Loop, Status, Task, Event

LEMMA CancelledType ==
    ASSUME TypeOK, NEW r \in Run, Cancelled(r)
    PROVE  status' \in [Run -> Status] /\ log' \in [Run -> Seq(Event)]
  <1>1. "cancelled" \in Status /\ "cancelled" \in Event
    BY DEF Status, Verdict, Event, VerdictEvent
  <1>2. Append(log[r], "cancelled") \in Seq(Event)
    BY <1>1, Appending DEF TypeOK
  <1> QED  BY <1>1, <1>2 DEF Cancelled, Record, TypeOK

LEMMA TypeStep == TypeOK /\ [Next]_runVars => TypeOK'
  <1> SUFFICES ASSUME TypeOK, [Next]_runVars PROVE TypeOK'
    OBVIOUS
  <1> USE HarnessAssumption
  <1>a. \A r \in Run : Free \in Loop
    BY DEF Loop
  <1>1. ASSUME NEW r \in Run, CreateRun(r) PROVE TypeOK'
    BY <1>1 DEF CreateRun, Record, TypeOK, Status, Event, Unfinished
  <1>2. ASSUME NEW r \in Run, ActivateRun(r) PROVE TypeOK'
    BY <1>2 DEF ActivateRun, TypeOK, Task
  <1>3. ASSUME NEW r \in Run, CancelRun(r) PROVE TypeOK'
    <2>1. status' \in [Run -> Status] /\ log' \in [Run -> Seq(Event)]
      BY <1>3, CancelledType DEF CancelRun
    <2>2. task' \in [Run -> Task]
      BY <1>3 DEF CancelRun, TypeOK, Task
    <2> QED  BY <1>3, <2>1, <2>2 DEF CancelRun, TypeOK
  <1>4. ASSUME NEW r \in Run, StartIfAccepted(r) PROVE TypeOK'
    BY <1>4 DEF StartIfAccepted, Record, TypeOK, Task, Status, Event, Unfinished, Loop, Script, CommitOrder
  <1>5. ASSUME NEW r \in Run, SdkEmits(r) PROVE TypeOK'
    BY <1>5 DEF SdkEmits, TypeOK, Event
  <1>6. ASSUME NEW r \in Run, EngineReturns(r) PROVE TypeOK'
    <2>1. \A o \in Outcome : FirstStep(o) \subseteq DOMAIN Script
      BY DEF FirstStep, Script, CommitOrder, Outcomes
    <2>2. loop' \in Loop
      BY <1>6, <2>1 DEF EngineReturns, Loop
    <2> QED  BY <1>6, <2>2 DEF EngineReturns, Ended, TypeOK, Task
  <1>7. ASSUME NEW r \in Run, CancelDelivered(r) PROVE TypeOK'
    <2>1. status' \in [Run -> Status] /\ log' \in [Run -> Seq(Event)]
      BY <1>7, CancelledType DEF CancelDelivered
    <2> QED  BY <1>7, <2>1 DEF CancelDelivered, Ended, TypeOK, Task
  <1>8. ASSUME NEW r \in Run, SdkEnds(r) PROVE TypeOK'
    BY <1>8 DEF SdkEnds, TypeOK
  <1>9. ASSUME Commit PROVE TypeOK'
    <2>1. loop \in [run : Run, step : DOMAIN Script]
      BY <1>9 DEF Commit, TypeOK, Loop
    <2>2. LET c == Script[loop.step]
          IN  /\ c.write = "status" => c.value \in Status
              /\ c.write # "status" => c.value \in Event
              /\ c.next # "free" => c.next \in DOMAIN Script
      BY <2>1 DEF Script, CommitOrder, Status, Verdict, Unfinished, Event, VerdictEvent
    <2>3. loop' \in Loop
      BY <1>9, <2>1, <2>2 DEF Commit, Loop
    <2>4. status' \in [Run -> Status]
      BY <1>9, <2>1, <2>2 DEF Commit, TypeOK
    <2>5. log' \in [Run -> Seq(Event)]
      <3>1. \A r \in Run, e \in Event : Append(log[r], e) \in Seq(Event)
        BY Appending DEF TypeOK
      <3> DEFINE c == Script[loop.step]
      <3>2. loop.run \in Run /\ (c.write # "status" => c.value \in Event)
        BY <2>1, <2>2
      <3>3. CASE c.write = "status"
        BY <1>9, <3>3 DEF Commit, TypeOK
      <3>4. CASE c.write # "status"
        <4>1. log' = [log EXCEPT ![loop.run] = Append(@, c.value)]
          BY <1>9, <3>4 DEF Commit
        <4> HIDE DEF c
        <4> QED  BY <3>1, <3>2, <3>4, <4>1 DEF TypeOK
      <3> QED  BY <3>3, <3>4
    <2> QED  BY <1>9, <2>3, <2>4, <2>5 DEF Commit, TypeOK
  <1>10. ASSUME Crash PROVE TypeOK'
    <2>1. stops' \in 0 .. MaxStops
      BY <1>10 DEF Crash, Stopped, TypeOK
    <2> QED  BY <1>10, <2>1 DEF Crash, Stopped, TypeOK, Task, Loop
  <1>11. ASSUME Shutdown PROVE TypeOK'
    <2>1. "cancelled" \in Status /\ "cancelled" \in Event
      BY DEF Status, Verdict, Event, VerdictEvent
    <2>2. \A r \in Run : Append(log[r], "cancelled") \in Seq(Event)
      BY <2>1, Appending DEF TypeOK
    <2>3. status' \in [Run -> Status] /\ log' \in [Run -> Seq(Event)]
      BY <1>11, <2>1, <2>2 DEF Shutdown, TypeOK
    <2>4. stops' \in 0 .. MaxStops
      BY <1>11 DEF Shutdown, Stopped, TypeOK
    <2> QED  BY <1>11, <2>3, <2>4 DEF Shutdown, Stopped, TypeOK, Task, Loop
  <1>12. ASSUME Restart PROVE TypeOK'
    <2>1. "failed" \in Status /\ "recovery" \in Event
      BY DEF Status, Verdict, Event, VerdictEvent
    <2>2. \A r \in Run : Append(log[r], "recovery") \in Seq(Event)
      BY <2>1, Appending DEF TypeOK
    <2>3. status' \in [Run -> Status] /\ log' \in [Run -> Seq(Event)]
      BY <1>12, <2>1, <2>2 DEF Restart, TypeOK
    <2> QED  BY <1>12, <2>3 DEF Restart, TypeOK
  <1>13. CASE UNCHANGED runVars
    BY <1>13 DEF runVars, TypeOK
  <1> QED
    BY <1>1, <1>2, <1>3, <1>4, <1>5, <1>6, <1>7, <1>8, <1>9, <1>10, <1>11, <1>12, <1>13
       DEF Next, RunStep

-----------------------------------------------------------------------------
(* The inductive invariant.                                                 *)

LEMMA InvInit == Init => Inv
  <1> SUFFICES ASSUME Init PROVE Inv
    OBVIOUS
  <1>1. TypeOK
    BY TypeInit
  <1>2. LoopInv /\ TaskInv /\ DownInv
    BY DEF Init, LoopInv, TaskInv, DownInv, Free, Deciding, Said
  <1>3. VerdictInv
    BY DEF Init, VerdictInv, Agrees
  <1> QED  BY <1>1, <1>2, <1>3 DEF Inv

\* While no handler runs, only tasks and requests answer for a run.
LEMMA Idle ==
    ASSUME Inv, Ready
    PROVE  /\ loop.step \notin Deciding /\ loop.step \notin DOMAIN Said
           /\ \A r \in Run : /\ status[r] = "accepted" => r \in pending
                            /\ status[r] = "running" => task[r] = "engine"
  BY DEF Ready, Free, Deciding, Said, Inv, TaskInv

LEMMA CancelledAgrees ==
    ASSUME Inv, NEW r \in Run, Cancelled(r)
    PROVE  /\ status[r] \in Unfinished => status' = [status EXCEPT ![r] = "cancelled"]
           /\ status[r] \notin Unfinished => status' = status
           /\ VerdictInv'
  <1>1. CASE status[r] \notin Unfinished
    BY <1>1 DEF Cancelled, Inv, VerdictInv
  <1>2. CASE status[r] \in Unfinished
    <2>1. /\ status' = [status EXCEPT ![r] = "cancelled"]
          /\ log' = [log EXCEPT ![r] = Append(@, "cancelled")]
      BY <1>2 DEF Cancelled, Record
    <2>2. Quiet(log[r])
      BY <1>2, UndecidedIsQuiet DEF Inv, VerdictInv, Unfinished, Verdict
    <2>3. Agrees("cancelled", Append(log[r], "cancelled"))
      BY <2>2, VerdictAppend DEF Inv, TypeOK, VerdictEvent, StatusOf
    <2>4. VerdictInv'
      BY <2>1, <2>3 DEF Inv, TypeOK, VerdictInv
    <2> QED  BY <1>2, <2>1, <2>4
  <1> QED  BY <1>1, <1>2

LEMMA InvStep == Inv /\ [Next]_runVars => Inv'
  <1> SUFFICES ASSUME Inv, [Next]_runVars PROVE (LoopInv /\ TaskInv /\ DownInv /\ VerdictInv)'
    BY TypeStep DEF Inv
  <1> USE DEF Inv
  <1>1. ASSUME NEW r \in Run, CreateRun(r) PROVE (LoopInv /\ TaskInv /\ DownInv /\ VerdictInv)'
    <2> USE <1>1 DEF CreateRun, Record
    <2>1. LoopInv' /\ DownInv'
      BY Idle DEF Ready, LoopInv, DownInv
    <2>2. TaskInv'
      BY Idle DEF Ready, TaskInv, TypeOK
    <2>3. VerdictInv'
      <3>1. Agrees("accepted", Append(log[r], "accepted"))
        <4>1. Quiet(log[r])
          BY UndecidedIsQuiet DEF VerdictInv, Verdict
        <4> QED  BY <4>1, QuietAppend, QuietAgrees DEF TypeOK, Event, VerdictEvent
      <3> QED  BY <3>1 DEF VerdictInv, TypeOK
    <2> QED  BY <2>1, <2>2, <2>3
  <1>2. ASSUME NEW r \in Run, ActivateRun(r) PROVE (LoopInv /\ TaskInv /\ DownInv /\ VerdictInv)'
    BY <1>2 DEF ActivateRun, Activatable, LoopInv, TaskInv, DownInv, VerdictInv, TypeOK
  <1>3. ASSUME NEW r \in Run, CancelRun(r) PROVE (LoopInv /\ TaskInv /\ DownInv /\ VerdictInv)'
    <2> USE <1>3 DEF CancelRun
    <2>1. LoopInv' /\ DownInv'
      BY Idle DEF Ready, LoopInv, DownInv
    <2>2. TaskInv'
      <3>1. CASE status[r] \in Unfinished
        <4>1. status' = [status EXCEPT ![r] = "cancelled"]
          BY <3>1, CancelledAgrees
        <4> QED  BY <4>1, Idle DEF Ready, TaskInv, TypeOK
      <3>2. CASE status[r] \notin Unfinished
        <4>1. status' = status
          BY <3>2, CancelledAgrees
        <4> QED  BY <3>2, <4>1, Idle DEF Ready, TaskInv, TypeOK, Unfinished
      <3> QED  BY <3>1, <3>2
    <2> QED  BY <2>1, <2>2, CancelledAgrees
  <1>4. ASSUME NEW r \in Run, StartIfAccepted(r) PROVE (LoopInv /\ TaskInv /\ DownInv /\ VerdictInv)'
    <2> USE <1>4 DEF StartIfAccepted, Record
    <2>1. LoopInv' /\ DownInv'
      BY DEF Ready, LoopInv, DownInv, Deciding, Said
    <2>2. TaskInv'
      BY Idle DEF Ready, TaskInv, TypeOK
    <2>3. VerdictInv'
      <3>1. Agrees("running", Append(log[r], "started"))
        <4>1. Quiet(log[r])
          BY UndecidedIsQuiet DEF VerdictInv, Verdict
        <4> QED  BY <4>1, QuietAppend, QuietAgrees DEF TypeOK, Event, VerdictEvent
      <3> QED  BY <3>1 DEF VerdictInv, TypeOK
    <2> QED  BY <2>1, <2>2, <2>3
  <1>5. ASSUME NEW r \in Run, SdkEmits(r) PROVE (LoopInv /\ TaskInv /\ DownInv /\ VerdictInv)'
    <2> USE <1>5 DEF SdkEmits
    <2>1. LoopInv' /\ DownInv' /\ TaskInv'
      BY Idle DEF Ready, LoopInv, DownInv, TaskInv
    <2>2. VerdictInv'
      <3>1. Agrees(status[r], Append(log[r], "note"))
        BY OtherAppend DEF TypeOK, Event, VerdictEvent, VerdictInv
      <3> QED  BY <3>1 DEF VerdictInv, TypeOK
    <2> QED  BY <2>1, <2>2
  <1>6. ASSUME NEW r \in Run, EngineReturns(r) PROVE (LoopInv /\ TaskInv /\ DownInv /\ VerdictInv)'
    <2> USE <1>6 DEF EngineReturns, Ended
    <2>1. status[r] = "running" => loop'.run = r /\ loop'.step \in Deciding
      BY HarnessAssumption DEF FirstStep, Outcomes, Deciding
    <2>2. status[r] # "running" => loop' = Free
      OBVIOUS
    <2>3. loop'.step \notin DOMAIN Said
      BY <2>1, <2>2 DEF Deciding, Said, Free
    <2>4. LoopInv'
      BY <2>1, <2>2, <2>3 DEF LoopInv, Deciding, Free
    <2>5. TaskInv'
      BY <2>1, <2>2, Idle DEF TaskInv, TypeOK
    <2>6. DownInv' /\ VerdictInv'
      BY DEF Ready, DownInv, VerdictInv
    <2> QED  BY <2>4, <2>5, <2>6
  <1>7. ASSUME NEW r \in Run, CancelDelivered(r) PROVE (LoopInv /\ TaskInv /\ DownInv /\ VerdictInv)'
    <2> USE <1>7 DEF CancelDelivered, Ended
    <2>1. LoopInv' /\ DownInv'
      BY Idle DEF Ready, LoopInv, DownInv
    <2>2. TaskInv'
      BY Idle, CancelledAgrees DEF Ready, TaskInv, TypeOK, Unfinished
    <2> QED  BY <2>1, <2>2, CancelledAgrees
  <1>8. ASSUME NEW r \in Run, SdkEnds(r) PROVE (LoopInv /\ TaskInv /\ DownInv /\ VerdictInv)'
    BY <1>8 DEF SdkEnds, LoopInv, TaskInv, DownInv, VerdictInv
  <1>9. ASSUME Commit PROVE (LoopInv /\ TaskInv /\ DownInv /\ VerdictInv)'
    <2> DEFINE r == loop.run
               c == Script[loop.step]
    <2>1. r \in Run /\ loop.step \in DOMAIN Script
      BY <1>9 DEF Commit, TypeOK, Loop
    <2>2. loop' = IF c.next = "free" THEN Free ELSE [loop EXCEPT !.step = c.next]
      BY <1>9 DEF Commit
    <2>3. up /\ up' /\ pending' = pending /\ task' = task
      BY <1>9 DEF Commit
    <2>4. CASE c.write = "status"
      <3>1. status' = [status EXCEPT ![r] = c.value] /\ log' = log
        BY <1>9, <2>4 DEF Commit
      <3>2. /\ loop.step \in Deciding
            /\ c.value \in {"completed", "failed", "suspended"}
            /\ c.next # "free" /\ c.next \notin Deciding
            /\ c.next \in DOMAIN Said => c.value = Said[c.next]
        BY <2>1, <2>4 DEF Script, CommitOrder, Deciding, Said
      <3>3. status[r] = "running" /\ Quiet(log[r])
        BY <2>1, <3>2, UndecidedIsQuiet DEF LoopInv, VerdictInv, Verdict
      <3>4. loop'.run = r /\ loop'.step = c.next
        BY <2>1, <2>2, <3>2 DEF TypeOK, Loop, Free
      <3>5. status'[r] = c.value /\ \A q \in Run \ {r} : status'[q] = status[q]
        BY <2>1, <3>1 DEF TypeOK
      <3> HIDE DEF r, c
      <3>6. LoopInv'
        BY <3>1, <3>2, <3>3, <3>4, <3>5 DEF LoopInv
      <3>7. TaskInv'
        BY <2>3, <3>2, <3>3, <3>5 DEF TaskInv, r
      <3>8. VerdictInv'
        BY <2>1, <3>1, <3>3, <3>5, QuietAgrees DEF VerdictInv
      <3> QED  BY <2>3, <3>6, <3>7, <3>8 DEF DownInv
    <2>5. CASE c.write # "status"
      <3>1. log' = [log EXCEPT ![r] = Append(@, c.value)] /\ status' = status
        BY <1>9, <2>5 DEF Commit
      <3>2. \/ /\ c.value \in Event \ VerdictEvent
               /\ loop.step \in Deciding => c.next \in Deciding
               /\ loop.step \notin Deciding => c.next = "free"
               /\ loop.step \notin DOMAIN Said
            \/ /\ c.value \in VerdictEvent /\ c.next = "free"
               /\ loop.step \in DOMAIN Said /\ Said[loop.step] = StatusOf(c.value)
        BY <2>1, <2>5 DEF Script, CommitOrder, Deciding, Said, Event, VerdictEvent, StatusOf
      <3>3. loop.step \in Deciding => loop' = [loop EXCEPT !.step = c.next] /\ c.next \in Deciding
        BY <2>2, <3>2 DEF Deciding, Said
      <3>4. loop.step \notin Deciding => loop' = Free
        BY <2>2, <3>2
      <3>5. LoopInv'
        BY <2>1, <3>1, <3>3, <3>4 DEF LoopInv, Deciding, Said, Free, TypeOK, Loop
      <3>6. TaskInv'
        <4>1. loop.step \in Deciding => loop'.run = loop.run /\ loop'.step \in Deciding
          BY <3>3 DEF TypeOK, Loop, Free
        <4>2. status' = status
          BY <3>1
        <4> HIDE DEF r, c
        <4> QED  BY <2>3, <4>1, <4>2 DEF TaskInv
      <3>7. Agrees(status[r], Append(log[r], c.value))
        <4>1. CASE c.value \in Event \ VerdictEvent
          BY <2>1, <4>1, OtherAppend DEF VerdictInv, TypeOK
        <4>2. CASE c.value \in VerdictEvent
          <5>1. Quiet(log[r]) /\ status[r] = StatusOf(c.value)
            BY <3>2, <4>2 DEF LoopInv
          <5> QED  BY <2>1, <4>2, <5>1, VerdictAppend DEF TypeOK
        <4> QED  BY <3>2, <4>1, <4>2
      <3>8. VerdictInv'
        BY <2>1, <3>1, <3>7 DEF VerdictInv, TypeOK
      <3> QED  BY <2>3, <3>5, <3>6, <3>8 DEF DownInv
    <2> QED  BY <2>4, <2>5
  <1>10. ASSUME Crash PROVE (LoopInv /\ TaskInv /\ DownInv /\ VerdictInv)'
    BY <1>10 DEF Crash, Stopped, LoopInv, TaskInv, DownInv, VerdictInv, Free, Deciding, Said
  <1>11. ASSUME Shutdown PROVE (LoopInv /\ TaskInv /\ DownInv /\ VerdictInv)'
    <2>1. LoopInv' /\ TaskInv' /\ DownInv'
      BY <1>11 DEF Shutdown, Stopped, LoopInv, TaskInv, DownInv, Free, Deciding, Said
    <2>2. ASSUME NEW r \in Run PROVE Agrees(status'[r], log'[r])
      <3> DEFINE stopped == task[r] \in {"engine", "cancelled"} /\ status[r] \in Unfinished
      <3>1. CASE stopped
        <4>1. status'[r] = "cancelled" /\ log'[r] = Append(log[r], "cancelled")
          BY <1>11, <3>1 DEF Shutdown
        <4>2. Quiet(log[r])
          BY <3>1, UndecidedIsQuiet DEF VerdictInv, Unfinished, Verdict
        <4> QED  BY <4>1, <4>2, VerdictAppend DEF TypeOK, VerdictEvent, StatusOf
      <3>2. CASE ~stopped
        BY <1>11, <3>2 DEF Shutdown, VerdictInv
      <3> QED  BY <3>1, <3>2
    <2> QED  BY <2>1, <2>2 DEF VerdictInv
  <1>12. ASSUME Restart PROVE (LoopInv /\ TaskInv /\ DownInv /\ VerdictInv)'
    <2>1. LoopInv' /\ DownInv'
      BY <1>12 DEF Restart, LoopInv, DownInv, Free, Deciding, Said
    <2>2. \A r \in Run : status'[r] = IF status[r] \in Unfinished THEN "failed" ELSE status[r]
      BY <1>12 DEF Restart, Reconciled
    <2>3. TaskInv'
      BY <1>12, <2>2 DEF Restart, TaskInv, Unfinished
    <2>4. ASSUME NEW r \in Run PROVE Agrees(status'[r], log'[r])
      <3>1. CASE status[r] \in Unfinished
        <4>1. status'[r] = "failed" /\ log'[r] = Append(log[r], "recovery")
          BY <1>12, <3>1 DEF Restart, Reconciled
        <4>2. Quiet(log[r])
          BY <3>1, UndecidedIsQuiet DEF VerdictInv, Unfinished, Verdict
        <4> QED  BY <4>1, <4>2, VerdictAppend DEF TypeOK, VerdictEvent, StatusOf
      <3>2. CASE status[r] \notin Unfinished
        BY <1>12, <3>2 DEF Restart, Reconciled, VerdictInv
      <3> QED  BY <3>1, <3>2
    <2> QED  BY <2>1, <2>3, <2>4 DEF VerdictInv
  <1>13. CASE UNCHANGED runVars
    BY <1>13 DEF runVars, LoopInv, TaskInv, DownInv, VerdictInv
  <1> QED
    BY <1>1, <1>2, <1>3, <1>4, <1>5, <1>6, <1>7, <1>8, <1>9, <1>10, <1>11, <1>12, <1>13
       DEF Next, RunStep

-----------------------------------------------------------------------------
(* The theorems.                                                            *)

\* The invariant: who may still write for a run, and what it has written.
THEOREM InvHolds == Spec => []Inv
  BY InvInit, InvStep, PTL DEF Spec

\* Every status, event, task and place of a handler is one the code can write
\* (the types of RunService and its tables).
THEOREM TypeCorrect == Spec => []TypeOK
  <1>1. Inv => TypeOK
    BY DEF Inv
  <1> QED  BY <1>1, InvHolds, PTL

\* The log of a run never holds two verdicts nor one its status contradicts,
\* wherever cancels and ends of the process fall between two commits of
\* RunService._execute.
THEOREM OneVerdictHolds == Spec => []OneVerdict
  <1>1. Inv => OneVerdict
    BY DEF Inv, VerdictInv, Agrees, OneVerdict
  <1> QED  BY <1>1, InvHolds, PTL

\* activate_run finds the request of every accepted run, and a running run has
\* a task or a handler that will end it.
THEOREM UnfinishedIsOwnedHolds == Spec => []UnfinishedIsOwned
  <1>1. Inv => UnfinishedIsOwned
    BY DEF Inv, TaskInv, UnfinishedIsOwned
  <1> QED  BY <1>1, InvHolds, PTL

-----------------------------------------------------------------------------
(* HarnessRun implements RunService.                                        *)

LEMMA ServiceInit == Init => Service!SInit
  BY DEF Init, Service!SInit

LEMMA ServiceStep == Inv /\ [Next]_runVars => [Service!SNext]_(Service!svcVars)
  <1> SUFFICES ASSUME Inv, [Next]_runVars PROVE Service!SNext \/ UNCHANGED <<status, pending>>
    BY DEF Service!svcVars
  <1> USE DEF Inv
  <1>a. ASSUME NEW r \in Run, Cancelled(r), pending' = pending \ {r}, status[r] # "accepted" \/ status[r] \in Unfinished
        PROVE  Service!SNext \/ UNCHANGED <<status, pending>>
    <2>1. CASE status[r] \in Unfinished
      <3>1. Service!Cancel(r)
        BY <1>a, <2>1, CancelledAgrees DEF Service!Cancel, Service!Unfinished, Unfinished
      <3> QED  BY <3>1 DEF Service!SNext
    <2>2. CASE status[r] \notin Unfinished /\ r \in pending
      <3>1. Service!Forget(r)
        BY <1>a, <2>2, CancelledAgrees DEF Service!Forget, Unfinished
      <3> QED  BY <3>1 DEF Service!SNext
    <2>3. CASE status[r] \notin Unfinished /\ r \notin pending
      BY <1>a, <2>3, CancelledAgrees
    <2> QED  BY <2>1, <2>2, <2>3
  <1>1. ASSUME NEW r \in Run, CreateRun(r) PROVE Service!SNext
    <2>1. Service!Accept(r)
      BY <1>1 DEF CreateRun, Record, Service!Accept
    <2> QED  BY <2>1 DEF Service!SNext
  <1>2. ASSUME NEW r \in Run, CancelRun(r) PROVE Service!SNext \/ UNCHANGED <<status, pending>>
    BY <1>2, <1>a DEF CancelRun, Unfinished
  <1>3. ASSUME NEW r \in Run, StartIfAccepted(r) PROVE Service!SNext
    <2>1. Service!Begin(r)
      <3>1. Ready /\ status[r] = "accepted"
        BY <1>3 DEF StartIfAccepted
      <3>2. r \in pending
        BY <3>1 DEF Ready, TaskInv
      <3> QED  BY <1>3, <3>1, <3>2 DEF StartIfAccepted, Record, Service!Begin
    <2> QED  BY <2>1 DEF Service!SNext
  <1>4. ASSUME NEW r \in Run, EngineReturns(r) PROVE Service!SNext \/ UNCHANGED <<status, pending>>
    <2>1. status' = status /\ pending' = pending \ {r} /\ status[r] # "accepted"
      BY <1>4 DEF EngineReturns, Ended, TaskInv
    <2>2. CASE r \in pending
      <3>1. Service!Forget(r)
        BY <2>1, <2>2 DEF Service!Forget
      <3> QED  BY <3>1 DEF Service!SNext
    <2> QED  BY <2>1, <2>2
  <1>5. ASSUME NEW r \in Run, CancelDelivered(r) PROVE Service!SNext \/ UNCHANGED <<status, pending>>
    BY <1>5, <1>a DEF CancelDelivered, Ended, TaskInv
  <1>6. ASSUME Commit PROVE Service!SNext \/ UNCHANGED <<status, pending>>
    <2> DEFINE r == loop.run
               c == Script[loop.step]
    <2>1. r \in Run /\ loop.step \in DOMAIN Script /\ pending' = pending
      BY <1>6 DEF Commit, TypeOK, Loop
    <2>2. CASE c.write = "status"
      <3>1. status' = [status EXCEPT ![r] = c.value]
        BY <1>6, <2>2 DEF Commit
      <3>2. loop.step \in Deciding /\ c.value \in {"completed", "failed", "suspended"}
        BY <2>1, <2>2 DEF Script, CommitOrder, Deciding
      <3>3. status[r] = "running"
        BY <3>2 DEF LoopInv
      <3> HIDE DEF r, c
      <3>4. Service!Finish(r)
        BY <2>1, <3>1, <3>2, <3>3 DEF Service!Finish
      <3> QED  BY <2>1, <3>4 DEF Service!SNext
    <2>3. CASE c.write # "status"
      BY <1>6, <2>1, <2>3 DEF Commit
    <2> QED  BY <2>2, <2>3
  <1>7. ASSUME Crash PROVE Service!SNext
    <2>1. Service!Stop
      <3>1. status' = [r \in Run |-> IF r \in {} THEN "cancelled" ELSE status[r]] /\ pending' = {}
        BY <1>7 DEF Crash, Stopped, TypeOK
      <3> QED  BY <3>1 DEF Service!Stop
    <2> QED  BY <2>1 DEF Service!SNext
  <1>8. ASSUME Shutdown PROVE Service!SNext
    <2>1. Service!Stop
      <3> DEFINE S == {r \in Run : task[r] \in {"engine", "cancelled"} /\ status[r] \in Unfinished}
      <3>1. status' = [r \in Run |-> IF r \in S THEN "cancelled" ELSE status[r]] /\ pending' = {}
        BY <1>8 DEF Shutdown, Stopped
      <3>2. S \subseteq {r \in Run : status[r] \in Service!Unfinished \ {"accepted"}}
        BY DEF TaskInv, Unfinished, Service!Unfinished
      <3> HIDE DEF S
      <3> QED  BY <3>1, <3>2 DEF Service!Stop
    <2> QED  BY <2>1 DEF Service!SNext
  <1>9. ASSUME Restart PROVE Service!SNext
    <2>1. Service!Reconcile
      BY <1>9 DEF Restart, DownInv, Reconciled, Unfinished,
                  Service!Reconcile, Service!Left, Service!Unfinished
    <2> QED  BY <2>1 DEF Service!SNext
  <1>10. ASSUME NEW r \in Run, ActivateRun(r) \/ SdkEmits(r) \/ SdkEnds(r) PROVE UNCHANGED <<status, pending>>
    BY <1>10 DEF ActivateRun, SdkEmits, SdkEnds
  <1>11. CASE UNCHANGED runVars
    BY <1>11 DEF runVars
  <1> QED
    BY <1>1, <1>2, <1>3, <1>4, <1>5, <1>6, <1>7, <1>8, <1>9, <1>10, <1>11 DEF Next, RunStep

\* The Sidecar with its tasks, threads and commits changes the statuses and
\* requests of its runs only as RunService allows: every verdict is final, and
\* the restart closes what the last process left.
THEOREM RunServiceImplemented == Spec => ImplementsRunService
  BY InvHolds, ServiceInit, ServiceStep, PTL DEF Spec, ImplementsRunService, Service!SSpec

-----------------------------------------------------------------------------
(* The log of a run.                                                        *)

Replied(l, n) == \E j \in 1 .. n : l[j] = "response"

\* A run is completed after its reply only.
ReplyInv ==
    /\ loop.step \in {"complete", "sayCompleted"} => Replied(log[loop.run], Len(log[loop.run]))
    /\ \A r \in Run : \A i \in DOMAIN log[r] : log[r][i] = "completed" => Replied(log[r], i)

\* m begins with l.
Begins(l, m) == Len(l) <= Len(m) /\ \A i \in 1 .. Len(l) : m[i] = l[i]

LogGrows == \A r \in Run : Begins(log[r], log'[r])

-----------------------------------------------------------------------------
(* The projection.                                                          *)

TaskShape == [stream : {"off", "read", "send", "ended"}, sent : Nat, done : Nat]

PTypeOK ==
    /\ bound \subseteq Run
    /\ proj \in [Gateway -> [Run -> TaskShape]]
    /\ outbox \in [Run -> Seq([event : Event, sequence : Nat])]

\* A projection may go on after the first n events of r.
Behind(r, n) ==
    \A i \in 1 .. n : log[r][i] \notin Stops /\ (log[r][i] = "response" => r \in message)

TaskOK(g, r) ==
    /\ proj[g][r].done <= proj[g][r].sent
    /\ proj[g][r].sent <= Len(log[r])
    /\ proj[g][r].done <= Len(outbox[r])
    /\ Behind(r, proj[g][r].done)

OutboxOK(r) ==
    /\ Len(outbox[r]) <= Len(log[r])
    /\ \A i \in 1 .. Len(outbox[r]) : outbox[r][i] = Entry(r, i)
    /\ Behind(r, Len(outbox[r]) - 1)

ProjInv ==
    /\ PTypeOK
    /\ \A r \in Run : OutboxOK(r)
    /\ \A g \in Gateway, r \in Run : TaskOK(g, r)

PInv == Inv /\ ReplyInv /\ ProjInv

-----------------------------------------------------------------------------
(* How logs grow.                                                           *)

LEMMA AppendBegins ==
    ASSUME NEW S, NEW l \in Seq(S), NEW e \in S
    PROVE  Begins(l, Append(l, e)) /\ Begins(l, l)
  BY DEF Begins

LEMMA RepliedGoesOn ==
    ASSUME NEW l \in Seq(Event), NEW m \in Seq(Event), Begins(l, m),
           NEW n \in 0 .. Len(l), NEW k \in Nat, n <= k, Replied(l, n)
    PROVE  Replied(m, k)
  BY DEF Begins, Replied

\* A log grows by one event, which says that the run is completed only in the
\* handler that has written so.
Says(r, e) == e = "completed" => loop.step = "sayCompleted" /\ loop.run = r

LogMoves(r) ==
    \/ log'[r] = log[r]
    \/ \E e \in Event : log'[r] = Append(log[r], e) /\ Says(r, e)

LEMMA RecordMoves ==
    ASSUME TypeOK, NEW q \in Run, NEW e \in Event \ {"completed"},
           log' = [log EXCEPT ![q] = Append(@, e)]
    PROVE  \A r \in Run : LogMoves(r)
  BY DEF TypeOK, LogMoves, Says

LEMMA LogStep ==
    ASSUME Inv, [Next]_runVars
    PROVE  \A r \in Run : LogMoves(r)
  <1>1. TypeOK
    BY DEF Inv
  <1>2. {"accepted", "started", "note", "cancelled", "recovery"} \subseteq Event \ {"completed"}
    BY DEF Event, VerdictEvent
  <1>3. CASE UNCHANGED log
    BY <1>3 DEF LogMoves
  <1>4. ASSUME NEW q \in Run, CreateRun(q) \/ StartIfAccepted(q) \/ SdkEmits(q)
        PROVE  \A r \in Run : LogMoves(r)
    <2>1. \E e \in Event \ {"completed"} : log' = [log EXCEPT ![q] = Append(@, e)]
      BY <1>2, <1>4 DEF CreateRun, StartIfAccepted, SdkEmits, Record
    <2> QED  BY <1>1, <2>1, RecordMoves
  <1>5. ASSUME NEW q \in Run, CancelRun(q) \/ CancelDelivered(q)
        PROVE  \A r \in Run : LogMoves(r)
    <2>1. UNCHANGED log \/ log' = [log EXCEPT ![q] = Append(@, "cancelled")]
      BY <1>5 DEF CancelRun, CancelDelivered, Cancelled, Record
    <2> QED  BY <1>1, <1>2, <1>3, <2>1, RecordMoves
  <1>6. ASSUME Commit PROVE \A r \in Run : LogMoves(r)
    <2> DEFINE c == Script[loop.step]
    <2>1. loop.run \in Run /\ loop.step \in DOMAIN Script
      BY <1>1, <1>6 DEF Commit, TypeOK, Loop
    <2>2. \/ UNCHANGED log
          \/ c.write # "status" /\ log' = [log EXCEPT ![loop.run] = Append(@, c.value)]
      BY <1>6 DEF Commit
    <2>3. c.write # "status" =>
              c.value \in Event /\ (c.value = "completed" => loop.step = "sayCompleted")
      BY <2>1 DEF Script, CommitOrder, Event, VerdictEvent
    <2> HIDE DEF c
    <2>4. ASSUME NEW r \in Run, c.write # "status",
                 log' = [log EXCEPT ![loop.run] = Append(@, c.value)]
          PROVE  LogMoves(r)
      BY <1>1, <2>1, <2>3, <2>4 DEF TypeOK, LogMoves, Says
    <2> QED  BY <1>3, <2>2, <2>4
  <1>7. ASSUME Shutdown \/ Restart PROVE \A r \in Run : LogMoves(r)
    <2>1. \A r \in Run : \/ log'[r] = log[r]
                         \/ log'[r] = Append(log[r], "cancelled")
                         \/ log'[r] = Append(log[r], "recovery")
      BY <1>7 DEF Shutdown, Restart
    <2> QED  BY <1>2, <2>1 DEF LogMoves, Says
  <1>8. CASE Crash \/ UNCHANGED runVars \/ \E q \in Run : ActivateRun(q) \/ EngineReturns(q) \/ SdkEnds(q)
    <2>1. UNCHANGED log
      BY <1>8 DEF Crash, runVars, ActivateRun, EngineReturns, SdkEnds
    <2> QED  BY <1>3, <2>1
  <1> QED  BY <1>4, <1>5, <1>6, <1>7, <1>8 DEF Next, RunStep

LEMMA LogStepGrows ==
    ASSUME Inv, [Next]_runVars
    PROVE  LogGrows
  <1>1. TypeOK
    BY DEF Inv
  <1>2. \A r \in Run : LogMoves(r)
    BY LogStep
  <1> SUFFICES ASSUME NEW r \in Run PROVE Begins(log[r], log'[r])
    BY DEF LogGrows
  <1>3. log[r] \in Seq(Event)
    BY <1>1 DEF TypeOK
  <1>4. log'[r] = log[r] \/ \E e \in Event : log'[r] = Append(log[r], e)
    BY <1>2 DEF LogMoves
  <1>5. Begins(log[r], log[r])
    BY <1>3 DEF Begins
  <1> QED  BY <1>3, <1>4, <1>5, AppendBegins

\* The handler that completes a run has written its reply.
LEMMA LoopStep ==
    ASSUME Inv, [Next]_runVars, loop'.step \in {"complete", "sayCompleted"}
    PROVE  \/ loop' = loop
           \/ loop'.run = loop.run /\ loop.step = "complete"
           \/ /\ loop'.run = loop.run /\ loop.run \in Run
              /\ log' = [log EXCEPT ![loop.run] = Append(@, "response")]
  <1>1. Free.step \notin {"complete", "sayCompleted"}
    BY DEF Free
  <1>2. CASE Commit
    <2>1. loop \in [run : Run, step : DOMAIN Script]
      BY <1>2 DEF Commit, Inv, TypeOK, Loop
    <2>2. Script[loop.step].next # "free" /\ loop' = [loop EXCEPT !.step = Script[loop.step].next]
      BY <1>1, <1>2 DEF Commit
    <2>3. loop'.run = loop.run /\ loop'.step = Script[loop.step].next
      BY <2>1, <2>2
    <2>4. loop.step \in {"respond", "complete"}
      BY <2>1, <2>3 DEF Script, CommitOrder
    <2>5. loop.step = "respond" => log' = [log EXCEPT ![loop.run] = Append(@, "response")]
      BY <1>2 DEF Commit, Script, CommitOrder
    <2> QED  BY <2>1, <2>3, <2>4, <2>5
  <1>3. ASSUME NEW q \in Run, StartIfAccepted(q) \/ EngineReturns(q) PROVE FALSE
    BY <1>1, <1>3, HarnessAssumption DEF StartIfAccepted, EngineReturns, FirstStep, Outcomes
  <1>4. CASE Crash \/ Shutdown
    BY <1>1, <1>4 DEF Crash, Shutdown, Stopped
  <1>5. CASE UNCHANGED loop
    BY <1>5
  <1> QED
    BY <1>2, <1>3, <1>4, <1>5
       DEF Next, RunStep, CreateRun, ActivateRun, CancelRun, SdkEmits, CancelDelivered, SdkEnds,
           Restart, runVars

LEMMA ReplyStep ==
    ASSUME Inv, ReplyInv, [Next]_runVars
    PROVE  ReplyInv'
  <1>1. TypeOK /\ TypeOK'
    BY InvStep DEF Inv
  <1>2. \A r \in Run : log[r] \in Seq(Event) /\ log'[r] \in Seq(Event)
    BY <1>1 DEF TypeOK
  <1>3. LogGrows
    BY LogStepGrows
  <1>4. ASSUME loop'.step \in {"complete", "sayCompleted"}
        PROVE  Replied(log'[loop'.run], Len(log'[loop'.run]))
    <2>1. CASE loop'.run = loop.run /\ loop.step \in {"complete", "sayCompleted"}
      <3>1. loop.run \in Run /\ Replied(log[loop.run], Len(log[loop.run]))
        BY <1>1, <2>1 DEF TypeOK, Loop, Free, ReplyInv
      <3> QED  BY <1>2, <1>3, <2>1, <3>1, RepliedGoesOn DEF LogGrows, Begins
    <2>2. CASE /\ loop'.run = loop.run /\ loop.run \in Run
               /\ log' = [log EXCEPT ![loop.run] = Append(@, "response")]
      <3>1. log'[loop.run] = Append(log[loop.run], "response")
        BY <1>1, <2>2 DEF TypeOK
      <3> QED  BY <1>2, <2>2, <3>1 DEF Replied
    <2> QED  BY <1>4, <2>1, <2>2, LoopStep
  <1>5. ASSUME NEW r \in Run, NEW i \in DOMAIN log'[r], log'[r][i] = "completed"
        PROVE  Replied(log'[r], i)
    <2>1. Begins(log[r], log'[r])
      BY <1>3 DEF LogGrows
    <2>2. CASE i <= Len(log[r])
      <3>1. i \in DOMAIN log[r] /\ log[r][i] = "completed"
        BY <1>2, <1>5, <2>1, <2>2 DEF Begins
      <3> QED  BY <1>2, <2>1, <3>1, RepliedGoesOn DEF ReplyInv
    <2>3. CASE i > Len(log[r])
      <3>1. PICK e \in Event : log'[r] = Append(log[r], e) /\ Says(r, e)
        BY <1>2, <1>5, <2>3, LogStep DEF LogMoves
      <3>2. e = "completed" /\ i = Len(log[r]) + 1
        BY <1>2, <1>5, <2>3, <3>1
      <3>3. Replied(log[r], Len(log[r]))
        BY <3>1, <3>2 DEF Says, ReplyInv
      <3> QED  BY <1>2, <2>1, <3>2, <3>3, RepliedGoesOn
    <2> QED  BY <1>2, <2>2, <2>3
  <1> QED  BY <1>4, <1>5 DEF ReplyInv

-----------------------------------------------------------------------------
(* How a projection goes on.                                                *)

\* The steps that publish nothing: a task stays where it is, begins again or
\* reads on.
LEMMA TasksGoOn ==
    ASSUME Inv, ProjInv, TypeOK', LogGrows, UNCHANGED <<outbox, message>>, PTypeOK',
           \A g \in Gateway, r \in Run :
               /\ proj'[g][r].done \in {0, proj[g][r].done}
               /\ proj'[g][r].done <= proj'[g][r].sent
               /\ proj'[g][r].sent <= Len(log[r])
    PROVE  ProjInv'
  <1>1. \A r \in Run : log[r] \in Seq(Event) /\ log'[r] \in Seq(Event) /\ Begins(log[r], log'[r])
    BY DEF Inv, TypeOK, LogGrows
  <1>2. ASSUME NEW r \in Run, NEW n \in Int, n <= Len(log[r]), Behind(r, n)
        PROVE  Behind(r, n)'
    BY <1>1, <1>2 DEF Behind, Begins
  <1>3. ASSUME NEW r \in Run PROVE OutboxOK(r)'
    <2>1. OutboxOK(r) /\ Len(outbox[r]) \in Nat
      BY DEF ProjInv, PTypeOK
    <2>2. Len(outbox[r]) - 1 <= Len(log[r]) /\ Len(outbox[r]) - 1 \in Int
      BY <1>1, <2>1 DEF OutboxOK
    <2>3. Behind(r, Len(outbox[r]) - 1)'
      <3>1. \A n \in Int : n <= Len(log[r]) /\ Behind(r, n) => Behind(r, n)'
        BY <1>2
      <3> QED  BY <1>1, <2>1, <2>2 DEF Behind, OutboxOK, Begins
    <2>4. \A i \in 1 .. Len(outbox[r]) : outbox[r][i] = Entry(r, i)'
      BY <1>1, <2>1 DEF OutboxOK, Entry, Begins
    <2>5. Len(outbox[r]) <= Len(log'[r])
      BY <1>1, <2>1 DEF OutboxOK, Begins
    <2> QED  BY <2>3, <2>4, <2>5 DEF OutboxOK
  <1>4. ASSUME NEW g \in Gateway, NEW r \in Run PROVE TaskOK(g, r)'
    <2>1. TaskOK(g, r) /\ proj[g][r] \in TaskShape /\ proj'[g][r] \in TaskShape
      BY DEF ProjInv, PTypeOK
    <2>2. proj'[g][r].sent <= Len(log'[r])
      BY <1>1, <2>1 DEF Begins, TaskShape
    <2>3. proj'[g][r].done <= Len(outbox[r])
      <3>1. Len(outbox[r]) \in Nat
        BY DEF ProjInv, PTypeOK
      <3> QED  BY <2>1, <3>1 DEF TaskOK, TaskShape
    <2>4. proj'[g][r].done \in Int /\ proj'[g][r].done <= Len(log[r])
      BY <1>1, <2>1 DEF TaskShape
    <2>5. Behind(r, proj'[g][r].done)
      BY <2>1 DEF TaskOK, Behind, TaskShape
    <2>6. \A i \in 1 .. proj'[g][r].done :
              log'[r][i] \notin Stops /\ (log'[r][i] = "response" => r \in message')
      BY <1>1, <2>4, <2>5 DEF Behind, Begins
    <2> QED  BY <2>2, <2>3, <2>6 DEF TaskOK, Behind
  <1> QED  BY <1>3, <1>4 DEF ProjInv

\* IsNew and the entry it looks for.
LEMMA PublishedIs ==
    ASSUME Inv, ProjInv, NEW r \in Run, NEW i \in Nat \ {0}
    PROVE  Published(r, i) <=> i <= Len(outbox[r])
  <1>1. DOMAIN outbox[r] = 1 .. Len(outbox[r]) /\ Len(outbox[r]) \in Nat
    BY DEF ProjInv, PTypeOK
  <1>2. \A k \in 1 .. Len(outbox[r]) : outbox[r][k].sequence = k
    <2> TAKE k \in 1 .. Len(outbox[r])
    <2>1. outbox[r][k] = Entry(r, k)
      BY DEF ProjInv, OutboxOK
    <2> QED  BY <2>1 DEF Entry
  <1> QED  BY <1>1, <1>2 DEF Published

LEMMA NextIs ==
    ASSUME Inv, ProjInv, NEW g \in Gateway, NEW r \in Run, HasNext(g, r)
    PROVE  /\ NextEvent(g, r) \in 1 .. Len(log[r])
           /\ proj[g][r].done = NextEvent(g, r) - 1 /\ proj[g][r].done \in Nat
           /\ Behind(r, NextEvent(g, r) - 1)
           /\ proj[g][r].sent \in Nat /\ NextEvent(g, r) <= proj[g][r].sent
           /\ proj[g][r].sent <= Len(log[r])
  <1>1. proj[g][r] \in TaskShape /\ TaskOK(g, r) /\ Len(log[r]) \in Nat
    BY DEF Inv, TypeOK, ProjInv, PTypeOK
  <1>2. /\ proj[g][r].done \in Nat /\ proj[g][r].sent \in Nat
        /\ NextEvent(g, r) = proj[g][r].done + 1 /\ proj[g][r].done < proj[g][r].sent
    BY <1>1 DEF TaskShape, HasNext, NextEvent
  <1> QED  BY <1>1, <1>2 DEF TaskOK

LEMMA PublishKeeps ==
    ASSUME Inv, ProjInv, NEW g \in Gateway, NEW r \in Run, Publish(g, r)
    PROVE  ProjInv'
  <1> DEFINE n == NextEvent(g, r)
  <1>1. HasNext(g, r) /\ IsNew(r, n) /\ UNCHANGED <<runVars, bound, proj, message>>
    BY DEF Publish
  <1>2. outbox' = [outbox EXCEPT ![r] = Append(@, Entry(r, n))]
    BY DEF Publish
  <1>3. n \in 1 .. Len(log[r]) /\ proj[g][r].done = n - 1 /\ Behind(r, n - 1)
    BY <1>1, NextIs
  <1>4. outbox[r] \in Seq([event : Event, sequence : Nat]) /\ log[r] \in Seq(Event)
    BY DEF Inv, TypeOK, ProjInv, PTypeOK
  <1>5. n = Len(outbox[r]) + 1
    <2>1. n \in Nat \ {0} /\ Len(outbox[r]) \in Nat
      BY <1>3, <1>4
    <2>2. n > Len(outbox[r])
      BY <1>1, <2>1, PublishedIs DEF IsNew
    <2>3. n - 1 <= Len(outbox[r])
      BY <1>3 DEF ProjInv, TaskOK
    <2> QED  BY <2>1, <2>2, <2>3
  <1>6. UNCHANGED log
    BY <1>1 DEF runVars
  <1>7. Entry(r, n) \in [event : Event, sequence : Nat]
    BY <1>3, <1>4 DEF Entry
  <1> HIDE DEF n
  <1>8. PTypeOK'
    <2>1. outbox' \in [Run -> Seq([event : Event, sequence : Nat])]
      <3>1. Append(outbox[r], Entry(r, n)) \in Seq([event : Event, sequence : Nat])
        BY <1>4, <1>7
      <3> QED  BY <1>2, <3>1 DEF ProjInv, PTypeOK
    <2> QED  BY <1>1, <2>1 DEF ProjInv, PTypeOK
  <1>9. /\ outbox'[r] = Append(outbox[r], Entry(r, n))
        /\ \A q \in Run \ {r} : outbox'[q] = outbox[q]
    BY <1>2 DEF ProjInv, PTypeOK
  <1>10. Len(outbox'[r]) = Len(outbox[r]) + 1 /\ Len(outbox[r]) \in Nat
    BY <1>4, <1>7, <1>9
  <1>11. OutboxOK(r)'
    <2>1. \A i \in 1 .. Len(outbox[r]) : outbox'[r][i] = Entry(r, i)
      BY <1>4, <1>7, <1>9 DEF ProjInv, OutboxOK
    <2>2. outbox'[r][n] = Entry(r, n)
      BY <1>4, <1>5, <1>7, <1>9
    <2>3. \A i \in 1 .. Len(outbox'[r]) : i \in 1 .. Len(outbox[r]) \/ i = n
      BY <1>5, <1>10
    <2>4. Len(outbox'[r]) <= Len(log[r]) /\ Behind(r, Len(outbox'[r]) - 1)
      BY <1>3, <1>5, <1>10
    <2> QED  BY <1>1, <1>6, <2>1, <2>2, <2>3, <2>4 DEF OutboxOK, Entry, Behind
  <1>12. ASSUME NEW q \in Run, q # r PROVE OutboxOK(q)'
    BY <1>1, <1>6, <1>9, <1>12 DEF ProjInv, OutboxOK, Entry, Behind
  <1>13. ASSUME NEW f \in Gateway, NEW q \in Run PROVE TaskOK(f, q)'
    <2>1. TaskOK(f, q) /\ proj[f][q].done \in Nat /\ Len(outbox[q]) \in Nat
      BY DEF ProjInv, PTypeOK, TaskShape
    <2>2. proj[f][q].done <= Len(outbox'[q])
      BY <1>9, <1>10, <2>1 DEF TaskOK
    <2> QED  BY <1>1, <1>6, <2>1, <2>2 DEF TaskOK, Behind
  <1> QED  BY <1>8, <1>11, <1>12, <1>13 DEF ProjInv

LEMMA PassKeeps ==
    ASSUME Inv, ProjInv, NEW g \in Gateway, NEW r \in Run, Pass(g, r)
    PROVE  ProjInv'
  <1> DEFINE n == NextEvent(g, r)
             p == proj[g][r]
             m == IF EndsProjection(log[r][n]) THEN Off ELSE [p EXCEPT !.done = n]
  <1>1. /\ HasNext(g, r) /\ Published(r, n) /\ UNCHANGED <<runVars, bound, outbox>>
        /\ message' = IF log[r][n] = "response" THEN message \cup {r} ELSE message
    BY DEF Pass, Replies
  <1>2. proj' = [proj EXCEPT ![g][r] = m]
    BY DEF Pass
  <1>3. /\ n \in 1 .. Len(log[r]) /\ Behind(r, n - 1)
        /\ p.sent \in Nat /\ n <= p.sent /\ p.sent <= Len(log[r])
    BY <1>1, NextIs
  <1>4. n <= Len(outbox[r])
    BY <1>1, <1>3, PublishedIs
  <1>5. UNCHANGED log
    BY <1>1 DEF runVars
  <1>6. p \in TaskShape
    BY DEF ProjInv, PTypeOK
  <1>7. m \in TaskShape
    BY <1>3, <1>6 DEF TaskShape, Off, Task0
  <1>8. /\ proj'[g][r] = m
        /\ \A f \in Gateway, q \in Run : (f # g \/ q # r) => proj'[f][q] = proj[f][q]
        /\ proj' \in [Gateway -> [Run -> TaskShape]]
    <2> HIDE DEF m
    <2> QED  BY <1>2, <1>7 DEF ProjInv, PTypeOK
  <1>9. PTypeOK'
    BY <1>1, <1>8 DEF ProjInv, PTypeOK
  <1>10. ASSUME NEW q \in Run PROVE OutboxOK(q)'
    <2>1. Len(outbox[q]) - 1 \in Int /\ OutboxOK(q)
      BY DEF ProjInv, PTypeOK
    <2>2. Behind(q, Len(outbox[q]) - 1)'
      <3>1. outbox' = outbox /\ log' = log /\ message \subseteq message'
        BY <1>1, <1>5
      <3>2. Behind(q, Len(outbox[q]) - 1)
        BY <2>1 DEF OutboxOK
      <3> QED  BY <3>1, <3>2 DEF Behind
    <2> QED  BY <1>1, <1>5, <2>1, <2>2 DEF OutboxOK, Entry
  <1>11. ASSUME NEW f \in Gateway, NEW q \in Run, (f # g \/ q # r) PROVE TaskOK(f, q)'
    <2>1. TaskOK(f, q) /\ proj[f][q].done \in Int /\ proj'[f][q] = proj[f][q]
      <3>1. TaskOK(f, q) /\ proj[f][q].done \in Int
        BY DEF ProjInv, PTypeOK, TaskShape
      <3> QED  BY <1>8, <1>11, <3>1
    <2>2. Behind(q, proj[f][q].done)'
      <3>1. proj'[f][q] = proj[f][q] /\ log' = log /\ message \subseteq message'
        BY <1>1, <1>5, <2>1
      <3>2. Behind(q, proj[f][q].done)
        BY <2>1 DEF TaskOK
      <3> QED  BY <3>1, <3>2 DEF Behind
    <2> QED  BY <1>1, <1>5, <2>1, <2>2 DEF TaskOK, Behind
  <1>12. TaskOK(g, r)'
    <2>1. CASE EndsProjection(log[r][n])
      <3>1. proj'[g][r].done = 0 /\ proj'[g][r].sent = 0
        BY <1>8, <2>1 DEF Off, Task0
      <3>2. Len(log[r]) \in Nat /\ Len(outbox[r]) \in Nat
        BY DEF Inv, TypeOK, ProjInv, PTypeOK
      <3> QED  BY <1>1, <1>5, <3>1, <3>2 DEF TaskOK, Behind
    <2>2. CASE ~EndsProjection(log[r][n])
      <3>1. proj'[g][r].done = n /\ proj'[g][r].sent = p.sent
        BY <1>6, <1>8, <2>2 DEF TaskShape
      <3>2. log[r][n] \notin Stops /\ (log[r][n] = "response" => r \in message')
        BY <1>1, <2>2 DEF EndsProjection
      <3> HIDE DEF n, p, m
      <3>3. \A i \in 1 .. n : log[r][i] \notin Stops /\ (log[r][i] = "response" => r \in message')
        <4>1. \A i \in 1 .. n : i \in 1 .. n - 1 \/ i = n
          BY <1>3
        <4> QED  BY <1>1, <1>3, <3>2, <4>1 DEF Behind
      <3> QED  BY <1>1, <1>3, <1>4, <1>5, <3>1, <3>3 DEF TaskOK, Behind
    <2> QED  BY <2>1, <2>2
  <1> QED  BY <1>9, <1>10, <1>11, <1>12 DEF ProjInv

-----------------------------------------------------------------------------
(* The inductive invariant.                                                 *)

LEMMA SidecarSteps ==
    ASSUME PTypeOK, [PNext]_allVars
    PROVE  [Next]_runVars
  <1>1. CASE SidecarStep
    BY <1>1 DEF SidecarStep, PTypeOK, Next
  <1>2. CASE SidecarStop
    BY <1>2 DEF SidecarStop, Next
  <1>3. ASSUME NEW r \in Run, Bind(r) \/ CloseWatch(r) PROVE UNCHANGED runVars
    BY <1>3 DEF Bind, CloseWatch
  <1>4. ASSUME NEW g \in Gateway, NEW r \in Run,
               \/ EnsureProjection(g, r) \/ OpenWatch(g, r)
               \/ ProjectStep(g, r) \/ CutStream(g, r) \/ GatewayCrash(g)
        PROVE  UNCHANGED runVars
    BY <1>4 DEF EnsureProjection, OpenWatch, ProjectStep, ReadBatch, CheckStatus, Publish, Pass,
                Drained, CutStream, GatewayCrash
  <1>5. ASSUME NEW g \in Gateway, GatewayCrash(g) PROVE UNCHANGED runVars
    BY <1>5 DEF GatewayCrash
  <1>6. CASE UNCHANGED allVars
    BY <1>6 DEF allVars
  <1> QED  BY <1>1, <1>2, <1>3, <1>4, <1>5, <1>6 DEF PNext

LEMMA PInit_PInv == PInit => PInv
  <1> SUFFICES ASSUME PInit PROVE PInv
    OBVIOUS
  <1>1. Inv /\ \A r \in Run : log[r] = <<>>
    BY InvInit DEF PInit, Init
  <1>2. ReplyInv
    BY <1>1 DEF PInit, Init, ReplyInv, Free
  <1>3. PTypeOK
    BY DEF PInit, PTypeOK, Off, Task0, TaskShape
  <1>4. /\ \A r \in Run : outbox[r] = <<>>
        /\ \A g \in Gateway, r \in Run : proj[g][r].done = 0 /\ proj[g][r].sent = 0
    BY DEF PInit, Off, Task0
  <1>5. \A r \in Run : OutboxOK(r)
    <2>1. ASSUME NEW r \in Run PROVE Len(outbox[r]) = 0 /\ Len(log[r]) = 0
      <3>1. Len(<<>>) = 0
        OBVIOUS
      <3>2. outbox[r] = <<>> /\ log[r] = <<>>
        BY <1>1, <1>4
      <3> QED  BY <3>1, <3>2, Zenon
    <2>2. ASSUME NEW r \in Run PROVE OutboxOK(r)
      <3>1. Len(outbox[r]) = 0 /\ Len(log[r]) = 0
        BY <2>1
      <3>2. Behind(r, Len(outbox[r]) - 1)
        BY <3>1 DEF Behind
      <3>3. 1 .. Len(outbox[r]) = {} /\ Len(outbox[r]) <= Len(log[r])
        BY <3>1
      <3> QED  BY <3>2, <3>3 DEF OutboxOK
    <2> QED  BY <2>2
  <1>6. \A g \in Gateway, r \in Run : TaskOK(g, r)
    <2>1. ASSUME NEW r \in Run PROVE Len(outbox[r]) = 0 /\ Len(log[r]) = 0
      <3>1. Len(<<>>) = 0
        OBVIOUS
      <3>2. outbox[r] = <<>> /\ log[r] = <<>>
        BY <1>1, <1>4
      <3> QED  BY <3>1, <3>2, Zenon
    <2>2. ASSUME NEW g \in Gateway, NEW r \in Run PROVE TaskOK(g, r)
      <3>1. /\ Len(outbox[r]) = 0 /\ Len(log[r]) = 0
            /\ proj[g][r].done = 0 /\ proj[g][r].sent = 0
        BY <1>4, <2>1
      <3>2. Behind(r, proj[g][r].done)
        BY <3>1 DEF Behind
      <3> QED  BY <3>1, <3>2 DEF TaskOK
    <2> QED  BY <2>2
  <1> QED  BY <1>1, <1>2, <1>3, <1>5, <1>6 DEF PInv, ProjInv

\* The steps between that move one task.
LEMMA OneTaskMoves ==
    ASSUME Inv, ProjInv, TypeOK', NEW g \in Gateway, NEW r \in Run, NEW n \in TaskShape,
           proj' = [proj EXCEPT ![g][r] = n] \/ UNCHANGED proj,
           n.done \in {0, proj[g][r].done}, n.done <= n.sent, n.sent <= Len(log[r]),
           UNCHANGED <<runVars, bound, outbox, message>>
    PROVE  ProjInv'
  <1>1. PTypeOK'
    <2>1. proj \in [Gateway -> [Run -> TaskShape]]
      BY DEF ProjInv, PTypeOK
    <2>2. proj' \in [Gateway -> [Run -> TaskShape]]
      BY <2>1
    <2> QED  BY <2>2 DEF ProjInv, PTypeOK
  <1>2. LogGrows
    BY AppendBegins DEF LogGrows, runVars, Inv, TypeOK, Begins
  <1>3. ASSUME NEW f \in Gateway, NEW q \in Run
        PROVE  /\ proj'[f][q].done \in {0, proj[f][q].done}
               /\ proj'[f][q].done <= proj'[f][q].sent
               /\ proj'[f][q].sent <= Len(log[q])
    <2>1. proj'[f][q] = proj[f][q] \/ (f = g /\ q = r /\ proj'[f][q] = n)
      BY DEF ProjInv, PTypeOK
    <2>2. TaskOK(f, q)
      BY DEF ProjInv
    <2> QED  BY <2>1, <2>2 DEF TaskOK
  <1> QED  BY <1>1, <1>2, <1>3, TasksGoOn

LEMMA OffIs == Off \in TaskShape /\ Off.done = 0 /\ Off.sent = 0
  BY DEF Off, Task0, TaskShape

LEMMA ReadKeeps ==
    ASSUME Inv, ProjInv, TypeOK', NEW g \in Gateway, NEW r \in Run,
           \/ EnsureProjection(g, r) \/ OpenWatch(g, r) \/ CutStream(g, r)
           \/ ReadBatch(g, r) \/ CheckStatus(g, r) \/ Drained(g, r)
    PROVE  ProjInv'
  <1> DEFINE p == proj[g][r]
  <1>1. p \in TaskShape /\ TaskOK(g, r) /\ Len(log[r]) \in Nat
    BY DEF Inv, TypeOK, ProjInv, PTypeOK
  <1>2. UNCHANGED <<runVars, bound, outbox, message>>
    BY DEF EnsureProjection, OpenWatch, CutStream, ReadBatch, CheckStatus, Drained
  <1>3. ASSUME NEW n \in TaskShape,
               proj' = [proj EXCEPT ![g][r] = n] \/ UNCHANGED proj,
               n.done \in {0, p.done}, n.done <= n.sent, n.sent <= Len(log[r])
        PROVE  ProjInv'
    BY <1>2, <1>3, OneTaskMoves
  <1>4. CASE EnsureProjection(g, r) \/ OpenWatch(g, r)
    <2> DEFINE n == Task0("read")
    <2>1. proj' = [proj EXCEPT ![g][r] = n] \/ UNCHANGED proj
      BY <1>4 DEF EnsureProjection, OpenWatch, Started
    <2>2. n \in TaskShape /\ n.done = 0 /\ n.sent = 0
      BY DEF Task0, TaskShape
    <2> HIDE DEF n
    <2>3. n.done \in {0, p.done} /\ n.done <= n.sent /\ n.sent <= Len(log[r])
      BY <1>1, <2>2
    <2> QED  BY <1>3, <2>1, <2>2, <2>3, Zenon
  <1>5. CASE CutStream(g, r) \/ Drained(g, r)
    <2>1. proj' = [proj EXCEPT ![g][r] = Off]
      BY <1>5 DEF CutStream, Drained
    <2>2. Off.done \in {0, p.done} /\ Off.done <= Off.sent /\ Off.sent <= Len(log[r])
      BY <1>1, OffIs
    <2> QED  BY <1>3, <2>1, <2>2, OffIs, Zenon
  <1>6. ASSUME NEW stream \in {"ended", "read"}, proj' = [proj EXCEPT ![g][r].stream = stream]
        PROVE  ProjInv'
    <2> DEFINE n == [p EXCEPT !.stream = stream]
    <2>1. n \in TaskShape /\ n.done = p.done /\ n.sent = p.sent
      BY <1>1 DEF TaskShape
    <2>2. proj' = [proj EXCEPT ![g][r] = n]
      BY <1>6
    <2> HIDE DEF n
    <2>3. n.done \in {0, p.done} /\ n.done <= n.sent /\ n.sent <= Len(log[r])
      BY <1>1, <2>1 DEF TaskOK
    <2> QED  BY <1>3, <2>1, <2>2, <2>3, Zenon
  <1>7. CASE CheckStatus(g, r)
    BY <1>6, <1>7 DEF CheckStatus
  <1>8. CASE ReadBatch(g, r)
    <2>1. CASE p.sent < Len(log[r])
      <3> DEFINE n == [p EXCEPT !.sent = Len(log[r]), !.stream = "send"]
      <3>1. n \in TaskShape /\ n.done = p.done /\ n.sent = Len(log[r])
        BY <1>1 DEF TaskShape
      <3>2. proj' = [proj EXCEPT ![g][r] = n]
        BY <1>8, <2>1 DEF ReadBatch
      <3>3. p.done <= Len(log[r])
        BY <1>1 DEF TaskOK, TaskShape
      <3> HIDE DEF n
      <3>4. n.done \in {0, p.done} /\ n.done <= n.sent /\ n.sent <= Len(log[r])
        BY <1>1, <3>1, <3>3
      <3> QED  BY <1>3, <3>1, <3>2, <3>4, Zenon
    <2>2. CASE ~(p.sent < Len(log[r]))
      BY <1>6, <1>8, <2>2 DEF ReadBatch
    <2> QED  BY <2>1, <2>2
  <1> QED  BY <1>4, <1>5, <1>7, <1>8

LEMMA ProjStep ==
    ASSUME PInv, [PNext]_allVars
    PROVE  PInv'
  <1> USE DEF PInv
  <1>1. [Next]_runVars
    BY SidecarSteps DEF ProjInv
  <1>2. Inv' /\ TypeOK' /\ ReplyInv' /\ LogGrows
    BY <1>1, InvStep, ReplyStep, LogStepGrows DEF Inv
  <1> SUFFICES ProjInv'
    BY <1>2
  <1>3. \A g \in Gateway, r \in Run :
            /\ proj[g][r].done <= proj[g][r].sent
            /\ proj[g][r].sent <= Len(log[r])
    BY DEF ProjInv, TaskOK
  <1>4. \A r \in Run : Len(log[r]) \in Nat /\ 0 <= Len(log[r])
    BY DEF Inv, TypeOK
  <1>5. ASSUME PTypeOK', UNCHANGED <<outbox, message>>,
               \A g \in Gateway, r \in Run : proj'[g][r] = proj[g][r] \/ proj'[g][r] = Off
        PROVE  ProjInv'
    <2>1. ASSUME NEW g \in Gateway, NEW r \in Run
          PROVE  /\ proj'[g][r].done \in {0, proj[g][r].done}
                 /\ proj'[g][r].done <= proj'[g][r].sent
                 /\ proj'[g][r].sent <= Len(log[r])
      BY <1>3, <1>4, <1>5, OffIs
    <2> QED  BY <1>2, <1>5, <2>1, TasksGoOn
  <1>6. CASE UNCHANGED <<bound, proj, outbox, message>>
    BY <1>5, <1>6 DEF ProjInv, PTypeOK
  <1>7. CASE SidecarStep \/ UNCHANGED allVars \/ \E r \in Run : CloseWatch(r)
    <2>1. UNCHANGED <<bound, proj, outbox, message>>
      BY <1>7 DEF SidecarStep, projVars, allVars, CloseWatch
    <2> QED  BY <1>6, <2>1
  <1>8. ASSUME NEW r \in Run, Bind(r) PROVE ProjInv'
    <2>1. bound' = bound \cup {r} /\ UNCHANGED <<proj, outbox, message>>
      BY <1>8 DEF Bind
    <2> QED  BY <1>5, <2>1 DEF ProjInv, PTypeOK
  <1>9. CASE SidecarStop \/ \E g \in Gateway : GatewayCrash(g)
    <2>1. /\ UNCHANGED <<bound, outbox, message>>
          /\ \/ proj' = [g \in Gateway |-> [r \in Run |-> Off]]
             \/ \E g \in Gateway : proj' = [proj EXCEPT ![g] = [r \in Run |-> Off]]
      BY <1>9 DEF SidecarStop, GatewayCrash
    <2>2. [r \in Run |-> Off] \in [Run -> TaskShape]
      BY OffIs
    <2>3. /\ proj' \in [Gateway -> [Run -> TaskShape]]
          /\ \A g \in Gateway, r \in Run : proj'[g][r] = proj[g][r] \/ proj'[g][r] = Off
      BY <2>1, <2>2 DEF ProjInv, PTypeOK
    <2> QED  BY <1>5, <2>1, <2>3 DEF ProjInv, PTypeOK
  <1>10. ASSUME NEW g \in Gateway, NEW r \in Run,
                EnsureProjection(g, r) \/ OpenWatch(g, r) \/ ProjectStep(g, r) \/ CutStream(g, r)
         PROVE  ProjInv'
    BY <1>2, <1>10, ReadKeeps, PublishKeeps, PassKeeps DEF ProjectStep
  <1> QED  BY <1>2, <1>7, <1>8, <1>9, <1>10 DEF PNext

-----------------------------------------------------------------------------
(* The theorems.                                                            *)

\* The invariant, with every number of Gateways that project the same run.
THEOREM PInvHolds == PSpec => []PInv
  <1>1. PInv /\ [PNext]_allVars => PInv'
    BY ProjStep
  <1> QED  BY <1>1, PInit_PInv, PTL DEF PSpec

\* get_event and the source's event id keep every entry of a run's log in the
\* Outbox once and in the order of the log, whoever projects it and wherever
\* streams break and processes end.
THEOREM OutboxFollowsLogHolds == PSpec => []OutboxFollowsLog
  <1>1. PInv => OutboxFollowsLog
    <2> SUFFICES ASSUME PInv, NEW r \in Run
                 PROVE  /\ Len(outbox[r]) <= Len(log[r])
                        /\ \A i \in DOMAIN outbox[r] : outbox[r][i] = Entry(r, i)
      BY DEF OutboxFollowsLog
    <2>1. OutboxOK(r) /\ DOMAIN outbox[r] = 1 .. Len(outbox[r])
      BY DEF PInv, ProjInv, PTypeOK
    <2> QED  BY <2>1 DEF OutboxOK
  <1> QED  BY <1>1, PInvHolds, PTL

\* Nothing is projected after a verdict: _project_until_terminal ends there,
\* and a task that begins again finds the verdict published.
THEOREM VerdictComesLastHolds == PSpec => []VerdictComesLast
  <1>1. PInv => VerdictComesLast
    <2> SUFFICES ASSUME PInv, NEW r \in Run, NEW i \in DOMAIN outbox[r],
                        outbox[r][i].event \in VerdictEvent
                 PROVE  i = Len(outbox[r])
      BY DEF VerdictComesLast
    <2>1. OutboxOK(r) /\ DOMAIN outbox[r] = 1 .. Len(outbox[r]) /\ Len(outbox[r]) \in Nat
      BY DEF PInv, ProjInv, PTypeOK
    <2>2. outbox[r][i] = Entry(r, i)
      BY <2>1 DEF OutboxOK
    <2>3. log[r][i] \in Stops
      BY <2>2 DEF Entry, Stops
    <2>4. Behind(r, Len(outbox[r]) - 1)
      BY <2>1 DEF OutboxOK
    <2>5. i \notin 1 .. Len(outbox[r]) - 1
      BY <2>3, <2>4 DEF Behind
    <2> QED  BY <2>1, <2>5
  <1> QED  BY <1>1, PInvHolds, PTL

\* A run shown as completed has its reply, though _append_response_message
\* comes after the event of the reply and a crash may fall between.
THEOREM CompletedHasReplyHolds == PSpec => []CompletedHasReply
  <1>1. PInv => CompletedHasReply
    <2> SUFFICES ASSUME PInv, NEW r \in Run, Shown(r) = "completed"
                 PROVE  r \in message
      BY DEF CompletedHasReply
    <2> DEFINE n == Len(outbox[r])
    <2>1. OutboxOK(r) /\ n \in Nat /\ log[r] \in Seq(Event)
      BY DEF PInv, ProjInv, PTypeOK, Inv, TypeOK
    <2>2. outbox[r] # <<>> /\ StateOf(outbox[r][n].event) = "completed"
      BY DEF Shown
    <2>3. n \in 1 .. Len(log[r]) /\ outbox[r][n] = Entry(r, n)
      <3>1. n # 0
        BY <2>2 DEF PInv, ProjInv, PTypeOK
      <3> QED  BY <2>1, <3>1 DEF OutboxOK
    <2>4. log[r][n] = "completed"
      <3>1. StateOf(log[r][n]) = "completed"
        BY <2>2, <2>3 DEF Entry
      <3> QED  BY <3>1 DEF StateOf, StatusOf
    <2>5. Replied(log[r], n)
      BY <2>1, <2>3, <2>4 DEF PInv, ReplyInv
    <2>6. PICK j \in 1 .. n : log[r][j] = "response"
      BY <2>5 DEF Replied
    <2>7. j \in 1 .. n - 1
      BY <2>1, <2>4, <2>6
    <2> QED  BY <2>1, <2>6, <2>7 DEF OutboxOK, Behind
  <1> QED  BY <1>1, PInvHolds, PTL

\* Nothing the Gateways do with the runs of a Sidecar leads it astray: under
\* the projection too it does what RunService allows and keeps its verdicts.
THEOREM SidecarStaysWhole ==
    PSpec => ImplementsRunService /\ []OneVerdict /\ []UnfinishedIsOwned
  <1>1. PInv /\ [PNext]_allVars => [Service!SNext]_(Service!svcVars)
    BY SidecarSteps, ServiceStep DEF PInv, ProjInv
  <1>2. PInit => Service!SInit
    BY ServiceInit DEF PInit
  <1>3. PInv => OneVerdict /\ UnfinishedIsOwned
    BY DEF PInv, Inv, VerdictInv, Agrees, TaskInv, OneVerdict, UnfinishedIsOwned
  <1> QED  BY <1>1, <1>2, <1>3, PInvHolds, PTL DEF PSpec, ImplementsRunService, Service!SSpec
=============================================================================
