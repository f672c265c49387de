----------------------------- MODULE RunService -----------------------------
(***************************************************************************)
(* What the Sidecar promises its callers about runs, whatever its tasks,   *)
(* threads and commits do: the statuses of the runs and which of them can  *)
(* still be activated.  HarnessRun implements it; TurnStart is built on it *)
(***************************************************************************)

CONSTANT Run

VARIABLES
    status,    \* the status a request of the run reads
    pending    \* runs whose request the process still holds

svcVars == <<status, pending>>

Unfinished == {"accepted", "running", "suspended"}
Verdict == {"completed", "failed", "cancelled"}

SInit ==
    /\ status = [r \in Run |-> "none"]
    /\ pending = {}

Accept(r) ==
    /\ status[r] = "none"
    /\ status' = [status EXCEPT ![r] = "accepted"]
    /\ pending' = pending \cup {r}

\* The model loop starts; only with the request of the run.
Begin(r) ==
    /\ status[r] = "accepted" /\ r \in pending
    /\ status' = [status EXCEPT ![r] = "running"]
    /\ UNCHANGED pending

\* A loop comes to its end; a run that has its verdict keeps it.
Finish(r) ==
    /\ status[r] = "running"
    /\ \E s \in {"completed", "failed", "suspended"} : status' = [status EXCEPT ![r] = s]
    /\ UNCHANGED pending

Cancel(r) ==
    /\ status[r] \in Unfinished
    /\ status' = [status EXCEPT ![r] = "cancelled"]
    /\ pending' = pending \ {r}

\* The request of a run that no longer needs it.
Forget(r) ==
    /\ r \in pending /\ status[r] # "accepted"
    /\ pending' = pending \ {r}
    /\ UNCHANGED status

\* The process ends; a shutdown cancels the runs it finds executing.
Stop ==
    /\ \E S \in SUBSET {r \in Run : status[r] \in Unfinished \ {"accepted"}} :
          status' = [r \in Run |-> IF r \in S THEN "cancelled" ELSE status[r]]
    /\ pending' = {}

\* Mutant: a run that has not begun is left for its caller.
LeftBegun == {"running", "suspended"}

\* The next process closes every run the last one left.
Left == Unfinished

Reconcile ==
    /\ pending = {}
    /\ status' = [r \in Run |-> IF status[r] \in Left THEN "failed" ELSE status[r]]
    /\ UNCHANGED pending

SNext ==
    \/ \E r \in Run : Accept(r) \/ Begin(r) \/ Finish(r) \/ Cancel(r) \/ Forget(r)
    \/ Stop \/ Reconcile

SSpec == SInit /\ [][SNext]_svcVars
=============================================================================
