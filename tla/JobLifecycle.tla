---------------------------- MODULE JobLifecycle ----------------------------
(***************************************************************************)
(* What a GenerationJob promises to everything that reads its row: the     *)
(* Tool that submitted it, the workspace projection and the progress board.*)
(* Leases, workers, processes and provider answers are not visible here;   *)
(* GenerationJobs is shown to implement this module.                       *)
(***************************************************************************)
CONSTANT Job

VARIABLES phase,   \* phase[j]: status of the row, "absent" before the insert
          bound    \* bound[j]: a provider_job_id has been written to the row

vars == <<phase, bound>>

Phase == {"absent", "queued", "starting", "polling",
          "succeeded", "failed", "indeterminate"}

\* A worker's verdict on a job it holds.
Verdict == {"succeeded", "failed", "indeterminate"}

TypeOK == /\ phase \in [Job -> Phase]
          /\ bound \in [Job -> BOOLEAN]

Init == /\ phase = [j \in Job |-> "absent"]
        /\ bound = [j \in Job |-> FALSE]

Keep(j) == bound'[j] = bound[j]

Submit(j) == phase[j] = "absent" /\ phase'[j] = "queued" /\ Keep(j)
Claim(j)  == phase[j] = "queued" /\ phase'[j] = "starting" /\ Keep(j)
Bind(j)   == phase[j] = "starting" /\ phase'[j] = "polling" /\ bound'[j]
Decide(j) == phase[j] \in {"starting", "polling"} /\ phase'[j] \in Verdict /\ Keep(j)

\* Only an undecided job that the provider did accept is ever taken up again.
Replay(j) == phase[j] = "indeterminate" /\ bound[j] /\ phase'[j] = "polling" /\ Keep(j)

Rest(j) == phase'[j] = phase[j] /\ Keep(j)

JobStep(j) == Submit(j) \/ Claim(j) \/ Bind(j) \/ Decide(j) \/ Replay(j) \/ Rest(j)

\* A scan moves several jobs in one transaction, so a step is taken by all.
Next == /\ phase' \in [Job -> Phase]
        /\ bound' \in [Job -> BOOLEAN]
        /\ \A j \in Job : JobStep(j)

Spec == Init /\ [][Next]_vars
=============================================================================
