---------------------------- MODULE MCTurnAndPlan ----------------------------
(* A turn and the plan of its conversation, for TLC: neither writes what the *)
(* other one reads, so a behaviour is of one of the two.                     *)
EXTENDS MCTurnStart, PlanSteps

VARIABLE part

planOwnVars == <<planVars, stepVars, quotaVars, eventVars>>

MCInit ==
    /\ StartInit /\ PInit
    /\ part \in {"turn", "plan"}
    /\ part = "turn" => backend = "sql"

MCNext ==
    \/ part = "turn" /\ StartNext /\ UNCHANGED <<planOwnVars, part>>
    \/ part = "plan" /\ PNext /\ UNCHANGED <<startVars, part>>

MCSpec == MCInit /\ [][MCNext]_<<startVars, planOwnVars, part>>
=============================================================================
