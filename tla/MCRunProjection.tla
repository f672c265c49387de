-------------------------- MODULE MCRunProjection --------------------------
(* Instances of RunProjection for TLC: one run seen by two Gateways, with    *)
(* one fault of either side in a behaviour: a cut or the end of a Gateway,   *)
(* or the end of the Sidecar.                                                *)
EXTENDS RunProjection

OneFault == faults + stops <= 1

MCSpec == PInit /\ [][PNext /\ OneFault']_allVars /\ PFairness /\ Refresh
=============================================================================
