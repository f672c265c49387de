------------------------- MODULE MCInterruptResume -------------------------
(* Instances of InterruptResume for TLC: how many calls runs make at each    *)
(* depth of the chain of resumes.                                            *)
EXTENDS InterruptResume, TLC

OneCallEach == [n \in 0 .. MaxDepth |-> 1]
TwoCallsLast == [n \in 0 .. MaxDepth |-> IF n = MaxDepth THEN 2 ELSE 1]

HandlerSymmetry == Permutations(Handler)
=============================================================================
