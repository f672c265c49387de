---------------------------- MODULE MCTurnStart ----------------------------
(* Instances of TurnStart for TLC: requests are interchangeable.            *)
EXTENDS TurnStart, TLC

CONSTANTS q1, q2, i1

RequestSymmetry == Permutations(Request)
=============================================================================
