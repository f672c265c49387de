--------------------------- MODULE MCMemoryOutbox ---------------------------
(* Instances of MemoryOutbox for TLC: one Gateway process with two replay    *)
(* requests in flight, and two processes.                                    *)
EXTENDS MemoryOutbox

OwnWorkerId == [p \in Process |-> p]
=============================================================================
