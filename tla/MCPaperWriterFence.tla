------------------------- MODULE MCPaperWriterFence -------------------------
(* Instances of PaperWriterFence for TLC.                                   *)
EXTENDS PaperWriterFence, TLC

CONSTANTS a1, a2, b1

OnePeer == [p \in Procs |-> IF p = b1 THEN Failover ELSE Primary]

Twins == Permutations({a1, a2})
=============================================================================
