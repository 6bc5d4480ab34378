--------------------------- MODULE MCAgentManager ---------------------------
(* Instances of AgentManager for TLC: a producer that only works, a         *)
(* verifier and an architect that both verify and analyse.                  *)
EXTENDS AgentManager, TLC

CONSTANTS t1, t2, t3, dev, qa, arch

NoDependencies == [t \in Tasks |-> {}]
Chain          == [t \in Tasks |-> IF t = t2 THEN {t1} ELSE {}]
AnyWorker      == [t \in Tasks |-> Workers]
CapacityOne    == [w \in Workers |-> 1]
DevTwo         == [w \in Workers |-> IF w = dev THEN 2 ELSE 1]
=============================================================================
