-------------------------- MODULE MCDeepSeekBudget --------------------------
(* Instances of DeepSeekBudget for TLC.                                     *)
EXTENDS DeepSeekBudget, TLC

CONSTANTS p1, p2

TwoProcs == Permutations({p1, p2})
=============================================================================
