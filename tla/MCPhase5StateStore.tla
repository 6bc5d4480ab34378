------------------------- MODULE MCPhase5StateStore -------------------------
(* Instance of Phase5StateStore for TLC.                                   *)
EXTENDS Phase5StateStore, TLC

Symmetry == Permutations(Procs) \cup Permutations(Updates)
=============================================================================
