-------------------------- MODULE MCPhase5Attempts --------------------------
(* Instances of Phase5Attempts for TLC.                                     *)
EXTENDS Phase5Attempts, TLC

CONSTANTS s1, s2, prod, ver, d1, d2, l1, l2, e1, e2

\* Every spec but s1 lets any other worker verify.
OnlyS1 == {s1}

\* Workers, domains, leases and evidence may be renamed independently.
Interchangeable ==
    Permutations({prod, ver}) \cup Permutations({d1, d2})
        \cup Permutations({l1, l2}) \cup Permutations({e1, e2})
=============================================================================
