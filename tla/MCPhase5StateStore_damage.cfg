SPECIFICATION Spec
CONSTANTS
    Procs = {p1, p2}
    Updates = {u1, u2}
    Garbage = Garbage
    Faults = {"rot", "rewrite"}
    MaxDamage = 2
    MaxRewrites = 1
SYMMETRY Symmetry
INVARIANTS
    NoLostUpdate
    QuarantineIsFinal
    SummaryReportsCommitted
PROPERTIES
    DamageShowsInDescendants
    ImplementsRegister
