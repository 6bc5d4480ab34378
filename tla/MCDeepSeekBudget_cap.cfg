SPECIFICATION Spec
SYMMETRY TwoProcs
CONSTANTS
    p1 = p1
    p2 = p2
    Procs = {p1, p2}
    Amounts = {1, 2}
    MonthlyBudget = 4
    ReserveSlice = 1
    Overrun = 1
    Faults = {"death", "power", "fsync", "ambiguous", "timeout", "delete"}
    MaxFaults = 2
    MaxRequests = 3
    MaxMonths = 2
INVARIANTS
    TypeOK
    CapHolds
    SentIsReserved
CHECK_DEADLOCK FALSE
