SPECIFICATION FairSpec
CONSTANTS
    p1 = p1
    p2 = p2
    Procs = {p1, p2}
    Amounts = {2}
    MonthlyBudget = 4
    ReserveSlice = 1
    Overrun = 0
    Faults = {}
    MaxFaults = 0
    MaxRequests = 2
    MaxMonths = 2
PROPERTIES
    DefiniteUsageIsCommitted
CHECK_DEADLOCK FALSE
