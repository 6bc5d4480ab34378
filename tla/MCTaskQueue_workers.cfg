SPECIFICATION FairSpec
CONSTANTS
    Workers = {w1, w2}
    NoWorker = none
    Jobs = {1, 2, 3}
    MaxFaults = 2
INVARIANTS
    OneCommandAtATime
    RanOnce
    FaultsStrandJobs
PROPERTIES
    EveryJobEnds
CHECK_DEADLOCK FALSE
