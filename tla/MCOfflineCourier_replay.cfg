SPECIFICATION CourierSpec
CONSTANTS
    Lease = 1
    OfflineLease = 2
    Alone = TRUE
    MaxLeases = 3
    MaxImports = 2
    MaxClock = 4
INVARIANTS
    ResultsAreImportedOnce
CHECK_DEADLOCK FALSE
