SPECIFICATION CourierSpec
CONSTANTS
    Lease = 1
    OfflineLease = 2
    Alone = FALSE
    MaxLeases = 3
    MaxImports = 2
    MaxClock = 4
PROPERTIES
    ImportsAreCurrent
CHECK_DEADLOCK FALSE
