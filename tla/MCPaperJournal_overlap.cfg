SPECIFICATION Spec
CONSTANTS
    Symbols = {1, 2}
    Orders <- MCOrders
    MaxPosition = 2
    MaxExposure = 3
    CandleStep = 2
    MaxWindow = 2
    OneWriter = FALSE
    Controls = {"kill", "unkill"}
    Faults = {}
    MaxEvents = 3
    MaxClock = 4
PROPERTIES
    GuardOnlyReduces
CHECK_DEADLOCK FALSE
