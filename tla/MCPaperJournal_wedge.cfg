SPECIFICATION FairSpec
CONSTANTS
    Symbols = {1, 2}
    Orders <- MCOrders
    MaxPosition = 2
    MaxExposure = 3
    CandleStep = 2
    MaxWindow = 9
    OneWriter = TRUE
    Controls = {"kill", "unkill"}
    Faults = {}
    MaxEvents = 3
    MaxClock = 4
PROPERTIES
    TouchedPositionIsClosed
CHECK_DEADLOCK FALSE
