SPECIFICATION FairSpec
CONSTANTS
    Symbols = {1, 2}
    Orders <- MCOneOrder
    MaxPosition = 2
    MaxExposure = 3
    CandleStep = 2
    MaxWindow = 1
    OneWriter = TRUE
    Controls = {}
    Faults = {}
    MaxEvents = 1
    MaxClock = 4
PROPERTIES
    TouchedPositionIsClosed
CHECK_DEADLOCK FALSE
