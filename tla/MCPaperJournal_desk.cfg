SPECIFICATION Spec
CONSTANTS
    Symbols = {1, 2}
    Orders <- MCOrders
    MaxPosition = 2
    MaxExposure = 3
    CandleStep = 2
    MaxWindow = 2
    OneWriter = TRUE
    Controls = {"kill"}
    Faults = {"crash", "disk", "fetch"}
    MaxEvents = 3
    MaxClock = 6
INVARIANTS
    TypeOK
    HistoryIsLawful
    ExitEvidenceIsOwn
    NoTouchForgotten
PROPERTIES
    ImplementsPaperLog
CHECK_DEADLOCK FALSE
