SPECIFICATION Spec
CONSTANTS
    Commands = {"s", "r", "q"}
    Start = "s"
    Closing = {}
    Updates = {}
    Invalid = {}
    Large = {}
    Needs <- Answers
    Engines = {"e1", "e2"}
    Asked = {}
    MaxDeliver = 2
    Spare = 1
    NotFoundGrace = 2
    MaxConflicts = 2
    MaxFaults = 0
    PinReturns = TRUE
    LaggingReads = FALSE
CHECK_DEADLOCK FALSE
INVARIANTS NoLostCommand
