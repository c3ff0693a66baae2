SPECIFICATION FairSpec
CONSTANTS
    Commands = {"s", "r", "u", "x"}
    Start = "s"
    Closing = {"x"}
    Updates = {"u"}
    Invalid = {}
    Large = {}
    Needs <- Answers
    Engines = {"e1", "e2"}
    Asked = {}
    MaxDeliver = 2
    Spare = 1
    NotFoundGrace = 2
    MaxConflicts = 2
    MaxFaults = 1
    PinReturns = FALSE
    LaggingReads = FALSE
CHECK_DEADLOCK FALSE
INVARIANTS NoLostCommand
PROPERTIES EventuallySettled
