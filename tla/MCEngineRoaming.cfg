SPECIFICATION Spec
CONSTANTS
    Commands = {"s", "r", "q", "g"}
    Start = "s"
    Closing = {}
    Updates = {}
    Invalid = {}
    Large = {"g"}
    Needs <- Answers
    Engines = {"e1", "e2"}
    Asked = {}
    MaxDeliver = 2
    Spare = 0
    NotFoundGrace = 2
    MaxConflicts = 2
    MaxFaults = 1
    PinReturns = TRUE
    LaggingReads = TRUE
CHECK_DEADLOCK FALSE
INVARIANTS TypeOK AppliedOnce NothingAfterEnd
PROPERTIES ImplementsJournal
