SPECIFICATION FairSpec
CONSTANTS
    Jobs = {"a", "b"}
    Handlers = {"h1", "h2"}
    Procs = {"p1", "p2"}
    ProcOf <- Singles
    Leaving = {"p1"}
    Max = 1
    MaxDeliver = 1
    Copies = 2
    MaxFaults = 1
    Duplicates = TRUE
    LateRenewals = TRUE
CHECK_DEADLOCK FALSE
INVARIANTS NoJobDropped
PROPERTIES EventuallyAnswered
