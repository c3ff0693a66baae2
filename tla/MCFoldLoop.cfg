SPECIFICATION FairSpec
CONSTANTS
    Nodes <- LoopNodes
    Flow <- LoopFlow
    None = "none"
    End = "end"
    SignalNames = {"s", "t"}
    Counters = {"cost"}
    MaxItems = 2
    MaxNum = 0
    MaxExec = 1
    Usages = {0}
    SignalIds = {1, 2}
    UpdateIds = {1}
CHECK_DEADLOCK FALSE
INVARIANTS NoMissedSignal
PROPERTIES EventuallyEnds
