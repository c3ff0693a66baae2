SPECIFICATION Spec
CONSTANTS
    Nodes <- WorkNodes
    Flow <- WorkFlow
    None = "none"
    End = "end"
    SignalNames = {"s"}
    Counters = {"cost"}
    MaxItems = 3
    MaxNum = 6
    MaxExec = 2
    Usages = {0, 1}
    SignalIds = {1}
    UpdateIds = {}
CHECK_DEADLOCK FALSE
INVARIANTS TypeOK NeverStuck AttemptsBounded  FanTracksWork NoOrphanChild CancelsOnlyItsOwn MapWindow
PROPERTIES FreshJobs CompletesClean
