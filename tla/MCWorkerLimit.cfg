SPECIFICATION Spec
CONSTANTS
    Jobs = {a, b, c}
    Handlers = {"h1", "h2", "h3"}
    Procs = {"p1", "p2"}
    ProcOf <- Pairs
    Leaving = {}
    Max = 1
    MaxDeliver = 2
    Copies = 1
    MaxFaults = 1
    Duplicates = FALSE
    LateRenewals = FALSE
SYMMETRY AnyJob
CHECK_DEADLOCK FALSE
INVARIANTS TypeOK WithinLimit BusyIsFree OneWaiter
