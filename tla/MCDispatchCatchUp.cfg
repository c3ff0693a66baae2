SPECIFICATION Spec
CONSTANTS
    Procs = {"p", "q"}
    Home = "p"
    Replayer = "replay"
    Last = 3
    Status <- Story
    Jobs = {2}
    EndedBy <- Ended
    Failures <- Wrong
    MaxFaults = 1
    Risks = {"again", "catchup"}
CHECK_DEADLOCK FALSE
INVARIANTS NoWorkLost
