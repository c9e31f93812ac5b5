SPECIFICATION FairSpec
CONSTANTS
    Tasks = {t1, t2}
    t1 = t1
    t2 = t2
    Paths = {p1, p2}
    p1 = p1
    p2 = p2
    None = None
    Max = 1
    MaxRuns = 3
    MaxCalls = 1
    Calls = {"pause", "resume", "cancelActive", "cancelIdle", "cancelDone"}
    DeleteFails = TRUE
PROPERTIES
    EveryTaskServed
    WaitAllReturns
