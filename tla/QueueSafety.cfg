SPECIFICATION Spec
CONSTANTS
    Tasks = {t1, t2}
    t1 = t1
    t2 = t2
    Paths = {p1, p2}
    p1 = p1
    p2 = p2
    None = None
    Max = 1
    MaxRuns = 4
    MaxCalls = 2
    Calls = {"pause", "resume", "cancelActive", "cancelIdle", "cancelDone"}
    DeleteFails = FALSE
SYMMETRY Symmetry
INVARIANTS
    ActiveBounded
    NoTaskLost
    PausedIsQuiet
    PathsKept
PROPERTIES
    RemovedIsFinal
