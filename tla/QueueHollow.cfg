SPECIFICATION Spec
CONSTANTS
    Tasks = {t1, t2}
    t1 = t1
    t2 = t2
    Paths = {p1, p2}
    p1 = p1
    p2 = p2
    None = None
    Max = 1
    MaxRuns = 2
    MaxCalls = 1
    Calls = {"cancelActive"}
    DeleteFails = FALSE
SYMMETRY Symmetry
INVARIANTS
    CompletedIsWhole
