SPECIFICATION Spec
CONSTANTS
    Known = FALSE
    FileSize = 5
    SegSize = 2
    MaxLen = 5
    InitLens = {2}
    InitSides = {"none"}
    Lens = {1, 2}
    CoalesceLimit = 2
    QueueCap = 2
    Batch = 2
    Switches = {TRUE, FALSE}
    Versions = {1, 2}
    MaxSessions = 2
    MaxFaults = 2
    Faults = {"abort", "crash", "remote"}
INVARIANTS
    OkIsWhole
