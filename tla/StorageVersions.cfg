SPECIFICATION Spec
CONSTANTS
    Known = TRUE
    FileSize = 3
    SegSize = 2
    MaxLen = 3
    InitLens = {}
    InitSides = {"none"}
    Lens = {1, 2}
    CoalesceLimit = 2
    QueueCap = 2
    Batch = 2
    Switches = {TRUE}
    Versions = {1, 2}
    MaxSessions = 2
    MaxFaults = 2
    Faults = {"crash", "remote"}
INVARIANTS
    OneVersion
