SPECIFICATION FairSpec
CONSTANTS
    Known = TRUE
    FileSize = 5
    SegSize = 2
    MaxLen = 5
    InitLens = {3}
    InitSides = {"none"}
    Lens = {1, 2}
    CoalesceLimit = 3
    QueueCap = 2
    Batch = 2
    Switches = {TRUE}
    Versions = {1}
    MaxSessions = 2
    MaxFaults = 2
    Faults = {"io", "save", "net", "abort", "crash"}
INVARIANTS
    SidecarNotAhead
PROPERTIES
    SessionEnds
