SPECIFICATION Spec
CONSTANTS
    Known = TRUE
    FileSize = 5
    SegSize = 2
    MaxLen = 5
    InitLens = {3}
    InitSides = {"none", "bad"}
    Lens = {1, 2}
    CoalesceLimit = 3
    QueueCap = 2
    Batch = 2
    Switches = {TRUE, FALSE}
    Versions = {1}
    MaxSessions = 3
    MaxFaults = 2
    Faults = {"io", "save", "remove", "net", "lie", "abort", "crash", "damage"}
INVARIANTS
    TypeOK
    OkIsWhole
    TrustedIsOnDisk
    NoTailGap
    CleanSessionSucceeds
PROPERTIES
    Delivers
