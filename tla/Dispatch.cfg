SPECIFICATION FairSpec
CONSTANTS
    c1 = c1
    c2 = c2
    c3 = c3
    Chunks = {c1, c2, c3}
    InitChunks <- TwoRanges
    Runtimes <- TwoSources
    NoProxy = "none"
    Models = {TRUE, FALSE}
    MaxWorkers = 2
    LaneMax = 2
    SourceMax = 1
    Threshold = 2
    Blacklist = 3000
    Sizes = {1, 2}
    Speeds = {1, 2}
    MaxRetries = 1
    MaxTotalAttempts = 2
    DelayedWait = 2500
    BatchWindow = 500
    BatchLen = 1
    TickMs = 1500
    Errors = {"net", "fatal"}
INVARIANTS
    SourcesAgree
    SlotsAccounted
    OnePlace
    BudgetKept
PROPERTIES
    BackOffKept
    HealthyFirst
    Settles
