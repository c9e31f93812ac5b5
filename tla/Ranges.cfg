SPECIFICATION Spec
CONSTANTS
    FileSizes = {1, 11, 24}
    SegSize = 4
    MinChunk = 2
    Workers = 2
    MaxRanges = 3
    MaxSessions = 2
INVARIANTS
    OneOwner
    LedgerExact
    RecordedExact
    GateExact
