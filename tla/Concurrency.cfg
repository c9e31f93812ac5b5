SPECIFICATION Spec
CONSTANTS
    Chunks = {c1, c2}
    MaxWorkers = 2
    MinSplit = 2
    Idle = 2
    MaxSkewed = 1
    Window = 2
    Enough = 2
    Required = 2
    Ring = 1
SYMMETRY ChunkSymmetry
INVARIANTS
    ObservationKept
    OwnCommands
PROPERTIES
    Paced
    ObservedInPeace
    MovingSpared
