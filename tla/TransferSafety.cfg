SPECIFICATION Spec
CONSTANTS
  FileSize = 4
  InitRanges <- TwoRanges
  InitCompleted = 0
  MinChunk = 1
  Pieces = {1, 2}
  MaxIds = 3
  Slots = 2
  ReliableCap = 2
  InfoCap = 1
  MaxRetries = 1
  MaxTotalAttempts = 1
  StallTicks = 2
  Faults = {"net", "http"}
INVARIANTS
  TypeOK
  NoByteOrphaned
  ClaimedOnce
  NoGhostEntry
  OkDropsOnlyUnread
  StalledOnlyAfterLoss
PROPERTIES
  ProgressNeverRegresses
