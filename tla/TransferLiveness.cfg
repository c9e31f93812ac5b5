SPECIFICATION FairSpec
CONSTANTS
  FileSize = 3
  InitRanges <- TwoRanges
  InitCompleted = 0
  MinChunk = 1
  Pieces = {1, 2}
  MaxIds = 3
  Slots = 1
  ReliableCap = 2
  InfoCap = 1
  MaxRetries = 1
  MaxTotalAttempts = 2
  StallTicks = 2
  Faults = {"net", "http", "writer"}
PROPERTIES
  Terminates
