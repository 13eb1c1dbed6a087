CONSTANTS
  Sizes = {1, 2}
  MaxSpool = 3
  MaxBatch = 3
  BodyLimit = 3
  MaxEvents = 3
  MaxFaults = 0
SPECIFICATION FairSpec
PROPERTY NothingBlocksForever
CHECK_DEADLOCK FALSE
