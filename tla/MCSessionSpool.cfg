CONSTANTS
  Sizes = {1, 2}
  MaxSpool = 2
  MaxBatch = 2
  BodyLimit = 4
  MaxEvents = 4
  MaxFaults = 2
SPECIFICATION FairSpec
INVARIANTS Accounted PendingOrdered DuplicatesNeedRetries
PROPERTIES Drains
CHECK_DEADLOCK FALSE
