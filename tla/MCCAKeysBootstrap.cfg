CONSTANTS
  Replicas = {r1, r2}
  MaxKeys = 3
  MaxOps = 0
  RetireFrom = {"retiring"}
  MaxFaults = 0
SPECIFICATION Spec
INVARIANT BootstrapCreatesOneKey
CHECK_DEADLOCK FALSE
