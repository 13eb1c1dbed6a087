CONSTANTS
  None = None
  Users = {alice}
  Lists = {granted, revoked}
  Lookups = {l1, l2}
  MinFresh = 1
  ApiTimeout = 1
  CacheTTL = 2
  MaxTime = 3
SPECIFICATION FairSpec
INVARIANTS TypeOK RevocationReachesHost OnlineLag CacheHonest
PROPERTIES LookupsEnd
