CONSTANTS
  MTLSLife = 6
  HostLife = 6
  RenewInterval = 1
  BundleInterval = 2
  MaxLag = 7
  MaxChanges = 0
  MaxFaults = 1
SPECIFICATION FairSpec
PROPERTY InconsistentPairHeals
