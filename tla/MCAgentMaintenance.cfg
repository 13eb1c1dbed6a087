CONSTANTS
  MTLSLife = 6
  HostLife = 6
  RenewInterval = 1
  BundleInterval = 2
  MaxLag = 5
  MaxChanges = 1
  MaxFaults = 2
SPECIFICATION FairSpec
INVARIANTS ChannelSurvives HalfWrittenPairIsDue ServedCertValid BundleArrives
PROPERTIES HealsWhileUp
