CONSTANTS
  Clients = {c1, c2}
  Requests = {q1, q2}
  Unit = 1
  RequestRate = 3
  Burst = 5
  FailureRate = 1
  FailureBurst = 2
  MaxClients = 1
  ClientIdleTTL = 3
  MaxLag = 1
  MaxHandling = 0
  MaxTicks = 4
  SignRequests = {s1}
  Second = 3
  Modulus = 64
  PolicyMax <- MCPolicyMax
  Backdate = 1
  MaxBackdate = 2
  Wanted = {0, 1, 3, 12, 25}
  CIRules <- MCCIRules
  FirstMoment = 4
  MaxMoment = 8
  PathChars = {"a", "_", "/"}
  PatternChars = {"a", "b", "*"}
  NameChars = {"a", "b"}
  MaxLength = 4
  Replicas = {r1, r2}
  MaxKeys = 3
  MaxOps = 2
  RetireFrom = {"retiring"}
  MaxFaults = 2
  KeyServers = {k1, k2}
  Versions = {1, 2, 3}
  MaxMounts = 2
  MaxKeyFaults = 2
SPECIFICATION MCSpec
INVARIANTS BudgetsHold CertWithinLimits KillSwitch MatchingAgrees
           TypeOK NeverUnsignable OwnOperationTakesEffect AdoptionSound
 
CHECK_DEADLOCK FALSE
