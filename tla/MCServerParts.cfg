CONSTANTS
  Callers = {a1, a2}
  Loop = loop
  Refresh = 2
  Backoff = 1
  DialTimeout = 1
  MaxCerts = 2
  MaxPinTime = 4
  MaxEvents = 5
  BatchSize = 2
  MaxRestarts = 1
  Peers = {"p1", "p2", "fixed"}
  Fixed = {"fixed"}
  HostNames <- MCHostNames
  Ticker = ticker
  Forced = {f1, f2}
  RefreshEvery = 2
  ForcedInterval = 1
  LookupTimeout = 1
  MaxTrustTime = 5
  MaxMoves = 2
  MaxLogins = 2
  LocalUsers = {"deploy", "root"}
  Serials = {1, 2}
  MaxAsks = 3
  AuthWindow = 1
  MaxTrailTime = 1
  MaxTrailFaults = 1
  Attempts = {1, 2}
  Browsers = {"b1", "b2"}
  NoAttempt = 0
  StateTTL = 1
  SessionTTL = 1
  MaxExchange = 0
  MaxStrays = 1
  MaxLoginTime = 2
SPECIFICATION MCSpec
INVARIANTS PinLag StreamFaithful TrustTracksDNS SerialAttribution ActiveSessions
           LoginSound
PROPERTIES PinForward
CHECK_DEADLOCK FALSE
