CONSTANTS
  t1 = t1
  t2 = t2
  t3 = t3
  n1 = n1
  n2 = n2
  unbound = unbound
  Tokens = {t1, t2, t3}
  Names = {n1, n2}
  Bound <- MCBound
  Unbound = unbound
  MyName = n1
  MaxAttempts = 3
  MaxFaults = 1
SPECIFICATION MCSpec
INVARIANTS RestsValid DoneIsConsistent VerifiedIsLoaded
PROPERTIES EnrollEnds
CHECK_DEADLOCK FALSE
