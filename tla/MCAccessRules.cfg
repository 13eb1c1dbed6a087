CONSTANTS
  k1 = k1
  k2 = k2
  g1 = g1
  Replicas = {r1, r2}
  Admins = {a1, a2}
  Keys = {k1, k2}
  Vals = {1, 2}
  Invalid = 0
  Groups = {g1}
  GroupOf <- MCGroupOf
  Contents <- MCContents
  FirstTables <- MCFirstTables
  RuleIds = {1, 2, 3, 4, 5, 6}
  MaxPublish = 1
  MaxEdits = 2
  MaxFaults = 1
SPECIFICATION MCSpec
INVARIANTS OnlyDeclared
PROPERTIES RuleKept FileConverges
CHECK_DEADLOCK FALSE
