CONSTANTS
  None = None
  n1 = n1
  n2 = n2
  ops = ops
  dev = dev
  Users = {u1}
  Names = {n1, n2}
  Groups = {ops, dev}
  Granted = {ops}
  Accounts <- MCAccounts
  Requests = {r1}
  Syncers = {s1}
  MaxChanges = 2
  MaxFaults = 1
  MaxTokens = 1
SPECIFICATION FairSpec
INVARIANTS NoEscalation
PROPERTIES OffboardingConverges GroupsConverge
