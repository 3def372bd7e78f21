SPECIFICATION FairSpec
CONSTANTS
  Clients = {c}
  k1 = k1
  k2 = k2
  Secrets = {k1, k2}
  Kinds = {wx4py}
  Settings = {s1, s2}
  MaxKeys = 2
  Slots = {p1}
  Scenarios <- MCScenariosDeath
PROPERTY
  DeadIsTried
CHECK_DEADLOCK FALSE
