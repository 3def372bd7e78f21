SPECIFICATION Spec
CONSTANTS
  Clients = {c}
  k1 = k1
  k2 = k2
  Secrets = {k1, k2}
  Kinds = {wx4py, discord}
  Settings = {s1, s2}
  MaxKeys = 2
  Slots = {p1, p2}
  Scenarios <- MCScenarios
INVARIANTS
  CaughtUp
  ConnectedOrDue
  OneOfEach
  ReportsTrue
PROPERTY
  SavedAsMeant
CHECK_DEADLOCK FALSE
SYMMETRY Symmetry
