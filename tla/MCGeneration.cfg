SPECIFICATION Spec
CONSTANTS
  a = a
  b = b
  Tasks <- MCTasks
  Lanes <- MCLanes
  Calls <- MCCalls
  Owners <- MCTasks
  Scenarios <- MCScenarios
  Keys = {k1}
  PerKey = 1
  MaxAttempts = 2
  LastFallback = 1
  MaxPolls = 2
  Capacity = 1
  InitialFailures = 2
INVARIANTS
  TypeOK
  KeyCap
  PermitsReturned
  CoversHistory
  TextDelivered
PROPERTIES
  CallsConverge
  CircuitHolds
