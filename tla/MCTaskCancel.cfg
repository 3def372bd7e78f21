\* One task that the operator cancels.
CONSTANTS
  a = a
  Rooms = {a}
  MaxTasks = 1
  MaxCrashes = 0
  MaxCancels = 1
  MaxRetries = 0
  MaxFaults = 0
SPECIFICATION Spec
PROPERTIES
  CancelStops
CHECK_DEADLOCK FALSE
