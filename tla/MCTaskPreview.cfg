\* One preview that a crash interrupts.
CONSTANTS
  a = a
  Rooms = {a}
  MaxTasks = 1
  MaxCrashes = 1
  MaxCancels = 0
  MaxRetries = 0
  MaxFaults = 0
SPECIFICATION Spec
INVARIANTS
  PreviewStaysPrivate
CHECK_DEADLOCK FALSE
