\* One room, two tasks, one of each kind of disturbance.
CONSTANTS
  a = a
  Rooms = {a}
  MaxTasks = 2
  MaxCrashes = 1
  MaxCancels = 1
  MaxRetries = 1
  MaxFaults = 1
SPECIFICATION FairSpec
INVARIANTS
  TypeOK
  HandedOnce
  RunningIsRun
  TextNotForgotten
PROPERTIES
  EndedStaysEnded
  TasksEnd
CHECK_DEADLOCK FALSE
