SPECIFICATION Spec
CONSTANTS
  Limit = 2
  Kinds = {"command", "unsupported"}
  Lookback = 0
  MaxDelay = 1
  EventWindow = 0
  ProcessWindow = 0
  RealtimeWindow = 1
  Retention = 1
  MaxTime = 2
  MaxMessages = 3
  MaxStops = 1
  MaxInputs = 5
INVARIANTS
  RepeatsExplained
  SentAboveFile
  NotForgotten
CHECK_DEADLOCK FALSE
