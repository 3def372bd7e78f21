CONSTANTS
  a = a
  b = b
  Drainer = Drainer
  Deliveries <- MCDeliveries
  Parts = 1
  RetryWindow = 2
  BaseDelay = 1
  MaxDelay = 2
  Retention = 9
  Batch = 1
  MaxTime = 3
  LastCall = 0
  MaxCalls = 1
  MaxCrashes = 0
  MaxOperatorActs = 0
  MaxStoreErrors = 0
SPECIFICATION FairSpec
PROPERTIES
  PendingSettles
CHECK_DEADLOCK FALSE
