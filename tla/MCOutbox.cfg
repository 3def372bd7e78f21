CONSTANTS
  a = a
  b = b
  Drainer = Drainer
  Deliveries = {a}
  Parts = 2
  RetryWindow = 1
  BaseDelay = 1
  MaxDelay = 2
  Retention = 2
  Batch = 1
  MaxTime = 3
  LastCall = 1
  MaxCalls = 2
  MaxCrashes = 1
  MaxOperatorActs = 1
  MaxStoreErrors = 1
SPECIFICATION Spec
INVARIANTS
  TypeOK
  AtMostOncePerLicence
  OneSender
  SendingIsHeld
  BoundedRetryWindow
PROPERTIES
  SettledStaysSettled
  KeepsPromise
CHECK_DEADLOCK FALSE
