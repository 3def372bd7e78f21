\* Two rooms, two running tasks, one waiting, two retries of one room.
CONSTANTS
  a = a
  b = b
  s1 = s1
  s2 = s2
  Rooms = {a, b}
  Slots = {s1, s2}
  PendingCapacity = 1
  RetryRoom <- MCRetryRoomSame
  RetryBatch = 1
  IgnoreRateLimit = FALSE
  MaxDelay = 1
  MaxRequests = 1
  MaxStoreErrors = 1
SPECIFICATION FairSpec
INVARIANTS
  TypeOK
  OneTaskPerRoom
  InFlightExact
  QueueServed
  RetryRunsOnce
PROPERTIES
  RoomsReleased
  RetriesStart
