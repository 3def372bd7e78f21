\* The default configuration: scheduled summaries ignore the rate limit.
CONSTANTS
  a = a
  b = b
  s1 = s1
  s2 = s2
  Rooms = {a, b}
  Slots = {s1}
  PendingCapacity = 1
  RetryRoom <- MCRetryRoomOne
  RetryBatch = 1
  IgnoreRateLimit = TRUE
  MaxDelay = 1
  MaxRequests = 2
  MaxStoreErrors = 1
SPECIFICATION FairSpec
PROPERTY RetriesBackOff
