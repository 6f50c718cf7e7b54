CONSTANTS
  ThreadCount = 2
  InitialCapacity = 2
  MaxItems = 4
  RetryAfterFailedSpawn = TRUE
SPECIFICATION FairSpec
PROPERTIES
  CallReturns
CHECK_DEADLOCK FALSE
