CONSTANTS
  ThreadCount = 3
  InitialCapacity = 2
  MaxItems = 6
  RetryAfterFailedSpawn = FALSE
SPECIFICATION FairSpec
INVARIANTS
  TypeOK AllOrNothing AtMostOnce NoLostWakeup QuiescentBetweenCalls
  NoDanglingWork NoOverrun JoinedBeforeFree OwnEntry IInv
PROPERTIES
  NoRewriteUnderReader NoTaskDropped ImplementsExecutor CallReturns
