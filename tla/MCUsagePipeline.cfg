SPECIFICATION FairSpec
CONSTANTS
  r1 = r1
  r2 = r2
  s1 = s1
  f1 = f1
  Records <- TwoRecords
  Subscribers <- OneSubscriber
  Forwarders <- OneForwarder
  BufferCap = 1
  BatchSize = 2
  Retention = 0
  MaxTime = 1
  MaxFailures = 1
  MaxRefreshes = 1
PROPERTIES
  AcceptedIsDispatched
INVARIANTS
  NothingVanishes
  DuplicateNeedsFailure
  SubscriptionHasNoGap
  ClosedOnce
CHECK_DEADLOCK FALSE
