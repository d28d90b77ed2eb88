SPECIFICATION Spec
CONSTANTS
  Models = {1, 2}
  Failures <- SomeFailures
  BackoffBase = 1
  BackoffMax = 2
  CloudflareMin = 2
  LongPause = 4
  Transient = 1
  ForcePause = 1
  MaxTime = 2
  MaxResults = 2
  MaxOps = 2
INVARIANTS
  TypeOK
  RestartKeepsBlocks
  LadderCountsWindows
  DeadlinesWereGranted
  CredentialPauseIsTotal
CHECK_DEADLOCK FALSE
