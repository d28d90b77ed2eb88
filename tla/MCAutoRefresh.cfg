SPECIFICATION FairSpec
CONSTANTS
  c1 = c1
  w1 = w1
  q1 = q1
  u1 = u1
  None = None
  Credentials <- OneCredential
  Workers <- OneWorker
  Requests <- OneRequest
  Writers <- OneWriter
  JobCap = 1
  Period = 1
  PendingBackoff = 1
  FailureBackoff = 1
  IneffectiveBackoff = 1
  Kinds <- MostKinds
  MaxTime = 2
  MaxTokens = 2
  MaxCalls = 1
PROPERTIES
  LoopComesToRest
INVARIANTS
  TrackedUnlessForgotten
  SpentTokenIsNotUsed
CHECK_DEADLOCK FALSE
