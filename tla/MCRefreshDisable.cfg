SPECIFICATION Spec
CONSTANTS
  c1 = c1
  w1 = w1
  q1 = q1
  u1 = u1
  None = None
  Credentials <- OneCredential
  Workers <- OneWorker
  Requests <- OneRequest
  Writers <- OneWriter
  JobCap = 1
  Period = 1
  PendingBackoff = 1
  FailureBackoff = 1
  IneffectiveBackoff = 1
  Kinds = {"disable"}
  MaxTime = 0
  MaxTokens = 2
  MaxCalls = 2
PROPERTIES
  DisableSticks
CHECK_DEADLOCK FALSE
