SPECIFICATION Spec
CONSTANTS
  r1 = r1
  NoRequest = NoRequest
  Requests <- OneRequest
  BufferCap = 1
  MaxAnswers = 2
INVARIANTS
  StopIsGraceful
CHECK_DEADLOCK FALSE
