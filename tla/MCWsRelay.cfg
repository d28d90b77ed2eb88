SPECIFICATION FairSpec
CONSTANTS
  r1 = r1
  NoRequest = NoRequest
  Requests <- OneRequest
  BufferCap = 1
  MaxAnswers = 2
INVARIANTS
  WaitingIsTracked
  AnswerIsWhole
PROPERTIES
  RequestsEndWithSession
CHECK_DEADLOCK FALSE
