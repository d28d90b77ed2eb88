SPECIFICATION SyncSpec
CONSTANTS
  Ids <- OneId
  Priorities <- OnePriority
  Transports <- HttpOnly
  Snapshots = {}
  Outcomes <- SuccessAndQuotas
  MaxTime = 1
  MaxCalls = 1
  MaxUpdates = 2
  PickRequests <- AllOrNone
INVARIANTS
  GoneIsNotOffered
CHECK_DEADLOCK FALSE
