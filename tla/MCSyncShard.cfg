SPECIFICATION SyncSpec
CONSTANTS
  Ids <- OneId
  Priorities <- OnePriority
  Transports <- HttpOnly
  Snapshots = {}
  Outcomes <- SuccessAndQuotas
  MaxTime = 1
  MaxCalls = 2
  MaxUpdates = 3
  PickRequests <- AllOrNone
INVARIANTS
  ShardMatchesMetas
  RemovedIsNotOffered
CHECK_DEADLOCK FALSE
