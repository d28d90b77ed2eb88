SPECIFICATION FairSpec
CONSTANTS
  g1 = g1
  g2 = g2
  Groups <- TwoGroups
  MaxSeq = 2
  Releases <- TwoAndOne
  MaxLifetimes = 2
  Timings <- TwoTimings
PROPERTIES
  ImplementsAccounting
  TicketsComplete
INVARIANTS
  TypeOK
  TicketMeansKnown
  NoStrandedTicket
  FlushedMeansKnown
CHECK_DEADLOCK FALSE
