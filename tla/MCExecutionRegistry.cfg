SPECIFICATION FairSpec
CONSTANTS
  MaxDispatches = 1
  t1 = t1
  t2 = t2
  s1 = s1
  g1 = g1
  Groups <- GroupSet
  NoGroup = NoGroup
  Sinks <- SinkSet
  NoSink = NoSink
  Threads <- ThreadSet
  MaxBarrier = 1
  MaxSnapshots = 1
INVARIANTS
  TypeOK
  DrainedIsQuiet
  CloseReturnedLeavesNoResource
  ReleaseNeverEarly
  QuietSinkKnowsAll
  FreezeComplete
PROPERTIES
  WaitersReturn
CHECK_DEADLOCK FALSE
