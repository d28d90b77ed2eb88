SPECIFICATION RotationSpec
CONSTANTS
  Ids <- TwoIds
  Priorities <- TwoPriorities
  Transports <- EitherTransport
  Snapshots <- SomeSnapshots
  MaxTime = 2
INVARIANTS
  TypeOK
  PickIsBest
  IndexMatchesEntries
  FailureIsReal
  PickSeesCurrentState
  CooldownTimeIsEarliest
  RotationCoversAll
