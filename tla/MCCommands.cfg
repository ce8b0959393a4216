SPECIFICATION ChosenSpec
CONSTANTS
  Speed <- MCSpeed
  MaxSpeed = 1
  KeepalivePeriod = 2
  MaxLate = 1
  StopRepeats = 2
  BaseTimeout = 2
  MaxCommands = 2
  MaxAge = 5
  Fraction <- MCFraction
  CloseBelow = 2
  ReleaseAbove = 5
  LatchedValue = 1
  HalfOpen = 3
  HoldTime = 2
  SustainTime = 2
  DwellTime = 2
  Horizon = 5
  None = None
INVARIANTS
  StreamNeverStarves
PROPERTIES
  ImplementsStream
  StopIsFinal
  ReleaseIsEarned
  DwellIsReal
  GateCloseIsSeen
  LatchLetsGo
