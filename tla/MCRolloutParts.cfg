SPECIFICATION ChosenSpec
CONSTANTS
  Camera <- MCCamera
  Watched = "wrist"
  QueueSize = 2
  DrainPeriod = 1
  MaxImageAge = 1
  MaxAge = 2
  Engage = 3
  Release = 2
  Joint <- MCJoint
  MaxDelta = 2
  Leashes <- MCLeashes
  RampTicks = 2
  SubSteps = 2
  ForwardRows = 1
  RebaseTicks = 1
  GripOpen = 1
  Chunks <- MCChunks
  Samples <- MCSamples
  MaxTime = 2
  MaxReach = 4
  NoLeash = NoLeash
  NotFinite = NotFinite
  None = None
CHECK_DEADLOCK FALSE
INVARIANTS
  FrameIsRecent
PROPERTIES
  RateLimited
  LeashPullsIn
  HandoverIsContinuous
  SpliceStaysNear
  ImplementsPlayer
  CrashIsNoticed
  CloseEnds
