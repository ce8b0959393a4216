SPECIFICATION Spec
CONSTANTS
  Axes <- MCAxes
  Yaw = "yaw"
  Pose <- MCPose
  Velocity <- MCVelocity
  Tol = 4
  Leave = 5
  StopLim = 1
  CatchLim = 11
  HoldUnit = 3
  HoldFloor = 1
  HoldCap = 2
  StopTime = 2
  DwellTime = 2
  None = None
INVARIANTS
  HandoverIsQuiet
  PulseIsBounded
PROPERTIES
  SettledIsHandedOver
