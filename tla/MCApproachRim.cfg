SPECIFICATION ChosenSpec
CONSTANTS
  Stages <- MCStages
  Axes <- MCAxes
  Pose <- MCPose
  Velocity <- MCVelocity
  Tolerance <- MCTolerance
  StopLim = 1
  SettleTicks = 2
  Legs = 2
  ArmTol = 1
  ArmFar = 2
  ArmSettle = 2
  JointPeriod = 2
  Timeout = 1
  Position <- MCPosition
  StartError <- MCStartError
  Noise = {0}
  Lag = 2
  Profiles <- MCProfiles
  Mirror = 60
  Reject = 30
  Blocked = {10, 22}
  Reach = 15
  Ahead = 9
  Arrival = 1
  Near = 2
  Standing = 3
  SpineTicks = 2
  Step = 3
  MaxBackoff = 18
  RimFrom = 99
  None = None
PROPERTY PastTheCapSettles
