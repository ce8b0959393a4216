SPECIFICATION Spec
CONSTANTS
  Side <- MCSide
  Options <- MCOptions
  PollTicks = 1
  WindowTicks = 1
  LeadTicks = 1
  HoldTicks = 3
  ConfirmTicks = 1
  CallTicks = 1
  LivenessTicks = 2
  MaxInterrupts = 2
  MaxMoves = 1
  None = None
INVARIANTS
  LaunchSurvives
  RolloutOnActiveArms
  ActivationIsTakenBack
  ConfirmedMeansReleased
  ReferenceIsTheControllers
PROPERTIES
  Terminates
