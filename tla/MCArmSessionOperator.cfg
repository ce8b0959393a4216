SPECIFICATION Spec
CONSTANTS
  Side <- MCSide
  Options <- OperatorOptions
  PollTicks = 1
  WindowTicks = 1
  LeadTicks = 1
  HoldTicks = 3
  ConfirmTicks = 1
  CallTicks = 1
  LivenessTicks = 2
  MaxInterrupts = 0
  MaxMoves = 1
  None = None
INVARIANT OperatorsArmIsReleased
