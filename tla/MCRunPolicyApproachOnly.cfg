SPECIFICATION Spec
CONSTANTS
  CommandLines <- Lines
  Rigs <- RigStates
  MaxRequests = 4
  None = None
INVARIANT ApproachOnlyStaysOff
