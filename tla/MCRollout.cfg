SPECIFICATION Spec
CONSTANTS
  Time <- MCTime
  Observation <- MCTime
  Offsets <- MCOffsets
  RebaseTicks = 1
  RolloutTime = 5
  ReplanAfter = 1
  Last = 2
  MaxImageAge = 1
  MaxStateAge = 1
  RecvTimeout = 3
  MaxTime = 10
  MaxAge = 6
  STOP = STOP
  NoItem = NoItem
  None = None
PROPERTIES
  BlindDriving
  DeadStreamStops
  StreamNeverSilent
  RolloutEnds
