SPECIFICATION Spec
CONSTANTS
  Episodes = 2
  MaxError = 2
  Tol = 1
  Window = 2
  SnapTime = 2
  SimTimeout = 4
  WallTimeout = 1
  None = None
INVARIANTS
  EpisodeStartsClean
  RowIsItsOwn
PROPERTIES
  BatchEnds
