SPECIFICATION Spec
CONSTANTS
  Names = {"a"}
  Scenarios = {"x"}
  MaxMoves = 1
PROPERTIES
  SaveFailedStillOpen
CHECK_DEADLOCK FALSE
