SPECIFICATION FairSpec
CONSTANTS
  Names = {"a"}
  Scenarios = {"x"}
  MaxMoves = 1
PROPERTIES
  WritesSettle
CHECK_DEADLOCK FALSE
