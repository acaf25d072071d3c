SPECIFICATION FairSpec
CONSTANTS
  Names = {"a","b"}
  Scenarios = {"x"}
  MaxMoves = 3
INVARIANTS
  ShownWasStored
  ShownIsCurrent
  ListIsCurrent
PROPERTIES
  EverythingSettles
CHECK_DEADLOCK FALSE
