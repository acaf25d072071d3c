SPECIFICATION ListSpec
CONSTANTS
  TicksPerMs = 1
  Captures <- Samples
  RowHeight = 2
  GapHeight = 1
  VerticalPadding = 1
  OverscanRows = 1
  ViewHeight = 4
  GapThreshold = 1
  TrackWidth = 2
INVARIANTS
  SelectionIsShown
  FocusFollowsSelection
CHECK_DEADLOCK FALSE
