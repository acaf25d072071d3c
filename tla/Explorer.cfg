SPECIFICATION PaneSpec
CONSTANTS
  TicksPerMs = 2
  Captures <- Samples
  BytesPerRow = 2
  RowHeight = 2
  VerticalPadding = 0
  OverscanRows = 0
  ViewHeight = 2
INVARIANTS
  CursorOnARow
  PinnedFieldIsShown
  ByteHasInnermostField
  MergedByWallClock
  MarksAreDeclared
  ActiveRowIsMarked
  DumpShowsPacket
  HighlightIsInView
PROPERTIES
  PinningReveals
  PointerKeepsItsByte
CHECK_DEADLOCK FALSE
