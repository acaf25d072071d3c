SPECIFICATION FairSpec
CONSTANTS
  Conns = {c1, c2}
  MaxPackets = 1
INVARIANTS
  LoggedIsShown
  SavedCoversSignal
PROPERTIES
  ImplementsAtomicCapture
  StrayTempWasTried
  ShutdownCompletes
CHECK_DEADLOCK FALSE
