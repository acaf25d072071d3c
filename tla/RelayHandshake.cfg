SPECIFICATION FairSpec
CONSTANTS
  ClientKinds = {"SSLRequest", "GSSENCRequest", "StartupMessage", "CancelRequest", "Query", "Garbled"}
  ServerKinds = {"ReadyForQuery", "Garbled"}
  Lens = {2}
  FirstAuth = {0}
  MaxClientFrames = 4
  MaxServerFrames = 1
INVARIANTS
  TypeOK
  FramingInSync
  TlsPillIsRight
  DbOffsetUncontended
  OffsetsTile
  DirectionTimesMonotonic
PROPERTIES
  ImplementsSessionLog
  ServerCloseEndsSession
  NothingToJoin
  WrittenIsRecorded
CHECK_DEADLOCK FALSE
