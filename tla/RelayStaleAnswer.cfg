SPECIFICATION Spec
CONSTANTS
  ClientKinds = {"SSLRequest", "GSSENCRequest"}
  ServerKinds = {"Authentication"}
  Lens = {2}
  FirstAuth = {0}
  MaxClientFrames = 2
  MaxServerFrames = 0
INVARIANT OutstandingReplyIsAwaited
CHECK_DEADLOCK FALSE
