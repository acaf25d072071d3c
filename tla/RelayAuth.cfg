SPECIFICATION Spec
CONSTANTS
  ClientKinds = {"StartupMessage", "Credential"}
  ServerKinds = {"Authentication"}
  Lens = {2}
  FirstAuth = {0, 3, 7, 9, 10}
  MaxClientFrames = 3
  MaxServerFrames = 4
INVARIANTS
  AuthPillNamesMethod
  AuthStateNearReply
  PasswordNamedRight
CHECK_DEADLOCK FALSE
