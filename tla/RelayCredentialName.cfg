SPECIFICATION Spec
CONSTANTS
  ClientKinds = {"StartupMessage", "Credential"}
  ServerKinds = {"Authentication"}
  Lens = {2}
  FirstAuth = {0, 10}
  MaxClientFrames = 2
  MaxServerFrames = 2
INVARIANTS
  CredentialNamedFromRequest
CHECK_DEADLOCK FALSE
