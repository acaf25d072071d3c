SPECIFICATION Spec
CONSTANTS
  Conns = {c1, c2}
  MaxPackets = 1
INVARIANTS
  SavedFileOpens
CHECK_DEADLOCK FALSE
