CONSTANTS
  Window = {"w1", "w2"}
  MaxScans = 2
  IDLE_GRACE = 1
  Heartbeat = 2
  IDLE_LIMIT = 4
SPECIFICATION Spec
INVARIANTS GoodbyeEndsIt
