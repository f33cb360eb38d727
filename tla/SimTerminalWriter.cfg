SPECIFICATION Spec
CONSTANTS
  Size = 3
  Threads = {1, 2}
  MaxTx = 3
  MaxRx = 2
  MaxSessions = 2
CHECK_DEADLOCK FALSE
INVARIANT SingleWriter
