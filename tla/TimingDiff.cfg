SPECIFICATION Spec
CONSTANTS
  Reload = 3
  Word = 1024
  PsPerNs = 10
  PsPerTick = 20
  Requests = {2, 6}
  MaxDelay = 4
  MaxCalls = 1
  MaxTime = 40
INVARIANT DiffIsNanoseconds
CHECK_DEADLOCK FALSE
