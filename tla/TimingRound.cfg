SPECIFICATION Spec
CONSTANTS
  Reload = 3
  Word = 64
  PsPerNs = 10
  PsPerTick = 20
  Requests = {2, 6, 9}
  MaxDelay = 4
  MaxCalls = 1
  MaxTime = 40
INVARIANT AlwaysRoundedUp
CHECK_DEADLOCK FALSE
