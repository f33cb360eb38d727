SPECIFICATION FairSpec
CONSTANTS
  Reload = 3
  Word = 12
  PsPerNs = 1
  PsPerTick = 2
  Requests = {2, 6}
  MaxDelay = 4
  MaxCalls = 1
  MaxTime = 40
INVARIANTS
  ReadingLags
  MeasuredTicks
PROPERTIES
  SleepsLongEnough
  SleepEnds
CHECK_DEADLOCK FALSE
