SPECIFICATION Spec
CONSTANTS
  Size = 3
  Threads = {1, 2}
  MaxTx = 2
  MaxRx = 1
  MaxSessions = 2
CHECK_DEADLOCK FALSE
INVARIANTS
  OneTxThread
  ListensWhileOpen
PROPERTIES
  PrintedInOrder
  ClosedIsDeaf
  EverythingPrinted
