SPECIFICATION FairSpec
CONSTANTS
  TxCapacity = 3
  RxCapacity = 2
  MaxBlock = 2
  MaxTx = 4
  MaxRx = 3
  MaxSessions = 2
INVARIANTS
  TypeOK
  TxInOrder
  RxAccounted
  SessionBits
PROPERTIES
  FlushedIsSent
  TxInterruptStops
  RxIsFetched
CHECK_DEADLOCK FALSE
