SPECIFICATION TSpec
CONSTANTS
  TxCapacity = 3
  RxCapacity = 2
  MaxBlock = 2
  MaxTx = 20
  MaxRx = 3
  MaxSessions = 2
  CmdBufSize = 2
  WelcomeLength = 1
  HookLimit = 5

PROPERTIES
  CommandBufferHolds
CHECK_DEADLOCK FALSE
