SPECIFICATION Spec
CONSTANTS
  VideoBytes = 2
  AddressBytes = 2
  Rows = 3
  JoyRow = 1
  WaitTicks = 2
  Word = 5
  Voltages = {190, 960, 989, 990}
  HeapEnd = 1
INVARIANT BytesReachTheirDevice
INVARIANT AnswerIsToThisByte
INVARIANT PanelIsCurrent
PROPERTY AcceptedWasHeld
PROPERTY HeldIsAccepted
CHECK_DEADLOCK FALSE
