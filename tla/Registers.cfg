SPECIFICATION Spec
CONSTANTS
  A = A
  C = C
  NoReg = NoReg
  Regs <- MCRegs
  Bits <- MCBits
  ResetValue <- MCResetValue
  BitBand = {A}
  RawLists <- MCRawLists
  StrictRegs <- MCStrictRegs
  StartValues <- MCStartValues
  InterruptBits <- MCInterruptBits
INVARIANTS
  ListApplied
  RejectedIfContradictory
  OneWritePerRegister
  TestMeansHolds
  BitBandKeepsBits
CHECK_DEADLOCK FALSE
