SPECIFICATION FairSpec
CONSTANTS
  a = a
  b = b
  Size = 4
  Data <- MCData
  Blocks <- MCBlocks
INVARIANTS
  NoSlotShared
PROPERTIES
  RefinesFifo
  RefusedIfAndOnlyIfFull
  EmptyOnlyIfNothingPublished
  Lockfree
