SPECIFICATION Spec
CONSTANTS
  ProgramSet <- MCProgramSet
  F1Clocks = {24, 36, 48, 56, 72}
  F4Clocks = {96, 120, 144, 168}
  Voltages = {240, 270, 330}
  Plan <- MCPlan
  MaxResets = 1
  ToggleInterval = 2
INVARIANTS
  StartsAsPlanned
  ClocksAreRight
  ResourcesInEffect
  InterruptsHaveHandlers
PROPERTIES
  StoresTakeEffect
  LedsBlink
