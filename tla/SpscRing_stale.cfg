SPECIFICATION RingSpec
CONSTANTS
  Capacity = 3
  PositionModulus = 9
  Values = {a, b}
  DefaultValue = a
  StaleLoads = TRUE
INVARIANTS
  PositionsInOrder
  NoSlotAliasing
PROPERTY
  ImplementsFifo
