SPECIFICATION Spec
CONSTANTS
  EventCount = 3
  Outcomes <- GoodReplay
  Capacity = 1
  Values <- StreamIndices
  DefaultValue = 0
  PositionModulus = 2
  StaleLoads = FALSE
  Faults = {}
  MaxCoreCycles = 1
  InitialModel <- ConfiguredModel
  BatchRows = 1
  LabelHorizon = 1
  FirstUpdateVersion = 2
  TrainingThresholds <- DefaultGpuThresholds
  GpuModes = {TRUE}
INVARIANTS
  ThresholdsRetained
