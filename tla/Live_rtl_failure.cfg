SPECIFICATION LiveSpec
CONSTANTS
  EventCount = 3
  Outcomes <- GoodReplay
  Capacity = 1
  Values <- StreamIndices
  DefaultValue = 0
  PositionModulus = 2
  StaleLoads = FALSE
  Faults = {"backpressure_timeout"}
  MaxCoreCycles = 1
  InitialModel <- LoadedModel
  BatchRows = 1
  LabelHorizon = 1
  FirstUpdateVersion = 4
  TrainingThresholds <- LoadedThresholds
  GpuModes = {TRUE}
PROPERTIES
  RtlFailureEndsRun
