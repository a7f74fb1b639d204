SPECIFICATION LiveSpec
CONSTANTS
  EventCount = 10
  Outcomes <- GpuReplays
  Capacity = 2
  Values <- StreamIndices
  DefaultValue = 0
  PositionModulus = 4
  StaleLoads = FALSE
  Faults = {}
  MaxCoreCycles = 2
  InitialModel <- LoadedModel
  BatchRows = 2
  LabelHorizon = 2
  FirstUpdateVersion = 4
  TrainingThresholds <- LoadedThresholds
  GpuModes = {TRUE, FALSE}
INVARIANTS
  InOrderDelivery
  LabelsUseExactHorizon
  AllResultsConsumed
  FinalUpdateApplied
  NoSpuriousFailure
PROPERTIES
  CommitAtEventBoundary
  Termination
