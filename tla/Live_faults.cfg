SPECIFICATION Spec
CONSTANTS
  EventCount = 5
  Outcomes <- AnyOutcome
  Capacity = 2
  Values <- StreamIndices
  DefaultValue = 0
  PositionModulus = 4
  StaleLoads = TRUE
  Faults = {"backpressure_timeout", "autosave", "opencl", "gpu_config"}
  MaxCoreCycles = 1
  InitialModel <- LoadedModel
  BatchRows = 2
  LabelHorizon = 1
  FirstUpdateVersion = 4
  TrainingThresholds <- LoadedThresholds
  GpuModes = {TRUE, FALSE}
INVARIANTS
  NewestModelNotLost
  FailureNotSwallowed
  ThreadsJoined
  FirstErrorIsEarliest
