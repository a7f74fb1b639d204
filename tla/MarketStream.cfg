SPECIFICATION Spec
CONSTANTS
  WindowSize = 3
  MaxMidpoint = 3
  ParamCount = 3
  MinBookClocks = 2
  MaxBookClocks = 4
  EventKinds <- AllKinds
  MaxEvents = 5
  MaxVersion = 3
  CycleLimit = 8
INVARIANTS
  ResultMatchesReference
  LatestMatchesReference
  ActiveBankIsOneModel
  RunnerNeverThrows
PROPERTIES
  HeldResultStable
  ImplementsStream
CHECK_DEADLOCK FALSE
