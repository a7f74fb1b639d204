SPECIFICATION Spec
CONSTANTS
  ConfigFiles <- MCConfigFiles
  Numbers <- MCNumbers
  UlongModulus = 64
  UintModulus = 8
  BinaryPaths = {"day.mkt"}
  FileEvents = 2
  WideLimit = 64
  CommandLines <- MCCommandLines
  ModelPaths = {"m", "n"}
  GeneratedPath = "day.csv"
  InputFiles <- MCInputFiles
  MaxInvocations = 3
  MaxVersion = 3
INVARIANTS
  CheckpointAlwaysLoads
  WholeInputOnly
  AcceptedOptionsSound
PROPERTIES
  CheckpointsNotLost
  ExitZeroMeansSaved
