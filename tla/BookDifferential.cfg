SPECIFICATION Spec
CONSTANTS
  BookDepth = 2
  MaxPrice = 3
  MaxQuantity = 2
  AllowCrossed = FALSE
  HighestBid = 2
  LowestAsk = 3
  kCycleLimit = 10
  WideLimit = 9
INVARIANTS
  ReplayAgrees
  GeneratedStreamAccepted
  MicropriceIsNearest
PROPERTIES
  CppImplementsBook
  RtlImplementsBook
