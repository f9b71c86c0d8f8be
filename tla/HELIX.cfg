CONSTANTS
  numCores = 3
  numSS = 3
  NoPreamble = NoPreamble
  PreambleChoices <- MCPreambleChoices
  LIO = TRUE
  TripCounts <- MCTripCounts
SPECIFICATION FairSpec
INVARIANTS
  TypeOK
  SegmentOrder
  LiveOutsAreFinal
  NoIterationPastTheLast
PROPERTIES
  ImplementsSequentialSegments
  LoopReturns
