CONSTANTS
  maxCores = 3
  ChunkSizes <- MCChunkSizes
  TripCounts <- MCTripCounts
  Start = 1
  Step = 2
  Modulus = 64
SPECIFICATION FairSpec
INVARIANTS
  OnlySequentialIterations
  ReductionIsSequential
  LiveOutIsSequential
  IterCounterInStep
PROPERTY
  LoopEnds
