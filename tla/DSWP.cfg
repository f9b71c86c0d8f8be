CONSTANTS
  N = 4
  Loops <- MCLoops
  RunLoops <- SampleLoops
  forceParallelization = FALSE
  Workers = 2
  MaxIterations = 3
SPECIFICATION FairRunSpec
INVARIANTS
  RunTypeOK
  QueuesGoForward
  OperandsAvailable
  ControlAvailable
  RightIteration
  QueuesDrained
  EverythingExecuted
PROPERTY PipelineReturns
