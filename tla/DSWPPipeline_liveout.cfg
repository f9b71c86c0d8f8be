CONSTANTS
  N = 3
  Loops <- SendableLoops
  forceParallelization = FALSE
SPECIFICATION Spec
INVARIANT LiveOutsStored
