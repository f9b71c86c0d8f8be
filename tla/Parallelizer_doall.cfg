CONSTANTS
  N = 4
  Programs <- MCPrograms
  forceParallelization = FALSE
  InstsPerInvocationThreshold = 3
  IterationThreshold = 2
  SavedTimeThreshold = 10
  LoopLists <- MCLoopLists
  Enablings <- MCEnablings
  InstsPerIterationThreshold = 3
SPECIFICATION Spec
INVARIANT DOALLSavingsAreMaximal
