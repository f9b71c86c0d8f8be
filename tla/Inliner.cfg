CONSTANTS
  N = 4
  Programs <- MCPrograms
  maxProgramInstructions = 100
  MaxFunctionInstructions = 30
SPECIFICATION Spec
INVARIANTS
  TablesMatchTheProgram
  DepthOrderIsTopological
  RecursionNotUnrolled
  FileNamesTheRemaining
  HoistingIsComplete
