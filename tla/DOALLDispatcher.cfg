CONSTANTS
  call1 = call1
  call2 = call2
  call3 = call3
  call4 = call4
  call5 = call5
  call6 = call6
  Main = Main
  Calls <- MCCalls
  Parent <- MCParent
  Iteration <- MCIteration
  maxNumberOfCores <- MCCores
  maxCores = 3
  MinIdleCores = 2
  UIntModulus = 256
SPECIFICATION FairSpec
INVARIANTS
  TypeOK
  BlocksNotShared
  NoStaleArgs
  JoinedMeansExecutedOnce
PROPERTIES
  ImplementsCoreAccounting
  EveryCallReturns
