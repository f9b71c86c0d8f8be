CONSTANTS
  c1 = c1
  c2 = c2
  c3 = c3
  Calls <- MCCalls
  maxCores = 4
  Requests <- MCRequests
  MinIdleCores = 2
  UIntModulus = 256
SPECIFICATION Spec
PROPERTY GrantWithinAvailable
