CONSTANTS
  N = 7
  Nesting = TRUE
  Segments <- MCSegments
SPECIFICATION Spec
INVARIANTS
  TypeOK
  Protected
  EveryPathSignals
  SignalWaited
