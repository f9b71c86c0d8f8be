CONSTANTS
  N = 6
  Nesting = TRUE
  Segments <- MCSegments
SPECIFICATION Spec
INVARIANT
  OneSignal
