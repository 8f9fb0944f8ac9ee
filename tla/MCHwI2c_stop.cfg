SPECIFICATION Spec
CONSTANTS
  Bits = 8
  Bytes <- MCBytes
  Own <- MCOwn
  StretchAt = {}
  Callers = "careless"
  Resets = FALSE
INVARIANT
  StopIsOnTheBus
