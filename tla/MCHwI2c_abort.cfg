SPECIFICATION FairSpec
CONSTANTS
  Bits = 8
  Bytes <- MCBytes
  Own <- MCOwn
  StretchAt = {"slaveAck"}
  Callers = "aborting"
  Resets = TRUE
INVARIANTS
  ClearFreesTheBus
PROPERTY
  CallsReturn
