SPECIFICATION Spec
CONSTANTS
  Bits = 8
  Bytes <- MCBytes
  Own <- MCOwn
  StretchAt = {"slaveAck", "sendData"}
  Callers = "textbook"
  Resets = FALSE
INVARIANTS
  TypeOK
  HoldTracksBus
  PeerListens
  Delivered
PROPERTY
  FollowsProtocol
