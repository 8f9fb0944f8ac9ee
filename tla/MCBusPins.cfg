SPECIFICATION PinsSpec
CONSTANTS
  Bytes <- MCBytes
  MaxTokens = 5
  Boards = {TRUE, FALSE}
INVARIANTS
  SlaveListening
  ErrorReleasesBus
  OneBehind
  WireTracksHold
  SelectedWhileOpen
PROPERTY
  CompletesInOrder
