SPECIFICATION FairSpec
CONSTANTS
  Defaults <- MCDefaults
  Commands <- MCCommands
  Uart = TRUE
  MaxEvents = 5
INVARIANTS
  OneIdentity
  ConsoleDetached
  FlagsTrackLine
PROPERTY
  SwitchEnds
CHECK_DEADLOCK FALSE
