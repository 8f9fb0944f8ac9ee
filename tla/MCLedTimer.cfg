SPECIFICATION FairTimerSpec
CONSTANTS
  Patterns <- MCPatterns
  First = 0
  Base = 4
  Highs = 4
  StepTime = 2
  RoundTicks = 2
INVARIANTS
  StepsInOrder
  DutyCycle
PROPERTIES
  Linear
  Paced
  GoesOn
