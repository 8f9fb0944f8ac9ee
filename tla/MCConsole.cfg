SPECIFICATION Spec
CONSTANTS
  Keys = {"w", "CR", "BS"}
  Enter = "CR"
  Backspace = "BS"
  Plus = "w"
  Wanted = {"w"}
  NoKey = "NUL"
  LineMax = 2
  Burst = 3
  Wrap = 1
  QueueMax = 3
  TypedMax = 3
  Commands = {"menu1", "menu2"}
  HasUart = TRUE
INVARIANTS
  NothingThrown
  LineFaithful
  NoReentry
  KeyFresh
