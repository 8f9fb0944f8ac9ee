SPECIFICATION FairSpec
CONSTANTS
  Keys = {"w", "+", "CR", "BS"}
  Enter = "CR"
  Backspace = "BS"
  Plus = "+"
  Wanted = {"w"}
  NoKey = "NUL"
  LineMax = 2
  Burst = 2
  Wrap = 4
  QueueMax = 2
  TypedMax = 3
  Commands = {"menu1", "menu2", "bitbang"}
  HasUart = FALSE
PROPERTIES
  LineHandled
  HostNotStuck
