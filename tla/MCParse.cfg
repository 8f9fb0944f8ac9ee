SPECIFICATION FairSpec
CONSTANTS
  Chars <- MCChars
  LineMax = 4
  Dumps <- MCDumps
  Word = 256
INVARIANTS
  TypeOK
  EveryWordOnce
  NumeralsOnly
  ReadsBack
PROPERTY
  LineEnds
