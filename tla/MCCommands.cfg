SPECIFICATION Spec
CONSTANTS
  Alphabet <- MCAlphabet
  Digit <- MCDigit
  BusOf <- MCBusOf
  MaxLine = 5
INVARIANTS
  TypeOK
  NoNullCall
  LineMeaning
