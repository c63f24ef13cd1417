\* Two strings of one or two chars of two bits.
CONSTANTS
  NULL = NULL
  Handle = {h1, h2}
  CHAR_BIT = 2
  INT_BIT = 4
  MaxBits = 4
  MaxShift = 5
SPECIFICATION Spec
INVARIANTS
  TypeOK
  RotatePermutes
  PrintShowsBits
PROPERTIES
  CallsImplementBits
