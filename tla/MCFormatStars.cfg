SPECIFICATION Spec
CONSTANTS
  CharBits = 4
  ShortBits = 5
  IntBits = 6
  LongBits = 7
  CbufSize = 4
  Chars <- MCChars
  Formats <- MCFormats
INVARIANTS
  Prints
CHECK_DEADLOCK FALSE
