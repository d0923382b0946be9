SPECIFICATION CallSpec
CONSTANTS
  ByteValues = {1, 127, 200}
  MaxLen = 3
INVARIANTS
  SearchesAsPosix
CHECK_DEADLOCK FALSE
