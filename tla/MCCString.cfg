SPECIFICATION CallSpec
CONSTANTS
  ByteValues = {1, 127, 200}
  MaxLen = 3
INVARIANTS
  Compares
  Searches
CHECK_DEADLOCK FALSE
