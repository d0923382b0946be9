SPECIFICATION Spec
CONSTANTS
  Bytes = 5
  Chars = {0, 1, 2}
INVARIANTS
  InArea
  Result
PROPERTIES
  Returns
CHECK_DEADLOCK FALSE
