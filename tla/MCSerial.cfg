SPECIFICATION Spec
CONSTANTS
  FifoSize = 2
  RemoteBytes = {7, 8}
  Bytes = {1, 2}
  MaxWrites = 3
  MaxArrivals = 4
INVARIANTS
  GoodPort
PROPERTIES
  IsLine
  CallsReturn
CHECK_DEADLOCK FALSE
