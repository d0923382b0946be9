SPECIFICATION BitmapSpec
CONSTANTS
  W = 6
  Sizes <- MCSizes
  Indices = {0, 1, 7, 8, 15, 16}
INVARIANTS
  Rounds
PROPERTIES
  IsSetOfBits
