SPECIFICATION Spec
CONSTANTS
  Data <- MCData
  RegFiles <- MCRegFiles
  Locals <- MCLocals
  IrqVectors = {8, 32, 255}
  Exceptions = {6, 14, 21}
  MaxActs = 4
INVARIANTS
  FrameFaithful
  ReturnAligned
  IrqNotNested
PROPERTIES
  Transparent
  MainResumes
CHECK_DEADLOCK FALSE
