SPECIFICATION Spec
CONSTANTS
  BufSize = 3
  Lengths = {0, 2, 3}
  FixedLen = 2
  Levels = {0, 1}
  Configs <- MCConfigs
  Frames <- MCFrames
  AllRegisters <- MCAllRegisters
  BasicRegisters <- MCBasicRegisters
  StackFrames = 3
  MaxEvents <- MCMaxEvents
INVARIANTS
  NoGarbage
  InOrder
  Mirrored
PROPERTIES
  PanicShown
CHECK_DEADLOCK FALSE
