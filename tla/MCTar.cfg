SPECIFICATION Spec
CONSTANTS
  a = a
  b = b
  prose = prose
  NoName = NoName
  Block = 8
  Word = 256
  Digits = 3
  PrintBuf = 11
  NameLen = 2
  Names <- MCNames
  Archives <- MCArchives
  Contents <- MCContents
INVARIANTS
  OnlyHeaders
  FoundRight
  ListedAll
  TextShown
PROPERTIES
  WalkEnds
CHECK_DEADLOCK FALSE
