SPECIFICATION Spec
CONSTANTS
  IdtEntries = 256
  NumExceptions = 32
  Tables <- MCTables
  IdtAddress <- MCIdtAddress
  GdtAddress <- MCGdtAddress
INVARIANTS
  GatesLead
  SegmentsFlat
CHECK_DEADLOCK FALSE
