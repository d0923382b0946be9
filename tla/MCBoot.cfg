SPECIFICATION Spec
CONSTANTS
  IdtEntries = 256
  NumExceptions = 32
  IrqVectors <- MCIrqVectors
  FwCS = 56
  StackFrames = 7
INVARIANTS
  TypeOK
  ConsoleReady
  DescriptorsUsable
  PanicMasked
  IrqWindow
  Diagnosis
  ShutdownCause
  Mirrored
PROPERTIES
  PanicFinal
  ComesToRest
  BootCompletes
  NullReported
CHECK_DEADLOCK FALSE
