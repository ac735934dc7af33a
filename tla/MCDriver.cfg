\* A run of the compiler ends.
CONSTANTS
  Compilations <- MCCompilations

SPECIFICATION Spec

INVARIANTS
  ExitCodeIsHonest
  IrIsTheReading
  

CHECK_DEADLOCK FALSE
