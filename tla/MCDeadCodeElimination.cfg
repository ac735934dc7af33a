\* Indexes of 3 bits: enough for blocks of two assignments, and small enough
\* that the step below 0 wraps.
CONSTANTS
  Globals = {"g"}
  NonLocalTemporaries = {}
  IndexModulus = 8
  Programs <- MCPrograms

SPECIFICATION FairSpec

\* The pass ends.
CHECK_DEADLOCK FALSE

INVARIANTS
  TypeOK
  LiveIsClosed

PROPERTIES
  ImplementsElimination
  Terminates
