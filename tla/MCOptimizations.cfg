\* Words -4 .. 3; runs of at most 12 blocks.
CONSTANTS
  Half = 4
  Fuel = 12
  IndexModulus = 32
  Globals <- MCGlobals
  NonLocalTemporaries <- MCNonLocal
  Parameters <- MCParameters
  Lengths <- MCLengths
  Inputs <- MCInputs
  PassSets <- MCPassSets
  Programs <- MCPrograms

SPECIFICATION Spec

\* The compilation ends, or the compiler is killed.
CHECK_DEADLOCK FALSE

INVARIANTS
  MeaningPreserved
  KilledOnlyByFaults
