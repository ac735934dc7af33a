\* As MCOptimizations, on other programs.
CONSTANTS
  Half = 4
  Fuel = 12
  IndexModulus = 32
  Globals <- MCGlobals
  NonLocalTemporaries <- MCNonLocal
  Parameters <- MCParameters
  Lengths <- MCLengths
  Inputs <- MCInputs
  PassSets <- MCPassSets
  Programs <- ArgumentUpdates

SPECIFICATION Spec

\* The compilation ends, or the compiler is killed.
CHECK_DEADLOCK FALSE

INVARIANTS
  MeaningPreserved
