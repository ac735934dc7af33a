\* Three methods active at once; the deepest stack takes 41 words.
CONSTANTS
  Methods <- MCMethods
  Main <- MCMain
  Results <- MCResults
  Touched = {1, 8}
  StackTop = 44
  MaxDepth = 3

SPECIFICATION Spec

INVARIANTS
  TypeOK
  CallsAreAligned
  StackIsBalanced

PROPERTY
  ImplementsActivations
