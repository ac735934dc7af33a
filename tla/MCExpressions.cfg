\* Words -3 .. 2, in which negation, sums and products overflow.
CONSTANTS
  Half = 3
  Literals <- MCLiterals
  Declarations <- MCDeclarations
  Methods <- MCMethods
  MaxFields = 1
  MaxOperands = 3

SPECIFICATION Spec

INVARIANTS
  TypeOK
  TypesDecide
  ValuesAreKept
