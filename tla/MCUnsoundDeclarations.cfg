CONSTANTS
  Half = 3
  Literals <- MCLiterals
  Declarations <- UnsoundDeclarations
  Methods <- MCMethods
  MaxFields = 1
  MaxOperands = 3

SPECIFICATION Spec

INVARIANT TypesDecide
