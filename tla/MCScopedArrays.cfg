\* One name may be an array in one scope and a scalar in another.
CONSTANTS
  GlobalFields <- ArrayAndScalar
  Declarable <- ArrayOrScalar
  MaxMethods = 1
  MaxFields = 4
  MaxScopes = 3

SPECIFICATION Spec

CHECK_DEADLOCK FALSE

INVARIANT FieldsDoNotOverlap
