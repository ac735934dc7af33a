\* Every declaration of one name has one length.
CONSTANTS
  GlobalFields <- ArrayAndScalar
  Declarable <- ArrayAndScalar
  MaxMethods = 2
  MaxFields = 6
  MaxScopes = 4

SPECIFICATION Spec

\* All frames are laid out.
CHECK_DEADLOCK FALSE

INVARIANTS
  TypeOK
  FieldsStayInFrame
  FieldsDoNotOverlap
  GlobalsKeepTheirLabels
