\* Two methods or imports, four declarations, blocks nested three deep.
CONSTANTS
  Names = {"main", "x"}
  MaxDeclarations = 4
  MaxBlocks = 3
  MaxMethods = 2

SPECIFICATION Spec

INVARIANTS
  TypeOK
  NamesResolveAlike
  LoopDepthIsExact
  GlobalNamesAreDistinct
