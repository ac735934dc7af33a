\* Programs of at most 8 blocks: two nested loops and a break or a continue in
\* the inner one, a for loop holding a short circuit, an if with an else, two methods.
CONSTANTS
  MaxBlocks = 8
  MaxDepth = 4
  MaxMethods = 2

SPECIFICATION CompileSpec

\* The text is finished, or the budget of blocks is spent.
CHECK_DEADLOCK FALSE

INVARIANTS
  TypeOK
  BranchFallsThrough
  NoBlockTwice
  NoBlockLost
  MethodsAreClosed
  PredecessorsMatchTerminals
  LoopStacksMatchLoops
  EveryBlockCanLeave
  LoopsHaveOneEntry
  TextFollowsGraph
  ControlStaysInTheMethod

PROPERTY
  BreakAndContinueAreInnermost
