--------------------------- MODULE ConstantFolding ---------------------------
(***************************************************************************)
(* src/src/optimizations/cf.c: one forward iteration over the program that *)
(* replaces, in place, every operand all of whose definitions move the     *)
(* same literal into it, and every assignment with literal operands by its *)
(* result.                                                                 *)
(***************************************************************************)
EXTENDS ReachingDefinitions, Arithmetic

CONSTANT Programs   \* the programs the pass is run on

VARIABLES
  blocks,             \* the program
  block_index,        \* the block being visited, 1-based
  assignment_index,   \* the assignment being visited, 0-based as in the code
  killed              \* the compiler has been killed by a division fault

vars == <<blocks, block_index, assignment_index, killed>>

\* optimize_operand, all_definitions_are_constant.  Definitions all have the same
\* destination, so that equal constants make them equal assignments.
\* Mutant: one constant definition is enough.
FoldAnyDefinition(b, i, operand) ==
  LET definitions == Definitions(blocks, b, i, operand.field)
      Constant(n) == Move(Literal(n), operand.field) \in definitions
  IN  IF IsField(operand) /\ ~ IsFieldGlobal(operand) /\ \E n \in Word : Constant(n)
        THEN Literal(CHOOSE n \in Word : Constant(n))
        ELSE operand
FoldOperand(b, i, operand) ==
  LET definitions == Definitions(blocks, b, i, operand.field)
      Constant(n) == definitions = {Move(Literal(n), operand.field)}
  IN  IF IsField(operand) /\ ~ IsFieldGlobal(operand) /\ \E n \in Word : Constant(n)
        THEN Literal(CHOOSE n \in Word : Constant(n))
        ELSE operand

FoldOperands(b, i, operands) == [k \in DOMAIN operands |-> FoldOperand(b, i, operands[k])]

Literals(operands) == \A k \in DOMAIN operands : operands[k].type = "literal"

\* optimize_assignment: the assignment with its operands folded ...
WithFoldedOperands(b, i) ==
  LET a == blocks[b].assignments[i]
  IN  [a EXCEPT !.operands = FoldOperands(b, i, a.operands)]

\* ... and a unary or binary one on literals by a move of its result.
Folded(a) ==
  IF a.type \in UnaryType /\ Literals(a.operands)
    THEN Move(Literal(FoldUnary(a.type, a.operands[1].literal)), a.destination)
  ELSE IF a.type \in BinaryType /\ Literals(a.operands)
    THEN Move(Literal(FoldBinary(a.type, a.operands[1].literal, a.operands[2].literal)),
              a.destination)
  ELSE a

\* Folding a divides by zero, or MinWord by -1, in the compiler itself.
Divides(a) ==
  /\ a.type \in DivisionType /\ Literals(a.operands)
  /\ Traps(a.type, a.operands[1].literal, a.operands[2].literal)

-----------------------------------------------------------------------------
Start == block_index = 1 /\ assignment_index = 0 /\ killed = FALSE

Init == blocks \in Programs /\ Start

Running == ~ killed /\ block_index =< Len(blocks)
AtAssignment == Running /\ assignment_index < Len(blocks[block_index].assignments)
AtTerminal == Running /\ assignment_index >= Len(blocks[block_index].assignments)

OptimizeAssignment ==
  /\ AtAssignment
  /\ LET i == assignment_index + 1
     IN  blocks' = [blocks EXCEPT ![block_index].assignments[i] =
                      Folded(WithFoldedOperands(block_index, i))]
  /\ assignment_index' = assignment_index + 1
  /\ UNCHANGED <<block_index, killed>>

\* A fault of the host's division instruction (x86); an arm64 host goes on.
DivisionFault ==
  /\ AtAssignment
  /\ Divides(WithFoldedOperands(block_index, assignment_index + 1))
  /\ killed' = TRUE
  /\ UNCHANGED <<blocks, block_index, assignment_index>>

\* optimize_terminal: the operands of a branch or a return; others have none.
OptimizeTerminal ==
  /\ AtTerminal
  /\ blocks' = [blocks EXCEPT ![block_index].terminal.operands =
                  FoldOperands(block_index, assignment_index + 1, @)]
  /\ block_index' = block_index + 1
  /\ assignment_index' = 0
  /\ UNCHANGED killed

Next == OptimizeAssignment \/ DivisionFault \/ OptimizeTerminal

Done == ~ killed /\ block_index > Len(blocks)

Spec == Init /\ [][Next]_vars
=============================================================================
