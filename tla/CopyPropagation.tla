--------------------------- MODULE CopyPropagation ---------------------------
(***************************************************************************)
(* src/src/optimizations/cp.c: one forward iteration over the program that *)
(* replaces, in place, every operand all of whose definitions copy the     *)
(* same local field into it, when that field is assigned nowhere between   *)
(* the definitions and the operand.                                        *)
(***************************************************************************)
EXTENDS ReachingDefinitions

CONSTANT Programs   \* the programs the pass is run on

VARIABLES
  blocks,             \* the program
  block_index,        \* the block being visited, 1-based
  assignment_index    \* the assignment being visited, 0-based as in the code

vars == <<blocks, block_index, assignment_index>>

\* can_propagate_copy: the field a read of f at (b, i) may be replaced by, if any.
\* Definitions all have destination f, so that those with one source are equal.
\* Mutant: a source assigned again in between is not noticed.
StaleSources(b, i, f) ==
  LET definitions == Definitions(blocks, b, i, f)
      sources == {d.operands[1] : d \in {e \in definitions : e.type = "move"}}
  IN  {s.field : s \in {o \in sources : /\ IsField(o) /\ ~ IsFieldGlobal(o)
                                        /\ definitions = {Move(o, f)}}}
CopySources(b, i, f) ==
  LET definitions == Definitions(blocks, b, i, f)
      sources == {d.operands[1] : d \in {e \in definitions : e.type = "move"}}
  IN  {s.field : s \in {o \in sources : /\ IsField(o) /\ ~ IsFieldGlobal(o)
                                        /\ definitions = {Move(o, f)}
                                        /\ o.field \notin Mutated(blocks, b, i, f)}}

\* optimize_operand
Propagate(b, i, operand) ==
  IF IsField(operand) /\ ~ IsFieldGlobal(operand) /\ CopySources(b, i, operand.field) # {}
    THEN FieldOperand(CHOOSE f \in CopySources(b, i, operand.field) : TRUE)
    ELSE operand

PropagateAll(b, i, operands) == [k \in DOMAIN operands |-> Propagate(b, i, operands[k])]

-----------------------------------------------------------------------------
Start == block_index = 1 /\ assignment_index = 0

Init == blocks \in Programs /\ Start

Running == block_index =< Len(blocks)
AtAssignment == Running /\ assignment_index < Len(blocks[block_index].assignments)
AtTerminal == Running /\ assignment_index >= Len(blocks[block_index].assignments)

OptimizeAssignment ==
  /\ AtAssignment
  /\ LET i == assignment_index + 1
     IN  blocks' = [blocks EXCEPT ![block_index].assignments[i].operands =
                      PropagateAll(block_index, i, @)]
  /\ assignment_index' = assignment_index + 1
  /\ UNCHANGED block_index

OptimizeTerminal ==
  /\ AtTerminal
  /\ blocks' = [blocks EXCEPT ![block_index].terminal.operands =
                  PropagateAll(block_index, assignment_index + 1, @)]
  /\ block_index' = block_index + 1
  /\ assignment_index' = 0

Next == OptimizeAssignment \/ OptimizeTerminal

Done == block_index > Len(blocks)

Spec == Init /\ [][Next]_vars
=============================================================================
