-------------------------------- MODULE Llir --------------------------------
(***************************************************************************)
(* The data of src/src/assembly/llir.h that the optimization passes work   *)
(* on.  A program is the sequence of its blocks in the order llir_iterate  *)
(* visits them, method after method, and a block is                        *)
(*   [method, arrays, assignments, terminal, predecessors]                 *)
(* where blocks are named by their position in the program and "arrays" are *)
(* the array fields declared in the block.  An assignment is               *)
(*   [type, destination, operands, array]                                  *)
(* with the operands in the order of its union's members (left, right;     *)
(* update_index, update_value; access_index; arguments), and a terminal is *)
(*   [type, comparison, unsigned_comparison, operands, targets].           *)
(***************************************************************************)
EXTENDS Integers, Sequences, FiniteSets

CONSTANTS
  Globals,               \* identifiers of llir->fields
  NonLocalTemporaries    \* '#' temporaries, which hold short-circuit results

\* The elements of a sequence that are to be kept, in order: SelectSeq as a recursive
\* function, which can be reasoned about.
Filtered(s, Keep(_)) ==
  LET kept[n \in 0 .. Len(s)] ==
        IF n = 0 THEN <<>>
        ELSE IF Keep(s[n]) THEN Append(kept[n - 1], s[n]) ELSE kept[n - 1]
  IN  kept[Len(s)]

\* Operands; a string operand is a literal to every pass.
FieldOperand(f) == [type |-> "field", field |-> f]
Literal(n) == [type |-> "literal", literal |-> n]

IsField(operand) == operand.type = "field"

\* Names with neither '$' nor '@' in them: '#' temporaries count as global.
IsFieldGlobal(operand) == operand.field \in Globals \cup NonLocalTemporaries

FieldsIn(operands) ==
  {operands[i].field : i \in {j \in DOMAIN operands : IsField(operands[j])}}

Assignment(type, destination, operands) ==
  [type |-> type, destination |-> destination, operands |-> operands, array |-> ""]
Move(source, destination) == Assignment("move", destination, <<source>>)
ArrayAccess(index, array, destination) ==
  [Assignment("array_access", destination, <<index>>) EXCEPT !.array = array]
ArrayUpdate(index, value, array) == Assignment("array_update", array, <<index, value>>)
MethodCall(arguments, destination) == Assignment("method_call", destination, arguments)

JumpTo(b) ==
  [type |-> "jump", comparison |-> "", unsigned_comparison |-> FALSE,
   operands |-> <<>>, targets |-> <<b>>]
BranchIf(comparison, unsigned_comparison, l, r, true_block, false_block) ==
  [type |-> "branch", comparison |-> comparison,
   unsigned_comparison |-> unsigned_comparison,
   operands |-> <<l, r>>, targets |-> <<true_block, false_block>>]
ReturnOf(source) == [JumpTo(0) EXCEPT !.type = "return", !.operands = <<source>>, !.targets = <<>>]
Exit == [JumpTo(0) EXCEPT !.type = "shit_yourself", !.targets = <<>>]
=============================================================================
