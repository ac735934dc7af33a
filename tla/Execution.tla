------------------------------ MODULE Execution ------------------------------
(***************************************************************************)
(* What the code that code_generator.c emits for one method does when it   *)
(* runs: assignment by assignment, then the terminal, block by block.  A   *)
(* memory gives each field its words (a scalar is an array of one word,    *)
(* as in struct llir_field).  Calls are the environment: they see their    *)
(* arguments and the globals, and may change the globals.                  *)
(***************************************************************************)
EXTENDS Llir, Arithmetic

CONSTANTS
  Lengths,      \* value_count of every field: a function on the field names
  Parameters,   \* the names of the method's arguments
  Fuel          \* bound on the number of blocks a run executes

\* What the environment gives a run: the value of the arguments, the globals'
\* at entry, what calls return and leave in the globals, and what uninitialised
\* stack slots hold.
Input == [argument : Word, global : Word, answer : Word, garbage : Word]

Fields == DOMAIN Lengths
Constantly(f, n) == [k \in 0 .. Lengths[f] - 1 |-> n]

Entry(b, input) ==
  [block |-> b, status |-> "running", result |-> 0, events |-> <<>>,
   memory |-> [f \in Fields |->
     Constantly(f, IF f \in Globals THEN input.global
                   ELSE IF f \in Parameters THEN input.argument ELSE input.garbage)]]

Value(memory, operand) == IF IsField(operand) THEN memory[operand.field][0] ELSE operand.literal
Values(memory, operands) == [k \in DOMAIN operands |-> Value(memory, operands[k])]
GlobalsIn(memory) == [g \in Globals |-> memory[g]]

Store(s, f, index, n) == [s EXCEPT !.memory[f][index] = n]

\* An index outside the array reads or writes somebody else's memory: no
\* promise is made from there on.
Undefined(s) == [s EXCEPT !.status = "undefined"]

Call(s, a, input) ==
  LET seen == <<Values(s.memory, a.operands), GlobalsIn(s.memory)>>
      globals == [f \in Fields |->
                    IF f \in Globals THEN Constantly(f, input.answer) ELSE s.memory[f]]
  IN  Store([s EXCEPT !.events = Append(@, seen), !.memory = globals],
            a.destination, 0, input.answer)

\* generate_assignment
Execute(s, a, input) ==
  LET v == Values(s.memory, a.operands)
  IN  CASE a.type \in UnaryType -> Store(s, a.destination, 0, MachineUnary(a.type, v[1]))
        [] a.type \in BinaryType ->
             IF Traps(a.type, v[1], v[2]) THEN [s EXCEPT !.status = "trapped"]
             ELSE Store(s, a.destination, 0, MachineBinary(a.type, v[1], v[2]))
        [] a.type = "array_access" ->
             IF v[1] \notin DOMAIN s.memory[a.array] THEN Undefined(s)
             ELSE Store(s, a.destination, 0, s.memory[a.array][v[1]])
        [] a.type = "array_update" ->
             IF v[1] \notin DOMAIN s.memory[a.destination] THEN Undefined(s)
             ELSE Store(s, a.destination, v[1], v[2])
        [] a.type = "method_call" -> Call(s, a, input)

ExecuteAll(s, assignments, input) ==
  LET after[k \in 0 .. Len(assignments)] ==
        IF k = 0 THEN s
        ELSE LET before == after[k - 1]
             IN  IF before.status = "running" THEN Execute(before, assignments[k], input) ELSE before
  IN  after[Len(assignments)]

\* generate_branch, generate_jump, generate_return, generate_shit_yourself: a
\* branch jumps to false_block when its comparison holds and falls through to
\* true_block, the next block of the text, when it does not.
Leave(s, t) ==
  LET v == Values(s.memory, t.operands)
  IN  CASE t.type = "jump" -> [s EXCEPT !.block = t.targets[1]]
        [] t.type = "branch" ->
             [s EXCEPT !.block = IF JumpTaken(t.comparison, t.unsigned_comparison, v[1], v[2])
                                   THEN t.targets[2] ELSE t.targets[1]]
        [] t.type = "return" -> [s EXCEPT !.status = "returned", !.result = v[1]]
        [] t.type = "shit_yourself" -> [s EXCEPT !.status = "exited"]

ExecuteBlock(s, program, input) ==
  LET end == ExecuteAll(s, program[s.block].assignments, input)
  IN  IF end.status = "running" THEN Leave(end, program[s.block].terminal) ELSE end

\* The method that starts at block b, run for at most Fuel blocks.
Run(program, b, input) ==
  LET after[k \in 0 .. Fuel] ==
        IF k = 0 THEN Entry(b, input)
        ELSE LET before == after[k - 1]
             IN  IF before.status = "running" THEN ExecuteBlock(before, program, input) ELSE before
  IN  after[Fuel]

\* What the rest of the world sees of a run, also of an unfinished one.
Observable(s) ==
  [status |-> s.status, block |-> s.block, result |-> s.result, events |-> s.events,
   globals |-> GlobalsIn(s.memory)]

\* The program does what the original does, unless the original runs into a
\* division fault or out of an array.
SameMeaning(original, program, b, inputs) ==
  \A input \in inputs :
    LET promised == Run(original, b, input)
    IN  \/ promised.status \in {"trapped", "undefined"}
        \/ Observable(Run(program, b, input)) = Observable(promised)
=============================================================================
