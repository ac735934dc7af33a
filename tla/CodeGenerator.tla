---------------------------- MODULE CodeGenerator ----------------------------
(***************************************************************************)
(* The text section that src/src/assembly/code_generator.c prints for the  *)
(* methods LlirGenerator builds: labels, jumps and the ends of methods,    *)
(* with and without the pinhole optimization.  main.c runs the two one     *)
(* after the other, so the methods are finished when the text begins.      *)
(* The instructions of the assignments stay inside a block and are left    *)
(* to module Execution.                                                    *)
(***************************************************************************)
EXTENDS LlirGenerator

VARIABLES
  text,               \* the lines printed so far
  method,             \* the method being printed, 0 before the first
  position,           \* the number of blocks printed, over all methods
  pinhole_optimize    \* the flag -O ph

generator == <<text, method, position, pinhole_optimize>>

-----------------------------------------------------------------------------
(* Lines of text *)

\* A method's declaration, a block's label, a jump or conditional jump to a block,
\* or the end of the method or of the program.
LineOf(op, id) == [op |-> op, id |-> id]

\* Mutant: labels numbered from 0 in every method.
LabelInMethod(b) ==
  LineOf("label", position - (IF method = 1 THEN 0 ELSE methods[method - 1]))
Label(b) == LineOf("label", b)

\* The block behind the i-th in its method; the last one has none, and the -1
\* that stands for it equals no uint32_t id a program can reach.
NextBlockId(i) == IF i < methods[method] THEN layout[i + 1] ELSE NoBlock

\* Mutant: the jump dropped whenever a block follows.
GenerateJumpElided(t, next_block) ==
  IF pinhole_optimize /\ next_block # NoBlock THEN <<>> ELSE <<LineOf("jmp", t.block)>>
GenerateJump(t, next_block) ==
  IF pinhole_optimize /\ t.block = next_block THEN <<>> ELSE <<LineOf("jmp", t.block)>>

\* Only the jump to false_block is printed; true_block comes next.
GenerateBranch(t) == <<LineOf("jcc", t.false_block)>>

GenerateTerminal(t, next_block) ==
  CASE t.type = "jump" -> GenerateJump(t, next_block)
    [] t.type = "branch" -> GenerateBranch(t)
    [] t.type = "return" -> <<LineOf("ret", 0)>>
    [] t.type = "shit_yourself" -> <<LineOf("exit", 0)>>

-----------------------------------------------------------------------------
GeneratorInit ==
  /\ text = <<>>
  /\ method = 0
  /\ position = 0
  /\ pinhole_optimize \in BOOLEAN

\* llir_generator_generate_llir has returned.
LlirDone == frames = <<>> /\ methods # <<>>

\* Every method has its blocks printed.
MethodDone == position = (IF method = 0 THEN 0 ELSE methods[method])

DeclareMethod ==
  /\ LlirDone
  /\ MethodDone
  /\ method < Len(methods)
  /\ method' = method + 1
  /\ text' = Append(text, LineOf("method", method + 1))
  /\ UNCHANGED <<position, pinhole_optimize, vars>>

\* Mutant: the last block of each method forgotten.
GenerateAllButLast ==
  /\ method > 0 /\ ~ MethodDone
  /\ position' = position + 1
  /\ text' = IF position + 1 = methods[method] THEN text
             ELSE text \o <<Label(layout[position + 1])>>
                    \o GenerateTerminal(terminal[layout[position + 1]],
                                        NextBlockId(position + 1))
  /\ UNCHANGED <<method, pinhole_optimize, vars>>

GenerateBlock ==
  LET block == layout[position + 1]
  IN  /\ method > 0 /\ ~ MethodDone
      /\ position' = position + 1
      /\ text' = text \o <<Label(block)>>
                   \o GenerateTerminal(terminal[block], NextBlockId(position + 1))
      /\ UNCHANGED <<method, pinhole_optimize, vars>>

CompileInit == Init /\ GeneratorInit

CompileNext ==
  \/ method = 0 /\ Next /\ UNCHANGED generator
  \/ DeclareMethod
  \/ GenerateBlock

CompileSpec == CompileInit /\ [][CompileNext]_<<vars, generator>>

-----------------------------------------------------------------------------
(* Properties *)

Finished == method > 0 /\ method = Len(methods) /\ MethodDone

LabelAt(i, b) == text[i] = LineOf("label", b)
DeclarationAt(i) == text[i].op = "method"

\* No method begins between two lines of the same method's text.
SameMethod(i, j) ==
  \A k \in (i + 1) .. j : ~ DeclarationAt(k)

\* Where control is after line i - 1 when it has not jumped: at a block, or
\* nowhere (the program has left the method, or runs on past its text).
Arrives(i) ==
  IF i =< Len(text) /\ text[i].op \in {"label", "jmp"} THEN text[i].id ELSE NoBlock

\* Where control goes from the block whose label is line i: when the
\* conditional jump is taken, and otherwise.
Taken(i) == IF i < Len(text) /\ text[i + 1].op = "jcc" THEN text[i + 1].id ELSE NoBlock
Otherwise(i) == Arrives(IF Taken(i) = NoBlock THEN i + 1 ELSE i + 2)

\* The printed text goes where the terminals say: a branch to its false_block
\* when its jump is taken and to its true_block when not, a jump to its block,
\* whether it is printed or left out by the pinhole optimization, and a block that
\* ends the method nowhere.  This rests on the order of the blocks alone.
TextFollowsGraph ==
  Finished =>
    \A i \in 1 .. Len(text) :
      text[i].op = "label" =>
        LET t == terminal[text[i].id]
        IN  /\ Taken(i) = t.false_block
            /\ Otherwise(i) = IF t.type = "branch" THEN t.true_block ELSE t.block
            /\ t.type \in {"return", "shit_yourself"} <=> text[i + 1].op \in {"ret", "exit"}

JumpResolves(i) ==
  \E j \in 1 .. Len(text) :
    /\ LabelAt(j, text[i].id)
    /\ SameMethod(i, j) /\ SameMethod(j, i)
    /\ \A k \in 1 .. Len(text) : LabelAt(k, text[i].id) => k = j
LeavesMethod(i) == text[i].op \in {"ret", "exit"}

\* The assembler resolves every jump to one line: labels are global to the file, so a
\* second block of one id, or a block that was never printed, is an assembler error.  That
\* line is in the jump's method, and control leaves a method only by returning or ending the
\* program: the line before a method's declaration, and the last of the text, do not run on.
ControlStaysInTheMethod ==
  Finished =>
    \A i \in 1 .. Len(text) :
      /\ text[i].op \in {"jmp", "jcc"} => JumpResolves(i)
      /\ (i = Len(text) \/ DeclarationAt(i + 1)) => LeavesMethod(i)
=============================================================================
