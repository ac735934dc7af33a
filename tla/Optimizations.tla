---------------------------- MODULE Optimizations ----------------------------
(***************************************************************************)
(* src/src/optimizations/optimizations.c: the passes that the command line *)
(* asks for, always in the order constant folding, copy propagation,       *)
(* dead-code elimination, on one program in place.                         *)
(***************************************************************************)
EXTENDS Execution

CONSTANTS
  Programs,       \* the programs that are compiled
  PassSets,       \* the sets of passes asked for
  Inputs,         \* the inputs on which the compiled programs are compared
  IndexModulus    \* 2^32

VARIABLES
  passes,             \* the passes asked for that are still to run
  original,           \* the program as generated (not in the code: it is overwritten)
  blocks, block_index, assignment_index,       \* shared by all passes
  killed,                                      \* ConstantFolding's
  current_method, phase, live, prev_live_count \* DeadCodeElimination's

vars == <<passes, original, blocks, block_index, assignment_index, killed,
          current_method, phase, live, prev_live_count>>

CF == INSTANCE ConstantFolding
CP == INSTANCE CopyPropagation
DCE == INSTANCE DeadCodeElimination

Order == <<"cf", "cp", "dce">>

\* The pass that is running.
Current == Order[CHOOSE k \in 1 .. 3 : Order[k] \in passes /\ \A j \in 1 .. k - 1 : Order[j] \notin passes]
Runs(pass) == passes # {} /\ Current = pass

Init ==
  /\ passes \in PassSets
  /\ original \in Programs
  /\ blocks = original
  /\ CF!Start /\ DCE!Start

FoldConstants ==
  /\ Runs("cf") /\ CF!Next
  /\ UNCHANGED <<passes, original, current_method, phase, live, prev_live_count>>

PropagateCopies ==
  /\ Runs("cp") /\ CP!Next
  /\ UNCHANGED <<passes, original, killed, current_method, phase, live, prev_live_count>>

EliminateDeadCode ==
  /\ Runs("dce") /\ DCE!Next
  /\ UNCHANGED <<passes, original, killed>>

PassDone ==
  \/ Runs("cf") /\ CF!Done
  \/ Runs("cp") /\ CP!Done
  \/ Runs("dce") /\ DCE!Done

NextPass ==
  /\ PassDone
  /\ passes' = passes \ {Current}
  /\ block_index' = 1 /\ assignment_index' = 0
  /\ UNCHANGED <<original, blocks, killed, current_method, phase, live, prev_live_count>>

Next == FoldConstants \/ PropagateCopies \/ EliminateDeadCode \/ NextPass

Spec == Init /\ [][Next]_vars

-----------------------------------------------------------------------------
(* Properties *)

\* The first block of every method.
Entries == {b \in DOMAIN original : b = 1 \/ original[b - 1].method # original[b].method}

\* Whenever a pass has ended, and whichever passes ran before it, each method
\* shows its callees and its caller the same calls, globals and result as the
\* program that was generated, on every input.
MeaningPreserved ==
  PassDone => \A b \in Entries : SameMeaning(original, blocks, b, Inputs)

\* Constant folding kills the compiler only over a division that no run of the
\* program survives either: with the program stopped right behind that division,
\* no input gets a run that far.
KilledOnlyByFaults ==
  LET stopped == [original EXCEPT ![block_index].assignments = SubSeq(@, 1, assignment_index + 1),
                                  ![block_index].terminal = Exit]
  IN  killed => \A b \in Entries, input \in Inputs :
                  LET run == Run(stopped, b, input)
                  IN  ~ (run.status = "exited" /\ run.block = block_index)
=============================================================================
