------------------------- MODULE DeadCodeElimination -------------------------
(***************************************************************************)
(* src/src/optimizations/dce.c: for each method, a set of live field names *)
(* is grown from the globals, the arrays, the call arguments and the       *)
(* terminals until a pass over the assignments adds nothing; then the      *)
(* assignments to fields that are not live are removed, method calls       *)
(* excepted.                                                               *)
(***************************************************************************)
EXTENDS Llir

CONSTANTS
  Programs,       \* the programs the pass is run on
  IndexModulus    \* 2^32: the iterator's indexes are uint32_t

ASSUME IndexModulusAssumption == IndexModulus \in Nat /\ IndexModulus >= 2

IsSequence(s) == s \in Seq({s[i] : i \in DOMAIN s})

\* What the constructors of llir.c and its list functions can build.
IsAssignment(a) ==
  /\ a = [type |-> a.type, destination |-> a.destination, operands |-> a.operands, array |-> a.array]
  /\ IsSequence(a.operands)
IsBlock(block) ==
  /\ block = [method |-> block.method, arrays |-> block.arrays, assignments |-> block.assignments,
              terminal |-> block.terminal, predecessors |-> block.predecessors]
  /\ block.method \in Nat \ {0}
  /\ IsFiniteSet(block.arrays)
  /\ IsSequence(block.assignments)
  /\ \A i \in DOMAIN block.assignments : IsAssignment(block.assignments[i])
  /\ IsSequence(block.terminal.operands)

\* The assignments of a block are counted in a uint32_t.
ASSUME ProgramsAssumption ==
  /\ \A program \in Programs :
       /\ IsSequence(program)
       /\ \A b \in DOMAIN program :
            IsBlock(program[b]) /\ Len(program[b].assignments) < IndexModulus
  /\ IsFiniteSet(Globals)

VARIABLES
  blocks,             \* the program
  block_index,        \* the block being visited, 1-based
  assignment_index,   \* the assignment being visited, 0-based as in the code
  current_method,     \* the method whose dead code is being eliminated
  phase,              \* "roots", "closure" or "prune"
  live,               \* live_set
  prev_live_count     \* the size of live_set when the pass over the program began

vars == <<blocks, block_index, assignment_index, current_method, phase, live, prev_live_count>>

Of(b) == blocks[b].method = current_method
Assignments(b) == blocks[b].assignments

\* add_live_variables_from_globals, _fields, _method_call_arguments, _terminals
CallArguments(b) ==
  UNION {FieldsIn(Assignments(b)[i].operands) :
           i \in {j \in DOMAIN Assignments(b) : Assignments(b)[j].type = "method_call"}}
Roots ==
  Globals \cup
  UNION {blocks[b].arrays \cup CallArguments(b) \cup FieldsIn(blocks[b].terminal.operands) :
           b \in {c \in DOMAIN blocks : Of(c)}}

\* add_live_variables_from_assignments; the array an access reads is a root.
\* Mutant: the uses of every assignment, live or not.
UsesOfAll(a) == FieldsIn(a.operands)
UsesIfLive(a) == IF a.destination \in live THEN FieldsIn(a.operands) ELSE {}

Survives(a) == a.destination \in live \/ a.type = "method_call"

-----------------------------------------------------------------------------
Start ==
  /\ block_index = 1 /\ assignment_index = 0
  /\ current_method = 1
  /\ phase = "roots"
  /\ live = {} /\ prev_live_count = 0

Init == blocks \in Programs /\ Start

Rewind == block_index' = 1 /\ assignment_index' = 0

\* The methods are numbered from 1 in the order of llir->methods.
Running == \E b \in DOMAIN blocks : blocks[b].method >= current_method
InProgram == block_index =< Len(blocks)
AtAssignment == InProgram /\ assignment_index < Len(Assignments(block_index))
Visited == Assignments(block_index)[assignment_index + 1]

\* Up to the first prev_live_count = live_set_count().
AddRoots ==
  /\ Running
  /\ phase = "roots"
  /\ live' = Roots
  /\ prev_live_count' = Cardinality(Roots)
  /\ phase' = "closure"
  /\ Rewind
  /\ UNCHANGED <<blocks, current_method>>

AddUses ==
  /\ phase = "closure"
  /\ AtAssignment
  /\ live' = IF Of(block_index) THEN live \cup UsesIfLive(Visited) ELSE live
  /\ assignment_index' = assignment_index + 1
  /\ UNCHANGED <<blocks, block_index, current_method, phase, prev_live_count>>

\* iterate_block runs out of assignments.
\* Mutant: the index kept across blocks.
NextBlockKeepsIndex ==
  /\ phase \in {"closure", "prune"}
  /\ InProgram /\ ~ AtAssignment
  /\ block_index' = block_index + 1
  /\ UNCHANGED <<blocks, assignment_index, current_method, phase, live, prev_live_count>>
NextBlock ==
  /\ phase \in {"closure", "prune"}
  /\ InProgram /\ ~ AtAssignment
  /\ block_index' = block_index + 1
  /\ assignment_index' = 0
  /\ UNCHANGED <<blocks, current_method, phase, live, prev_live_count>>

\* The end of the do ... while loop's body.
\* Mutant: a single pass.
EndOnlyPass ==
  /\ phase = "closure"
  /\ ~ InProgram
  /\ phase' = "prune"
  /\ Rewind
  /\ UNCHANGED <<blocks, current_method, live, prev_live_count>>
\* Mutant: the count taken once, before the loop.
EndPassStaleCount ==
  /\ phase = "closure"
  /\ ~ InProgram
  /\ phase' = IF Cardinality(live) = prev_live_count THEN "prune" ELSE "closure"
  /\ Rewind
  /\ UNCHANGED <<blocks, current_method, live, prev_live_count>>
EndPass ==
  /\ phase = "closure"
  /\ ~ InProgram
  /\ phase' = IF Cardinality(live) = prev_live_count THEN "prune" ELSE "closure"
  /\ prev_live_count' = Cardinality(live)
  /\ Rewind
  /\ UNCHANGED <<blocks, current_method, live>>

\* prune_dead_variables: the index steps back, below 0 at the first assignment,
\* and the iteration's own step forward undoes that.
Prune ==
  LET dead == Of(block_index) /\ ~ Survives(Visited)
      i == assignment_index + 1
      kept_index == IF dead THEN (assignment_index - 1) % IndexModulus ELSE assignment_index
  IN  /\ phase = "prune"
      /\ AtAssignment
      /\ blocks' = IF dead THEN [blocks EXCEPT ![block_index].assignments =
                                   SubSeq(@, 1, i - 1) \o SubSeq(@, i + 1, Len(@))]
                   ELSE blocks
      /\ assignment_index' = (kept_index + 1) % IndexModulus
      /\ UNCHANGED <<block_index, current_method, phase, live, prev_live_count>>

NextMethod ==
  /\ phase = "prune"
  /\ ~ InProgram
  /\ current_method' = current_method + 1
  /\ phase' = "roots"
  /\ live' = {} /\ prev_live_count' = 0
  /\ Rewind
  /\ UNCHANGED blocks

Next == AddRoots \/ AddUses \/ NextBlock \/ EndPass \/ Prune \/ NextMethod

Spec == Init /\ [][Next]_vars

\* The compiler is one thread that runs until it is done.
FairSpec == Spec /\ WF_vars(Next)

Done == phase = "roots" /\ ~ Running

-----------------------------------------------------------------------------
(* Properties *)

\* The indexes stay inside the program: uint32_t arithmetic never shows.
TypeOK ==
  /\ block_index \in 1 .. Len(blocks) + 1
  /\ assignment_index \in 0 .. (IF InProgram THEN Len(Assignments(block_index)) ELSE 0)
  /\ current_method \in Nat \ {0}
  /\ phase \in {"roots", "closure", "prune"}
  /\ IsFiniteSet(live)
  /\ prev_live_count \in Nat

\* S holds the roots and, with a field, whatever its assignments read.
ClosedUnderUses(S) ==
  /\ Roots \subseteq S
  /\ \A b \in DOMAIN blocks : Of(b) =>
       \A i \in DOMAIN Assignments(b) :
         Assignments(b)[i].destination \in S => FieldsIn(Assignments(b)[i].operands) \subseteq S

\* When pruning starts, and until it ends, no kept assignment reads a field whose
\* assignments are dead: comparing two counts of live_set is a sound test for
\* having reached the fixpoint, in whatever order the uses were met.
LiveIsClosed == phase = "prune" => ClosedUnderUses(live)

\* The pass as a whole does what Elimination promises.  The promised step is the
\* one that ends the closure: from then on the promised program is what pruning
\* will have made of the present one.
Promise ==
  INSTANCE Elimination WITH
    method <- IF phase = "prune" THEN current_method + 1 ELSE current_method,
    program <- IF phase = "prune"
                 THEN [b \in DOMAIN blocks |->
                         IF Of(b) THEN [blocks[b] EXCEPT !.assignments = Filtered(@, Survives)]
                         ELSE blocks[b]]
                 ELSE blocks

\* No closure too small or too large, no assignment skipped, taken by mistake or
\* moved, no other method touched.
ImplementsElimination == Promise!Spec

\* The growing of live_set and with it the whole pass comes to an end.
Terminates == <>Done
=============================================================================
