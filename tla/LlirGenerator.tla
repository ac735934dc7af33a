---------------------------- MODULE LlirGenerator ----------------------------
(***************************************************************************)
(* The control-flow half of src/src/assembly/llir_generator.c: the         *)
(* recursive descent that turns a checked program into methods made of     *)
(* basic blocks.  Which statements and expressions the program holds is    *)
(* the input, chosen step by step; the C call stack of the generate_*      *)
(* functions is the stack "frames", one frame per construct that has been  *)
(* begun and not finished.  The straight-line assignments put into a block *)
(* are left out: no block boundary depends on them.                        *)
(***************************************************************************)
EXTENDS Integers, Sequences, FiniteSets

CONSTANTS
  MaxBlocks,    \* bound on block_counter: blocks the program may allocate
  MaxDepth,     \* bound on the depth of the recursive descent
  MaxMethods    \* bound on the number of methods

ASSUME BoundsAssumption ==
  MaxBlocks \in Nat /\ MaxDepth \in Nat /\ MaxMethods \in Nat

VARIABLES
  block_counter,     \* the id the next block gets; never reset within a program
  current_block,     \* the block being filled, NoBlock between two methods
  layout,            \* method->blocks of every method, in the order of llir->methods
  methods,           \* the position in layout of each finished method's last block
  terminal,          \* the terminal of each block
  predecessors,      \* block->predecessors of each block
  break_blocks,      \* stack of the blocks "break" jumps to
  continue_blocks,   \* stack of the blocks "continue" jumps to
  frames             \* the generate_* calls in progress, outermost first

vars == <<block_counter, current_block, layout, methods, terminal,
          predecessors, break_blocks, continue_blocks, frames>>

-----------------------------------------------------------------------------
(* Blocks and terminals *)

NoBlock == -1
Block == 0 .. MaxBlocks - 1
BlockOrNone == Block \cup {NoBlock}

TerminalType == {"unknown", "jump", "branch", "return", "shit_yourself"}

Terminal == [type : TerminalType, block : BlockOrNone,
             true_block : BlockOrNone, false_block : BlockOrNone]

Unset == [type |-> "unknown", block |-> NoBlock,
          true_block |-> NoBlock, false_block |-> NoBlock]
Jump(b) == [Unset EXCEPT !.type = "jump", !.block = b]
\* Mutant: the two targets swapped.
BranchSwapped(t, f) == [Unset EXCEPT !.type = "branch", !.true_block = f, !.false_block = t]
Branch(t, f) == [Unset EXCEPT !.type = "branch", !.true_block = t, !.false_block = f]
Return == [Unset EXCEPT !.type = "return"]
ShitYourself == [Unset EXCEPT !.type = "shit_yourself"]

\* The blocks control can reach next from a block that ends in terminal t.
Successors(t) == {t.block, t.true_block, t.false_block} \ {NoBlock}

-----------------------------------------------------------------------------
(* Frames.  "at" is the point of a generate_* function at which it waits for *)
(* a part of its construct; the other fields are the function's locals that  *)
(* it still needs afterwards.                                                *)

Stage == {"block", "if_block", "else_block", "while_body", "for_body",
          "index", "source", "argument", "return_value", "if_condition",
          "while_condition", "for_condition", "left", "right",
          "initial", "update"}

\* generate_block is running: any statement may come next.
StatementStages == {"block", "if_block", "else_block", "while_body", "for_body"}

\* generate_expression is running: a short-circuit operator may come next.
ExpressionStages == {"index", "source", "argument", "return_value",
                     "if_condition", "while_condition", "for_condition",
                     "left", "right"}

\* Between push_loop and pop_loop.
LoopStages == {"while_condition", "while_body", "for_condition", "for_body", "update"}

Frame == [at : Stage, condition_block : BlockOrNone, loop_block : BlockOrNone,
          update_block : BlockOrNone, false_block : BlockOrNone,
          end_block : BlockOrNone]

FrameAt(stage) ==
  [at |-> stage, condition_block |-> NoBlock, loop_block |-> NoBlock,
   update_block |-> NoBlock, false_block |-> NoBlock, end_block |-> NoBlock]

Top == frames[Len(frames)]
At(stage) == Len(frames) > 0 /\ Top.at = stage
AtStatement == Len(frames) > 0 /\ Top.at \in StatementStages
AtExpression == Len(frames) > 0 /\ Top.at \in ExpressionStages

Replace(f) == frames' = [frames EXCEPT ![Len(frames)] = f]
Goto(stage) == Replace([Top EXCEPT !.at = stage])
Push(f) == Len(frames) < MaxDepth /\ frames' = Append(frames, f)
Pop == frames' = SubSeq(frames, 1, Len(frames) - 1)

-----------------------------------------------------------------------------
(* new_block, llir_block_set_terminal and next_block *)

\* Room for n calls of new_block; the blocks are NewBlock(0), NewBlock(1), ...
CanAllocate(n) == block_counter + n =< MaxBlocks
\* Mutant: the counter incremented before the id is taken.
NewBlockPreIncrement(k) == block_counter + k + 1
NewBlock(k) == block_counter + k
Allocate(n) == CanAllocate(n) /\ block_counter' = block_counter + n

\* llir_block_set_terminal also enters the block into its targets' predecessors.
\* Mutant: a branch entered into one of its targets only.
AddTruePredecessor(preds, b, t) ==
  [s \in Block |-> IF s \in {t.block, t.true_block} THEN Append(preds[s], b) ELSE preds[s]]
AddPredecessor(preds, b, t) ==
  [s \in Block |-> IF s \in Successors(t) THEN Append(preds[s], b) ELSE preds[s]]

\* set_terminal on the current block, then next_block(b).
EndBlock(t, b) ==
  /\ terminal' = [terminal EXCEPT ![current_block] = t]
  /\ predecessors' = AddPredecessor(predecessors, current_block, t)
  /\ layout' = Append(layout, current_block)
  /\ current_block' = b
  /\ UNCHANGED methods

LoopsUnchanged == UNCHANGED <<break_blocks, continue_blocks>>

\* Only the stack of calls changes.
BlocksUnchanged ==
  /\ UNCHANGED <<block_counter, current_block, layout, methods, terminal, predecessors>>
  /\ LoopsUnchanged

PushLoop(break_block, continue_block) ==
  /\ break_blocks' = Append(break_blocks, break_block)
  /\ continue_blocks' = Append(continue_blocks, continue_block)

\* Mutant: the continue stack forgotten.
PopBreakOnly ==
  /\ break_blocks' = SubSeq(break_blocks, 1, Len(break_blocks) - 1)
  /\ UNCHANGED continue_blocks

PopLoop ==
  /\ break_blocks' = SubSeq(break_blocks, 1, Len(break_blocks) - 1)
  /\ continue_blocks' = SubSeq(continue_blocks, 1, Len(continue_blocks) - 1)

\* The blocks that break and continue jump to: the top of each stack.
BreakBlock == break_blocks[Len(break_blocks)]
\* Mutant: the outermost loop instead of the innermost.
ContinueOutermost == continue_blocks[1]
ContinueBlock == continue_blocks[Len(continue_blocks)]

-----------------------------------------------------------------------------
Init ==
  /\ block_counter = 0
  /\ current_block = NoBlock
  /\ layout = <<>>
  /\ methods = <<>>
  /\ terminal = [b \in Block |-> Unset]
  /\ predecessors = [b \in Block |-> <<>>]
  /\ break_blocks = <<>>
  /\ continue_blocks = <<>>
  /\ frames = <<>>

(* generate_method *)

BeginMethod ==
  /\ frames = <<>>
  /\ Len(methods) < MaxMethods
  /\ Allocate(1)
  /\ current_block' = NewBlock(0)
  /\ Push(FrameAt("block"))
  /\ UNCHANGED <<layout, methods, terminal, predecessors>>
  /\ LoopsUnchanged

\* Mutant: only void methods get a terminal at their end.
EndVoidMethodOnly(returns_void) ==
  /\ At("block")
  /\ terminal' = IF returns_void THEN [terminal EXCEPT ![current_block] = Return] ELSE terminal
  /\ layout' = Append(layout, current_block)
  /\ methods' = Append(methods, Len(layout) + 1)
  /\ current_block' = NoBlock
  /\ Pop
  /\ UNCHANGED <<block_counter, predecessors>>
  /\ LoopsUnchanged

\* A void method returns at its end; any other must not reach it.
EndMethod(returns_void) ==
  /\ At("block")
  /\ terminal' = [terminal EXCEPT ![current_block] =
                     IF returns_void THEN Return ELSE ShitYourself]
  /\ layout' = Append(layout, current_block)
  /\ methods' = Append(methods, Len(layout) + 1)
  /\ current_block' = NoBlock
  /\ Pop
  /\ UNCHANGED <<block_counter, predecessors>>
  /\ LoopsUnchanged

(* generate_assignment: index, bounds check, source *)

AssignmentFrame(indexed) == FrameAt(IF indexed THEN "index" ELSE "source")

BeginAssignment(indexed) == AtStatement /\ Push(AssignmentFrame(indexed)) /\ BlocksUnchanged

\* generate_bounds_check: the branch goes to false_block when the index is in
\* range; true_block, placed right behind the branch, ends the program.
BoundsCheck ==
  LET true_block == NewBlock(0)
      false_block == NewBlock(1)
      branch == Branch(true_block, false_block)
  IN  /\ At("index")
      /\ Allocate(2)
      /\ terminal' = [terminal EXCEPT ![current_block] = branch,
                                      ![true_block] = ShitYourself]
      /\ predecessors' = AddPredecessor(predecessors, current_block, branch)
      /\ layout' = layout \o <<current_block, true_block>>
      /\ current_block' = false_block
      /\ Goto("source")
      /\ UNCHANGED methods
      /\ LoopsUnchanged

EndAssignment == At("source") /\ Pop /\ BlocksUnchanged

(* generate_method_call as a statement *)

BeginCall == AtStatement /\ Push(FrameAt("argument")) /\ BlocksUnchanged

EndCall == At("argument") /\ Pop /\ BlocksUnchanged

(* generate_short_circuit *)

BeginShortCircuit == AtExpression /\ Push(FrameAt("left")) /\ BlocksUnchanged

ShortCircuitBranch ==
  /\ At("left")
  /\ Allocate(2)
  /\ EndBlock(Branch(NewBlock(0), NewBlock(1)), NewBlock(0))
  /\ Replace([FrameAt("right") EXCEPT !.false_block = NewBlock(1)])
  /\ LoopsUnchanged

EndShortCircuit ==
  /\ At("right")
  /\ Allocate(0)
  /\ EndBlock(Jump(Top.false_block), Top.false_block)
  /\ Pop /\ LoopsUnchanged

(* generate_if_statement *)

BeginIf == AtStatement /\ Push(FrameAt("if_condition")) /\ BlocksUnchanged

IfBranch ==
  /\ At("if_condition")
  /\ Allocate(2)
  /\ EndBlock(Branch(NewBlock(0), NewBlock(1)), NewBlock(0))
  /\ Replace([FrameAt("if_block") EXCEPT !.false_block = NewBlock(1)])
  /\ LoopsUnchanged

EndIf ==
  /\ At("if_block")
  /\ Allocate(0)
  /\ EndBlock(Jump(Top.false_block), Top.false_block)
  /\ Pop /\ LoopsUnchanged

\* Mutant: end_block placed at once, false_block never.
ElseDropsFalseBlock ==
  /\ At("if_block")
  /\ Allocate(1)
  /\ EndBlock(Jump(NewBlock(0)), NewBlock(0))
  /\ Replace([FrameAt("else_block") EXCEPT !.end_block = NewBlock(0)])
  /\ LoopsUnchanged

\* Mutant: false_block taken for end_block after the else part.
ElseEndsAtFalseBlock ==
  /\ At("if_block")
  /\ Allocate(1)
  /\ EndBlock(Jump(NewBlock(0)), Top.false_block)
  /\ Replace([FrameAt("else_block") EXCEPT !.end_block = Top.false_block])
  /\ LoopsUnchanged

Else ==
  /\ At("if_block")
  /\ Allocate(1)
  /\ EndBlock(Jump(NewBlock(0)), Top.false_block)
  /\ Replace([FrameAt("else_block") EXCEPT !.end_block = NewBlock(0)])
  /\ LoopsUnchanged

EndElse ==
  /\ At("else_block")
  /\ Allocate(0)
  /\ EndBlock(Jump(Top.end_block), Top.end_block)
  /\ Pop /\ LoopsUnchanged

(* generate_while_statement *)

\* Mutant: a do-while, entered at its body.
BeginDoWhile ==
  LET condition_block == NewBlock(0)
      loop_block == NewBlock(1)
      end_block == NewBlock(2)
  IN  /\ AtStatement
      /\ Allocate(3)
      /\ PushLoop(end_block, condition_block)
      /\ EndBlock(Jump(loop_block), condition_block)
      /\ Push([FrameAt("while_condition") EXCEPT
                 !.condition_block = condition_block,
                 !.loop_block = loop_block, !.end_block = end_block])

BeginWhile ==
  LET condition_block == NewBlock(0)
      loop_block == NewBlock(1)
      end_block == NewBlock(2)
  IN  /\ AtStatement
      /\ Allocate(3)
      /\ PushLoop(end_block, condition_block)
      /\ EndBlock(Jump(condition_block), condition_block)
      /\ Push([FrameAt("while_condition") EXCEPT
                 !.condition_block = condition_block,
                 !.loop_block = loop_block, !.end_block = end_block])

WhileBranch ==
  /\ At("while_condition")
  /\ Allocate(0)
  /\ EndBlock(Branch(Top.loop_block, Top.end_block), Top.loop_block)
  /\ Goto("while_body")
  /\ LoopsUnchanged

EndWhile ==
  /\ At("while_body")
  /\ Allocate(0)
  /\ EndBlock(Jump(Top.condition_block), Top.end_block)
  /\ PopLoop /\ Pop

(* generate_for_statement *)

\* The frame of the initial assignment goes on top of the statement's own.
BeginFor(indexed) ==
  /\ AtStatement
  /\ Len(frames) + 2 =< MaxDepth
  /\ frames' = frames \o <<FrameAt("initial"), AssignmentFrame(indexed)>>
  /\ BlocksUnchanged

EnterFor ==
  LET condition_block == NewBlock(0)
      loop_block == NewBlock(1)
      update_block == NewBlock(2)
      end_block == NewBlock(3)
  IN  /\ At("initial")
      /\ Allocate(4)
      /\ PushLoop(end_block, update_block)
      /\ EndBlock(Jump(condition_block), condition_block)
      /\ Replace([FrameAt("for_condition") EXCEPT
                    !.condition_block = condition_block,
                    !.loop_block = loop_block,
                    !.update_block = update_block, !.end_block = end_block])

ForBranch ==
  /\ At("for_condition")
  /\ Allocate(0)
  /\ EndBlock(Branch(Top.loop_block, Top.end_block), Top.loop_block)
  /\ Goto("for_body")
  /\ LoopsUnchanged

\* generate_for_update: an assignment or a method call in the update block.
BeginUpdate(child) ==
  /\ At("for_body")
  /\ Len(frames) < MaxDepth
  /\ Allocate(0)
  /\ EndBlock(Jump(Top.update_block), Top.update_block)
  /\ frames' = Append([frames EXCEPT ![Len(frames)] = [Top EXCEPT !.at = "update"]],
                      FrameAt(child))
  /\ LoopsUnchanged

\* Mutant: the update jumps back to itself instead of the condition.
EndForAtUpdate ==
  /\ At("update")
  /\ Allocate(0)
  /\ EndBlock(Jump(Top.update_block), Top.end_block)
  /\ PopLoop /\ Pop

EndFor ==
  /\ At("update")
  /\ Allocate(0)
  /\ EndBlock(Jump(Top.condition_block), Top.end_block)
  /\ PopLoop /\ Pop

(* generate_return_statement, generate_break_statement, generate_continue_statement: *)
(* what follows in the same statement list goes to a new block nothing jumps to.     *)

BeginReturn == AtStatement /\ Push(FrameAt("return_value")) /\ BlocksUnchanged

EndReturn ==
  /\ At("return_value")
  /\ Allocate(1)
  /\ EndBlock(Return, NewBlock(0))
  /\ Pop /\ LoopsUnchanged

\* Semantic analysis (loop_depth) lets only programs through whose break and
\* continue statements stand inside a loop.
InsideLoop == \E i \in 1 .. Len(frames) : frames[i].at \in LoopStages

Break ==
  /\ AtStatement
  /\ InsideLoop
  /\ Allocate(1)
  /\ EndBlock(Jump(BreakBlock), NewBlock(0))
  /\ UNCHANGED frames /\ LoopsUnchanged

Continue ==
  /\ AtStatement
  /\ InsideLoop
  /\ Allocate(1)
  /\ EndBlock(Jump(ContinueBlock), NewBlock(0))
  /\ UNCHANGED frames /\ LoopsUnchanged

-----------------------------------------------------------------------------
Next ==
  \/ BeginMethod
  \/ \E returns_void \in BOOLEAN : EndMethod(returns_void)
  \/ \E indexed \in BOOLEAN : BeginAssignment(indexed)
  \/ BoundsCheck
  \/ EndAssignment
  \/ BeginCall
  \/ EndCall
  \/ BeginShortCircuit
  \/ ShortCircuitBranch
  \/ EndShortCircuit
  \/ BeginIf
  \/ IfBranch
  \/ EndIf
  \/ Else
  \/ EndElse
  \/ BeginWhile
  \/ WhileBranch
  \/ EndWhile
  \/ \E indexed \in BOOLEAN : BeginFor(indexed)
  \/ EnterFor
  \/ ForBranch
  \/ \E child \in {"index", "source", "argument"} : BeginUpdate(child)
  \/ EndFor
  \/ BeginReturn
  \/ EndReturn
  \/ Break
  \/ Continue

Spec == Init /\ [][Next]_vars

-----------------------------------------------------------------------------
(* Properties *)

\* Every variable has its type.  The guards' bounds are part of it: ids stay
\* below block_counter's bound.
TypeOK ==
  /\ block_counter \in 0 .. MaxBlocks
  /\ current_block \in BlockOrNone
  /\ layout \in Seq(Block)
  /\ methods \in Seq(Nat)
  /\ terminal \in [Block -> Terminal]
  /\ predecessors \in [Block -> Seq(Block)]
  /\ break_blocks \in Seq(Block)
  /\ continue_blocks \in Seq(Block)
  /\ frames \in Seq(Frame)

\* code_generator.c emits only the conditional jump to false_block for a branch
\* (generate_branch), so the true_block of every branch must be the very next
\* block of the text: in the finished methods and, with the current block as the
\* next one, at every moment of generating one.
BranchFallsThrough ==
  \A i \in 1 .. Len(layout) :
    terminal[layout[i]].type = "branch" =>
      terminal[layout[i]].true_block =
        IF i < Len(layout) THEN layout[i + 1] ELSE current_block

\* The blocks a frame's function has allocated and will still hand to next_block.
Pending(f) ==
  CASE f.at \in {"right", "if_block"} -> {f.false_block}
    [] f.at \in {"else_block", "while_body", "update"} -> {f.end_block}
    [] f.at = "while_condition" -> {f.loop_block, f.end_block}
    [] f.at = "for_condition" -> {f.loop_block, f.update_block, f.end_block}
    [] f.at = "for_body" -> {f.update_block, f.end_block}
    [] OTHER -> {}

IsPending(b) == \E k \in 1 .. Len(frames) : b \in Pending(frames[k])
IsPlaced(b) == \E i \in 1 .. Len(layout) : layout[i] = b

\* No block is in two places: in two positions of the text, in the text and still
\* to be placed, or held by two functions.  A second placement would print its
\* label twice.
NoBlockTwice ==
  /\ \A i, j \in 1 .. Len(layout) : layout[i] = layout[j] => i = j
  /\ \A k, l \in 1 .. Len(frames) :
       \A b \in Pending(frames[k]) : b \in Pending(frames[l]) => k = l
  /\ \A i \in 1 .. Len(layout) : layout[i] # current_block /\ ~ IsPending(layout[i])
  /\ ~ IsPending(current_block)

\* No block that new_block returned is lost: it is in a method, or current, or a
\* function on the C stack still holds it.  A lost block is a label that jumps
\* name and nothing defines.
NoBlockLost ==
  \A b \in Block :
    b < block_counter <=> IsPlaced(b) \/ b = current_block \/ IsPending(b)

\* The positions in layout of the blocks of finished method m.
Positions(m) == (IF m = 1 THEN 1 ELSE methods[m - 1] + 1) .. methods[m]

\* In a finished method every block has a terminal, and every block a terminal
\* names is a block of the same method: generate_method_body never meets
\* TERMINAL_TYPE_UNKNOWN and no jump leaves its method.
MethodsAreClosed ==
  \A m \in 1 .. Len(methods) : \A i \in Positions(m) :
    /\ terminal[layout[i]].type # "unknown"
    /\ \A s \in Successors(terminal[layout[i]]) : \E j \in Positions(m) : layout[j] = s

\* block->predecessors, which constant folding and copy propagation search
\* backwards along, is exactly the inverse of the terminals, without repeats.
PredecessorsMatchTerminals ==
  \A b \in Block :
    /\ {predecessors[b][i] : i \in 1 .. Len(predecessors[b])}
         = {p \in Block : b \in Successors(terminal[p])}
    /\ \A i, j \in 1 .. Len(predecessors[b]) :
         predecessors[b][i] = predecessors[b][j] => i = j

\* The number of loops in progress in the first k frames, and the block that
\* continues a loop: the update of a for, the condition of a while.
LoopDepth(k) == Cardinality({i \in 1 .. k : frames[i].at \in LoopStages})
ContinueOf(f) == IF f.update_block = NoBlock THEN f.condition_block ELSE f.update_block

\* The break and continue stacks hold one entry per loop in progress, in order,
\* so that the assertions of get_break_block, get_continue_block and pop_loop
\* never fail, also after returns, breaks and continues anywhere in nested loops.
LoopStacksMatchLoops ==
  /\ Len(break_blocks) = LoopDepth(Len(frames))
  /\ Len(continue_blocks) = LoopDepth(Len(frames))
  /\ \A k \in 1 .. Len(frames) :
       frames[k].at \in LoopStages =>
         /\ break_blocks[LoopDepth(k)] = frames[k].end_block
         /\ continue_blocks[LoopDepth(k)] = ContinueOf(frames[k])

\* Frame k is the innermost loop in progress.
Innermost(k) ==
  /\ frames[k].at \in LoopStages
  /\ \A l \in (k + 1) .. Len(frames) : frames[l].at \notin LoopStages

\* A block that ends while no construct begins or ends is a break or a continue:
\* it leads out of, or to the next round of, the innermost loop.
BreakAndContinueAreInnermost ==
  [][ (frames' = frames /\ layout' # layout) =>
        \E k \in 1 .. Len(frames) :
          /\ Innermost(k)
          /\ terminal'[current_block] \in {Jump(frames[k].end_block), Jump(ContinueOf(frames[k]))} ]_vars

\* The edges of a finished method, between positions in layout.
Edges(m) == {e \in Positions(m) \X Positions(m) :
               layout[e[2]] \in Successors(terminal[layout[e[1]]])}

\* The positions from which a return or an exit of the method can be reached.
CanLeave(m) ==
  LET edges == Edges(m)
      within[n \in 0 .. Cardinality(Positions(m))] ==   \* ... in at most n steps
        IF n = 0
          THEN {i \in Positions(m) :
                  terminal[layout[i]].type \in {"return", "shit_yourself"}}
          ELSE LET known == within[n - 1]
               IN  known \cup {i \in Positions(m) : \E j \in known : <<i, j>> \in edges}
  IN  within[Cardinality(Positions(m))]

\* No construct closes control into a cycle without a way out: from every block
\* of a finished method a return or an exit can be reached.
EveryBlockCanLeave ==
  \A m \in 1 .. Len(methods) : CanLeave(m) = Positions(m)

\* Loops are entered only through their condition: whatever jumps backwards to
\* a block h from a later block l, no edge from outside h..l leads into h..l
\* except to h.
LoopsHaveOneEntry ==
  \A m \in 1 .. Len(methods) :
    LET edges == Edges(m)
    IN  \A back, e \in edges :
          back[2] =< back[1] =>
            \/ e[1] \in back[2] .. back[1]
            \/ e[2] \notin (back[2] + 1) .. back[1]
=============================================================================
