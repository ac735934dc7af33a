------------------------- MODULE CodeGenerator_proofs -------------------------
(***************************************************************************)
(* The text that CodeGenerator prints, for programs of any size: control   *)
(* goes where the terminals say, labels are unique, and no jump and no     *)
(* fall-through leaves a method.  It rests on what is proved of the blocks *)
(* in LlirGenerator_proofs, on the shapes of the terminals and on every    *)
(* method's last block leaving it; the rest follows the lines as printed.  *)
(***************************************************************************)
EXTENDS CodeGenerator, LlirGenerator_proofs

\* The terminals that the constructors make.
Shapes == {Unset, Return, ShitYourself} \cup {Jump(b) : b \in Block}
            \cup {Branch(p[1], p[2]) : p \in Block \X Block}

Shaped == \A b \in Block : terminal[b] \in Shapes

\* A loop remembers its condition.
HasCondition(f) == f.at \in LoopStages => f.condition_block \in Block
Conditions == \A k \in 1 .. Len(frames) : HasCondition(frames[k])

\* The methods follow each other, and each one's last block leaves it.
Leaves(t) == t = Return \/ t = ShitYourself
EndsLeave ==
  /\ \A m \in 1 .. Len(methods) : /\ methods[m] \in 1 .. Len(layout)
                                 /\ Leaves(terminal[layout[methods[m]]])
  /\ \A m, n \in 1 .. Len(methods) : m < n => methods[m] < methods[n]

LlirInv == IInv /\ Graph /\ Closed /\ Shaped /\ Conditions /\ EndsLeave

-----------------------------------------------------------------------------
(* The generator's steps *)

LEMMA ShapesFacts ==
  /\ \A b \in Block : Jump(b) \in Shapes
  /\ \A b, c \in Block : Branch(b, c) \in Shapes
  /\ Return \in Shapes /\ ShitYourself \in Shapes
<1>1. ASSUME NEW b \in Block, NEW c \in Block
      PROVE  Branch(b, c) \in Shapes
  <2>1. <<b, c>> \in Block \X Block /\ Branch(b, c) = Branch(<<b, c>>[1], <<b, c>>[2])
    OBVIOUS
  <2>. QED
    BY <2>1 DEF Shapes
<1>. QED
  BY <1>1 DEF Shapes

\* A step leaves the blocks alone, begins or ends a method, checks an index, or ends
\* the current block with a terminal made by a constructor.
Closes == \E n \in Nat, t \in Shapes, b \in Block : Allocate(n) /\ EndBlock(t, b)

LEMMA NewBlocks ==
  ASSUME Core, NEW n \in Nat, Allocate(n), NEW i \in 0 .. n - 1
  PROVE  NewBlock(i) \in Block
BY FreshFacts

LEMMA StepKinds ==
  ASSUME TypeOK, Core, Loops, Conditions, Next
  PROVE  \/ BlocksUnchanged
         \/ BeginMethod
         \/ \E returns_void \in BOOLEAN : EndMethod(returns_void)
         \/ BoundsCheck
         \/ Len(frames) > 0 /\ Closes
<1>1. CASE ShortCircuitBranch \/ IfBranch
  <2>1. Len(frames) > 0 /\ Allocate(2) /\ EndBlock(Branch(NewBlock(0), NewBlock(1)), NewBlock(0))
    BY <1>1 DEF ShortCircuitBranch, IfBranch, At
  <2>2. NewBlock(0) \in Block /\ NewBlock(1) \in Block
    BY <2>1, TwoFresh
  <2>. QED
    BY <2>1, <2>2, ShapesFacts DEF Closes
<1>2. CASE EndShortCircuit \/ EndIf \/ EndElse
  <2>1. Len(frames) > 0
    BY <1>2 DEF EndShortCircuit, EndIf, EndElse, At
  <2>2. Top \in Frame /\ Pending(Top) \subseteq Block
    BY <2>1, TopFacts
  <2>3. PICK b \in Pending(Top) : Allocate(0) /\ EndBlock(Jump(b), b)
    BY <1>2, <2>2, PendingFacts DEF EndShortCircuit, EndIf, EndElse, At
  <2>. QED
    BY <2>1, <2>2, <2>3, ShapesFacts DEF Closes
<1>3. CASE Else
  <2>1. Len(frames) > 0 /\ Allocate(1) /\ EndBlock(Jump(NewBlock(0)), Top.false_block)
        /\ Top.at = "if_block"
    BY <1>3 DEF Else, At
  <2>2. Top \in Frame /\ Pending(Top) \subseteq Block
    BY <2>1, TopFacts
  <2>3. Top.false_block \in Block /\ NewBlock(0) \in Block
    BY <2>1, <2>2, PendingFacts, OneFresh
  <2>. QED
    BY <2>1, <2>3, ShapesFacts DEF Closes
<1>4. CASE BeginWhile
  <2>1. Len(frames) > 0 /\ Allocate(3) /\ EndBlock(Jump(NewBlock(0)), NewBlock(0))
    BY <1>4 DEF BeginWhile, AtStatement
  <2>2. NewBlock(0) \in Block
    BY <2>1, NewBlocks
  <2>. QED
    BY <2>1, <2>2, ShapesFacts DEF Closes
<1>5. CASE EnterFor
  <2>1. Len(frames) > 0 /\ Allocate(4) /\ EndBlock(Jump(NewBlock(0)), NewBlock(0))
    BY <1>5 DEF EnterFor, At
  <2>2. NewBlock(0) \in Block
    BY <2>1, NewBlocks
  <2>. QED
    BY <2>1, <2>2, ShapesFacts DEF Closes
<1>6. CASE WhileBranch \/ ForBranch
  <2>1. /\ Len(frames) > 0 /\ Allocate(0)
        /\ EndBlock(Branch(Top.loop_block, Top.end_block), Top.loop_block)
        /\ Top.at \in {"while_condition", "for_condition"}
    BY <1>6 DEF WhileBranch, ForBranch, At
  <2>2. Top \in Frame /\ Pending(Top) \subseteq Block
    BY <2>1, TopFacts
  <2>3. Top.loop_block \in Block /\ Top.end_block \in Block
    BY <2>1, <2>2, PendingFacts
  <2>. QED
    BY <2>1, <2>3, ShapesFacts DEF Closes
<1>7. CASE EndWhile \/ EndFor
  <2>1. /\ Len(frames) > 0 /\ Allocate(0)
        /\ EndBlock(Jump(Top.condition_block), Top.end_block)
        /\ Top.at \in {"while_body", "update"}
    BY <1>7 DEF EndWhile, EndFor, At
  <2>2. Top \in Frame /\ Pending(Top) \subseteq Block
        /\ Len(frames) \in 1 .. Len(frames) /\ Top = frames[Len(frames)]
    BY <2>1, TopFacts
  <2>3. Top.condition_block \in Block /\ Top.end_block \in Block
    BY <2>1, <2>2, PendingFacts DEF Conditions, HasCondition, LoopStages
  <2>. QED
    BY <2>1, <2>3, ShapesFacts DEF Closes
<1>8. ASSUME NEW child \in {"index", "source", "argument"}, BeginUpdate(child)
      PROVE  Len(frames) > 0 /\ Closes
  <2>1. /\ Len(frames) > 0 /\ Allocate(0) /\ Top.at = "for_body"
        /\ EndBlock(Jump(Top.update_block), Top.update_block)
    BY <1>8 DEF BeginUpdate, At
  <2>2. Top \in Frame /\ Pending(Top) \subseteq Block
    BY <2>1, TopFacts
  <2>3. Top.update_block \in Block
    BY <2>1, <2>2, PendingFacts
  <2>. QED
    BY <2>1, <2>3, ShapesFacts DEF Closes
<1>9. CASE EndReturn
  <2>1. Len(frames) > 0 /\ Allocate(1) /\ EndBlock(Return, NewBlock(0))
    BY <1>9 DEF EndReturn, At
  <2>2. NewBlock(0) \in Block
    BY <2>1, OneFresh
  <2>. QED
    BY <2>1, <2>2, ShapesFacts DEF Closes
<1>10. CASE Break \/ Continue
  <2>1. BreakBlock \in Block /\ ContinueBlock \in Block
    BY <1>10, LeaveTargets DEF Break, Continue, TypeOK
  <2>2. PICK b \in {BreakBlock, ContinueBlock} :
          Len(frames) > 0 /\ Allocate(1) /\ EndBlock(Jump(b), NewBlock(0))
    BY <1>10 DEF Break, Continue, AtStatement
  <2>3. NewBlock(0) \in Block
    BY <2>2, OneFresh
  <2>. QED
    BY <2>1, <2>2, <2>3, ShapesFacts DEF Closes
<1>11. CASE \/ \E indexed \in BOOLEAN : BeginAssignment(indexed) \/ BeginFor(indexed)
            \/ EndAssignment \/ BeginCall \/ EndCall \/ BeginShortCircuit \/ BeginIf \/ BeginReturn
  BY <1>11 DEF BeginAssignment, BeginFor, EndAssignment, BeginCall, EndCall, BeginShortCircuit,
               BeginIf, BeginReturn
<1>. QED
  BY <1>1, <1>2, <1>3, <1>4, <1>5, <1>6, <1>7, <1>8, <1>9, <1>10, <1>11 DEF Next

\* Terminals keep their shapes.
LEMMA ShapedKept ==
  ASSUME TypeOK, Core, Loops, Conditions, Shaped, Next
  PROVE  Shaped'
<1>1. CASE BlocksUnchanged \/ BeginMethod
  BY <1>1 DEF BlocksUnchanged, BeginMethod, Shaped
<1>2. ASSUME NEW returns_void \in BOOLEAN, EndMethod(returns_void)
      PROVE  Shaped'
  BY <1>2, ShapesFacts DEF EndMethod, Shaped, TypeOK
<1>3. CASE BoundsCheck
  <2>1. Allocate(2) /\ terminal' = [terminal EXCEPT ![current_block] = Branch(NewBlock(0), NewBlock(1)),
                                                   ![NewBlock(0)] = ShitYourself]
    BY <1>3 DEF BoundsCheck
  <2>2. NewBlock(0) \in Block /\ NewBlock(1) \in Block
    BY <2>1, TwoFresh
  <2>3. Branch(NewBlock(0), NewBlock(1)) \in Shapes /\ ShitYourself \in Shapes
    BY <2>2, ShapesFacts
  <2>. QED
    BY <2>1, <2>3 DEF Shaped, TypeOK
<1>4. CASE Closes
  BY <1>4 DEF Closes, EndBlock, Shaped, TypeOK
<1>. QED
  BY <1>1, <1>2, <1>3, <1>4, StepKinds

-----------------------------------------------------------------------------
(* The last blocks of the methods *)

LEMMA EndsKept ==
  ASSUME TypeOK, EndsLeave, Grows
  PROVE  EndsLeave'
<1>1. /\ \A m \in 1 .. Len(methods) : methods[m] \in 1 .. Len(layout)
      /\ Len(layout) \in Nat
  BY DEF EndsLeave, TypeOK
<1>2. \A m \in 1 .. Len(methods) : /\ methods[m] \in 1 .. Len(layout')
                                  /\ terminal'[layout'[methods[m]]] = terminal[layout[methods[m]]]
  BY <1>1 DEF Grows
<1>. QED
  BY <1>2 DEF EndsLeave, Grows

LEMMA EndsLeaveKept ==
  ASSUME TypeOK, Core, Loops, Graph, Closed, Conditions, EndsLeave, Next
  PROVE  EndsLeave'
<1>1. CASE BlocksUnchanged
  BY <1>1 DEF BlocksUnchanged, EndsLeave
<1>2. CASE BeginMethod
  BY <1>2 DEF BeginMethod, EndsLeave
<1>3. ASSUME NEW returns_void \in BOOLEAN, EndMethod(returns_void)
      PROVE  EndsLeave'
  <2>. DEFINE t == IF returns_void THEN Return ELSE ShitYourself
              m == Len(layout)
              n == Len(methods)
  <2>1. /\ Len(frames) > 0
        /\ terminal' = [terminal EXCEPT ![current_block] = t]
        /\ layout' = Append(layout, current_block)
        /\ methods' = Append(methods, m + 1)
    BY <1>3 DEF EndMethod, At
  <2>2. current_block \in Block /\ ~ IsPlaced(current_block)
    BY <2>1, CurrentIsUnset DEF Graph
  <2>3. Leaves(t)
    BY DEF Leaves
  <2>. HIDE DEF t
  <2>4. /\ terminal'[current_block] = t
        /\ \A p \in Block : p # current_block => terminal'[p] = terminal[p]
    BY <2>1, <2>2 DEF TypeOK
  <2>5. /\ m \in Nat /\ Len(layout') = m + 1
        /\ \A i \in 1 .. m : layout'[i] = layout[i] /\ layout[i] \in Block
                             /\ layout[i] # current_block
        /\ layout'[m + 1] = current_block
    BY <2>1, <2>2 DEF TypeOK, IsPlaced
  <2>6. /\ n \in Nat /\ Len(methods') = n + 1 /\ methods'[n + 1] = m + 1
        /\ \A j \in 1 .. n : methods'[j] = methods[j] /\ methods[j] \in Nat
    BY <2>1, <2>5, SMTT(30) DEF TypeOK
  <2>7. \A j \in 1 .. n : methods[j] \in 1 .. m /\ Leaves(terminal[layout[methods[j]]])
    BY DEF EndsLeave
  <2>8. ASSUME NEW j \in 1 .. n
        PROVE  /\ methods'[j] \in 1 .. m
               /\ Leaves(terminal'[layout'[methods'[j]]])
    <3>1. methods'[j] = methods[j] /\ methods[j] \in 1 .. m
      BY <2>6, <2>7
    <3>2. terminal'[layout'[methods[j]]] = terminal[layout[methods[j]]]
      BY <2>4, <2>5, <3>1
    <3>. QED
      BY <2>7, <3>1, <3>2
  <2>9. Leaves(terminal'[layout'[methods'[n + 1]]])
    BY <2>3, <2>4, <2>5, <2>6
  <2>10. \A j : j \in 1 .. Len(methods') <=> j \in 1 .. n \/ j = n + 1
    BY <2>6
  <2>11. \A j \in 1 .. Len(methods') : /\ methods'[j] \in 1 .. Len(layout')
                                      /\ Leaves(terminal'[layout'[methods'[j]]])
    BY <2>5, <2>6, <2>8, <2>9, <2>10
  <2>12. \A j, k \in 1 .. n : j < k => methods'[j] < methods'[k]
    BY <2>6 DEF EndsLeave
  <2>13. \A j \in 1 .. n : methods'[j] < methods'[n + 1]
    BY <2>5, <2>6, <2>8
  <2>14. \A j, k \in 1 .. Len(methods') : j < k => methods'[j] < methods'[k]
    BY <2>6, <2>10, <2>12, <2>13
  <2>. QED
    BY <2>11, <2>14 DEF EndsLeave
<1>4. CASE BoundsCheck
  <2>. DEFINE tb == NewBlock(0)
              t == Branch(tb, NewBlock(1))
              m == Len(layout)
  <2>1. /\ Len(frames) > 0 /\ Allocate(2) /\ UNCHANGED methods
        /\ terminal' = [terminal EXCEPT ![current_block] = t, ![tb] = ShitYourself]
        /\ layout' = layout \o <<current_block, tb>>
    BY <1>4 DEF BoundsCheck, At
  <2>2. /\ tb \in Block /\ tb \in Fresh(2)
        /\ block_counter' \in Nat /\ block_counter' >= block_counter
    <3>1. tb \in Block /\ tb \in Fresh(2)
      BY <2>1, TwoFresh
    <3>2. block_counter' = block_counter + 2 /\ block_counter \in Nat
      BY <2>1 DEF Allocate, TypeOK
    <3>. QED
      BY <3>1, <3>2
  <2>3. current_block \in Block /\ ~ IsPlaced(current_block)
    BY <2>1, CurrentIsUnset DEF Graph
  <2>4. ~ IsPlaced(tb)
    <3>1. ~ tb < block_counter
      BY <2>2 DEF Fresh, Block, TypeOK
    <3>. QED
      BY <2>2, <3>1 DEF Core, Placement, NoBlockLost
  <2>. HIDE DEF tb, t
  <2>5. \A p \in Block : p # current_block /\ p # tb => terminal'[p] = terminal[p]
    BY <2>1 DEF TypeOK
  <2>6. /\ m \in Nat /\ Len(layout') = m + 2
        /\ \A i \in 1 .. m : layout'[i] = layout[i] /\ layout[i] \in Block
    BY <2>1, <2>2, <2>3 DEF TypeOK
  <2>7. \A i \in 1 .. m : terminal'[layout[i]] = terminal[layout[i]]
    BY <2>3, <2>4, <2>5, <2>6 DEF IsPlaced
  <2>8. Grows
    <3>1. Len(layout') \in Nat /\ Len(layout') >= Len(layout)
      BY <2>6
    <3>. QED
      BY <2>1, <2>2, <2>6, <2>7, <3>1 DEF Grows
  <2>. QED
    BY <2>8, EndsKept
<1>5. CASE Len(frames) > 0 /\ Closes
  BY <1>5, EndBlockGrows, EndsKept DEF Closes
<1>. QED
  BY <1>1, <1>2, <1>3, <1>4, <1>5, StepKinds

-----------------------------------------------------------------------------
(* The conditions of the loops in progress *)

LEMMA PopConditions ==
  ASSUME frames \in Seq(Frame), Len(frames) > 0, Conditions, Pop
  PROVE  Conditions'
BY PopFacts DEF Conditions

LEMMA PushConditions ==
  ASSUME frames \in Seq(Frame), Conditions, NEW f \in Frame, HasCondition(f), Push(f)
  PROVE  Conditions'
<1>1. /\ Len(frames) \in Nat /\ Len(frames') = Len(frames) + 1
      /\ frames'[Len(frames')] = f
      /\ \A k \in 1 .. Len(frames) : frames'[k] = frames[k]
  BY PushFacts
<1>2. \A k \in 1 .. Len(frames') : k \in 1 .. Len(frames) \/ k = Len(frames')
  BY <1>1
<1>. QED
  BY <1>1, <1>2 DEF Conditions

LEMMA ReplaceConditions ==
  ASSUME frames \in Seq(Frame), Len(frames) > 0, Conditions,
         NEW f \in Frame, HasCondition(f), Replace(f)
  PROVE  Conditions'
<1>1. /\ Len(frames') = Len(frames)
      /\ frames'[Len(frames)] = f
      /\ \A k \in 1 .. Len(frames) : k # Len(frames) => frames'[k] = frames[k]
  BY ReplaceFacts
<1>. QED
  BY <1>1 DEF Conditions

LEMMA NoLoop ==
  ASSUME NEW at, at \notin LoopStages
  PROVE  /\ HasCondition(FrameAt(at))
         /\ \A b : HasCondition([FrameAt(at) EXCEPT !.false_block = b])
         /\ \A b : HasCondition([FrameAt(at) EXCEPT !.end_block = b])
BY DEF HasCondition, FrameAt

LEMMA ConditionsKept ==
  ASSUME TypeOK, Core, Conditions, Next
  PROVE  Conditions'
<1>1. frames \in Seq(Frame)
  BY DEF TypeOK
<1>2. ASSUME Len(frames) > 0, Pop
      PROVE  Conditions'
  BY <1>1, <1>2, PopConditions
<1>3. CASE BeginMethod \/ BeginCall \/ BeginShortCircuit \/ BeginIf \/ BeginReturn
           \/ \E indexed \in BOOLEAN : BeginAssignment(indexed)
  <2>1. PICK at \in Stage \ LoopStages : Push(FrameAt(at))
    BY <1>3 DEF BeginMethod, BeginAssignment, AssignmentFrame, BeginCall, BeginShortCircuit, BeginIf,
                BeginReturn, Stage, LoopStages
  <2>2. FrameAt(at) \in Frame
    BY DEF FrameAt, Frame, BlockOrNone
  <2>. QED
    BY <1>1, <2>1, <2>2, NoLoop, PushConditions
<1>4. ASSUME NEW returns_void \in BOOLEAN, EndMethod(returns_void)
      PROVE  Conditions'
  BY <1>2, <1>4 DEF EndMethod, At
<1>5. CASE EndAssignment \/ EndCall \/ EndShortCircuit \/ EndIf \/ EndElse \/ EndWhile \/ EndFor
           \/ EndReturn
  BY <1>2, <1>5 DEF EndAssignment, EndCall, EndShortCircuit, EndIf, EndElse, EndWhile, EndFor,
                    EndReturn, At
<1>6. CASE ShortCircuitBranch \/ IfBranch
  <2>1. PICK at \in {"right", "if_block"} :
          /\ Len(frames) > 0 /\ Allocate(2)
          /\ Replace([FrameAt(at) EXCEPT !.false_block = NewBlock(1)])
    BY <1>6 DEF ShortCircuitBranch, IfBranch, At
  <2>2. NewBlock(1) \in Block
    BY <2>1, TwoFresh
  <2>3. [FrameAt(at) EXCEPT !.false_block = NewBlock(1)] \in Frame
    BY <2>2 DEF FrameAt, Frame, BlockOrNone, Stage
  <2>4. at \notin LoopStages
    BY DEF LoopStages
  <2>. QED
    BY <1>1, <2>1, <2>3, <2>4, NoLoop, ReplaceConditions
<1>7. CASE Else
  <2>1. /\ Len(frames) > 0 /\ Allocate(1)
        /\ Replace([FrameAt("else_block") EXCEPT !.end_block = NewBlock(0)])
    BY <1>7 DEF Else, At
  <2>2. NewBlock(0) \in Block
    BY <2>1, OneFresh
  <2>3. [FrameAt("else_block") EXCEPT !.end_block = NewBlock(0)] \in Frame
    BY <2>2 DEF FrameAt, Frame, BlockOrNone, Stage
  <2>4. "else_block" \notin LoopStages
    BY DEF LoopStages
  <2>. QED
    BY <1>1, <2>1, <2>3, <2>4, NoLoop, ReplaceConditions
<1>8. CASE BeginWhile
  <2>. DEFINE f == [FrameAt("while_condition") EXCEPT
                      !.condition_block = NewBlock(0),
                      !.loop_block = NewBlock(1), !.end_block = NewBlock(2)]
  <2>1. Allocate(3) /\ Push(f)
    BY <1>8 DEF BeginWhile
  <2>2. NewBlock(0) \in Block /\ NewBlock(1) \in Block /\ NewBlock(2) \in Block
    BY <2>1, NewBlocks
  <2>3. f \in Frame /\ f.condition_block = NewBlock(0)
    BY <2>2, FrameAtFacts DEF FrameAt, Stage
  <2>. HIDE DEF f
  <2>. QED
    BY <1>1, <2>1, <2>2, <2>3, PushConditions DEF HasCondition
<1>9. CASE EnterFor
  <2>. DEFINE f == [FrameAt("for_condition") EXCEPT
                      !.condition_block = NewBlock(0), !.loop_block = NewBlock(1),
                      !.update_block = NewBlock(2), !.end_block = NewBlock(3)]
  <2>1. Len(frames) > 0 /\ Allocate(4) /\ Replace(f)
    BY <1>9 DEF EnterFor, At
  <2>2. NewBlock(0) \in Block /\ NewBlock(1) \in Block /\ NewBlock(2) \in Block
        /\ NewBlock(3) \in Block
    BY <2>1, NewBlocks
  <2>3. f \in Frame /\ f.condition_block = NewBlock(0)
    BY <2>2, FrameAtFacts, ZenonT(40) DEF FrameAt, Stage
  <2>. HIDE DEF f
  <2>. QED
    BY <1>1, <2>1, <2>2, <2>3, ReplaceConditions DEF HasCondition
<1>10. CASE WhileBranch \/ ForBranch \/ BoundsCheck
  <2>1. PICK at \in {"while_body", "for_body", "source"} :
          /\ Len(frames) > 0 /\ Replace([Top EXCEPT !.at = at])
          /\ at # "source" => Top.at \in {"while_condition", "for_condition"}
    BY <1>10 DEF WhileBranch, ForBranch, BoundsCheck, At, Goto
  <2>2. Top \in Frame /\ Len(frames) \in 1 .. Len(frames) /\ Top = frames[Len(frames)]
    BY <2>1, TopFacts
  <2>3. /\ [Top EXCEPT !.at = at] \in Frame
        /\ [Top EXCEPT !.at = at].at = at
        /\ [Top EXCEPT !.at = at].condition_block = Top.condition_block
    BY <2>2 DEF Frame, Stage
  <2>4. HasCondition([Top EXCEPT !.at = at])
    BY <2>1, <2>2, <2>3 DEF Conditions, HasCondition, LoopStages
  <2>. QED
    BY <1>1, <2>1, <2>3, <2>4, ReplaceConditions
<1>11. ASSUME NEW indexed \in BOOLEAN, BeginFor(indexed)
       PROVE  Conditions'
  <2>. DEFINE f == FrameAt("initial")
              g == AssignmentFrame(indexed)
  <2>1. frames' = frames \o <<f, g>>
    BY <1>11 DEF BeginFor
  <2>2. f \in Frame /\ g \in Frame /\ HasCondition(f) /\ HasCondition(g)
    <3>1. f \in Frame /\ g \in Frame
      BY DEF AssignmentFrame, FrameAt, Frame, BlockOrNone, Stage
    <3>2. "initial" \notin LoopStages /\ "index" \notin LoopStages /\ "source" \notin LoopStages
      BY DEF LoopStages
    <3>. QED
      BY <3>1, <3>2, NoLoop DEF AssignmentFrame
  <2>. HIDE DEF f, g
  <2>3. /\ Len(frames) \in Nat /\ Len(frames') = Len(frames) + 2
        /\ \A k \in 1 .. Len(frames) : frames'[k] = frames[k]
        /\ frames'[Len(frames) + 1] = f /\ frames'[Len(frames) + 2] = g
    BY <1>1, <2>1, <2>2
  <2>4. \A k \in 1 .. Len(frames') :
          k \in 1 .. Len(frames) \/ k = Len(frames) + 1 \/ k = Len(frames) + 2
    BY <2>3
  <2>. QED
    BY <2>2, <2>3, <2>4 DEF Conditions
<1>12. ASSUME NEW child \in {"index", "source", "argument"}, BeginUpdate(child)
       PROVE  Conditions'
  <2>. DEFINE f == FrameAt(child)
              g == [Top EXCEPT !.at = "update"]
  <2>1. /\ Len(frames) > 0 /\ Top.at = "for_body"
        /\ frames' = Append([frames EXCEPT ![Len(frames)] = g], f)
    BY <1>12 DEF BeginUpdate, At
  <2>2. Top \in Frame /\ Len(frames) \in 1 .. Len(frames) /\ Top = frames[Len(frames)]
    BY <2>1, TopFacts
  <2>3. g \in Frame /\ g.condition_block = Top.condition_block
    BY <2>2 DEF Frame, Stage
  <2>4. HasCondition(g)
    BY <2>1, <2>2, <2>3 DEF Conditions, HasCondition, LoopStages
  <2>5. f \in Frame /\ HasCondition(f)
    <3>1. f \in Frame
      BY DEF FrameAt, Frame, BlockOrNone, Stage
    <3>2. child \notin LoopStages
      BY DEF LoopStages
    <3>. QED
      BY <3>1, <3>2, NoLoop
  <2>. HIDE DEF f, g
  <2>6. /\ Len(frames) \in Nat /\ Len(frames') = Len(frames) + 1
        /\ \A k \in 1 .. Len(frames) : frames'[k] = IF k = Len(frames) THEN g ELSE frames[k]
        /\ frames'[Len(frames) + 1] = f
    BY <1>1, <2>1, <2>2, <2>3, <2>5
  <2>7. \A k \in 1 .. Len(frames') : k \in 1 .. Len(frames) \/ k = Len(frames) + 1
    BY <2>6
  <2>. QED
    BY <2>4, <2>5, <2>6, <2>7 DEF Conditions
<1>13. CASE Break \/ Continue
  BY <1>13 DEF Break, Continue, Conditions
<1>. QED
  BY <1>3, <1>4, <1>5, <1>6, <1>7, <1>8, <1>9, <1>10, <1>11, <1>12, <1>13 DEF Next

-----------------------------------------------------------------------------
(* The invariant of the program while it is built, and once it is printed *)

LEMMA InitLlir == Init => LlirInv
<1>. SUFFICES ASSUME Init
              PROVE  LlirInv
  OBVIOUS
<1>1. IInv /\ Graph /\ Closed
  BY InitIInv, InitGraph
<1>2. Shaped
  BY DEF Init, Shaped, Shapes
<1>3. Conditions /\ EndsLeave
  BY DEF Init, Conditions, EndsLeave
<1>. QED
  BY <1>1, <1>2, <1>3 DEF LlirInv

LEMMA NextLlir == LlirInv /\ [Next]_vars => LlirInv'
<1>. SUFFICES ASSUME LlirInv, [Next]_vars
              PROVE  LlirInv'
  OBVIOUS
<1>1. IInv' /\ Graph' /\ Closed'
  BY NextIInv, NextGraph DEF LlirInv
<1>2. CASE Next
  <2>1. TypeOK /\ Core /\ Loops
    BY IInvTypes DEF LlirInv, IInv
  <2>2. Shaped' /\ Conditions' /\ EndsLeave'
    BY <1>2, <2>1, ShapedKept, ConditionsKept, EndsLeaveKept DEF LlirInv
  <2>. QED
    BY <1>1, <2>2 DEF LlirInv
<1>3. CASE UNCHANGED vars
  <2>1. Shaped' /\ Conditions' /\ EndsLeave'
    BY <1>3 DEF LlirInv, vars, Shaped, Conditions, EndsLeave
  <2>. QED
    BY <1>1, <2>1 DEF LlirInv
<1>. QED
  BY <1>2, <1>3

-----------------------------------------------------------------------------
(* The text *)

Line == [op : {"method", "label", "jmp", "jcc", "ret", "exit"}, id : Int]

\* The position in layout of the last block before method m.
Before(m) == IF m = 1 THEN 0 ELSE methods[m - 1]

\* The jump of the p-th block, in method m, that pinhole optimization leaves out.
Silent(m, p) ==
  /\ pinhole_optimize
  /\ terminal[layout[p]].type = "jump"
  /\ p < methods[m]
  /\ terminal[layout[p]].block = layout[p + 1]

\* The line of a terminal that is printed.
LineFor(t) ==
  CASE t.type = "jump" -> LineOf("jmp", t.block)
    [] t.type = "branch" -> LineOf("jcc", t.false_block)
    [] t.type = "return" -> LineOf("ret", 0)
    [] t.type = "shit_yourself" -> LineOf("exit", 0)

\* The line behind those of the p-th block, whose label is line k.
After(k, m, p) == IF Silent(m, p) THEN k + 1 ELSE k + 2

\* Line k is the label of the p-th block, which is in method m.  Behind its terminal
\* comes the next block of the method, or the end of what is printed so far.
BlockAt(k, p, m) ==
  /\ LabelAt(k, layout[p])
  /\ ~ Silent(m, p) => k + 1 =< Len(text) /\ text[k + 1] = LineFor(terminal[layout[p]])
  /\ p < position /\ p < methods[m] =>
       After(k, m, p) =< Len(text) /\ LabelAt(After(k, m, p), layout[p + 1])
  /\ p = position /\ m = method => After(k, m, p) = Len(text) + 1

\* The lines belong to methods, which begin with their declarations.
Owned(owner) ==
  /\ \A k \in 1 .. Len(text) : owner[k] \in 1 .. method
  /\ \A i, k \in 1 .. Len(text) : i < k => owner[i] =< owner[k]
  /\ \A i, k \in 1 .. Len(text) : i < k /\ DeclarationAt(k) => owner[i] < owner[k]

DeclarationsFollowEnds ==
  \A k \in 1 .. Len(text) : DeclarationAt(k) /\ k > 1 => LeavesMethod(k - 1)

LabelsAreBlocks(owner) ==
  \A k \in 1 .. Len(text) : text[k].op = "label" =>
    \E p \in Positions(owner[k]) : p =< position /\ BlockAt(k, p, owner[k])

OthersAreTerminals(owner) ==
  \A k \in 1 .. Len(text) : text[k].op \notin {"method", "label"} =>
    \E p \in Positions(owner[k]) : text[k] = LineFor(terminal[layout[p]])

BlocksHaveLabels == \A p \in 1 .. position : \E k \in 1 .. Len(text) : LabelAt(k, layout[p])

LabelsAreUnique ==
  \A k, l \in 1 .. Len(text) : text[k].op = "label" /\ text[l] = text[k] => k = l

Printed(owner) ==
  /\ Owned(owner)
  /\ DeclarationsFollowEnds
  /\ LabelsAreBlocks(owner)
  /\ OthersAreTerminals(owner)
  /\ BlocksHaveLabels
  /\ LabelsAreUnique

Counters ==
  /\ text \in Seq(Line)
  /\ method \in 0 .. Len(methods)
  /\ position \in Nat
  /\ method = 0 => text = <<>> /\ position = 0
  /\ method > 0 => Before(method) =< position /\ position =< methods[method]

CompileInv == LlirInv /\ Counters /\ \E owner : Printed(owner)

-----------------------------------------------------------------------------

LEMMA LlirTypes == LlirInv => TypeOK /\ NoBlockTwice /\ BranchFallsThrough /\ MethodsAreClosed
BY IInvTypes DEF LlirInv, IInv, Core, Placement, Closed

LEMMA MethodsAreCounted == LlirInv => Len(methods) \in Nat
BY LlirTypes DEF TypeOK

LEMMA MethodsAreCountedNext == (LlirInv => Len(methods) \in Nat)'
BY MethodsAreCounted, PTL

\* Each position is in one method, whose last block is among its own.
LEMMA PositionsFacts ==
  ASSUME LlirInv, NEW m \in 1 .. Len(methods)
  PROVE  /\ Len(methods) \in Nat /\ Len(layout) \in Nat /\ m \in Nat
         /\ methods[m] \in Nat /\ Before(m) \in Nat /\ Before(m) < methods[m]
         /\ methods[m] =< Len(layout)
         /\ Positions(m) = Before(m) + 1 .. methods[m]
         /\ Positions(m) \subseteq 1 .. Len(layout)
         /\ methods[m] \in Positions(m)
         /\ \A n \in 1 .. Len(methods) : m < n => methods[m] =< Before(n)
         /\ \A n \in 1 .. Len(methods) : \A p \in Positions(m) : p \in Positions(n) => m = n
<1>1. /\ Len(methods) \in Nat /\ Len(layout) \in Nat
      /\ \A n \in 1 .. Len(methods) : methods[n] \in 1 .. Len(layout)
      /\ \A j, k \in 1 .. Len(methods) : j < k => methods[j] < methods[k]
  BY LlirTypes, SMTT(30) DEF TypeOK, LlirInv, EndsLeave
<1>2. ASSUME NEW n \in 1 .. Len(methods)
      PROVE  /\ methods[n] \in Nat /\ Before(n) \in Nat /\ Before(n) < methods[n]
             /\ methods[n] =< Len(layout)
             /\ Positions(n) = Before(n) + 1 .. methods[n]
  <2>1. CASE n = 1
    BY <1>1, <2>1 DEF Before, Positions
  <2>2. CASE n # 1
    <3>1. n - 1 \in 1 .. Len(methods) /\ n - 1 < n
      BY <1>1, <2>2
    <3>2. methods[n - 1] \in Nat /\ methods[n - 1] < methods[n]
      BY <1>1, <3>1
    <3>. QED
      BY <1>1, <2>2, <3>2 DEF Before, Positions
  <2>. QED
    BY <2>1, <2>2
<1>3. ASSUME NEW j \in 1 .. Len(methods), NEW k \in 1 .. Len(methods), j < k
      PROVE  methods[j] =< Before(k)
  <2>1. k # 1 /\ k - 1 \in 1 .. Len(methods)
    BY <1>1, <1>3
  <2>2. j = k - 1 \/ j < k - 1
    BY <1>1, <1>3
  <2>3. methods[j] \in Nat /\ methods[k - 1] \in Nat
    BY <1>2, <2>1
  <2>4. methods[j] =< methods[k - 1]
    BY <1>1, <2>1, <2>2, <2>3, SMTT(30)
  <2>. QED
    BY <2>1, <2>4 DEF Before
<1>4. ASSUME NEW n \in 1 .. Len(methods), NEW p \in Positions(m), p \in Positions(n)
      PROVE  m = n
  <2>1. /\ p \in Int /\ Before(m) < p /\ p =< methods[m]
        /\ Before(n) < p /\ p =< methods[n]
    BY <1>2, <1>4
  <2>2. ~ m < n /\ ~ n < m
    BY <1>2, <1>3, <2>1, SMTT(30)
  <2>. QED
    BY <1>1, <2>2
<1>. QED
  BY <1>1, <1>2, <1>3, <1>4

LEMMA PositionBounds ==
  ASSUME LlirInv, NEW m \in 1 .. Len(methods), NEW p \in Positions(m)
  PROVE  /\ Positions(m) = Before(m) + 1 .. methods[m]
         /\ Before(m) \in Nat /\ methods[m] \in Nat /\ methods[m] =< Len(layout)
         /\ Len(layout) \in Nat /\ p \in 1 .. Len(layout) /\ p \in Nat
         /\ Before(m) < p /\ p =< methods[m]
<1>1. /\ Positions(m) = Before(m) + 1 .. methods[m]
      /\ Before(m) \in Nat /\ methods[m] \in Nat /\ methods[m] =< Len(layout)
      /\ Len(layout) \in Nat /\ Positions(m) \subseteq 1 .. Len(layout)
  BY PositionsFacts
<1>. QED
  BY <1>1

\* The terminals of a printed method, one case for each constructor.
LEMMA TerminalCases ==
  ASSUME LlirInv, NEW m \in 1 .. Len(methods), NEW p \in Positions(m)
  PROVE  /\ layout[p] \in Block
         /\ \/ terminal[layout[p]] = Return
            \/ terminal[layout[p]] = ShitYourself
            \/ \E b \in Block : terminal[layout[p]] = Jump(b)
            \/ \E b, c \in Block : terminal[layout[p]] = Branch(b, c)
<1>1. p \in 1 .. Len(layout)
  BY PositionBounds
<1>2. layout[p] \in Block
  BY <1>1, LlirTypes DEF TypeOK
<1>3. terminal[layout[p]] \in Shapes /\ terminal[layout[p]].type # "unknown"
  BY <1>2, LlirTypes DEF LlirInv, Shaped, MethodsAreClosed
<1>4. terminal[layout[p]] # Unset
  BY <1>3 DEF Unset
<1>. QED
  BY <1>2, <1>3, <1>4 DEF Shapes

\* Their fields.
LEMMA ShapeFields ==
  /\ Return.type = "return" /\ Return.block = NoBlock
  /\ Return.true_block = NoBlock /\ Return.false_block = NoBlock
  /\ ShitYourself.type = "shit_yourself" /\ ShitYourself.block = NoBlock
  /\ ShitYourself.true_block = NoBlock /\ ShitYourself.false_block = NoBlock
  /\ \A b : /\ Jump(b).type = "jump" /\ Jump(b).block = b
            /\ Jump(b).true_block = NoBlock /\ Jump(b).false_block = NoBlock
  /\ \A b, c : /\ Branch(b, c).type = "branch" /\ Branch(b, c).block = NoBlock
               /\ Branch(b, c).true_block = b /\ Branch(b, c).false_block = c
BY DEF Return, ShitYourself, Jump, Branch, Unset

LEMMA BlocksAreNumbers == \A b \in Block : b \in Int /\ b # NoBlock
BY BoundsAssumption DEF Block, NoBlock, BoundsAssumption

LEMMA LineFacts ==
  ASSUME LlirInv, NEW m \in 1 .. Len(methods), NEW p \in Positions(m)
  PROVE  /\ LineOf("label", layout[p]) \in Line
         /\ LineFor(terminal[layout[p]]) \in Line
         /\ LineFor(terminal[layout[p]]).op \in {"jmp", "jcc", "ret", "exit"}
BY TerminalCases, ShapeFields, BlocksAreNumbers DEF LineFor, LineOf, Line

\* The last block of a method has a line, by which control leaves the method.
LEMMA LastLine ==
  ASSUME LlirInv, NEW m \in 1 .. Len(methods)
  PROVE  /\ ~ Silent(m, methods[m])
         /\ LineFor(terminal[layout[methods[m]]]).op \in {"ret", "exit"}
<1>1. Leaves(terminal[layout[methods[m]]])
  BY DEF LlirInv, EndsLeave
<1>. QED
  BY <1>1, ShapeFields DEF Leaves, Silent, LineFor, LineOf

\* What generate_terminal prints.
LEMMA TerminalText ==
  ASSUME LlirInv, method \in 1 .. Len(methods), NEW p \in Positions(method)
  PROVE  GenerateTerminal(terminal[layout[p]], NextBlockId(p))
           = IF Silent(method, p) THEN <<>> ELSE <<LineFor(terminal[layout[p]])>>
<1>. DEFINE t == terminal[layout[p]]
<1>1. CASE t = Return
  BY <1>1, ShapeFields DEF GenerateTerminal, Silent, LineFor
<1>2. CASE t = ShitYourself
  BY <1>2, ShapeFields DEF GenerateTerminal, Silent, LineFor
<1>3. CASE \E b, c \in Block : t = Branch(b, c)
  BY <1>3, ShapeFields DEF GenerateTerminal, GenerateBranch, Silent, LineFor
<1>4. CASE \E b \in Block : t = Jump(b)
  <2>1. t.type = "jump" /\ t.block \in Block /\ t.block # NoBlock
    BY <1>4, ShapeFields, BlocksAreNumbers
  <2>2. GenerateTerminal(t, NextBlockId(p)) = GenerateJump(t, NextBlockId(p))
    BY <2>1 DEF GenerateTerminal
  <2>3. LineFor(t) = LineOf("jmp", t.block)
    BY <2>1 DEF LineFor
  <2>. QED
    BY <2>1, <2>2, <2>3 DEF GenerateJump, NextBlockId, Silent
<1>. QED
  BY <1>1, <1>2, <1>3, <1>4, TerminalCases

-----------------------------------------------------------------------------
(* The generator of text *)

\* Once a method is declared, the lines printed last are those of the block printed last.
LEMMA LastIsPrinted ==
  ASSUME LlirInv, Counters, NEW owner, Printed(owner), method > 0, MethodDone
  PROVE  /\ Len(text) > 0 /\ LeavesMethod(Len(text))
<1>1. /\ method \in 1 .. Len(methods) /\ position = methods[method] /\ method \in Nat
      /\ text \in Seq(Line) /\ Len(text) \in Nat
  BY LlirTypes DEF Counters, MethodDone, TypeOK
<1>2. /\ position \in Nat /\ position \in Positions(method) /\ position > 0
  <2>1. Before(method) \in Nat /\ Before(method) < methods[method]
        /\ methods[method] \in Positions(method)
    BY <1>1, PositionsFacts
  <2>. QED
    BY <1>1, <2>1 DEF Counters
<1>3. PICK k \in 1 .. Len(text) : LabelAt(k, layout[position])
  BY <1>2 DEF Printed, BlocksHaveLabels
<1>4. text[k].op = "label" /\ text[k].id = layout[position]
  BY <1>3 DEF LabelAt, LineOf
<1>5. PICK p \in Positions(owner[k]) : p =< position /\ BlockAt(k, p, owner[k])
  BY <1>4 DEF Printed, LabelsAreBlocks
<1>6. owner[k] \in 1 .. Len(methods)
  BY <1>1 DEF Printed, Owned
<1>7. p = position
  <2>1. text[k].id = layout[p]
    BY <1>5 DEF BlockAt, LabelAt, LineOf
  <2>2. p \in 1 .. Len(layout) /\ position \in 1 .. Len(layout)
    BY <1>1, <1>2, <1>6, PositionsFacts
  <2>. QED
    BY <1>4, <2>1, <2>2, LlirTypes DEF NoBlockTwice
<1>8. owner[k] = method
  BY <1>1, <1>2, <1>5, <1>6, <1>7, PositionsFacts
<1>9. /\ ~ Silent(method, position)
      /\ LineFor(terminal[layout[position]]).op \in {"ret", "exit"}
  BY <1>1, LastLine
<1>10. /\ text[k + 1] = LineFor(terminal[layout[position]])
       /\ k + 2 = Len(text) + 1
  BY <1>5, <1>7, <1>8, <1>9 DEF BlockAt, After
<1>11. k + 1 = Len(text)
  BY <1>1, <1>10
<1>. QED
  BY <1>1, <1>9, <1>10, <1>11 DEF LeavesMethod

\* The lines that are there stay.
Longer ==
  /\ text' \in Seq(Line) /\ Len(text') \in Nat /\ Len(text') > Len(text)
  /\ \A k \in 1 .. Len(text) : text'[k] = text[k]
  /\ UNCHANGED <<vars, pinhole_optimize>>

\* The lines of the blocks printed before stay theirs.
LEMMA BlocksStay ==
  ASSUME LlirInv, Counters, Longer, NEW k \in 1 .. Len(text),
         NEW m \in 1 .. method, NEW p \in Positions(m), p =< position, BlockAt(k, p, m),
         \/ method' = method + 1 /\ position' = position
         \/ /\ method' = method /\ position' = position + 1
            /\ text'[Len(text) + 1] = LineOf("label", layout[position + 1])
  PROVE  p =< position' /\ BlockAt(k, p, m)'
<1>1. /\ method \in Nat /\ m \in 1 .. Len(methods) /\ method \in 1 .. Len(methods)
      /\ position \in Nat
      /\ text \in Seq(Line) /\ Len(text) \in Nat /\ Len(text') \in Nat /\ Len(text') > Len(text)
  BY LlirTypes, SMTT(30) DEF Counters, Longer, TypeOK
<1>2. p \in Nat /\ Positions(m) = Before(m) + 1 .. methods[m] /\ methods[m] \in Nat
      /\ p =< methods[m]
  BY <1>1, PositionBounds
<1>3. Silent(m, p)' = Silent(m, p) /\ After(k, m, p)' = After(k, m, p)
  BY DEF Silent, After, Longer, vars
<1>4. LabelAt(k, layout[p])'
  BY DEF BlockAt, LabelAt, Longer, vars
<1>5. ~ Silent(m, p) => k + 1 =< Len(text') /\ text'[k + 1] = LineFor(terminal[layout[p]])
  <2>. SUFFICES ASSUME ~ Silent(m, p)
                PROVE  k + 1 =< Len(text') /\ text'[k + 1] = LineFor(terminal[layout[p]])
    OBVIOUS
  <2>1. k + 1 =< Len(text) /\ text[k + 1] = LineFor(terminal[layout[p]])
    BY DEF BlockAt
  <2>2. k + 1 \in 1 .. Len(text)
    BY <1>1, <2>1
  <2>. QED
    BY <1>1, <2>1, <2>2 DEF Longer
<1>6. ASSUME p < position', p < methods[m]
      PROVE  /\ After(k, m, p) =< Len(text')
             /\ text'[After(k, m, p)] = LineOf("label", layout[p + 1])
  <2>1. CASE p < position
    <3>1. After(k, m, p) =< Len(text) /\ LabelAt(After(k, m, p), layout[p + 1])
      BY <1>6, <2>1 DEF BlockAt
    <3>2. After(k, m, p) \in 1 .. Len(text)
      BY <1>1, <3>1 DEF After
    <3>3. text'[After(k, m, p)] = text[After(k, m, p)]
      BY <3>2 DEF Longer
    <3>4. After(k, m, p) =< Len(text')
      BY <1>1, <3>2
    <3>. QED
      BY <3>1, <3>3, <3>4 DEF LabelAt
  <2>2. CASE p = position
    <3>1. method' = method /\ position' = position + 1
          /\ text'[Len(text) + 1] = LineOf("label", layout[position + 1])
      BY <1>1, <1>6, <2>2
    <3>2. m = method
      <4>1. CASE m < method
        <5>1. methods[m] =< Before(method)
          BY <1>1, <4>1, PositionsFacts
        <5>2. Before(method) =< position /\ Before(method) \in Nat
          BY <1>1, PositionsFacts DEF Counters
        <5>. QED
          BY <1>1, <1>2, <1>6, <2>2, <5>1, <5>2
      <4>. QED
        BY <1>1, <4>1
    <3>3. After(k, m, p) = Len(text) + 1
      BY <2>2, <3>2 DEF BlockAt
    <3>4. After(k, m, p) =< Len(text')
      BY <1>1, <3>3
    <3>5. text'[After(k, m, p)] = LineOf("label", layout[p + 1])
      BY <2>2, <3>1, <3>3
    <3>. QED
      BY <3>4, <3>5
  <2>. QED
    BY <1>1, <1>2, <2>1, <2>2
<1>7. ~ (p = position' /\ m = method')
  BY <1>1, <1>2
<1>8. p =< position'
  BY <1>1, <1>2
<1>. QED
  BY <1>3, <1>4, <1>5, <1>6, <1>7, <1>8 DEF BlockAt, LabelAt, Longer, vars

\* What a step of the generator adds: the declaration of the next method, behind the
\* last block of the one before it, or the lines of the next block of the method.
Declared ==
  /\ Longer
  /\ method' = method + 1 /\ method' \in 1 .. Len(methods) /\ position' = position
  /\ MethodDone
  /\ Len(text') = Len(text) + 1
  /\ text'[Len(text) + 1] = LineOf("method", method + 1)

BlockPrinted ==
  /\ Longer
  /\ method' = method /\ method \in 1 .. Len(methods) /\ position' = position + 1
  /\ position + 1 \in Positions(method)
  /\ text'[Len(text) + 1] = LineOf("label", layout[position + 1])
  /\ IF Silent(method, position + 1)
     THEN Len(text') = Len(text) + 1
     ELSE /\ Len(text') = Len(text) + 2
          /\ text'[Len(text) + 2] = LineFor(terminal[layout[position + 1]])

LEMMA DeclareMethodDeclares ==
  ASSUME LlirInv, Counters, DeclareMethod
  PROVE  Declared
<1>1. /\ text \in Seq(Line) /\ method \in Nat /\ Len(methods) \in Nat
      /\ method + 1 \in 1 .. Len(methods)
  BY LlirTypes, SMTT(30) DEF Counters, TypeOK, DeclareMethod
<1>2. PICK line : line = LineOf("method", method + 1)
  OBVIOUS
<1>3. line \in Line
  BY <1>1, <1>2 DEF LineOf, Line
<1>4. text' = Append(text, line)
  BY <1>2 DEF DeclareMethod
<1>5. /\ text' \in Seq(Line) /\ Len(text) \in Nat /\ Len(text') = Len(text) + 1
      /\ text'[Len(text) + 1] = line
      /\ \A k \in 1 .. Len(text) : text'[k] = text[k]
  BY <1>1, <1>3, <1>4
<1>. QED
  BY <1>1, <1>2, <1>5 DEF Declared, Longer, DeclareMethod

LEMMA GenerateBlockPrints ==
  ASSUME LlirInv, Counters, GenerateBlock
  PROVE  BlockPrinted
<1>1. /\ text \in Seq(Line) /\ Len(text) \in Nat
      /\ method \in 1 .. Len(methods) /\ position \in Nat
      /\ Before(method) =< position /\ position =< methods[method]
      /\ position # methods[method]
  <2>1. method > 0 /\ ~ MethodDone
    BY DEF GenerateBlock
  <2>2. method \in 1 .. Len(methods)
    BY <2>1, MethodsAreCounted DEF Counters
  <2>3. position # methods[method]
    BY <2>1 DEF MethodDone
  <2>. QED
    BY <2>1, <2>2, <2>3 DEF Counters
<1>2. position + 1 \in Positions(method)
  BY <1>1, PositionsFacts
<1>3. PICK label, line : label = LineOf("label", layout[position + 1])
                         /\ line = LineFor(terminal[layout[position + 1]])
  OBVIOUS
<1>4. label \in Line /\ line \in Line
  BY <1>1, <1>2, <1>3, LineFacts
<1>5. text' = text \o <<label>>
                \o (IF Silent(method, position + 1) THEN <<>> ELSE <<line>>)
  BY <1>1, <1>2, <1>3, TerminalText DEF GenerateBlock, Label
<1>6. CASE Silent(method, position + 1)
  <2>1. text' = text \o <<label>> \o <<>>
    BY <1>5, <1>6
  <2>2. /\ text' \in Seq(Line) /\ Len(text') = Len(text) + 1
        /\ text'[Len(text) + 1] = label
        /\ \A k \in 1 .. Len(text) : text'[k] = text[k]
    BY <1>1, <1>4, <2>1
  <2>. QED
    BY <1>1, <1>2, <1>3, <1>6, <2>2 DEF BlockPrinted, Longer, GenerateBlock
<1>7. CASE ~ Silent(method, position + 1)
  <2>1. text' = text \o <<label>> \o <<line>>
    BY <1>5, <1>7
  <2>2. /\ text' \in Seq(Line) /\ Len(text') = Len(text) + 2
        /\ text'[Len(text) + 1] = label /\ text'[Len(text) + 2] = line
        /\ \A k \in 1 .. Len(text) : text'[k] = text[k]
    BY <1>1, <1>4, <2>1
  <2>. QED
    BY <1>1, <1>2, <1>3, <1>7, <2>2 DEF BlockPrinted, Longer, GenerateBlock
<1>. QED
  BY <1>6, <1>7

\* The new lines belong to the method that is printed now.
Extends(o, owner) ==
  /\ \A k \in 1 .. Len(text) : o[k] = owner[k]
  /\ \A k \in 1 .. Len(text') : k > Len(text) => o[k] = method'

\* The lines of the next state are those of this one, and the new ones.
LEMMA NewLines ==
  ASSUME LlirInv, Counters, Declared \/ BlockPrinted
  PROVE  /\ text \in Seq(Line) /\ Len(text) \in Nat /\ Len(text') \in Nat
         /\ Len(text) < Len(text')
         /\ method \in Nat /\ position \in Nat
         /\ method' \in Nat /\ method =< method' /\ method' \in 1 .. Len(methods)
         /\ method < method' \/ method' = method
         /\ \A k \in 1 .. Len(text') :
              \/ k \in 1 .. Len(text)
              \/ k = Len(text) + 1
              \/ k = Len(text) + 2 /\ BlockPrinted /\ text'[k].op \in {"jmp", "jcc", "ret", "exit"}
                   /\ text'[k] = LineFor(terminal[layout[position + 1]])
         /\ Len(text) + 1 \in 1 .. Len(text')
         /\ Declared => text'[Len(text) + 1].op = "method" /\ method < method'
         /\ BlockPrinted => text'[Len(text) + 1].op = "label"
<1>1. /\ text \in Seq(Line) /\ Len(text) \in Nat /\ method \in Nat /\ position \in Nat
      /\ Len(text') \in Nat /\ Len(text) < Len(text')
  BY LlirTypes DEF Counters, TypeOK, Declared, BlockPrinted, Longer
<1>2. CASE Declared
  <2>1. ~ BlockPrinted /\ method' = method + 1 /\ Len(text') = Len(text) + 1
        /\ method' \in 1 .. Len(methods)
        /\ text'[Len(text) + 1].op = "method"
    BY <1>1, <1>2 DEF Declared, BlockPrinted, LineOf
  <2>. QED
    BY <1>1, <2>1
<1>3. CASE BlockPrinted
  <2>1. ~ Declared /\ method' = method /\ method' \in 1 .. Len(methods)
        /\ text'[Len(text) + 1].op = "label"
    BY <1>1, <1>3 DEF Declared, BlockPrinted, LineOf
  <2>2. LineFor(terminal[layout[position + 1]]).op \in {"jmp", "jcc", "ret", "exit"}
    BY <1>3, LineFacts DEF BlockPrinted
  <2>3. \/ Len(text') = Len(text) + 1
        \/ /\ Len(text') = Len(text) + 2
           /\ text'[Len(text) + 2] = LineFor(terminal[layout[position + 1]])
    BY <1>3 DEF BlockPrinted
  <2>. QED
    BY <1>1, <1>3, <2>1, <2>2, <2>3
<1>. QED
  BY <1>2, <1>3

LEMMA OwnedKept ==
  ASSUME LlirInv, Counters, Declared \/ BlockPrinted,
         NEW owner, Owned(owner), NEW o, Extends(o, owner)
  PROVE  Owned(o)'
<1>1. /\ Len(text) \in Nat /\ Len(text') \in Nat
      /\ method \in Nat /\ method' \in Nat /\ method =< method' /\ method' # 0
  BY NewLines
<1>2. \A k \in 1 .. Len(text) : text'[k] = text[k]
  BY DEF Declared, BlockPrinted, Longer
<1>3. ASSUME NEW k \in 1 .. Len(text')
      PROVE  /\ o[k] \in 1 .. method'
             /\ k \in 1 .. Len(text) => o[k] = owner[k] /\ o[k] \in 1 .. method
             /\ k \notin 1 .. Len(text) => o[k] = method'
  <2>1. CASE k \in 1 .. Len(text)
    BY <1>1, <2>1 DEF Owned, Extends
  <2>2. CASE k \notin 1 .. Len(text)
    BY <1>1, <2>2 DEF Extends
  <2>. QED
    BY <2>1, <2>2
<1>4. ASSUME NEW i \in 1 .. Len(text'), NEW k \in 1 .. Len(text'), i < k
      PROVE  /\ o[i] =< o[k]
             /\ text'[k].op = "method" => o[i] < o[k]
  <2>1. CASE k \in 1 .. Len(text)
    <3>1. i \in 1 .. Len(text)
      BY <1>1, <1>4, <2>1
    <3>. QED
      BY <1>2, <1>3, <1>4, <2>1, <3>1 DEF Owned, DeclarationAt
  <2>2. CASE k \notin 1 .. Len(text)
    <3>1. o[k] = method' /\ o[i] \in 1 .. method'
      BY <1>3, <2>2
    <3>2. ASSUME text'[k].op = "method"
          PROVE  o[i] < o[k]
      <4>1. k = Len(text) + 1 /\ ~ BlockPrinted
        BY <2>2, <3>2, NewLines
      <4>2. method < method' /\ i \in 1 .. Len(text)
        BY <1>1, <1>4, <4>1, NewLines
      <4>3. o[i] \in 1 .. method
        BY <1>3, <4>2
      <4>. QED
        BY <1>1, <3>1, <4>2, <4>3
    <3>. QED
      BY <1>1, <3>1, <3>2
  <2>. QED
    BY <2>1, <2>2
<1>. QED
  BY <1>3, <1>4 DEF Owned, DeclarationAt

LEMMA DeclarationsKept ==
  ASSUME LlirInv, Counters, Declared \/ BlockPrinted, NEW owner, Printed(owner)
  PROVE  DeclarationsFollowEnds'
<1>. SUFFICES ASSUME NEW k \in 1 .. Len(text'), text'[k].op = "method", k > 1
              PROVE  text'[k - 1].op \in {"ret", "exit"}
  BY DEF DeclarationsFollowEnds, DeclarationAt, LeavesMethod
<1>1. /\ Len(text) \in Nat /\ method \in Nat
      /\ \A i \in 1 .. Len(text) : text'[i] = text[i]
  BY NewLines DEF Declared, BlockPrinted, Longer
<1>2. CASE k \in 1 .. Len(text)
  <2>1. k - 1 \in 1 .. Len(text)
    BY <1>1, <1>2
  <2>. QED
    BY <1>1, <1>2, <2>1 DEF Printed, DeclarationsFollowEnds, DeclarationAt, LeavesMethod
<1>3. CASE k \notin 1 .. Len(text)
  <2>1. k = Len(text) + 1 /\ Declared
    BY <1>3, NewLines
  <2>2. Len(text) > 0 /\ method > 0
    BY <1>1, <2>1 DEF Counters
  <2>3. text[Len(text)].op \in {"ret", "exit"}
    BY <2>1, <2>2, LastIsPrinted DEF Declared, LeavesMethod
  <2>4. k - 1 = Len(text) /\ Len(text) \in 1 .. Len(text)
    BY <1>1, <2>1, <2>2
  <2>. QED
    BY <1>1, <2>3, <2>4
<1>. QED
  BY <1>2, <1>3

LEMMA LabelsKept ==
  ASSUME LlirInv, Counters, Declared \/ BlockPrinted,
         NEW owner, Printed(owner), NEW o, Extends(o, owner)
  PROVE  LabelsAreBlocks(o)'
<1>. SUFFICES ASSUME NEW k \in 1 .. Len(text'), text'[k].op = "label"
              PROVE  \E p \in Positions(o[k]) : p =< position' /\ BlockAt(k, p, o[k])'
  BY DEF LabelsAreBlocks, Positions, Declared, BlockPrinted, Longer, vars
<1>1. /\ Len(text) \in Nat /\ method \in Nat /\ Longer
      /\ \A i \in 1 .. Len(text) : text'[i] = text[i]
  BY NewLines DEF Declared, BlockPrinted, Longer
<1>2. CASE k \in 1 .. Len(text)
  <2>1. text[k].op = "label" /\ o[k] = owner[k] /\ owner[k] \in 1 .. method
    BY <1>1, <1>2 DEF Extends, Printed, Owned
  <2>2. PICK p \in Positions(owner[k]) : p =< position /\ BlockAt(k, p, owner[k])
    BY <1>2, <2>1 DEF Printed, LabelsAreBlocks
  <2>3. \/ method' = method + 1 /\ position' = position
        \/ /\ method' = method /\ position' = position + 1
           /\ text'[Len(text) + 1] = LineOf("label", layout[position + 1])
    BY DEF Declared, BlockPrinted
  <2>4. p =< position' /\ BlockAt(k, p, owner[k])'
    BY <1>1, <1>2, <2>1, <2>2, <2>3, BlocksStay
  <2>. QED
    BY <2>1, <2>2, <2>4
<1>3. CASE k \notin 1 .. Len(text)
  <2>1. k = Len(text) + 1 /\ BlockPrinted
    <3>1. k = Len(text) + 1
      BY <1>3, NewLines
    <3>. QED
      BY <3>1, NewLines
  <2>2. o[k] = method /\ position + 1 \in Positions(method) /\ position' = position + 1
        /\ position \in Nat
    BY <1>3, <2>1, NewLines DEF Extends, BlockPrinted
  <2>3. PICK r, m : r = position + 1 /\ m = method
    OBVIOUS
  <2>4. BlockAt(k, r, m)'
    <3>1. UNCHANGED <<layout, terminal, methods, pinhole_optimize>> /\ method' = method
      BY <2>1 DEF BlockPrinted, Longer, vars
    <3>2. text'[k] = LineOf("label", layout[r])
      BY <2>1, <2>3 DEF BlockPrinted
    <3>3. Silent(m, r)' = Silent(m, r) /\ After(k, m, r)' = After(k, m, r)
      BY <3>1 DEF Silent, After
    <3>4. ~ Silent(m, r) => k + 1 =< Len(text') /\ text'[k + 1] = LineFor(terminal[layout[r]])
      BY <1>1, <2>1, <2>3 DEF BlockPrinted
    <3>5. After(k, m, r) = Len(text') + 1
      BY <1>1, <2>1, <2>3 DEF BlockPrinted, After
    <3>6. r = position' /\ ~ (r < position')
      BY <2>2, <2>3
    <3>. QED
      BY <3>1, <3>2, <3>3, <3>4, <3>5, <3>6 DEF BlockAt, LabelAt
  <2>5. r \in Positions(o[k]) /\ r =< position' /\ o[k] = m
    BY <2>2, <2>3
  <2>. QED
    BY <2>4, <2>5
<1>. QED
  BY <1>2, <1>3

LEMMA OthersKept ==
  ASSUME LlirInv, Counters, Declared \/ BlockPrinted,
         NEW owner, Printed(owner), NEW o, Extends(o, owner)
  PROVE  OthersAreTerminals(o)'
<1>. SUFFICES ASSUME NEW k \in 1 .. Len(text'), text'[k].op \notin {"method", "label"}
              PROVE  \E p \in Positions(o[k]) : text'[k] = LineFor(terminal[layout[p]])
  BY DEF OthersAreTerminals, Positions, Declared, BlockPrinted, Longer, vars
<1>1. Len(text) \in Nat /\ \A i \in 1 .. Len(text) : text'[i] = text[i]
  BY NewLines DEF Declared, BlockPrinted, Longer
<1>2. CASE k \in 1 .. Len(text)
  BY <1>1, <1>2 DEF Printed, OthersAreTerminals, Extends
<1>3. CASE k \notin 1 .. Len(text)
  <2>1. k # Len(text) + 1
    BY NewLines
  <2>2. BlockPrinted /\ text'[k] = LineFor(terminal[layout[position + 1]]) /\ k > Len(text)
    BY <1>1, <1>3, <2>1, NewLines
  <2>3. o[k] = method /\ position + 1 \in Positions(method)
    BY <2>2 DEF Extends, BlockPrinted
  <2>. QED
    BY <2>2, <2>3
<1>. QED
  BY <1>2, <1>3

LEMMA BlocksKept ==
  ASSUME LlirInv, Counters, Declared \/ BlockPrinted, NEW owner, Printed(owner)
  PROVE  BlocksHaveLabels'
<1>. SUFFICES ASSUME NEW p \in 1 .. position'
              PROVE  \E k \in 1 .. Len(text') : text'[k] = LineOf("label", layout[p])
  BY DEF BlocksHaveLabels, LabelAt, Declared, BlockPrinted, Longer, vars
<1>1. /\ Len(text) \in Nat /\ Len(text') \in Nat /\ Len(text) < Len(text') /\ position \in Nat
      /\ \A i \in 1 .. Len(text) : text'[i] = text[i]
  BY NewLines DEF Declared, BlockPrinted, Longer
<1>2. CASE p \in 1 .. position
  <2>1. PICK k \in 1 .. Len(text) : text[k] = LineOf("label", layout[p])
    BY <1>2 DEF Printed, BlocksHaveLabels, LabelAt
  <2>2. k \in 1 .. Len(text') /\ text'[k] = text[k]
    BY <1>1
  <2>. QED
    BY <2>1, <2>2
<1>3. CASE p \notin 1 .. position
  <2>1. BlockPrinted /\ p = position + 1
    BY <1>1, <1>3 DEF Declared, BlockPrinted
  <2>. QED
    BY <2>1, NewLines DEF BlockPrinted
<1>. QED
  BY <1>2, <1>3

LEMMA UniqueKept ==
  ASSUME LlirInv, Counters, Declared \/ BlockPrinted, NEW owner, Printed(owner)
  PROVE  LabelsAreUnique'
<1>1. /\ Len(text) \in Nat /\ position \in Nat
      /\ \A i \in 1 .. Len(text) : text'[i] = text[i]
  BY NewLines DEF Declared, BlockPrinted, Longer
\* The label of a new block is not among the lines that are there.
<1>2. ASSUME NEW k \in 1 .. Len(text), BlockPrinted
      PROVE  text[k] # LineOf("label", layout[position + 1])
  <2>. SUFFICES ASSUME text[k] = LineOf("label", layout[position + 1])
                PROVE  FALSE
    OBVIOUS
  <2>1. text[k].op = "label" /\ text[k].id = layout[position + 1]
    BY DEF LineOf
  <2>2. owner[k] \in 1 .. method /\ method \in 1 .. Len(methods)
    BY <1>2, <2>1 DEF Printed, Owned, BlockPrinted
  <2>3. owner[k] \in 1 .. Len(methods)
    BY <2>2, LlirTypes, SMTT(30) DEF TypeOK
  <2>4. PICK p \in Positions(owner[k]) : p =< position /\ BlockAt(k, p, owner[k])
    BY <2>1 DEF Printed, LabelsAreBlocks
  <2>5. text[k].id = layout[p]
    BY <2>4 DEF BlockAt, LabelAt, LineOf
  <2>6. p \in 1 .. Len(layout) /\ position + 1 \in 1 .. Len(layout)
    BY <1>2, <2>2, <2>3, PositionsFacts DEF BlockPrinted
  <2>7. p = position + 1
    BY <2>1, <2>5, <2>6, LlirTypes DEF NoBlockTwice
  <2>. QED
    BY <1>1, <2>4, <2>6, <2>7
<1>3. ASSUME NEW k \in 1 .. Len(text'), text'[k].op = "label"
      PROVE  \/ k \in 1 .. Len(text)
             \/ /\ k = Len(text) + 1 /\ BlockPrinted
                /\ text'[k] = LineOf("label", layout[position + 1])
  <2>1. k \in 1 .. Len(text) \/ k = Len(text) + 1
    BY <1>3, NewLines
  <2>2. k = Len(text) + 1 => BlockPrinted
    BY <1>3, NewLines
  <2>. QED
    BY <2>1, <2>2 DEF BlockPrinted
<1>4. ASSUME NEW k \in 1 .. Len(text'), NEW l \in 1 .. Len(text'),
             text'[k].op = "label", text'[l] = text'[k]
      PROVE  k = l
  <2>1. text'[l].op = "label"
    BY <1>4
  <2>2. CASE k \in 1 .. Len(text) /\ l \in 1 .. Len(text)
    BY <1>1, <1>4, <2>2 DEF Printed, LabelsAreUnique
  <2>3. CASE k \in 1 .. Len(text) /\ l \notin 1 .. Len(text)
    BY <1>1, <1>2, <1>3, <1>4, <2>1, <2>3
  <2>4. CASE k \notin 1 .. Len(text) /\ l \in 1 .. Len(text)
    BY <1>1, <1>2, <1>3, <1>4, <2>1, <2>4
  <2>5. CASE k \notin 1 .. Len(text) /\ l \notin 1 .. Len(text)
    BY <1>3, <1>4, <2>1, <2>5
  <2>. QED
    BY <2>2, <2>3, <2>4, <2>5
<1>. QED
  BY <1>4 DEF LabelsAreUnique

LEMMA PrintedKept ==
  ASSUME LlirInv, Counters, Declared \/ BlockPrinted, NEW owner, Printed(owner)
  PROVE  (\E o : Printed(o))'
<1>1. \E o : Extends(o, owner)
  <2>1. PICK o : o = [k \in 1 .. Len(text') |-> IF k =< Len(text) THEN owner[k] ELSE method']
    OBVIOUS
  <2>2. /\ \A k \in 1 .. Len(text) : k \in 1 .. Len(text') /\ k =< Len(text)
        /\ \A k \in 1 .. Len(text') : k > Len(text) => ~ k =< Len(text)
    BY NewLines
  <2>. QED
    BY <2>1, <2>2 DEF Extends
<1>2. PICK o : Extends(o, owner)
  BY <1>1
<1>3. Owned(o)' /\ DeclarationsFollowEnds'
  BY <1>2, OwnedKept, DeclarationsKept DEF Printed
<1>4. LabelsAreBlocks(o)' /\ OthersAreTerminals(o)'
  BY <1>2, LabelsKept, OthersKept
<1>5. BlocksHaveLabels' /\ LabelsAreUnique'
  BY BlocksKept, UniqueKept
<1>. QED
  BY <1>3, <1>4, <1>5 DEF Printed

LEMMA CountersKept ==
  ASSUME LlirInv, Counters, Declared \/ BlockPrinted
  PROVE  Counters'
<1>1. /\ text' \in Seq(Line) /\ method' \in 1 .. Len(methods) /\ method' \in Nat
      /\ UNCHANGED methods /\ position \in Nat
      /\ Len(methods) \in Nat
  BY NewLines, LlirTypes DEF Declared, BlockPrinted, Longer, vars, TypeOK
<1>2. CASE Declared
  <2>1. position' = position /\ method' = method + 1 /\ method \in Nat
    BY <1>2, NewLines DEF Declared
  <2>2. position = Before(method + 1)
    BY <1>2, <2>1 DEF Declared, MethodDone, Before
  <2>3. Before(method + 1) =< methods[method + 1]
    BY <1>1, <2>1, PositionsFacts
  <2>. QED
    BY <1>1, <2>1, <2>2, <2>3 DEF Counters, Before
<1>3. CASE BlockPrinted
  <2>1. position' = position + 1 /\ method' = method /\ method \in 1 .. Len(methods)
        /\ position + 1 \in Before(method) + 1 .. methods[method]
        /\ Before(method) \in Nat /\ methods[method] \in Nat
    BY <1>3, PositionsFacts DEF BlockPrinted
  <2>. QED
    BY <1>1, <2>1 DEF Counters, Before
<1>. QED
  BY <1>2, <1>3

-----------------------------------------------------------------------------
(* The invariant of the two, one after the other *)

LEMMA InitCompile == CompileInit => CompileInv
<1>. SUFFICES ASSUME CompileInit
              PROVE  CompileInv
  OBVIOUS
<1>1. LlirInv
  BY InitLlir DEF CompileInit
<1>2. text = <<>> /\ method = 0 /\ position = 0 /\ Len(text) = 0
  BY DEF CompileInit, GeneratorInit
<1>3. Counters
  <2>1. Len(methods) \in Nat
    BY <1>1, LlirTypes DEF TypeOK
  <2>. QED
    BY <1>2, <2>1 DEF Counters
<1>4. Printed(<<>>)
  BY <1>2 DEF Printed, Owned, DeclarationsFollowEnds, LabelsAreBlocks, OthersAreTerminals,
              BlocksHaveLabels, LabelsAreUnique
<1>. QED
  BY <1>1, <1>3, <1>4 DEF CompileInv

LEMMA NextCompile == CompileInv /\ [CompileNext]_<<vars, generator>> => CompileInv'
<1>. SUFFICES ASSUME CompileInv, [CompileNext]_<<vars, generator>>
              PROVE  CompileInv'
  OBVIOUS
<1>1. PICK owner : Printed(owner)
  BY DEF CompileInv
<1>2. LlirInv /\ Counters
  BY DEF CompileInv
<1>3. ASSUME Declared \/ BlockPrinted
      PROVE  CompileInv'
  <2>1. LlirInv'
    BY <1>2, <1>3, NextLlir DEF Declared, BlockPrinted, Longer
  <2>2. Counters' /\ (\E o : Printed(o))'
    BY <1>1, <1>2, <1>3, CountersKept, PrintedKept
  <2>. QED
    BY <2>1, <2>2 DEF CompileInv
<1>4. CASE DeclareMethod
  BY <1>2, <1>3, <1>4, DeclareMethodDeclares
<1>5. CASE GenerateBlock
  BY <1>2, <1>3, <1>5, GenerateBlockPrints
<1>6. CASE method = 0 /\ Next /\ UNCHANGED generator
  <2>1. LlirInv'
    BY <1>2, <1>6, NextLlir
  <2>2. text' = <<>> /\ method' = 0 /\ position' = 0 /\ Len(text') = 0
    BY <1>2, <1>6 DEF Counters, generator
  <2>3. Counters'
    <3>1. Len(methods') \in Nat
      BY <2>1, MethodsAreCountedNext
    <3>. QED
      BY <2>2, <3>1 DEF Counters
  <2>4. Printed(<<>>)'
    BY <2>2 DEF Printed, Owned, DeclarationsFollowEnds, LabelsAreBlocks, OthersAreTerminals,
                BlocksHaveLabels, LabelsAreUnique
  <2>. QED
    BY <2>1, <2>3, <2>4 DEF CompileInv
<1>7. CASE UNCHANGED <<vars, generator>>
  <2>1. LlirInv'
    BY <1>2, <1>7, NextLlir
  <2>2. Counters'
    BY <1>2, <1>7 DEF Counters, vars, generator, Before
  <2>3. Printed(owner)'
    BY <1>1, <1>7 DEF Printed, Owned, DeclarationsFollowEnds, LabelsAreBlocks,
         OthersAreTerminals, BlocksHaveLabels, LabelsAreUnique, DeclarationAt, LeavesMethod,
         BlockAt, LabelAt, Silent, After, Positions, vars, generator
  <2>. QED
    BY <2>1, <2>2, <2>3 DEF CompileInv
<1>. QED
  BY <1>4, <1>5, <1>6, <1>7 DEF CompileNext

\* The inductive invariant of the compilation: the methods are well built, the counters of
\* the generator are within them, and the text is the lines of the blocks printed so far.
THEOREM CompileInvariance == CompileSpec => []CompileInv
<1>1. CompileInit => CompileInv
  BY InitCompile
<1>2. CompileInv /\ [CompileNext]_<<vars, generator>> => CompileInv'
  BY NextCompile
<1>. QED
  BY <1>1, <1>2, PTL DEF CompileSpec

-----------------------------------------------------------------------------
(* What the text says *)

\* When the text is complete, the blocks of every method have been printed.
LEMMA AllPrinted ==
  ASSUME LlirInv, Counters, Finished, NEW m \in 1 .. method
  PROVE  /\ m \in 1 .. Len(methods) /\ method = Len(methods) /\ method \in Nat
         /\ position = methods[method] /\ methods[m] \in Nat /\ position \in Nat
         /\ methods[m] =< position
<1>1. /\ method = Len(methods) /\ Len(methods) \in Nat
      /\ method \in 1 .. Len(methods) /\ m \in 1 .. Len(methods)
      /\ position = methods[method] /\ position \in Nat
  BY MethodsAreCounted DEF Finished, MethodDone, Counters
<1>2. methods[m] \in Nat
  BY <1>1, PositionsFacts
<1>3. CASE m < method
  <2>1. methods[m] =< Before(method) /\ Before(method) \in Nat /\ Before(method) < methods[method]
    BY <1>1, <1>3, PositionsFacts
  <2>. QED
    BY <1>1, <1>2, <2>1
<1>4. CASE m = method
  BY <1>1, <1>2, <1>4
<1>. QED
  BY <1>1, <1>2, <1>3, <1>4

\* A branch is not the last block of its method, and its true_block comes next.
LEMMA BranchContinues ==
  ASSUME LlirInv, NEW m \in 1 .. Len(methods), NEW p \in Positions(m),
         terminal[layout[p]].type = "branch"
  PROVE  p < methods[m] /\ layout[p + 1] = terminal[layout[p]].true_block
<1>1. /\ p \in Nat /\ p \in 1 .. Len(layout) /\ methods[m] \in Nat /\ p =< methods[m]
      /\ methods[m] =< Len(layout) /\ Len(layout) \in Nat
  BY PositionBounds
<1>2. p # methods[m]
  BY ShapeFields DEF LlirInv, EndsLeave, Leaves
<1>3. p < methods[m] /\ p < Len(layout)
  BY <1>1, <1>2
<1>4. terminal[layout[p]].true_block = layout[p + 1]
  BY <1>1, <1>3, LlirTypes DEF BranchFallsThrough
<1>. QED
  BY <1>3, <1>4

\* One label of a complete text.
LEMMA LabelFollows ==
  ASSUME LlirInv, Counters, NEW owner, Printed(owner), Finished,
         NEW i \in 1 .. Len(text), text[i].op = "label"
  PROVE  LET t == terminal[text[i].id]
         IN  /\ Taken(i) = t.false_block
             /\ Otherwise(i) = IF t.type = "branch" THEN t.true_block ELSE t.block
             /\ t.type \in {"return", "shit_yourself"} <=> text[i + 1].op \in {"ret", "exit"}
<1>1. owner[i] \in 1 .. method
  BY DEF Printed, Owned
<1>2. PICK m, p : /\ m \in 1 .. method /\ p \in Positions(m) /\ p =< position
                  /\ BlockAt(i, p, m)
  BY <1>1 DEF Printed, LabelsAreBlocks
<1>3. /\ m \in 1 .. Len(methods) /\ methods[m] \in Nat /\ position \in Nat
      /\ methods[m] =< position
  BY <1>2, AllPrinted
<1>4. p \in Nat /\ p =< methods[m] /\ Len(text) \in Nat
  <2>1. p \in Nat /\ p =< methods[m]
    BY <1>2, <1>3, PositionBounds
  <2>2. Len(text) \in Nat
    BY DEF Counters
  <2>. QED
    BY <1>2, <1>3, <2>1, <2>2
<1>5. text[i].id = layout[p]
  BY <1>2 DEF BlockAt, LabelAt, LineOf
<1>6. PICK t : t = terminal[text[i].id]
  OBVIOUS
<1>7. p < methods[m] => /\ After(i, m, p) =< Len(text)
                        /\ text[After(i, m, p)].op = "label"
                        /\ text[After(i, m, p)].id = layout[p + 1]
  <2>. SUFFICES ASSUME p < methods[m]
                PROVE  After(i, m, p) =< Len(text) /\ LabelAt(After(i, m, p), layout[p + 1])
    BY DEF LabelAt, LineOf
  <2>1. p < position
    BY <1>3, <1>4
  <2>. QED
    BY <1>2, <2>1 DEF BlockAt
\* The line behind the label, and where control is without a jump there.
<1>8. ASSUME ~ Silent(m, p)
      PROVE  i + 1 =< Len(text) /\ i < Len(text) /\ text[i + 1] = LineFor(t)
  BY <1>2, <1>4, <1>5, <1>6, <1>8 DEF BlockAt
<1>9. CASE t = Return
  <2>1. ~ Silent(m, p) /\ LineFor(t).op = "ret"
    BY <1>5, <1>6, <1>9, ShapeFields DEF Silent, LineFor, LineOf
  <2>2. text[i + 1].op = "ret" /\ Taken(i) = NoBlock /\ Otherwise(i) = NoBlock
    BY <1>8, <2>1 DEF Taken, Otherwise, Arrives
  <2>. QED
    BY <1>6, <1>9, <2>2, ShapeFields
<1>10. CASE t = ShitYourself
  <2>1. ~ Silent(m, p) /\ LineFor(t).op = "exit"
    BY <1>5, <1>6, <1>10, ShapeFields DEF Silent, LineFor, LineOf
  <2>2. text[i + 1].op = "exit" /\ Taken(i) = NoBlock /\ Otherwise(i) = NoBlock
    BY <1>8, <2>1 DEF Taken, Otherwise, Arrives
  <2>. QED
    BY <1>6, <1>10, <2>2, ShapeFields
<1>11. CASE \E b \in Block : t = Jump(b)
  <2>1. PICK b \in Block : t = Jump(b)
    BY <1>11
  <2>2. CASE Silent(m, p)
    <3>1. p < methods[m] /\ t.block = layout[p + 1]
      BY <1>5, <1>6, <2>2 DEF Silent
    <3>2. i + 1 =< Len(text) /\ text[i + 1].op = "label" /\ text[i + 1].id = layout[p + 1]
      BY <1>7, <2>2, <3>1 DEF After
    <3>3. Taken(i) = NoBlock /\ Otherwise(i) = layout[p + 1]
      BY <3>2 DEF Taken, Otherwise, Arrives
    <3>. QED
      BY <1>6, <2>1, <3>1, <3>2, <3>3, ShapeFields
  <2>3. CASE ~ Silent(m, p)
    <3>1. text[i + 1].op = "jmp" /\ text[i + 1].id = b
      BY <1>8, <2>1, <2>3, ShapeFields DEF LineFor, LineOf
    <3>2. Taken(i) = NoBlock /\ Otherwise(i) = b
      BY <1>8, <2>3, <3>1 DEF Taken, Otherwise, Arrives
    <3>. QED
      BY <1>6, <2>1, <3>1, <3>2, ShapeFields
  <2>. QED
    BY <2>2, <2>3
<1>12. CASE \E b, c \in Block : t = Branch(b, c)
  <2>1. PICK b \in Block, c \in Block : t = Branch(b, c)
    BY <1>12
  <2>2. p < methods[m] /\ layout[p + 1] = b
    <3>1. terminal[layout[p]] = t /\ p \in Positions(m) /\ m \in 1 .. Len(methods)
      BY <1>2, <1>3, <1>5, <1>6
    <3>2. t.type = "branch" /\ t.true_block = b
      BY <2>1, ShapeFields
    <3>. QED
      BY <3>1, <3>2, BranchContinues
  <2>3. ~ Silent(m, p)
    BY <1>5, <1>6, <2>1, ShapeFields DEF Silent
  <2>4. text[i + 1].op = "jcc" /\ text[i + 1].id = c
    BY <1>8, <2>1, <2>3, ShapeFields DEF LineFor, LineOf
  <2>5. i + 2 =< Len(text) /\ text[i + 2].op = "label" /\ text[i + 2].id = b
    BY <1>7, <2>2, <2>3 DEF After
  <2>6. Taken(i) = c /\ Otherwise(i) = b
    <3>1. c # NoBlock
      BY BlocksAreNumbers
    <3>2. Taken(i) = c
      BY <1>8, <2>3, <2>4 DEF Taken
    <3>. QED
      BY <2>5, <3>1, <3>2 DEF Otherwise, Arrives
  <2>. QED
    BY <1>6, <2>1, <2>4, <2>6, ShapeFields
<1>. QED
  BY <1>2, <1>3, <1>5, <1>6, <1>9, <1>10, <1>11, <1>12, TerminalCases

\* The text of a complete program takes the edges of its flow graph, and no others, with the
\* pinhole optimization or without: whatever methods the generator of LLIR built.
THEOREM TextFollows == CompileSpec => []TextFollowsGraph
<1>1. CompileInv => TextFollowsGraph
  BY LabelFollows DEF CompileInv, TextFollowsGraph
<1>. QED
  BY <1>1, CompileInvariance, PTL

\* Between two lines of the same method there is no declaration.
LEMMA OwnersDecide ==
  ASSUME Counters, NEW owner, Owned(owner), NEW i \in 1 .. Len(text), NEW j \in 1 .. Len(text),
         owner[i] = owner[j]
  PROVE  SameMethod(i, j)
<1>. SUFFICES ASSUME NEW k \in (i + 1) .. j, DeclarationAt(k)
              PROVE  FALSE
  BY DEF SameMethod
<1>1. /\ k \in 1 .. Len(text) /\ i < k /\ k =< j /\ k \in Nat /\ j \in Nat /\ method \in Nat
  BY DEF Counters
<1>2. owner[i] < owner[k]
  BY <1>1 DEF Owned
<1>3. owner[k] =< owner[j]
  <2>1. k < j \/ k = j
    BY <1>1
  <2>2. owner[k] \in 1 .. method
    BY <1>1 DEF Owned
  <2>. QED
    BY <1>1, <2>1, <2>2 DEF Owned
<1>4. owner[i] \in 1 .. method /\ owner[k] \in 1 .. method /\ owner[j] \in 1 .. method
  BY <1>1 DEF Owned
<1>. QED
  BY <1>1, <1>2, <1>3, <1>4

\* One jump of a complete text.
LEMMA JumpsResolve ==
  ASSUME LlirInv, Counters, NEW owner, Printed(owner), Finished,
         NEW i \in 1 .. Len(text), text[i].op \in {"jmp", "jcc"}
  PROVE  JumpResolves(i)
<1>1. PICK m, p, t : /\ m = owner[i] /\ p \in Positions(m) /\ t = terminal[layout[p]]
                     /\ text[i] = LineFor(t)
  BY DEF Printed, OthersAreTerminals
<1>2. m \in 1 .. method
  BY <1>1 DEF Printed, Owned
<1>3. /\ m \in 1 .. Len(methods) /\ methods[m] \in Nat /\ position \in Nat
      /\ methods[m] =< position /\ method = Len(methods)
  BY <1>2, AllPrinted
<1>4. text[i].id \in Successors(t)
  <2>1. CASE t = Return \/ t = ShitYourself
    BY <1>1, <2>1, ShapeFields DEF LineFor, LineOf
  <2>2. CASE \E b \in Block : t = Jump(b)
    BY <1>1, <2>2, ShapeFields, BlocksAreNumbers DEF LineFor, LineOf, Successors
  <2>3. CASE \E b, c \in Block : t = Branch(b, c)
    BY <1>1, <2>3, ShapeFields, BlocksAreNumbers DEF LineFor, LineOf, Successors
  <2>. QED
    BY <1>1, <1>3, <2>1, <2>2, <2>3, TerminalCases
<1>5. PICK q \in Positions(m) : layout[q] = text[i].id
  BY <1>1, <1>3, <1>4, LlirTypes DEF MethodsAreClosed
<1>6. q \in 1 .. position /\ q \in 1 .. Len(layout)
  BY <1>3, PositionsFacts
<1>7. PICK j \in 1 .. Len(text) : LabelAt(j, text[i].id)
  BY <1>5, <1>6 DEF Printed, BlocksHaveLabels
<1>8. owner[j] = m
  <2>1. text[j].op = "label" /\ text[j].id = layout[q]
    BY <1>5, <1>7 DEF LabelAt, LineOf
  <2>2. PICK r \in Positions(owner[j]) : BlockAt(j, r, owner[j])
    BY <2>1 DEF Printed, LabelsAreBlocks
  <2>3. owner[j] \in 1 .. Len(methods)
    BY <1>3 DEF Printed, Owned
  <2>4. r \in 1 .. Len(layout) /\ layout[r] = text[j].id
    BY <2>2, <2>3, PositionBounds DEF BlockAt, LabelAt, LineOf
  <2>5. r = q
    BY <1>6, <2>1, <2>4, LlirTypes DEF NoBlockTwice
  <2>. QED
    BY <1>3, <2>2, <2>3, <2>5, PositionsFacts
<1>9. SameMethod(i, j) /\ SameMethod(j, i)
  BY <1>1, <1>8, OwnersDecide DEF Printed
<1>10. ASSUME NEW k \in 1 .. Len(text), LabelAt(k, text[i].id)
       PROVE  k = j
  BY <1>7, <1>10 DEF LabelAt, LineOf, Printed, LabelsAreUnique
<1>. QED
  BY <1>7, <1>9, <1>10 DEF JumpResolves

\* Every jump of a complete text has one label, in its own method, and the lines before a
\* declaration and at the end of the text do not run on: whatever methods were built.
THEOREM ControlStays == CompileSpec => []ControlStaysInTheMethod
<1>1. ASSUME CompileInv, Finished
      PROVE  ControlStaysInTheMethod
  <2>1. PICK owner : Printed(owner)
    BY <1>1 DEF CompileInv
  <2>2. LlirInv /\ Counters /\ Len(text) \in Nat
    BY <1>1 DEF CompileInv, Counters
  <2>3. ASSUME NEW i \in 1 .. Len(text), text[i].op \in {"jmp", "jcc"}
        PROVE  JumpResolves(i)
    BY <1>1, <2>1, <2>2, <2>3, JumpsResolve
  <2>4. ASSUME NEW i \in 1 .. Len(text), i = Len(text) \/ DeclarationAt(i + 1)
        PROVE  LeavesMethod(i)
    <3>1. CASE i = Len(text)
      <4>1. method > 0 /\ MethodDone
        BY <1>1 DEF Finished
      <4>. QED
        BY <2>1, <2>2, <3>1, <4>1, LastIsPrinted
    <3>2. CASE i # Len(text)
      <4>1. i + 1 \in 1 .. Len(text) /\ i + 1 > 1 /\ DeclarationAt(i + 1)
        BY <2>2, <2>4, <3>2
      <4>2. LeavesMethod((i + 1) - 1)
        BY <2>1, <4>1 DEF Printed, DeclarationsFollowEnds
      <4>3. (i + 1) - 1 = i
        OBVIOUS
      <4>. QED
        BY <4>2, <4>3
    <3>. QED
      BY <3>1, <3>2
  <2>. QED
    BY <2>3, <2>4 DEF ControlStaysInTheMethod
<1>2. CompileInv => ControlStaysInTheMethod
  BY <1>1 DEF ControlStaysInTheMethod
<1>. QED
  BY <1>2, CompileInvariance, PTL
===============================================================================
