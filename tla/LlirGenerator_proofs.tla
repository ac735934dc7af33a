------------------------- MODULE LlirGenerator_proofs -------------------------
(***************************************************************************)
(* What LlirGenerator promises for programs of any size, depth and number  *)
(* of methods.  IInv is the inductive invariant: Core says where every     *)
(* block is and that branches fall through, Loops ties the break and       *)
(* continue stacks to the loops in progress.  Most actions end the current *)
(* block and change only the frame on top, so one lemma about such a step  *)
(* (EndBlockCore) carries them; the rest have their own.                   *)
(*                                                                         *)
(* On top of it stand the edges between the blocks (Graph, Closed), the    *)
(* ways out of every block (Sheltered, Leaving) and the entries of the     *)
(* loops (Entries), each kept by one lemma per action in the same manner.  *)
(***************************************************************************)
EXTENDS LlirGenerator, SequenceTheorems, FiniteSetTheorems, WellFoundedInduction, TLAPS

\* The blocks a loop still holds are different blocks.
FrameShape(f) ==
  /\ f.at = "while_condition" => f.loop_block # f.end_block
  /\ f.at = "for_condition" => /\ f.loop_block # f.update_block
                               /\ f.loop_block # f.end_block
  /\ f.at \in {"for_condition", "for_body"} => f.update_block # f.end_block

\* The method's own generate_block is the outermost call, and only it; a block is
\* current exactly while a method is generated.
Shape ==
  /\ \A k \in 1 .. Len(frames) : frames[k].at = "block" <=> k = 1
  /\ frames = <<>> <=> current_block = NoBlock
  /\ \A k \in 1 .. Len(frames) : FrameShape(frames[k])

\* Functions hold blocks, never NoBlock.
PendingAreBlocks == \A k \in 1 .. Len(frames) : Pending(frames[k]) \subseteq Block

-----------------------------------------------------------------------------

\* SubSeq without the last element.
LEMMA FrontFacts ==
  ASSUME NEW S, NEW s \in Seq(S), NEW n \in Nat, Len(s) = n + 1
  PROVE  /\ SubSeq(s, 1, n) \in Seq(S)
         /\ Len(SubSeq(s, 1, n)) = n
         /\ \A k \in 1 .. n : SubSeq(s, 1, n)[k] = s[k]
OBVIOUS

\* The return of a generate_* function.
LEMMA PopFacts ==
  ASSUME frames \in Seq(Frame), Len(frames) > 0, Pop
  PROVE  /\ frames' \in Seq(Frame)
         /\ Len(frames') = Len(frames) - 1
         /\ \A k \in 1 .. Len(frames) - 1 : frames'[k] = frames[k]
<1>1. Len(frames) - 1 \in Nat /\ Len(frames) = (Len(frames) - 1) + 1
  BY LenProperties
<1>. QED
  BY <1>1, FrontFacts DEF Pop

\* The call of a generate_* function.
LEMMA PushFacts ==
  ASSUME frames \in Seq(Frame), NEW f \in Frame, Push(f)
  PROVE  /\ frames' \in Seq(Frame)
         /\ Len(frames') = Len(frames) + 1
         /\ frames'[Len(frames')] = f
         /\ \A k \in 1 .. Len(frames) : frames'[k] = frames[k]
BY DEF Push

\* The generate_* function on top goes on.
LEMMA ReplaceFacts ==
  ASSUME frames \in Seq(Frame), Len(frames) > 0, NEW f \in Frame, Replace(f)
  PROVE  /\ frames' \in Seq(Frame)
         /\ Len(frames') = Len(frames)
         /\ frames'[Len(frames)] = f
         /\ \A k \in 1 .. Len(frames) : k # Len(frames) => frames'[k] = frames[k]
BY DEF Replace

\* The frames the actions build are frames.
LEMMA FrameAtFacts ==
  ASSUME NEW s \in Stage, NEW b \in Block, NEW c \in Block, NEW d \in Block, NEW e \in Block
  PROVE  /\ FrameAt(s) \in Frame /\ FrameAt(s).at = s
         /\ [FrameAt(s) EXCEPT !.false_block = b] \in Frame
         /\ [FrameAt(s) EXCEPT !.end_block = b] \in Frame
         /\ [FrameAt(s) EXCEPT !.condition_block = c, !.loop_block = d, !.end_block = e] \in Frame
         /\ [FrameAt(s) EXCEPT !.condition_block = b, !.loop_block = c, !.update_block = d, !.end_block = e] \in Frame
BY DEF FrameAt, Frame, BlockOrNone

\* What a function still holds at each stage.
LEMMA PendingFacts ==
  ASSUME NEW f \in Frame
  PROVE  /\ f.at \in {"right", "if_block"} => Pending(f) = {f.false_block}
         /\ f.at \in {"else_block", "while_body", "update"} => Pending(f) = {f.end_block}
         /\ f.at = "while_condition" => Pending(f) = {f.loop_block, f.end_block}
         /\ f.at = "for_condition" => Pending(f) = {f.loop_block, f.update_block, f.end_block}
         /\ f.at = "for_body" => Pending(f) = {f.update_block, f.end_block}
         /\ f.at \in {"block", "index", "source", "argument", "return_value",
                      "if_condition", "left", "initial"} => Pending(f) = {}
BY DEF Pending

\* Ending a block keeps the fall-through rule when a branch's true_block is next.
LEMMA EndBlockFallsThrough ==
  ASSUME TypeOK, NoBlockTwice, BranchFallsThrough, current_block \in Block,
         NEW t \in Terminal, NEW b \in Block,
         terminal' = [terminal EXCEPT ![current_block] = t],
         layout' = Append(layout, current_block),
         t.type = "branch" => t.true_block = current_block'
  PROVE  BranchFallsThrough'
<1>1. \A i \in 1 .. Len(layout) : terminal'[layout[i]] = terminal[layout[i]]
  BY SMTT(30) DEF TypeOK, NoBlockTwice
<1>2. /\ Len(layout') = Len(layout) + 1
      /\ layout'[Len(layout) + 1] = current_block
      /\ \A i \in 1 .. Len(layout) : layout'[i] = layout[i]
      /\ Len(layout) \in Nat
  BY DEF TypeOK
<1>3. terminal'[current_block] = t
  BY DEF TypeOK
<1>. QED
  BY <1>1, <1>2, <1>3 DEF BranchFallsThrough

-----------------------------------------------------------------------------
(* One block is ended and block b becomes current.                           *)

\* The frames below the one on top stay.  The frames from the top on hold, each
\* for itself, what the top held and what was just allocated, less b.
TopStep(b, fresh) ==
  /\ frames' \in Seq(Frame)
  /\ Len(frames') \in Len(frames) - 1 .. Len(frames) + 1
  /\ \A k \in 1 .. Len(frames) - 1 : frames'[k] = frames[k]
  /\ \A c \in Block : c \in (Pending(Top) \cup fresh) \ {b}
       <=> \E k \in Len(frames) .. Len(frames') : c \in Pending(frames'[k])
  /\ \A k \in Len(frames) .. Len(frames') : Pending(frames'[k]) \subseteq Block
  /\ \A k, l \in Len(frames) .. Len(frames') :
       \A c \in Pending(frames'[k]) : c \in Pending(frames'[l]) => k = l

\* The pending blocks after such a step.
LEMMA PendingAfter ==
  ASSUME frames \in Seq(Frame), Len(frames) > 0, NEW b \in Block, NEW fresh,
         TopStep(b, fresh),
         \A k \in 1 .. Len(frames) - 1 : b \notin Pending(frames[k]),
         NEW c \in Block
  PROVE  IsPending(c)' <=> (IsPending(c) \/ c \in fresh) /\ c # b
<1>. DEFINE n == Len(frames)
            below == \E k \in 1 .. n - 1 : c \in Pending(frames[k])
            atTop == c \in (Pending(Top) \cup fresh) \ {b}
<1>1. n \in Nat \ {0} /\ Len(frames') \in Nat /\ Len(frames') >= n - 1 /\ frames[n] = Top
  BY DEF Top, TopStep
<1>2. (\E k \in 1 .. Len(frames') : c \in Pending(frames'[k])) => below \/ atTop
  <2>. SUFFICES ASSUME NEW k \in 1 .. Len(frames'), c \in Pending(frames'[k])
                PROVE  below \/ atTop
    OBVIOUS
  <2>1. CASE k < n
    BY <1>1, <2>1 DEF TopStep
  <2>2. CASE k \in n .. Len(frames')
    BY <2>2 DEF TopStep
  <2>. QED
    BY <1>1, <2>1, <2>2
<1>3. below => \E k \in 1 .. Len(frames') : c \in Pending(frames'[k])
  BY <1>1 DEF TopStep
<1>4. atTop => \E k \in 1 .. Len(frames') : c \in Pending(frames'[k])
  BY <1>1 DEF TopStep
<1>5. (\E k \in 1 .. n : c \in Pending(frames[k])) <=> below \/ c \in Pending(Top)
  BY <1>1
<1>6. below => c # b
  OBVIOUS
<1>7. IsPending(c)' <=> below \/ atTop
  BY <1>2, <1>3, <1>4 DEF IsPending
<1>8. IsPending(c) <=> below \/ c \in Pending(Top)
  BY <1>5 DEF IsPending
<1>. QED
  BY <1>6, <1>7, <1>8

\* No block is held by two frames.
Unshared ==
  \A k, l \in 1 .. Len(frames) :
    \A b \in Pending(frames[k]) : b \in Pending(frames[l]) => k = l

\* Such a step makes no two frames hold one block.
LEMMA UnsharedAfter ==
  ASSUME frames \in Seq(Frame), Len(frames) > 0, NEW b \in Block, NEW fresh,
         TopStep(b, fresh), Unshared,
         \A k \in 1 .. Len(frames) : Pending(frames[k]) \subseteq Block,
         \A k \in 1 .. Len(frames) : \A c \in Pending(frames[k]) : c \notin fresh
  PROVE  Unshared'
<1>. DEFINE n == Len(frames)
<1>1. n \in Nat \ {0} /\ Len(frames') \in Nat /\ Len(frames') >= n - 1 /\ frames[n] = Top
  BY DEF Top, TopStep
\* A block of a frame below the top is in no frame from the top on.
<1>2. ASSUME NEW k \in 1 .. n - 1, NEW l \in n .. Len(frames'),
             NEW c \in Pending(frames[k]), c \in Pending(frames'[l])
      PROVE  FALSE
  <2>1. k \in 1 .. n /\ n \in 1 .. n /\ k # n
    BY <1>1
  <2>2. c \in Block /\ c \notin fresh
    BY <2>1, <1>2
  <2>3. c \in Pending(frames[n])
    BY <1>1, <1>2, <2>2 DEF TopStep
  <2>. QED
    BY <1>2, <2>1, <2>3 DEF Unshared
<1>. SUFFICES ASSUME NEW k \in 1 .. Len(frames'), NEW l \in 1 .. Len(frames'),
                     NEW c \in Pending(frames'[k]), c \in Pending(frames'[l])
              PROVE  k = l
  BY DEF Unshared
<1>3. CASE k < n /\ l < n
  <2>1. k \in 1 .. n /\ l \in 1 .. n /\ frames'[k] = frames[k] /\ frames'[l] = frames[l]
    BY <1>1, <1>3 DEF TopStep
  <2>. QED
    BY <2>1 DEF Unshared
<1>4. CASE k < n /\ l >= n
  <2>1. k \in 1 .. n - 1 /\ l \in n .. Len(frames') /\ frames'[k] = frames[k]
    BY <1>1, <1>4 DEF TopStep
  <2>. QED
    BY <1>2, <2>1
<1>5. CASE k >= n /\ l < n
  <2>1. l \in 1 .. n - 1 /\ k \in n .. Len(frames') /\ frames'[l] = frames[l]
    BY <1>1, <1>5 DEF TopStep
  <2>. QED
    BY <1>2, <2>1
<1>6. CASE k >= n /\ l >= n
  <2>1. k \in n .. Len(frames') /\ l \in n .. Len(frames')
    BY <1>1, <1>6
  <2>. QED
    BY <2>1 DEF TopStep
<1>. QED
  BY <1>1, <1>3, <1>4, <1>5, <1>6

\* Where every block is, as one invariant.
Placement == PendingAreBlocks /\ NoBlockTwice /\ NoBlockLost

\* Ending a block with b next keeps every block in exactly one place.
LEMMA EndBlockPlacement ==
  ASSUME TypeOK, Placement, current_block \in Block, Len(frames) > 0,
         NEW b \in Block, NEW fresh,
         layout' = Append(layout, current_block), current_block' = b,
         block_counter' \in block_counter .. MaxBlocks,
         \A c \in Block : c \in fresh <=> block_counter =< c /\ c < block_counter',
         b \in Pending(Top) \cup fresh,
         TopStep(b, fresh)
  PROVE  Placement'
<1>. DEFINE n == Len(frames)
<1>1. n \in Nat \ {0} /\ Len(frames') \in Nat /\ frames[n] = Top /\ frames \in Seq(Frame)
  BY DEF TypeOK, Top, TopStep
<1>2. /\ Len(layout') = Len(layout) + 1
      /\ layout'[Len(layout) + 1] = current_block
      /\ \A i \in 1 .. Len(layout) : layout'[i] = layout[i] /\ layout[i] \in Block
      /\ Len(layout) \in Nat
  BY DEF TypeOK
<1>3. \A c \in Block : IsPlaced(c)' <=> IsPlaced(c) \/ c = current_block
  <2>1. Len(layout) + 1 \in 1 .. Len(layout')
    BY <1>2
  <2>. QED
    BY <1>2, <2>1 DEF IsPlaced
<1>4. \A c \in Block : /\ c \in Int
                       /\ c \in fresh <=> block_counter =< c /\ c < block_counter'
                       /\ c < block_counter => c < block_counter'
  BY BoundsAssumption DEF BoundsAssumption, TypeOK, Block
<1>5. \A c \in Block : c < block_counter <=> c \notin fresh /\ c < block_counter'
  BY <1>4 DEF TypeOK
<1>6. \A c \in Block : IsPending(c) => c < block_counter /\ c \notin fresh
  BY <1>5 DEF Placement, NoBlockLost
<1>7. \A k \in 1 .. n : \A c \in Pending(frames[k]) : c \notin fresh
  BY <1>6 DEF Placement, PendingAreBlocks, IsPending
<1>8. Unshared
  BY DEF Placement, NoBlockTwice, Unshared
<1>9. Unshared'
  BY <1>1, <1>7, <1>8, UnsharedAfter DEF Placement, PendingAreBlocks
\* b is held by the top frame alone, or by none.
<1>10. \A k \in 1 .. n - 1 : b \notin Pending(frames[k])
  <2>1. CASE b \in fresh
    BY <1>1, <1>7, <2>1
  <2>2. CASE b \in Pending(Top)
    <3>. SUFFICES ASSUME NEW k \in 1 .. n - 1, b \in Pending(frames[k]) PROVE FALSE
      OBVIOUS
    <3>1. k \in 1 .. n /\ n \in 1 .. n /\ k # n /\ b \in Pending(frames[n])
      BY <1>1, <2>2
    <3>. QED
      BY <1>8, <3>1 DEF Unshared
  <2>. QED
    BY <2>1, <2>2
<1>11. \A c \in Block : IsPending(c)' <=> (IsPending(c) \/ c \in fresh) /\ c # b
  BY <1>1, <1>10, PendingAfter
<1>12. IsPending(b) \/ b \in fresh
  BY <1>1 DEF IsPending
<1>13. ~ IsPlaced(b) /\ b # current_block
  <2>1. CASE b \in fresh
    BY <1>5, <2>1 DEF Placement, NoBlockLost
  <2>2. CASE IsPending(b)
    BY <2>2 DEF Placement, NoBlockTwice, IsPlaced
  <2>. QED
    BY <1>12, <2>1, <2>2
<1>14. PendingAreBlocks'
  <2>. SUFFICES ASSUME NEW k \in 1 .. Len(frames') PROVE Pending(frames'[k]) \subseteq Block
    BY DEF PendingAreBlocks
  <2>1. CASE k < n
    BY <1>1, <2>1, SMTT(30) DEF TopStep, Placement, PendingAreBlocks
  <2>2. CASE k >= n
    BY <1>1, <2>2, SMTT(30) DEF TopStep
  <2>. QED
    BY <1>1, <2>1, <2>2
<1>15. NoBlockLost'
  <2>. SUFFICES ASSUME NEW c \in Block
       PROVE  c < block_counter' <=> IsPlaced(c)' \/ c = b \/ IsPending(c)'
    BY DEF NoBlockLost
  <2>1. c < block_counter <=> IsPlaced(c) \/ c = current_block \/ IsPending(c)
    BY DEF Placement, NoBlockLost
  <2>2. c < block_counter' <=> c < block_counter \/ c \in fresh
    BY <1>4 DEF TypeOK
  <2>3. c = b => c < block_counter'
    BY <1>12, <1>4, <1>6
  <2>. QED
    BY <1>3, <1>11, <2>1, <2>2, <2>3
<1>16. NoBlockTwice'
  <2>1. \A i, j \in 1 .. Len(layout') : layout'[i] = layout'[j] => i = j
    BY <1>2 DEF Placement, NoBlockTwice
  <2>2. \A k, l \in 1 .. Len(frames') :
          \A c \in Pending(frames'[k]) : c \in Pending(frames'[l]) => k = l
    BY <1>9 DEF Unshared
  <2>3. ASSUME NEW i \in 1 .. Len(layout'), NEW c \in Block, c = layout'[i]
        PROVE  c # b /\ ~ IsPending(c)'
    <3>1. IsPlaced(c) \/ c = current_block
      BY <1>2, <2>3 DEF IsPlaced
    <3>2. ~ IsPending(c)
      BY <1>2, <2>3 DEF Placement, NoBlockTwice
    <3>3. c \notin fresh
      BY <1>5, <3>1 DEF Placement, NoBlockLost
    <3>. QED
      BY <1>11, <1>13, <3>1, <3>2, <3>3
  <2>4. \A i \in 1 .. Len(layout') :
          layout'[i] # b /\ ~ \E k \in 1 .. Len(frames') : layout'[i] \in Pending(frames'[k])
    <3>1. \A i \in 1 .. Len(layout') : layout'[i] \in Block
      BY <1>2
    <3>. QED
      BY <2>3, <3>1 DEF IsPending
  <2>5. ~ \E k \in 1 .. Len(frames') : b \in Pending(frames'[k])
    BY <1>11 DEF IsPending
  <2>. QED
    BY <2>1, <2>2, <2>4, <2>5 DEF NoBlockTwice, IsPending
<1>. QED
  BY <1>14, <1>15, <1>16 DEF Placement

\* A branch has a true block, so none is the last block of a finished method.
BranchesHaveTargets ==
  \A b \in Block : terminal[b].type = "branch" => terminal[b].true_block \in Block

\* What every action but those of the loops' stacks has to keep.
Core ==
  /\ block_counter \in 0 .. MaxBlocks
  /\ current_block \in BlockOrNone
  /\ layout \in Seq(Block)
  /\ methods \in Seq(Nat)
  /\ terminal \in [Block -> Terminal]
  /\ predecessors \in [Block -> Seq(Block)]
  /\ frames \in Seq(Frame)
  /\ Shape
  /\ Placement
  /\ BranchesHaveTargets
  /\ BranchFallsThrough

\* Ending a block with b next keeps the core, if the frames are those of TopStep.
LEMMA EndBlockCore ==
  ASSUME TypeOK, Core, Len(frames) > 0,
         NEW t \in Terminal, NEW b \in Block, NEW fresh, EndBlock(t, b),
         t.type = "branch" => t.true_block = b,
         block_counter' \in block_counter .. MaxBlocks,
         \A c \in Block : c \in fresh <=> block_counter =< c /\ c < block_counter',
         b \in Pending(Top) \cup fresh,
         TopStep(b, fresh),
         Len(frames') > 0,
         \A k \in Len(frames) .. Len(frames') :
           FrameShape(frames'[k]) /\ (frames'[k].at = "block" <=> k = 1)
  PROVE  Core'
<1>1. current_block \in Block
  BY DEF Core, Shape, BlockOrNone
<1>2. Placement'
  BY <1>1, EndBlockPlacement DEF Core, EndBlock
<1>3. BranchFallsThrough'
  BY <1>1, EndBlockFallsThrough DEF Core, Placement, EndBlock
<1>4. Shape'
  <2>1. frames' # <<>> /\ current_block' # NoBlock
    BY DEF EndBlock, Block, NoBlock, TopStep
  <2>2. ASSUME NEW k \in 1 .. Len(frames')
        PROVE  FrameShape(frames'[k]) /\ (frames'[k].at = "block" <=> k = 1)
    <3>0. Len(frames) \in Nat /\ Len(frames') \in Nat
      BY DEF Core, TopStep
    <3>1. CASE k < Len(frames)
      <4>1. k \in 1 .. Len(frames) - 1 /\ k \in 1 .. Len(frames)
        BY <3>0, <3>1
      <4>2. frames'[k] = frames[k]
        BY <4>1 DEF TopStep
      <4>. QED
        BY <4>1, <4>2 DEF Core, Shape
    <3>2. CASE k >= Len(frames)
      <4>1. k \in Len(frames) .. Len(frames')
        BY <3>0, <3>2
      <4>. QED
        BY <4>1
    <3>. QED
      BY <3>0, <3>1, <3>2
  <2>. QED
    BY <2>1, <2>2 DEF Shape
<1>5. layout' \in Seq(Block) /\ methods' \in Seq(Nat) /\ terminal' \in [Block -> Terminal]
  BY <1>1 DEF Core, EndBlock
<1>6. predecessors' \in [Block -> Seq(Block)]
  BY <1>1 DEF Core, EndBlock, AddPredecessor
<1>7. BranchesHaveTargets'
  BY <1>1 DEF Core, BranchesHaveTargets, EndBlock
<1>. QED
  BY <1>2, <1>3, <1>4, <1>5, <1>6, <1>7 DEF Core, EndBlock, BlockOrNone, TopStep

-----------------------------------------------------------------------------
(* The steps that end no block: the stack of calls grows or shrinks by       *)
(* frames that hold no block.                                                *)

\* Frames that hold no block come and go without disturbing the core.
LEMMA BlocksUnchangedCore ==
  ASSUME Core, BlocksUnchanged, Len(frames) > 0, Len(frames') > 0,
         frames' \in Seq(Frame),
         \A k \in 1 .. Len(frames') : k =< Len(frames) => frames'[k] = frames[k],
         \A k \in 1 .. Len(frames') : k > Len(frames) =>
           Pending(frames'[k]) = {} /\ FrameShape(frames'[k]) /\ frames'[k].at # "block",
         \A k \in 1 .. Len(frames) : k > Len(frames') => Pending(frames[k]) = {}
  PROVE  Core'
<1>0. Len(frames) \in Nat /\ Len(frames') \in Nat /\ frames \in Seq(Frame)
  BY DEF Core
\* Only frames of both stacks hold blocks.
<1>1. ASSUME NEW k \in 1 .. Len(frames'), NEW c \in Pending(frames'[k])
      PROVE  k \in 1 .. Len(frames) /\ frames'[k] = frames[k]
  <2>1. k > Len(frames) => Pending(frames'[k]) = {}
    OBVIOUS
  <2>2. k =< Len(frames)
    BY <1>0, <2>1
  <2>. QED
    BY <1>0, <2>2
<1>2. ASSUME NEW k \in 1 .. Len(frames), NEW c \in Pending(frames[k])
      PROVE  k \in 1 .. Len(frames') /\ frames'[k] = frames[k]
  <2>1. k =< Len(frames')
    BY <1>0
  <2>. QED
    BY <1>0, <2>1
<1>3. \A c : (\E k \in 1 .. Len(frames') : c \in Pending(frames'[k]))
               <=> (\E k \in 1 .. Len(frames) : c \in Pending(frames[k]))
  <2>1. ASSUME NEW c, NEW k \in 1 .. Len(frames'), c \in Pending(frames'[k])
        PROVE  \E l \in 1 .. Len(frames) : c \in Pending(frames[l])
    BY <1>1, <2>1
  <2>2. ASSUME NEW c, NEW k \in 1 .. Len(frames), c \in Pending(frames[k])
        PROVE  \E l \in 1 .. Len(frames') : c \in Pending(frames'[l])
    BY <1>2, <2>2
  <2>. QED
    BY <2>1, <2>2
<1>4. \A k, l \in 1 .. Len(frames') :
        \A c \in Pending(frames'[k]) : c \in Pending(frames'[l]) => k = l
  <2>1. Unshared
    BY DEF Core, Placement, NoBlockTwice, Unshared
  <2>. QED
    BY <1>1, <2>1 DEF Unshared
<1>5. Placement'
  <2>1. PendingAreBlocks'
    <3>1. PendingAreBlocks
      BY DEF Core, Placement
    <3>2. ASSUME NEW k \in 1 .. Len(frames'), NEW c \in Pending(frames'[k]) PROVE c \in Block
      BY <1>1, <3>1 DEF PendingAreBlocks
    <3>. QED
      BY <3>2 DEF PendingAreBlocks
  <2>2. NoBlockTwice'
    BY <1>3, <1>4 DEF Core, Placement, NoBlockTwice, IsPending, BlocksUnchanged
  <2>3. NoBlockLost'
    BY <1>3 DEF Core, Placement, NoBlockLost, IsPending, IsPlaced, BlocksUnchanged
  <2>. QED
    BY <2>1, <2>2, <2>3 DEF Placement
<1>6. Shape'
  <2>1. frames # <<>> /\ frames' # <<>>
    BY <1>0
  <2>2. ASSUME NEW k \in 1 .. Len(frames')
        PROVE  FrameShape(frames'[k]) /\ (frames'[k].at = "block" <=> k = 1)
    <3>1. CASE k =< Len(frames)
      <4>1. k \in 1 .. Len(frames) /\ frames'[k] = frames[k]
        BY <1>0, <3>1
      <4>. QED
        BY <4>1 DEF Core, Shape
    <3>2. CASE k > Len(frames)
      BY <1>0, <3>2
    <3>. QED
      BY <1>0, <3>1, <3>2
  <2>. QED
    BY <2>1, <2>2 DEF Core, Shape, BlocksUnchanged
<1>. QED
  BY <1>5, <1>6 DEF Core, BlocksUnchanged, BranchFallsThrough, BranchesHaveTargets

-----------------------------------------------------------------------------
(* What the actions share.                                                   *)

\* The running function and its block.
LEMMA TopFacts ==
  ASSUME Core, Len(frames) > 0
  PROVE  /\ Len(frames) \in Nat \ {0} /\ frames \in Seq(Frame)
         /\ Len(frames) \in 1 .. Len(frames)
         /\ Top = frames[Len(frames)] /\ Top \in Frame
         /\ Pending(Top) \subseteq Block
         /\ FrameShape(Top)
         /\ Top.at = "block" <=> Len(frames) = 1
         /\ current_block \in Block
<1>1. /\ Len(frames) \in Nat \ {0} /\ frames \in Seq(Frame)
      /\ Len(frames) \in 1 .. Len(frames)
      /\ Top = frames[Len(frames)] /\ Top \in Frame
  BY DEF Core, Top
<1>2. frames # <<>>
  BY <1>1
<1>. QED
  BY <1>1, <1>2 DEF Core, Shape, Placement, PendingAreBlocks, BlockOrNone

\* The blocks an action that calls new_block n times allocates.
Fresh(n) == {c \in Block : block_counter =< c /\ c < block_counter + n}

\* What n calls of new_block return.
LEMMA FreshFacts ==
  ASSUME Core, NEW n \in Nat, Allocate(n)
  PROVE  /\ block_counter' \in block_counter .. MaxBlocks
         /\ block_counter' \in 0 .. MaxBlocks
         /\ \A c \in Block : c \in Fresh(n) <=> block_counter =< c /\ c < block_counter'
         /\ \A i \in 0 .. n - 1 : NewBlock(i) \in Block /\ NewBlock(i) \in Fresh(n)
         /\ \A c \in Fresh(n) : \E i \in 0 .. n - 1 : c = NewBlock(i)
         /\ \A i, j \in 0 .. n - 1 : NewBlock(i) = NewBlock(j) => i = j
<1>1. /\ block_counter \in Nat /\ MaxBlocks \in Nat /\ block_counter' = block_counter + n
      /\ block_counter + n =< MaxBlocks
  BY BoundsAssumption DEF BoundsAssumption, Core, Allocate, CanAllocate
<1>2. \A c : c \in Block <=> c \in Int /\ 0 =< c /\ c < MaxBlocks
  BY <1>1 DEF Block
<1>3. \A c \in Fresh(n) : c = NewBlock(c - block_counter) /\ c - block_counter \in 0 .. n - 1
  BY <1>1, <1>2 DEF Fresh, NewBlock
<1>. QED
  BY <1>1, <1>2, <1>3 DEF Fresh, NewBlock

\* No pending block is fresh.
LEMMA PendingIsNotFresh ==
  ASSUME Core, NEW n \in Nat, NEW k \in 1 .. Len(frames), NEW c \in Pending(frames[k])
  PROVE  c \notin Fresh(n)
<1>1. c \in Block /\ IsPending(c)
  BY DEF Core, Placement, PendingAreBlocks, IsPending
<1>2. c < block_counter
  BY <1>1 DEF Core, Placement, NoBlockLost
<1>3. c \in Int /\ block_counter \in Int
  BY <1>1, BoundsAssumption DEF BoundsAssumption, Core, Block
<1>. QED
  BY <1>2, <1>3 DEF Fresh

\* The constructors return terminals of their type.
LEMMA TerminalFacts ==
  ASSUME NEW b \in BlockOrNone, NEW c \in BlockOrNone
  PROVE  /\ Jump(b) \in Terminal /\ Jump(b).type = "jump"
         /\ Branch(b, c) \in Terminal /\ Branch(b, c).type = "branch"
         /\ Branch(b, c).true_block = b
         /\ Return \in Terminal /\ Return.type = "return"
         /\ ShitYourself \in Terminal /\ ShitYourself.type = "shit_yourself"
BY DEF Jump, Branch, Return, ShitYourself, Unset, Terminal, TerminalType, BlockOrNone, NoBlock

\* A function that holds no block but the one control goes on in returns.
LEMMA PopCore ==
  ASSUME TypeOK, Core, Len(frames) > 0, Top.at # "block",
         NEW t \in Terminal, t.type # "branch", NEW b \in Block, NEW n \in Nat,
         Allocate(n), EndBlock(t, b), Pop,
         \A c \in Block : c \in Pending(Top) \cup Fresh(n) <=> c = b
  PROVE  Core'
<1>1. /\ Len(frames) \in Nat \ {0} /\ Len(frames) # 1 /\ frames \in Seq(Frame)
  BY TopFacts
<1>2. /\ frames' \in Seq(Frame)
      /\ Len(frames') = Len(frames) - 1
      /\ \A k \in 1 .. Len(frames) - 1 : frames'[k] = frames[k]
  BY <1>1, PopFacts
<1>3. ~ \E k \in Len(frames) .. Len(frames') : TRUE
  BY <1>1, <1>2
<1>4. Len(frames') \in Len(frames) - 1 .. Len(frames) + 1 /\ Len(frames') > 0
  BY <1>1, <1>2
<1>5. TopStep(b, Fresh(n))
  BY <1>2, <1>3, <1>4 DEF TopStep
<1>6. b \in Pending(Top) \cup Fresh(n)
  OBVIOUS
<1>7. /\ block_counter' \in block_counter .. MaxBlocks
      /\ \A c \in Block : c \in Fresh(n) <=> block_counter =< c /\ c < block_counter'
  BY FreshFacts
<1>. QED
  BY <1>3, <1>4, <1>5, <1>6, <1>7, EndBlockCore

\* A function goes on, holding what it held and has just allocated.
LEMMA ReplaceCore ==
  ASSUME TypeOK, Core, Len(frames) > 0, NEW t \in Terminal, NEW b \in Block, NEW n \in Nat, NEW f \in Frame,
         t.type = "branch" => t.true_block = b,
         Allocate(n), EndBlock(t, b), Replace(f),
         f.at = "block" <=> Top.at = "block", FrameShape(f), Pending(f) \subseteq Block,
         b \in Pending(Top) \cup Fresh(n),
         \A c \in Block : c \in (Pending(Top) \cup Fresh(n)) \ {b} <=> c \in Pending(f)
  PROVE  Core'
<1>1. /\ Len(frames) \in Nat \ {0} /\ (Top.at = "block" <=> Len(frames) = 1) /\ frames \in Seq(Frame)
  BY TopFacts
<1>2. /\ frames' \in Seq(Frame)
      /\ Len(frames') = Len(frames)
      /\ frames'[Len(frames)] = f
      /\ \A k \in 1 .. Len(frames) : k # Len(frames) => frames'[k] = frames[k]
  BY <1>1, ReplaceFacts
<1>3. \A k : k \in Len(frames) .. Len(frames') <=> k = Len(frames)
  BY <1>1, <1>2
<1>4. Len(frames') \in Len(frames) - 1 .. Len(frames) + 1 /\ Len(frames') > 0
  BY <1>1, <1>2
<1>5. \A k \in 1 .. Len(frames) - 1 : frames'[k] = frames[k]
  BY <1>1, <1>2
<1>6. TopStep(b, Fresh(n))
  BY <1>2, <1>3, <1>4, <1>5 DEF TopStep
<1>7. /\ block_counter' \in block_counter .. MaxBlocks
      /\ \A c \in Block : c \in Fresh(n) <=> block_counter =< c /\ c < block_counter'
  BY FreshFacts
<1>8. \A k \in Len(frames) .. Len(frames') :
        FrameShape(frames'[k]) /\ (frames'[k].at = "block" <=> k = 1)
  BY <1>1, <1>2, <1>3
<1>. QED
  BY <1>4, <1>6, <1>7, <1>8, EndBlockCore

\* A function goes on as g and calls another one, which holds the rest.
LEMMA GrowCore ==
  ASSUME TypeOK, Core, Len(frames) > 0,
         NEW t \in Terminal, t.type # "branch", NEW b \in Block, NEW n \in Nat,
         NEW f \in Frame, NEW g \in Frame,
         Allocate(n), EndBlock(t, b),
         frames' = Append([frames EXCEPT ![Len(frames)] = g], f),
         g.at = "block" <=> Top.at = "block", f.at # "block",
         FrameShape(f), FrameShape(g),
         Pending(f) \subseteq Block, Pending(g) \subseteq Block,
         \A c \in Pending(f) : c \notin Pending(g),
         b \in Pending(Top) \cup Fresh(n),
         \A c \in Block : c \in (Pending(Top) \cup Fresh(n)) \ {b}
                            <=> c \in Pending(f) \/ c \in Pending(g)
  PROVE  Core'
<1>. DEFINE m == Len(frames)
<1>1. /\ m \in Nat \ {0} /\ (Top.at = "block" <=> m = 1) /\ frames \in Seq(Frame)
  BY TopFacts
<1>2. /\ frames' \in Seq(Frame)
      /\ Len(frames') = m + 1
      /\ frames'[m] = g /\ frames'[m + 1] = f
      /\ \A k \in 1 .. m - 1 : frames'[k] = frames[k]
  BY <1>1
<1>3. \A k : k \in m .. Len(frames') <=> k = m \/ k = m + 1
  BY <1>1, <1>2
<1>4. Len(frames') \in m - 1 .. m + 1 /\ Len(frames') > 0 /\ m # m + 1 /\ m + 1 # 1
  BY <1>1, <1>2
<1>5. \A c \in Block : c \in (Pending(Top) \cup Fresh(n)) \ {b}
        <=> \E k \in m .. Len(frames') : c \in Pending(frames'[k])
  BY <1>2, <1>3
<1>6. \A k, l \in m .. Len(frames') :
        \A c \in Pending(frames'[k]) : c \in Pending(frames'[l]) => k = l
  BY <1>2, <1>3
<1>7. \A k \in m .. Len(frames') : Pending(frames'[k]) \subseteq Block
  BY <1>2, <1>3
<1>8. TopStep(b, Fresh(n))
  BY <1>2, <1>4, <1>5, <1>6, <1>7 DEF TopStep
<1>9. /\ block_counter' \in block_counter .. MaxBlocks
      /\ \A c \in Block : c \in Fresh(n) <=> block_counter =< c /\ c < block_counter'
  BY FreshFacts
<1>10. \A k \in m .. Len(frames') :
         FrameShape(frames'[k]) /\ (frames'[k].at = "block" <=> k = 1)
  BY <1>1, <1>2, <1>3, <1>4
<1>. QED
  BY <1>4, <1>8, <1>9, <1>10, EndBlockCore

-----------------------------------------------------------------------------
(* Each action keeps the core.                                               *)

\* The ends of constructs: control goes on in the block the function still held.
LEMMA ReturningCore ==
  ASSUME TypeOK, Core, EndIf \/ EndShortCircuit \/ EndElse \/ EndWhile \/ EndFor
  PROVE  Core'
<1>1. /\ Len(frames) > 0 /\ Allocate(0) /\ Pop
      /\ Top.at \in {"if_block", "right", "else_block", "while_body", "update"}
  BY DEF EndIf, EndShortCircuit, EndElse, EndWhile, EndFor, At
<1>2. /\ Top \in Frame /\ Pending(Top) \subseteq Block
  BY <1>1, TopFacts
<1>3. \A c \in Block : c \notin Fresh(0)
  BY <1>1, FreshFacts
<1>4. ASSUME NEW b \in Block, NEW t \in Terminal, t.type # "branch", EndBlock(t, b), Pending(Top) = {b}
      PROVE  Core'
  <2>1. \A c \in Block : c \in Pending(Top) \cup Fresh(0) <=> c = b
    BY <1>3, <1>4
  <2>2. Top.at # "block"
    BY <1>1
  <2>. QED
    BY <1>1, <1>4, <2>1, <2>2, PopCore
<1>5. CASE EndIf \/ EndShortCircuit
  <2>1. EndBlock(Jump(Top.false_block), Top.false_block) /\ Top.at \in {"right", "if_block"}
    BY <1>5 DEF EndIf, EndShortCircuit, At
  <2>2. Pending(Top) = {Top.false_block}
    BY <1>2, <2>1, PendingFacts
  <2>. QED
    BY <1>2, <1>4, <2>1, <2>2, TerminalFacts DEF BlockOrNone
<1>6. CASE EndElse
  <2>1. EndBlock(Jump(Top.end_block), Top.end_block) /\ Top.at = "else_block"
    BY <1>6 DEF EndElse, At
  <2>2. Pending(Top) = {Top.end_block}
    BY <1>2, <2>1, PendingFacts
  <2>. QED
    BY <1>2, <1>4, <2>1, <2>2, TerminalFacts DEF BlockOrNone
<1>7. CASE EndWhile \/ EndFor
  <2>1. EndBlock(Jump(Top.condition_block), Top.end_block) /\ Top.at \in {"while_body", "update"}
    BY <1>7 DEF EndWhile, EndFor, At
  <2>2. Pending(Top) = {Top.end_block}
    BY <1>2, <2>1, PendingFacts
  <2>3. Top.condition_block \in BlockOrNone
    BY <1>2 DEF Frame
  <2>. QED
    BY <1>2, <1>4, <2>1, <2>2, <2>3, TerminalFacts DEF BlockOrNone
<1>. QED
  BY <1>5, <1>6, <1>7

\* Two calls of new_block return two different blocks.
LEMMA TwoFresh ==
  ASSUME Core, Allocate(2)
  PROVE  /\ NewBlock(0) \in Block /\ NewBlock(1) \in Block
         /\ \A c \in Block : c \in Fresh(2) <=> c = NewBlock(0) \/ c = NewBlock(1)
         /\ NewBlock(0) # NewBlock(1)
<1>1. \A i : i \in 0 .. 2 - 1 <=> i = 0 \/ i = 1
  OBVIOUS
<1>. QED
  BY <1>1, FreshFacts

\* The conditions of an if and of a short circuit: control goes on in true_block.
LEMMA IfBranchCore ==
  ASSUME TypeOK, Core, IfBranch \/ ShortCircuitBranch
  PROVE  Core'
<1>. DEFINE at == IF Top.at = "if_condition" THEN "if_block" ELSE "right"
            f == [FrameAt(at) EXCEPT !.false_block = NewBlock(1)]
<1>1. /\ Len(frames) > 0 /\ Allocate(2) /\ Top.at \in {"if_condition", "left"}
      /\ EndBlock(Branch(NewBlock(0), NewBlock(1)), NewBlock(0)) /\ Replace(f)
  BY DEF IfBranch, ShortCircuitBranch, At
<1>2. Top \in Frame /\ Pending(Top) = {}
  BY <1>1, TopFacts, PendingFacts
<1>3. /\ NewBlock(0) \in Block /\ NewBlock(1) \in Block
      /\ \A c \in Block : c \in Fresh(2) <=> c = NewBlock(0) \/ c = NewBlock(1)
      /\ NewBlock(0) # NewBlock(1)
  BY <1>1, TwoFresh
<1>4. at \in Stage /\ at \in {"if_block", "right"}
  BY DEF Stage
<1>5. f \in Frame /\ f.at = at /\ f.false_block = NewBlock(1)
  BY <1>3, <1>4, FrameAtFacts DEF FrameAt
<1>6. Pending(f) = {NewBlock(1)}
  BY <1>4, <1>5, PendingFacts
<1>7. FrameShape(f)
  BY <1>4, <1>5 DEF FrameShape
<1>8. /\ Branch(NewBlock(0), NewBlock(1)) \in Terminal
      /\ Branch(NewBlock(0), NewBlock(1)).true_block = NewBlock(0)
  BY <1>3, TerminalFacts DEF BlockOrNone
<1>9. f.at = "block" <=> Top.at = "block"
  BY <1>1, <1>4, <1>5
<1>. HIDE DEF f, at
<1>. QED
  BY <1>1, <1>2, <1>3, <1>5, <1>6, <1>7, <1>8, <1>9, ReplaceCore

\* generate_if_statement goes on to its else part.
LEMMA ElseCore ==
  ASSUME TypeOK, Core, Else
  PROVE  Core'
<1>. DEFINE f == [FrameAt("else_block") EXCEPT !.end_block = NewBlock(0)]
<1>1. /\ Len(frames) > 0 /\ Allocate(1) /\ Top.at = "if_block"
      /\ EndBlock(Jump(NewBlock(0)), Top.false_block) /\ Replace(f)
  BY DEF Else, At
<1>2. /\ Top \in Frame /\ Pending(Top) = {Top.false_block} /\ Pending(Top) \subseteq Block
      /\ Len(frames) \in 1 .. Len(frames) /\ Top = frames[Len(frames)]
  BY <1>1, TopFacts, PendingFacts
<1>3. /\ NewBlock(0) \in Block
      /\ \A c \in Block : c \in Fresh(1) <=> c = NewBlock(0)
  <2>1. \A i : i \in 0 .. 1 - 1 <=> i = 0
    OBVIOUS
  <2>. QED
    BY <1>1, <2>1, FreshFacts
<1>4. Top.false_block \in Block /\ Top.false_block # NewBlock(0)
  BY <1>2, <1>3, PendingIsNotFresh
<1>5. f \in Frame /\ f.at = "else_block" /\ f.end_block = NewBlock(0)
  BY <1>3, FrameAtFacts DEF FrameAt, Stage
<1>6. Pending(f) = {NewBlock(0)} /\ FrameShape(f)
  BY <1>5, PendingFacts DEF FrameShape
<1>7. Jump(NewBlock(0)) \in Terminal /\ Jump(NewBlock(0)).type # "branch"
  BY <1>3, TerminalFacts DEF BlockOrNone
<1>8. f.at = "block" <=> Top.at = "block"
  BY <1>1, <1>5
<1>9. \A c \in Block : c \in (Pending(Top) \cup Fresh(1)) \ {Top.false_block} <=> c \in Pending(f)
  BY <1>2, <1>3, <1>4, <1>6
<1>. HIDE DEF f
<1>. QED
  BY <1>1, <1>2, <1>3, <1>4, <1>5, <1>6, <1>7, <1>8, <1>9, ReplaceCore

\* The condition of a loop: control goes on in its body.
LEMMA LoopBranchCore ==
  ASSUME TypeOK, Core, WhileBranch \/ ForBranch
  PROVE  Core'
<1>. DEFINE at == IF Top.at = "while_condition" THEN "while_body" ELSE "for_body"
            f == [Top EXCEPT !.at = at]
<1>1. /\ Len(frames) > 0 /\ Allocate(0)
      /\ \/ Top.at = "while_condition" /\ at = "while_body"
         \/ Top.at = "for_condition" /\ at = "for_body"
      /\ EndBlock(Branch(Top.loop_block, Top.end_block), Top.loop_block) /\ Replace(f)
  BY DEF WhileBranch, ForBranch, At, Goto
<1>2. Top \in Frame /\ Pending(Top) \subseteq Block /\ FrameShape(Top)
  BY <1>1, TopFacts
<1>3. \A c \in Block : c \notin Fresh(0)
  BY <1>1, FreshFacts
<1>4. /\ f \in Frame /\ f.at = at /\ f.end_block = Top.end_block
      /\ f.update_block = Top.update_block
  BY <1>1, <1>2 DEF Frame, Stage
<1>5. /\ Top.loop_block \in Pending(Top) /\ Top.end_block \in Pending(Top)
      /\ Top.loop_block \in Block /\ Top.end_block \in Block
  BY <1>1, <1>2, PendingFacts
<1>6. FrameShape(f)
  BY <1>1, <1>2, <1>4 DEF FrameShape
<1>. HIDE DEF f, at
<1>7. \A c : c \in Pending(f) <=> c \in Pending(Top) /\ c # Top.loop_block
  <2>1. CASE Top.at = "while_condition"
    <3>1. /\ Pending(Top) = {Top.loop_block, Top.end_block}
          /\ Top.loop_block # Top.end_block
      BY <1>2, <2>1, PendingFacts DEF FrameShape
    <3>2. Pending(f) = {Top.end_block}
      BY <1>1, <1>4, <2>1, PendingFacts
    <3>. QED
      BY <3>1, <3>2
  <2>2. CASE Top.at = "for_condition"
    <3>1. /\ Pending(Top) = {Top.loop_block, Top.update_block, Top.end_block}
          /\ Top.loop_block # Top.update_block /\ Top.loop_block # Top.end_block
      BY <1>2, <2>2, PendingFacts DEF FrameShape
    <3>2. Pending(f) = {Top.update_block, Top.end_block}
      BY <1>1, <1>4, <2>2, PendingFacts
    <3>. QED
      BY <3>1, <3>2
  <2>. QED
    BY <1>1, <2>1, <2>2
<1>8. /\ Branch(Top.loop_block, Top.end_block) \in Terminal
      /\ Branch(Top.loop_block, Top.end_block).true_block = Top.loop_block
  BY <1>5, TerminalFacts DEF BlockOrNone
<1>9. /\ \A c \in Block : c \in (Pending(Top) \cup Fresh(0)) \ {Top.loop_block} <=> c \in Pending(f)
      /\ Pending(f) \subseteq Block /\ Top.loop_block \in Pending(Top) \cup Fresh(0)
      /\ f.at = "block" <=> Top.at = "block"
  BY <1>1, <1>2, <1>3, <1>4, <1>5, <1>7
<1>. QED
  BY <1>1, <1>4, <1>5, <1>6, <1>8, <1>9, ReplaceCore

\* Entering a loop: a while from any statement list, a for from its own frame.
LEMMA BeginWhileCore ==
  ASSUME TypeOK, Core, BeginWhile
  PROVE  Core'
<1>. DEFINE f == [FrameAt("while_condition") EXCEPT
                    !.condition_block = NewBlock(0),
                    !.loop_block = NewBlock(1), !.end_block = NewBlock(2)]
            g == Top
<1>1. /\ Len(frames) > 0 /\ Allocate(3)
      /\ EndBlock(Jump(NewBlock(0)), NewBlock(0)) /\ Push(f)
  BY DEF BeginWhile, AtStatement
<1>2. /\ Top \in Frame /\ Pending(Top) \subseteq Block /\ FrameShape(Top)
      /\ Len(frames) \in 1 .. Len(frames) /\ Top = frames[Len(frames)] /\ frames \in Seq(Frame)
  BY <1>1, TopFacts
<1>3. /\ NewBlock(0) \in Block /\ NewBlock(1) \in Block /\ NewBlock(2) \in Block
      /\ \A c \in Block : c \in Fresh(3) <=> c \in {NewBlock(0), NewBlock(1), NewBlock(2)}
      /\ NewBlock(0) # NewBlock(1) /\ NewBlock(0) # NewBlock(2) /\ NewBlock(1) # NewBlock(2)
  <2>1. \A i : i \in 0 .. 3 - 1 <=> i \in {0, 1, 2}
    OBVIOUS
  <2>. QED
    BY <1>1, <2>1, FreshFacts
<1>4. \A c \in Pending(Top) : c \notin Fresh(3)
  BY <1>2, PendingIsNotFresh
<1>5. /\ f \in Frame /\ f.at = "while_condition"
      /\ f.loop_block = NewBlock(1) /\ f.end_block = NewBlock(2)
  BY <1>3, FrameAtFacts, ZenonT(40) DEF FrameAt, Stage
<1>6. Pending(f) = {NewBlock(1), NewBlock(2)}
  BY <1>5, PendingFacts
<1>7. FrameShape(f)
  BY <1>3, <1>5 DEF FrameShape
<1>8. Jump(NewBlock(0)) \in Terminal /\ Jump(NewBlock(0)).type # "branch"
  BY <1>3, TerminalFacts DEF BlockOrNone
<1>9. frames' = Append([frames EXCEPT ![Len(frames)] = g], f)
  BY <1>1, <1>2 DEF Push
<1>10. /\ Pending(f) \subseteq Block /\ NewBlock(0) \in Pending(Top) \cup Fresh(3)
       /\ \A c \in Pending(f) : c \notin Pending(g)
       /\ \A c \in Block : c \in (Pending(Top) \cup Fresh(3)) \ {NewBlock(0)}
                             <=> c \in Pending(f) \/ c \in Pending(g)
       /\ f.at # "block" /\ Pending(g) \subseteq Block
       /\ g \in Frame /\ (g.at = "block" <=> Top.at = "block") /\ FrameShape(g)
  BY <1>2, <1>3, <1>4, <1>5, <1>6
<1>. HIDE DEF f, g
<1>. QED
  BY <1>1, <1>2, <1>3, <1>5, <1>7, <1>8, <1>9, <1>10, GrowCore

\* generate_for_statement allocates its four blocks after the initial assignment.
LEMMA EnterForCore ==
  ASSUME TypeOK, Core, EnterFor
  PROVE  Core'
<1>. DEFINE f == [FrameAt("for_condition") EXCEPT
                    !.condition_block = NewBlock(0), !.loop_block = NewBlock(1),
                    !.update_block = NewBlock(2), !.end_block = NewBlock(3)]
<1>1. /\ Len(frames) > 0 /\ Allocate(4) /\ Top.at = "initial"
      /\ EndBlock(Jump(NewBlock(0)), NewBlock(0)) /\ Replace(f)
  BY DEF EnterFor, At
<1>2. Top \in Frame /\ Pending(Top) = {}
  BY <1>1, TopFacts, PendingFacts
<1>3. /\ \A i \in {0, 1, 2, 3} : NewBlock(i) \in Block
      /\ \A c \in Block : c \in Fresh(4) <=> \E i \in {0, 1, 2, 3} : c = NewBlock(i)
      /\ \A i, j \in {0, 1, 2, 3} : NewBlock(i) = NewBlock(j) => i = j
  <2>1. \A i : i \in 0 .. 4 - 1 <=> i \in {0, 1, 2, 3}
    OBVIOUS
  <2>. QED
    BY <1>1, <2>1, FreshFacts
<1>4. NewBlock(0) \in Block /\ NewBlock(1) \in Block /\ NewBlock(2) \in Block /\ NewBlock(3) \in Block
  BY <1>3
<1>5. /\ f \in Frame /\ f.at = "for_condition" /\ f.loop_block = NewBlock(1)
      /\ f.update_block = NewBlock(2) /\ f.end_block = NewBlock(3)
  BY <1>4, FrameAtFacts, ZenonT(40) DEF FrameAt, Stage
<1>6. Pending(f) = {NewBlock(1), NewBlock(2), NewBlock(3)}
  BY <1>5, PendingFacts
<1>7. FrameShape(f)
  BY <1>3, <1>5 DEF FrameShape
<1>8. Jump(NewBlock(0)) \in Terminal /\ Jump(NewBlock(0)).type # "branch"
  BY <1>4, TerminalFacts DEF BlockOrNone
<1>9. /\ Pending(f) \subseteq Block /\ NewBlock(0) \in Pending(Top) \cup Fresh(4)
      /\ \A c \in Block : c \in (Pending(Top) \cup Fresh(4)) \ {NewBlock(0)} <=> c \in Pending(f)
      /\ f.at = "block" <=> Top.at = "block"
  BY <1>1, <1>2, <1>3, <1>4, <1>5, <1>6
<1>. HIDE DEF f
<1>. QED
  BY <1>1, <1>4, <1>5, <1>7, <1>8, <1>9, ReplaceCore

\* generate_for_update starts in the update block.
LEMMA BeginUpdateCore ==
  ASSUME TypeOK, Core, NEW child \in {"index", "source", "argument"}, BeginUpdate(child)
  PROVE  Core'
<1>. DEFINE f == FrameAt(child)
            g == [Top EXCEPT !.at = "update"]
<1>1. /\ Len(frames) > 0 /\ Allocate(0) /\ Top.at = "for_body"
      /\ EndBlock(Jump(Top.update_block), Top.update_block)
      /\ frames' = Append([frames EXCEPT ![Len(frames)] = g], f)
  BY DEF BeginUpdate, At
<1>2. /\ Top \in Frame /\ Pending(Top) \subseteq Block /\ FrameShape(Top)
  BY <1>1, TopFacts
<1>3. \A c \in Block : c \notin Fresh(0)
  BY <1>1, FreshFacts
<1>4. Pending(Top) = {Top.update_block, Top.end_block} /\ Top.update_block # Top.end_block
  BY <1>1, <1>2, PendingFacts DEF FrameShape
<1>5. g \in Frame /\ g.at = "update" /\ g.end_block = Top.end_block
  BY <1>2 DEF Frame, Stage
<1>6. f \in Frame /\ f.at = child
  BY DEF FrameAt, Frame, Stage, BlockOrNone
<1>7. Pending(f) = {} /\ Pending(g) = {Top.end_block}
  BY <1>5, <1>6, PendingFacts
<1>8. FrameShape(f) /\ FrameShape(g)
  BY <1>5, <1>6 DEF FrameShape
<1>9. Jump(Top.update_block) \in Terminal /\ Jump(Top.update_block).type # "branch"
  BY <1>2, <1>4, TerminalFacts DEF BlockOrNone
<1>10. /\ Top.update_block \in Block
       /\ g.at = "block" <=> Top.at = "block"
       /\ f.at # "block"
       /\ \A c \in Block : c \in (Pending(Top) \cup Fresh(0)) \ {Top.update_block}
                             <=> c \in Pending(f) \/ c \in Pending(g)
       /\ Top.update_block \in Pending(Top) \cup Fresh(0)
       /\ \A c \in Pending(f) : c \notin Pending(g)
       /\ Pending(f) \subseteq Block /\ Pending(g) \subseteq Block
  BY <1>1, <1>2, <1>3, <1>4, <1>5, <1>6, <1>7
<1>. HIDE DEF f, g
<1>. QED
  BY <1>1, <1>5, <1>6, <1>8, <1>9, <1>10, GrowCore

\* Return, break and continue: control goes on in one fresh block.
LEMMA OneFresh ==
  ASSUME Core, Allocate(1)
  PROVE  /\ NewBlock(0) \in Block
         /\ \A c \in Block : c \in Fresh(1) <=> c = NewBlock(0)
<1>1. \A i : i \in 0 .. 1 - 1 <=> i = 0
  OBVIOUS
<1>. QED
  BY <1>1, FreshFacts

\* generate_return_statement: what follows goes to a fresh block.
LEMMA EndReturnCore ==
  ASSUME TypeOK, Core, EndReturn
  PROVE  Core'
<1>1. /\ Len(frames) > 0 /\ Allocate(1) /\ Top.at = "return_value"
      /\ EndBlock(Return, NewBlock(0)) /\ Pop
  BY DEF EndReturn, At
<1>2. Pending(Top) = {}
  BY <1>1, TopFacts, PendingFacts
<1>3. \A c \in Block : c \in Pending(Top) \cup Fresh(1) <=> c = NewBlock(0)
  BY <1>1, <1>2, OneFresh
<1>4. Return \in Terminal /\ Return.type # "branch"
  BY TerminalFacts DEF BlockOrNone
<1>5. Top.at # "block" /\ NewBlock(0) \in Block
  BY <1>1, OneFresh
<1>. QED
  BY <1>1, <1>3, <1>4, <1>5, PopCore

\* generate_break_statement and generate_continue_statement, given a target.
LEMMA LeaveCore ==
  ASSUME TypeOK, Core, BreakBlock \in Block, ContinueBlock \in Block, Break \/ Continue
  PROVE  Core'
<1>1. /\ Len(frames) > 0 /\ Allocate(1) /\ frames' = frames
      /\ \/ EndBlock(Jump(BreakBlock), NewBlock(0))
         \/ EndBlock(Jump(ContinueBlock), NewBlock(0))
  BY DEF Break, Continue, AtStatement
<1>2. PICK t \in Terminal : t.type # "branch" /\ EndBlock(t, NewBlock(0))
  BY <1>1, TerminalFacts DEF BlockOrNone
<1>3. /\ Top \in Frame /\ Pending(Top) \subseteq Block /\ FrameShape(Top)
      /\ Len(frames) \in 1 .. Len(frames) /\ Top = frames[Len(frames)] /\ frames \in Seq(Frame)
  BY <1>1, TopFacts
<1>4. NewBlock(0) \in Block /\ \A c \in Block : c \in Fresh(1) <=> c = NewBlock(0)
  BY <1>1, OneFresh
<1>5. Replace(Top)
  BY <1>1, <1>3 DEF Replace
<1>6. /\ NewBlock(0) \in Pending(Top) \cup Fresh(1)
      /\ \A c \in Block : c \in (Pending(Top) \cup Fresh(1)) \ {NewBlock(0)} <=> c \in Pending(Top)
  BY <1>3, <1>4, PendingIsNotFresh
<1>. QED
  BY <1>1, <1>2, <1>3, <1>4, <1>5, <1>6, ReplaceCore

-----------------------------------------------------------------------------
(* The steps that end no block.                                              *)

\* A function that ends no block is called.
LEMMA CallCore ==
  ASSUME Core, NEW f \in Frame, Len(frames) > 0, Push(f), BlocksUnchanged,
         f.at \in {"index", "source", "argument", "left", "if_condition", "return_value"}
  PROVE  Core'
<1>1. /\ frames' \in Seq(Frame) /\ Len(frames) \in Nat
      /\ Len(frames') = Len(frames) + 1
      /\ frames'[Len(frames')] = f
      /\ \A k \in 1 .. Len(frames) : frames'[k] = frames[k]
  BY TopFacts, PushFacts
<1>2. Pending(f) = {} /\ FrameShape(f) /\ f.at # "block"
  BY PendingFacts DEF FrameShape
<1>3. \A k \in 1 .. Len(frames') : k > Len(frames) => frames'[k] = f
  BY <1>1
<1>4. \A k \in 1 .. Len(frames') : k > Len(frames) =>
        Pending(frames'[k]) = {} /\ FrameShape(frames'[k]) /\ frames'[k].at # "block"
  BY <1>2, <1>3
<1>5. /\ \A k \in 1 .. Len(frames') : k =< Len(frames) => frames'[k] = frames[k]
      /\ \A k \in 1 .. Len(frames) : k > Len(frames') => Pending(frames[k]) = {}
      /\ Len(frames') > 0
  BY <1>1
<1>. QED
  BY <1>1, <1>4, <1>5, BlocksUnchangedCore

\* A function that ended no block returns.
LEMMA ReturnCore ==
  ASSUME Core, EndAssignment \/ EndCall
  PROVE  Core'
<1>1. /\ Len(frames) > 0 /\ Pop /\ BlocksUnchanged
      /\ Top.at \in {"source", "argument"}
  BY DEF EndAssignment, EndCall, At
<1>2. /\ Len(frames) \in Nat \ {0, 1} /\ frames \in Seq(Frame) /\ Top = frames[Len(frames)]
      /\ Top \in Frame
  BY <1>1, TopFacts
<1>3. /\ frames' \in Seq(Frame)
      /\ Len(frames') = Len(frames) - 1
      /\ \A k \in 1 .. Len(frames) - 1 : frames'[k] = frames[k]
  BY <1>1, <1>2, PopFacts
<1>4. Pending(Top) = {}
  BY <1>1, <1>2, PendingFacts
<1>5. \A k \in 1 .. Len(frames) : k > Len(frames') => Pending(frames[k]) = {}
  <2>1. \A k \in 1 .. Len(frames) : k > Len(frames') => k = Len(frames)
    BY <1>2, <1>3
  <2>. QED
    BY <1>2, <1>4, <2>1
<1>6. /\ \A k \in 1 .. Len(frames') : k =< Len(frames) /\ frames'[k] = frames[k]
      /\ \A k \in 1 .. Len(frames') : ~ k > Len(frames)
      /\ Len(frames') > 0
  BY <1>2, <1>3
<1>. QED
  BY <1>1, <1>3, <1>5, <1>6, BlocksUnchangedCore

\* generate_for_statement and its initial assignment are called.
LEMMA BeginForCore ==
  ASSUME Core, NEW indexed \in BOOLEAN, BeginFor(indexed)
  PROVE  Core'
<1>. DEFINE f == FrameAt("initial")
            g == AssignmentFrame(indexed)
<1>1. Len(frames) > 0 /\ frames' = frames \o <<f, g>> /\ BlocksUnchanged
  BY DEF BeginFor, AtStatement
<1>2. /\ f \in Frame /\ f.at = "initial"
      /\ g \in Frame /\ g.at \in {"index", "source"}
  BY DEF AssignmentFrame, FrameAt, Frame, Stage, BlockOrNone
<1>3. /\ Pending(f) = {} /\ FrameShape(f) /\ f.at # "block"
      /\ Pending(g) = {} /\ FrameShape(g) /\ g.at # "block"
  BY <1>2, PendingFacts DEF FrameShape
<1>. HIDE DEF f, g
<1>4. Len(frames) \in Nat /\ frames \in Seq(Frame)
  BY <1>1, TopFacts
<1>5. /\ frames' \in Seq(Frame) /\ Len(frames') = Len(frames) + 2
      /\ \A k \in 1 .. Len(frames) : frames'[k] = frames[k]
      /\ frames'[Len(frames) + 1] = f /\ frames'[Len(frames) + 2] = g
  BY <1>1, <1>2, <1>4
<1>6. \A k \in 1 .. Len(frames') :
        k > Len(frames) => k = Len(frames) + 1 \/ k = Len(frames) + 2
  BY <1>4, <1>5
<1>7. \A k \in 1 .. Len(frames') : k > Len(frames) =>
        Pending(frames'[k]) = {} /\ FrameShape(frames'[k]) /\ frames'[k].at # "block"
  BY <1>3, <1>5, <1>6
<1>8. /\ \A k \in 1 .. Len(frames') : k =< Len(frames) => frames'[k] = frames[k]
      /\ \A k \in 1 .. Len(frames) : k > Len(frames') => Pending(frames[k]) = {}
      /\ Len(frames') > 0
  BY <1>4, <1>5
<1>. QED
  BY <1>1, <1>5, <1>7, <1>8, BlocksUnchangedCore


-----------------------------------------------------------------------------
(* The actions that end two blocks, or begin or end a method.                *)

\* generate_bounds_check ends the current block and places the exit behind it.
LEMMA BoundsCheckCore ==
  ASSUME TypeOK, Core, BoundsCheck
  PROVE  Core'
<1>. DEFINE tb == NewBlock(0)
            fb == NewBlock(1)
            f == [Top EXCEPT !.at = "source"]
            n == Len(frames)
            m == Len(layout)
<1>1. /\ n > 0 /\ Top.at = "index" /\ Allocate(2) /\ Replace(f)
      /\ terminal' = [terminal EXCEPT ![current_block] = Branch(tb, fb), ![tb] = ShitYourself]
      /\ predecessors' = AddPredecessor(predecessors, current_block, Branch(tb, fb))
      /\ layout' = layout \o <<current_block, tb>>
      /\ current_block' = fb /\ methods' = methods
  BY DEF BoundsCheck, At, Goto
<1>2. /\ n \in Nat \ {0, 1} /\ frames \in Seq(Frame) /\ Top = frames[n] /\ Top \in Frame
      /\ current_block \in Block
  BY <1>1, TopFacts
<1>3. /\ tb \in Block /\ fb \in Block /\ tb # fb
      /\ \A c \in Block : c \in Fresh(2) <=> c = tb \/ c = fb
      /\ block_counter' \in 0 .. MaxBlocks
      /\ \A c \in Block : c \in Fresh(2) <=> block_counter =< c /\ c < block_counter'
  BY <1>1, TwoFresh, FreshFacts
<1>4. \A c \in Block : /\ c < block_counter' <=> c < block_counter \/ c = tb \/ c = fb
                       /\ c < block_counter => c # tb /\ c # fb
  <2>1. \A c \in Block : c \in Int /\ block_counter \in Int /\ block_counter' \in Int
    BY <1>3 DEF Block, Core
  <2>2. block_counter' = block_counter + 2
    BY <1>1 DEF Allocate
  <2>. QED
    BY <1>3, <2>1, <2>2
<1>5. /\ f \in Frame /\ f.at = "source" /\ Pending(f) = {} /\ Pending(Top) = {} /\ FrameShape(f)
  <2>1. f \in Frame /\ f.at = "source"
    BY <1>2 DEF Frame, Stage
  <2>. QED
    BY <1>1, <1>2, <2>1, PendingFacts DEF FrameShape
<1>6. /\ Branch(tb, fb) \in Terminal /\ Branch(tb, fb).type = "branch"
      /\ Branch(tb, fb).true_block = tb
      /\ ShitYourself \in Terminal /\ ShitYourself.type # "branch"
  BY <1>3, TerminalFacts DEF BlockOrNone
<1>7. predecessors' \in [Block -> Seq(Block)]
  BY <1>1, <1>2 DEF Core, AddPredecessor
<1>. HIDE DEF tb, fb, f
<1>8. /\ frames' \in Seq(Frame) /\ Len(frames') = n
      /\ \A k \in 1 .. n : Pending(frames'[k]) = Pending(frames[k])
      /\ \A k \in 1 .. n : FrameShape(frames'[k]) /\ (frames'[k].at = "block" <=> k = 1)
  <2>1. /\ frames' \in Seq(Frame) /\ Len(frames') = n /\ frames'[n] = f
        /\ \A k \in 1 .. n : k # n => frames'[k] = frames[k]
    BY <1>1, <1>2, <1>5, ReplaceFacts
  <2>2. \A k \in 1 .. n : k # n =>
          /\ Pending(frames'[k]) = Pending(frames[k])
          /\ FrameShape(frames'[k]) /\ (frames'[k].at = "block" <=> k = 1)
    BY <2>1 DEF Core, Shape
  <2>3. /\ Pending(frames'[n]) = Pending(frames[n])
        /\ FrameShape(frames'[n]) /\ (frames'[n].at = "block" <=> n = 1)
    BY <1>2, <1>5, <2>1
  <2>. QED
    BY <2>1, <2>2, <2>3
<1>9. \A c : IsPending(c)' <=> IsPending(c)
  BY <1>8 DEF IsPending
<1>10. /\ m \in Nat /\ Len(layout') = m + 2
       /\ \A i \in 1 .. m : layout'[i] = layout[i] /\ layout[i] \in Block
       /\ layout'[m + 1] = current_block /\ layout'[m + 2] = tb
       /\ layout' \in Seq(Block)
  BY <1>1, <1>2, <1>3 DEF Core
<1>11. \A i : i \in 1 .. Len(layout') <=> i \in 1 .. m \/ i = m + 1 \/ i = m + 2
  BY <1>10
<1>12. \A c \in Block : IsPlaced(c)' <=> IsPlaced(c) \/ c = current_block \/ c = tb
  BY <1>10, <1>11 DEF IsPlaced
\* The two new blocks are nowhere yet.
<1>13. /\ \A c \in {tb, fb} : ~ IsPlaced(c) /\ c # current_block /\ ~ IsPending(c)
       /\ ~ IsPlaced(current_block) /\ ~ IsPending(current_block)
       /\ current_block < block_counter
  <2>1. \A c \in {tb, fb} : c \in Block /\ ~ c < block_counter
    BY <1>3, <1>4
  <2>2. ~ IsPlaced(current_block) /\ ~ IsPending(current_block) /\ current_block < block_counter
    BY <1>2 DEF Core, Placement, NoBlockTwice, NoBlockLost, IsPlaced
  <2>. QED
    BY <2>1, <2>2 DEF Core, Placement, NoBlockLost
<1>14. \A i \in 1 .. m : layout[i] # current_block /\ layout[i] # tb /\ layout[i] # fb
  BY <1>13 DEF IsPlaced
<1>15. NoBlockTwice'
  <2>1. \A i, j \in 1 .. Len(layout') : layout'[i] = layout'[j] => i = j
    <3>1. \A i, j \in 1 .. m : layout[i] = layout[j] => i = j
      BY DEF Core, Placement, NoBlockTwice
    <3>. QED
      BY <1>10, <1>11, <1>13, <1>14, <3>1
  <2>2. \A k, l \in 1 .. Len(frames') :
          \A c \in Pending(frames'[k]) : c \in Pending(frames'[l]) => k = l
    BY <1>8 DEF Core, Placement, NoBlockTwice
  <2>3. \A i \in 1 .. Len(layout') : layout'[i] # fb /\ ~ IsPending(layout'[i])
    <3>1. \A i \in 1 .. m : ~ IsPending(layout[i])
      BY DEF Core, Placement, NoBlockTwice
    <3>. QED
      BY <1>3, <1>10, <1>11, <1>13, <1>14, <3>1
  <2>4. \A i \in 1 .. Len(layout') :
          ~ \E k \in 1 .. Len(frames') : layout'[i] \in Pending(frames'[k])
    BY <1>8, <2>3 DEF IsPending
  <2>5. ~ \E k \in 1 .. Len(frames') : fb \in Pending(frames'[k])
    BY <1>8, <1>13 DEF IsPending
  <2>. QED
    BY <1>1, <2>1, <2>2, <2>3, <2>4, <2>5 DEF NoBlockTwice, IsPending
<1>16. NoBlockLost'
  <2>. SUFFICES ASSUME NEW c \in Block
       PROVE  c < block_counter' <=> IsPlaced(c)' \/ c = fb \/ IsPending(c)'
    BY <1>1 DEF NoBlockLost
  <2>1. c < block_counter <=> IsPlaced(c) \/ c = current_block \/ IsPending(c)
    BY DEF Core, Placement, NoBlockLost
  <2>. QED
    BY <1>4, <1>9, <1>12, <2>1
<1>17. PendingAreBlocks'
  BY <1>8 DEF Core, Placement, PendingAreBlocks
<1>18. /\ terminal' \in [Block -> Terminal]
       /\ terminal'[current_block] = Branch(tb, fb) /\ terminal'[tb] = ShitYourself
       /\ \A c \in Block : c # current_block /\ c # tb => terminal'[c] = terminal[c]
  BY <1>1, <1>2, <1>3, <1>6, <1>13 DEF Core
<1>19. BranchFallsThrough'
  <2>. SUFFICES ASSUME NEW i \in 1 .. Len(layout'), terminal'[layout'[i]].type = "branch"
       PROVE  terminal'[layout'[i]].true_block =
                IF i < Len(layout') THEN layout'[i + 1] ELSE fb
    BY <1>1 DEF BranchFallsThrough
  <2>1. CASE i \in 1 .. m
    <3>1. terminal'[layout'[i]] = terminal[layout[i]]
      BY <1>10, <1>14, <1>18, <2>1
    <3>2. terminal[layout[i]].true_block = IF i < m THEN layout[i + 1] ELSE current_block
      BY <2>1, <3>1 DEF Core, BranchFallsThrough
    <3>3. i < Len(layout') /\ (i < m => i + 1 \in 1 .. m) /\ (~ i < m => i = m)
      BY <1>10, <2>1
    <3>. QED
      BY <1>10, <3>1, <3>2, <3>3
  <2>2. CASE i = m + 1
    BY <1>6, <1>10, <1>18, <2>2
  <2>3. CASE i = m + 2
    BY <1>6, <1>10, <1>18, <2>3
  <2>. QED
    BY <1>11, <2>1, <2>2, <2>3
<1>20. BranchesHaveTargets'
  BY <1>3, <1>6, <1>18 DEF Core, BranchesHaveTargets
<1>21. Shape'
  BY <1>1, <1>2, <1>3, <1>8 DEF Shape, Block, NoBlock
<1>. QED
  BY <1>1, <1>3, <1>7, <1>8, <1>10, <1>15, <1>16, <1>17, <1>18, <1>19, <1>20, <1>21
     DEF Core, Placement, BlockOrNone

\* generate_method opens its first block; the method before is untouched.
LEMMA BeginMethodCore ==
  ASSUME TypeOK, Core, BeginMethod
  PROVE  Core'
<1>. DEFINE b == NewBlock(0)
            f == FrameAt("block")
<1>1. /\ frames = <<>> /\ Allocate(1) /\ frames' = Append(frames, f)
      /\ current_block' = b
      /\ UNCHANGED <<layout, methods, terminal, predecessors>>
  BY DEF BeginMethod, Push
<1>2. b \in Block /\ \A c \in Block : c \in Fresh(1) <=> c = b
  BY <1>1, OneFresh
<1>3. /\ f \in Frame /\ f.at = "block" /\ Pending(f) = {} /\ FrameShape(f)
  <2>1. f \in Frame /\ f.at = "block"
    BY DEF FrameAt, Frame, Stage, BlockOrNone
  <2>. QED
    BY <2>1, PendingFacts DEF FrameShape
<1>. HIDE DEF f, b
<1>4. /\ frames' \in Seq(Frame) /\ Len(frames') = 1 /\ frames'[1] = f /\ Len(frames) = 0
      /\ \A k : k \in 1 .. Len(frames') <=> k = 1
  BY <1>1, <1>3
<1>5. current_block = NoBlock /\ \A c \in Block : c # current_block
  BY <1>1 DEF Core, Shape, Block, NoBlock
<1>6. /\ \A c : ~ IsPending(c)
      /\ \A c : ~ IsPending(c)'
  BY <1>3, <1>4 DEF IsPending
<1>7. /\ block_counter' \in 0 .. MaxBlocks
      /\ \A c \in Block : c < block_counter' <=> c < block_counter \/ c = b
  <2>1. \A c \in Block : c \in Fresh(1) <=> block_counter =< c /\ c < block_counter'
    BY <1>1, FreshFacts
  <2>2. \A c \in Block : c \in Int /\ block_counter \in Int /\ block_counter' \in Int
                         /\ block_counter < block_counter'
    BY <1>1 DEF Block, Core, Allocate
  <2>3. block_counter' \in 0 .. MaxBlocks
    BY <1>1, FreshFacts
  <2>. QED
    BY <1>2, <2>1, <2>2, <2>3
<1>8. ~ b < block_counter
  BY <1>1, <1>2, FreshFacts DEF Fresh, Block, Core
<1>9. \A i \in 1 .. Len(layout) : layout[i] \in Block /\ layout[i] # b
  BY <1>2, <1>8 DEF Core, Placement, NoBlockLost, IsPlaced
<1>10. NoBlockTwice'
  <2>1. /\ \A i, j \in 1 .. Len(layout') : layout'[i] = layout'[j] => i = j
        /\ \A i \in 1 .. Len(layout') : layout'[i] # current_block'
    BY <1>1, <1>9 DEF Core, Placement, NoBlockTwice
  <2>2. \A k \in 1 .. Len(frames') : Pending(frames'[k]) = {}
    BY <1>3, <1>4
  <2>. QED
    BY <2>1, <2>2 DEF NoBlockTwice, IsPending
<1>11. NoBlockLost'
  <2>. SUFFICES ASSUME NEW c \in Block
       PROVE  c < block_counter' <=> IsPlaced(c)' \/ c = b \/ IsPending(c)'
    BY <1>1 DEF NoBlockLost
  <2>1. c < block_counter <=> IsPlaced(c) \/ c = current_block \/ IsPending(c)
    BY DEF Core, Placement, NoBlockLost
  <2>2. IsPlaced(c)' <=> IsPlaced(c)
    BY <1>1 DEF IsPlaced
  <2>. QED
    BY <1>5, <1>6, <1>7, <2>1, <2>2
<1>12. PendingAreBlocks'
  BY <1>3, <1>4 DEF PendingAreBlocks
\* The last block of the method before does not end in a branch.
<1>13. BranchFallsThrough'
  <2>. SUFFICES ASSUME NEW i \in 1 .. Len(layout), terminal[layout[i]].type = "branch"
       PROVE  terminal[layout[i]].true_block = IF i < Len(layout) THEN layout[i + 1] ELSE b
    BY <1>1 DEF BranchFallsThrough
  <2>1. terminal[layout[i]].true_block \in Block
    BY <1>9 DEF Core, BranchesHaveTargets
  <2>2. terminal[layout[i]].true_block = IF i < Len(layout) THEN layout[i + 1] ELSE current_block
    BY DEF Core, BranchFallsThrough
  <2>. QED
    BY <1>5, <2>1, <2>2
<1>14. BranchesHaveTargets'
  BY <1>1 DEF Core, BranchesHaveTargets
<1>15. Shape'
  BY <1>1, <1>2, <1>3, <1>4 DEF Shape, Block, NoBlock
<1>. QED
  BY <1>1, <1>2, <1>4, <1>7, <1>10, <1>11, <1>12, <1>13, <1>14, <1>15
     DEF Core, Placement, BlockOrNone

\* generate_method closes its last block.
LEMMA EndMethodCore ==
  ASSUME TypeOK, Core, NEW returns_void \in BOOLEAN, EndMethod(returns_void)
  PROVE  Core'
<1>. DEFINE t == IF returns_void THEN Return ELSE ShitYourself
            m == Len(layout)
<1>1. /\ Len(frames) > 0 /\ Top.at = "block" /\ Pop
      /\ terminal' = [terminal EXCEPT ![current_block] = t]
      /\ layout' = Append(layout, current_block)
      /\ methods' = Append(methods, m + 1)
      /\ current_block' = NoBlock
      /\ UNCHANGED <<block_counter, predecessors>>
  BY DEF EndMethod, At
<1>2. /\ Len(frames) = 1 /\ frames \in Seq(Frame) /\ Top = frames[1] /\ Top \in Frame
      /\ current_block \in Block
  BY <1>1, TopFacts
<1>3. frames' \in Seq(Frame) /\ Len(frames') = 0 /\ frames' = <<>>
  BY <1>1, <1>2, PopFacts
<1>4. t \in Terminal /\ t.type # "branch"
  BY TerminalFacts DEF BlockOrNone
<1>. HIDE DEF t
<1>5. /\ m \in Nat /\ Len(layout') = m + 1
      /\ \A i \in 1 .. m : layout'[i] = layout[i] /\ layout[i] \in Block
      /\ layout'[m + 1] = current_block
      /\ layout' \in Seq(Block)
  BY <1>1, <1>2 DEF Core
<1>6. \A i : i \in 1 .. Len(layout') <=> i \in 1 .. m \/ i = m + 1
  BY <1>5
<1>7. Pending(Top) = {}
  BY <1>1, <1>2, PendingFacts
<1>8. /\ \A c : ~ IsPending(c)
      /\ \A c : ~ IsPending(c)'
  BY <1>2, <1>3, <1>7 DEF IsPending
<1>9. \A i \in 1 .. m : layout[i] # current_block
  BY DEF Core, Placement, NoBlockTwice
<1>10. NoBlockTwice'
  <2>1. \A i, j \in 1 .. Len(layout') : layout'[i] = layout'[j] => i = j
    BY <1>5, <1>6, <1>9 DEF Core, Placement, NoBlockTwice
  <2>2. \A i \in 1 .. Len(layout') : layout'[i] \in Block /\ layout'[i] # NoBlock
    BY <1>2, <1>5, <1>6 DEF Block, NoBlock
  <2>3. ~ \E k \in 1 .. Len(frames') : TRUE
    BY <1>3
  <2>. QED
    BY <1>1, <2>1, <2>2, <2>3 DEF NoBlockTwice, IsPending
<1>11. NoBlockLost'
  <2>. SUFFICES ASSUME NEW c \in Block
       PROVE  c < block_counter <=> IsPlaced(c)' \/ c = NoBlock \/ IsPending(c)'
    BY <1>1 DEF NoBlockLost
  <2>1. c < block_counter <=> IsPlaced(c) \/ c = current_block \/ IsPending(c)
    BY DEF Core, Placement, NoBlockLost
  <2>2. IsPlaced(c)' <=> IsPlaced(c) \/ c = current_block
    BY <1>5, <1>6 DEF IsPlaced
  <2>3. c # NoBlock
    BY DEF Block, NoBlock
  <2>. QED
    BY <1>8, <2>1, <2>2, <2>3
<1>12. PendingAreBlocks'
  BY <1>3 DEF PendingAreBlocks
<1>13. BranchFallsThrough'
  <2>. SUFFICES ASSUME NEW i \in 1 .. Len(layout'), terminal'[layout'[i]].type = "branch"
       PROVE  terminal'[layout'[i]].true_block =
                IF i < Len(layout') THEN layout'[i + 1] ELSE current_block'
    BY DEF BranchFallsThrough
  <2>1. i \in 1 .. m
    BY <1>1, <1>2, <1>4, <1>5, <1>6 DEF Core
  <2>2. terminal'[layout'[i]] = terminal[layout[i]]
    BY <1>1, <1>5, <1>9, <2>1 DEF Core
  <2>3. terminal[layout[i]].true_block = IF i < m THEN layout[i + 1] ELSE current_block
    BY <2>1, <2>2 DEF Core, BranchFallsThrough
  <2>4. i < Len(layout') /\ (i < m => i + 1 \in 1 .. m) /\ (~ i < m => i = m)
    BY <1>5, <2>1
  <2>. QED
    BY <1>5, <2>2, <2>3, <2>4
<1>14. BranchesHaveTargets'
  BY <1>1, <1>2, <1>4 DEF Core, BranchesHaveTargets
<1>15. Shape'
  BY <1>1, <1>3 DEF Shape
<1>16. terminal' \in [Block -> Terminal] /\ methods' \in Seq(Nat)
  BY <1>1, <1>2, <1>4, <1>5 DEF Core
<1>. QED
  BY <1>1, <1>3, <1>5, <1>10, <1>11, <1>12, <1>13, <1>14, <1>15, <1>16
     DEF Core, Placement, BlockOrNone


-----------------------------------------------------------------------------
(* The stacks of break and continue blocks.                                  *)

\* The types of the two stacks and what they hold.
Loops ==
  /\ break_blocks \in Seq(Block)
  /\ continue_blocks \in Seq(Block)
  /\ LoopStacksMatchLoops

\* LoopDepth of any stack of frames.
Depth(s, k) == Cardinality({i \in 1 .. k : s[i].at \in LoopStages})

\* A loop depth is a natural number.
LEMMA DepthType ==
  ASSUME NEW s, NEW k \in Nat
  PROVE  /\ Depth(s, k) \in Nat
         /\ IsFiniteSet({i \in 1 .. k : s[i].at \in LoopStages})
<1>1. IsFiniteSet(1 .. k)
  BY FS_Interval
<1>2. {i \in 1 .. k : s[i].at \in LoopStages} \in SUBSET (1 .. k)
  OBVIOUS
<1>3. IsFiniteSet({i \in 1 .. k : s[i].at \in LoopStages})
  BY <1>1, <1>2, FS_Subset
<1>. QED
  BY <1>3, FS_CardinalityType DEF Depth

\* One frame more.
LEMMA DepthStep ==
  ASSUME NEW s, NEW k \in Nat
  PROVE  Depth(s, k + 1) = IF s[k + 1].at \in LoopStages THEN Depth(s, k) + 1 ELSE Depth(s, k)
<1>. DEFINE P(j) == {i \in 1 .. j : s[i].at \in LoopStages}
<1>1. IsFiniteSet(P(k)) /\ k + 1 \notin P(k)
  <2>1. IsFiniteSet(P(k))
    BY DepthType
  <2>2. k + 1 \notin P(k)
    OBVIOUS
  <2>. QED
    BY <2>1, <2>2
<1>2. CASE s[k + 1].at \in LoopStages
  <2>1. P(k + 1) = P(k) \cup {k + 1}
    BY <1>2
  <2>2. Cardinality(P(k) \cup {k + 1}) = Cardinality(P(k)) + 1
    BY <1>1, FS_AddElement
  <2>. QED
    BY <1>2, <2>1, <2>2 DEF Depth
<1>3. CASE s[k + 1].at \notin LoopStages
  <2>1. P(k + 1) = P(k)
    BY <1>3
  <2>. QED
    BY <1>3, <2>1 DEF Depth
<1>. QED
  BY <1>2, <1>3

\* A loop below k leaves the depth at k positive, and a later loop is deeper.
LEMMA DepthGrows ==
  ASSUME NEW s, NEW j \in Nat, NEW k \in Nat, j =< k
  PROVE  Depth(s, j) =< Depth(s, k)
<1>1. {i \in 1 .. j : s[i].at \in LoopStages} \in SUBSET {i \in 1 .. k : s[i].at \in LoopStages}
  OBVIOUS
<1>2. IsFiniteSet({i \in 1 .. k : s[i].at \in LoopStages})
  BY DepthType
<1>. QED
  BY <1>1, <1>2, FS_Subset DEF Depth

\* Stacks that agree on the first k frames about being loops, and hold no loop
\* between k and their own bounds, are equally deep.
LEMMA DepthAgrees ==
  ASSUME NEW s, NEW t, NEW j \in Nat, NEW k \in Nat,
         \A i \in 1 .. j : s[i].at \in LoopStages => i \in 1 .. k /\ t[i].at \in LoopStages,
         \A i \in 1 .. k : t[i].at \in LoopStages => i \in 1 .. j /\ s[i].at \in LoopStages
  PROVE  Depth(s, j) = Depth(t, k)
<1>1. {i \in 1 .. j : s[i].at \in LoopStages} = {i \in 1 .. k : t[i].at \in LoopStages}
  OBVIOUS
<1>. QED
  BY <1>1 DEF Depth

\* The depth at k depends on the first k frames only.
LEMMA DepthOfPrefix ==
  ASSUME NEW s, NEW t, NEW k \in Nat,
         \A i \in 1 .. k : s[i].at \in LoopStages <=> t[i].at \in LoopStages
  PROVE  Depth(s, k) = Depth(t, k)
BY DepthAgrees

\* LoopStacksMatchLoops in terms of Depth.
LEMMA LoopsMeaning ==
  ASSUME frames \in Seq(Frame)
  PROVE  LoopStacksMatchLoops <=>
           /\ Len(break_blocks) = Depth(frames, Len(frames))
           /\ Len(continue_blocks) = Depth(frames, Len(frames))
           /\ \A k \in 1 .. Len(frames) :
                frames[k].at \in LoopStages =>
                  /\ break_blocks[Depth(frames, k)] = frames[k].end_block
                  /\ continue_blocks[Depth(frames, k)] = ContinueOf(frames[k])
BY DEF LoopStacksMatchLoops, LoopDepth, Depth

\* No loop begins or ends.
LEMMA LoopsKept ==
  ASSUME Loops, LoopsUnchanged, frames \in Seq(Frame), frames' \in Seq(Frame),
         \A k \in 1 .. Len(frames) : frames[k].at \in LoopStages =>
           k \in 1 .. Len(frames') /\ frames'[k].at \in LoopStages,
         \A k \in 1 .. Len(frames') : frames'[k].at \in LoopStages =>
           /\ k \in 1 .. Len(frames) /\ frames[k].at \in LoopStages
           /\ frames'[k].end_block = frames[k].end_block
           /\ ContinueOf(frames'[k]) = ContinueOf(frames[k])
  PROVE  Loops'
<1>1. Len(frames) \in Nat /\ Len(frames') \in Nat
  OBVIOUS
<1>2. Depth(frames', Len(frames')) = Depth(frames, Len(frames))
  <2>. DEFINE m == Len(frames)
              n == Len(frames')
  <2>1. /\ m \in Nat /\ n \in Nat
        /\ \A i \in 1 .. n : frames'[i].at \in LoopStages => i \in 1 .. m /\ frames[i].at \in LoopStages
        /\ \A i \in 1 .. m : frames[i].at \in LoopStages => i \in 1 .. n /\ frames'[i].at \in LoopStages
    BY <1>1
  <2>. HIDE DEF m, n
  <2>2. Depth(frames', n) = Depth(frames, m)
    BY <2>1, DepthAgrees
  <2>. QED
    BY <2>2 DEF m, n
<1>3. ASSUME NEW k \in 1 .. Len(frames'), frames'[k].at \in LoopStages
      PROVE  Depth(frames', k) = Depth(frames, k)
  <2>1. \A i \in 1 .. k : i \in 1 .. Len(frames) /\ i \in 1 .. Len(frames')
    BY <1>1, <1>3
  <2>2. \A i \in 1 .. k : frames'[i].at \in LoopStages <=> frames[i].at \in LoopStages
    BY <2>1
  <2>. QED
    BY <1>1, <2>2, DepthOfPrefix
<1>4. LoopStacksMatchLoops'
  <2>1. /\ Len(break_blocks) = Depth(frames, Len(frames))
        /\ Len(continue_blocks) = Depth(frames, Len(frames))
        /\ \A k \in 1 .. Len(frames) :
             frames[k].at \in LoopStages =>
               /\ break_blocks[Depth(frames, k)] = frames[k].end_block
               /\ continue_blocks[Depth(frames, k)] = ContinueOf(frames[k])
    BY LoopsMeaning DEF Loops
  <2>2. break_blocks' = break_blocks /\ continue_blocks' = continue_blocks
    BY DEF LoopsUnchanged
  <2>3. \A k \in 1 .. Len(frames') :
          frames'[k].at \in LoopStages =>
            /\ break_blocks'[Depth(frames', k)] = frames'[k].end_block
            /\ continue_blocks'[Depth(frames', k)] = ContinueOf(frames'[k])
    BY <1>3, <2>1, <2>2
  <2>4. /\ Len(break_blocks') = Depth(frames', Len(frames'))
        /\ Len(continue_blocks') = Depth(frames', Len(frames'))
    BY <1>2, <2>1, <2>2
  <2>. QED
    BY <2>3, <2>4 DEF LoopStacksMatchLoops, LoopDepth, Depth
<1>. QED
  BY <1>4 DEF Loops, LoopsUnchanged

\* The depth of a loop is an index into the two stacks.
LEMMA DepthOfLoop ==
  ASSUME NEW s, NEW n \in Nat, NEW k \in 1 .. n, s[k].at \in LoopStages
  PROVE  Depth(s, k) \in 1 .. Depth(s, n)
<1>1. k - 1 \in Nat /\ k \in Nat /\ (k - 1) + 1 = k /\ k =< n
  OBVIOUS
<1>2. Depth(s, (k - 1) + 1) = Depth(s, k - 1) + 1
  BY <1>1, DepthStep
<1>3. Depth(s, k - 1) \in Nat /\ Depth(s, n) \in Nat /\ Depth(s, k) =< Depth(s, n)
  BY <1>1, DepthType, DepthGrows
<1>. QED
  BY <1>1, <1>2, <1>3

\* A loop f begins on top of m frames.
LEMMA LoopPushed ==
  ASSUME Loops, frames \in Seq(Frame), frames' \in Seq(Frame),
         NEW f \in Frame, f.at \in LoopStages, NEW m \in Nat,
         Len(frames') = m + 1, frames'[m + 1] = f,
         \A k \in 1 .. Len(frames) : frames[k].at \in LoopStages =>
           k \in 1 .. m /\ frames'[k].at \in LoopStages,
         \A k \in 1 .. m : frames'[k].at \in LoopStages =>
           k \in 1 .. Len(frames) /\ frames'[k] = frames[k],
         PushLoop(f.end_block, ContinueOf(f)), f.end_block \in Block, ContinueOf(f) \in Block
  PROVE  Loops'
<1>. DEFINE n == Len(frames)
            d == Depth(frames, n)
<1>1. n \in Nat /\ d \in Nat
  <2>1. n \in Nat
    OBVIOUS
  <2>. QED
    BY <2>1, DepthType
<1>2. /\ Len(break_blocks) = d /\ Len(continue_blocks) = d
      /\ \A k \in 1 .. n : frames[k].at \in LoopStages =>
           /\ break_blocks[Depth(frames, k)] = frames[k].end_block
           /\ continue_blocks[Depth(frames, k)] = ContinueOf(frames[k])
      /\ break_blocks \in Seq(Block) /\ continue_blocks \in Seq(Block)
  BY LoopsMeaning DEF Loops
<1>3. Depth(frames', m) = d
  <2>1. \A i \in 1 .. m : frames'[i].at \in LoopStages => i \in 1 .. n /\ frames[i].at \in LoopStages
    OBVIOUS
  <2>2. \A i \in 1 .. n : frames[i].at \in LoopStages => i \in 1 .. m /\ frames'[i].at \in LoopStages
    OBVIOUS
  <2>. HIDE DEF n
  <2>. QED
    BY <1>1, <2>1, <2>2, DepthAgrees
<1>4. Depth(frames', m + 1) = d + 1
  BY <1>3, DepthStep
<1>5. ASSUME NEW k \in 1 .. m, frames'[k].at \in LoopStages
      PROVE  /\ k \in 1 .. n /\ frames[k].at \in LoopStages /\ frames'[k] = frames[k]
             /\ Depth(frames', k) = Depth(frames, k) /\ Depth(frames, k) \in 1 .. d
  <2>1. k \in 1 .. n /\ frames[k].at \in LoopStages /\ frames'[k] = frames[k]
    BY <1>5
  <2>2. \A i \in 1 .. k : i \in 1 .. n /\ i \in 1 .. m
    BY <1>1, <2>1
  <2>3. \A i \in 1 .. k : frames'[i].at \in LoopStages <=> frames[i].at \in LoopStages
    BY <2>2
  <2>4. Depth(frames', k) = Depth(frames, k)
    <3>1. k \in Nat
      OBVIOUS
    <3>. QED
      BY <2>3, <3>1, DepthOfPrefix
  <2>. QED
    BY <1>1, <2>1, <2>4, DepthOfLoop
<1>. HIDE DEF d
<1>6. /\ break_blocks' \in Seq(Block) /\ continue_blocks' \in Seq(Block)
      /\ Len(break_blocks') = d + 1 /\ Len(continue_blocks') = d + 1
      /\ break_blocks'[d + 1] = f.end_block /\ continue_blocks'[d + 1] = ContinueOf(f)
      /\ \A e \in 1 .. d : break_blocks'[e] = break_blocks[e] /\ continue_blocks'[e] = continue_blocks[e]
  BY <1>1, <1>2 DEF PushLoop
<1>7. ASSUME NEW k \in 1 .. m + 1, frames'[k].at \in LoopStages
      PROVE  /\ break_blocks'[Depth(frames', k)] = frames'[k].end_block
             /\ continue_blocks'[Depth(frames', k)] = ContinueOf(frames'[k])
  <2>1. CASE k = m + 1
    BY <1>4, <1>6, <2>1
  <2>2. CASE k \in 1 .. m
    BY <1>2, <1>5, <1>6, <1>7, <2>2
  <2>. QED
    BY <2>1, <2>2
<1>8. LoopStacksMatchLoops'
  BY <1>4, <1>6, <1>7 DEF LoopStacksMatchLoops, LoopDepth, Depth
<1>. QED
  BY <1>6, <1>8 DEF Loops

\* The loop on top of m frames ends.
LEMMA LoopPopped ==
  ASSUME Loops, frames \in Seq(Frame), frames' \in Seq(Frame),
         NEW m \in Nat, Len(frames) = m + 1, Len(frames') = m,
         \A k \in 1 .. m : frames'[k] = frames[k],
         frames[m + 1].at \in LoopStages, PopLoop
  PROVE  Loops'
<1>. DEFINE d == Depth(frames, m)
<1>1. d \in Nat /\ Depth(frames, m + 1) = d + 1
  BY DepthType, DepthStep
<1>2. /\ Len(break_blocks) = d + 1 /\ Len(continue_blocks) = d + 1
      /\ \A k \in 1 .. m + 1 : frames[k].at \in LoopStages =>
           /\ break_blocks[Depth(frames, k)] = frames[k].end_block
           /\ continue_blocks[Depth(frames, k)] = ContinueOf(frames[k])
      /\ break_blocks \in Seq(Block) /\ continue_blocks \in Seq(Block)
  BY <1>1, LoopsMeaning DEF Loops
<1>3. Depth(frames', m) = d
  <2>1. \A i \in 1 .. m : frames'[i].at \in LoopStages <=> frames[i].at \in LoopStages
    OBVIOUS
  <2>. QED
    BY <2>1, DepthOfPrefix
<1>4. ASSUME NEW k \in 1 .. m, frames[k].at \in LoopStages
      PROVE  Depth(frames', k) = Depth(frames, k) /\ Depth(frames, k) \in 1 .. d
  <2>1. \A i \in 1 .. k : frames'[i].at \in LoopStages <=> frames[i].at \in LoopStages
    OBVIOUS
  <2>2. Depth(frames', k) = Depth(frames, k)
    BY <2>1, DepthOfPrefix
  <2>. QED
    BY <1>4, <2>2, DepthOfLoop
<1>. HIDE DEF d
<1>5. (d + 1) - 1 = d
  BY <1>1
<1>6. /\ break_blocks' = SubSeq(break_blocks, 1, d)
      /\ continue_blocks' = SubSeq(continue_blocks, 1, d)
  BY <1>2, <1>5 DEF PopLoop
<1>7. /\ break_blocks' \in Seq(Block) /\ continue_blocks' \in Seq(Block)
      /\ Len(break_blocks') = d /\ Len(continue_blocks') = d
      /\ \A e \in 1 .. d : break_blocks'[e] = break_blocks[e] /\ continue_blocks'[e] = continue_blocks[e]
  BY <1>1, <1>2, <1>6, FrontFacts
<1>8. \A k \in 1 .. m : frames'[k].at \in LoopStages =>
        /\ break_blocks'[Depth(frames', k)] = frames'[k].end_block
        /\ continue_blocks'[Depth(frames', k)] = ContinueOf(frames'[k])
  BY <1>2, <1>4, <1>7
<1>9. LoopStacksMatchLoops'
  BY <1>3, <1>7, <1>8 DEF LoopStacksMatchLoops, LoopDepth, Depth
<1>. QED
  BY <1>7, <1>9 DEF Loops

\* Inside a loop the assertions of get_break_block and get_continue_block hold.
LEMMA LeaveTargets ==
  ASSUME Loops, frames \in Seq(Frame), InsideLoop
  PROVE  BreakBlock \in Block /\ ContinueBlock \in Block
<1>1. PICK k \in 1 .. Len(frames) : frames[k].at \in LoopStages
  BY DEF InsideLoop
<1>2. Depth(frames, k) \in 1 .. Depth(frames, Len(frames)) /\ Depth(frames, Len(frames)) \in Nat
  <2>1. Len(frames) \in Nat
    OBVIOUS
  <2>. QED
    BY <1>1, <2>1, DepthOfLoop, DepthType
<1>3. Depth(frames, Len(frames)) >= 1
  BY <1>2
<1>4. /\ Len(break_blocks) >= 1 /\ Len(continue_blocks) >= 1
      /\ break_blocks \in Seq(Block) /\ continue_blocks \in Seq(Block)
  BY <1>3, LoopsMeaning DEF Loops
<1>. QED
  BY <1>4 DEF BreakBlock, ContinueBlock


-----------------------------------------------------------------------------
(* Each action keeps the loops' stacks.                                      *)

\* A function that is no loop returns.
LEMMA PopLoops ==
  ASSUME Core, Loops, Len(frames) > 0, Pop, LoopsUnchanged, Top.at \notin LoopStages
  PROVE  Loops'
<1>1. Len(frames) \in Nat \ {0} /\ frames \in Seq(Frame) /\ Top = frames[Len(frames)]
  BY TopFacts
<1>2. /\ frames' \in Seq(Frame)
      /\ Len(frames') = Len(frames) - 1
      /\ \A k \in 1 .. Len(frames) - 1 : frames'[k] = frames[k]
  BY <1>1, PopFacts
<1>3. \A k \in 1 .. Len(frames) : k = Len(frames) \/ k \in 1 .. Len(frames')
  BY <1>1, <1>2
<1>4. \A k \in 1 .. Len(frames') : k \in 1 .. Len(frames) /\ frames'[k] = frames[k]
  BY <1>1, <1>2
<1>. QED
  BY <1>1, <1>2, <1>3, <1>4, LoopsKept

\* A function that is no loop is called.
LEMMA PushLoops ==
  ASSUME frames \in Seq(Frame), Loops, NEW f \in Frame, Push(f), LoopsUnchanged,
         f.at \notin LoopStages
  PROVE  Loops'
<1>1. Len(frames) \in Nat
  OBVIOUS
<1>2. /\ frames' \in Seq(Frame)
      /\ Len(frames') = Len(frames) + 1
      /\ frames'[Len(frames')] = f
      /\ \A k \in 1 .. Len(frames) : frames'[k] = frames[k]
  BY PushFacts
<1>3. \A k \in 1 .. Len(frames') : k = Len(frames') \/ k \in 1 .. Len(frames)
  BY <1>1, <1>2
<1>4. \A k \in 1 .. Len(frames) : k \in 1 .. Len(frames')
  BY <1>1, <1>2
<1>. QED
  BY <1>2, <1>3, <1>4, LoopsKept

\* The function on top goes on; if it is a loop it keeps its two targets.
LEMMA ReplaceLoops ==
  ASSUME Core, Loops, Len(frames) > 0, NEW f \in Frame, Replace(f), LoopsUnchanged,
         f.at \in LoopStages <=> Top.at \in LoopStages,
         f.at \in LoopStages => f.end_block = Top.end_block /\ ContinueOf(f) = ContinueOf(Top)
  PROVE  Loops'
<1>1. Len(frames) \in Nat \ {0} /\ frames \in Seq(Frame) /\ Top = frames[Len(frames)]
  BY TopFacts
<1>2. /\ frames' \in Seq(Frame)
      /\ Len(frames') = Len(frames)
      /\ frames'[Len(frames)] = f
      /\ \A k \in 1 .. Len(frames) : k # Len(frames) => frames'[k] = frames[k]
  BY <1>1, ReplaceFacts
<1>3. \A k \in 1 .. Len(frames) :
        /\ frames'[k].at \in LoopStages <=> frames[k].at \in LoopStages
        /\ frames'[k].at \in LoopStages =>
             frames'[k].end_block = frames[k].end_block /\ ContinueOf(frames'[k]) = ContinueOf(frames[k])
  BY <1>1, <1>2
<1>. QED
  BY <1>1, <1>2, <1>3, LoopsKept

\* The actions that return from a function that is no loop.
LEMMA EndsLoops ==
  ASSUME Core, Loops,
         \/ \E returns_void \in BOOLEAN : EndMethod(returns_void)
         \/ EndAssignment \/ EndCall \/ EndShortCircuit \/ EndIf \/ EndElse \/ EndReturn
  PROVE  Loops'
<1>1. /\ Len(frames) > 0 /\ Pop /\ LoopsUnchanged
      /\ Top.at \in {"block", "source", "argument", "right", "if_block", "else_block", "return_value"}
  BY DEF EndMethod, EndAssignment, EndCall, EndShortCircuit, EndIf, EndElse, EndReturn,
         At, BlocksUnchanged
<1>. QED
  BY <1>1, PopLoops DEF LoopStages

\* The actions that call a function that is no loop.
LEMMA BeginsLoops ==
  ASSUME Core, Loops,
         \/ BeginMethod
         \/ \E indexed \in BOOLEAN : BeginAssignment(indexed)
         \/ BeginCall \/ BeginShortCircuit \/ BeginIf \/ BeginReturn
  PROVE  Loops'
<1>1. \A at \in Stage : FrameAt(at) \in Frame /\ FrameAt(at).at = at
  BY DEF FrameAt, Frame, BlockOrNone
<1>2. \E at \in {"block", "index", "source", "argument", "left", "if_condition", "return_value"} :
        Push(FrameAt(at)) /\ LoopsUnchanged
  BY DEF BeginMethod, BeginAssignment, AssignmentFrame, BeginCall, BeginShortCircuit,
         BeginIf, BeginReturn, BlocksUnchanged
<1>3. PICK at \in Stage \ LoopStages : Push(FrameAt(at)) /\ LoopsUnchanged
  BY <1>2 DEF Stage, LoopStages
<1>. QED
  BY <1>1, <1>3, PushLoops DEF Core

\* The branches of ifs and short circuits, and the else.
LEMMA BranchesLoops ==
  ASSUME Core, Loops, ShortCircuitBranch \/ IfBranch \/ Else
  PROVE  Loops'
<1>1. PICK b \in Block, at \in {"right", "if_block", "else_block"} :
        \/ Replace([FrameAt(at) EXCEPT !.false_block = b])
        \/ Replace([FrameAt(at) EXCEPT !.end_block = b])
  BY OneFresh, TwoFresh DEF ShortCircuitBranch, IfBranch, Else
<1>2. /\ Len(frames) > 0 /\ LoopsUnchanged
      /\ Top.at \in {"left", "if_condition", "if_block"}
  BY DEF ShortCircuitBranch, IfBranch, Else, At
<1>3. /\ [FrameAt(at) EXCEPT !.false_block = b] \in Frame
      /\ [FrameAt(at) EXCEPT !.end_block = b] \in Frame
      /\ [FrameAt(at) EXCEPT !.false_block = b].at = at
      /\ [FrameAt(at) EXCEPT !.end_block = b].at = at
  BY DEF FrameAt, Frame, Stage, BlockOrNone
<1>4. PICK f \in Frame : Replace(f) /\ f.at = at
  BY <1>1, <1>3
<1>. QED
  BY <1>2, <1>4, ReplaceLoops DEF LoopStages

\* The bounds check and the conditions of loops only move the function on top.
LEMMA GotoLoops ==
  ASSUME Core, Loops, BoundsCheck \/ WhileBranch \/ ForBranch
  PROVE  Loops'
<1>1. PICK at \in {"source", "while_body", "for_body"} :
        /\ Replace([Top EXCEPT !.at = at])
        /\ \/ Top.at = "index" /\ at = "source"
           \/ Top.at = "while_condition" /\ at = "while_body"
           \/ Top.at = "for_condition" /\ at = "for_body"
  BY DEF BoundsCheck, WhileBranch, ForBranch, At, Goto
<1>. DEFINE f == [Top EXCEPT !.at = at]
<1>2. Len(frames) > 0 /\ LoopsUnchanged
  BY DEF BoundsCheck, WhileBranch, ForBranch, At
<1>3. Top \in Frame
  BY <1>2, TopFacts
<1>4. /\ f \in Frame /\ f.at = at /\ f.end_block = Top.end_block
      /\ ContinueOf(f) = ContinueOf(Top)
  BY <1>3 DEF Frame, Stage, ContinueOf
<1>5. f.at \in LoopStages <=> Top.at \in LoopStages
  BY <1>1, <1>4 DEF LoopStages
<1>6. Replace(f)
  BY <1>1
<1>. HIDE DEF f
<1>. QED
  BY <1>2, <1>4, <1>5, <1>6, ReplaceLoops

\* Break and continue leave the functions and the stacks alone.
LEMMA SameFramesLoops ==
  ASSUME Core, Loops, Break \/ Continue
  PROVE  Loops'
<1>1. frames' = frames /\ LoopsUnchanged /\ frames \in Seq(Frame)
  BY DEF Break, Continue, Core
<1>. QED
  BY <1>1, LoopsKept

\* A for begins with its initial assignment, before push_loop.
LEMMA BeginForLoops ==
  ASSUME Core, Loops, NEW indexed \in BOOLEAN, BeginFor(indexed)
  PROVE  Loops'
<1>. DEFINE f == FrameAt("initial")
            g == AssignmentFrame(indexed)
<1>1. frames' = frames \o <<f, g>> /\ LoopsUnchanged /\ Len(frames) \in Nat /\ frames \in Seq(Frame)
  BY DEF BeginFor, BlocksUnchanged, Core
<1>2. f \in Frame /\ g \in Frame /\ f.at \notin LoopStages /\ g.at \notin LoopStages
  BY DEF AssignmentFrame, FrameAt, Frame, Stage, BlockOrNone, LoopStages
<1>. HIDE DEF f, g
<1>3. /\ frames' \in Seq(Frame) /\ Len(frames') = Len(frames) + 2
      /\ \A k \in 1 .. Len(frames) : frames'[k] = frames[k]
      /\ frames'[Len(frames) + 1] = f /\ frames'[Len(frames) + 2] = g
  BY <1>1, <1>2
<1>4. \A k \in 1 .. Len(frames') :
        k = Len(frames) + 1 \/ k = Len(frames) + 2 \/ k \in 1 .. Len(frames)
  BY <1>1, <1>3
<1>5. \A k \in 1 .. Len(frames) : k \in 1 .. Len(frames')
  BY <1>1, <1>3
<1>. QED
  BY <1>1, <1>2, <1>3, <1>4, <1>5, LoopsKept

\* The update of a for still counts as its loop.
LEMMA BeginUpdateLoops ==
  ASSUME Core, Loops, NEW child \in {"index", "source", "argument"}, BeginUpdate(child)
  PROVE  Loops'
<1>. DEFINE f == FrameAt(child)
            g == [Top EXCEPT !.at = "update"]
            n == Len(frames)
<1>1. /\ n > 0 /\ Top.at = "for_body" /\ LoopsUnchanged
      /\ frames' = Append([frames EXCEPT ![n] = g], f)
  BY DEF BeginUpdate, At
<1>2. n \in Nat \ {0} /\ frames \in Seq(Frame) /\ Top = frames[n] /\ Top \in Frame
  BY <1>1, TopFacts
<1>3. /\ f \in Frame /\ f.at \notin LoopStages
      /\ g \in Frame /\ g.at \in LoopStages /\ Top.at \in LoopStages
      /\ g.end_block = Top.end_block /\ ContinueOf(g) = ContinueOf(Top)
  BY <1>1, <1>2 DEF FrameAt, Frame, Stage, BlockOrNone, LoopStages, ContinueOf
<1>. HIDE DEF f, g
<1>4. /\ frames' \in Seq(Frame) /\ Len(frames') = n + 1
      /\ \A k \in 1 .. n : k # n => frames'[k] = frames[k]
      /\ frames'[n] = g /\ frames'[n + 1] = f
  BY <1>1, <1>2, <1>3
<1>5. \A k \in 1 .. Len(frames') : k = n + 1 \/ k \in 1 .. n
  BY <1>2, <1>4
<1>6. \A k \in 1 .. n : k \in 1 .. Len(frames')
  BY <1>2, <1>4
<1>. QED
  BY <1>1, <1>2, <1>3, <1>4, <1>5, <1>6, LoopsKept

\* A while pushes its end and condition blocks with its own frame.
LEMMA BeginWhileLoops ==
  ASSUME Core, Loops, BeginWhile
  PROVE  Loops'
<1>. DEFINE f == [FrameAt("while_condition") EXCEPT
                    !.condition_block = NewBlock(0),
                    !.loop_block = NewBlock(1), !.end_block = NewBlock(2)]
            m == Len(frames)
<1>1. /\ Len(frames) > 0 /\ Allocate(3) /\ Push(f)
      /\ PushLoop(NewBlock(2), NewBlock(0))
  BY DEF BeginWhile, AtStatement
<1>2. NewBlock(0) \in Block /\ NewBlock(1) \in Block /\ NewBlock(2) \in Block
  <2>1. 0 \in 0 .. 3 - 1 /\ 1 \in 0 .. 3 - 1 /\ 2 \in 0 .. 3 - 1
    OBVIOUS
  <2>. QED
    BY <1>1, <2>1, FreshFacts
<1>3. f \in Frame /\ f.at \in LoopStages
  BY <1>2, FrameAtFacts, ZenonT(40) DEF FrameAt, Stage, LoopStages
<1>4. f.end_block = NewBlock(2) /\ ContinueOf(f) = NewBlock(0)
  BY DEF FrameAt, ContinueOf
<1>. HIDE DEF f
<1>5. m \in Nat /\ frames \in Seq(Frame)
  BY <1>1, TopFacts
<1>6. /\ frames' \in Seq(Frame)
      /\ Len(frames') = m + 1
      /\ frames'[m + 1] = f
      /\ \A k \in 1 .. m : frames'[k] = frames[k]
  BY <1>1, <1>3, <1>5, PushFacts
<1>. QED
  BY <1>1, <1>2, <1>3, <1>4, <1>5, <1>6, LoopPushed

\* A for pushes its end and update blocks when its frame becomes a loop.
LEMMA EnterForLoops ==
  ASSUME Core, Loops, EnterFor
  PROVE  Loops'
<1>. DEFINE f == [FrameAt("for_condition") EXCEPT
                    !.condition_block = NewBlock(0), !.loop_block = NewBlock(1),
                    !.update_block = NewBlock(2), !.end_block = NewBlock(3)]
            m == Len(frames) - 1
<1>1. /\ Len(frames) > 0 /\ Allocate(4) /\ Top.at = "initial" /\ Replace(f)
      /\ PushLoop(NewBlock(3), NewBlock(2))
  BY DEF EnterFor, At
<1>2. NewBlock(0) \in Block /\ NewBlock(1) \in Block /\ NewBlock(2) \in Block /\ NewBlock(3) \in Block
  <2>1. 0 \in 0 .. 4 - 1 /\ 1 \in 0 .. 4 - 1 /\ 2 \in 0 .. 4 - 1 /\ 3 \in 0 .. 4 - 1
    OBVIOUS
  <2>. QED
    BY <1>1, <2>1, FreshFacts
<1>3. f \in Frame /\ f.at \in LoopStages
  BY <1>2, FrameAtFacts, ZenonT(40) DEF FrameAt, Stage, LoopStages
<1>4. f.end_block = NewBlock(3) /\ ContinueOf(f) = NewBlock(2)
  BY <1>2 DEF FrameAt, ContinueOf, Block, NoBlock
<1>. HIDE DEF f
<1>5. /\ m \in Nat /\ Len(frames) = m + 1 /\ frames \in Seq(Frame) /\ Top = frames[m + 1]
      /\ Top.at \notin LoopStages
  BY <1>1, TopFacts DEF LoopStages
<1>6. /\ frames' \in Seq(Frame)
      /\ Len(frames') = m + 1
      /\ frames'[m + 1] = f
      /\ \A k \in 1 .. m + 1 : k # m + 1 => frames'[k] = frames[k]
  BY <1>1, <1>3, <1>5, ReplaceFacts
<1>. HIDE DEF m
<1>7. \A k \in 1 .. m + 1 : k = m + 1 \/ k \in 1 .. m
  BY <1>5
<1>8. \A k \in 1 .. m : k \in 1 .. m + 1 /\ k # m + 1
  BY <1>5
<1>9. /\ \A k \in 1 .. Len(frames) : frames[k].at \in LoopStages =>
           k \in 1 .. m /\ frames'[k].at \in LoopStages
      /\ \A k \in 1 .. m : frames'[k].at \in LoopStages =>
           k \in 1 .. Len(frames) /\ frames'[k] = frames[k]
  BY <1>5, <1>6, <1>7, <1>8
<1>10. PushLoop(f.end_block, ContinueOf(f)) /\ f.end_block \in Block /\ ContinueOf(f) \in Block
  BY <1>1, <1>2, <1>4
<1>. QED
  BY <1>3, <1>5, <1>6, <1>9, <1>10, LoopPushed

\* A loop pops both stacks with its own frame.
LEMMA EndsLoop ==
  ASSUME Core, Loops, EndWhile \/ EndFor
  PROVE  Loops'
<1>. DEFINE m == Len(frames) - 1
<1>1. Len(frames) > 0 /\ Pop /\ PopLoop /\ Top.at \in {"while_body", "update"}
  BY DEF EndWhile, EndFor, At
<1>2. /\ m \in Nat /\ Len(frames) = m + 1 /\ frames \in Seq(Frame) /\ Top = frames[m + 1]
      /\ Top.at \in LoopStages
  BY <1>1, TopFacts, SMTT(30) DEF LoopStages
<1>3. /\ frames' \in Seq(Frame) /\ Len(frames') = m
      /\ \A k \in 1 .. m : frames'[k] = frames[k]
  BY <1>1, <1>2, PopFacts
<1>. HIDE DEF m
<1>. QED
  BY <1>1, <1>2, <1>3, LoopPopped

-----------------------------------------------------------------------------
(* The inductive invariant and the theorems.                                 *)

\* LoopStacksMatchLoops keeps the targets of break and continue typed, Shape and
\* Placement keep every block a function still holds fresh and in one place, and
\* with both a step that ends a block by a branch makes its true_block current.
IInv == Core /\ Loops

\* The invariant contains the types.
LEMMA IInvTypes == IInv => TypeOK
BY DEF IInv, Core, Loops, TypeOK

\* An empty program satisfies the invariant.
LEMMA InitIInv == Init => IInv
<1>. SUFFICES ASSUME Init PROVE IInv
  OBVIOUS
<1>1. /\ Len(frames) = 0 /\ Len(layout) = 0 /\ frames = <<>> /\ layout = <<>>
      /\ \A k : k \notin 1 .. Len(frames) /\ k \notin 1 .. Len(layout)
  BY DEF Init
<1>2. MaxBlocks \in Nat
  BY BoundsAssumption DEF BoundsAssumption
<1>3. Shape
  BY <1>1 DEF Init, Shape
<1>4. Placement
  <2>1. PendingAreBlocks /\ NoBlockTwice
    BY <1>1 DEF PendingAreBlocks, NoBlockTwice, IsPending
  <2>2. \A b \in Block : ~ b < 0 /\ b # NoBlock
    BY <1>2 DEF Block, NoBlock
  <2>3. NoBlockLost
    BY <1>1, <2>2 DEF Init, NoBlockLost, IsPlaced, IsPending
  <2>. QED
    BY <2>1, <2>3 DEF Placement
<1>5. BranchFallsThrough /\ BranchesHaveTargets
  BY <1>1 DEF Init, BranchFallsThrough, BranchesHaveTargets, Unset
<1>6. Core
  BY <1>1, <1>2, <1>3, <1>4, <1>5
     DEF Core, Init, Terminal, TerminalType, Unset, BlockOrNone
<1>7. LoopStacksMatchLoops
  <2>1. Depth(frames, 0) = 0
    <3>1. {i \in 1 .. 0 : frames[i].at \in LoopStages} = {}
      OBVIOUS
    <3>. QED
      BY <3>1, FS_EmptySet DEF Depth
  <2>. QED
    BY <1>1, <2>1 DEF Init, LoopStacksMatchLoops, LoopDepth, Depth
<1>. QED
  BY <1>6, <1>7 DEF IInv, Loops, Init

\* Every action keeps the invariant.
LEMMA NextIInv == IInv /\ [Next]_vars => IInv'
<1>. SUFFICES ASSUME IInv, [Next]_vars PROVE IInv'
  OBVIOUS
<1>1. TypeOK /\ Core /\ Loops
  BY IInvTypes DEF IInv
<1>2. CASE BeginMethod
  BY <1>1, <1>2, BeginMethodCore, BeginsLoops DEF IInv
<1>3. ASSUME NEW returns_void \in BOOLEAN, EndMethod(returns_void) PROVE IInv'
  BY <1>1, <1>3, EndMethodCore, EndsLoops DEF IInv
<1>4. ASSUME NEW indexed \in BOOLEAN, BeginAssignment(indexed) PROVE IInv'
  <2>1. /\ AssignmentFrame(indexed) \in Frame
        /\ AssignmentFrame(indexed).at \in {"index", "source"}
    BY DEF AssignmentFrame, FrameAt, Frame, Stage, BlockOrNone
  <2>2. Core'
    BY <1>1, <1>4, <2>1, CallCore DEF BeginAssignment, AtStatement
  <2>. QED
    BY <1>1, <1>4, <2>2, BeginsLoops DEF IInv
<1>5. CASE BoundsCheck
  BY <1>1, <1>5, BoundsCheckCore, GotoLoops DEF IInv
<1>6. CASE EndAssignment \/ EndCall
  BY <1>1, <1>6, ReturnCore, EndsLoops DEF IInv
<1>7. CASE BeginCall \/ BeginShortCircuit \/ BeginIf \/ BeginReturn
  <2>1. \A at \in Stage : FrameAt(at) \in Frame /\ FrameAt(at).at = at
    BY DEF FrameAt, Frame, BlockOrNone
  <2>2. PICK at \in {"argument", "left", "if_condition", "return_value"} :
          Len(frames) > 0 /\ Push(FrameAt(at)) /\ BlocksUnchanged
    BY <1>7 DEF BeginCall, BeginShortCircuit, BeginIf, BeginReturn, AtStatement, AtExpression
  <2>3. Core'
    BY <1>1, <2>1, <2>2, CallCore DEF Stage
  <2>. QED
    BY <1>1, <1>7, <2>3, BeginsLoops DEF IInv
<1>8. CASE ShortCircuitBranch \/ IfBranch
  BY <1>1, <1>8, IfBranchCore, BranchesLoops DEF IInv
<1>9. CASE Else
  BY <1>1, <1>9, ElseCore, BranchesLoops DEF IInv
<1>10. CASE EndShortCircuit \/ EndIf \/ EndElse
  BY <1>1, <1>10, ReturningCore, EndsLoops DEF IInv
<1>11. CASE BeginWhile
  BY <1>1, <1>11, BeginWhileCore, BeginWhileLoops DEF IInv
<1>12. CASE WhileBranch \/ ForBranch
  BY <1>1, <1>12, LoopBranchCore, GotoLoops DEF IInv
<1>13. CASE EndWhile \/ EndFor
  BY <1>1, <1>13, ReturningCore, EndsLoop DEF IInv
<1>14. ASSUME NEW indexed \in BOOLEAN, BeginFor(indexed) PROVE IInv'
  BY <1>1, <1>14, BeginForCore, BeginForLoops DEF IInv
<1>15. CASE EnterFor
  BY <1>1, <1>15, EnterForCore, EnterForLoops DEF IInv
<1>16. ASSUME NEW child \in {"index", "source", "argument"}, BeginUpdate(child) PROVE IInv'
  BY <1>1, <1>16, BeginUpdateCore, BeginUpdateLoops DEF IInv
<1>17. CASE EndReturn
  BY <1>1, <1>17, EndReturnCore, EndsLoops DEF IInv
<1>18. CASE Break \/ Continue
  <2>1. InsideLoop /\ frames \in Seq(Frame)
    BY <1>1, <1>18 DEF Break, Continue, Core
  <2>2. BreakBlock \in Block /\ ContinueBlock \in Block
    BY <1>1, <2>1, LeaveTargets
  <2>. QED
    BY <1>1, <1>18, <2>2, LeaveCore, SameFramesLoops DEF IInv
<1>19. CASE UNCHANGED vars
  <2>1. /\ UNCHANGED <<block_counter, current_block, layout, methods, terminal, predecessors>>
        /\ UNCHANGED <<break_blocks, continue_blocks, frames>>
    BY <1>19 DEF vars
  <2>2. Shape' /\ BranchFallsThrough' /\ BranchesHaveTargets'
    BY <1>1, <2>1 DEF Core, Shape, BranchFallsThrough, BranchesHaveTargets
  <2>3. PendingAreBlocks' /\ NoBlockTwice'
    BY <1>1, <2>1 DEF Core, Placement, PendingAreBlocks, NoBlockTwice, IsPending
  <2>4. NoBlockLost'
    BY <1>1, <2>1 DEF Core, Placement, NoBlockLost, IsPlaced, IsPending
  <2>5. Core'
    BY <1>1, <2>1, <2>2, <2>3, <2>4 DEF Core, Placement
  <2>6. Loops'
    BY <1>1, <2>1, LoopsKept DEF Core, LoopsUnchanged
  <2>. QED
    BY <2>5, <2>6 DEF IInv
<1>. QED
  BY <1>2, <1>3, <1>4, <1>5, <1>6, <1>7, <1>8, <1>9, <1>10, <1>11, <1>12, <1>13,
     <1>14, <1>15, <1>16, <1>17, <1>18, <1>19 DEF Next


\* Every reachable state satisfies the inductive invariant.
THEOREM Invariance == Spec => []IInv
BY InitIInv, NextIInv, PTL DEF Spec

\* Every variable of the generator keeps its type; in particular break and
\* continue always find a block on their stacks to jump to.
THEOREM TypesAreCorrect == Spec => []TypeOK
BY Invariance, IInvTypes, PTL

\* The contract with generate_branch of code_generator.c, which emits no jump to
\* true_block: in a program of any size, whatever statements and expressions it
\* holds, the true_block of a branch is the next block of the text.
THEOREM BranchesFallThrough == Spec => []BranchFallsThrough
<1>1. IInv => BranchFallsThrough
  BY DEF IInv, Core
<1>. QED
  BY <1>1, Invariance, PTL

\* next_block is never called twice with one block.
THEOREM BlocksArePlacedOnce == Spec => []NoBlockTwice
<1>1. IInv => NoBlockTwice
  BY DEF IInv, Core, Placement
<1>. QED
  BY <1>1, Invariance, PTL

\* Every block of new_block is placed, current, or still held by a function.
THEOREM BlocksAreNotLost == Spec => []NoBlockLost
<1>1. IInv => NoBlockLost
  BY DEF IInv, Core, Placement
<1>. QED
  BY <1>1, Invariance, PTL

\* push_loop and pop_loop are balanced at every nesting depth, so the assertions
\* of get_break_block, get_continue_block and pop_loop never fail.
THEOREM LoopStacksAreBalanced == Spec => []LoopStacksMatchLoops
<1>1. IInv => LoopStacksMatchLoops
  BY DEF IInv, Loops
<1>. QED
  BY <1>1, Invariance, PTL

-----------------------------------------------------------------------------
(* The flow graph: the predecessors of every block are the inverse of the    *)
(* terminals (Graph), finished methods are closed (Closed), and break and    *)
(* continue lead out of, or back into, the innermost loop.  A block gets its *)
(* terminal in the step that places it, and none before, so that each step   *)
(* adds the edges of one block which had none.                               *)

\* What is not placed has no terminal yet.
UnplacedAreUnset == \A b \in Block : ~ IsPlaced(b) => terminal[b] = Unset

Entered(p, b) == \E i \in 1 .. Len(predecessors[b]) : predecessors[b][i] = p
NoRepeats(b) ==
  \A i, j \in 1 .. Len(predecessors[b]) : predecessors[b][i] = predecessors[b][j] => i = j

\* PredecessorsMatchTerminals, edge by edge.
EntriesAreEdges ==
  \A b \in Block :
    /\ \A p \in Block : Entered(p, b) <=> b \in Successors(terminal[p])
    /\ NoRepeats(b)

Graph == UnplacedAreUnset /\ EntriesAreEdges

-----------------------------------------------------------------------------

\* Terminals that end a method or the program have no successors.
LEMMA NoSuccessors ==
  /\ Successors(Unset) = {}
  /\ Successors(Return) = {}
  /\ Successors(ShitYourself) = {}
BY DEF Successors, Unset, Return, ShitYourself, NoBlock

\* The current block has no terminal.
LEMMA CurrentIsUnset ==
  ASSUME Core, UnplacedAreUnset, Len(frames) > 0
  PROVE  current_block \in Block /\ ~ IsPlaced(current_block) /\ terminal[current_block] = Unset
<1>1. current_block \in Block
  BY TopFacts
<1>2. ~ IsPlaced(current_block)
  BY DEF Core, Placement, NoBlockTwice, IsPlaced
<1>. QED
  BY <1>1, <1>2 DEF UnplacedAreUnset

\* The blocks placed after the current one is.
LEMMA PlacedAfter ==
  ASSUME TypeOK, layout' = Append(layout, current_block)
  PROVE  \A b \in Block : IsPlaced(b)' <=> IsPlaced(b) \/ b = current_block
<1>1. /\ Len(layout) \in Nat /\ Len(layout') = Len(layout) + 1
      /\ layout'[Len(layout) + 1] = current_block
      /\ \A i \in 1 .. Len(layout) : layout'[i] = layout[i]
  BY DEF TypeOK
<1>2. Len(layout) + 1 \in 1 .. Len(layout')
  BY <1>1
<1>. QED
  BY <1>1, <1>2 DEF IsPlaced

\* What a list has once an element is appended.
LEMMA AppendFacts ==
  ASSUME NEW S, NEW l \in Seq(S), NEW e \in S, NEW m, m = Append(l, e)
  PROVE  /\ \A p : (\E i \in 1 .. Len(m) : m[i] = p) <=> (\E i \in 1 .. Len(l) : l[i] = p) \/ p = e
         /\ (/\ \A i, j \in 1 .. Len(l) : l[i] = l[j] => i = j
             /\ ~ \E i \in 1 .. Len(l) : l[i] = e)
              => \A i, j \in 1 .. Len(m) : m[i] = m[j] => i = j
<1>1. /\ Len(l) \in Nat /\ Len(m) = Len(l) + 1
      /\ m[Len(l) + 1] = e
      /\ \A i \in 1 .. Len(l) : m[i] = l[i]
  OBVIOUS
<1>2. \A i : i \in 1 .. Len(m) <=> i \in 1 .. Len(l) \/ i = Len(l) + 1
  BY <1>1
<1>3. \A p : (\E i \in 1 .. Len(m) : m[i] = p) <=> (\E i \in 1 .. Len(l) : l[i] = p) \/ p = e
  BY <1>1, <1>2
<1>. QED
  BY <1>1, <1>2, <1>3

\* The predecessors of s once block b has got terminal t.
LEMMA EnteredAfter ==
  ASSUME predecessors \in [Block -> Seq(Block)], NEW b \in Block, NEW t, NEW s \in Block,
         predecessors' = AddPredecessor(predecessors, b, t)
  PROVE  /\ \A p \in Block : Entered(p, s)' <=> Entered(p, s) \/ (p = b /\ s \in Successors(t))
         /\ NoRepeats(s) /\ ~ Entered(b, s) => NoRepeats(s)'
<1>1. predecessors[s] \in Seq(Block)
  OBVIOUS
<1>2. CASE s \notin Successors(t)
  <2>1. predecessors'[s] = predecessors[s]
    BY <1>2 DEF AddPredecessor
  <2>. QED
    BY <1>2, <2>1 DEF Entered, NoRepeats
<1>3. CASE s \in Successors(t)
  <2>1. predecessors'[s] = Append(predecessors[s], b)
    BY <1>3 DEF AddPredecessor
  <2>2. b \in Block /\ predecessors[s] \in Seq(Block)
    BY <1>1
  <2>4. \A p \in Block : Entered(p, s)' <=> Entered(p, s) \/ p = b
    BY <2>1, <2>2, AppendFacts DEF Entered
  <2>5. NoRepeats(s) /\ ~ Entered(b, s) => NoRepeats(s)'
    BY <2>1, <2>2, AppendFacts DEF Entered, NoRepeats
  <2>. QED
    BY <1>3, <2>4, <2>5
<1>. QED
  BY <1>2, <1>3

\* set_terminal on a block that has none keeps the lists the inverse of the terminals.
LEMMA SetTerminal ==
  ASSUME TypeOK, EntriesAreEdges, NEW b \in Block, terminal[b] = Unset, NEW t \in Terminal,
         terminal' = [terminal EXCEPT ![b] = t],
         predecessors' = AddPredecessor(predecessors, b, t)
  PROVE  EntriesAreEdges'
<1>1. /\ terminal'[b] = t
      /\ \A p \in Block : p # b => terminal'[p] = terminal[p]
      /\ predecessors \in [Block -> Seq(Block)]
  BY DEF TypeOK
<1>. SUFFICES ASSUME NEW s \in Block
              PROVE  /\ \A p \in Block : Entered(p, s)' <=> s \in Successors(terminal'[p])
                     /\ NoRepeats(s)'
  BY DEF EntriesAreEdges
<1>2. ~ Entered(b, s)
  BY NoSuccessors DEF EntriesAreEdges
<1>3. /\ \A p \in Block : Entered(p, s)' <=> Entered(p, s) \/ (p = b /\ s \in Successors(t))
      /\ NoRepeats(s)'
  BY <1>1, <1>2, EnteredAfter DEF EntriesAreEdges
<1>. QED
  BY <1>1, <1>2, <1>3 DEF EntriesAreEdges

\* A step that ends the current block.
LEMMA EndBlockGraph ==
  ASSUME TypeOK, Core, Graph, Len(frames) > 0, NEW t \in Terminal, NEW b, EndBlock(t, b)
  PROVE  Graph'
<1>1. current_block \in Block /\ terminal[current_block] = Unset
  BY CurrentIsUnset DEF Graph
<1>2. EntriesAreEdges'
  BY <1>1, SetTerminal DEF Graph, EndBlock
<1>3. \A c \in Block : c # current_block => terminal'[c] = terminal[c]
  BY DEF TypeOK, EndBlock
<1>4. UnplacedAreUnset'
  BY <1>3, PlacedAfter DEF Graph, UnplacedAreUnset, EndBlock
<1>. QED
  BY <1>2, <1>4 DEF Graph

\* A step that ends none.
LEMMA UnchangedGraph ==
  ASSUME Graph, UNCHANGED <<layout, terminal, predecessors>>
  PROVE  Graph'
BY DEF Graph, UnplacedAreUnset, IsPlaced, EntriesAreEdges, Entered, NoRepeats

-----------------------------------------------------------------------------
(* Methods are closed.  The blocks of the method being generated are those   *)
(* that exist and are in no finished method: nothing ever takes one away.    *)

Start == IF methods = <<>> THEN 0 ELSE methods[Len(methods)]
Own(c) == c < block_counter /\ \A i \in 1 .. Start : layout[i] # c

MethodsInLayout == \A m \in 1 .. Len(methods) : methods[m] =< Len(layout)

\* So far the method's blocks have terminals that go to blocks of its own, ...
SuccessorsAreOwn ==
  \A i \in 1 .. Len(layout) : i > Start =>
    /\ terminal[layout[i]].type # "unknown"
    /\ \A s \in Block : s \in Successors(terminal[layout[i]]) => Own(s)

\* ... and so will those that jump to a block some function remembers.
TargetsAreOwn ==
  /\ \A i \in 1 .. Len(break_blocks) : \A c \in Block : c = break_blocks[i] => Own(c)
  /\ \A i \in 1 .. Len(continue_blocks) : \A c \in Block : c = continue_blocks[i] => Own(c)
  /\ \A k \in 1 .. Len(frames) : \A c \in Block : c = frames[k].condition_block => Own(c)

Closed == MethodsInLayout /\ MethodsAreClosed /\ SuccessorsAreOwn /\ TargetsAreOwn

\* What every step within a method has in common.
Grows ==
  /\ UNCHANGED methods
  /\ block_counter' \in Nat /\ block_counter' >= block_counter
  /\ Len(layout') \in Nat /\ Len(layout') >= Len(layout)
  /\ \A i \in 1 .. Len(layout) : /\ layout'[i] = layout[i]
                                /\ terminal'[layout[i]] = terminal[layout[i]]

\* Start is in the layout.
LEMMA StartFacts ==
  ASSUME TypeOK, MethodsInLayout
  PROVE  Start \in Nat /\ Start =< Len(layout) /\ Len(layout) \in Nat
<1>1. /\ Len(methods) \in Nat /\ Len(layout) \in Nat
      /\ \A m \in 1 .. Len(methods) : methods[m] \in Nat
      /\ methods # <<>> => Len(methods) \in 1 .. Len(methods)
  BY DEF TypeOK
<1>. QED
  BY <1>1 DEF Start, MethodsInLayout

\* A method's blocks stay its own.
LEMMA OwnKept ==
  ASSUME TypeOK, MethodsInLayout, Grows
  PROVE  Start' = Start /\ \A c \in Block : Own(c) => Own(c)'
<1>1. Start' = Start
  BY DEF Start, Grows
<1>2. \A i \in 1 .. Start : layout'[i] = layout[i]
  BY StartFacts DEF Grows
<1>3. \A c \in Block : c < block_counter => c < block_counter'
  BY BoundsAssumption DEF BoundsAssumption, Block, TypeOK, Grows
<1>. QED
  BY <1>1, <1>2, <1>3 DEF Own

\* New blocks are the method's own.
LEMMA FreshIsOwn ==
  ASSUME TypeOK, Core, MethodsInLayout, Grows, NEW n \in Nat, Allocate(n)
  PROVE  \A c \in Fresh(n) : c \in Block /\ Own(c)'
<1>. SUFFICES ASSUME NEW c \in Fresh(n) PROVE c \in Block /\ Own(c)'
  OBVIOUS
<1>1. c \in Block /\ block_counter =< c /\ c < block_counter'
  BY FreshFacts DEF Fresh
<1>2. \A i \in 1 .. Len(layout) : layout[i] \in Block /\ layout[i] < block_counter
  BY DEF Core, Placement, NoBlockLost, IsPlaced
<1>3. \A i \in 1 .. Len(layout) : layout[i] # c
  BY <1>1, <1>2, BoundsAssumption, SMTT(30) DEF BoundsAssumption, Block, TypeOK
<1>4. \A i \in 1 .. Start' : layout'[i] # c
  BY <1>3, StartFacts, OwnKept DEF Grows
<1>. QED
  BY <1>1, <1>4 DEF Own

\* So are the blocks that are held, and the current one.
LEMMA HeldIsOwn ==
  ASSUME TypeOK, Core, MethodsInLayout, NEW c \in Block, IsPending(c) \/ c = current_block
  PROVE  Own(c)
<1>1. c < block_counter
  BY DEF Core, Placement, NoBlockLost
<1>2. \A i \in 1 .. Len(layout) : layout[i] # c
  BY DEF Core, Placement, NoBlockTwice
<1>. QED
  BY <1>1, <1>2, StartFacts DEF Own

\* Finished methods stay closed.
LEMMA ClosedKept ==
  ASSUME TypeOK, MethodsInLayout, MethodsAreClosed, Grows
  PROVE  MethodsInLayout' /\ MethodsAreClosed'
<1>1. /\ \A m \in 1 .. Len(methods) : methods[m] \in Nat /\ methods[m] =< Len(layout)
      /\ Len(layout) \in Nat /\ Len(methods) \in Nat
  BY DEF TypeOK, MethodsInLayout
<1>2. MethodsInLayout'
  BY <1>1 DEF MethodsInLayout, Grows
<1>3. \A m \in 1 .. Len(methods) : Positions(m)' = Positions(m)
  BY DEF Positions, Grows
<1>4. \A m \in 1 .. Len(methods) : Positions(m) \subseteq 1 .. Len(layout)
  <2>. SUFFICES ASSUME NEW m \in 1 .. Len(methods) PROVE Positions(m) \subseteq 1 .. Len(layout)
    OBVIOUS
  <2>1. m # 1 => m - 1 \in 1 .. Len(methods)
    BY <1>1
  <2>. QED
    BY <1>1, <2>1 DEF Positions
<1>5. ASSUME NEW m \in 1 .. Len(methods), NEW i \in Positions(m)
      PROVE  /\ terminal'[layout'[i]].type # "unknown"
             /\ \A s \in Successors(terminal'[layout'[i]]) : \E j \in Positions(m) : layout'[j] = s
  <2>1. /\ terminal[layout[i]].type # "unknown"
        /\ \A s \in Successors(terminal[layout[i]]) : \E j \in Positions(m) : layout[j] = s
    BY DEF MethodsAreClosed
  <2>2. terminal'[layout'[i]] = terminal[layout[i]]
    BY <1>4 DEF Grows
  <2>3. \A j \in Positions(m) : layout'[j] = layout[j]
    BY <1>4 DEF Grows
  <2>. QED
    BY <2>1, <2>2, <2>3
<1>6. MethodsAreClosed'
  <2>1. Len(methods') = Len(methods)
    BY DEF Grows
  <2>. QED
    BY <1>3, <1>5, <2>1 DEF MethodsAreClosed
<1>. QED
  BY <1>2, <1>6

-----------------------------------------------------------------------------
(* What an action remembers, it remembered or owns.                          *)

FramesFrom ==
  \A k \in 1 .. Len(frames') : \A c \in Block : c = frames'[k].condition_block =>
    Own(c)' \/ \E j \in 1 .. Len(frames) : frames[j].condition_block = c

LoopsFrom ==
  /\ \A i \in 1 .. Len(break_blocks') : \A c \in Block : c = break_blocks'[i] =>
       Own(c)' \/ \E j \in 1 .. Len(break_blocks) : break_blocks[j] = c
  /\ \A i \in 1 .. Len(continue_blocks') : \A c \in Block : c = continue_blocks'[i] =>
       Own(c)' \/ \E j \in 1 .. Len(continue_blocks) : continue_blocks[j] = c

\* Then every remembered target is the method's own.
LEMMA TargetsKept ==
  ASSUME TypeOK, MethodsInLayout, TargetsAreOwn, Grows, FramesFrom, LoopsFrom
  PROVE  TargetsAreOwn'
<1>1. \A c \in Block : Own(c) => Own(c)'
  BY OwnKept
<1>2. \A k \in 1 .. Len(frames') : \A c \in Block : c = frames'[k].condition_block => Own(c)'
  BY <1>1 DEF TargetsAreOwn, FramesFrom
<1>3. \A i \in 1 .. Len(break_blocks') : \A c \in Block : c = break_blocks'[i] => Own(c)'
  BY <1>1 DEF TargetsAreOwn, LoopsFrom
<1>4. \A i \in 1 .. Len(continue_blocks') : \A c \in Block : c = continue_blocks'[i] => Own(c)'
  BY <1>1 DEF TargetsAreOwn, LoopsFrom
<1>. QED
  BY <1>2, <1>3, <1>4 DEF TargetsAreOwn

\* A return remembers nothing new.
LEMMA PopFrom ==
  ASSUME frames \in Seq(Frame), Len(frames) > 0, Pop
  PROVE  FramesFrom
<1>1. /\ Len(frames) \in Nat /\ Len(frames') = Len(frames) - 1
      /\ \A k \in 1 .. Len(frames) - 1 : frames'[k] = frames[k]
  BY PopFacts
<1>. QED
  BY <1>1 DEF FramesFrom

\* A call remembers what its frame holds.
LEMMA PushFrom ==
  ASSUME frames \in Seq(Frame), NEW f \in Frame, Push(f),
         \A c \in Block : c = f.condition_block => Own(c)'
  PROVE  FramesFrom
<1>1. /\ Len(frames) \in Nat /\ Len(frames') = Len(frames) + 1
      /\ frames'[Len(frames')] = f
      /\ \A k \in 1 .. Len(frames) : frames'[k] = frames[k]
  BY PushFacts
<1>2. \A k \in 1 .. Len(frames') : k \in 1 .. Len(frames) \/ frames'[k] = f
  BY <1>1
<1>. QED
  BY <1>1, <1>2 DEF FramesFrom

\* The function on top keeps its condition, or gets one of its own.
LEMMA ReplaceFrom ==
  ASSUME frames \in Seq(Frame), Len(frames) > 0, NEW f \in Frame, Replace(f),
         \A c \in Block : c = f.condition_block => Own(c)' \/ c = Top.condition_block
  PROVE  FramesFrom
<1>1. /\ Len(frames') = Len(frames)
      /\ frames'[Len(frames)] = f
      /\ \A k \in 1 .. Len(frames) : k # Len(frames) => frames'[k] = frames[k]
      /\ Len(frames) \in 1 .. Len(frames)
  BY ReplaceFacts
<1>. QED
  BY <1>1 DEF FramesFrom, Top

\* No loop begins or ends.
LEMMA SameLoopsFrom ==
  ASSUME LoopsUnchanged
  PROVE  LoopsFrom
BY DEF LoopsUnchanged, LoopsFrom

\* pop_loop.
LEMMA PopLoopFrom ==
  ASSUME TypeOK, PopLoop
  PROVE  LoopsFrom
<1>1. \A s \in Seq(Block) : \A i \in 1 .. Len(SubSeq(s, 1, Len(s) - 1)) :
        i \in 1 .. Len(s) /\ SubSeq(s, 1, Len(s) - 1)[i] = s[i]
  OBVIOUS
<1>. QED
  BY <1>1 DEF TypeOK, PopLoop, LoopsFrom

\* push_loop.
LEMMA PushLoopFrom ==
  ASSUME TypeOK, NEW b \in Block, NEW d \in Block, PushLoop(b, d), Own(b)', Own(d)'
  PROVE  LoopsFrom
<1>1. ASSUME NEW s \in Seq(Block), NEW e \in Block, NEW i \in 1 .. Len(Append(s, e))
      PROVE  Append(s, e)[i] = e \/ (i \in 1 .. Len(s) /\ Append(s, e)[i] = s[i])
  OBVIOUS
<1>. QED
  BY <1>1, SMTT(30) DEF TypeOK, PushLoop, LoopsFrom

-----------------------------------------------------------------------------
(* The three kinds of steps within a method.                                 *)

\* A step that ends no block.
LEMMA QuietStep ==
  ASSUME TypeOK, Graph, Closed, BlocksUnchanged, FramesFrom
  PROVE  Graph' /\ Closed'
<1>1. Graph'
  BY UnchangedGraph DEF BlocksUnchanged
<1>2. Grows
  BY BoundsAssumption DEF BoundsAssumption, TypeOK, BlocksUnchanged, Grows
<1>3. MethodsInLayout' /\ MethodsAreClosed' /\ TargetsAreOwn'
  BY <1>2, ClosedKept, TargetsKept, SameLoopsFrom DEF Closed, BlocksUnchanged
<1>4. SuccessorsAreOwn'
  BY <1>2, OwnKept DEF Closed, SuccessorsAreOwn, BlocksUnchanged
<1>. QED
  BY <1>1, <1>3, <1>4 DEF Closed

\* Ending the current block takes nothing away.
LEMMA EndBlockGrows ==
  ASSUME TypeOK, Core, Graph, Len(frames) > 0, NEW n \in Nat, Allocate(n), NEW t, NEW b, EndBlock(t, b)
  PROVE  Grows
<1>1. block_counter' \in Nat /\ block_counter' >= block_counter
  BY FreshFacts DEF TypeOK
<1>2. /\ Len(layout) \in Nat /\ Len(layout') = Len(layout) + 1
      /\ \A i \in 1 .. Len(layout) : layout'[i] = layout[i] /\ layout[i] \in Block
  BY DEF TypeOK, EndBlock
<1>3. \A i \in 1 .. Len(layout) : layout[i] # current_block
  BY CurrentIsUnset DEF Graph, IsPlaced
<1>4. \A i \in 1 .. Len(layout) : terminal'[layout[i]] = terminal[layout[i]]
  BY <1>2, <1>3 DEF TypeOK, EndBlock
<1>. QED
  BY <1>1, <1>2, <1>4 DEF Grows, EndBlock

\* A step that ends the current block, with a terminal whose targets are the method's.
LEMMA EndBlockStep ==
  ASSUME TypeOK, Core, Graph, Closed, Len(frames) > 0, NEW n \in Nat, Allocate(n),
         NEW t \in Terminal, t.type # "unknown", NEW b, EndBlock(t, b),
         \A s \in Block : s \in Successors(t) => Own(s)',
         FramesFrom, LoopsFrom
  PROVE  Graph' /\ Closed'
<1>1. Graph'
  BY EndBlockGraph
<1>2. Grows
  BY EndBlockGrows
<1>3. MethodsInLayout' /\ MethodsAreClosed' /\ TargetsAreOwn'
  BY <1>2, ClosedKept, TargetsKept DEF Closed
<1>4. /\ Len(layout) \in Nat /\ Len(layout') = Len(layout) + 1
      /\ layout'[Len(layout) + 1] = current_block
  BY DEF TypeOK, EndBlock
<1>5. terminal'[current_block] = t
  BY CurrentIsUnset DEF Graph, TypeOK, EndBlock
<1>6. SuccessorsAreOwn'
  <2>. SUFFICES ASSUME NEW i \in 1 .. Len(layout'), i > Start'
                PROVE  /\ terminal'[layout'[i]].type # "unknown"
                       /\ \A s \in Block : s \in Successors(terminal'[layout'[i]]) => Own(s)'
    BY DEF SuccessorsAreOwn
  <2>1. CASE i = Len(layout) + 1
    BY <1>4, <1>5, <2>1
  <2>2. CASE i \in 1 .. Len(layout)
    <3>1. i > Start /\ \A c \in Block : Own(c) => Own(c)'
      BY <1>2, OwnKept DEF Closed
    <3>2. terminal'[layout'[i]] = terminal[layout[i]]
      BY <1>2, <2>2 DEF Grows
    <3>. QED
      BY <2>2, <3>1, <3>2 DEF Closed, SuccessorsAreOwn
  <2>. QED
    BY <1>4, <2>1, <2>2
<1>. QED
  BY <1>1, <1>3, <1>6 DEF Closed

\* The targets of the terminals that go somewhere.
LEMMA Targets ==
  ASSUME NEW b, NEW c
  PROVE  /\ \A s \in Block : s \in Successors(Jump(b)) => s = b
         /\ \A s \in Block : s \in Successors(Branch(b, c)) => s = b \/ s = c
BY DEF Successors, Jump, Branch, Unset, NoBlock, Block

\* A new frame remembers no condition.
LEMMA NoCondition ==
  ASSUME NEW at, NEW c \in Block
  PROVE  FrameAt(at).condition_block # c
BY DEF FrameAt, NoBlock, Block

-----------------------------------------------------------------------------
(* The actions.                                                              *)

\* Calls and returns that end no block.
LEMMA CallStep ==
  ASSUME TypeOK, Graph, Closed, NEW at \in Stage, Push(FrameAt(at)), BlocksUnchanged
  PROVE  Graph' /\ Closed'
<1>1. FrameAt(at) \in Frame
  BY DEF FrameAt, Frame, BlockOrNone
<1>2. FramesFrom
  BY <1>1, PushFrom, NoCondition DEF TypeOK
<1>. QED
  BY <1>2, QuietStep

\* generate_for_statement calls generate_assignment.
LEMMA BeginForStep ==
  ASSUME TypeOK, Graph, Closed, NEW indexed \in BOOLEAN, BeginFor(indexed)
  PROVE  Graph' /\ Closed'
<1>. DEFINE f == FrameAt("initial")
            g == AssignmentFrame(indexed)
<1>1. /\ f \in Frame /\ g \in Frame
      /\ \A c \in Block : c # f.condition_block /\ c # g.condition_block
  BY DEF AssignmentFrame, FrameAt, Frame, Stage, BlockOrNone, NoBlock, Block
<1>2. frames' = frames \o <<f, g>> /\ BlocksUnchanged /\ frames \in Seq(Frame)
  BY DEF BeginFor, TypeOK
<1>. HIDE DEF f, g
<1>3. /\ Len(frames) \in Nat /\ Len(frames') = Len(frames) + 2
      /\ \A k \in 1 .. Len(frames) : frames'[k] = frames[k]
      /\ frames'[Len(frames) + 1] = f /\ frames'[Len(frames) + 2] = g
  BY <1>1, <1>2
<1>4. \A k \in 1 .. Len(frames') : k \in 1 .. Len(frames) \/ frames'[k] = f \/ frames'[k] = g
  BY <1>3
<1>5. FramesFrom
  BY <1>1, <1>3, <1>4 DEF FramesFrom
<1>. QED
  BY <1>2, <1>5, QuietStep

\* The conditions of an if and of a short circuit.
LEMMA IfBranchStep ==
  ASSUME TypeOK, Core, Graph, Closed, IfBranch \/ ShortCircuitBranch
  PROVE  Graph' /\ Closed'
<1>. DEFINE t == Branch(NewBlock(0), NewBlock(1))
<1>1. PICK at \in {"if_block", "right"} :
        /\ Len(frames) > 0 /\ Allocate(2) /\ EndBlock(t, NewBlock(0))
        /\ Replace([FrameAt(at) EXCEPT !.false_block = NewBlock(1)]) /\ LoopsUnchanged
  BY DEF IfBranch, ShortCircuitBranch, At
<1>. DEFINE f == [FrameAt(at) EXCEPT !.false_block = NewBlock(1)]
<1>2. NewBlock(0) \in Fresh(2) /\ NewBlock(1) \in Fresh(2) /\ NewBlock(0) \in Block /\ NewBlock(1) \in Block
  BY <1>1, TwoFresh DEF Fresh
<1>3. t \in Terminal /\ t.type # "unknown"
  BY <1>2, TerminalFacts DEF BlockOrNone
<1>4. /\ f \in Frame
      /\ \A c \in Block : c # f.condition_block
  BY <1>2 DEF FrameAt, Frame, Stage, BlockOrNone, NoBlock, Block
<1>5. Grows
  BY <1>1, EndBlockGrows
<1>6. \A s \in Block : s \in Successors(t) => Own(s)'
  BY <1>1, <1>2, <1>5, Targets, FreshIsOwn DEF Closed
<1>7. Replace(f) /\ EndBlock(t, NewBlock(0))
  BY <1>1
<1>. HIDE DEF f, t
<1>8. FramesFrom
  BY <1>1, <1>4, <1>7, ReplaceFrom DEF TypeOK
<1>. QED
  BY <1>1, <1>3, <1>6, <1>7, <1>8, SameLoopsFrom, EndBlockStep

\* generate_if_statement goes on to its else part.
LEMMA ElseStep ==
  ASSUME TypeOK, Core, Graph, Closed, Else
  PROVE  Graph' /\ Closed'
<1>. DEFINE t == Jump(NewBlock(0))
            f == [FrameAt("else_block") EXCEPT !.end_block = NewBlock(0)]
<1>1. /\ Len(frames) > 0 /\ Allocate(1) /\ EndBlock(t, Top.false_block)
      /\ Replace(f) /\ LoopsUnchanged
  BY DEF Else, At
<1>2. NewBlock(0) \in Fresh(1) /\ NewBlock(0) \in Block
  BY <1>1, OneFresh
<1>3. t \in Terminal /\ t.type # "unknown"
  BY <1>2, TerminalFacts DEF BlockOrNone
<1>4. f \in Frame /\ \A c \in Block : c # f.condition_block
  BY <1>2 DEF FrameAt, Frame, Stage, BlockOrNone, NoBlock, Block
<1>5. Grows
  BY <1>1, EndBlockGrows
<1>6. \A s \in Block : s \in Successors(t) => Own(s)'
  BY <1>1, <1>2, <1>5, Targets, FreshIsOwn DEF Closed
<1>. HIDE DEF f, t
<1>7. FramesFrom
  BY <1>1, <1>4, ReplaceFrom DEF TypeOK
<1>. QED
  BY <1>1, <1>3, <1>6, <1>7, SameLoopsFrom, EndBlockStep

\* The blocks the function on top holds stay the method's own.
LEMMA TopHeld ==
  ASSUME TypeOK, Core, Closed, Grows, Len(frames) > 0, NEW s \in Pending(Top)
  PROVE  s \in Block /\ Own(s)'
<1>1. /\ Len(frames) \in 1 .. Len(frames) /\ Top = frames[Len(frames)]
      /\ Pending(Top) \subseteq Block
  BY TopFacts
<1>2. s \in Block /\ IsPending(s)
  BY <1>1 DEF IsPending
<1>. QED
  BY <1>2, HeldIsOwn, OwnKept DEF Closed

\* The condition of a loop.
LEMMA LoopBranchStep ==
  ASSUME TypeOK, Core, Graph, Closed, WhileBranch \/ ForBranch
  PROVE  Graph' /\ Closed'
<1>. DEFINE t == Branch(Top.loop_block, Top.end_block)
<1>1. PICK at \in {"while_body", "for_body"} :
        /\ Len(frames) > 0 /\ Allocate(0) /\ EndBlock(t, Top.loop_block)
        /\ Replace([Top EXCEPT !.at = at]) /\ LoopsUnchanged
        /\ Top.at \in {"while_condition", "for_condition"}
  BY DEF WhileBranch, ForBranch, At, Goto
<1>. DEFINE f == [Top EXCEPT !.at = at]
<1>2. Top \in Frame /\ Pending(Top) \subseteq Block
  BY <1>1, TopFacts
<1>3. /\ Top.loop_block \in Pending(Top) /\ Top.end_block \in Pending(Top)
      /\ Top.loop_block \in Block /\ Top.end_block \in Block
  BY <1>1, <1>2, PendingFacts
<1>4. t \in Terminal /\ t.type # "unknown"
  BY <1>3, TerminalFacts DEF BlockOrNone
<1>5. f \in Frame /\ f.condition_block = Top.condition_block
  BY <1>2 DEF Frame, Stage
<1>6. Grows
  BY <1>1, EndBlockGrows
<1>7. \A s \in Block : s \in Successors(t) => s \in Pending(Top)
  BY <1>3, Targets
<1>8. \A s \in Block : s \in Successors(t) => Own(s)'
  BY <1>1, <1>6, <1>7, TopHeld
<1>9. Replace(f)
  BY <1>1
<1>. HIDE DEF f, t
<1>10. FramesFrom
  BY <1>1, <1>5, <1>9, ReplaceFrom DEF TypeOK
<1>. QED
  BY <1>1, <1>4, <1>8, <1>10, SameLoopsFrom, EndBlockStep

\* generate_while_statement opens its loop.
LEMMA BeginWhileStep ==
  ASSUME TypeOK, Core, Graph, Closed, BeginWhile
  PROVE  Graph' /\ Closed'
<1>. DEFINE t == Jump(NewBlock(0))
            f == [FrameAt("while_condition") EXCEPT
                    !.condition_block = NewBlock(0),
                    !.loop_block = NewBlock(1), !.end_block = NewBlock(2)]
<1>1. /\ Len(frames) > 0 /\ Allocate(3) /\ EndBlock(t, NewBlock(0)) /\ Push(f)
      /\ PushLoop(NewBlock(2), NewBlock(0))
  BY DEF BeginWhile, AtStatement
<1>2. \A i \in {0, 1, 2} : NewBlock(i) \in Block /\ NewBlock(i) \in Fresh(3)
  <2>1. \A i : i \in 0 .. 3 - 1 <=> i \in {0, 1, 2}
    OBVIOUS
  <2>. QED
    BY <1>1, <2>1, FreshFacts
<1>3. NewBlock(0) \in Block /\ NewBlock(1) \in Block /\ NewBlock(2) \in Block
  BY <1>2
<1>4. t \in Terminal /\ t.type # "unknown"
  BY <1>3, TerminalFacts DEF BlockOrNone
<1>5. f \in Frame /\ f.condition_block = NewBlock(0)
  BY <1>3, FrameAtFacts, ZenonT(40) DEF FrameAt, Stage
<1>6. Grows
  BY <1>1, EndBlockGrows
<1>7. \A c \in Block : c = NewBlock(0) \/ c = NewBlock(2) => Own(c)'
  BY <1>1, <1>2, <1>6, FreshIsOwn DEF Closed
<1>8. \A s \in Block : s \in Successors(t) => Own(s)'
  BY <1>7, Targets
<1>. HIDE DEF f, t
<1>9. FramesFrom
  BY <1>1, <1>5, <1>7, PushFrom DEF TypeOK
<1>10. LoopsFrom
  BY <1>1, <1>3, <1>7, PushLoopFrom
<1>. QED
  BY <1>1, <1>4, <1>8, <1>9, <1>10, EndBlockStep

\* generate_for_statement opens its loop.
LEMMA EnterForStep ==
  ASSUME TypeOK, Core, Graph, Closed, EnterFor
  PROVE  Graph' /\ Closed'
<1>. DEFINE t == Jump(NewBlock(0))
            f == [FrameAt("for_condition") EXCEPT
                    !.condition_block = NewBlock(0), !.loop_block = NewBlock(1),
                    !.update_block = NewBlock(2), !.end_block = NewBlock(3)]
<1>1. /\ Len(frames) > 0 /\ Allocate(4) /\ EndBlock(t, NewBlock(0)) /\ Replace(f)
      /\ PushLoop(NewBlock(3), NewBlock(2))
  BY DEF EnterFor, At
<1>2. \A i \in {0, 1, 2, 3} : NewBlock(i) \in Block /\ NewBlock(i) \in Fresh(4)
  <2>1. \A i : i \in 0 .. 4 - 1 <=> i \in {0, 1, 2, 3}
    OBVIOUS
  <2>. QED
    BY <1>1, <2>1, FreshFacts
<1>3. NewBlock(0) \in Block /\ NewBlock(1) \in Block /\ NewBlock(2) \in Block /\ NewBlock(3) \in Block
  BY <1>2
<1>4. t \in Terminal /\ t.type # "unknown"
  BY <1>3, TerminalFacts DEF BlockOrNone
<1>5. f \in Frame /\ f.condition_block = NewBlock(0)
  BY <1>3, FrameAtFacts, ZenonT(40) DEF FrameAt, Stage
<1>6. Grows
  BY <1>1, EndBlockGrows
<1>7. \A c \in Block : c = NewBlock(0) \/ c = NewBlock(2) \/ c = NewBlock(3) => Own(c)'
  BY <1>1, <1>2, <1>6, FreshIsOwn DEF Closed
<1>8. \A s \in Block : s \in Successors(t) => Own(s)'
  BY <1>7, Targets
<1>. HIDE DEF f, t
<1>9. FramesFrom
  BY <1>1, <1>5, <1>7, ReplaceFrom DEF TypeOK
<1>10. LoopsFrom
  BY <1>1, <1>3, <1>7, PushLoopFrom
<1>. QED
  BY <1>1, <1>4, <1>8, <1>9, <1>10, EndBlockStep

\* generate_for_update starts in the update block.
LEMMA BeginUpdateStep ==
  ASSUME TypeOK, Core, Graph, Closed, NEW child \in {"index", "source", "argument"}, BeginUpdate(child)
  PROVE  Graph' /\ Closed'
<1>. DEFINE t == Jump(Top.update_block)
            f == FrameAt(child)
            g == [Top EXCEPT !.at = "update"]
<1>1. /\ Len(frames) > 0 /\ Allocate(0) /\ Top.at = "for_body"
      /\ EndBlock(t, Top.update_block) /\ LoopsUnchanged
      /\ frames' = Append([frames EXCEPT ![Len(frames)] = g], f)
  BY DEF BeginUpdate, At
<1>2. /\ Top \in Frame /\ Pending(Top) \subseteq Block
      /\ frames \in Seq(Frame) /\ Len(frames) \in 1 .. Len(frames) /\ Top = frames[Len(frames)]
  BY <1>1, TopFacts
<1>3. Top.update_block \in Pending(Top) /\ Top.update_block \in Block
  BY <1>1, <1>2, PendingFacts
<1>4. t \in Terminal /\ t.type # "unknown"
  BY <1>3, TerminalFacts DEF BlockOrNone
<1>5. Grows
  BY <1>1, EndBlockGrows
<1>6. \A s \in Block : s \in Successors(t) => Own(s)'
  BY <1>1, <1>3, <1>5, Targets, TopHeld
<1>7. f \in Frame /\ \A c \in Block : c # f.condition_block
  BY DEF FrameAt, Frame, Stage, BlockOrNone, NoBlock, Block
<1>8. g \in Frame /\ g.condition_block = Top.condition_block
  BY <1>2 DEF Frame, Stage
<1>. HIDE DEF f, g, t
<1>9. /\ Len(frames) \in Nat /\ Len(frames') = Len(frames) + 1
      /\ frames'[Len(frames) + 1] = f /\ frames'[Len(frames)] = g
      /\ \A k \in 1 .. Len(frames) : k # Len(frames) => frames'[k] = frames[k]
  BY <1>1, <1>2, <1>7, <1>8
<1>10. \A k \in 1 .. Len(frames') : k \in 1 .. Len(frames) \/ frames'[k] = f
  BY <1>9
<1>11. FramesFrom
  BY <1>2, <1>7, <1>8, <1>9, <1>10 DEF FramesFrom
<1>. QED
  BY <1>1, <1>4, <1>6, <1>11, SameLoopsFrom, EndBlockStep

\* The end of a short circuit, an if or an else.
LEMMA EndsStep ==
  ASSUME TypeOK, Core, Graph, Closed, EndShortCircuit \/ EndIf \/ EndElse
  PROVE  Graph' /\ Closed'
<1>1. PICK b \in Pending(Top) :
        Len(frames) > 0 /\ Allocate(0) /\ EndBlock(Jump(b), b) /\ Pop /\ LoopsUnchanged
  <2>1. Len(frames) > 0
    BY DEF EndShortCircuit, EndIf, EndElse, At
  <2>2. Top \in Frame
    BY <2>1, TopFacts
  <2>. QED
    BY <2>1, <2>2, PendingFacts DEF EndShortCircuit, EndIf, EndElse, At
<1>2. b \in Block
  BY <1>1, TopFacts
<1>3. Jump(b) \in Terminal /\ Jump(b).type # "unknown"
  BY <1>2, TerminalFacts DEF BlockOrNone
<1>4. Grows
  BY <1>1, EndBlockGrows
<1>5. \A s \in Block : s \in Successors(Jump(b)) => Own(s)'
  BY <1>1, <1>4, Targets, TopHeld
<1>6. FramesFrom
  BY <1>1, PopFrom DEF TypeOK
<1>. QED
  BY <1>1, <1>3, <1>5, <1>6, SameLoopsFrom, EndBlockStep

\* The end of a loop: its last block goes back to the condition.
LEMMA EndLoopStep ==
  ASSUME TypeOK, Core, Graph, Closed, EndWhile \/ EndFor
  PROVE  Graph' /\ Closed'
<1>. DEFINE t == Jump(Top.condition_block)
<1>1. /\ Len(frames) > 0 /\ Allocate(0) /\ EndBlock(t, Top.end_block) /\ Pop /\ PopLoop
  BY DEF EndWhile, EndFor, At
<1>2. Top \in Frame /\ Len(frames) \in 1 .. Len(frames) /\ Top = frames[Len(frames)]
  BY <1>1, TopFacts
<1>3. t \in Terminal /\ t.type # "unknown"
  BY <1>2, TerminalFacts DEF Frame
<1>4. Grows
  BY <1>1, EndBlockGrows
<1>5. \A s \in Block : s = Top.condition_block => Own(s)'
  <2>1. \A s \in Block : s = Top.condition_block => Own(s)
    BY <1>2 DEF Closed, TargetsAreOwn
  <2>. QED
    BY <1>4, <2>1, OwnKept DEF Closed
<1>6. \A s \in Block : s \in Successors(t) => Own(s)'
  BY <1>5, Targets
<1>. HIDE DEF t
<1>7. FramesFrom
  BY <1>1, PopFrom DEF TypeOK
<1>8. LoopsFrom
  BY <1>1, PopLoopFrom
<1>. QED
  BY <1>1, <1>3, <1>6, <1>7, <1>8, EndBlockStep

\* generate_return_statement.
LEMMA EndReturnStep ==
  ASSUME TypeOK, Core, Graph, Closed, EndReturn
  PROVE  Graph' /\ Closed'
<1>1. /\ Len(frames) > 0 /\ Allocate(1) /\ EndBlock(Return, NewBlock(0)) /\ Pop /\ LoopsUnchanged
  BY DEF EndReturn, At
<1>2. Return \in Terminal /\ Return.type # "unknown"
  BY TerminalFacts DEF BlockOrNone
<1>3. \A s \in Block : s \in Successors(Return) => Own(s)'
  BY NoSuccessors
<1>4. FramesFrom
  BY <1>1, PopFrom DEF TypeOK
<1>. QED
  BY <1>1, <1>2, <1>3, <1>4, SameLoopsFrom, EndBlockStep

\* generate_break_statement and generate_continue_statement.
LEMMA LeaveStep ==
  ASSUME TypeOK, Core, Loops, Graph, Closed, Break \/ Continue
  PROVE  Graph' /\ Closed'
<1>1. BreakBlock \in Block /\ ContinueBlock \in Block
  BY LeaveTargets DEF Break, Continue, TypeOK
<1>2. PICK b \in {BreakBlock, ContinueBlock} :
        /\ Len(frames) > 0 /\ Allocate(1) /\ EndBlock(Jump(b), NewBlock(0))
        /\ frames' = frames /\ LoopsUnchanged /\ InsideLoop
  BY DEF Break, Continue, AtStatement
<1>3. b \in Block /\ Jump(b) \in Terminal /\ Jump(b).type # "unknown"
  BY <1>1, TerminalFacts DEF BlockOrNone
<1>4. Grows
  BY <1>2, EndBlockGrows
<1>5. Own(b)
  <2>1. /\ Len(break_blocks) \in 1 .. Len(break_blocks)
        /\ Len(continue_blocks) \in 1 .. Len(continue_blocks)
    <3>1. PICK k \in 1 .. Len(frames) : frames[k].at \in LoopStages
      BY <1>2 DEF InsideLoop
    <3>2. frames \in Seq(Frame) /\ Len(frames) \in Nat
      BY DEF TypeOK
    <3>3. Depth(frames, k) \in 1 .. Depth(frames, Len(frames)) /\ Depth(frames, Len(frames)) \in Nat
      BY <3>1, <3>2, DepthOfLoop, DepthType
    <3>. QED
      BY <3>2, <3>3, LoopsMeaning DEF Loops
  <2>. QED
    BY <1>3, <2>1 DEF Closed, TargetsAreOwn, BreakBlock, ContinueBlock
<1>6. \A s \in Block : s \in Successors(Jump(b)) => Own(s)'
  BY <1>3, <1>4, <1>5, OwnKept, Targets DEF Closed
<1>7. FramesFrom
  BY <1>2 DEF FramesFrom
<1>. QED
  BY <1>2, <1>3, <1>6, <1>7, SameLoopsFrom, EndBlockStep

\* generate_bounds_check places two blocks: the one it branches from and the
\* true_block, whose terminal goes nowhere.
LEMMA BoundsCheckStep ==
  ASSUME TypeOK, Core, Graph, Closed, BoundsCheck
  PROVE  Graph' /\ Closed'
<1>. DEFINE tb == NewBlock(0)
            fb == NewBlock(1)
            t == Branch(tb, fb)
            b == current_block
            m == Len(layout)
            f == [Top EXCEPT !.at = "source"]
<1>1. /\ Len(frames) > 0 /\ Allocate(2) /\ Replace(f) /\ LoopsUnchanged /\ UNCHANGED methods
      /\ terminal' = [terminal EXCEPT ![b] = t, ![tb] = ShitYourself]
      /\ predecessors' = AddPredecessor(predecessors, b, t)
      /\ layout' = layout \o <<b, tb>>
  BY DEF BoundsCheck, At, Goto
<1>2. /\ tb \in Block /\ fb \in Block /\ tb \in Fresh(2) /\ fb \in Fresh(2)
      /\ block_counter' \in Nat /\ block_counter' >= block_counter
  <2>1. tb \in Block /\ fb \in Block /\ tb \in Fresh(2) /\ fb \in Fresh(2)
    BY <1>1, TwoFresh
  <2>2. block_counter' = block_counter + 2 /\ block_counter \in Nat
    BY <1>1 DEF Allocate, TypeOK
  <2>. QED
    BY <2>1, <2>2
<1>3. b \in Block /\ ~ IsPlaced(b) /\ terminal[b] = Unset
  BY <1>1, CurrentIsUnset DEF Graph
<1>4. ~ IsPlaced(tb) /\ tb # b
  <2>1. ~ tb < block_counter
    BY <1>2 DEF Fresh, Block, TypeOK
  <2>. QED
    BY <1>2, <2>1 DEF Core, Placement, NoBlockLost
<1>5. terminal[tb] = Unset
  BY <1>2, <1>4 DEF Graph, UnplacedAreUnset
<1>6. t.type # "unknown" /\ ShitYourself.type # "unknown"
  BY <1>2, TerminalFacts DEF BlockOrNone
<1>7. \A s \in Block : s \in Successors(t) => s = tb \/ s = fb
  BY Targets
<1>8. Top \in Frame /\ frames \in Seq(Frame)
  BY <1>1, TopFacts
<1>9. f \in Frame /\ f.condition_block = Top.condition_block
  BY <1>8 DEF Frame, Stage
<1>10. FramesFrom
  BY <1>1, <1>8, <1>9, ReplaceFrom
<1>. HIDE DEF tb, fb, t, f
<1>11. /\ terminal'[b] = t /\ terminal'[tb] = ShitYourself
       /\ \A p \in Block : p # b /\ p # tb => terminal'[p] = terminal[p]
  BY <1>1, <1>2, <1>3, <1>4 DEF TypeOK
<1>12. /\ m \in Nat /\ Len(layout') = m + 2 /\ layout \in Seq(Block)
       /\ \A i \in 1 .. m : layout'[i] = layout[i] /\ layout[i] \in Block
       /\ layout'[m + 1] = b /\ layout'[m + 2] = tb
  BY <1>1, <1>2, <1>3 DEF TypeOK
<1>13. \A i : i \in 1 .. Len(layout') <=> i \in 1 .. m \/ i = m + 1 \/ i = m + 2
  BY <1>12
<1>14. \A c \in Block : IsPlaced(c)' <=> IsPlaced(c) \/ c = b \/ c = tb
  BY <1>12, <1>13 DEF IsPlaced
<1>15. \A i \in 1 .. m : layout[i] # b /\ layout[i] # tb
  BY <1>3, <1>4 DEF IsPlaced
<1>16. UnplacedAreUnset'
  BY <1>11, <1>14 DEF Graph, UnplacedAreUnset
<1>17. EntriesAreEdges'
  <2>. SUFFICES ASSUME NEW s \in Block
                PROVE  /\ \A p \in Block : Entered(p, s)' <=> s \in Successors(terminal'[p])
                       /\ NoRepeats(s)'
    BY DEF EntriesAreEdges
  <2>1. /\ \A p \in Block : Entered(p, s) <=> s \in Successors(terminal[p])
        /\ NoRepeats(s)
    BY DEF Graph, EntriesAreEdges
  <2>2. ~ Entered(b, s) /\ ~ Entered(tb, s)
    BY <1>2, <1>3, <1>5, <2>1, NoSuccessors
  <2>3. predecessors \in [Block -> Seq(Block)]
    BY DEF TypeOK
  <2>4. /\ \A p \in Block : Entered(p, s)' <=> Entered(p, s) \/ (p = b /\ s \in Successors(t))
        /\ NoRepeats(s)'
    BY <1>1, <1>3, <2>1, <2>2, <2>3, EnteredAfter
  <2>. QED
    BY <1>2, <1>3, <1>4, <1>11, <2>1, <2>2, <2>4, NoSuccessors
<1>18. Grows
  <2>1. \A i \in 1 .. Len(layout) : terminal'[layout[i]] = terminal[layout[i]]
    BY <1>11, <1>12, <1>15
  <2>2. Len(layout') \in Nat /\ Len(layout') >= Len(layout)
    BY <1>12
  <2>. QED
    BY <1>1, <1>2, <1>12, <2>1, <2>2 DEF Grows
<1>19. MethodsInLayout' /\ MethodsAreClosed' /\ TargetsAreOwn'
  BY <1>1, <1>10, <1>18, ClosedKept, TargetsKept, SameLoopsFrom DEF Closed
<1>20. SuccessorsAreOwn'
  <2>. SUFFICES ASSUME NEW i \in 1 .. Len(layout'), i > Start'
                PROVE  /\ terminal'[layout'[i]].type # "unknown"
                       /\ \A s \in Block : s \in Successors(terminal'[layout'[i]]) => Own(s)'
    BY DEF SuccessorsAreOwn
  <2>1. CASE i \in 1 .. m
    <3>1. i > Start /\ \A c \in Block : Own(c) => Own(c)'
      BY <1>18, OwnKept DEF Closed
    <3>2. terminal'[layout'[i]] = terminal[layout[i]]
      BY <1>18, <2>1 DEF Grows
    <3>. QED
      BY <2>1, <3>1, <3>2 DEF Closed, SuccessorsAreOwn
  <2>2. CASE i = m + 1
    <3>1. \A s \in Block : s = tb \/ s = fb => Own(s)'
      BY <1>1, <1>2, <1>18, FreshIsOwn DEF Closed
    <3>. QED
      BY <1>6, <1>7, <1>11, <1>12, <2>2, <3>1
  <2>3. CASE i = m + 2
    BY <1>6, <1>11, <1>12, <2>3, NoSuccessors
  <2>. QED
    BY <1>13, <2>1, <2>2, <2>3
<1>. QED
  BY <1>16, <1>17, <1>19, <1>20 DEF Graph, Closed

\* generate_method opens a block; there is nothing to close yet.
LEMMA BeginMethodStep ==
  ASSUME TypeOK, Core, Graph, Closed, BeginMethod
  PROVE  Graph' /\ Closed'
<1>. DEFINE f == FrameAt("block")
<1>1. /\ Allocate(1) /\ Push(f) /\ LoopsUnchanged
      /\ UNCHANGED <<layout, methods, terminal, predecessors>>
  BY DEF BeginMethod
<1>2. f \in Frame /\ \A c \in Block : c # f.condition_block
  BY DEF FrameAt, Frame, Stage, BlockOrNone, NoBlock, Block
<1>. HIDE DEF f
<1>3. FramesFrom
  BY <1>1, <1>2, PushFrom DEF TypeOK
<1>4. block_counter' \in Nat /\ block_counter' >= block_counter
  BY <1>1, FreshFacts DEF TypeOK
<1>5. Grows
  BY <1>1, <1>4 DEF TypeOK, Grows
<1>6. MethodsInLayout' /\ MethodsAreClosed' /\ TargetsAreOwn'
  BY <1>1, <1>3, <1>5, ClosedKept, TargetsKept, SameLoopsFrom DEF Closed
<1>7. SuccessorsAreOwn'
  <2>1. \A c \in Block : Own(c) => Own(c)'
    BY <1>5, OwnKept DEF Closed
  <2>2. Start' = Start
    BY <1>1 DEF Start
  <2>3. layout' = layout /\ terminal' = terminal
    BY <1>1
  <2>. QED
    BY <2>1, <2>2, <2>3 DEF Closed, SuccessorsAreOwn
<1>. QED
  BY <1>1, <1>6, <1>7, UnchangedGraph DEF Closed

\* generate_method closes its last block, and with it the method.
LEMMA EndMethodStep ==
  ASSUME TypeOK, Core, Loops, Graph, Closed, NEW returns_void \in BOOLEAN, EndMethod(returns_void)
  PROVE  Graph' /\ Closed'
<1>. DEFINE t == IF returns_void THEN Return ELSE ShitYourself
            b == current_block
            m == Len(layout)
            n == Len(methods)
<1>1. /\ Len(frames) > 0 /\ Top.at = "block" /\ Pop /\ LoopsUnchanged
      /\ terminal' = [terminal EXCEPT ![b] = t]
      /\ layout' = Append(layout, b)
      /\ methods' = Append(methods, m + 1)
      /\ UNCHANGED <<block_counter, predecessors>>
  BY DEF EndMethod, At
<1>2. /\ t.type # "unknown" /\ Successors(t) = {}
  BY TerminalFacts, NoSuccessors DEF BlockOrNone
<1>3. b \in Block /\ ~ IsPlaced(b) /\ terminal[b] = Unset
  BY <1>1, CurrentIsUnset DEF Graph
<1>. HIDE DEF t
<1>4. /\ terminal'[b] = t
      /\ \A p \in Block : p # b => terminal'[p] = terminal[p]
  BY <1>1, <1>3 DEF TypeOK
<1>5. /\ m \in Nat /\ Len(layout') = m + 1
      /\ \A i \in 1 .. m : layout'[i] = layout[i] /\ layout[i] \in Block /\ layout[i] # b
      /\ layout'[m + 1] = b
  BY <1>1, <1>3, SMTT(30) DEF TypeOK, IsPlaced
<1>6. \A i \in 1 .. m : terminal'[layout'[i]] = terminal[layout[i]]
  BY <1>4, <1>5
<1>7. /\ n \in Nat /\ Len(methods') = n + 1 /\ methods'[n + 1] = m + 1
      /\ \A j \in 1 .. n : methods'[j] = methods[j] /\ methods[j] \in Nat /\ methods[j] =< m
  BY <1>1, <1>5, SMTT(30) DEF TypeOK, Closed, MethodsInLayout
<1>8. Start' = m + 1
  BY <1>7 DEF Start
<1>9. Graph'
  <2>1. UnplacedAreUnset'
    BY <1>1, <1>4, PlacedAfter DEF Graph, UnplacedAreUnset
  <2>2. EntriesAreEdges'
    BY <1>1, <1>2, <1>3, <1>4, NoSuccessors DEF Graph, EntriesAreEdges, Entered, NoRepeats
  <2>. QED
    BY <2>1, <2>2 DEF Graph
\* No function holds a block, so the method's blocks are those just placed.
<1>10. Len(frames) = 1 /\ ~ \E c : IsPending(c)
  <2>1. Len(frames) = 1 /\ Top = frames[1] /\ Top \in Frame
    BY <1>1, TopFacts
  <2>2. Pending(Top) = {}
    BY <1>1, <2>1, PendingFacts
  <2>. QED
    BY <2>1, <2>2 DEF IsPending
<1>11. /\ Start \in Nat /\ Start =< m
  BY StartFacts DEF Closed
<1>12. ASSUME NEW c \in Block, Own(c)
       PROVE  \E j \in (Start + 1) .. (m + 1) : layout'[j] = c
  <2>1. IsPlaced(c) \/ c = b
    BY <1>10, <1>12 DEF Core, Placement, NoBlockLost, Own
  <2>2. CASE c = b
    BY <1>5, <1>11, <2>2
  <2>3. CASE IsPlaced(c)
    <3>1. PICK i \in 1 .. m : layout[i] = c
      BY <2>3 DEF IsPlaced
    <3>2. i \notin 1 .. Start
      BY <1>12, <3>1 DEF Own
    <3>. QED
      BY <1>5, <1>11, <3>1, <3>2
  <2>. QED
    BY <2>1, <2>2, <2>3
<1>13. MethodsInLayout'
  <2>1. \A j \in 1 .. n + 1 : methods'[j] =< m + 1
    BY <1>5, <1>7
  <2>. QED
    BY <1>5, <1>7, <2>1 DEF MethodsInLayout
<1>14. ASSUME NEW k \in Nat, k = n + 1
       PROVE  Positions(k)' = (Start + 1) .. (m + 1)
  <2>1. Positions(k)' = (IF k = 1 THEN 1 ELSE methods'[k - 1] + 1) .. methods'[k]
    BY DEF Positions
  <2>2. methods'[k] = m + 1
    BY <1>7, <1>14
  <2>3. CASE n = 0
    <3>1. k = 1 /\ Start = 0
      BY <1>14, <2>3 DEF Start, TypeOK
    <3>. QED
      BY <2>1, <2>2, <3>1
  <2>4. CASE n # 0
    <3>1. n \in 1 .. n /\ k - 1 = n /\ k # 1 /\ Start = methods[n]
      BY <1>7, <1>14, <2>4 DEF Start, TypeOK
    <3>2. methods'[k - 1] = Start
      BY <1>7, <3>1
    <3>. QED
      BY <2>1, <2>2, <3>1, <3>2
  <2>. QED
    BY <2>3, <2>4
<1>15. ASSUME NEW k \in 1 .. n
       PROVE  Positions(k)' = Positions(k) /\ Positions(k) \subseteq 1 .. m
  <2>1. /\ Positions(k)' = (IF k = 1 THEN 1 ELSE methods'[k - 1] + 1) .. methods'[k]
        /\ Positions(k) = (IF k = 1 THEN 1 ELSE methods[k - 1] + 1) .. methods[k]
    BY DEF Positions
  <2>2. methods'[k] = methods[k] /\ methods[k] \in Nat /\ methods[k] =< m
    BY <1>7
  <2>3. k # 1 => k - 1 \in 1 .. n
    BY <1>7
  <2>4. k # 1 => methods'[k - 1] = methods[k - 1] /\ methods[k - 1] \in Nat
    BY <1>7, <2>3
  <2>. QED
    BY <1>5, <2>1, <2>2, <2>4
<1>16. ASSUME NEW k \in 1 .. n, NEW i \in Positions(k)
       PROVE  /\ terminal'[layout'[i]].type # "unknown"
              /\ \A s \in Successors(terminal'[layout'[i]]) : \E j \in Positions(k) : layout'[j] = s
  <2>1. /\ terminal[layout[i]].type # "unknown"
        /\ \A s \in Successors(terminal[layout[i]]) : \E j \in Positions(k) : layout[j] = s
    BY DEF Closed, MethodsAreClosed
  <2>2. terminal'[layout'[i]] = terminal[layout[i]]
    BY <1>6, <1>15
  <2>3. \A j \in Positions(k) : layout'[j] = layout[j]
    BY <1>5, <1>15
  <2>. QED
    BY <2>1, <2>2, <2>3
<1>17. ASSUME NEW i \in (Start + 1) .. (m + 1)
       PROVE  /\ terminal'[layout'[i]].type # "unknown"
              /\ \A s \in Successors(terminal'[layout'[i]]) :
                   \E j \in (Start + 1) .. (m + 1) : layout'[j] = s
  <2>1. CASE i = m + 1
    BY <1>2, <1>4, <1>5, <2>1
  <2>2. CASE i # m + 1
    <3>1. i \in 1 .. m /\ i > Start
      BY <1>5, <1>11, <2>2
    <3>2. terminal'[layout'[i]] = terminal[layout[i]]
      BY <1>6, <3>1
    <3>3. terminal[layout[i]] \in Terminal
      BY <1>5, <3>1 DEF TypeOK
    <3>4. Successors(terminal[layout[i]]) \subseteq Block
      BY <3>3 DEF Terminal, Successors, BlockOrNone
    <3>5. /\ terminal[layout[i]].type # "unknown"
          /\ \A s \in Block : s \in Successors(terminal[layout[i]]) => Own(s)
      BY <3>1 DEF Closed, SuccessorsAreOwn
    <3>. QED
      BY <1>12, <3>2, <3>4, <3>5
  <2>. QED
    BY <2>1, <2>2
<1>18. MethodsAreClosed'
  <2>. SUFFICES ASSUME NEW k \in 1 .. n + 1, NEW i \in Positions(k)'
                PROVE  /\ terminal'[layout'[i]].type # "unknown"
                       /\ \A s \in Successors(terminal'[layout'[i]]) :
                            \E j \in Positions(k)' : layout'[j] = s
    BY <1>7 DEF MethodsAreClosed
  <2>1. CASE k \in 1 .. n
    BY <1>15, <1>16, <2>1
  <2>2. CASE k = n + 1
    <3>1. k \in Nat
      BY <1>7, <2>2
    <3>2. Positions(k)' = (Start + 1) .. (m + 1)
      BY <1>14, <2>2, <3>1
    <3>3. i \in (Start + 1) .. (m + 1)
      BY <3>2
    <3>. QED
      BY <1>17, <3>2, <3>3
  <2>. QED
    BY <1>7, <2>1, <2>2
<1>19. SuccessorsAreOwn'
  BY <1>5, <1>8 DEF SuccessorsAreOwn
<1>20. TargetsAreOwn'
  <2>1. Len(frames') = 0
    BY <1>1, <1>10, PopFacts DEF TypeOK
  <2>2. Depth(frames, 1) = 0
    <3>1. frames[1].at \notin LoopStages
      BY <1>1, <1>10 DEF Top, LoopStages
    <3>2. {i \in 1 .. 1 : frames[i].at \in LoopStages} = {}
      BY <3>1
    <3>. QED
      BY <3>2, FS_EmptySet DEF Depth
  <2>3. Len(break_blocks) = 0 /\ Len(continue_blocks) = 0
    BY <1>10, <2>2, LoopsMeaning DEF Loops, TypeOK
  <2>. QED
    BY <1>1, <2>1, <2>3 DEF TargetsAreOwn, LoopsUnchanged
<1>. QED
  BY <1>9, <1>13, <1>18, <1>19, <1>20 DEF Closed

\* An empty program has an empty graph.
LEMMA InitGraph == Init => Graph /\ Closed
<1>. SUFFICES ASSUME Init PROVE Graph /\ Closed
  OBVIOUS
<1>1. /\ \A i : i \notin 1 .. Len(layout) /\ i \notin 1 .. Len(methods) /\ i \notin 1 .. Len(frames)
      /\ \A i : i \notin 1 .. Len(break_blocks) /\ i \notin 1 .. Len(continue_blocks)
  BY DEF Init
<1>2. \A b \in Block : terminal[b] = Unset /\ predecessors[b] = <<>>
  BY DEF Init
<1>3. Graph
  BY <1>2, NoSuccessors DEF Graph, UnplacedAreUnset, EntriesAreEdges, Entered, NoRepeats
<1>4. Closed
  BY <1>1 DEF Closed, MethodsInLayout, MethodsAreClosed, SuccessorsAreOwn, TargetsAreOwn
<1>. QED
  BY <1>3, <1>4

\* Every action keeps the graph.
LEMMA NextGraph == IInv /\ Graph /\ Closed /\ [Next]_vars => Graph' /\ Closed'
<1>. SUFFICES ASSUME IInv, Graph, Closed, [Next]_vars PROVE Graph' /\ Closed'
  OBVIOUS
<1>1. TypeOK /\ Core /\ Loops
  BY IInvTypes DEF IInv
<1>2. CASE BeginMethod
  BY <1>1, <1>2, BeginMethodStep
<1>3. ASSUME NEW returns_void \in BOOLEAN, EndMethod(returns_void) PROVE Graph' /\ Closed'
  BY <1>1, <1>3, EndMethodStep
<1>4. CASE \/ \E indexed \in BOOLEAN : BeginAssignment(indexed)
           \/ BeginCall \/ BeginShortCircuit \/ BeginIf \/ BeginReturn
  <2>1. PICK at \in Stage : Push(FrameAt(at)) /\ BlocksUnchanged
    BY <1>4 DEF BeginAssignment, AssignmentFrame, BeginCall, BeginShortCircuit, BeginIf, BeginReturn, Stage
  <2>. QED
    BY <1>1, <2>1, CallStep
<1>5. CASE BoundsCheck
  BY <1>1, <1>5, BoundsCheckStep
<1>6. CASE EndAssignment \/ EndCall
  <2>1. Len(frames) > 0 /\ Pop /\ BlocksUnchanged
    BY <1>6 DEF EndAssignment, EndCall, At
  <2>2. FramesFrom
    BY <1>1, <2>1, PopFrom DEF TypeOK
  <2>. QED
    BY <1>1, <2>1, <2>2, QuietStep
<1>7. CASE ShortCircuitBranch \/ IfBranch
  BY <1>1, <1>7, IfBranchStep
<1>8. CASE Else
  BY <1>1, <1>8, ElseStep
<1>9. CASE EndShortCircuit \/ EndIf \/ EndElse
  BY <1>1, <1>9, EndsStep
<1>10. CASE BeginWhile
  BY <1>1, <1>10, BeginWhileStep
<1>11. CASE WhileBranch \/ ForBranch
  BY <1>1, <1>11, LoopBranchStep
<1>12. CASE EndWhile \/ EndFor
  BY <1>1, <1>12, EndLoopStep
<1>13. ASSUME NEW indexed \in BOOLEAN, BeginFor(indexed) PROVE Graph' /\ Closed'
  BY <1>1, <1>13, BeginForStep
<1>14. CASE EnterFor
  BY <1>1, <1>14, EnterForStep
<1>15. ASSUME NEW child \in {"index", "source", "argument"}, BeginUpdate(child)
       PROVE  Graph' /\ Closed'
  BY <1>1, <1>15, BeginUpdateStep
<1>16. CASE EndReturn
  BY <1>1, <1>16, EndReturnStep
<1>17. CASE Break \/ Continue
  BY <1>1, <1>17, LeaveStep
<1>18. CASE UNCHANGED vars
  <2>1. BlocksUnchanged /\ frames' = frames
    BY <1>18 DEF vars, BlocksUnchanged, LoopsUnchanged
  <2>2. FramesFrom
    BY <2>1 DEF FramesFrom
  <2>. QED
    BY <1>1, <2>1, <2>2, QuietStep
<1>. QED
  BY <1>2, <1>3, <1>4, <1>5, <1>6, <1>7, <1>8, <1>9, <1>10, <1>11, <1>12, <1>13,
     <1>14, <1>15, <1>16, <1>17, <1>18 DEF Next

\* Edge by edge is list by list.
LEMMA EntriesMeaning ==
  ASSUME TypeOK, EntriesAreEdges
  PROVE  PredecessorsMatchTerminals
<1>. SUFFICES ASSUME NEW b \in Block
              PROVE  /\ {predecessors[b][i] : i \in 1 .. Len(predecessors[b])}
                          = {p \in Block : b \in Successors(terminal[p])}
                     /\ NoRepeats(b)
  BY DEF PredecessorsMatchTerminals, NoRepeats
<1>1. predecessors[b] \in Seq(Block)
  BY DEF TypeOK
<1>2. \A i \in 1 .. Len(predecessors[b]) : predecessors[b][i] \in Block
  BY <1>1
<1>3. /\ \A p \in Block : (\E i \in 1 .. Len(predecessors[b]) : predecessors[b][i] = p)
                            <=> b \in Successors(terminal[p])
      /\ NoRepeats(b)
  BY DEF EntriesAreEdges, Entered
<1>. QED
  BY <1>2, <1>3

\* The graph is right in every reachable state.
THEOREM GraphInvariance == Spec => [](IInv /\ Graph /\ Closed)
<1>1. Init => IInv /\ Graph /\ Closed
  BY InitIInv, InitGraph
<1>2. IInv /\ Graph /\ Closed /\ [Next]_vars => (IInv /\ Graph /\ Closed)'
  BY NextIInv, NextGraph
<1>. QED
  BY <1>1, <1>2, PTL DEF Spec

\* block->predecessors is the inverse of the terminals at every moment, so the
\* searches of constant folding and copy propagation miss no path to a block and
\* follow none twice.
THEOREM PredecessorsAreInverse == Spec => []PredecessorsMatchTerminals
<1>1. IInv /\ Graph => PredecessorsMatchTerminals
  BY IInvTypes, EntriesMeaning DEF Graph
<1>. QED
  BY <1>1, GraphInvariance, PTL

\* In a program of any size every block of a finished method has a terminal,
\* whose targets are blocks of the method: the code generator names no label it
\* does not also place.
THEOREM FinishedMethodsAreClosed == Spec => []MethodsAreClosed
<1>1. Closed => MethodsAreClosed
  BY DEF Closed
<1>. QED
  BY <1>1, GraphInvariance, PTL

-----------------------------------------------------------------------------
(* Break and continue.                                                       *)

\* A set of natural numbers that is not empty has a least element.
LEMMA LeastElement ==
  ASSUME NEW S \in SUBSET Nat, NEW e \in S
  PROVE  \E d \in S : \A c \in S : d =< c
<1>1. PICK d \in S : \A c \in S : <<c, d>> \notin OpToRel(<, Nat)
  BY WFMin, NatLessThanWellFounded, Zenon
<1>2. \A c \in S : ~ c < d
  BY <1>1, Zenon DEF OpToRel
<1>. QED
  BY <1>2

\* Inside a loop there is an innermost one, and no loop is counted above it.
LEMMA InnermostExists ==
  ASSUME frames \in Seq(Frame), InsideLoop
  PROVE  \E k \in 1 .. Len(frames) :
           Innermost(k) /\ Depth(frames, k) = Depth(frames, Len(frames))
<1>. DEFINE n == Len(frames)
            S == {d \in Nat : d < n /\ frames[n - d].at \in LoopStages}
<1>1. n \in Nat
  OBVIOUS
<1>2. PICK i \in 1 .. n : frames[i].at \in LoopStages
  BY DEF InsideLoop
<1>3. n - i \in S
  <2>1. n - i \in Nat /\ n - i < n /\ n - (n - i) = i
    BY <1>1
  <2>. QED
    BY <1>2, <2>1
<1>4. PICK d \in S : \A e \in S : d =< e
  BY <1>3, LeastElement
<1>. DEFINE k == n - d
<1>5. k \in 1 .. n /\ frames[k].at \in LoopStages
  BY <1>1, <1>4
<1>6. \A l \in (k + 1) .. n : frames[l].at \notin LoopStages
  <2>. SUFFICES ASSUME NEW l \in (k + 1) .. n, frames[l].at \in LoopStages PROVE FALSE
    OBVIOUS
  <2>1. n - l \in Nat /\ n - l < n /\ n - (n - l) = l /\ n - l < d
    BY <1>1, <1>4, <1>5
  <2>2. n - l \in S
    BY <2>1
  <2>. QED
    BY <1>4, <2>1, <2>2
<1>. HIDE DEF k
<1>7. Depth(frames, k) = Depth(frames, n)
  <2>1. \A j \in 1 .. n : frames[j].at \in LoopStages => j \in 1 .. k
    BY <1>1, <1>5, <1>6
  <2>2. \A j \in 1 .. k : j \in 1 .. n
    BY <1>1, <1>5
  <2>3. k \in Nat
    BY <1>5
  <2>. QED
    BY <1>1, <2>1, <2>2, <2>3, DepthAgrees
<1>. QED
  BY <1>5, <1>6, <1>7 DEF Innermost

\* What generate_break_statement and generate_continue_statement do.
LEMMA LeaveIsInnermost ==
  ASSUME TypeOK, Core, Loops, Break \/ Continue
  PROVE  \E k \in 1 .. Len(frames) :
           /\ Innermost(k)
           /\ terminal'[current_block] \in {Jump(frames[k].end_block), Jump(ContinueOf(frames[k]))}
<1>1. frames \in Seq(Frame) /\ InsideLoop /\ Len(frames) > 0
  BY DEF TypeOK, Break, Continue, AtStatement
<1>2. PICK k \in 1 .. Len(frames) :
        Innermost(k) /\ Depth(frames, k) = Depth(frames, Len(frames))
  BY <1>1, InnermostExists
<1>3. BreakBlock = frames[k].end_block /\ ContinueBlock = ContinueOf(frames[k])
  <2>1. frames[k].at \in LoopStages
    BY <1>2 DEF Innermost
  <2>. QED
    BY <1>1, <1>2, <2>1, LoopsMeaning DEF Loops, BreakBlock, ContinueBlock
<1>4. current_block \in Block
  BY <1>1, TopFacts
<1>5. terminal'[current_block] \in {Jump(BreakBlock), Jump(ContinueBlock)}
  BY <1>4 DEF Break, Continue, EndBlock, TypeOK
<1>. QED
  BY <1>2, <1>3, <1>5

\* Any other action that ends a block begins or ends a construct.
LEMMA OthersChangeFrames ==
  ASSUME TypeOK, Next, frames' = frames, layout' # layout
  PROVE  Break \/ Continue
<1>1. frames \in Seq(Frame) /\ Len(frames) \in Nat
  BY DEF TypeOK
<1>2. ASSUME NEW f \in Frame, Push(f) PROVE FALSE
  BY <1>1, <1>2, PushFacts
<1>3. ASSUME Len(frames) > 0, Pop PROVE FALSE
  BY <1>1, <1>3, PopFacts
<1>4. ASSUME Len(frames) > 0, NEW f, Replace(f) PROVE f.at = Top.at
  <2>1. Len(frames) \in 1 .. Len(frames)
    BY <1>1, <1>4
  <2>2. frames = [frames EXCEPT ![Len(frames)] = f]
    BY <1>4 DEF Replace
  <2>3. frames[Len(frames)] = f
    BY <1>1, <2>1, <2>2
  <2>. QED
    BY <2>3 DEF Top
<1>6. ~ BeginMethod /\ ~ BlocksUnchanged
  BY DEF BeginMethod, BlocksUnchanged
<1>7. ~ (EndShortCircuit \/ EndIf \/ EndElse \/ EndWhile \/ EndFor \/ EndReturn)
  BY <1>3 DEF EndShortCircuit, EndIf, EndElse, EndWhile, EndFor, EndReturn, At
<1>8. ~ \E returns_void \in BOOLEAN : EndMethod(returns_void)
  BY <1>3 DEF EndMethod, At
<1>9. ASSUME ShortCircuitBranch \/ IfBranch \/ Else PROVE FALSE
  <2>. DEFINE f(at) == [FrameAt(at) EXCEPT !.false_block = NewBlock(1)]
              g == [FrameAt("else_block") EXCEPT !.end_block = NewBlock(0)]
  <2>1. /\ Len(frames) > 0
        /\ \/ Replace(f("right")) /\ Top.at = "left"
           \/ Replace(f("if_block")) /\ Top.at = "if_condition"
           \/ Replace(g) /\ Top.at = "if_block"
    BY <1>9 DEF ShortCircuitBranch, IfBranch, Else, At
  <2>2. f("right").at = "right" /\ f("if_block").at = "if_block" /\ g.at = "else_block"
    BY DEF FrameAt
  <2>. HIDE DEF f, g
  <2>. QED
    BY <1>4, <2>1, <2>2
<1>10. ASSUME BeginWhile PROVE FALSE
  <2>1. PICK f : frames' = Append(frames, f)
    BY <1>10 DEF BeginWhile, Push
  <2>2. Len(Append(frames, f)) = Len(frames) + 1
    BY <1>1
  <2>. QED
    BY <1>1, <2>1, <2>2
<1>11. ASSUME EnterFor PROVE FALSE
  <2>. DEFINE f == [FrameAt("for_condition") EXCEPT
                      !.condition_block = NewBlock(0), !.loop_block = NewBlock(1),
                      !.update_block = NewBlock(2), !.end_block = NewBlock(3)]
  <2>1. Len(frames) > 0 /\ Replace(f) /\ Top.at = "initial"
    BY <1>11 DEF EnterFor, At
  <2>2. f.at = "for_condition"
    BY DEF FrameAt
  <2>. HIDE DEF f
  <2>. QED
    BY <1>4, <2>1, <2>2
<1>12. ASSUME WhileBranch \/ ForBranch \/ BoundsCheck PROVE FALSE
  <2>1. ASSUME NEW at, Len(frames) > 0, Goto(at) PROVE Top.at = at
    <3>1. Top \in Frame
      BY <1>1, <2>1 DEF Top
    <3>2. [Top EXCEPT !.at = at].at = at
      BY <3>1 DEF Frame
    <3>. QED
      BY <1>4, <2>1, <3>2 DEF Goto
  <2>. QED
    BY <1>12, <2>1 DEF WhileBranch, ForBranch, BoundsCheck, At
<1>13. ASSUME NEW child \in {"index", "source", "argument"}, BeginUpdate(child) PROVE FALSE
  <2>. DEFINE s == [frames EXCEPT ![Len(frames)] = [Top EXCEPT !.at = "update"]]
  <2>1. frames = Append(s, FrameAt(child))
    BY <1>13 DEF BeginUpdate
  <2>2. s \in Seq(Frame) /\ Len(s) = Len(frames)
    <3>1. Top \in Frame /\ Len(frames) \in 1 .. Len(frames)
      BY <1>1, <1>13 DEF BeginUpdate, At, Top
    <3>2. [Top EXCEPT !.at = "update"] \in Frame
      BY <3>1 DEF Frame, Stage
    <3>. QED
      BY <1>1, <3>1, <3>2
  <2>. HIDE DEF s
  <2>3. Len(Append(s, FrameAt(child))) = Len(s) + 1
    BY <2>2
  <2>. QED
    BY <1>1, <2>1, <2>2, <2>3
<1>14. ~ (\/ \E indexed \in BOOLEAN : BeginAssignment(indexed) \/ BeginFor(indexed)
          \/ EndAssignment \/ BeginCall \/ EndCall \/ BeginShortCircuit \/ BeginIf \/ BeginReturn)
  BY <1>6 DEF BeginAssignment, BeginFor, EndAssignment, BeginCall, EndCall, BeginShortCircuit,
              BeginIf, BeginReturn
<1>. QED
  BY <1>6, <1>7, <1>8, <1>9, <1>10, <1>11, <1>12, <1>13, <1>14 DEF Next

\* break and continue leave, or repeat, the innermost loop, in loops nested to any
\* depth and with returns, breaks and continues anywhere in them: the stacks that
\* get_break_block and get_continue_block read are right whenever they read them.
THEOREM LeavesAreInnermost == Spec => BreakAndContinueAreInnermost
<1>. DEFINE A == (frames' = frames /\ layout' # layout) =>
                   \E k \in 1 .. Len(frames) :
                     /\ Innermost(k)
                     /\ terminal'[current_block] \in {Jump(frames[k].end_block), Jump(ContinueOf(frames[k]))}
<1>1. IInv /\ [Next]_vars => A
  <2>. SUFFICES ASSUME IInv, [Next]_vars, frames' = frames, layout' # layout
                PROVE  \E k \in 1 .. Len(frames) :
                         /\ Innermost(k)
                         /\ terminal'[current_block] \in {Jump(frames[k].end_block), Jump(ContinueOf(frames[k]))}
    OBVIOUS
  <2>1. TypeOK /\ Core /\ Loops
    BY IInvTypes DEF IInv
  <2>2. Next
    BY DEF vars
  <2>. QED
    BY <2>1, <2>2, OthersChangeFrames, LeaveIsInnermost
<1>2. IInv /\ [Next]_vars => [A]_vars
  BY <1>1
<1>. QED
  BY <1>2, Invariance, PTL DEF Spec, BreakAndContinueAreInnermost
-----------------------------------------------------------------------------
(* Every block can leave.  A set S of blocks that holds the returns and exits *)
(* and whatever leads into S loses members only: each step gives one block its *)
(* terminal.  So the argument is made for one such S at a time.               *)

\* S holds the blocks that leave the method and every block that leads into S.
LeadsIn(S) ==
  \A p \in Block :
    (\/ terminal[p].type \in {"return", "shit_yourself"}
     \/ \E s \in S : s \in Successors(terminal[p])) => p \in S

ConditionStages == {"while_condition", "for_condition"}
RoundStages == {"while_body", "for_body", "update"}

\* S holds the block being filled and what the functions above frame k still hold.
HeldIn(S, k) ==
  /\ current_block = NoBlock \/ current_block \in S
  /\ \A l \in k + 1 .. Len(frames) : Pending(frames[l]) \subseteq S

\* The position is in a finished method, or in one before it.
IsFinished(i) == \E m \in 1 .. Len(methods) : i =< methods[m]

\* Finished methods are in S; the method being generated is once what is still to
\* be placed is in S.  A loop whose end_block is in S has its condition in S, and
\* while the condition is generated, what is still to be placed of it decides.
LeavingIn(S) ==
  /\ \A i \in 1 .. Len(layout) : IsFinished(i) => layout[i] \in S
  /\ HeldIn(S, 0) => \A i \in 1 .. Len(layout) : layout[i] \in S
  /\ \A k \in 1 .. Len(frames) :
       frames[k].at \in ConditionStages /\ HeldIn(S, k) => frames[k].condition_block \in S
  /\ \A k \in 1 .. Len(frames) :
       frames[k].at \in RoundStages /\ frames[k].end_block \in S => frames[k].condition_block \in S

Leaving == \A S \in SUBSET Block : LeadsIn(S) => LeavingIn(S)

\* While a condition or an update is generated no statement can begin; and a while
\* has no update_block.
Sheltered ==
  \A k \in 1 .. Len(frames) :
    /\ frames[k].at \in ConditionStages \cup {"update"} =>
         \A l \in k + 1 .. Len(frames) :
           frames[l].at \in {"index", "source", "argument", "left", "right"}
    /\ frames[k].at = "while_body" \/ frames[k].at = "while_condition" =>
         frames[k].update_block = NoBlock

-----------------------------------------------------------------------------
(* What a step does to one S.                                                *)

\* A step that fills terminals of blocks that had none takes nothing into S.
LEMMA LeadsInBefore ==
  ASSUME NEW S, LeadsIn(S)',
         \A p \in Block : terminal'[p] = terminal[p] \/ terminal[p] = Unset
  PROVE  LeadsIn(S)
<1>. SUFFICES ASSUME NEW p \in Block,
                     \/ terminal[p].type \in {"return", "shit_yourself"}
                     \/ \E s \in S : s \in Successors(terminal[p])
              PROVE  p \in S
  BY DEF LeadsIn
<1>1. Unset.type = "unknown"
  BY DEF Unset
<1>2. terminal'[p] = terminal[p]
  BY <1>1, NoSuccessors
<1>. QED
  BY <1>2 DEF LeadsIn

\* What the current block's terminal tells: it leaves, or leads into S.
LEMMA LeadsInNow ==
  ASSUME NEW S, LeadsIn(S)', NEW p \in Block, NEW t, terminal'[p] = t
  PROVE  /\ t \in {Return, ShitYourself} => p \in S
         /\ \A s \in S : s \in Block /\ s \in Successors(t) => p \in S
<1>1. Return.type = "return" /\ ShitYourself.type = "shit_yourself"
  BY DEF Return, ShitYourself, Unset
<1>. QED
  BY <1>1 DEF LeadsIn

\* The targets of the terminals that go somewhere.
LEMMA TargetsBack ==
  ASSUME NEW b, NEW c
  PROVE  \A s \in Block : /\ s = b => s \in Successors(Jump(b))
                          /\ s = b \/ s = c => s \in Successors(Branch(b, c))
BY DEF Successors, Jump, Branch, Unset, NoBlock, Block

\* S holds the next block and what the top, and what came on it, hold after the step.
NextIn(S) ==
  /\ current_block' \in S
  /\ \A l \in Len(frames) .. Len(frames') : Pending(frames'[l]) \subseteq S

\* The step places the current block, and others only if S holds them; and it leaves
\* the frames below the top alone.
Places(S) ==
  /\ UNCHANGED methods
  /\ Len(layout') \in Nat /\ Len(layout') >= Len(layout)
  /\ \A i \in 1 .. Len(layout) : layout'[i] = layout[i]
  /\ \A i \in 1 .. Len(layout') :
       i \in 1 .. Len(layout) \/ layout'[i] = current_block \/ layout'[i] \in S
  /\ current_block' \in Block

KeepsBelow ==
  /\ Len(frames) > 0
  /\ frames' \in Seq(Frame) /\ Len(frames') \in Nat /\ Len(frames') >= Len(frames) - 1
  /\ \A k \in 1 .. Len(frames) - 1 : frames'[k] = frames[k]

\* The rule for loops, for the frames from the top on.
LoopsIn(S) ==
  \A k \in Len(frames) .. Len(frames') :
    /\ frames'[k].at \in ConditionStages /\ current_block' \in S => frames'[k].condition_block \in S
    /\ frames'[k].at \in RoundStages /\ frames'[k].end_block \in S => frames'[k].condition_block \in S

\* What held of S before such a step holds after it, if what is still to be placed
\* decides about the current block too.
LEMMA LeavingAfter ==
  ASSUME TypeOK, MethodsInLayout, NEW S \in SUBSET Block, LeavingIn(S),
         Places(S), KeepsBelow, LoopsIn(S),
         \A k \in 0 .. Len(frames) - 1 :
           (k = 0 \/ frames[k].at \in ConditionStages) /\ HeldIn(S, k)'
             => HeldIn(S, k) /\ current_block \in S
  PROVE  LeavingIn(S)'
<1>. DEFINE n == Len(frames)
<1>1. n \in Nat \ {0} /\ Len(frames') \in Nat
  BY DEF TypeOK, KeepsBelow
<1>3. \A i \in 1 .. Len(layout') : IsFinished(i)' => layout'[i] \in S
  <2>. SUFFICES ASSUME NEW i \in 1 .. Len(layout'), IsFinished(i)' PROVE layout'[i] \in S
    OBVIOUS
  <2>1. PICK m \in 1 .. Len(methods) : i =< methods[m]
    BY DEF IsFinished, Places
  <2>2. methods[m] =< Len(layout) /\ methods[m] \in Nat /\ Len(layout) \in Nat
    BY DEF MethodsInLayout, TypeOK
  <2>3. i \in 1 .. Len(layout) /\ IsFinished(i)
    BY <2>1, <2>2 DEF IsFinished
  <2>. QED
    BY <2>3 DEF LeavingIn, Places
<1>4. ASSUME HeldIn(S, 0)', NEW i \in 1 .. Len(layout') PROVE layout'[i] \in S
  <2>1. HeldIn(S, 0) /\ current_block \in S
    BY <1>1, <1>4
  <2>2. \A j \in 1 .. Len(layout) : layout[j] \in S
    BY <2>1 DEF LeavingIn
  <2>. QED
    BY <2>1, <2>2 DEF Places
<1>5. current_block' # NoBlock
  BY DEF Places, Block, NoBlock
<1>6. ASSUME NEW k \in 1 .. Len(frames'), frames'[k].at \in ConditionStages, HeldIn(S, k)'
      PROVE  frames'[k].condition_block \in S
  <2>1. CASE k \in 1 .. n - 1
    <3>1. frames'[k] = frames[k] /\ k \in 1 .. n /\ k \in 0 .. n - 1
      BY <1>1, <2>1 DEF KeepsBelow
    <3>2. HeldIn(S, k)
      BY <1>6, <3>1
    <3>. QED
      BY <1>6, <3>1, <3>2 DEF LeavingIn
  <2>2. CASE k \in n .. Len(frames')
    BY <1>5, <1>6, <2>2 DEF LoopsIn, HeldIn
  <2>. QED
    BY <1>1, <2>1, <2>2
<1>7. ASSUME NEW k \in 1 .. Len(frames'), frames'[k].at \in RoundStages, frames'[k].end_block \in S
      PROVE  frames'[k].condition_block \in S
  <2>1. CASE k \in 1 .. n - 1
    <3>1. frames'[k] = frames[k] /\ k \in 1 .. n
      BY <1>1, <2>1 DEF KeepsBelow
    <3>. QED
      BY <1>7, <3>1 DEF LeavingIn
  <2>2. CASE k \in n .. Len(frames')
    BY <1>7, <2>2 DEF LoopsIn
  <2>. QED
    BY <1>1, <2>1, <2>2
<1>. QED
  BY <1>3, <1>4, <1>6, <1>7 DEF LeavingIn

\* So it is when the current block's terminal leads into what is placed next.
LEMMA LeavingForward ==
  ASSUME TypeOK, MethodsInLayout, NEW S \in SUBSET Block, LeavingIn(S),
         Places(S), KeepsBelow, LoopsIn(S),
         NextIn(S) => current_block \in S /\ Pending(Top) \subseteq S
  PROVE  LeavingIn(S)'
<1>. DEFINE n == Len(frames)
<1>1. n \in Nat \ {0} /\ Len(frames') \in Nat /\ Len(frames') >= n - 1 /\ Top = frames[n]
  BY DEF TypeOK, KeepsBelow, Top
<1>2. ASSUME NEW k \in 0 .. n - 1, HeldIn(S, k)' PROVE HeldIn(S, k) /\ current_block \in S
  <2>1. current_block' \in S
    BY <1>2 DEF HeldIn, Places, Block, NoBlock
  <2>2. \A l \in k + 1 .. Len(frames') : Pending(frames'[l]) \subseteq S
    BY <1>2 DEF HeldIn
  <2>3. NextIn(S)
    BY <1>1, <2>1, <2>2 DEF NextIn
  <2>4. \A l \in k + 1 .. n - 1 : Pending(frames[l]) \subseteq S
    BY <1>1, <2>2 DEF KeepsBelow
  <2>5. \A l \in k + 1 .. n : Pending(frames[l]) \subseteq S
    <3>1. \A l \in k + 1 .. n : l \in k + 1 .. n - 1 \/ l = n
      BY <1>1
    <3>. QED
      BY <1>1, <2>3, <2>4, <3>1
  <2>. QED
    BY <2>3, <2>5 DEF HeldIn
<1>. QED
  BY <1>2, LeavingAfter

\* What the end of the current block places.
LEMMA EndBlockPlaces ==
  ASSUME TypeOK, Core, Graph, Len(frames) > 0, NEW t, NEW b \in Block, EndBlock(t, b), NEW S
  PROVE  /\ Places(S)
         /\ terminal'[current_block] = t
         /\ \A p \in Block : terminal'[p] = terminal[p] \/ terminal[p] = Unset
         /\ current_block \in Block /\ current_block' = b
<1>1. current_block \in Block /\ terminal[current_block] = Unset
  BY CurrentIsUnset DEF Graph
<1>2. /\ Len(layout) \in Nat /\ Len(layout') = Len(layout) + 1
      /\ \A i \in 1 .. Len(layout) : layout'[i] = layout[i]
      /\ layout'[Len(layout) + 1] = current_block
  BY DEF TypeOK, EndBlock
<1>3. \A i \in 1 .. Len(layout') : i \in 1 .. Len(layout) \/ i = Len(layout) + 1
  BY <1>2
<1>4. /\ terminal'[current_block] = t
      /\ \A p \in Block : p # current_block => terminal'[p] = terminal[p]
  BY <1>1 DEF TypeOK, EndBlock
<1>. QED
  BY <1>1, <1>2, <1>3, <1>4 DEF Places, EndBlock

\* A call that ends no block: the frames that begin or end hold none.
LEMMA LeavingQuiet ==
  ASSUME TypeOK, NEW S \in SUBSET Block, LeavingIn(S), BlocksUnchanged,
         frames' \in Seq(Frame), NEW m \in 0 .. Len(frames), m =< Len(frames'),
         \A k \in 1 .. m : frames'[k] = frames[k],
         \A k \in m + 1 .. Len(frames) : Pending(frames[k]) = {},
         \A k \in m + 1 .. Len(frames') : frames'[k].at \notin ConditionStages \cup RoundStages
  PROVE  LeavingIn(S)'
<1>1. Len(frames) \in Nat /\ Len(frames') \in Nat /\ m \in Nat
  BY DEF TypeOK
<1>2. ASSUME NEW k \in 0 .. m, HeldIn(S, k)' PROVE HeldIn(S, k)
  <2>1. \A l \in k + 1 .. m : Pending(frames[l]) \subseteq S
    BY <1>1, <1>2 DEF HeldIn
  <2>2. \A l \in k + 1 .. Len(frames) : Pending(frames[l]) \subseteq S
    BY <1>1, <2>1
  <2>. QED
    BY <1>2, <2>2 DEF HeldIn, BlocksUnchanged
<1>3. \A k \in 1 .. Len(frames') : k \in 1 .. m \/ k \in m + 1 .. Len(frames')
  BY <1>1
<1>4. \A k \in 1 .. m : k \in 1 .. Len(frames) /\ k \in 0 .. m
  BY <1>1
<1>5. layout' = layout /\ \A i : IsFinished(i)' <=> IsFinished(i)
  BY DEF IsFinished, BlocksUnchanged
<1>6. ASSUME NEW k \in 1 .. Len(frames'), frames'[k].at \in ConditionStages, HeldIn(S, k)'
      PROVE  frames'[k].condition_block \in S
  <2>1. k \in 1 .. m
    BY <1>3, <1>6
  <2>. QED
    BY <1>2, <1>4, <1>6, <2>1 DEF LeavingIn
<1>7. ASSUME NEW k \in 1 .. Len(frames'), frames'[k].at \in RoundStages, frames'[k].end_block \in S
      PROVE  frames'[k].condition_block \in S
  <2>1. k \in 1 .. m
    BY <1>3, <1>7
  <2>. QED
    BY <1>4, <1>7, <2>1 DEF LeavingIn
<1>8. HeldIn(S, 0)' => \A i \in 1 .. Len(layout) : layout[i] \in S
  BY <1>1, <1>2 DEF LeavingIn
<1>. QED
  BY <1>5, <1>6, <1>7, <1>8 DEF LeavingIn

\* The block ends with terminal t: S holds it when t leaves or leads into S.
EndsIn(S, t) ==
  (t \in {Return, ShitYourself} \/ \E s \in S : s \in Successors(t)) => current_block \in S

\* A step that ends the current block, with a terminal that leads forward.
LEMMA EndBlockLeaving ==
  ASSUME TypeOK, Core, Graph, Closed, Leaving, NEW t, NEW b \in Block, EndBlock(t, b), KeepsBelow,
         ASSUME NEW S \in SUBSET Block, LeavingIn(S), EndsIn(S, t)
         PROVE  LoopsIn(S) /\ (NextIn(S) => current_block \in S /\ Pending(Top) \subseteq S)
  PROVE  Leaving'
<1>. SUFFICES ASSUME NEW S \in SUBSET Block, LeadsIn(S)' PROVE LeavingIn(S)'
  BY DEF Leaving
<1>1. /\ Places(S) /\ terminal'[current_block] = t /\ current_block \in Block
      /\ \A p \in Block : terminal'[p] = terminal[p] \/ terminal[p] = Unset
  BY EndBlockPlaces DEF KeepsBelow
<1>2. LeavingIn(S)
  BY <1>1, LeadsInBefore DEF Leaving
<1>3. EndsIn(S, t)
  BY <1>1, LeadsInNow DEF EndsIn
<1>4. LoopsIn(S) /\ (NextIn(S) => current_block \in S /\ Pending(Top) \subseteq S)
  BY <1>2, <1>3
<1>. QED
  BY <1>1, <1>2, <1>4, LeavingForward DEF Closed

\* The frames after a call, a return, and a step of the function on top.
LEMMA PopKeeps ==
  ASSUME TypeOK, Len(frames) > 0, Pop
  PROVE  KeepsBelow /\ \A S : LoopsIn(S)
<1>1. /\ frames' \in Seq(Frame) /\ Len(frames) \in Nat /\ Len(frames') = Len(frames) - 1
      /\ \A k \in 1 .. Len(frames) - 1 : frames'[k] = frames[k]
  BY PopFacts DEF TypeOK
<1>. QED
  BY <1>1 DEF KeepsBelow, LoopsIn

LEMMA PushKeeps ==
  ASSUME TypeOK, Len(frames) > 0, NEW f \in Frame, Push(f),
         Top.at \notin ConditionStages
  PROVE  /\ KeepsBelow
         /\ \A S : NextIn(S) => Pending(Top) \subseteq S
         /\ \A S : /\ LeavingIn(S)
                   /\ f.at \in ConditionStages /\ current_block' \in S => f.condition_block \in S
                   /\ f.at \notin RoundStages
                   => LoopsIn(S)
<1>. DEFINE n == Len(frames)
<1>1. /\ frames' \in Seq(Frame) /\ n \in Nat /\ Len(frames') = n + 1 /\ frames'[n + 1] = f
      /\ \A k \in 1 .. n : frames'[k] = frames[k]
      /\ n \in 1 .. n /\ n \in n .. n + 1
  BY PushFacts DEF TypeOK
<1>2. KeepsBelow
  BY <1>1 DEF KeepsBelow
<1>3. frames'[n] = Top /\ frames[n] = Top
  BY <1>1 DEF Top
<1>4. \A k : k \in n .. Len(frames') <=> k = n \/ k = n + 1
  BY <1>1
<1>5. \A S : NextIn(S) => Pending(Top) \subseteq S
  BY <1>1, <1>3 DEF NextIn
<1>6. ASSUME NEW S, LeavingIn(S), f.at \notin RoundStages,
             f.at \in ConditionStages /\ current_block' \in S => f.condition_block \in S
      PROVE  LoopsIn(S)
  <2>1. Top.at \in RoundStages /\ Top.end_block \in S => Top.condition_block \in S
    BY <1>1, <1>3, <1>6 DEF LeavingIn
  <2>. QED
    BY <1>1, <1>3, <1>4, <1>6, <2>1 DEF LoopsIn
<1>. QED
  BY <1>2, <1>5, <1>6

LEMMA ReplaceKeeps ==
  ASSUME TypeOK, Len(frames) > 0, NEW f \in Frame, Replace(f)
  PROVE  /\ KeepsBelow
         /\ \A S : NextIn(S) => Pending(f) \subseteq S
         /\ \A S : /\ f.at \in ConditionStages /\ current_block' \in S => f.condition_block \in S
                   /\ f.at \in RoundStages /\ f.end_block \in S => f.condition_block \in S
                   => LoopsIn(S)
<1>. DEFINE n == Len(frames)
<1>1. /\ frames' \in Seq(Frame) /\ n \in Nat /\ Len(frames') = n /\ frames'[n] = f
      /\ \A k \in 1 .. n : k # n => frames'[k] = frames[k]
      /\ n \in 1 .. n
  BY ReplaceFacts DEF TypeOK
<1>2. KeepsBelow
  BY <1>1 DEF KeepsBelow
<1>3. \A k : k \in n .. Len(frames') <=> k = n
  BY <1>1
<1>. QED
  BY <1>1, <1>2, <1>3 DEF NextIn, LoopsIn

-----------------------------------------------------------------------------
(* The actions.                                                              *)

\* The end of a short circuit, an if or an else.
LEMMA EndsLeaving ==
  ASSUME TypeOK, Core, Graph, Closed, Leaving, EndShortCircuit \/ EndIf \/ EndElse
  PROVE  Leaving'
<1>1. PICK b : Len(frames) > 0 /\ Pending(Top) = {b} /\ EndBlock(Jump(b), b) /\ Pop
  <2>1. Len(frames) > 0
    BY DEF EndShortCircuit, EndIf, EndElse, At
  <2>2. Top \in Frame
    BY <2>1, TopFacts
  <2>. QED
    BY <2>1, <2>2, PendingFacts DEF EndShortCircuit, EndIf, EndElse, At
<1>2. b \in Block
  BY <1>1, TopFacts
<1>3. KeepsBelow /\ \A S : LoopsIn(S)
  BY <1>1, PopKeeps
<1>4. ASSUME NEW S \in SUBSET Block, LeavingIn(S), EndsIn(S, Jump(b))
      PROVE  LoopsIn(S) /\ (NextIn(S) => current_block \in S /\ Pending(Top) \subseteq S)
  BY <1>1, <1>2, <1>3, <1>4, TargetsBack DEF EndsIn, NextIn, EndBlock
<1>. QED
  BY <1>1, <1>2, <1>3, <1>4, EndBlockLeaving

\* The end of a loop goes back to the condition, which S holds with the end_block.
LEMMA EndLoopLeaving ==
  ASSUME TypeOK, Core, Graph, Closed, Leaving, EndWhile \/ EndFor
  PROVE  Leaving'
<1>. DEFINE t == Jump(Top.condition_block)
<1>1. Len(frames) > 0 /\ EndBlock(t, Top.end_block) /\ Pop /\ Top.at \in {"while_body", "update"}
  BY DEF EndWhile, EndFor, At
<1>2. Top \in Frame /\ Len(frames) \in 1 .. Len(frames) /\ Top = frames[Len(frames)]
      /\ Pending(Top) \subseteq Block
  BY <1>1, TopFacts
<1>3. Pending(Top) = {Top.end_block} /\ Top.end_block \in Block
  BY <1>1, <1>2, PendingFacts
<1>4. KeepsBelow /\ \A S : LoopsIn(S)
  BY <1>1, PopKeeps
<1>5. ASSUME NEW S \in SUBSET Block, LeavingIn(S), EndsIn(S, t)
      PROVE  LoopsIn(S) /\ (NextIn(S) => current_block \in S /\ Pending(Top) \subseteq S)
  <2>1. Top.end_block \in S => Top.condition_block \in S
    BY <1>1, <1>2, <1>5 DEF LeavingIn, RoundStages
  <2>2. Top.condition_block \in S => current_block \in S
    BY <1>5, TargetsBack DEF EndsIn
  <2>. QED
    BY <1>1, <1>3, <1>4, <2>1, <2>2 DEF NextIn, EndBlock
<1>. HIDE DEF t
<1>. QED
  BY <1>1, <1>3, <1>4, <1>5, EndBlockLeaving

\* generate_return_statement leaves.
LEMMA EndReturnLeaving ==
  ASSUME TypeOK, Core, Graph, Closed, Leaving, EndReturn
  PROVE  Leaving'
<1>1. Len(frames) > 0 /\ Allocate(1) /\ EndBlock(Return, NewBlock(0)) /\ Pop /\ Top.at = "return_value"
  BY DEF EndReturn, At
<1>2. NewBlock(0) \in Block
  BY <1>1, OneFresh
<1>3. Pending(Top) = {}
  BY <1>1, TopFacts, PendingFacts
<1>4. KeepsBelow /\ \A S : LoopsIn(S)
  BY <1>1, PopKeeps
<1>5. ASSUME NEW S \in SUBSET Block, LeavingIn(S), EndsIn(S, Return)
      PROVE  LoopsIn(S) /\ (NextIn(S) => current_block \in S /\ Pending(Top) \subseteq S)
  BY <1>3, <1>4, <1>5 DEF EndsIn
<1>. QED
  BY <1>1, <1>2, <1>4, <1>5, EndBlockLeaving

\* The conditions of an if and of a short circuit.
LEMMA IfBranchLeaving ==
  ASSUME TypeOK, Core, Graph, Closed, Leaving, IfBranch \/ ShortCircuitBranch
  PROVE  Leaving'
<1>. DEFINE t == Branch(NewBlock(0), NewBlock(1))
<1>1. PICK at \in {"if_block", "right"} :
        /\ Len(frames) > 0 /\ Allocate(2) /\ EndBlock(t, NewBlock(0))
        /\ Replace([FrameAt(at) EXCEPT !.false_block = NewBlock(1)])
        /\ Top.at \in {"if_condition", "left"}
  BY DEF IfBranch, ShortCircuitBranch, At
<1>. DEFINE f == [FrameAt(at) EXCEPT !.false_block = NewBlock(1)]
<1>2. NewBlock(0) \in Block /\ NewBlock(1) \in Block
  BY <1>1, TwoFresh DEF Fresh
<1>3. f \in Frame /\ f.at \notin ConditionStages \cup RoundStages
  BY <1>2 DEF FrameAt, Frame, Stage, BlockOrNone, ConditionStages, RoundStages
<1>4. Pending(Top) = {}
  BY <1>1, TopFacts, PendingFacts
<1>5. \A s \in Block : s = NewBlock(0) => s \in Successors(t)
  BY TargetsBack
<1>6. Replace(f) /\ EndBlock(t, NewBlock(0))
  BY <1>1
<1>. HIDE DEF f, t
<1>7. KeepsBelow /\ \A S : LoopsIn(S)
  BY <1>1, <1>3, <1>6, ReplaceKeeps
<1>8. ASSUME NEW S \in SUBSET Block, LeavingIn(S), EndsIn(S, t)
      PROVE  LoopsIn(S) /\ (NextIn(S) => current_block \in S /\ Pending(Top) \subseteq S)
  BY <1>4, <1>5, <1>6, <1>7, <1>8 DEF EndsIn, NextIn, EndBlock
<1>. QED
  BY <1>2, <1>6, <1>7, <1>8, EndBlockLeaving

\* generate_if_statement goes on to its else part.
LEMMA ElseLeaving ==
  ASSUME TypeOK, Core, Graph, Closed, Leaving, Else
  PROVE  Leaving'
<1>. DEFINE t == Jump(NewBlock(0))
            f == [FrameAt("else_block") EXCEPT !.end_block = NewBlock(0)]
<1>1. /\ Len(frames) > 0 /\ Allocate(1) /\ EndBlock(t, Top.false_block)
      /\ Replace(f) /\ Top.at = "if_block"
  BY DEF Else, At
<1>2. NewBlock(0) \in Block
  BY <1>1, OneFresh
<1>3. f \in Frame /\ f.at = "else_block" /\ f.end_block = NewBlock(0)
  BY <1>2 DEF FrameAt, Frame, Stage, BlockOrNone
<1>4. Pending(Top) = {Top.false_block} /\ Top.false_block \in Block
  BY <1>1, TopFacts, PendingFacts
<1>5. \A s \in Block : s = NewBlock(0) => s \in Successors(t)
  BY TargetsBack
<1>. HIDE DEF f, t
<1>6. Pending(f) = {NewBlock(0)} /\ f.at \notin ConditionStages \cup RoundStages
  BY <1>3, PendingFacts DEF ConditionStages, RoundStages
<1>7. KeepsBelow /\ (\A S : LoopsIn(S)) /\ \A S : NextIn(S) => Pending(f) \subseteq S
  BY <1>1, <1>3, <1>6, ReplaceKeeps
<1>8. ASSUME NEW S \in SUBSET Block, LeavingIn(S), EndsIn(S, t)
      PROVE  LoopsIn(S) /\ (NextIn(S) => current_block \in S /\ Pending(Top) \subseteq S)
  BY <1>1, <1>2, <1>4, <1>5, <1>6, <1>7, <1>8 DEF EndsIn, NextIn, EndBlock
<1>. QED
  BY <1>1, <1>4, <1>7, <1>8, EndBlockLeaving

\* generate_while_statement opens its loop.
LEMMA BeginWhileLeaving ==
  ASSUME TypeOK, Core, Graph, Closed, Leaving, BeginWhile
  PROVE  Leaving'
<1>. DEFINE t == Jump(NewBlock(0))
            f == [FrameAt("while_condition") EXCEPT
                    !.condition_block = NewBlock(0),
                    !.loop_block = NewBlock(1), !.end_block = NewBlock(2)]
<1>1. /\ Len(frames) > 0 /\ Allocate(3) /\ EndBlock(t, NewBlock(0)) /\ Push(f)
      /\ Top.at \in StatementStages
  BY DEF BeginWhile, AtStatement
<1>2. NewBlock(0) \in Block /\ NewBlock(1) \in Block /\ NewBlock(2) \in Block
  <2>1. \A i : i \in 0 .. 3 - 1 <=> i \in {0, 1, 2}
    OBVIOUS
  <2>. QED
    BY <1>1, <2>1, FreshFacts
<1>3. f \in Frame /\ f.condition_block = NewBlock(0) /\ f.at = "while_condition"
  BY <1>2, FrameAtFacts, ZenonT(40) DEF FrameAt, Stage
<1>4. \A s \in Block : s = NewBlock(0) => s \in Successors(t)
  BY TargetsBack
<1>. HIDE DEF f, t
<1>5. Top.at \notin ConditionStages /\ f.at \notin RoundStages
  BY <1>1, <1>3 DEF StatementStages, ConditionStages, RoundStages
<1>6. /\ KeepsBelow /\ \A S : NextIn(S) => Pending(Top) \subseteq S
      /\ \A S : LeavingIn(S) /\ (current_block' \in S => f.condition_block \in S) => LoopsIn(S)
  BY <1>1, <1>3, <1>5, PushKeeps
<1>7. ASSUME NEW S \in SUBSET Block, LeavingIn(S), EndsIn(S, t)
      PROVE  LoopsIn(S) /\ (NextIn(S) => current_block \in S /\ Pending(Top) \subseteq S)
  <2>1. current_block' = NewBlock(0)
    BY <1>1 DEF EndBlock
  <2>2. LoopsIn(S)
    BY <1>3, <1>6, <1>7, <2>1
  <2>3. NextIn(S) => current_block \in S
    BY <1>2, <1>4, <1>7, <2>1 DEF EndsIn, NextIn
  <2>. QED
    BY <1>6, <2>2, <2>3
<1>. QED
  BY <1>1, <1>2, <1>6, <1>7, EndBlockLeaving

\* generate_for_statement opens its loop.
LEMMA EnterForLeaving ==
  ASSUME TypeOK, Core, Graph, Closed, Leaving, EnterFor
  PROVE  Leaving'
<1>. DEFINE t == Jump(NewBlock(0))
            f == [FrameAt("for_condition") EXCEPT
                    !.condition_block = NewBlock(0), !.loop_block = NewBlock(1),
                    !.update_block = NewBlock(2), !.end_block = NewBlock(3)]
<1>1. /\ Len(frames) > 0 /\ Allocate(4) /\ EndBlock(t, NewBlock(0)) /\ Replace(f)
      /\ Top.at = "initial"
  BY DEF EnterFor, At
<1>2. NewBlock(0) \in Block /\ NewBlock(1) \in Block /\ NewBlock(2) \in Block /\ NewBlock(3) \in Block
  <2>1. \A i : i \in 0 .. 4 - 1 <=> i \in {0, 1, 2, 3}
    OBVIOUS
  <2>. QED
    BY <1>1, <2>1, FreshFacts
<1>3. f \in Frame /\ f.condition_block = NewBlock(0) /\ f.at = "for_condition"
  BY <1>2, FrameAtFacts, ZenonT(40) DEF FrameAt, Stage
<1>4. \A s \in Block : s = NewBlock(0) => s \in Successors(t)
  BY TargetsBack
<1>5. Pending(Top) = {}
  BY <1>1, TopFacts, PendingFacts
<1>. HIDE DEF f, t
<1>6. f.at \notin RoundStages
  BY <1>3 DEF RoundStages
<1>7. /\ KeepsBelow
      /\ \A S : (current_block' \in S => f.condition_block \in S) => LoopsIn(S)
  BY <1>1, <1>3, <1>6, ReplaceKeeps
<1>8. ASSUME NEW S \in SUBSET Block, LeavingIn(S), EndsIn(S, t)
      PROVE  LoopsIn(S) /\ (NextIn(S) => current_block \in S /\ Pending(Top) \subseteq S)
  <2>1. current_block' = NewBlock(0)
    BY <1>1 DEF EndBlock
  <2>2. LoopsIn(S)
    BY <1>3, <1>7, <2>1
  <2>3. NextIn(S) => current_block \in S
    BY <1>2, <1>4, <1>8, <2>1 DEF EndsIn, NextIn
  <2>. QED
    BY <1>5, <2>2, <2>3
<1>. QED
  BY <1>1, <1>2, <1>7, <1>8, EndBlockLeaving

\* The condition of a loop: its branch leads to the end_block, and to the condition
\* leads what S holds with the branch.
LEMMA LoopBranchLeaving ==
  ASSUME TypeOK, Core, Graph, Closed, Leaving, WhileBranch \/ ForBranch
  PROVE  Leaving'
<1>. DEFINE n == Len(frames)
            t == Branch(Top.loop_block, Top.end_block)
<1>1. PICK at \in {"while_body", "for_body"} :
        /\ n > 0 /\ EndBlock(t, Top.loop_block)
        /\ Replace([Top EXCEPT !.at = at])
        /\ \/ at = "while_body" /\ Top.at = "while_condition"
           \/ at = "for_body" /\ Top.at = "for_condition"
  BY DEF WhileBranch, ForBranch, At, Goto
<1>. DEFINE f == [Top EXCEPT !.at = at]
<1>2. Top \in Frame /\ Pending(Top) \subseteq Block /\ Top = frames[n] /\ n \in 1 .. n /\ n \in Nat
      /\ current_block \in Block
  BY <1>1, TopFacts
<1>3. /\ Top.loop_block \in Pending(Top) /\ Top.end_block \in Pending(Top)
      /\ Top.loop_block \in Block /\ Top.end_block \in Block
  BY <1>1, <1>2, PendingFacts
<1>4. /\ f \in Frame /\ f.condition_block = Top.condition_block /\ f.end_block = Top.end_block
      /\ f.update_block = Top.update_block /\ f.at = at
  BY <1>2 DEF Frame, Stage
<1>5. Replace(f)
  BY <1>1
<1>6. \A s \in Block : s = Top.loop_block \/ s = Top.end_block => s \in Successors(t)
  BY TargetsBack
<1>. HIDE DEF f, t
<1>7. Pending(Top) = Pending(f) \cup {Top.loop_block}
  BY <1>1, <1>2, <1>4, PendingFacts
<1>8. f.at \notin ConditionStages /\ Top.at \in ConditionStages
  BY <1>1, <1>4 DEF ConditionStages
<1>9. /\ KeepsBelow /\ \A S : NextIn(S) => Pending(f) \subseteq S
      /\ \A S : (f.end_block \in S => f.condition_block \in S) => LoopsIn(S)
  BY <1>1, <1>4, <1>5, <1>8, ReplaceKeeps
<1>10. ASSUME NEW S \in SUBSET Block, LeavingIn(S), EndsIn(S, t)
       PROVE  LoopsIn(S) /\ (NextIn(S) => current_block \in S /\ Pending(Top) \subseteq S)
  <2>1. Top.loop_block \in S \/ Top.end_block \in S => current_block \in S
    BY <1>3, <1>6, <1>10 DEF EndsIn
  <2>2. current_block \in S => HeldIn(S, n)
    BY <1>2 DEF HeldIn
  <2>3. current_block \in S => Top.condition_block \in S
    BY <1>2, <1>8, <1>10, <2>2 DEF LeavingIn
  <2>4. LoopsIn(S)
    BY <1>4, <1>9, <2>1, <2>3
  <2>5. NextIn(S) => Top.loop_block \in S
    BY <1>1 DEF NextIn, EndBlock
  <2>. QED
    BY <1>7, <1>9, <2>1, <2>4, <2>5
<1>. QED
  BY <1>1, <1>3, <1>9, <1>10, EndBlockLeaving

\* generate_for_update starts in the update block.
LEMMA BeginUpdateLeaving ==
  ASSUME TypeOK, Core, Graph, Closed, Leaving, NEW child \in {"index", "source", "argument"}, BeginUpdate(child)
  PROVE  Leaving'
<1>. DEFINE n == Len(frames)
            t == Jump(Top.update_block)
            f == FrameAt(child)
            g == [Top EXCEPT !.at = "update"]
<1>1. /\ n > 0 /\ Top.at = "for_body" /\ EndBlock(t, Top.update_block)
      /\ frames' = Append([frames EXCEPT ![n] = g], f)
  BY DEF BeginUpdate, At
<1>2. /\ Top \in Frame /\ Pending(Top) \subseteq Block
      /\ frames \in Seq(Frame) /\ n \in 1 .. n /\ Top = frames[n]
  BY <1>1, TopFacts
<1>3. Pending(Top) = {Top.update_block, Top.end_block} /\ Top.update_block \in Block
  BY <1>1, <1>2, PendingFacts
<1>4. f \in Frame /\ f.at \notin ConditionStages \cup RoundStages
  BY DEF FrameAt, Frame, Stage, BlockOrNone, ConditionStages, RoundStages
<1>5. /\ g \in Frame /\ g.condition_block = Top.condition_block /\ g.end_block = Top.end_block
      /\ g.at = "update"
  BY <1>2 DEF Frame, Stage
<1>6. \A s \in Block : s = Top.update_block => s \in Successors(t)
  BY TargetsBack
<1>. HIDE DEF f, g, t
<1>7. /\ n \in Nat /\ Len(frames') = n + 1 /\ frames' \in Seq(Frame)
      /\ frames'[n + 1] = f /\ frames'[n] = g
      /\ \A k \in 1 .. n : k # n => frames'[k] = frames[k]
  BY <1>1, <1>2, <1>4, <1>5
<1>8. KeepsBelow
  BY <1>1, <1>7 DEF KeepsBelow
<1>9. \A k : k \in n .. Len(frames') <=> k = n \/ k = n + 1
  BY <1>7
<1>10. Pending(g) = {Top.end_block} /\ g.at \notin ConditionStages /\ g.at \in RoundStages
       /\ Top.at \in RoundStages
  BY <1>1, <1>5, PendingFacts DEF ConditionStages, RoundStages
<1>11. ASSUME NEW S \in SUBSET Block, LeavingIn(S), EndsIn(S, t)
       PROVE  LoopsIn(S) /\ (NextIn(S) => current_block \in S /\ Pending(Top) \subseteq S)
  <2>1. Top.end_block \in S => Top.condition_block \in S
    BY <1>2, <1>10, <1>11 DEF LeavingIn
  <2>2. LoopsIn(S)
    BY <1>4, <1>5, <1>7, <1>9, <1>10, <2>1 DEF LoopsIn
  <2>3. NextIn(S) => Top.update_block \in S /\ Top.end_block \in S
    BY <1>1, <1>7, <1>9, <1>10 DEF NextIn, EndBlock
  <2>4. Top.update_block \in S => current_block \in S
    BY <1>3, <1>6, <1>11 DEF EndsIn
  <2>. QED
    BY <1>3, <2>2, <2>3, <2>4
<1>. QED
  BY <1>1, <1>3, <1>8, <1>11, EndBlockLeaving

\* A statement does not stand in a condition or in an update.
LEMMA StatementsAreOutside ==
  ASSUME TypeOK, Sheltered, AtStatement, NEW k \in 1 .. Len(frames)
  PROVE  frames[k].at \notin ConditionStages \cup {"update"}
<1>. SUFFICES ASSUME frames[k].at \in ConditionStages \cup {"update"} PROVE FALSE
  OBVIOUS
<1>1. Len(frames) \in Nat /\ Top = frames[Len(frames)] /\ Top.at \in StatementStages
  BY DEF TypeOK, AtStatement, Top
<1>2. k # Len(frames)
  BY <1>1 DEF StatementStages, ConditionStages
<1>3. Len(frames) \in k + 1 .. Len(frames)
  BY <1>1, <1>2
<1>4. Top.at \in {"index", "source", "argument", "left", "right"}
  BY <1>1, <1>3 DEF Sheltered
<1>. QED
  BY <1>1, <1>4 DEF StatementStages

\* break goes to the end_block of a loop, which is still to be placed; continue goes
\* to the update_block, which is so too, or to the condition.
LEMMA LeaveLeaving ==
  ASSUME TypeOK, Core, Loops, Graph, Closed, Sheltered, Leaving, Break \/ Continue
  PROVE  Leaving'
<1>. DEFINE n == Len(frames)
<1>1. PICK t : /\ n > 0 /\ AtStatement /\ Allocate(1) /\ EndBlock(t, NewBlock(0)) /\ frames' = frames
  BY DEF Break, Continue, AtStatement
<1>2. NewBlock(0) \in Block /\ n \in Nat /\ frames \in Seq(Frame)
  BY <1>1, OneFresh DEF TypeOK
<1>3. PICK k \in 1 .. n :
        /\ frames[k].at \in LoopStages
        /\ terminal'[current_block] \in {Jump(frames[k].end_block), Jump(ContinueOf(frames[k]))}
  BY LeaveIsInnermost DEF Innermost
<1>. DEFINE f == frames[k]
<1>4. f \in Frame /\ Pending(f) \subseteq Block /\ f.at \in {"while_body", "for_body"}
  <2>1. f.at \notin ConditionStages \cup {"update"}
    BY <1>1, StatementsAreOutside
  <2>2. f \in Frame
    BY <1>2
  <2>3. Pending(f) \subseteq Block
    BY DEF Core, Placement, PendingAreBlocks
  <2>. QED
    BY <1>3, <2>1, <2>2, <2>3 DEF LoopStages, ConditionStages
<1>5. f.at = "while_body" => Pending(f) = {f.end_block} /\ ContinueOf(f) = f.condition_block
  <2>1. f.at = "while_body" => f.update_block = NoBlock
    BY DEF Sheltered
  <2>. QED
    BY <1>4, <2>1, PendingFacts DEF ContinueOf
<1>6. f.at = "for_body" => Pending(f) = {f.update_block, f.end_block} /\ ContinueOf(f) = f.update_block
  <2>1. f.at = "for_body" => Pending(f) = {f.update_block, f.end_block}
    BY <1>4, PendingFacts
  <2>2. f.at = "for_body" => f.update_block # NoBlock
    BY <1>4, <2>1 DEF Block, NoBlock
  <2>. QED
    BY <2>1, <2>2 DEF ContinueOf
<1>. SUFFICES ASSUME NEW S \in SUBSET Block, LeadsIn(S)' PROVE LeavingIn(S)'
  BY DEF Leaving
<1>7. /\ Places(S) /\ current_block \in Block
      /\ \A p \in Block : terminal'[p] = terminal[p] \/ terminal[p] = Unset
  BY <1>1, <1>2, EndBlockPlaces
<1>8. LeavingIn(S)
  BY <1>7, LeadsInBefore DEF Leaving
<1>9. KeepsBelow
  BY <1>1, <1>2 DEF KeepsBelow
<1>10. LoopsIn(S)
  <2>1. \A j : j \in n .. Len(frames') <=> j = n
    BY <1>1, <1>2
  <2>2. n \in 1 .. n /\ frames'[n] = frames[n]
    BY <1>1, <1>2
  <2>3. frames[n].at \notin ConditionStages
    BY <1>1, <2>2, StatementsAreOutside
  <2>. QED
    BY <1>8, <2>1, <2>2, <2>3 DEF LoopsIn, LeavingIn
<1>11. HeldIn(S, 0)' => HeldIn(S, 0) /\ current_block \in S
  <2>. SUFFICES ASSUME HeldIn(S, 0)' PROVE HeldIn(S, 0) /\ current_block \in S
    OBVIOUS
  <2>1. \A l \in 1 .. n : Pending(frames[l]) \subseteq S
    BY <1>1, <1>2 DEF HeldIn
  <2>2. f.end_block \in S /\ (f.at = "for_body" => f.update_block \in S)
    BY <1>4, <1>5, <1>6, <2>1
  <2>3. f.at = "while_body" => f.condition_block \in S
    BY <1>8, <2>2 DEF LeavingIn, RoundStages
  <2>4. ContinueOf(f) \in S
    BY <1>4, <1>5, <1>6, <2>2, <2>3
  <2>5. \E s \in S : s \in Block /\ s \in Successors(terminal'[current_block])
    BY <1>3, <2>2, <2>4, TargetsBack
  <2>6. current_block \in S
    BY <1>7, <2>5, LeadsInNow
  <2>. QED
    BY <1>2, <2>1, <2>6 DEF HeldIn
<1>12. \A j \in 0 .. n - 1 : j # 0 => frames[j].at \notin ConditionStages
  BY <1>1, <1>2, StatementsAreOutside
<1>. QED
  BY <1>7, <1>8, <1>9, <1>10, <1>11, <1>12, LeavingAfter DEF Closed

\* generate_bounds_check: the block placed behind the branch exits.
LEMMA BoundsCheckLeaving ==
  ASSUME TypeOK, Core, Graph, Closed, Leaving, BoundsCheck
  PROVE  Leaving'
<1>. DEFINE tb == NewBlock(0)
            fb == NewBlock(1)
            t == Branch(tb, fb)
            b == current_block
            m == Len(layout)
            f == [Top EXCEPT !.at = "source"]
<1>1. /\ Len(frames) > 0 /\ Allocate(2) /\ Replace(f) /\ UNCHANGED methods
      /\ terminal' = [terminal EXCEPT ![b] = t, ![tb] = ShitYourself]
      /\ layout' = layout \o <<b, tb>>
      /\ current_block' = fb
      /\ Top.at = "index"
  BY DEF BoundsCheck, At, Goto
<1>2. tb \in Block /\ fb \in Block /\ tb \in Fresh(2)
  BY <1>1, TwoFresh
<1>3. b \in Block /\ terminal[b] = Unset
  BY <1>1, CurrentIsUnset DEF Graph
<1>4. ~ IsPlaced(tb) /\ tb # b
  <2>1. ~ tb < block_counter
    BY <1>2 DEF Fresh, Block, TypeOK
  <2>. QED
    BY <1>2, <2>1 DEF Core, Placement, NoBlockLost
<1>5. terminal[tb] = Unset
  BY <1>2, <1>4 DEF Graph, UnplacedAreUnset
<1>6. \A s \in Block : s = fb => s \in Successors(t)
  BY TargetsBack
<1>7. Top \in Frame /\ Pending(Top) = {}
  BY <1>1, TopFacts, PendingFacts
<1>8. f \in Frame /\ f.at \notin ConditionStages \cup RoundStages
  BY <1>7 DEF Frame, Stage, ConditionStages, RoundStages
<1>. HIDE DEF tb, fb, t, f
<1>9. /\ terminal'[b] = t /\ terminal'[tb] = ShitYourself
      /\ \A p \in Block : terminal'[p] = terminal[p] \/ terminal[p] = Unset
  BY <1>1, <1>2, <1>3, <1>4, <1>5 DEF TypeOK
<1>10. /\ m \in Nat /\ Len(layout') = m + 2
       /\ \A i \in 1 .. m : layout'[i] = layout[i]
       /\ layout'[m + 1] = b /\ layout'[m + 2] = tb
  BY <1>1, <1>2, <1>3 DEF TypeOK
<1>11. \A i : i \in 1 .. Len(layout') <=> i \in 1 .. m \/ i = m + 1 \/ i = m + 2
  BY <1>10
<1>. SUFFICES ASSUME NEW S \in SUBSET Block, LeadsIn(S)' PROVE LeavingIn(S)'
  BY DEF Leaving
<1>12. LeavingIn(S)
  BY <1>9, LeadsInBefore DEF Leaving
<1>13. tb \in S /\ (fb \in S => b \in S)
  BY <1>2, <1>3, <1>6, <1>9, LeadsInNow
<1>14. Places(S)
  BY <1>1, <1>2, <1>10, <1>11, <1>13 DEF Places
<1>15. KeepsBelow /\ LoopsIn(S)
  BY <1>1, <1>8, ReplaceKeeps
<1>16. NextIn(S) => b \in S /\ Pending(Top) \subseteq S
  BY <1>1, <1>7, <1>13 DEF NextIn
<1>. QED
  BY <1>12, <1>14, <1>15, <1>16, LeavingForward DEF Closed

\* generate_method begins when the methods before it are finished.
LEMMA BeginMethodLeaving ==
  ASSUME TypeOK, Core, Closed, Leaving, BeginMethod
  PROVE  Leaving'
<1>1. /\ frames = <<>> /\ Push(FrameAt("block"))
      /\ UNCHANGED <<layout, methods, terminal, predecessors>>
  BY DEF BeginMethod
<1>2. current_block = NoBlock
  BY <1>1 DEF Core, Shape
<1>3. \A k \in 1 .. Len(frames') : frames'[k].at = "block"
  <2>1. FrameAt("block") \in Frame /\ FrameAt("block").at = "block"
    BY DEF FrameAt, Frame, Stage, BlockOrNone
  <2>2. Len(frames) = 0
    BY <1>1
  <2>3. Len(frames') = 1 /\ frames'[1] = FrameAt("block")
    BY <1>1, <2>1, <2>2, PushFacts DEF TypeOK
  <2>. QED
    BY <2>1, <2>3
<1>. SUFFICES ASSUME NEW S \in SUBSET Block, LeadsIn(S)' PROVE LeavingIn(S)'
  BY DEF Leaving
<1>4. LeadsIn(S)
  BY <1>1 DEF LeadsIn
<1>5. HeldIn(S, 0)
  BY <1>1, <1>2 DEF HeldIn
<1>6. \A i \in 1 .. Len(layout) : layout[i] \in S
  BY <1>4, <1>5 DEF Leaving, LeavingIn
<1>8. \A k \in 1 .. Len(frames') : frames'[k].at \notin ConditionStages \cup RoundStages
  BY <1>3 DEF ConditionStages, RoundStages
<1>. QED
  BY <1>1, <1>6, <1>8 DEF LeavingIn

\* generate_method ends its last block with a return or an exit.
LEMMA EndMethodLeaving ==
  ASSUME TypeOK, Core, Graph, Leaving, NEW returns_void \in BOOLEAN, EndMethod(returns_void)
  PROVE  Leaving'
<1>. DEFINE t == IF returns_void THEN Return ELSE ShitYourself
            b == current_block
            m == Len(layout)
<1>1. /\ Len(frames) > 0 /\ Top.at = "block" /\ Pop
      /\ terminal' = [terminal EXCEPT ![b] = t]
      /\ layout' = Append(layout, b)
  BY DEF EndMethod, At
<1>2. t \in {Return, ShitYourself}
  OBVIOUS
<1>3. b \in Block /\ terminal[b] = Unset
  BY <1>1, CurrentIsUnset DEF Graph
<1>. HIDE DEF t
<1>4. /\ terminal'[b] = t
      /\ \A p \in Block : terminal'[p] = terminal[p] \/ terminal[p] = Unset
  BY <1>1, <1>3 DEF TypeOK
<1>5. /\ m \in Nat /\ Len(layout') = m + 1 /\ layout'[m + 1] = b
      /\ \A i \in 1 .. m : layout'[i] = layout[i]
  BY <1>1, <1>3 DEF TypeOK
<1>7. Len(frames) = 1 /\ Len(frames') = 0 /\ Pending(frames[1]) = {}
  <2>1. Len(frames) = 1 /\ Top = frames[1] /\ Top \in Frame
    BY <1>1, TopFacts
  <2>. QED
    BY <1>1, <2>1, PendingFacts, PopFacts DEF TypeOK
<1>. SUFFICES ASSUME NEW S \in SUBSET Block, LeadsIn(S)' PROVE LeavingIn(S)'
  BY DEF Leaving
<1>8. LeavingIn(S)
  BY <1>4, LeadsInBefore DEF Leaving
<1>9. b \in S
  BY <1>2, <1>3, <1>4, LeadsInNow
<1>10. HeldIn(S, 0)
  BY <1>7, <1>9 DEF HeldIn
<1>11. \A i \in 1 .. m + 1 : layout'[i] \in S
  BY <1>5, <1>8, <1>9, <1>10 DEF LeavingIn
<1>. QED
  BY <1>5, <1>7, <1>11 DEF LeavingIn

\* Calls and returns that end no block.
LEMMA CallLeaving ==
  ASSUME TypeOK, Leaving, NEW at \in Stage \ (ConditionStages \cup RoundStages),
         Push(FrameAt(at)), BlocksUnchanged
  PROVE  Leaving'
<1>1. FrameAt(at) \in Frame /\ FrameAt(at).at = at
  BY DEF FrameAt, Frame, BlockOrNone
<1>2. /\ frames' \in Seq(Frame) /\ Len(frames) \in Nat /\ Len(frames') = Len(frames) + 1
      /\ frames'[Len(frames) + 1] = FrameAt(at)
      /\ \A k \in 1 .. Len(frames) : frames'[k] = frames[k]
  BY <1>1, PushFacts DEF TypeOK
<1>. SUFFICES ASSUME NEW S \in SUBSET Block, LeadsIn(S)' PROVE LeavingIn(S)'
  BY DEF Leaving
<1>3. LeavingIn(S)
  BY DEF Leaving, LeadsIn, BlocksUnchanged
<1>4. \A k \in Len(frames) + 1 .. Len(frames') : frames'[k].at \notin ConditionStages \cup RoundStages
  BY <1>1, <1>2
<1>5. /\ Len(frames) \in 0 .. Len(frames) /\ Len(frames) =< Len(frames')
      /\ \A k \in Len(frames) + 1 .. Len(frames) : Pending(frames[k]) = {}
  BY <1>2
<1>. QED
  BY <1>2, <1>3, <1>4, <1>5, LeavingQuiet

LEMMA ReturnLeaving ==
  ASSUME TypeOK, Core, Leaving, EndAssignment \/ EndCall
  PROVE  Leaving'
<1>. DEFINE m == Len(frames) - 1
<1>1. Len(frames) > 0 /\ Pop /\ BlocksUnchanged /\ Top.at \in {"source", "argument"}
  BY DEF EndAssignment, EndCall, At
<1>2. /\ frames' \in Seq(Frame) /\ m \in 0 .. Len(frames) /\ Len(frames') = m
      /\ \A k \in 1 .. m : frames'[k] = frames[k]
  BY <1>1, PopFacts DEF TypeOK
<1>3. \A k \in m + 1 .. Len(frames) : Pending(frames[k]) = {}
  <2>1. Top \in Frame /\ Top = frames[Len(frames)] /\ Len(frames) \in Nat
    BY <1>1, TopFacts
  <2>2. Pending(Top) = {}
    BY <1>1, <2>1, PendingFacts
  <2>. QED
    BY <2>1, <2>2
<1>. SUFFICES ASSUME NEW S \in SUBSET Block, LeadsIn(S)' PROVE LeavingIn(S)'
  BY DEF Leaving
<1>4. LeavingIn(S)
  BY <1>1 DEF Leaving, LeadsIn, BlocksUnchanged
<1>5. m =< Len(frames') /\ \A k \in m + 1 .. Len(frames') : FALSE
  BY <1>2
<1>. HIDE DEF m
<1>. QED
  BY <1>1, <1>2, <1>3, <1>4, <1>5, LeavingQuiet

LEMMA BeginForLeaving ==
  ASSUME TypeOK, Leaving, NEW indexed \in BOOLEAN, BeginFor(indexed)
  PROVE  Leaving'
<1>. DEFINE f == FrameAt("initial")
            g == AssignmentFrame(indexed)
<1>1. /\ f \in Frame /\ g \in Frame
      /\ f.at \notin ConditionStages \cup RoundStages /\ g.at \notin ConditionStages \cup RoundStages
  BY DEF AssignmentFrame, FrameAt, Frame, Stage, BlockOrNone, ConditionStages, RoundStages
<1>2. frames' = frames \o <<f, g>> /\ BlocksUnchanged /\ frames \in Seq(Frame)
  BY DEF BeginFor, TypeOK
<1>. HIDE DEF f, g
<1>3. /\ Len(frames) \in Nat /\ Len(frames') = Len(frames) + 2 /\ frames' \in Seq(Frame)
      /\ \A k \in 1 .. Len(frames) : frames'[k] = frames[k]
      /\ frames'[Len(frames) + 1] = f /\ frames'[Len(frames) + 2] = g
  BY <1>1, <1>2
<1>. SUFFICES ASSUME NEW S \in SUBSET Block, LeadsIn(S)' PROVE LeavingIn(S)'
  BY DEF Leaving
<1>4. LeavingIn(S)
  BY <1>2 DEF Leaving, LeadsIn, BlocksUnchanged
<1>5. \A k \in Len(frames) + 1 .. Len(frames') : k = Len(frames) + 1 \/ k = Len(frames) + 2
  BY <1>3
<1>6. \A k \in Len(frames) + 1 .. Len(frames') : frames'[k].at \notin ConditionStages \cup RoundStages
  BY <1>1, <1>3, <1>5
<1>7. /\ Len(frames) \in 0 .. Len(frames) /\ Len(frames) =< Len(frames')
      /\ \A k \in Len(frames) + 1 .. Len(frames) : Pending(frames[k]) = {}
  BY <1>3
<1>. QED
  BY <1>2, <1>3, <1>4, <1>6, <1>7, LeavingQuiet

\* An empty program has nothing to leave.
LEMMA InitLeaving == Init => Sheltered /\ Leaving
<1>. SUFFICES ASSUME Init PROVE Sheltered /\ Leaving
  OBVIOUS
<1>1. \A i : i \notin 1 .. Len(layout) /\ i \notin 1 .. Len(frames)
  BY DEF Init
<1>. QED
  BY <1>1 DEF Sheltered, Leaving, LeavingIn

\* Every action keeps it.
LEMMA NextLeaving ==
  IInv /\ Graph /\ Closed /\ Sheltered /\ Leaving /\ [Next]_vars => Leaving'
<1>. SUFFICES ASSUME IInv, Graph, Closed, Sheltered, Leaving, [Next]_vars PROVE Leaving'
  OBVIOUS
<1>1. TypeOK /\ Core /\ Loops
  BY IInvTypes DEF IInv
<1>2. CASE BeginMethod
  BY <1>1, <1>2, BeginMethodLeaving
<1>3. ASSUME NEW returns_void \in BOOLEAN, EndMethod(returns_void) PROVE Leaving'
  BY <1>1, <1>3, EndMethodLeaving
<1>4. CASE \/ \E indexed \in BOOLEAN : BeginAssignment(indexed)
           \/ BeginCall \/ BeginShortCircuit \/ BeginIf \/ BeginReturn
  <2>1. PICK at \in {"index", "source", "argument", "left", "if_condition", "return_value"} :
          Push(FrameAt(at)) /\ BlocksUnchanged
    BY <1>4 DEF BeginAssignment, AssignmentFrame, BeginCall, BeginShortCircuit, BeginIf, BeginReturn
  <2>2. at \in Stage \ (ConditionStages \cup RoundStages)
    BY DEF Stage, ConditionStages, RoundStages
  <2>. QED
    BY <1>1, <2>1, <2>2, CallLeaving
<1>5. CASE BoundsCheck
  BY <1>1, <1>5, BoundsCheckLeaving
<1>6. CASE EndAssignment \/ EndCall
  BY <1>1, <1>6, ReturnLeaving
<1>7. CASE ShortCircuitBranch \/ IfBranch
  BY <1>1, <1>7, IfBranchLeaving
<1>8. CASE Else
  BY <1>1, <1>8, ElseLeaving
<1>9. CASE EndShortCircuit \/ EndIf \/ EndElse
  BY <1>1, <1>9, EndsLeaving
<1>10. CASE BeginWhile
  BY <1>1, <1>10, BeginWhileLeaving
<1>11. CASE WhileBranch \/ ForBranch
  BY <1>1, <1>11, LoopBranchLeaving
<1>12. CASE EndWhile \/ EndFor
  BY <1>1, <1>12, EndLoopLeaving
<1>13. ASSUME NEW indexed \in BOOLEAN, BeginFor(indexed) PROVE Leaving'
  BY <1>1, <1>13, BeginForLeaving
<1>14. CASE EnterFor
  BY <1>1, <1>14, EnterForLeaving
<1>15. ASSUME NEW child \in {"index", "source", "argument"}, BeginUpdate(child)
       PROVE  Leaving'
  BY <1>1, <1>15, BeginUpdateLeaving
<1>16. CASE EndReturn
  BY <1>1, <1>16, EndReturnLeaving
<1>17. CASE Break \/ Continue
  BY <1>1, <1>17, LeaveLeaving
<1>18. CASE UNCHANGED vars
  BY <1>18 DEF vars, Leaving, LeavingIn, LeadsIn, HeldIn, IsFinished
<1>. QED
  BY <1>2, <1>3, <1>4, <1>5, <1>6, <1>7, <1>8, <1>9, <1>10, <1>11, <1>12, <1>13,
     <1>14, <1>15, <1>16, <1>17, <1>18 DEF Next

-----------------------------------------------------------------------------
(* Conditions and updates hold no statements.                                *)

Sheltering == ConditionStages \cup {"update"}
ShelteredStages == {"index", "source", "argument", "left", "right"}
NoUpdate(f) == f.at = "while_body" \/ f.at = "while_condition" => f.update_block = NoBlock

\* The frames below one that is not sheltered do not shelter.
LEMMA UnshelteredTop ==
  ASSUME TypeOK, Sheltered, Len(frames) > 0, Top.at \notin ShelteredStages,
         NEW k \in 1 .. Len(frames) - 1
  PROVE  frames[k].at \notin Sheltering
<1>1. Len(frames) \in Nat /\ Top = frames[Len(frames)]
  BY DEF TypeOK, Top
<1>2. k \in 1 .. Len(frames) /\ Len(frames) \in k + 1 .. Len(frames)
  BY <1>1
<1>. QED
  BY <1>1, <1>2 DEF Sheltered, Sheltering, ShelteredStages

\* A call keeps what is sheltered so.
LEMMA PushSheltered ==
  ASSUME TypeOK, Sheltered, NEW f \in Frame, Push(f), NoUpdate(f),
         f.at \in ShelteredStages \/ AtStatement \/ frames = <<>>
  PROVE  Sheltered'
<1>. DEFINE n == Len(frames)
<1>1. /\ n \in Nat /\ Len(frames') = n + 1 /\ frames'[n + 1] = f
      /\ \A k \in 1 .. n : frames'[k] = frames[k]
  BY PushFacts DEF TypeOK
<1>2. f.at \in ShelteredStages \/ \A k \in 1 .. n : frames[k].at \notin Sheltering
  <2>1. CASE AtStatement
    BY <2>1, StatementsAreOutside DEF Sheltering
  <2>2. CASE frames = <<>>
    BY <2>2
  <2>. QED
    BY <2>1, <2>2
<1>3. \A k \in 1 .. n + 1 : k \in 1 .. n \/ k = n + 1
  BY <1>1
<1>4. ASSUME NEW k \in 1 .. n + 1, frames'[k].at \in Sheltering, NEW l \in k + 1 .. n + 1
      PROVE  frames'[l].at \in ShelteredStages
  <2>1. k \in 1 .. n /\ frames'[k] = frames[k]
    BY <1>1, <1>3
  <2>2. CASE l = n + 1
    BY <1>1, <1>2, <1>4, <2>1, <2>2
  <2>3. CASE l \in k + 1 .. n
    <3>1. frames'[l] = frames[l]
      BY <1>1, <2>1, <2>3
    <3>. QED
      BY <1>4, <2>1, <2>3, <3>1 DEF Sheltered, Sheltering, ShelteredStages
  <2>. QED
    BY <1>1, <2>2, <2>3
<1>5. \A k \in 1 .. n + 1 : NoUpdate(frames'[k])
  BY <1>1, <1>3 DEF Sheltered, NoUpdate
<1>. QED
  BY <1>1, <1>4, <1>5 DEF Sheltered, Sheltering, ShelteredStages, NoUpdate

\* So does a return, ...
LEMMA PopSheltered ==
  ASSUME TypeOK, Sheltered, Len(frames) > 0, Pop
  PROVE  Sheltered'
<1>1. /\ Len(frames) \in Nat /\ Len(frames') = Len(frames) - 1
      /\ \A k \in 1 .. Len(frames) - 1 : frames'[k] = frames[k]
  BY PopFacts DEF TypeOK
<1>2. \A k \in 1 .. Len(frames') : k \in 1 .. Len(frames) /\ frames'[k] = frames[k]
  BY <1>1
<1>3. \A k \in 1 .. Len(frames') : \A l \in k + 1 .. Len(frames') :
        l \in k + 1 .. Len(frames) /\ frames'[l] = frames[l]
  BY <1>1
<1>. QED
  BY <1>2, <1>3 DEF Sheltered

\* ... and a step of the function on top.
LEMMA ReplaceSheltered ==
  ASSUME TypeOK, Sheltered, Len(frames) > 0, NEW f \in Frame, Replace(f), NoUpdate(f),
         Top.at \in ShelteredStages => f.at \in ShelteredStages
  PROVE  Sheltered'
<1>. DEFINE n == Len(frames)
<1>1. /\ n \in Nat /\ Len(frames') = n /\ frames'[n] = f
      /\ \A k \in 1 .. n : k # n => frames'[k] = frames[k]
  BY ReplaceFacts DEF TypeOK
<1>2. ASSUME NEW k \in 1 .. n, frames'[k].at \in Sheltering, NEW l \in k + 1 .. n
      PROVE  frames'[l].at \in ShelteredStages
  <2>1. k \in 1 .. n - 1 /\ frames'[k] = frames[k]
    BY <1>1
  <2>2. CASE l = n
    BY <1>1, <1>2, <2>1, <2>2, UnshelteredTop
  <2>3. CASE l # n
    <3>1. frames'[l] = frames[l]
      BY <1>1, <2>1, <2>3
    <3>. QED
      BY <1>2, <2>1, <2>3, <3>1 DEF Sheltered, Sheltering, ShelteredStages
  <2>. QED
    BY <2>2, <2>3
<1>3. \A k \in 1 .. n : NoUpdate(frames'[k])
  BY <1>1 DEF Sheltered, NoUpdate
<1>. QED
  BY <1>1, <1>2, <1>3 DEF Sheltered, Sheltering, ShelteredStages, NoUpdate

LEMMA BeginForSheltered ==
  ASSUME TypeOK, Sheltered, NEW indexed \in BOOLEAN, BeginFor(indexed)
  PROVE  Sheltered'
<1>. DEFINE n == Len(frames)
            f == FrameAt("initial")
            g == AssignmentFrame(indexed)
<1>1. f \in Frame /\ g \in Frame /\ NoUpdate(f) /\ NoUpdate(g)
      /\ f.at \notin Sheltering /\ g.at \notin Sheltering
  BY DEF AssignmentFrame, FrameAt, Frame, Stage, BlockOrNone, NoUpdate, Sheltering, ConditionStages
<1>2. frames' = frames \o <<f, g>> /\ AtStatement /\ frames \in Seq(Frame)
  BY DEF BeginFor, TypeOK
<1>. HIDE DEF f, g
<1>3. /\ n \in Nat /\ Len(frames') = n + 2
      /\ \A k \in 1 .. n : frames'[k] = frames[k]
      /\ frames'[n + 1] = f /\ frames'[n + 2] = g
  BY <1>1, <1>2
<1>4. \A k \in 1 .. n + 2 : k \in 1 .. n \/ k = n + 1 \/ k = n + 2
  BY <1>3
<1>5. \A k \in 1 .. n : frames[k].at \notin Sheltering
  BY <1>2, StatementsAreOutside DEF Sheltering
<1>6. \A k \in 1 .. n + 2 : frames'[k].at \notin Sheltering /\ NoUpdate(frames'[k])
  BY <1>1, <1>3, <1>4, <1>5 DEF Sheltered, NoUpdate
<1>. QED
  BY <1>3, <1>6 DEF Sheltered, Sheltering, NoUpdate

LEMMA BeginUpdateSheltered ==
  ASSUME TypeOK, Core, Sheltered, NEW child \in {"index", "source", "argument"}, BeginUpdate(child)
  PROVE  Sheltered'
<1>. DEFINE n == Len(frames)
            f == FrameAt(child)
            g == [Top EXCEPT !.at = "update"]
<1>1. /\ n > 0 /\ Top.at = "for_body" /\ frames' = Append([frames EXCEPT ![n] = g], f)
  BY DEF BeginUpdate, At
<1>2. /\ Top \in Frame /\ frames \in Seq(Frame) /\ n \in 1 .. n /\ Top = frames[n] /\ n \in Nat
  BY <1>1, TopFacts
<1>3. f \in Frame /\ f.at \in ShelteredStages /\ f.at \notin Sheltering /\ NoUpdate(f)
  BY DEF FrameAt, Frame, Stage, BlockOrNone, ShelteredStages, Sheltering, ConditionStages, NoUpdate
<1>4. g \in Frame /\ g.at = "update" /\ NoUpdate(g)
  BY <1>2 DEF Frame, Stage, NoUpdate
<1>. HIDE DEF f, g
<1>5. /\ Len(frames') = n + 1
      /\ frames'[n + 1] = f /\ frames'[n] = g
      /\ \A k \in 1 .. n : k # n => frames'[k] = frames[k]
  BY <1>1, <1>2, <1>3, <1>4
<1>6. \A k \in 1 .. n + 1 : k \in 1 .. n - 1 \/ k = n \/ k = n + 1
  BY <1>2
<1>7. AtStatement
  BY <1>1 DEF AtStatement, StatementStages
<1>8. \A k \in 1 .. n - 1 : frames'[k] = frames[k] /\ frames[k].at \notin Sheltering
  BY <1>2, <1>5, <1>7, StatementsAreOutside DEF Sheltering
<1>9. \A k \in 1 .. n + 1 : frames'[k].at \in Sheltering =>
        \A l \in k + 1 .. n + 1 : frames'[l].at \in ShelteredStages
  <2>. SUFFICES ASSUME NEW k \in 1 .. n + 1, frames'[k].at \in Sheltering, NEW l \in k + 1 .. n + 1
                PROVE  frames'[l].at \in ShelteredStages
    OBVIOUS
  <2>1. k = n
    BY <1>3, <1>5, <1>6, <1>8
  <2>2. l = n + 1
    BY <1>2, <2>1
  <2>. QED
    BY <1>3, <1>5, <2>2
<1>10. \A k \in 1 .. n + 1 : NoUpdate(frames'[k])
  <2>1. \A k \in 1 .. n - 1 : k \in 1 .. n
    BY <1>2
  <2>. QED
    BY <1>3, <1>4, <1>5, <1>6, <1>8, <2>1 DEF Sheltered, NoUpdate
<1>. QED
  BY <1>5, <1>9, <1>10 DEF Sheltered, Sheltering, ShelteredStages, NoUpdate

\* Every action keeps conditions and updates sheltered.
LEMMA NextSheltered == IInv /\ Sheltered /\ [Next]_vars => Sheltered'
<1>. SUFFICES ASSUME IInv, Sheltered, [Next]_vars PROVE Sheltered'
  OBVIOUS
<1>1. TypeOK /\ Core /\ Loops
  BY IInvTypes DEF IInv
<1>2. CASE \/ BeginMethod
           \/ \E indexed \in BOOLEAN : BeginAssignment(indexed)
           \/ BeginCall \/ BeginShortCircuit \/ BeginIf \/ BeginReturn
  <2>1. PICK at \in Stage \ {"while_body", "while_condition"} :
          /\ Push(FrameAt(at))
          /\ at \in ShelteredStages \/ AtStatement \/ frames = <<>>
    BY <1>2 DEF BeginMethod, BeginAssignment, AssignmentFrame, BeginCall, BeginShortCircuit,
                BeginIf, BeginReturn, Stage, ShelteredStages
  <2>2. FrameAt(at) \in Frame /\ FrameAt(at).at = at
    BY DEF FrameAt, Frame, BlockOrNone
  <2>3. NoUpdate(FrameAt(at))
    BY <2>2 DEF NoUpdate
  <2>. QED
    BY <1>1, <2>1, <2>2, <2>3, PushSheltered
<1>3. CASE \/ \E returns_void \in BOOLEAN : EndMethod(returns_void)
           \/ EndAssignment \/ EndCall \/ EndShortCircuit \/ EndIf \/ EndElse
           \/ EndWhile \/ EndFor \/ EndReturn
  <2>1. Len(frames) > 0 /\ Pop
    BY <1>3 DEF EndMethod, EndAssignment, EndCall, EndShortCircuit, EndIf, EndElse, EndWhile,
                EndFor, EndReturn, At
  <2>. QED
    BY <1>1, <2>1, PopSheltered
<1>4. CASE BoundsCheck \/ WhileBranch \/ ForBranch
  <2>1. PICK at \in {"source", "while_body", "for_body"} :
          /\ Len(frames) > 0 /\ Replace([Top EXCEPT !.at = at])
          /\ Top.at \in ShelteredStages => at = "source"
          /\ at = "while_body" => Top.at = "while_condition"
    BY <1>4 DEF BoundsCheck, WhileBranch, ForBranch, Goto, At, ShelteredStages
  <2>. DEFINE f == [Top EXCEPT !.at = at]
  <2>2. Top \in Frame /\ Top = frames[Len(frames)] /\ Len(frames) \in 1 .. Len(frames)
    BY <1>1, <2>1, TopFacts
  <2>3. f \in Frame /\ f.at = at /\ f.update_block = Top.update_block
    BY <2>2 DEF Frame, Stage
  <2>4. Replace(f)
    BY <2>1
  <2>. HIDE DEF f
  <2>5. Top.at = "while_condition" => Top.update_block = NoBlock
    BY <2>2 DEF Sheltered
  <2>6. NoUpdate(f) /\ (Top.at \in ShelteredStages => f.at \in ShelteredStages)
    BY <2>1, <2>3, <2>5 DEF NoUpdate, ShelteredStages
  <2>. QED
    BY <1>1, <2>1, <2>3, <2>4, <2>6, ReplaceSheltered
<1>5. CASE ShortCircuitBranch \/ IfBranch
  <2>1. PICK at \in {"if_block", "right"} :
          /\ Len(frames) > 0 /\ Allocate(2)
          /\ Replace([FrameAt(at) EXCEPT !.false_block = NewBlock(1)])
          /\ at = "right" \/ Top.at = "if_condition"
    BY <1>5 DEF IfBranch, ShortCircuitBranch, At
  <2>. DEFINE f == [FrameAt(at) EXCEPT !.false_block = NewBlock(1)]
  <2>2. NewBlock(1) \in Block
    BY <1>1, <2>1, TwoFresh DEF Fresh
  <2>3. f \in Frame /\ f.at = at
    BY <2>2 DEF FrameAt, Frame, Stage, BlockOrNone
  <2>4. Replace(f)
    BY <2>1
  <2>. HIDE DEF f
  <2>5. NoUpdate(f) /\ (Top.at \in ShelteredStages => f.at \in ShelteredStages)
    BY <2>1, <2>3 DEF NoUpdate, ShelteredStages
  <2>. QED
    BY <1>1, <2>1, <2>3, <2>4, <2>5, ReplaceSheltered
<1>6. CASE Else
  <2>. DEFINE f == [FrameAt("else_block") EXCEPT !.end_block = NewBlock(0)]
  <2>1. Len(frames) > 0 /\ Allocate(1) /\ Replace(f) /\ Top.at = "if_block"
    BY <1>6 DEF Else, At
  <2>2. NewBlock(0) \in Block
    BY <1>1, <2>1, OneFresh
  <2>3. f \in Frame /\ f.at = "else_block"
    BY <2>2 DEF FrameAt, Frame, Stage, BlockOrNone
  <2>. HIDE DEF f
  <2>4. NoUpdate(f) /\ Top.at \notin ShelteredStages
    BY <2>1, <2>3 DEF NoUpdate, ShelteredStages
  <2>. QED
    BY <1>1, <2>1, <2>3, <2>4, ReplaceSheltered
<1>7. CASE BeginWhile
  <2>. DEFINE f == [FrameAt("while_condition") EXCEPT
                      !.condition_block = NewBlock(0),
                      !.loop_block = NewBlock(1), !.end_block = NewBlock(2)]
  <2>1. AtStatement /\ Allocate(3) /\ Push(f)
    BY <1>7 DEF BeginWhile
  <2>2. NewBlock(0) \in Block /\ NewBlock(1) \in Block /\ NewBlock(2) \in Block
    <3>1. \A i : i \in 0 .. 3 - 1 <=> i \in {0, 1, 2}
      OBVIOUS
    <3>. QED
      BY <1>1, <2>1, <3>1, FreshFacts
  <2>3. f \in Frame /\ f.update_block = NoBlock
    BY <2>2, FrameAtFacts, ZenonT(40) DEF FrameAt, Stage
  <2>. HIDE DEF f
  <2>. QED
    BY <1>1, <2>1, <2>3, PushSheltered DEF NoUpdate
<1>8. CASE EnterFor
  <2>. DEFINE f == [FrameAt("for_condition") EXCEPT
                      !.condition_block = NewBlock(0), !.loop_block = NewBlock(1),
                      !.update_block = NewBlock(2), !.end_block = NewBlock(3)]
  <2>1. Len(frames) > 0 /\ Allocate(4) /\ Replace(f) /\ Top.at = "initial"
    BY <1>8 DEF EnterFor, At
  <2>2. NewBlock(0) \in Block /\ NewBlock(1) \in Block /\ NewBlock(2) \in Block /\ NewBlock(3) \in Block
    <3>1. \A i : i \in 0 .. 4 - 1 <=> i \in {0, 1, 2, 3}
      OBVIOUS
    <3>. QED
      BY <1>1, <2>1, <3>1, FreshFacts
  <2>3. f \in Frame /\ f.at = "for_condition"
    BY <2>2, FrameAtFacts, ZenonT(40) DEF FrameAt, Stage
  <2>. HIDE DEF f
  <2>4. NoUpdate(f) /\ Top.at \notin ShelteredStages
    BY <2>1, <2>3 DEF NoUpdate, ShelteredStages
  <2>. QED
    BY <1>1, <2>1, <2>3, <2>4, ReplaceSheltered
<1>9. ASSUME NEW indexed \in BOOLEAN, BeginFor(indexed) PROVE Sheltered'
  BY <1>1, <1>9, BeginForSheltered
<1>10. ASSUME NEW child \in {"index", "source", "argument"}, BeginUpdate(child)
       PROVE  Sheltered'
  BY <1>1, <1>10, BeginUpdateSheltered
<1>11. CASE Break \/ Continue \/ UNCHANGED vars
  BY <1>11 DEF Break, Continue, vars, Sheltered
<1>. QED
  BY <1>2, <1>3, <1>4, <1>5, <1>6, <1>7, <1>8, <1>9, <1>10, <1>11 DEF Next

\* In every reachable state what is still to be placed decides whether the rest can leave.
THEOREM LeavingInvariance == Spec => [](IInv /\ Graph /\ Closed /\ Sheltered /\ Leaving)
<1>1. Init => IInv /\ Graph /\ Closed /\ Sheltered /\ Leaving
  BY InitIInv, InitGraph, InitLeaving
<1>2. IInv /\ Graph /\ Closed /\ Sheltered /\ Leaving /\ [Next]_vars
        => (IInv /\ Graph /\ Closed /\ Sheltered /\ Leaving)'
  BY NextIInv, NextGraph, NextSheltered, NextLeaving
<1>. QED
  BY <1>1, <1>2, PTL DEF Spec

-----------------------------------------------------------------------------
(* CanLeave searches backwards from the returns and exits, as many rounds as  *)
(* the method has blocks; the last of them adds nothing.                      *)

\* The positions of P from which an edge of E leads into R.
Preceding(P, E, R) == {i \in P : \E j \in R : <<i, j>> \in E}

Grown(P, E, R) == R \cup Preceding(P, E, R)

Rounds(P, E, A, n, w) ==
  w = [k \in 0 .. n |-> IF k = 0 THEN A ELSE Grown(P, E, w[k - 1])]

LEMMA RoundsExist ==
  ASSUME NEW P, NEW E, NEW A, NEW n \in Nat
  PROVE  \E w : Rounds(P, E, A, n, w)
<1>. DEFINE Without == {k \in Nat : ~ \E w : Rounds(P, E, A, k, w)}
<1>. SUFFICES ASSUME n \in Without PROVE FALSE
  OBVIOUS
<1>1. PICK k \in Without : \A j \in Without : k =< j
  <2>1. Without \in SUBSET Nat
    OBVIOUS
  <2>. HIDE DEF Without
  <2>. QED
    BY <2>1, LeastElement
<1>2. CASE k = 0
  <2>. DEFINE c == [i \in 0 .. 0 |-> A]
  <2>1. Rounds(P, E, A, 0, c)
    BY DEF Rounds
  <2>. QED
    BY <2>1, <1>2
<1>3. CASE k > 0
  <2>1. PICK c : Rounds(P, E, A, k - 1, c)
    BY <1>1, <1>3
  <2>. DEFINE d == [i \in 0 .. k |-> IF i = k THEN Grown(P, E, c[k - 1]) ELSE c[i]]
  <2>2. \A i \in 0 .. k : d[i] = IF i = 0 THEN A ELSE Grown(P, E, d[i - 1])
    BY <2>1, <1>3 DEF Rounds
  <2>3. d = [i \in 0 .. k |-> IF i = 0 THEN A ELSE Grown(P, E, d[i - 1])]
    BY <2>2
  <2>4. Rounds(P, E, A, k, d)
    BY <2>3 DEF Rounds
  <2>. QED
    BY <2>4
<1>. QED
  BY <1>2, <1>3

LEMMA RoundFacts ==
  ASSUME NEW P, NEW E, NEW A, NEW n \in Nat, NEW w, Rounds(P, E, A, n, w)
  PROVE  /\ w[0] = A
         /\ \A k \in Nat : 0 < k /\ k =< n => w[k] = w[k - 1] \cup Preceding(P, E, w[k - 1])
<1>1. w[0] = A /\ \A k \in 1 .. n : w[k] = Grown(P, E, w[k - 1])
  BY DEF Rounds
<1>. QED
  BY <1>1 DEF Grown

\* A round that is not closed has gained a position in each round before it.
RoundIs(P, E, A, k, R) ==
  /\ R \subseteq P /\ A \subseteq R
  /\ Preceding(P, E, R) \subseteq R \/ Cardinality(R) >= k

LEMMA RoundStep ==
  ASSUME NEW P, IsFiniteSet(P), NEW E, NEW A, NEW k \in Nat, NEW R, RoundIs(P, E, A, k, R)
  PROVE  RoundIs(P, E, A, k + 1, R \cup Preceding(P, E, R))
<1>. DEFINE T == R \cup Preceding(P, E, R)
<1>1. T \subseteq P /\ A \subseteq T /\ R \subseteq T
  BY DEF RoundIs, Preceding
<1>2. CASE Preceding(P, E, R) \subseteq R
  <2>1. T = R
    BY <1>2
  <2>. HIDE DEF T
  <2>. QED
    BY <1>1, <1>2, <2>1 DEF RoundIs, T
<1>3. CASE ~ Preceding(P, E, R) \subseteq R
  <2>1. T # R
    BY <1>3
  <2>. HIDE DEF T
  <2>2. /\ IsFiniteSet(T) /\ Cardinality(T) \in Nat
        /\ IsFiniteSet(R) /\ Cardinality(R) \in Nat
    BY <1>1, FS_Subset, FS_CardinalityType
  <2>3. Cardinality(R) =< Cardinality(T) /\ Cardinality(R) # Cardinality(T)
    BY <1>1, <2>1, <2>2, FS_Subset
  <2>4. Cardinality(R) >= k
    BY <1>3 DEF RoundIs
  <2>5. Cardinality(T) >= k + 1
    BY <2>2, <2>3, <2>4
  <2>. QED
    BY <1>1, <2>5 DEF RoundIs, T
<1>. QED
  BY <1>2, <1>3

LEMMA LastRoundIsClosed ==
  ASSUME NEW P, IsFiniteSet(P), NEW E, NEW A \in SUBSET P, NEW n \in Nat, n = Cardinality(P),
         NEW w, Rounds(P, E, A, n, w)
  PROVE  w[n] \subseteq P /\ A \subseteq w[n] /\ Preceding(P, E, w[n]) \subseteq w[n]
<1>. HIDE DEF Rounds
<1>1. RoundIs(P, E, A, n, w[n])
  <2>. DEFINE Wrong == {k \in Nat : k =< n /\ ~ RoundIs(P, E, A, k, w[k])}
  <2>. SUFFICES ASSUME n \in Wrong PROVE FALSE
    OBVIOUS
  <2>1. PICK k \in Wrong : \A j \in Wrong : k =< j
    <3>1. Wrong \in SUBSET Nat
      OBVIOUS
    <3>. HIDE DEF Wrong
    <3>. QED
      BY <3>1, LeastElement
  <2>2. CASE k = 0
    <3>1. w[0] = A
      BY RoundFacts
    <3>2. IsFiniteSet(A) /\ Cardinality(A) >= 0
      BY FS_Subset, FS_CardinalityType
    <3>. QED
      BY <2>2, <3>1, <3>2 DEF RoundIs
  <2>3. CASE k > 0
    <3>1. k - 1 \in Nat /\ (k - 1) + 1 = k /\ RoundIs(P, E, A, k - 1, w[k - 1])
      BY <2>1, <2>3
    <3>2. w[k] = w[k - 1] \cup Preceding(P, E, w[k - 1])
      <4>1. \A j \in Nat : 0 < j /\ j =< n => w[j] = w[j - 1] \cup Preceding(P, E, w[j - 1])
        BY RoundFacts
      <4>2. k \in Nat /\ 0 < k /\ k =< n
        BY <2>3
      <4>. QED
        BY <4>1, <4>2
    <3>3. PICK j, R : j \in Nat /\ j = k - 1 /\ R = w[k - 1] /\ RoundIs(P, E, A, j, R)
      BY <3>1
    <3>4. RoundIs(P, E, A, j + 1, R \cup Preceding(P, E, R))
      BY <3>3, RoundStep, Zenon
    <3>5. j + 1 = k /\ R \cup Preceding(P, E, R) = w[k]
      BY <3>1, <3>2, <3>3
    <3>. QED
      BY <3>4, <3>5, Zenon
  <2>. QED
    BY <2>2, <2>3
<1>2. w[n] \subseteq P /\ A \subseteq w[n]
  BY <1>1 DEF RoundIs
<1>3. CASE Cardinality(w[n]) >= n
  <2>1. Cardinality(w[n]) =< Cardinality(P) /\ Cardinality(w[n]) \in Nat
    BY <1>2, FS_Subset, FS_CardinalityType
  <2>2. w[n] = P
    <3>1. Cardinality(w[n]) = Cardinality(P)
      BY <1>3, <2>1
    <3>. QED
      BY <1>2, <3>1, FS_Subset
  <2>. QED
    BY <1>2, <2>2 DEF Preceding
<1>. QED
  BY <1>1, <1>2, <1>3 DEF RoundIs

\* The positions of a method from which control leaves it.
LeavingPositions(m) == {i \in Positions(m) : terminal[layout[i]].type \in {"return", "shit_yourself"}}

\* What CanLeave finds holds the leaving positions and every position with an edge
\* into it.
LEMMA CanLeaveIsClosed ==
  ASSUME NEW m, IsFiniteSet(Positions(m))
  PROVE  /\ CanLeave(m) \subseteq Positions(m) /\ LeavingPositions(m) \subseteq CanLeave(m)
         /\ Preceding(Positions(m), Edges(m), CanLeave(m)) \subseteq CanLeave(m)
<1>. DEFINE n == Cardinality(Positions(m))
            w == CHOOSE v : Rounds(Positions(m), Edges(m), LeavingPositions(m), n, v)
<1>1. CanLeave(m) = w[n]
  BY Zenon DEF CanLeave, Rounds, Grown, Preceding, LeavingPositions
<1>2. n \in Nat
  BY FS_CardinalityType
<1>3. Rounds(Positions(m), Edges(m), LeavingPositions(m), n, w)
  BY <1>2, RoundsExist, Zenon
<1>4. LeavingPositions(m) \in SUBSET Positions(m)
  BY DEF LeavingPositions
<1>5. n = Cardinality(Positions(m))
  OBVIOUS
<1>. HIDE DEF w, n
<1>6. /\ w[n] \subseteq Positions(m) /\ LeavingPositions(m) \subseteq w[n]
      /\ Preceding(Positions(m), Edges(m), w[n]) \subseteq w[n]
  BY <1>2, <1>3, <1>4, <1>5, LastRoundIsClosed, Zenon
<1>. QED
  BY <1>1, <1>6, Zenon

\* The positions of a finished method are positions of the layout, and finitely many.
LEMMA PositionsOfMethod ==
  ASSUME TypeOK, MethodsInLayout, NEW m \in 1 .. Len(methods)
  PROVE  /\ Positions(m) \subseteq 1 .. Len(layout)
         /\ IsFiniteSet(Positions(m))
<1>1. /\ \A k \in 1 .. Len(methods) : methods[k] \in Nat /\ methods[k] =< Len(layout)
      /\ Len(layout) \in Nat /\ Len(methods) \in Nat
  BY DEF TypeOK, MethodsInLayout
<1>2. m # 1 => m - 1 \in 1 .. Len(methods)
  BY <1>1
<1>3. PICK a \in Int : a >= 1 /\ Positions(m) = a .. methods[m]
  <2>1. (IF m = 1 THEN 1 ELSE methods[m - 1] + 1) \in Int
         /\ (IF m = 1 THEN 1 ELSE methods[m - 1] + 1) >= 1
    BY <1>1, <1>2
  <2>. QED
    BY <2>1 DEF Positions
<1>4. methods[m] \in Nat /\ methods[m] =< Len(layout)
  BY <1>1
<1>5. Positions(m) \subseteq 1 .. Len(layout)
  BY <1>1, <1>3, <1>4
<1>6. IsFiniteSet(a .. methods[m])
  BY <1>3, <1>4, FS_Interval
<1>. QED
  BY <1>3, <1>5, <1>6

\* Take for S all blocks but those from which CanLeave finds no way out: whatever
\* leads into S is in S, so that there are no such blocks.
LEMMA LeavingMeaning ==
  ASSUME TypeOK, MethodsInLayout, MethodsAreClosed, Leaving, NEW m \in 1 .. Len(methods)
  PROVE  CanLeave(m) = Positions(m)
<1>. DEFINE P == Positions(m)
            W == CanLeave(m)
            S == {b \in Block : \A i \in P : layout[i] = b => i \in W}
<1>1. /\ W \subseteq P /\ LeavingPositions(m) \subseteq W /\ Preceding(P, Edges(m), W) \subseteq W
      /\ P \subseteq 1 .. Len(layout)
  BY PositionsOfMethod, CanLeaveIsClosed
<1>2. \A i \in P : layout[i] \in Block
  BY <1>1 DEF TypeOK
<1>. HIDE DEF P, W
<1>3. LeadsIn(S)
  <2>. SUFFICES ASSUME NEW p \in Block,
                       \/ terminal[p].type \in {"return", "shit_yourself"}
                       \/ \E s \in S : s \in Successors(terminal[p]),
                       NEW i \in P, layout[i] = p
                PROVE  i \in W
    BY DEF LeadsIn
  <2>1. CASE terminal[p].type \in {"return", "shit_yourself"}
    BY <1>1, <2>1 DEF LeavingPositions, P
  <2>2. CASE \E s \in S : s \in Successors(terminal[p])
    <3>1. PICK s \in S : s \in Successors(terminal[p])
      BY <2>2
    <3>2. PICK j \in P : layout[j] = s
      BY <3>1 DEF MethodsAreClosed, P
    <3>3. j \in W
      BY <3>1, <3>2
    <3>4. <<i, j>> \in Edges(m)
      BY <3>1, <3>2 DEF Edges, P
    <3>5. i \in Preceding(P, Edges(m), W)
      BY <3>3, <3>4 DEF Preceding
    <3>. QED
      BY <1>1, <3>5
  <2>. QED
    BY <2>1, <2>2
<1>4. LeavingIn(S)
  BY <1>3 DEF Leaving
<1>5. \A i \in P : i \in W
  <2>. SUFFICES ASSUME NEW i \in P PROVE i \in W
    OBVIOUS
  <2>1. i =< methods[m]
    BY DEF P, Positions
  <2>2. IsFinished(i) /\ i \in 1 .. Len(layout)
    BY <1>1, <2>1 DEF IsFinished
  <2>3. layout[i] \in S
    BY <1>4, <2>2 DEF LeavingIn
  <2>. QED
    BY <2>3
<1>. QED
  BY <1>1, <1>5 DEF P, W

\* In a program of any size, from every block of a finished method a return or an
\* exit can be reached: no nesting of loops, conditions, breaks, continues and
\* returns closes control into a cycle without a way out.
THEOREM EveryBlockLeaves == Spec => []EveryBlockCanLeave
<1>1. IInv /\ Closed /\ Leaving => EveryBlockCanLeave
  BY IInvTypes, LeavingMeaning DEF Closed, EveryBlockCanLeave
<1>. QED
  BY <1>1, LeavingInvariance, PTL

-----------------------------------------------------------------------------
(* Loops are entered through their condition.  Ids are given in the order in  *)
(* which blocks are allocated, and a loop is placed in one piece: behind its  *)
(* condition come only blocks with greater ids until the loop has ended, and  *)
(* what was placed before the condition goes to lesser ids or to it.          *)

GoesTo(i, s) == s \in Successors(terminal[layout[i]])

\* From position i control goes back to position j.
GoesBack(i, j) ==
  i \in 1 .. Len(layout) /\ j \in 1 .. i /\ GoesTo(i, layout[j])

\* Then the blocks between are younger than the one at j, nothing before j goes to
\* them, and so does nothing behind i.
OneEntry(i, j) ==
  /\ \A p \in j + 1 .. i : layout[p] > layout[j]
  /\ \A p \in 1 .. j - 1 : \A s \in Block : GoesTo(p, s) => s =< layout[j]
  /\ \A p \in i + 1 .. Len(layout) : \A q \in j + 1 .. i : ~ GoesTo(p, layout[q])

\* The same of the loop in progress of frame k, whose condition is c.
EntryOf(k, c) ==
  /\ c \in Block /\ c =< current_block
  /\ \A l \in k .. Len(frames) : \A b \in Pending(frames[l]) : c < b
  /\ \A l \in 1 .. k - 1 : frames[l].at \in LoopStages => frames[l].condition_block < c
  /\ c = current_block \/ IsPlaced(c)
  /\ \A q \in 1 .. Len(layout) : layout[q] = c => \A p \in q + 1 .. Len(layout) : c < layout[p]
  /\ \A p \in 1 .. Len(layout) : (\A q \in 1 .. p : layout[q] # c) =>
       \A s \in Block : GoesTo(p, s) => s =< c
  /\ \A i, j \in 1 .. Len(layout) : GoesBack(i, j) => \A q \in j + 1 .. i : layout[q] # c

SuccessorsExist ==
  \A p \in 1 .. Len(layout) : \A s \in Block : GoesTo(p, s) => s < block_counter

BackEdges == \A i, j \in 1 .. Len(layout) : GoesBack(i, j) => OneEntry(i, j)

LoopEntries ==
  \A k \in 1 .. Len(frames) :
    frames[k].at \in LoopStages => EntryOf(k, frames[k].condition_block)

Entries == SuccessorsExist /\ BackEdges /\ LoopEntries

-----------------------------------------------------------------------------
(* The step that ends the current block.                                     *)

\* The current block is placed with terminal t, and behind it at most new blocks
\* that go nowhere.
PlacedWith(t) ==
  /\ Len(layout') \in Nat /\ Len(layout') > Len(layout)
  /\ \A i \in 1 .. Len(layout) : /\ layout'[i] = layout[i]
                                /\ terminal'[layout[i]] = terminal[layout[i]]
  /\ layout'[Len(layout) + 1] = current_block
  /\ terminal'[current_block] = t
  /\ \A i \in Len(layout) + 2 .. Len(layout') :
       /\ layout'[i] >= block_counter
       /\ \A s \in Block : s \notin Successors(terminal'[layout'[i]])
  /\ block_counter' \in Nat /\ block_counter' >= block_counter

\* It goes to blocks that are still to be placed, or back to the innermost condition.
LeadsTo(t) ==
  \A s \in Block : s \in Successors(t) =>
    /\ s < block_counter'
    /\ \/ ~ IsPlaced(s) /\ s # current_block
       \/ \E k \in 1 .. Len(frames) : Innermost(k) /\ s = frames[k].condition_block

\* Blocks are numbers, and those that exist are below the counter.
LEMMA BlockNumbers ==
  ASSUME TypeOK, Core
  PROVE  /\ \A b \in Block : b \in Int
         /\ block_counter \in Nat
         /\ Len(layout) \in Nat /\ Len(frames) \in Nat
         /\ \A i \in 1 .. Len(layout) : layout[i] \in Block /\ layout[i] < block_counter
         /\ current_block \in Block => current_block < block_counter
         /\ \A i, j \in 1 .. Len(layout) : layout[i] = layout[j] => i = j
         /\ \A i \in 1 .. Len(layout) : layout[i] # current_block
         /\ \A k \in 1 .. Len(frames) : Pending(frames[k]) \subseteq Block
<1>1. \A b \in Block : b \in Int
  BY BoundsAssumption DEF BoundsAssumption, Block
<1>2. block_counter \in Nat /\ Len(layout) \in Nat /\ Len(frames) \in Nat
      /\ \A i \in 1 .. Len(layout) : layout[i] \in Block
  BY BoundsAssumption DEF BoundsAssumption, TypeOK
<1>3. \A i \in 1 .. Len(layout) : layout[i] < block_counter
  BY <1>2 DEF Core, Placement, NoBlockLost, IsPlaced
<1>4. current_block \in Block => current_block < block_counter
  BY DEF Core, Placement, NoBlockLost
<1>. QED
  BY <1>1, <1>2, <1>3, <1>4 DEF Core, Placement, NoBlockTwice, PendingAreBlocks

\* Where the positions go after the step.
LEMMA GoesAfter ==
  ASSUME TypeOK, Core, NEW t, PlacedWith(t), NEW m, m = Len(layout), NEW s \in Block
  PROVE  /\ \A p \in 1 .. m : GoesTo(p, s)' <=> GoesTo(p, s)
         /\ GoesTo(m + 1, s)' <=> s \in Successors(t)
         /\ \A p \in m + 2 .. Len(layout') : ~ GoesTo(p, s)'
         /\ \A p : p \in 1 .. Len(layout') <=>
              \/ p \in 1 .. m
              \/ p = m + 1
              \/ p \in m + 2 .. Len(layout')
<1>1. m \in Nat /\ Len(layout') \in Nat /\ Len(layout') > m
  BY DEF TypeOK, PlacedWith
<1>2. \A p \in 1 .. m : terminal'[layout'[p]] = terminal[layout[p]]
  BY DEF PlacedWith
<1>3. terminal'[layout'[m + 1]] = t
  BY DEF PlacedWith
<1>4. \A p : p \in 1 .. Len(layout') <=>
              \/ p \in 1 .. m
              \/ p = m + 1
              \/ p \in m + 2 .. Len(layout')
  BY <1>1
<1>. QED
  BY <1>2, <1>3, <1>4 DEF PlacedWith, GoesTo

\* Only the innermost loop's condition is entered from behind.
LEMMA NewBack ==
  ASSUME TypeOK, Core, LoopEntries, NEW t, PlacedWith(t), LeadsTo(t),
         layout' \in Seq(Block),
         NEW m, m = Len(layout), NEW j, GoesBack(m + 1, j)'
  PROVE  \E k \in 1 .. Len(frames) :
           /\ Innermost(k)
           /\ layout'[j] = frames[k].condition_block
           /\ EntryOf(k, frames[k].condition_block)
<1>1. m \in Nat /\ j \in 1 .. m + 1 /\ Len(layout') >= m + 1
  BY DEF GoesBack, PlacedWith, TypeOK
<1>2. layout'[j] \in Block
  BY <1>1
<1>3. layout'[j] \in Successors(t)
  BY <1>2, GoesAfter DEF GoesBack
<1>4. IsPlaced(layout'[j]) \/ layout'[j] = current_block
  <2>1. CASE j = m + 1
    BY <2>1 DEF PlacedWith
  <2>2. CASE j \in 1 .. m
    BY <2>2 DEF PlacedWith, IsPlaced
  <2>. QED
    BY <1>1, <2>1, <2>2
<1>5. PICK k \in 1 .. Len(frames) : Innermost(k) /\ layout'[j] = frames[k].condition_block
  BY <1>2, <1>3, <1>4 DEF LeadsTo
<1>. QED
  BY <1>5 DEF LoopEntries, Innermost

\* The back edges that there were still enter their loops alone.
LEMMA OldEntry ==
  ASSUME TypeOK, Core, Entries, NEW t, PlacedWith(t), LeadsTo(t),
         NEW i \in 1 .. Len(layout), NEW j, GoesBack(i, j)
  PROVE  OneEntry(i, j)'
<1>0. PICK m : m = Len(layout)
  OBVIOUS
<1>. USE <1>0
<1>1. m \in Nat /\ j \in 1 .. i /\ j \in 1 .. m /\ OneEntry(i, j)
  BY DEF GoesBack, TypeOK, Entries, BackEdges
<1>2. \A p \in 1 .. i : p \in 1 .. m /\ layout'[p] = layout[p] /\ layout[p] \in Block
  BY <1>1, BlockNumbers DEF PlacedWith
<1>3. \A p \in j + 1 .. i : layout'[p] > layout'[j]
  <2>1. \A p \in j + 1 .. i : p \in 1 .. i
    BY <1>1
  <2>. QED
    BY <1>1, <1>2, <2>1 DEF OneEntry
<1>4. ASSUME NEW p \in 1 .. j - 1, NEW s \in Block, GoesTo(p, s)' PROVE s =< layout'[j]
  <2>1. p \in 1 .. m
    BY <1>1
  <2>2. GoesTo(p, s)
    BY <1>4, <2>1, GoesAfter
  <2>. QED
    BY <1>1, <1>2, <2>2 DEF OneEntry
<1>5. ASSUME NEW p \in i + 1 .. Len(layout'), NEW q \in j + 1 .. i, GoesTo(p, layout[q])' PROVE FALSE
  <2>1. q \in 1 .. i /\ layout'[q] = layout[q] /\ layout[q] \in Block /\ q \in 1 .. m
    BY <1>1, <1>2
  <2>2. p \in 1 .. Len(layout')
    BY <1>1 DEF PlacedWith
  <2>3. CASE p \in 1 .. m
    BY <1>1, <1>5, <2>1, <2>3, GoesAfter DEF OneEntry
  <2>4. CASE p = m + 1
    <3>1. layout[q] \in Successors(t)
      BY <1>5, <2>1, <2>4, GoesAfter
    <3>2. IsPlaced(layout[q])
      BY <2>1 DEF IsPlaced
    <3>3. PICK k \in 1 .. Len(frames) : Innermost(k) /\ layout[q] = frames[k].condition_block
      BY <2>1, <3>1, <3>2 DEF LeadsTo
    <3>4. EntryOf(k, frames[k].condition_block)
      BY <3>3 DEF Entries, LoopEntries, Innermost
    <3>. QED
      BY <1>1, <3>3, <3>4 DEF EntryOf
  <2>5. CASE p \in m + 2 .. Len(layout')
    BY <1>5, <2>1, <2>5, GoesAfter
  <2>. QED
    BY <2>1, <2>2, <2>3, <2>4, <2>5, GoesAfter
<1>. QED
  BY <1>3, <1>4, <1>5 DEF OneEntry

\* A new one leads to the innermost loop's condition.
LEMMA NewEntry ==
  ASSUME TypeOK, Core, Entries, NEW t, PlacedWith(t), LeadsTo(t), layout' \in Seq(Block),
         current_block \in Block,
         NEW m, m = Len(layout), NEW j, GoesBack(m + 1, j)'
  PROVE  OneEntry(m + 1, j)'
<1>1. m \in Nat /\ j \in 1 .. m + 1
  BY DEF GoesBack, TypeOK
<1>2. PICK k \in 1 .. Len(frames) : /\ Innermost(k)
                                   /\ layout'[j] = frames[k].condition_block
                                   /\ EntryOf(k, frames[k].condition_block)
  BY NewBack DEF Entries
<1>3. PICK c : c = layout'[j] /\ EntryOf(k, c) /\ c \in Block
  BY <1>2 DEF EntryOf
<1>4. /\ layout'[m + 1] = current_block
      /\ \A p \in 1 .. m : layout'[p] = layout[p] /\ layout[p] \in Block /\ layout[p] # current_block
  BY BlockNumbers DEF PlacedWith
<1>5. ASSUME NEW p \in j + 1 .. m + 1 PROVE layout'[p] > c
  <2>1. j \in 1 .. m
    BY <1>1, <1>5
  <2>2. layout[j] = c
    BY <1>3, <1>4, <2>1
  <2>3. CASE p \in j + 1 .. m
    BY <1>1, <1>3, <1>4, <2>1, <2>2, <2>3, BlockNumbers DEF EntryOf
  <2>4. CASE p = m + 1
    BY <1>3, <1>4, <2>1, <2>2, <2>4, BlockNumbers DEF EntryOf
  <2>. QED
    BY <1>1, <2>3, <2>4
<1>6. ASSUME NEW p \in 1 .. j - 1, NEW s \in Block, GoesTo(p, s)' PROVE s =< c
  <2>1. p \in 1 .. m
    BY <1>1
  <2>2. GoesTo(p, s)
    BY <1>6, <2>1, GoesAfter
  <2>3. \A q \in 1 .. p : layout[q] # c
    <3>. SUFFICES ASSUME NEW q \in 1 .. p, layout[q] = c PROVE FALSE
      OBVIOUS
    <3>1. q \in 1 .. m /\ q # j
      BY <1>1, <2>1
    <3>2. CASE j = m + 1
      BY <1>3, <1>4, <3>1, <3>2
    <3>3. CASE j \in 1 .. m
      BY <1>3, <1>4, <3>1, <3>3, BlockNumbers
    <3>. QED
      BY <1>1, <3>2, <3>3
  <2>. QED
    BY <1>3, <2>1, <2>2, <2>3 DEF EntryOf
<1>7. ASSUME NEW p \in (m + 1) + 1 .. Len(layout'), NEW q \in j + 1 .. m + 1, GoesTo(p, layout[q])'
      PROVE  FALSE
  <2>1. q \in 1 .. m + 1 /\ p \in m + 2 .. Len(layout')
    BY <1>1
  <2>2. layout'[q] \in Block
    BY <1>1, <1>4, <2>1
  <2>. QED
    BY <1>7, <2>1, <2>2, GoesAfter
<1>. QED
  BY <1>3, <1>5, <1>6, <1>7 DEF OneEntry

\* So that every loop has one entry after the step.
LEMMA BackAfter ==
  ASSUME TypeOK, Core, Entries, NEW t, PlacedWith(t), LeadsTo(t), layout' \in Seq(Block),
         current_block \in Block
  PROVE  SuccessorsExist' /\ BackEdges'
<1>0. PICK m : m = Len(layout)
  OBVIOUS
<1>. USE <1>0
<1>1. SuccessorsExist'
  <2>. SUFFICES ASSUME NEW p \in 1 .. Len(layout'), NEW s \in Block, GoesTo(p, s)'
                PROVE  s < block_counter'
    BY DEF SuccessorsExist
  <2>1. CASE p \in 1 .. m
    <3>1. s < block_counter
      BY <2>1, GoesAfter DEF Entries, SuccessorsExist
    <3>. QED
      BY <3>1, BlockNumbers DEF PlacedWith
  <2>2. CASE p = m + 1
    BY <2>2, GoesAfter DEF LeadsTo
  <2>. QED
    BY <2>1, <2>2, GoesAfter
<1>2. ASSUME NEW i \in 1 .. Len(layout'), NEW j \in 1 .. Len(layout'), GoesBack(i, j)'
      PROVE  OneEntry(i, j)'
  <2>1. layout'[j] \in Block /\ j \in 1 .. i /\ GoesTo(i, layout[j])'
    BY <1>2 DEF GoesBack
  <2>2. CASE i \in 1 .. m
    <3>1. j \in 1 .. m /\ layout'[j] = layout[j]
      BY <2>1, <2>2, BlockNumbers, SMTT(30) DEF PlacedWith
    <3>2. GoesBack(i, j)
      BY <2>1, <2>2, <3>1, GoesAfter DEF GoesBack
    <3>. QED
      BY <2>2, <3>2, OldEntry
  <2>3. CASE i = m + 1
    BY <1>2, <2>3, NewEntry
  <2>. QED
    BY <2>1, <2>2, <2>3, GoesAfter
<1>. QED
  BY <1>1, <1>2 DEF BackEdges

\* The loops after the step were there before, or one has just begun: nothing but the
\* block before it goes to its condition, and its blocks are new.
LoopsFromStep(t) ==
  \A k \in 1 .. Len(frames') : frames'[k].at \in LoopStages =>
    \/ /\ k \in 1 .. Len(frames) /\ frames[k].at \in LoopStages
       /\ frames'[k].condition_block = frames[k].condition_block
    \/ /\ k = Len(frames') /\ frames'[k].condition_block = current_block'
       /\ current_block' >= block_counter
       /\ \A b \in Pending(frames'[k]) : current_block' < b
       /\ \A s \in Block : s \in Successors(t) => s = current_block'

\* What functions hold after the step they held before, or is new; so is what is current.
HoldsFromStep ==
  /\ \A l \in 1 .. Len(frames') : \A b \in Pending(frames'[l]) :
       (l \in 1 .. Len(frames) /\ b \in Pending(frames[l])) \/ b >= block_counter
  /\ Len(frames) > 0
  /\ current_block' \in Pending(frames[Len(frames)]) \/ current_block' >= block_counter
  /\ current_block' \in Block

\* Blocks are numbers after the step, too.
LEMMA NumbersAfter ==
  ASSUME TypeOK', Core'
  PROVE  /\ Len(layout') \in Nat /\ Len(frames') \in Nat
         /\ \A i \in 1 .. Len(layout') : layout'[i] \in Block /\ layout'[i] # current_block'
         /\ \A k \in 1 .. Len(frames') : Pending(frames'[k]) \subseteq Block
         /\ layout' \in Seq(Block)
BY DEF TypeOK, Core, Placement, NoBlockTwice, PendingAreBlocks

\* A loop that was there before has its entry after the step.
LEMMA OldLoop ==
  ASSUME TypeOK, Core, TypeOK', Core', Entries, NEW t, PlacedWith(t), LeadsTo(t),
         LoopsFromStep(t), HoldsFromStep, current_block \in Block,
         NEW k \in 1 .. Len(frames'), k \in 1 .. Len(frames), frames[k].at \in LoopStages,
         NEW c, c = frames[k].condition_block, EntryOf(k, c)
  PROVE  EntryOf(k, c)'
<1>0. PICK m \in Nat : m = Len(layout)
  BY BlockNumbers
<1>1. /\ c \in Block /\ c \in Int /\ c =< current_block /\ current_block \in Int
      /\ current_block < block_counter /\ c < block_counter /\ block_counter \in Nat
  BY BlockNumbers DEF EntryOf
<1>2. /\ \A b \in Block : b \in Int
      /\ \A p \in 1 .. m : layout'[p] = layout[p] /\ layout[p] \in Block /\ layout[p] # current_block
      /\ layout'[m + 1] = current_block
      /\ \A p \in m + 2 .. Len(layout') : layout'[p] \in Block /\ layout'[p] >= block_counter
      /\ Len(layout') \in Nat /\ Len(layout') > m
  <2>1. \A p \in m + 2 .. Len(layout') : p \in 1 .. Len(layout')
    OBVIOUS
  <2>. QED
    BY <1>0, <2>1, BlockNumbers, NumbersAfter DEF PlacedWith
<1>3. \A p \in 1 .. Len(layout') : p \in 1 .. m \/ p = m + 1 \/ p \in m + 2 .. Len(layout')
  BY <1>2
<1>4. c =< current_block'
  <2>1. CASE current_block' \in Pending(frames[Len(frames)])
    <3>1. Len(frames) \in k .. Len(frames)
      BY BlockNumbers
    <3>2. c < current_block'
      BY <2>1, <3>1 DEF EntryOf
    <3>. QED
      BY <1>1, <1>2, <3>2 DEF HoldsFromStep
  <2>2. CASE current_block' >= block_counter
    <3>1. current_block' \in Int
      BY <1>2 DEF HoldsFromStep
    <3>. QED
      BY <1>1, <2>2, <3>1
  <2>. QED
    BY <2>1, <2>2 DEF HoldsFromStep
<1>5. ASSUME NEW l \in k .. Len(frames'), NEW b \in Pending(frames'[l]) PROVE c < b
  <2>1. l \in 1 .. Len(frames') /\ b \in Int
    BY <1>2, NumbersAfter
  <2>2. CASE l \in 1 .. Len(frames) /\ b \in Pending(frames[l])
    <3>1. l \in k .. Len(frames)
      BY <2>2
    <3>. QED
      BY <2>2, <3>1 DEF EntryOf
  <2>3. CASE b >= block_counter
    BY <1>1, <2>1, <2>3
  <2>. QED
    BY <2>1, <2>2, <2>3 DEF HoldsFromStep
<1>6. ASSUME NEW l \in 1 .. k - 1, frames'[l].at \in LoopStages PROVE frames'[l].condition_block < c
  <2>1. l \in 1 .. Len(frames') /\ l # Len(frames')
    BY NumbersAfter
  <2>2. frames[l].at \in LoopStages /\ frames'[l].condition_block = frames[l].condition_block
    BY <1>6, <2>1 DEF LoopsFromStep
  <2>. QED
    BY <2>2 DEF EntryOf
<1>7. \E p \in 1 .. m + 1 : layout'[p] = c
  <2>1. CASE c = current_block
    BY <1>2, <2>1
  <2>2. CASE IsPlaced(c)
    BY <1>0, <1>2, <2>2 DEF IsPlaced
  <2>. QED
    BY <2>1, <2>2 DEF EntryOf
<1>8. ASSUME NEW q \in 1 .. Len(layout'), layout'[q] = c, NEW p \in q + 1 .. Len(layout')
      PROVE  c < layout'[p]
  <2>1. q \notin m + 2 .. Len(layout') /\ p \in 1 .. Len(layout')
    BY <1>1, <1>2, <1>8, SMTT(30)
  <2>2. CASE p \in m + 2 .. Len(layout')
    <3>1. layout'[p] \in Int /\ layout'[p] >= block_counter
      BY <1>2, <2>2
    <3>. QED
      BY <1>1, <3>1
  <2>3. CASE q = m + 1
    BY <1>2, <2>1, <2>2, <2>3
  <2>4. CASE q \in 1 .. m /\ p = m + 1
    <3>1. c # current_block
      BY <1>2, <1>8, <2>4
    <3>. QED
      BY <1>1, <1>2, <2>4, <3>1
  <2>5. CASE q \in 1 .. m /\ p \in 1 .. m
    <3>1. layout[q] = c /\ p \in q + 1 .. m
      BY <1>2, <1>8, <2>5
    <3>. QED
      BY <1>0, <1>2, <2>5, <3>1 DEF EntryOf
  <2>. QED
    BY <1>3, <2>1, <2>2, <2>3, <2>4, <2>5
<1>9. ASSUME NEW p \in 1 .. Len(layout'), \A q \in 1 .. p : layout'[q] # c,
             NEW s \in Block, GoesTo(p, s)'
      PROVE  s =< c
  <2>1. p \in 1 .. m
    BY <1>0, <1>2, <1>3, <1>7, <1>9, GoesAfter
  <2>2. \A q \in 1 .. p : layout[q] # c
    <3>1. \A q \in 1 .. p : q \in 1 .. m
      BY <2>1
    <3>. QED
      BY <1>2, <1>9, <3>1
  <2>3. GoesTo(p, s)
    BY <1>0, <1>9, <2>1, GoesAfter
  <2>. QED
    BY <1>0, <2>1, <2>2, <2>3 DEF EntryOf
<1>12. ASSUME NEW j, GoesBack(m + 1, j)'
       PROVE  \E h \in 1 .. Len(frames) : /\ Innermost(h)
                                       /\ layout'[j] = frames[h].condition_block
                                       /\ EntryOf(h, frames[h].condition_block)
  <2>1. LoopEntries /\ layout' \in Seq(Block)
    BY NumbersAfter DEF Entries
  <2>. QED
    BY <1>0, <1>12, <2>1, NewBack
<1>10. ASSUME NEW i \in 1 .. Len(layout'), NEW j \in 1 .. Len(layout'), GoesBack(i, j)', NEW q \in j + 1 .. i
       PROVE  layout'[q] # c
  <2>1. j \in 1 .. i /\ GoesTo(i, layout[j])' /\ layout'[j] \in Block /\ q \in 1 .. Len(layout')
    BY <1>10, NumbersAfter DEF GoesBack
  <2>2. CASE i \in 1 .. m
    <3>1. j \in 1 .. m /\ q \in 1 .. m
      BY <2>1, <2>2
    <3>2. GoesBack(i, j)
      BY <1>0, <1>2, <2>1, <2>2, <3>1, GoesAfter DEF GoesBack
    <3>. QED
      BY <1>0, <1>2, <2>2, <3>1, <3>2 DEF EntryOf
  <2>3. CASE i = m + 1
    <3>1. GoesBack(m + 1, j)'
      BY <1>10, <2>3
    <3>2. PICK h \in 1 .. Len(frames) : /\ Innermost(h)
                                       /\ layout'[j] = frames[h].condition_block
                                       /\ EntryOf(h, frames[h].condition_block)
      BY <3>1, <1>12
    <3>3. PICK d : d = frames[h].condition_block /\ EntryOf(h, d)
      BY <3>2
    <3>4. j \in 1 .. m /\ q \in 1 .. m + 1 /\ layout[j] = d
      BY <1>2, <2>1, <2>3, <3>2, <3>3, SMTT(30)
    <3>5. d < layout'[q]
      <4>1. CASE q \in 1 .. m
        <5>1. q \in j + 1 .. m
          BY <3>4, <4>1
        <5>. QED
          BY <1>0, <1>2, <3>3, <3>4, <4>1, <5>1 DEF EntryOf
      <4>2. CASE q = m + 1
        <5>1. d # current_block /\ d \in Block /\ d =< current_block
          BY <1>2, <3>3, <3>4 DEF EntryOf
        <5>. QED
          BY <1>1, <1>2, <4>2, <5>1
      <4>. QED
        BY <3>4, <4>1, <4>2
    <3>6. c =< d
      <4>1. k = h \/ k \in 1 .. h - 1
        <5>1. k \notin h + 1 .. Len(frames)
          BY <3>2 DEF Innermost
        <5>. QED
          BY <5>1, BlockNumbers
      <4>2. k \in 1 .. h - 1 => c < d
        BY <3>3 DEF EntryOf
      <4>. QED
        <5>1. d \in Int
          BY <1>2, <3>3 DEF EntryOf
        <5>. QED
          BY <1>1, <3>3, <4>1, <4>2, <5>1, SMTT(30)
    <3>7. d \in Int /\ layout'[q] \in Int
      BY <1>2, <2>1, <3>3, NumbersAfter DEF EntryOf
    <3>. QED
      BY <1>1, <3>5, <3>6, <3>7, SMTT(30)
  <2>4. CASE i \in m + 2 .. Len(layout')
    BY <1>0, <2>1, <2>4, GoesAfter
  <2>. QED
    BY <1>3, <2>2, <2>3, <2>4
<1>11. c = current_block' \/ IsPlaced(c)'
  BY <1>2, <1>7 DEF IsPlaced
<1>. QED
  BY <1>1, <1>4, <1>5, <1>6, <1>8, <1>9, <1>10, <1>11 DEF EntryOf

\* A loop that has just begun has its entry: its condition is the youngest block.
LEMMA NewLoop ==
  ASSUME TypeOK, Core, TypeOK', Core', Entries, NEW t, PlacedWith(t),
         LoopsFromStep(t), HoldsFromStep, current_block \in Block,
         NEW k, k = Len(frames'), NEW c, c = current_block', c >= block_counter,
         \A b \in Pending(frames'[k]) : c < b,
         \A s \in Block : s \in Successors(t) => s = c
  PROVE  EntryOf(k, c)'
<1>0. PICK m \in Nat : m = Len(layout)
  BY BlockNumbers
<1>1. /\ c \in Block /\ c \in Int /\ block_counter \in Nat /\ Len(frames') \in Nat
      /\ \A b \in Block : b \in Int
      /\ current_block \in Int /\ current_block < block_counter
  BY BlockNumbers, NumbersAfter DEF HoldsFromStep
<1>2. \A q \in 1 .. Len(layout') : layout'[q] # c
  BY NumbersAfter
<1>3. \A l \in k .. Len(frames') : \A b \in Pending(frames'[l]) : c < b
  <2>1. \A l \in k .. Len(frames') : l = k
    BY <1>1
  <2>. QED
    BY <2>1
<1>4. ASSUME NEW l \in 1 .. k - 1, frames'[l].at \in LoopStages PROVE frames'[l].condition_block < c
  <2>1. l \in 1 .. Len(frames') /\ l # Len(frames')
    BY <1>1
  <2>2. /\ l \in 1 .. Len(frames) /\ frames[l].at \in LoopStages
        /\ frames'[l].condition_block = frames[l].condition_block
    BY <1>4, <2>1 DEF LoopsFromStep
  <2>3. PICK d : d = frames[l].condition_block /\ EntryOf(l, d)
    BY <2>2 DEF Entries, LoopEntries
  <2>4. d \in Int /\ d =< current_block
    BY <1>1, <2>3 DEF EntryOf
  <2>. QED
    BY <1>1, <2>2, <2>3, <2>4
<1>5. ASSUME NEW p \in 1 .. Len(layout'), NEW s \in Block, GoesTo(p, s)' PROVE s =< c
  <2>1. CASE p \in 1 .. m
    <3>1. GoesTo(p, s)
      BY <1>0, <1>5, <2>1, GoesAfter
    <3>2. s < block_counter
      BY <1>0, <2>1, <3>1 DEF Entries, SuccessorsExist
    <3>. QED
      BY <1>1, <3>2
  <2>2. CASE p = m + 1
    <3>1. s = c
      BY <1>0, <1>5, <2>2, GoesAfter
    <3>. QED
      BY <1>1, <3>1
  <2>. QED
    BY <1>0, <1>5, <2>1, <2>2, GoesAfter
<1>6. ASSUME NEW i \in 1 .. Len(layout'), NEW j \in 1 .. Len(layout'), NEW q \in j + 1 .. i
      PROVE  layout'[q] # c
  <2>1. q \in 1 .. Len(layout')
    BY NumbersAfter
  <2>. QED
    BY <1>2, <2>1
<1>7. c =< current_block'
  BY <1>1
<1>. QED
  BY <1>1, <1>2, <1>3, <1>4, <1>5, <1>6, <1>7 DEF EntryOf

\* So that the step keeps all of it.
LEMMA EntriesAfter ==
  ASSUME TypeOK, Core, TypeOK', Core', Entries, NEW t, PlacedWith(t), LeadsTo(t),
         LoopsFromStep(t), HoldsFromStep, current_block \in Block
  PROVE  Entries'
<1>1. SuccessorsExist' /\ BackEdges'
  BY BackAfter, NumbersAfter
<1>2. ASSUME NEW k \in 1 .. Len(frames'), frames'[k].at \in LoopStages,
             NEW c, c = frames'[k].condition_block
      PROVE  EntryOf(k, c)'
  <2>1. CASE /\ k \in 1 .. Len(frames) /\ frames[k].at \in LoopStages
             /\ c = frames[k].condition_block
    <3>1. EntryOf(k, c)
      BY <2>1 DEF Entries, LoopEntries
    <3>. QED
      BY <2>1, <3>1, OldLoop
  <2>2. CASE /\ k = Len(frames') /\ c = current_block' /\ current_block' >= block_counter
             /\ \A b \in Pending(frames'[k]) : current_block' < b
             /\ \A s \in Block : s \in Successors(t) => s = current_block'
    BY <2>2, NewLoop
  <2>. QED
    BY <1>2, <2>1, <2>2 DEF LoopsFromStep
<1>3. LoopEntries'
  <2>. SUFFICES ASSUME NEW k \in 1 .. Len(frames'), frames'[k].at \in LoopStages
                PROVE  EntryOf(k, frames[k].condition_block)'
    BY DEF LoopEntries
  <2>1. PICK c : c = frames'[k].condition_block
    OBVIOUS
  <2>2. EntryOf(k, c)'
    BY <1>2, <2>1
  <2>. QED
    BY <2>1, <2>2 DEF EntryOf
<1>. QED
  BY <1>1, <1>3 DEF Entries

\* A call or a return that ends no block: the frames that begin or end hold none.
LEMMA QuietEntries ==
  ASSUME TypeOK, Entries, BlocksUnchanged, NEW m \in 0 .. Len(frames), m =< Len(frames'),
         frames' \in Seq(Frame),
         \A k \in 1 .. m : frames'[k] = frames[k],
         \A k \in m + 1 .. Len(frames') : frames'[k].at \notin LoopStages /\ Pending(frames'[k]) = {}
  PROVE  Entries'
<1>1. Len(frames) \in Nat /\ Len(frames') \in Nat /\ m \in Nat
  BY DEF TypeOK
<1>2. \A k \in 1 .. Len(frames') : k \in 1 .. m \/ k \in m + 1 .. Len(frames')
  BY <1>1
<1>3. /\ layout' = layout /\ current_block' = current_block /\ block_counter' = block_counter
      /\ \A p, s : GoesTo(p, s)' <=> GoesTo(p, s)
  BY DEF BlocksUnchanged, GoesTo
<1>4. \A i, j : GoesBack(i, j)' <=> GoesBack(i, j)
  BY DEF BlocksUnchanged, GoesTo, GoesBack
<1>5. SuccessorsExist' /\ BackEdges'
  BY ZenonT(40) DEF BlocksUnchanged, GoesTo, GoesBack, OneEntry, Entries, SuccessorsExist, BackEdges
<1>6. ASSUME NEW k \in 1 .. Len(frames'), frames'[k].at \in LoopStages
      PROVE  EntryOf(k, frames[k].condition_block)'
  <2>1. k \in 1 .. m
    BY <1>2, <1>6
  <2>2. frames'[k] = frames[k] /\ k \in 1 .. Len(frames)
    BY <1>1, <2>1
  <2>3. PICK c : c = frames[k].condition_block /\ EntryOf(k, c)
    BY <1>6, <2>2 DEF Entries, LoopEntries
  <2>4. ASSUME NEW l \in k .. Len(frames'), NEW b \in Pending(frames'[l]) PROVE c < b
    <3>1. CASE l \in 1 .. m
      <4>1. l \in k .. Len(frames) /\ frames'[l] = frames[l]
        BY <1>1, <3>1
      <4>. QED
        BY <2>3, <2>4, <4>1 DEF EntryOf
    <3>2. CASE l \in m + 1 .. Len(frames')
      BY <2>4, <3>2
    <3>. QED
      BY <1>1, <2>1, <3>1, <3>2
  <2>5. \A l \in 1 .. k - 1 : l \in 1 .. m
    BY <1>1, <2>1
  <2>6. \A l \in 1 .. k - 1 : frames'[l].at \in LoopStages => frames'[l].condition_block < c
    BY <2>3, <2>5 DEF EntryOf
  <2>7. IsPlaced(c)' <=> IsPlaced(c)
    BY <1>3 DEF IsPlaced
  <2>8. EntryOf(k, c)'
    BY <1>3, <1>4, <2>3, <2>4, <2>6, <2>7 DEF EntryOf
  <2>. QED
    BY <2>2, <2>3, <2>8 DEF EntryOf
<1>. QED
  BY <1>5, <1>6 DEF Entries, LoopEntries

-----------------------------------------------------------------------------
(* What the function on top does in such a step.                             *)

\* Frame f is a loop that begins: t goes to its condition, which is current next.
Begins(f, t) ==
  /\ f.condition_block = current_block' /\ current_block' >= block_counter
  /\ \A b \in Pending(f) : current_block' < b
  /\ \A s \in Block : s \in Successors(t) => s = current_block'

\* The function on top goes on, or calls another; what they hold the one on top held,
\* or it is new.
StepsFrom(t) ==
  /\ KeepsBelow /\ Len(frames') =< Len(frames) + 1
  /\ Len(frames) =< Len(frames') =>
       /\ \A b \in Pending(frames'[Len(frames)]) : b \in Pending(Top) \/ b >= block_counter
       /\ frames'[Len(frames)].at \in LoopStages =>
            \/ /\ Top.at \in LoopStages
               /\ frames'[Len(frames)].condition_block = Top.condition_block
            \/ Len(frames') = Len(frames) /\ Begins(frames'[Len(frames)], t)
  /\ Len(frames') = Len(frames) + 1 =>
       /\ \A b \in Pending(frames'[Len(frames')]) : b >= block_counter
       /\ frames'[Len(frames')].at \in LoopStages => Begins(frames'[Len(frames')], t)
  /\ current_block' \in Block
  /\ current_block' \in Pending(Top) \/ current_block' >= block_counter

LEMMA StepsFromTop ==
  ASSUME TypeOK, Core, NEW t, StepsFrom(t)
  PROVE  HoldsFromStep /\ LoopsFromStep(t)
<1>. DEFINE n == Len(frames)
<1>1. /\ n \in Nat /\ n > 0 /\ Len(frames') \in Nat /\ Top = frames[n]
      /\ n - 1 =< Len(frames') /\ Len(frames') =< n + 1
      /\ \A k \in 1 .. n - 1 : frames'[k] = frames[k]
  BY DEF StepsFrom, KeepsBelow, TypeOK, Top
<1>2. \A l \in 1 .. Len(frames') :
        \/ l \in 1 .. n - 1
        \/ l = n /\ n =< Len(frames')
        \/ l = Len(frames') /\ Len(frames') = n + 1
  BY <1>1
<1>3. n \in 1 .. n /\ \A l \in 1 .. n - 1 : l \in 1 .. n
  BY <1>1
<1>4. HoldsFromStep
  <2>. SUFFICES ASSUME NEW l \in 1 .. Len(frames'), NEW b \in Pending(frames'[l])
                PROVE  (l \in 1 .. n /\ b \in Pending(frames[l])) \/ b >= block_counter
    BY <1>1 DEF StepsFrom, HoldsFromStep
  <2>. QED
    BY <1>1, <1>2, <1>3 DEF StepsFrom
<1>5. LoopsFromStep(t)
  <2>. SUFFICES ASSUME NEW k \in 1 .. Len(frames'), frames'[k].at \in LoopStages
                PROVE  \/ /\ k \in 1 .. n /\ frames[k].at \in LoopStages
                          /\ frames'[k].condition_block = frames[k].condition_block
                       \/ k = Len(frames') /\ Begins(frames'[k], t)
    BY DEF LoopsFromStep, Begins
  <2>. QED
    BY <1>1, <1>2, <1>3 DEF StepsFrom
<1>. QED
  BY <1>4, <1>5

LEMMA PopSteps ==
  ASSUME TypeOK, Core, Len(frames) > 0, Pop, NEW t,
         current_block' \in Pending(Top) \/ current_block' >= block_counter, current_block' \in Block
  PROVE  StepsFrom(t)
<1>1. Len(frames) \in Nat /\ Len(frames') = Len(frames) - 1 /\ KeepsBelow
  BY PopFacts, PopKeeps DEF TypeOK
<1>. QED
  BY <1>1 DEF StepsFrom

LEMMA ReplaceSteps ==
  ASSUME TypeOK, Core, Len(frames) > 0, NEW f \in Frame, Replace(f), NEW t,
         \A b \in Pending(f) : b \in Pending(Top) \/ b >= block_counter,
         f.at \in LoopStages =>
           \/ Top.at \in LoopStages /\ f.condition_block = Top.condition_block
           \/ Begins(f, t),
         current_block' \in Pending(Top) \/ current_block' >= block_counter, current_block' \in Block
  PROVE  StepsFrom(t)
<1>1. Len(frames) \in Nat /\ Len(frames') = Len(frames) /\ frames'[Len(frames)] = f /\ KeepsBelow
  BY ReplaceFacts, ReplaceKeeps DEF TypeOK
<1>. QED
  BY <1>1 DEF StepsFrom

\* The function on top calls another, which holds only new blocks.
LEMMA CallSteps ==
  ASSUME TypeOK, Core, Len(frames) > 0, NEW g \in Frame, NEW f \in Frame, NEW t,
         frames' = Append([frames EXCEPT ![Len(frames)] = g], f),
         Pending(g) \subseteq Pending(Top),
         g.at \in LoopStages => Top.at \in LoopStages /\ g.condition_block = Top.condition_block,
         \A b \in Pending(f) : b >= block_counter,
         f.at \in LoopStages => Begins(f, t),
         current_block' \in Pending(Top) \/ current_block' >= block_counter, current_block' \in Block
  PROVE  StepsFrom(t)
<1>1. /\ Len(frames) \in Nat /\ Len(frames) > 0 /\ Len(frames') = Len(frames) + 1
      /\ frames' \in Seq(Frame)
      /\ frames'[Len(frames)] = g /\ frames'[Len(frames) + 1] = f
      /\ \A k \in 1 .. Len(frames) - 1 : frames'[k] = frames[k]
  BY DEF TypeOK
<1>2. KeepsBelow
  BY <1>1 DEF KeepsBelow
<1>. QED
  BY <1>1, <1>2 DEF StepsFrom

\* Control goes to blocks that a function holds, to new ones, or back to the condition.
Forward(t, n) ==
  \A s \in Block : s \in Successors(t) =>
    \/ \E k \in 1 .. Len(frames) : s \in Pending(frames[k])
    \/ s \in Fresh(n)
    \/ \E k \in 1 .. Len(frames) : Innermost(k) /\ s = frames[k].condition_block

LEMMA ForwardLeads ==
  ASSUME TypeOK, Core, LoopEntries, NEW n \in Nat, Allocate(n), NEW t, Forward(t, n),
         current_block \in Block
  PROVE  LeadsTo(t)
<1>1. /\ block_counter \in Nat /\ block_counter' \in Nat /\ block_counter' >= block_counter
      /\ \A c \in Fresh(n) : c \in Block /\ block_counter =< c /\ c < block_counter'
      /\ \A b \in Block : b \in Int
      /\ current_block < block_counter
  BY FreshFacts, BlockNumbers DEF Fresh
<1>. SUFFICES ASSUME NEW s \in Block, s \in Successors(t)
              PROVE  /\ s < block_counter'
                     /\ \/ ~ IsPlaced(s) /\ s # current_block
                        \/ \E k \in 1 .. Len(frames) : Innermost(k) /\ s = frames[k].condition_block
  BY DEF LeadsTo
<1>2. CASE \E k \in 1 .. Len(frames) : s \in Pending(frames[k])
  <2>1. IsPending(s) /\ s < block_counter
    BY <1>2 DEF IsPending, Core, Placement, NoBlockLost
  <2>2. ~ IsPlaced(s) /\ s # current_block
    BY <2>1 DEF Core, Placement, NoBlockTwice, IsPlaced
  <2>. QED
    BY <1>1, <2>1, <2>2
<1>3. CASE s \in Fresh(n)
  <2>1. ~ s < block_counter /\ s < block_counter'
    BY <1>1, <1>3
  <2>2. ~ IsPlaced(s) /\ s # current_block
    BY <2>1 DEF Core, Placement, NoBlockLost
  <2>. QED
    BY <2>1, <2>2
<1>4. ASSUME NEW k \in 1 .. Len(frames), Innermost(k), s = frames[k].condition_block PROVE s < block_counter'
  <2>1. EntryOf(k, s)
    BY <1>4 DEF LoopEntries, Innermost
  <2>2. s =< current_block
    BY <2>1 DEF EntryOf
  <2>. QED
    BY <1>1, <2>2
<1>. QED
  BY <1>2, <1>3, <1>4 DEF Forward

LEMMA EndBlockExtends ==
  ASSUME TypeOK, Core, Graph, Len(frames) > 0, NEW n \in Nat, Allocate(n),
         NEW t, NEW b \in Block, EndBlock(t, b)
  PROVE  PlacedWith(t)
<1>1. current_block \in Block /\ terminal[current_block] = Unset
  BY CurrentIsUnset DEF Graph
<1>2. /\ Len(layout) \in Nat /\ Len(layout') = Len(layout) + 1
      /\ \A i \in 1 .. Len(layout) : layout'[i] = layout[i] /\ layout[i] \in Block
      /\ layout'[Len(layout) + 1] = current_block
  BY <1>1 DEF TypeOK, EndBlock
<1>3. \A i \in 1 .. Len(layout) : layout[i] # current_block
  BY BlockNumbers
<1>4. /\ terminal'[current_block] = t
      /\ \A i \in 1 .. Len(layout) : terminal'[layout[i]] = terminal[layout[i]]
  BY <1>1, <1>2, <1>3 DEF TypeOK, EndBlock
<1>5. block_counter' \in Nat /\ block_counter' >= block_counter
  BY FreshFacts DEF TypeOK
<1>6. \A i \in Len(layout) + 2 .. Len(layout') : FALSE
  BY <1>2
<1>. QED
  BY <1>2, <1>4, <1>5, <1>6 DEF PlacedWith

\* Ending the current block keeps the loops' entries.
LEMMA EndBlockEntries ==
  ASSUME TypeOK, Core, TypeOK', Core', Graph, Entries, Len(frames) > 0,
         NEW n \in Nat, Allocate(n), NEW t, NEW b \in Block, EndBlock(t, b),
         Forward(t, n), StepsFrom(t)
  PROVE  Entries'
<1>1. current_block \in Block
  BY TopFacts
<1>2. PlacedWith(t)
  BY EndBlockExtends
<1>3. LeadsTo(t)
  BY <1>1, ForwardLeads DEF Entries
<1>4. HoldsFromStep /\ LoopsFromStep(t)
  BY StepsFromTop
<1>. QED
  BY <1>1, <1>2, <1>3, <1>4, EntriesAfter

-----------------------------------------------------------------------------
(* The actions.                                                              *)

\* A target that the function on top holds, or its condition, is one that t may have.
LEMMA TopForward ==
  ASSUME Core, Len(frames) > 0
  PROVE  /\ \A s \in Pending(Top) : \E k \in 1 .. Len(frames) : s \in Pending(frames[k])
         /\ Top.at \in LoopStages =>
              \E k \in 1 .. Len(frames) : Innermost(k) /\ Top.condition_block = frames[k].condition_block
<1>1. Len(frames) \in 1 .. Len(frames) /\ Top = frames[Len(frames)] /\ Len(frames) \in Nat
  BY TopFacts
<1>2. \A l \in Len(frames) + 1 .. Len(frames) : FALSE
  BY <1>1
<1>. QED
  BY <1>1, <1>2 DEF Innermost

\* The blocks that new_block returns are not below the counter.
LEMMA FreshAbove ==
  ASSUME TypeOK, NEW n
  PROVE  \A b \in Fresh(n) : b \in Block /\ b >= block_counter
BY BoundsAssumption DEF BoundsAssumption, Fresh, TypeOK, Block

\* The end of a short circuit, an if or an else.
LEMMA EndsEntries ==
  ASSUME TypeOK, Core, TypeOK', Core', Graph, Entries, EndShortCircuit \/ EndIf \/ EndElse
  PROVE  Entries'
<1>1. PICK b : Len(frames) > 0 /\ Allocate(0) /\ Pending(Top) = {b} /\ EndBlock(Jump(b), b) /\ Pop
  <2>1. Len(frames) > 0
    BY DEF EndShortCircuit, EndIf, EndElse, At
  <2>2. Top \in Frame
    BY <2>1, TopFacts
  <2>. QED
    BY <2>1, <2>2, PendingFacts DEF EndShortCircuit, EndIf, EndElse, At
<1>2. b \in Block /\ current_block' = b
  BY <1>1, TopFacts DEF EndBlock
<1>3. Forward(Jump(b), 0)
  BY <1>1, Targets, TopForward DEF Forward
<1>4. StepsFrom(Jump(b))
  BY <1>1, <1>2, PopSteps
<1>. QED
  BY <1>1, <1>2, <1>3, <1>4, EndBlockEntries

\* The end of a loop goes back to its own condition.
LEMMA EndLoopEntries ==
  ASSUME TypeOK, Core, TypeOK', Core', Graph, Entries, EndWhile \/ EndFor
  PROVE  Entries'
<1>1. PICK t, b : /\ Len(frames) > 0 /\ Allocate(0) /\ EndBlock(t, b) /\ Pop
                  /\ t = Jump(Top.condition_block) /\ b = Top.end_block
                  /\ Top.at \in {"while_body", "update"}
  BY DEF EndWhile, EndFor, At
<1>2. Top \in Frame /\ Pending(Top) \subseteq Block
  BY <1>1, TopFacts
<1>3. Pending(Top) = {b} /\ b \in Block /\ current_block' = b
  BY <1>1, <1>2, PendingFacts DEF EndBlock
<1>4. Top.at \in LoopStages
  BY <1>1 DEF LoopStages
<1>5. Forward(t, 0)
  BY <1>1, <1>4, Targets, TopForward DEF Forward
<1>6. StepsFrom(t)
  BY <1>1, <1>3, PopSteps
<1>. QED
  BY <1>1, <1>3, <1>5, <1>6, EndBlockEntries

\* generate_return_statement goes nowhere, and on in a new block.
LEMMA EndReturnEntries ==
  ASSUME TypeOK, Core, TypeOK', Core', Graph, Entries, EndReturn
  PROVE  Entries'
<1>1. PICK b : Len(frames) > 0 /\ Allocate(1) /\ b = NewBlock(0) /\ EndBlock(Return, b) /\ Pop
  BY DEF EndReturn, At
<1>2. b \in Block /\ b >= block_counter /\ current_block' = b
  BY <1>1, OneFresh, FreshAbove DEF EndBlock
<1>3. Forward(Return, 1)
  BY DEF Forward, Successors, Return, Unset, Block, NoBlock
<1>4. StepsFrom(Return)
  BY <1>1, <1>2, PopSteps
<1>. QED
  BY <1>1, <1>2, <1>3, <1>4, EndBlockEntries

\* The conditions of an if and of a short circuit.
LEMMA IfBranchEntries ==
  ASSUME TypeOK, Core, TypeOK', Core', Graph, Entries, IfBranch \/ ShortCircuitBranch
  PROVE  Entries'
<1>1. PICK at, b, c :
        /\ at \in {"if_block", "right"} /\ Len(frames) > 0 /\ Allocate(2) /\ EndBlock(Branch(b, c), b)
        /\ b = NewBlock(0) /\ c = NewBlock(1)
        /\ Replace([FrameAt(at) EXCEPT !.false_block = c])
  BY DEF IfBranch, ShortCircuitBranch, At
<1>2. b \in Fresh(2) /\ c \in Fresh(2)
  BY <1>1, TwoFresh
<1>3. b \in Block /\ c \in Block /\ b >= block_counter /\ c >= block_counter /\ current_block' = b
  BY <1>1, <1>2, FreshAbove DEF EndBlock
<1>4. PICK f : f = [FrameAt(at) EXCEPT !.false_block = c]
  OBVIOUS
<1>5. f \in Frame /\ f.at = at /\ f.false_block = c
  BY <1>1, <1>3, <1>4 DEF FrameAt, Frame, Stage, BlockOrNone
<1>6. Pending(f) = {c} /\ f.at \notin LoopStages
  BY <1>1, <1>5, PendingFacts DEF LoopStages
<1>7. PICK t : t = Branch(b, c)
  OBVIOUS
<1>8. Forward(t, 2)
  BY <1>2, <1>7, Targets DEF Forward
<1>9. StepsFrom(t)
  BY <1>1, <1>3, <1>4, <1>5, <1>6, ReplaceSteps
<1>. QED
  BY <1>1, <1>3, <1>7, <1>8, <1>9, EndBlockEntries

\* generate_if_statement goes on to its else part.
LEMMA ElseEntries ==
  ASSUME TypeOK, Core, TypeOK', Core', Graph, Entries, Else
  PROVE  Entries'
<1>1. PICK b, c : /\ Len(frames) > 0 /\ Allocate(1) /\ EndBlock(Jump(c), b)
                  /\ b = Top.false_block /\ c = NewBlock(0) /\ Top.at = "if_block"
                  /\ Replace([FrameAt("else_block") EXCEPT !.end_block = c])
  BY DEF Else, At
<1>2. c \in Fresh(1) /\ c \in Block /\ c >= block_counter
  BY <1>1, OneFresh, FreshAbove
<1>3. Pending(Top) = {b} /\ b \in Block /\ current_block' = b
  BY <1>1, TopFacts, PendingFacts DEF EndBlock
<1>4. PICK f : f = [FrameAt("else_block") EXCEPT !.end_block = c]
  OBVIOUS
<1>5. f \in Frame /\ f.at = "else_block" /\ f.end_block = c
  BY <1>2, <1>4 DEF FrameAt, Frame, Stage, BlockOrNone
<1>6. Pending(f) = {c} /\ f.at \notin LoopStages
  BY <1>5, PendingFacts DEF LoopStages
<1>7. Forward(Jump(c), 1)
  BY <1>2, Targets DEF Forward
<1>8. StepsFrom(Jump(c))
  BY <1>1, <1>2, <1>3, <1>4, <1>5, <1>6, ReplaceSteps
<1>. QED
  BY <1>1, <1>3, <1>7, <1>8, EndBlockEntries

\* A loop that begins goes to its condition, a new block, and holds newer ones.
LEMMA BeginsFacts ==
  ASSUME TypeOK, NEW f, NEW c \in Block, c = f.condition_block, c >= block_counter, current_block' = c,
         \A b \in Pending(f) : c < b
  PROVE  Begins(f, Jump(c))
BY Targets DEF Begins

\* generate_while_statement opens its loop.
LEMMA BeginWhileEntries ==
  ASSUME TypeOK, Core, TypeOK', Core', Graph, Entries, BeginWhile
  PROVE  Entries'
<1>1. PICK b, c, d :
        /\ b = NewBlock(0) /\ c = NewBlock(1) /\ d = NewBlock(2)
        /\ Len(frames) > 0 /\ Allocate(3) /\ EndBlock(Jump(b), b)
        /\ Push([FrameAt("while_condition") EXCEPT
                   !.condition_block = b, !.loop_block = c, !.end_block = d])
  BY DEF BeginWhile, AtStatement
<1>2. /\ b \in Fresh(3) /\ b \in Block /\ c \in Block /\ d \in Block
  <2>1. \A i : i \in 0 .. 3 - 1 <=> i \in {0, 1, 2}
    OBVIOUS
  <2>. QED
    BY <1>1, <2>1, FreshFacts
<1>3. b < c /\ b < d /\ b >= block_counter /\ c >= block_counter /\ d >= block_counter
  BY <1>1, BlockNumbers DEF NewBlock
<1>4. PICK f : f = [FrameAt("while_condition") EXCEPT
                      !.condition_block = b, !.loop_block = c, !.end_block = d]
  OBVIOUS
<1>5. /\ f \in Frame /\ f.condition_block = b /\ f.at = "while_condition"
      /\ f.loop_block = c /\ f.end_block = d
  BY <1>2, <1>4 DEF FrameAt, Frame, Stage, BlockOrNone
<1>6. Pending(f) = {c, d}
  BY <1>5, PendingFacts
<1>7. PICK t : t = Jump(b)
  OBVIOUS
<1>8. Forward(t, 3)
  BY <1>2, <1>7, Targets DEF Forward
<1>9. current_block' = b
  BY <1>1 DEF EndBlock
<1>10. Begins(f, t)
  BY <1>2, <1>3, <1>5, <1>6, <1>7, <1>9, BeginsFacts
<1>11. Top \in Frame /\ frames' = Append([frames EXCEPT ![Len(frames)] = Top], f)
  <2>1. Top \in Frame /\ frames' = Append(frames, f)
    BY <1>1, <1>4, TopFacts DEF Push
  <2>2. [frames EXCEPT ![Len(frames)] = Top] = frames
    BY DEF Top, TypeOK
  <2>. QED
    BY <2>1, <2>2
<1>12. \A e \in Pending(f) : e >= block_counter
  BY <1>3, <1>6
<1>13. StepsFrom(t)
  BY <1>1, <1>2, <1>3, <1>5, <1>9, <1>10, <1>11, <1>12, CallSteps
<1>. QED
  BY <1>1, <1>2, <1>7, <1>8, <1>13, EndBlockEntries

\* generate_for_statement opens its loop.
LEMMA EnterForEntries ==
  ASSUME TypeOK, Core, TypeOK', Core', Graph, Entries, EnterFor
  PROVE  Entries'
<1>1. PICK b, c, d, e :
        /\ b = NewBlock(0) /\ c = NewBlock(1) /\ d = NewBlock(2) /\ e = NewBlock(3)
        /\ Len(frames) > 0 /\ Allocate(4) /\ EndBlock(Jump(b), b)
        /\ Replace([FrameAt("for_condition") EXCEPT
                      !.condition_block = b, !.loop_block = c,
                      !.update_block = d, !.end_block = e])
  BY DEF EnterFor, At
<1>2. b \in Fresh(4) /\ b \in Block /\ c \in Block /\ d \in Block /\ e \in Block
  <2>1. \A i : i \in 0 .. 4 - 1 <=> i \in {0, 1, 2, 3}
    OBVIOUS
  <2>. QED
    BY <1>1, <2>1, FreshFacts
<1>3. /\ b < c /\ b < d /\ b < e
      /\ b >= block_counter /\ c >= block_counter /\ d >= block_counter /\ e >= block_counter
  BY <1>1, BlockNumbers DEF NewBlock
<1>4. PICK f : f = [FrameAt("for_condition") EXCEPT
                      !.condition_block = b, !.loop_block = c,
                      !.update_block = d, !.end_block = e]
  OBVIOUS
<1>5. /\ f \in Frame /\ f.condition_block = b /\ f.at = "for_condition"
      /\ f.loop_block = c /\ f.update_block = d /\ f.end_block = e
  BY <1>2, <1>4 DEF FrameAt, Frame, Stage, BlockOrNone
<1>6. Pending(f) = {c, d, e}
  BY <1>5, PendingFacts
<1>7. PICK t : t = Jump(b)
  OBVIOUS
<1>8. Forward(t, 4)
  BY <1>2, <1>7, Targets DEF Forward
<1>9. current_block' = b
  BY <1>1 DEF EndBlock
<1>10. Begins(f, t)
  BY <1>2, <1>3, <1>5, <1>6, <1>7, <1>9, BeginsFacts
<1>11. \A x \in Pending(f) : x >= block_counter
  BY <1>3, <1>6
<1>12. StepsFrom(t)
  BY <1>1, <1>2, <1>3, <1>4, <1>5, <1>9, <1>10, <1>11, ReplaceSteps
<1>. QED
  BY <1>1, <1>2, <1>7, <1>8, <1>12, EndBlockEntries

\* The condition of a loop ends: its body or its end_block comes next.
LEMMA LoopBranchEntries ==
  ASSUME TypeOK, Core, TypeOK', Core', Graph, Entries, WhileBranch \/ ForBranch
  PROVE  Entries'
<1>0. PICK at \in {"while_body", "for_body"} :
        /\ Len(frames) > 0 /\ Allocate(0)
        /\ EndBlock(Branch(Top.loop_block, Top.end_block), Top.loop_block)
        /\ Replace([Top EXCEPT !.at = at])
        /\ \/ at = "while_body" /\ Top.at = "while_condition"
           \/ at = "for_body" /\ Top.at = "for_condition"
  BY DEF WhileBranch, ForBranch, At, Goto
<1>1. PICK b, c : b = Top.loop_block /\ c = Top.end_block /\ EndBlock(Branch(b, c), b)
  BY <1>0
<1>2. Top \in Frame /\ Pending(Top) \subseteq Block
  BY <1>0, <1>1, TopFacts
<1>3. b \in Pending(Top) /\ c \in Pending(Top) /\ b \in Block /\ c \in Block
  BY <1>0, <1>1, <1>2, PendingFacts
<1>4. PICK f : f = [Top EXCEPT !.at = at]
  OBVIOUS
<1>5. /\ f \in Frame /\ f.condition_block = Top.condition_block /\ f.end_block = Top.end_block
      /\ f.update_block = Top.update_block /\ f.at = at
  BY <1>0, <1>1, <1>2, <1>4 DEF Frame, Stage
<1>6. Pending(f) \subseteq Pending(Top) /\ Top.at \in LoopStages
  BY <1>0, <1>1, <1>2, <1>5, PendingFacts DEF LoopStages
<1>7. PICK t : t = Branch(b, c)
  OBVIOUS
<1>8. Forward(t, 0)
  BY <1>0, <1>1, <1>3, <1>7, Targets, TopForward DEF Forward
<1>9. current_block' = b
  BY <1>0, <1>1 DEF EndBlock
<1>10. StepsFrom(t)
  BY <1>0, <1>1, <1>3, <1>4, <1>5, <1>6, <1>9, ReplaceSteps
<1>. QED
  BY <1>0, <1>1, <1>3, <1>7, <1>8, <1>10, EndBlockEntries

\* generate_for_update starts in the update block.
LEMMA BeginUpdateEntries ==
  ASSUME TypeOK, Core, TypeOK', Core', Graph, Entries,
         NEW child \in {"index", "source", "argument"}, BeginUpdate(child)
  PROVE  Entries'
<1>1. PICK b, f, g :
        /\ b = Top.update_block /\ f = FrameAt(child) /\ g = [Top EXCEPT !.at = "update"]
        /\ Len(frames) > 0 /\ Top.at = "for_body" /\ Allocate(0) /\ EndBlock(Jump(b), b)
        /\ frames' = Append([frames EXCEPT ![Len(frames)] = g], f)
  BY DEF BeginUpdate, At
<1>2. Top \in Frame /\ Pending(Top) \subseteq Block
  BY <1>1, TopFacts
<1>3. b \in Pending(Top) /\ b \in Block /\ Top.at \in LoopStages
  BY <1>1, <1>2, PendingFacts DEF LoopStages
<1>4. f \in Frame /\ f.at = child
  BY <1>1 DEF FrameAt, Frame, Stage, BlockOrNone
<1>5. Pending(f) = {} /\ f.at \notin LoopStages
  BY <1>4, PendingFacts DEF LoopStages
<1>6. /\ g \in Frame /\ g.condition_block = Top.condition_block /\ g.end_block = Top.end_block
      /\ g.at = "update"
  BY <1>1, <1>2 DEF Frame, Stage
<1>7. Pending(g) \subseteq Pending(Top)
  <2>1. Pending(Top) = {Top.update_block, Top.end_block}
    BY <1>1, <1>2, PendingFacts
  <2>2. Pending(g) = {g.end_block}
    BY <1>6, PendingFacts
  <2>. QED
    BY <1>6, <2>1, <2>2
<1>8. PICK t : t = Jump(b)
  OBVIOUS
<1>9. Forward(t, 0)
  BY <1>1, <1>3, <1>8, Targets, TopForward DEF Forward
<1>10. current_block' = b
  BY <1>1 DEF EndBlock
<1>11. StepsFrom(t)
  BY <1>1, <1>3, <1>4, <1>5, <1>6, <1>7, <1>10, CallSteps
<1>. QED
  BY <1>1, <1>3, <1>8, <1>9, <1>11, EndBlockEntries

\* break and continue lead out of the innermost loop, or to its next round.
LEMMA LeaveEntries ==
  ASSUME TypeOK, Core, TypeOK', Core', Loops, Graph, Sheltered, Entries, Break \/ Continue
  PROVE  Entries'
<1>1. PICK t, b : /\ Len(frames) > 0 /\ AtStatement /\ Allocate(1) /\ b = NewBlock(0)
                  /\ EndBlock(t, b) /\ frames' = frames
  BY DEF Break, Continue, AtStatement
<1>2. b \in Block /\ b >= block_counter /\ current_block' = b
  BY <1>1, OneFresh, FreshAbove DEF EndBlock
<1>3. PICK k \in 1 .. Len(frames) :
        /\ Innermost(k)
        /\ terminal'[current_block] \in {Jump(frames[k].end_block), Jump(ContinueOf(frames[k]))}
  BY LeaveIsInnermost
<1>4. t \in {Jump(frames[k].end_block), Jump(ContinueOf(frames[k]))}
  <2>1. terminal'[current_block] = t
    BY <1>1, <1>2, EndBlockPlaces
  <2>. QED
    BY <1>3, <2>1
<1>5. PICK f : f = frames[k]
  OBVIOUS
<1>6. f \in Frame /\ Pending(f) \subseteq Block /\ f.at \in {"while_body", "for_body"}
  <2>1. f.at \notin ConditionStages \cup {"update"}
    BY <1>1, <1>5, StatementsAreOutside
  <2>2. f \in Frame
    BY <1>5 DEF TypeOK
  <2>3. Pending(f) \subseteq Block
    BY <1>5 DEF Core, Placement, PendingAreBlocks
  <2>. QED
    BY <1>3, <1>5, <2>1, <2>2, <2>3 DEF Innermost, LoopStages, ConditionStages
<1>7. CASE f.at = "while_body"
  <2>1. Pending(f) = {f.end_block} /\ ContinueOf(f) = f.condition_block
    BY <1>5, <1>6, <1>7, PendingFacts DEF Sheltered, ContinueOf
  <2>. QED
    <3>1. Forward(t, 1)
      BY <1>3, <1>4, <1>5, <2>1, Targets DEF Forward
    <3>2. StepsFrom(t)
      <4>1. /\ Len(frames) \in Nat /\ Len(frames) > 0 /\ frames \in Seq(Frame)
            /\ Top = frames[Len(frames)]
        BY <1>1 DEF TypeOK, Top
      <4>. QED
        BY <1>1, <1>2, <4>1 DEF StepsFrom, KeepsBelow
    <3>. QED
      BY <1>1, <1>2, <3>1, <3>2, EndBlockEntries
<1>8. CASE f.at = "for_body"
  <2>1. Pending(f) = {f.update_block, f.end_block}
    BY <1>6, <1>8, PendingFacts
  <2>2. ContinueOf(f) = f.update_block
    BY <1>6, <2>1 DEF ContinueOf, Block, NoBlock
  <2>3. Forward(t, 1)
    BY <1>4, <1>5, <2>1, <2>2, Targets DEF Forward
  <2>4. StepsFrom(t)
    <3>1. /\ Len(frames) \in Nat /\ Len(frames) > 0 /\ frames \in Seq(Frame)
          /\ Top = frames[Len(frames)]
      BY <1>1 DEF TypeOK, Top
    <3>. QED
      BY <1>1, <1>2, <3>1 DEF StepsFrom, KeepsBelow
  <2>. QED
    BY <1>1, <1>2, <2>3, <2>4, EndBlockEntries
<1>. QED
  BY <1>6, <1>7, <1>8

\* generate_bounds_check: the block placed behind the branch goes nowhere.
LEMMA BoundsCheckEntries ==
  ASSUME TypeOK, Core, TypeOK', Core', Graph, Entries, BoundsCheck
  PROVE  Entries'
<1>1. PICK tb, fb, t, f :
        /\ tb = NewBlock(0) /\ fb = NewBlock(1) /\ t = Branch(tb, fb)
        /\ f = [Top EXCEPT !.at = "source"]
        /\ Len(frames) > 0 /\ Allocate(2) /\ Replace(f)
        /\ terminal' = [terminal EXCEPT ![current_block] = t, ![tb] = ShitYourself]
        /\ layout' = layout \o <<current_block, tb>>
        /\ current_block' = fb
        /\ Top.at = "index"
  BY DEF BoundsCheck, At, Goto
<1>2. tb \in Block /\ fb \in Block /\ tb \in Fresh(2) /\ fb \in Fresh(2)
  BY <1>1, TwoFresh
<1>3. tb >= block_counter /\ fb >= block_counter
  BY <1>2, FreshAbove
<1>4. current_block \in Block /\ current_block < block_counter
  BY <1>1, TopFacts, BlockNumbers
<1>5. PICK m \in Nat : m = Len(layout)
  BY BlockNumbers
<1>6. /\ block_counter \in Nat /\ tb \in Int
      /\ \A i \in 1 .. m : /\ layout[i] \in Block /\ layout[i] < block_counter
                           /\ layout[i] # current_block
  BY <1>2, <1>5, BlockNumbers
<1>7. tb # current_block /\ \A i \in 1 .. m : layout[i] # tb
  <2>1. ~ tb < block_counter
    BY <1>3, <1>6
  <2>. QED
    BY <1>4, <1>6, <2>1
<1>8. /\ Len(layout') = m + 2
      /\ \A i \in 1 .. m : layout'[i] = layout[i]
      /\ layout'[m + 1] = current_block /\ layout'[m + 2] = tb
  <2>1. layout \in Seq(Block) /\ <<current_block, tb>> \in Seq(Block)
    BY <1>2, <1>4 DEF TypeOK
  <2>2. Len(<<current_block, tb>>) = 2
    OBVIOUS
  <2>. QED
    BY <1>1, <1>5, <2>1, <2>2
<1>9. /\ terminal'[current_block] = t /\ terminal'[tb] = ShitYourself
      /\ \A i \in 1 .. m : terminal'[layout[i]] = terminal[layout[i]]
  BY <1>1, <1>2, <1>4, <1>6, <1>7 DEF TypeOK
<1>10. \A s \in Block : s \notin Successors(ShitYourself)
  BY DEF Successors, ShitYourself, Unset, Block, NoBlock
<1>11. PlacedWith(t)
  <2>1. block_counter' \in Nat /\ block_counter' >= block_counter
    BY <1>1, FreshFacts, <1>6, SMTT(30)
  <2>2. \A i \in m + 2 .. Len(layout') : i = m + 2
    BY <1>8
  <2>3. \A i \in m + 2 .. Len(layout') :
          /\ layout'[i] >= block_counter
          /\ \A s \in Block : s \notin Successors(terminal'[layout'[i]])
    BY <1>3, <1>8, <1>9, <1>10, <2>2
  <2>4. Len(layout') \in Nat /\ Len(layout') > m
    BY <1>8
  <2>. QED
    BY <1>5, <1>8, <1>9, <2>1, <2>3, <2>4 DEF PlacedWith
<1>12. Forward(t, 2)
  BY <1>1, <1>2, Targets DEF Forward
<1>13. LeadsTo(t)
  BY <1>1, <1>4, <1>12, ForwardLeads DEF Entries
<1>14. Top \in Frame
  BY <1>1, TopFacts
<1>15. f \in Frame /\ f.at = "source"
  BY <1>1, <1>14 DEF Frame, Stage
<1>16. Pending(f) = {} /\ f.at \notin LoopStages
  BY <1>15, PendingFacts DEF LoopStages
<1>17. StepsFrom(t)
  BY <1>1, <1>2, <1>3, <1>15, <1>16, ReplaceSteps
<1>18. HoldsFromStep /\ LoopsFromStep(t)
  BY <1>17, StepsFromTop
<1>. QED
  BY <1>4, <1>11, <1>13, <1>18, EntriesAfter

\* generate_method begins: no loop is in progress.
LEMMA BeginMethodEntries ==
  ASSUME TypeOK, Core, Entries, BeginMethod
  PROVE  Entries'
<1>1. /\ frames = <<>> /\ Push(FrameAt("block"))
      /\ UNCHANGED <<layout, methods, terminal, predecessors>>
  BY DEF BeginMethod
<1>2. \A k \in 1 .. Len(frames') : frames'[k].at \notin LoopStages
  <2>1. FrameAt("block") \in Frame /\ FrameAt("block").at = "block"
    BY DEF FrameAt, Frame, Stage, BlockOrNone
  <2>2. Len(frames) = 0
    BY <1>1
  <2>3. Len(frames') = 1 /\ frames'[1] = FrameAt("block")
    BY <1>1, <2>1, <2>2, PushFacts DEF TypeOK
  <2>. QED
    BY <2>1, <2>3 DEF LoopStages
<1>3. LoopEntries'
  BY <1>2 DEF LoopEntries
<1>4. BackEdges'
  BY <1>1 DEF Entries, BackEdges, GoesBack, GoesTo, OneEntry
<1>5. block_counter' \in Int /\ block_counter \in Int /\ block_counter' >= block_counter
  BY FreshFacts, BlockNumbers DEF BeginMethod
<1>6. SuccessorsExist'
  <2>. SUFFICES ASSUME NEW p \in 1 .. Len(layout), NEW s \in Block, GoesTo(p, s)
                PROVE  s < block_counter'
    BY <1>1 DEF SuccessorsExist, GoesTo
  <2>1. s < block_counter /\ s \in Int
    BY BlockNumbers DEF Entries, SuccessorsExist
  <2>. QED
    BY <1>5, <2>1
<1>. QED
  BY <1>3, <1>4, <1>6 DEF Entries

\* generate_method ends its last block with a return or an exit, and all loops are over.
LEMMA EndMethodEntries ==
  ASSUME TypeOK, Core, TypeOK', Core', Graph, Entries,
         NEW returns_void \in BOOLEAN, EndMethod(returns_void)
  PROVE  Entries'
<1>1. PICK t : /\ Len(frames) > 0 /\ Top.at = "block" /\ Pop
               /\ t \in {Return, ShitYourself}
               /\ terminal' = [terminal EXCEPT ![current_block] = t]
               /\ layout' = Append(layout, current_block)
               /\ block_counter' = block_counter
  BY DEF EndMethod, At
<1>2. current_block \in Block
  BY <1>1, TopFacts
<1>3. /\ Len(layout) \in Nat /\ block_counter \in Nat
      /\ \A i \in 1 .. Len(layout) : layout[i] \in Block /\ layout[i] # current_block
  BY BlockNumbers
<1>4. /\ Len(layout') = Len(layout) + 1
      /\ \A i \in 1 .. Len(layout) : layout'[i] = layout[i]
      /\ layout'[Len(layout) + 1] = current_block
  BY <1>1, <1>2 DEF TypeOK
<1>5. /\ terminal'[current_block] = t
      /\ \A i \in 1 .. Len(layout) : terminal'[layout[i]] = terminal[layout[i]]
  BY <1>1, <1>2, <1>3 DEF TypeOK
<1>6. PlacedWith(t)
  <2>1. \A i \in Len(layout) + 2 .. Len(layout') : FALSE
    BY <1>3, <1>4
  <2>2. Len(layout') \in Nat /\ Len(layout') > Len(layout) /\ block_counter' \in Nat /\ block_counter' >= block_counter
    BY <1>1, <1>3, <1>4
  <2>. QED
    BY <1>4, <1>5, <2>1, <2>2 DEF PlacedWith
<1>7. LeadsTo(t)
  BY <1>1 DEF LeadsTo, Successors, Return, ShitYourself, Unset, Block, NoBlock
<1>8. SuccessorsExist' /\ BackEdges'
  BY <1>2, <1>6, <1>7, BackAfter, NumbersAfter
<1>9. Len(frames') = 0
  <2>1. Len(frames) = 1
    BY <1>1, TopFacts
  <2>2. Len(frames') = Len(frames) - 1
    BY <1>1, PopFacts DEF TypeOK
  <2>. QED
    BY <2>1, <2>2
<1>10. LoopEntries'
  BY <1>9 DEF LoopEntries
<1>. QED
  BY <1>8, <1>10 DEF Entries

\* An empty program has no loops.
LEMMA InitEntries == Init => Entries
<1>. SUFFICES ASSUME Init PROVE Entries
  OBVIOUS
<1>1. \A i : i \notin 1 .. Len(layout) /\ i \notin 1 .. Len(frames)
  BY DEF Init
<1>. QED
  BY <1>1 DEF Entries, SuccessorsExist, BackEdges, LoopEntries

\* Every action keeps the entries.
LEMMA NextEntries ==
  IInv /\ Graph /\ Sheltered /\ Entries /\ [Next]_vars => Entries'
<1>. SUFFICES ASSUME IInv, Graph, Sheltered, Entries, [Next]_vars PROVE Entries'
  OBVIOUS
<1>1. TypeOK /\ Core /\ Loops /\ TypeOK' /\ Core'
  BY IInvTypes, NextIInv DEF IInv, Core, Loops, TypeOK
<1>2. CASE BeginMethod
  BY <1>1, <1>2, BeginMethodEntries
<1>3. ASSUME NEW returns_void \in BOOLEAN, EndMethod(returns_void) PROVE Entries'
  BY <1>1, <1>3, EndMethodEntries
<1>4. CASE \/ \E indexed \in BOOLEAN : BeginAssignment(indexed)
           \/ BeginCall \/ BeginShortCircuit \/ BeginIf \/ BeginReturn
  <2>1. PICK at \in {"index", "source", "argument", "left", "if_condition", "return_value"} :
          Push(FrameAt(at)) /\ BlocksUnchanged
    BY <1>4 DEF BeginAssignment, AssignmentFrame, BeginCall, BeginShortCircuit, BeginIf, BeginReturn
  <2>2. FrameAt(at) \in Frame /\ FrameAt(at).at = at
    BY DEF FrameAt, Frame, Stage, BlockOrNone
  <2>3. Pending(FrameAt(at)) = {} /\ FrameAt(at).at \notin LoopStages
    BY <2>2, PendingFacts DEF LoopStages
  <2>4. /\ frames' \in Seq(Frame) /\ Len(frames) \in Nat /\ Len(frames') = Len(frames) + 1
        /\ frames'[Len(frames')] = FrameAt(at)
        /\ \A k \in 1 .. Len(frames) : frames'[k] = frames[k]
    BY <1>1, <2>1, <2>2, PushFacts DEF TypeOK
  <2>5. /\ Len(frames) \in 0 .. Len(frames) /\ Len(frames) =< Len(frames')
        /\ \A k \in Len(frames) + 1 .. Len(frames') : k = Len(frames')
    BY <2>4
  <2>. QED
    BY <1>1, <2>1, <2>3, <2>4, <2>5, QuietEntries
<1>5. CASE BoundsCheck
  BY <1>1, <1>5, BoundsCheckEntries
<1>6. CASE EndAssignment \/ EndCall
  <2>1. Len(frames) > 0 /\ Pop /\ BlocksUnchanged
    BY <1>6 DEF EndAssignment, EndCall, At
  <2>2. PICK m : /\ frames' \in Seq(Frame) /\ m \in 0 .. Len(frames) /\ Len(frames') = m
                 /\ \A k \in 1 .. m : frames'[k] = frames[k]
    <3>1. /\ frames' \in Seq(Frame) /\ Len(frames') = Len(frames) - 1 /\ Len(frames) \in Nat
          /\ \A k \in 1 .. Len(frames) - 1 : frames'[k] = frames[k]
      BY <1>1, <2>1, PopFacts DEF TypeOK
    <3>2. Len(frames) - 1 \in 0 .. Len(frames)
      BY <2>1, <3>1
    <3>. QED
      BY <3>1, <3>2
  <2>3. m =< Len(frames') /\ \A k \in m + 1 .. Len(frames') : FALSE
    BY <2>2
  <2>. QED
    BY <1>1, <2>1, <2>2, <2>3, QuietEntries
<1>7. CASE ShortCircuitBranch \/ IfBranch
  BY <1>1, <1>7, IfBranchEntries
<1>8. CASE Else
  BY <1>1, <1>8, ElseEntries
<1>9. CASE EndShortCircuit \/ EndIf \/ EndElse
  BY <1>1, <1>9, EndsEntries
<1>10. CASE BeginWhile
  BY <1>1, <1>10, BeginWhileEntries
<1>11. CASE WhileBranch \/ ForBranch
  BY <1>1, <1>11, LoopBranchEntries
<1>12. CASE EndWhile \/ EndFor
  BY <1>1, <1>12, EndLoopEntries
<1>13. ASSUME NEW indexed \in BOOLEAN, BeginFor(indexed) PROVE Entries'
  <2>1. PICK f, g : frames' = frames \o <<f, g>> /\ f = FrameAt("initial") /\ g = AssignmentFrame(indexed)
    BY <1>13 DEF BeginFor
  <2>2. /\ f \in Frame /\ g \in Frame /\ f.at = "initial" /\ g.at \in {"index", "source"}
    BY <2>1 DEF AssignmentFrame, FrameAt, Frame, Stage, BlockOrNone
  <2>3. Pending(f) = {} /\ Pending(g) = {} /\ f.at \notin LoopStages /\ g.at \notin LoopStages
    BY <2>2, PendingFacts DEF LoopStages
  <2>4. /\ Len(frames) \in Nat /\ Len(frames') = Len(frames) + 2 /\ frames' \in Seq(Frame)
        /\ \A k \in 1 .. Len(frames) : frames'[k] = frames[k]
        /\ frames'[Len(frames) + 1] = f /\ frames'[Len(frames) + 2] = g
    BY <1>1, <2>1, <2>2 DEF TypeOK
  <2>5. /\ Len(frames) \in 0 .. Len(frames) /\ Len(frames) =< Len(frames')
        /\ \A k \in Len(frames) + 1 .. Len(frames') : k = Len(frames) + 1 \/ k = Len(frames) + 2
    BY <2>4
  <2>6. BlocksUnchanged
    BY <1>13 DEF BeginFor
  <2>. QED
    BY <1>1, <2>3, <2>4, <2>5, <2>6, QuietEntries
<1>14. CASE EnterFor
  BY <1>1, <1>14, EnterForEntries
<1>15. ASSUME NEW child \in {"index", "source", "argument"}, BeginUpdate(child) PROVE Entries'
  BY <1>1, <1>15, BeginUpdateEntries
<1>16. CASE EndReturn
  BY <1>1, <1>16, EndReturnEntries
<1>17. CASE Break \/ Continue
  BY <1>1, <1>17, LeaveEntries
<1>18. CASE UNCHANGED vars
  BY <1>18 DEF vars, Entries, SuccessorsExist, BackEdges, LoopEntries, EntryOf, OneEntry, GoesBack,
               GoesTo, IsPlaced
<1>. QED
  BY <1>2, <1>3, <1>4, <1>5, <1>6, <1>7, <1>8, <1>9, <1>10, <1>11, <1>12, <1>13,
     <1>14, <1>15, <1>16, <1>17, <1>18 DEF Next

\* In every reachable state loops are entered through their conditions.
THEOREM EntriesInvariance == Spec => [](IInv /\ Graph /\ Closed /\ Sheltered /\ Entries)
<1>1. Init => IInv /\ Graph /\ Closed /\ Sheltered /\ Entries
  BY InitIInv, InitGraph, InitLeaving, InitEntries
<1>2. IInv /\ Graph /\ Closed /\ Sheltered /\ Entries /\ [Next]_vars
        => (IInv /\ Graph /\ Closed /\ Sheltered /\ Entries)'
  BY NextIInv, NextGraph, NextSheltered, NextEntries
<1>. QED
  BY <1>1, <1>2, PTL DEF Spec

\* An edge from before a loop into it would go to a block younger than the condition,
\* and one from behind it is not there.
LEMMA EntriesMeanOneEntry ==
  ASSUME TypeOK, Core, MethodsInLayout, BackEdges, NEW m \in 1 .. Len(methods),
         NEW back \in Edges(m), NEW e \in Edges(m), back[2] =< back[1],
         e[2] \in (back[2] + 1) .. back[1]
  PROVE  e[1] \in back[2] .. back[1]
<1>1. PICK i, j, p, q : i = back[1] /\ j = back[2] /\ p = e[1] /\ q = e[2]
  OBVIOUS
<1>2. /\ i \in 1 .. Len(layout) /\ j \in 1 .. Len(layout) /\ GoesTo(i, layout[j])
      /\ p \in 1 .. Len(layout) /\ q \in 1 .. Len(layout) /\ GoesTo(p, layout[q])
  BY <1>1, PositionsOfMethod DEF Edges, GoesTo
<1>3. GoesBack(i, j)
  BY <1>1, <1>2 DEF GoesBack
<1>4. OneEntry(i, j)
  BY <1>2, <1>3 DEF BackEdges
<1>5. layout[q] \in Int /\ layout[j] \in Int /\ layout[q] \in Block
  BY <1>2, BlockNumbers
<1>6. layout[q] > layout[j]
  BY <1>1, <1>4 DEF OneEntry
<1>7. ~ p \in 1 .. j - 1
  BY <1>2, <1>4, <1>5, <1>6 DEF OneEntry
<1>8. ~ p \in i + 1 .. Len(layout)
  BY <1>1, <1>2, <1>4 DEF OneEntry
<1>9. p \in j .. i
  BY <1>2, <1>7, <1>8
<1>. QED
  BY <1>1, <1>9

\* In a program of any size, whatever jumps backwards to a block h from a later block
\* l, no edge from outside h..l leads into h..l except to h: loops are entered only
\* through the condition that generate_while_statement and generate_for_statement place
\* in front of their body, whatever break, continue and return do inside.
THEOREM LoopsHaveTheirEntry == Spec => []LoopsHaveOneEntry
<1>1. IInv /\ Closed /\ Entries => LoopsHaveOneEntry
  <2>. SUFFICES ASSUME IInv, Closed, Entries PROVE LoopsHaveOneEntry
    OBVIOUS
  <2>1. TypeOK /\ Core /\ MethodsInLayout /\ BackEdges
    BY IInvTypes DEF IInv, Closed, Entries
  <2>. QED
    BY <2>1, EntriesMeanOneEntry DEF LoopsHaveOneEntry
<1>. QED
  BY <1>1, EntriesInvariance, PTL
===============================================================================
