--------------------- MODULE DeadCodeElimination_proofs ---------------------
(***************************************************************************)
(* Proofs about DeadCodeElimination, for programs, sets of fields and       *)
(* blocks of any size: the sets that the pass grows are closed under uses   *)
(* when it starts to prune, and the pass implements Elimination.            *)
(***************************************************************************)
EXTENDS DeadCodeElimination, FiniteSetTheorems, WellFoundedInduction, TLAPS

\* The assignments that the present pass over the program has visited.
Passed(b, i) == b < block_index \/ (b = block_index /\ i =< assignment_index)

\* What the visited assignments to counted fields read is live.
UsesAdded(counted) ==
  \A b \in DOMAIN blocks : Of(b) =>
    \A i \in DOMAIN Assignments(b) :
      Passed(b, i) /\ Assignments(b)[i].destination \in counted
        => FieldsIn(Assignments(b)[i].operands) \subseteq live

\* A program, apart from the state.
IsProgram(p) ==
  /\ IsSequence(p)
  /\ \A b \in DOMAIN p : IsBlock(p[b]) /\ Len(p[b].assignments) < IndexModulus

Typed == IsProgram(blocks) /\ TypeOK

\* The pass over the program began with the counted fields.
Growing ==
  phase = "closure" =>
    /\ Running
    /\ Roots \subseteq live
    /\ \E counted \in SUBSET live :
         Cardinality(counted) = prev_live_count /\ UsesAdded(counted)

\* No field becomes live that could do without.
Wanted == phase = "closure" => \A S : ClosedUnderUses(S) => live \subseteq S

\* Pruning leaves nothing dead behind.
Cut ==
  phase = "prune" =>
    \A b \in DOMAIN blocks : Of(b) =>
      \A i \in DOMAIN Assignments(b) : Passed(b, i) => Survives(Assignments(b)[i])

IInv == Typed /\ Growing /\ Wanted /\ LiveIsClosed /\ Cut

-----------------------------------------------------------------------------
(* Numbers, sequences and finite sets *)

\* A non-empty set of naturals has a least element.
LEMMA LeastElement ==
  ASSUME NEW S \in SUBSET Nat, NEW e \in S
  PROVE  \E d \in S : \A c \in S : d =< c
<1>1. PICK d \in S : \A c \in S : <<c, d>> \notin OpToRel(<, Nat)
  BY WFMin, NatLessThanWellFounded, Zenon
<1>2. \A c \in S : ~ c < d
  BY <1>1, Zenon DEF OpToRel
<1>. QED
  BY <1>2

\* A sequence has a length and is a function on its indexes.
LEMMA SequenceFacts ==
  ASSUME NEW s, IsSequence(s)
  PROVE  \E n \in Nat : n = Len(s) /\ DOMAIN s = 1 .. n /\ s = [i \in 1 .. n |-> s[i]]
<1>. DEFINE S == {s[i] : i \in DOMAIN s}
<1>1. s \in Seq(S)
  BY DEF IsSequence
<1>. HIDE DEF S
<1>. QED
  BY <1>1

\* A function on 1 .. n is a sequence.
LEMMA FunctionIsSeq ==
  ASSUME NEW S, NEW n \in Nat, NEW f \in [1 .. n -> S]
  PROVE  f \in Seq(S) /\ Len(f) = n
OBVIOUS

LEMMA FunctionIsSequence ==
  ASSUME NEW n \in Nat, NEW f, DOMAIN f = 1 .. n, f = [i \in 1 .. n |-> f[i]]
  PROVE  IsSequence(f) /\ Len(f) = n
<1>. DEFINE S == {f[i] : i \in DOMAIN f}
<1>1. f \in [1 .. n -> S]
  OBVIOUS
<1>2. f \in Seq(S) /\ Len(f) = n
  <2>. HIDE DEF S
  <2>. QED
    BY <1>1, FunctionIsSeq
<1>. QED
  BY <1>2 DEF IsSequence

\* The image of a finite set is finite.
LEMMA FiniteImage ==
  ASSUME NEW S, IsFiniteSet(S), NEW f
  PROVE  IsFiniteSet({f[x] : x \in S}) /\ Cardinality({f[x] : x \in S}) =< Cardinality(S)
<1>. DEFINE T == {f[x] : x \in S}
            g == [x \in S |-> f[x]]
<1>1. g \in Surjection(S, T)
  BY DEF Surjection
<1>. QED
  BY <1>1, FS_Surjection

\* The fields among the operands are finitely many.
LEMMA FieldsInFinite ==
  ASSUME NEW operands, IsSequence(operands)
  PROVE  IsFiniteSet(FieldsIn(operands))
<1>1. PICK n \in Nat : DOMAIN operands = 1 .. n
  BY SequenceFacts
<1>. DEFINE S == {j \in DOMAIN operands : IsField(operands[j])}
            f == [i \in S |-> operands[i].field]
<1>2. IsFiniteSet(S)
  <2>1. IsFiniteSet(1 .. n)
    BY FS_Interval
  <2>2. S \subseteq 1 .. n
    BY <1>1
  <2>. QED
    BY <2>1, <2>2, FS_Subset
<1>3. FieldsIn(operands) = {f[i] : i \in S}
  BY DEF FieldsIn
<1>. HIDE DEF S, f
<1>. QED
  BY <1>2, <1>3, FiniteImage

-----------------------------------------------------------------------------
(* The least set that holds the roots and is closed under uses *)

\* What the assignments to fields of S read.
ReadFor(assignments, S) ==
  UNION {FieldsIn(a.operands) : a \in {d \in assignments : d.destination \in S}}

Grown(assignments, S) == S \cup ReadFor(assignments, S)

\* The rounds in which Elimination's Needed grows.
Rounds(roots, assignments, n, w) ==
  w = [k \in 0 .. n |-> IF k = 0 THEN roots ELSE Grown(assignments, w[k - 1])]

LEMMA RoundsExist ==
  ASSUME NEW roots, NEW assignments, NEW n \in Nat
  PROVE  \E w : Rounds(roots, assignments, n, w)
<1>. DEFINE Without == {k \in Nat : ~ \E w : Rounds(roots, assignments, k, w)}
<1>. SUFFICES ASSUME n \in Without PROVE FALSE
  OBVIOUS
<1>1. PICK k \in Without : \A j \in Without : k =< j
  <2>1. Without \in SUBSET Nat
    OBVIOUS
  <2>. HIDE DEF Without
  <2>. QED
    BY <2>1, LeastElement
<1>2. CASE k = 0
  <2>. DEFINE c == [m \in 0 .. 0 |-> roots]
  <2>1. Rounds(roots, assignments, 0, c)
    BY DEF Rounds
  <2>. QED
    BY <2>1, <1>2
<1>3. CASE k > 0
  <2>1. PICK c : Rounds(roots, assignments, k - 1, c)
    BY <1>1, <1>3
  <2>. DEFINE d == [m \in 0 .. k |->
                      IF m = k THEN Grown(assignments, c[k - 1]) ELSE c[m]]
  <2>2. \A m \in 0 .. k :
          d[m] = IF m = 0 THEN roots ELSE Grown(assignments, d[m - 1])
    BY <2>1, <1>3 DEF Rounds
  <2>3. d = [m \in 0 .. k |-> IF m = 0 THEN roots
                              ELSE Grown(assignments, d[m - 1])]
    BY <2>2
  <2>4. Rounds(roots, assignments, k, d)
    BY <2>3 DEF Rounds
  <2>. QED
    BY <2>4
<1>. QED
  BY <1>2, <1>3

LEMMA RoundFacts ==
  ASSUME NEW roots, NEW assignments, NEW n \in Nat, NEW w, Rounds(roots, assignments, n, w)
  PROVE  /\ w[0] = roots
         /\ \A k \in Nat : 0 < k /\ k =< n =>
              w[k] = w[k - 1] \cup ReadFor(assignments, w[k - 1])
<1>1. w[0] = roots /\ \A k \in 1 .. n : w[k] = Grown(assignments, w[k - 1])
  BY DEF Rounds
<1>. QED
  BY <1>1 DEF Grown

\* What a set reads is read for every set that contains it.
LEMMA ReadForMonotone ==
  ASSUME NEW assignments, NEW S, NEW T, S \subseteq T
  PROVE  ReadFor(assignments, S) \subseteq ReadFor(assignments, T)
BY DEF ReadFor

\* No round leaves a closed set that holds the roots.
LEMMA RoundsAreLeast ==
  ASSUME NEW roots, NEW assignments, NEW n \in Nat, NEW w, Rounds(roots, assignments, n, w),
         NEW S, roots \subseteq S, ReadFor(assignments, S) \subseteq S
  PROVE  w[n] \subseteq S
<1>. DEFINE Outside == {k \in Nat : k =< n /\ ~ w[k] \subseteq S}
<1>. SUFFICES ASSUME n \in Outside PROVE FALSE
  OBVIOUS
<1>1. PICK k \in Outside : \A j \in Outside : k =< j
  <2>1. Outside \in SUBSET Nat
    OBVIOUS
  <2>. HIDE DEF Outside
  <2>. QED
    BY <2>1, LeastElement
<1>2. k # 0
  BY RoundFacts
<1>3. w[k - 1] \subseteq S
  BY <1>1, <1>2
<1>4. w[k] = w[k - 1] \cup ReadFor(assignments, w[k - 1])
  BY RoundFacts, <1>2
<1>5. ReadFor(assignments, w[k - 1]) \subseteq S
  BY <1>3, ReadForMonotone
<1>. QED
  BY <1>3, <1>4, <1>5

\* Once a round is closed, no later one adds anything.
LEMMA ClosedRoundsStay ==
  ASSUME NEW roots, NEW assignments, NEW n \in Nat, NEW w, Rounds(roots, assignments, n, w),
         NEW j \in 0 .. n, ReadFor(assignments, w[j]) \subseteq w[j]
  PROVE  w[n] = w[j]
<1>. DEFINE Other == {k \in Nat : j =< k /\ k =< n /\ w[k] # w[j]}
<1>. SUFFICES ASSUME n \in Other PROVE FALSE
  OBVIOUS
<1>1. PICK k \in Other : \A i \in Other : k =< i
  <2>1. Other \in SUBSET Nat
    OBVIOUS
  <2>. HIDE DEF Other
  <2>. QED
    BY <2>1, LeastElement
<1>2. k > j
  OBVIOUS
<1>3. w[k - 1] = w[j]
  BY <1>1, <1>2
<1>4. w[k] = w[k - 1] \cup ReadFor(assignments, w[k - 1])
  BY RoundFacts, <1>2
<1>. QED
  BY <1>3, <1>4

\* A round that is not closed has one more assignment to add the uses of than there
\* were rounds before it: as many rounds as there are assignments reach the fixpoint.
LEMMA RoundsReachFixpoint ==
  ASSUME NEW roots, NEW assignments, IsFiniteSet(assignments), NEW w,
         Rounds(roots, assignments, Cardinality(assignments), w)
  PROVE  LET S == w[Cardinality(assignments)]
         IN  roots \subseteq S /\ ReadFor(assignments, S) \subseteq S
<1>1. PICK n \in Nat : n = Cardinality(assignments)
  BY FS_CardinalityType
<1>2. Rounds(roots, assignments, n, w)
  BY <1>1
<1>. HIDE DEF Rounds
<1>3. w[0] = roots
  BY <1>2, RoundFacts
<1>4. \A k \in Nat : 0 < k /\ k =< n => w[k] = w[k - 1] \cup ReadFor(assignments, w[k - 1])
  BY <1>2, RoundFacts
<1>5. roots \subseteq w[n]
  <2>. DEFINE Short == {k \in Nat : k =< n /\ ~ roots \subseteq w[k]}
  <2>. SUFFICES ASSUME n \in Short PROVE FALSE
    OBVIOUS
  <2>1. PICK k \in Short : \A j \in Short : k =< j
    <3>1. Short \in SUBSET Nat
      OBVIOUS
    <3>. HIDE DEF Short
    <3>. QED
      BY <3>1, LeastElement
  <2>2. k # 0
    BY <1>3
  <2>3. w[k] = w[k - 1] \cup ReadFor(assignments, w[k - 1])
    BY <1>4, <2>2
  <2>. QED
    BY <2>1, <2>2, <2>3
<1>6. ReadFor(assignments, w[n]) \subseteq w[n]
  <2>. SUFFICES ASSUME ~ ReadFor(assignments, w[n]) \subseteq w[n] PROVE FALSE
    OBVIOUS
  <2>1. \A k \in 0 .. n : ~ ReadFor(assignments, w[k]) \subseteq w[k]
    BY <1>2, ClosedRoundsStay
  <2>. DEFINE Active(k) == {d \in assignments : d.destination \in w[k]}
  <2>2. \A k : IsFiniteSet(Active(k)) /\ Cardinality(Active(k)) \in Nat
                 /\ Cardinality(Active(k)) =< n
    BY <1>1, FS_Subset, FS_CardinalityType
  <2>. DEFINE Few == {k \in Nat : k =< n /\ Cardinality(Active(k)) =< k}
  <2>3. n \in Few
    BY <2>2, SMTT(30)
  <2>4. PICK k \in Few : \A j \in Few : k =< j
    <3>1. Few \in SUBSET Nat
      OBVIOUS
    <3>. HIDE DEF Few
    <3>. QED
      BY <2>3, <3>1, LeastElement
  <2>5. CASE k = 0
    <3>1. Active(0) = {}
      <4>. HIDE DEF Active
      <4>. QED
        BY <2>2, <2>5, FS_EmptySet
    <3>2. ReadFor(assignments, w[0]) = {}
      BY <3>1 DEF ReadFor
    <3>. QED
      BY <3>2, <2>1
  <2>6. CASE k > 0
    <3>1. w[k] = w[k - 1] \cup ReadFor(assignments, w[k - 1])
      BY <1>4, <2>6
    <3>2. Active(k - 1) \subseteq Active(k)
      BY <3>1
    <3>3. Cardinality(Active(k - 1)) > k - 1
      <4>. HIDE DEF Active
      <4>. QED
        BY <2>2, <2>4, <2>6
    <3>4. Active(k - 1) = Active(k)
      <4>. HIDE DEF Active
      <4>1. Cardinality(Active(k)) =< k
        OBVIOUS
      <4>2. Cardinality(Active(k - 1)) =< Cardinality(Active(k))
        BY <2>2, <3>2, FS_Subset
      <4>3. Cardinality(Active(k)) = Cardinality(Active(k - 1))
        BY <2>2, <2>6, <3>3, <4>1, <4>2
      <4>. QED
        BY <2>2, <3>2, <4>3, FS_Subset
    <3>5. ReadFor(assignments, w[k]) = ReadFor(assignments, w[k - 1])
      BY <3>4 DEF ReadFor
    <3>6. ~ ReadFor(assignments, w[k]) \subseteq w[k]
      BY <2>1
    <3>. HIDE DEF Active, Few
    <3>. QED
      BY <3>1, <3>5, <3>6, Zenon
  <2>. QED
    BY <2>5, <2>6
<1>. QED
  BY <1>1, <1>5, <1>6

-----------------------------------------------------------------------------
(* Elimination's fields are those of the pass *)

\* The assignments of the method that the pass is at.
MethodAssignments ==
  UNION {{Assignments(b)[i] : i \in DOMAIN Assignments(b)} : b \in {c \in DOMAIN blocks : Of(c)}}

LEMMA SameAssignments ==
  ASSUME phase # "prune"
  PROVE  Promise!AssignmentsOfMethod = MethodAssignments
BY DEF Promise!AssignmentsOfMethod, Promise!OfMethod, MethodAssignments, Of, Assignments

LEMMA SameRoots ==
  ASSUME phase # "prune"
  PROVE  Promise!Observed = Roots
<1>. DEFINE Here == {c \in DOMAIN blocks : Of(c)}
            Calls == {d \in MethodAssignments : d.type = "method_call"}
<1>1. Promise!Observed =
        Globals
        \cup (UNION {blocks[b].arrays \cup FieldsIn(blocks[b].terminal.operands) : b \in Here})
        \cup UNION {FieldsIn(a.operands) : a \in Calls}
  BY SameAssignments DEF Promise!Observed, Promise!OfMethod, Of, Promise!FieldsIn, FieldsIn,
     Promise!IsField, IsField
<1>2. UNION {FieldsIn(a.operands) : a \in Calls} = UNION {CallArguments(b) : b \in Here}
  BY DEF MethodAssignments, CallArguments, Assignments
<1>. QED
  <2>1. \A x : x \in Roots <=>
              \/ x \in Globals
              \/ \E b \in Here : \/ x \in blocks[b].arrays
                                \/ x \in FieldsIn(blocks[b].terminal.operands)
                                \/ x \in CallArguments(b)
    BY DEF Roots
  <2>2. \A x : x \in Promise!Observed <=>
              \/ x \in Globals
              \/ \E b \in Here : \/ x \in blocks[b].arrays
                                \/ x \in FieldsIn(blocks[b].terminal.operands)
                                \/ x \in CallArguments(b)
    <3>1. TAKE x
    <3>. DEFINE U == UNION {blocks[b].arrays \cup FieldsIn(blocks[b].terminal.operands) : b \in Here}
                V == UNION {CallArguments(b) : b \in Here}
    <3>2. x \in U <=> \E b \in Here : \/ x \in blocks[b].arrays
                                       \/ x \in FieldsIn(blocks[b].terminal.operands)
      OBVIOUS
    <3>3. x \in V <=> \E b \in Here : x \in CallArguments(b)
      OBVIOUS
    <3>4. Promise!Observed = Globals \cup U \cup V
      BY <1>1, <1>2
    <3>. HIDE DEF Here, U, V
    <3>5. x \in Promise!Observed <=> x \in Globals \/ x \in U \/ x \in V
      BY <3>4
    <3>. QED
      BY <3>2, <3>3, <3>5
  <2>. QED
    BY <2>1, <2>2

LEMMA NeededInRounds ==
  ASSUME phase # "prune"
  PROVE  LET n == Cardinality(MethodAssignments)
         IN  \E w : Promise!Needed = w[n]
                    /\ (n \in Nat => Rounds(Roots, MethodAssignments, n, w))
<1>. DEFINE as == Promise!AssignmentsOfMethod
            n == Cardinality(as)
            f == CHOOSE w : Rounds(Promise!Observed, as, n, w)
<1>1. Promise!Needed = f[n]
  BY Zenon DEF Promise!Needed, Promise!FieldsIn, FieldsIn, Promise!IsField, IsField,
     Promise!Cardinality, Cardinality, Rounds, Grown, ReadFor
<1>2. n \in Nat => Rounds(Promise!Observed, as, n, f)
  <2>. HIDE DEF as, n
  <2>. QED
    BY RoundsExist, Zenon
<1>. QED
  BY <1>1, <1>2, SameAssignments, SameRoots

-----------------------------------------------------------------------------
(* The program *)

\* Blocks and their assignments are sequences.
LEMMA ProgramFacts ==
  ASSUME NEW p, IsProgram(p)
  PROVE  /\ Len(p) \in Nat /\ DOMAIN p = 1 .. Len(p)
         /\ \A b \in DOMAIN p :
              /\ IsBlock(p[b])
              /\ IsSequence(p[b].assignments)
              /\ Len(p[b].assignments) \in Nat
              /\ DOMAIN p[b].assignments = 1 .. Len(p[b].assignments)
              /\ Len(p[b].assignments) < IndexModulus
<1>1. \A s : IsSequence(s) => Len(s) \in Nat /\ DOMAIN s = 1 .. Len(s)
  BY SequenceFacts
<1>. QED
  BY <1>1 DEF IsProgram, IsBlock

\* The fields that calls in a block pass on are finitely many.
LEMMA CallArgumentsFinite ==
  ASSUME IsProgram(blocks), NEW b \in DOMAIN blocks
  PROVE  IsFiniteSet(CallArguments(b))
<1>. DEFINE S == {j \in DOMAIN Assignments(b) : Assignments(b)[j].type = "method_call"}
            f == [i \in S |-> FieldsIn(Assignments(b)[i].operands)]
            T == {f[i] : i \in S}
<1>1. IsFiniteSet(S)
  <2>1. S \subseteq 1 .. Len(blocks[b].assignments) /\ Len(blocks[b].assignments) \in Nat
    BY ProgramFacts DEF Assignments
  <2>2. IsFiniteSet(1 .. Len(blocks[b].assignments))
    BY <2>1, FS_Interval
  <2>. HIDE DEF S
  <2>. QED
    BY <2>1, <2>2, FS_Subset
<1>2. \A i \in S : IsFiniteSet(f[i])
  BY FieldsInFinite DEF IsProgram, IsBlock, IsAssignment, Assignments
<1>3. CallArguments(b) = UNION T
  BY DEF CallArguments
<1>. HIDE DEF f, S
<1>4. IsFiniteSet(T)
  BY <1>1, FiniteImage
<1>. QED
  BY <1>2, <1>3, <1>4, FS_UNION

\* So is the set that live_set starts from.
LEMMA RootsFinite ==
  ASSUME IsProgram(blocks)
  PROVE  IsFiniteSet(Roots)
<1>. DEFINE S == {c \in DOMAIN blocks : Of(c)}
            f == [b \in S |-> blocks[b].arrays \cup CallArguments(b)
                                \cup FieldsIn(blocks[b].terminal.operands)]
            T == {f[b] : b \in S}
<1>1. IsFiniteSet(S)
  <2>1. S \subseteq 1 .. Len(blocks) /\ Len(blocks) \in Nat
    BY ProgramFacts
  <2>2. IsFiniteSet(1 .. Len(blocks))
    BY <2>1, FS_Interval
  <2>. HIDE DEF S
  <2>. QED
    BY <2>1, <2>2, FS_Subset
<1>2. \A b \in S : IsFiniteSet(f[b])
  <2>. TAKE b \in S
  <2>1. IsFiniteSet(blocks[b].arrays) /\ IsFiniteSet(FieldsIn(blocks[b].terminal.operands))
    BY FieldsInFinite DEF IsProgram, IsBlock
  <2>2. IsFiniteSet(CallArguments(b))
    BY CallArgumentsFinite
  <2>3. IsFiniteSet(blocks[b].arrays \cup CallArguments(b))
    BY <2>1, <2>2, FS_Union
  <2>4. IsFiniteSet(blocks[b].arrays \cup CallArguments(b)
                      \cup FieldsIn(blocks[b].terminal.operands))
    BY <2>1, <2>3, FS_Union
  <2>. QED
    BY <2>4
<1>3. Roots = Globals \cup UNION T
  BY DEF Roots
<1>. HIDE DEF f, S
<1>4. IsFiniteSet(T)
  BY <1>1, FiniteImage
<1>5. IsFiniteSet(UNION T)
  BY <1>2, <1>4, FS_UNION
<1>. HIDE DEF T
<1>. QED
  BY <1>3, <1>5, FS_Union, ProgramsAssumption

\* And the method's assignments are finitely many.
LEMMA MethodAssignmentsFinite ==
  ASSUME IsProgram(blocks)
  PROVE  IsFiniteSet(MethodAssignments)
<1>. DEFINE S == {c \in DOMAIN blocks : Of(c)}
            f == [b \in S |-> {Assignments(b)[i] : i \in DOMAIN Assignments(b)}]
            T == {f[b] : b \in S}
<1>1. IsFiniteSet(S)
  <2>1. S \subseteq 1 .. Len(blocks) /\ Len(blocks) \in Nat
    BY ProgramFacts
  <2>2. IsFiniteSet(1 .. Len(blocks))
    BY <2>1, FS_Interval
  <2>. HIDE DEF S
  <2>. QED
    BY <2>1, <2>2, FS_Subset
<1>2. \A b \in S : IsFiniteSet(f[b])
  <2>. TAKE b \in S
  <2>1. Len(blocks[b].assignments) \in Nat
         /\ DOMAIN Assignments(b) = 1 .. Len(blocks[b].assignments)
    BY ProgramFacts DEF Assignments
  <2>2. IsFiniteSet(DOMAIN Assignments(b))
    BY <2>1, FS_Interval
  <2>. QED
    BY <2>2, FiniteImage
<1>3. MethodAssignments = UNION T
  BY DEF MethodAssignments
<1>. HIDE DEF f, S
<1>4. IsFiniteSet(T)
  BY <1>1, FiniteImage
<1>. QED
  BY <1>2, <1>3, <1>4, FS_UNION

\* The fields that Elimination needs are the least set that is closed as LiveIsClosed
\* says, so that they are live_set if that is closed and holds nothing else.
LEMMA NeededIsLeastClosed ==
  ASSUME IsProgram(blocks), phase # "prune"
  PROVE  /\ ClosedUnderUses(Promise!Needed)
         /\ \A S : ClosedUnderUses(S) => Promise!Needed \subseteq S
<1>. DEFINE n == Cardinality(MethodAssignments)
<1>1. n \in Nat
  BY MethodAssignmentsFinite, FS_CardinalityType
<1>2. PICK w : Promise!Needed = w[n] /\ Rounds(Roots, MethodAssignments, n, w)
  BY <1>1, NeededInRounds
<1>3. \A S : ReadFor(MethodAssignments, S) \subseteq S /\ Roots \subseteq S <=> ClosedUnderUses(S)
  BY DEF ReadFor, MethodAssignments, ClosedUnderUses
<1>4. ClosedUnderUses(w[n])
  BY <1>2, <1>3, RoundsReachFixpoint, MethodAssignmentsFinite
<1>5. \A S : ClosedUnderUses(S) => w[n] \subseteq S
  BY <1>1, <1>2, <1>3, RoundsAreLeast, ZenonT(40)
<1>. QED
  BY <1>2, <1>4, <1>5

-----------------------------------------------------------------------------
(* What prune_dead_variables does to a block *)

Removed(s, i) == SubSeq(s, 1, i - 1) \o SubSeq(s, i + 1, Len(s))

LEMMA RemovedFacts ==
  ASSUME NEW s, IsSequence(s), NEW i \in 1 .. Len(s)
  PROVE  /\ IsSequence(Removed(s, i))
         /\ Len(Removed(s, i)) = Len(s) - 1
         /\ DOMAIN Removed(s, i) = 1 .. Len(s) - 1
         /\ \A k \in 1 .. Len(s) - 1 : Removed(s, i)[k] = IF k < i THEN s[k] ELSE s[k + 1]
<1>. DEFINE S == {s[k] : k \in DOMAIN s}
<1>1. s \in Seq(S)
  BY DEF IsSequence
<1>. HIDE DEF S
<1>2. PICK n \in Nat : n = Len(s) /\ DOMAIN s = 1 .. n
  BY SequenceFacts
<1>. DEFINE f == SubSeq(s, 1, i - 1)
            g == SubSeq(s, i + 1, n)
            r == f \o g
<1>3. /\ f \in Seq(S) /\ Len(f) = i - 1
      /\ \A k \in 1 .. i - 1 : f[k] = s[k]
  BY <1>1, <1>2
<1>4. /\ g \in Seq(S) /\ Len(g) = n - i
      /\ \A k \in 1 .. n - i : g[k] = s[k + i]
  BY <1>1, <1>2
<1>. HIDE DEF f, g
<1>5. /\ r \in Seq(S) /\ Len(r) = n - 1 /\ DOMAIN r = 1 .. n - 1
      /\ r = [k \in 1 .. n - 1 |-> r[k]]
  <2>1. r \in Seq(S)
    BY <1>3, <1>4
  <2>2. Len(r) = n - 1
    <3>1. f \in Seq(S) /\ g \in Seq(S)
      BY <1>3, <1>4
    <3>2. Len(r) = Len(f) + Len(g)
      BY <3>1
    <3>. QED
      BY <1>2, <1>3, <1>4, <3>2
  <2>. HIDE DEF r
  <2>. QED
    BY <1>2, <2>1, <2>2
<1>6. \A k \in 1 .. n - 1 : r[k] = IF k < i THEN s[k] ELSE s[k + 1]
  <2>. TAKE k \in 1 .. n - 1
  <2>1. CASE k < i
    <3>1. r[k] = f[k]
      BY <1>2, <1>3, <1>4, <2>1
    <3>. QED
      BY <1>2, <1>3, <2>1, <3>1
  <2>2. CASE ~ k < i
    <3>1. r[k] = g[k - (i - 1)]
      BY <1>2, <1>3, <1>4, <2>2
    <3>2. k - (i - 1) \in 1 .. n - i
      BY <1>2, <2>2
    <3>3. g[k - (i - 1)] = s[k - (i - 1) + i]
      BY <1>4, <3>2
    <3>. QED
      BY <1>2, <2>2, <3>1, <3>3
  <2>. QED
    BY <2>1, <2>2
<1>7. Removed(s, i) = r
  BY <1>2 DEF Removed, f, g
<1>8. IsSequence(r) /\ Len(r) = n - 1
  <2>. HIDE DEF r
  <2>1. n - 1 \in Nat
    BY <1>2
  <2>. QED
    BY <1>5, <2>1, FunctionIsSequence
<1>. QED
  <2>. HIDE DEF r
  <2>. QED
    BY <1>2, <1>5, <1>6, <1>7, <1>8

\* A program that differs in the assignments of one block.
Replaced(p, b, s, q) ==
  /\ DOMAIN q = DOMAIN p
  /\ q = [c \in DOMAIN p |-> q[c]]
  /\ \A c \in DOMAIN p :
       /\ q[c].method = p[c].method /\ q[c].arrays = p[c].arrays
       /\ q[c].terminal = p[c].terminal /\ q[c].predecessors = p[c].predecessors
       /\ q[c].assignments = IF c = b THEN s ELSE p[c].assignments
       /\ q[c] = [method |-> p[c].method, arrays |-> p[c].arrays,
                  assignments |-> q[c].assignments, terminal |-> p[c].terminal,
                  predecessors |-> p[c].predecessors]

LEMMA ReplacedBlock ==
  ASSUME NEW p, IsProgram(p), NEW b \in DOMAIN p, NEW s
  PROVE  Replaced(p, b, s, [p EXCEPT ![b].assignments = s])
<1>. SUFFICES ASSUME NEW q, q = [p EXCEPT ![b].assignments = s]
              PROVE  Replaced(p, b, s, q)
  OBVIOUS
<1>1. \A c \in DOMAIN p :
        p[c] = [method |-> p[c].method, arrays |-> p[c].arrays,
                assignments |-> p[c].assignments, terminal |-> p[c].terminal,
                predecessors |-> p[c].predecessors]
  BY DEF IsProgram, IsBlock
<1>2. p = [c \in DOMAIN p |-> p[c]]
  BY SequenceFacts DEF IsProgram
<1>3. q = [c \in DOMAIN p |-> IF c = b THEN [p[b] EXCEPT !.assignments = s] ELSE p[c]]
  BY <1>2
<1>4. [p[b] EXCEPT !.assignments = s] =
        [method |-> p[b].method, arrays |-> p[b].arrays, assignments |-> s,
         terminal |-> p[b].terminal, predecessors |-> p[b].predecessors]
  BY <1>1
<1>5. DOMAIN q = DOMAIN p /\ q = [c \in DOMAIN p |-> q[c]]
  BY <1>3
<1>6. ASSUME NEW c \in DOMAIN p
      PROVE  q[c] = [method |-> p[c].method, arrays |-> p[c].arrays,
                     assignments |-> IF c = b THEN s ELSE p[c].assignments,
                     terminal |-> p[c].terminal, predecessors |-> p[c].predecessors]
  <2>1. CASE c = b
    BY <1>3, <1>4, <2>1
  <2>2. CASE c # b
    <3>1. q[c] = p[c]
      BY <1>3, <2>2
    <3>. QED
      BY <1>1, <2>2, <3>1
  <2>. QED
    BY <2>1, <2>2
<1>7. ASSUME NEW c \in DOMAIN p
      PROVE  /\ q[c].method = p[c].method /\ q[c].arrays = p[c].arrays
             /\ q[c].terminal = p[c].terminal /\ q[c].predecessors = p[c].predecessors
             /\ q[c].assignments = IF c = b THEN s ELSE p[c].assignments
  <2>. DEFINE t == IF c = b THEN s ELSE p[c].assignments
  <2>1. q[c] = [method |-> p[c].method, arrays |-> p[c].arrays, assignments |-> t,
                terminal |-> p[c].terminal, predecessors |-> p[c].predecessors]
    BY <1>6
  <2>2. q[c].assignments = t
    <3>. HIDE DEF t
    <3>. QED
      BY <2>1
  <2>3. /\ q[c].method = p[c].method /\ q[c].arrays = p[c].arrays
        /\ q[c].terminal = p[c].terminal /\ q[c].predecessors = p[c].predecessors
    <3>. HIDE DEF t
    <3>. QED
      BY <2>1
  <2>. QED
    BY <2>2, <2>3
<1>8. ASSUME NEW c \in DOMAIN p
      PROVE  q[c] = [method |-> p[c].method, arrays |-> p[c].arrays,
                     assignments |-> q[c].assignments, terminal |-> p[c].terminal,
                     predecessors |-> p[c].predecessors]
  <2>1. q[c].assignments = IF c = b THEN s ELSE p[c].assignments
    BY <1>7
  <2>. QED
    BY <1>6, <2>1
<1>. QED
  BY <1>5, <1>7, <1>8 DEF Replaced

\* A program with one assignment fewer is a program.
LEMMA PrunedProgram ==
  ASSUME NEW p, IsProgram(p), NEW b \in DOMAIN p, NEW i \in 1 .. Len(p[b].assignments)
  PROVE  IsProgram([p EXCEPT ![b].assignments = Removed(p[b].assignments, i)])
<1>. DEFINE s == p[b].assignments
            r == Removed(s, i)
<1>. SUFFICES ASSUME NEW q, q = [p EXCEPT ![b].assignments = r]
              PROVE  IsProgram(q)
  OBVIOUS
<1>1. IsSequence(s) /\ Len(s) \in Nat /\ Len(s) < IndexModulus
  BY ProgramFacts
<1>2. /\ IsSequence(r) /\ Len(r) = Len(s) - 1
      /\ DOMAIN r = 1 .. Len(s) - 1
      /\ \A k \in 1 .. Len(s) - 1 : r[k] = IF k < i THEN s[k] ELSE s[k + 1]
  BY <1>1, RemovedFacts
<1>3. \A k \in DOMAIN r : IsAssignment(r[k])
  <2>1. \A k \in DOMAIN s : IsAssignment(s[k])
    BY DEF IsProgram, IsBlock
  <2>2. DOMAIN s = 1 .. Len(s)
    BY ProgramFacts
  <2>3. \A k \in DOMAIN r : \E j \in DOMAIN s : r[k] = s[j]
    <3>. HIDE DEF r, s
    <3>. QED
      BY <1>1, <1>2, <2>2
  <2>. QED
    <3>. HIDE DEF r, s
    <3>. QED
      BY <2>1, <2>3
<1>. HIDE DEF r
<1>4. Replaced(p, b, r, q)
  BY ReplacedBlock
<1>5. \A c \in DOMAIN p : IsBlock(q[c]) /\ Len(q[c].assignments) < IndexModulus
  <2>. TAKE c \in DOMAIN p
  <2>1. /\ q[c].method = p[c].method /\ q[c].arrays = p[c].arrays
        /\ q[c].terminal = p[c].terminal /\ q[c].predecessors = p[c].predecessors
        /\ q[c].assignments = IF c = b THEN r ELSE p[c].assignments
        /\ q[c] = [method |-> p[c].method, arrays |-> p[c].arrays,
                   assignments |-> q[c].assignments, terminal |-> p[c].terminal,
                   predecessors |-> p[c].predecessors]
    BY <1>4 DEF Replaced
  <2>2. IsBlock(p[c]) /\ Len(p[c].assignments) < IndexModulus /\ Len(p[c].assignments) \in Nat
    BY ProgramFacts
  <2>3. Len(q[c].assignments) < IndexModulus
    BY <1>1, <1>2, <2>1, <2>2, IndexModulusAssumption
  <2>4. IsBlock(q[c])
    BY <1>2, <1>3, <2>1, <2>2 DEF IsBlock
  <2>. QED
    BY <2>3, <2>4
<1>6. DOMAIN q = DOMAIN p /\ q = [c \in DOMAIN p |-> q[c]]
  BY <1>4 DEF Replaced
<1>7. IsSequence(q)
  <2>1. PICK n \in Nat : DOMAIN p = 1 .. n
    BY ProgramFacts
  <2>2. DOMAIN q = 1 .. n /\ q = [c \in 1 .. n |-> q[c]]
    BY <1>6, <2>1
  <2>. QED
    BY <2>2, FunctionIsSequence
<1>. QED
  BY <1>5, <1>6, <1>7 DEF IsProgram

-----------------------------------------------------------------------------
(* The invariant *)

LEMMA TypedFacts ==
  ASSUME Typed
  PROVE  /\ Len(blocks) \in Nat /\ DOMAIN blocks = 1 .. Len(blocks)
         /\ \A b \in DOMAIN blocks :
              /\ Len(Assignments(b)) \in Nat
              /\ DOMAIN Assignments(b) = 1 .. Len(Assignments(b))
              /\ Len(Assignments(b)) < IndexModulus
         /\ block_index \in Nat /\ 1 =< block_index /\ block_index =< Len(blocks) + 1
         /\ assignment_index \in Nat
         /\ InProgram => block_index \in DOMAIN blocks
                         /\ assignment_index =< Len(Assignments(block_index))
         /\ ~ InProgram => block_index = Len(blocks) + 1
         /\ current_method \in Nat /\ current_method > 0
         /\ phase \in {"roots", "closure", "prune"}
         /\ IsFiniteSet(live)
         /\ prev_live_count \in Nat
<1>1. /\ Len(blocks) \in Nat /\ DOMAIN blocks = 1 .. Len(blocks)
      /\ \A b \in DOMAIN blocks :
           /\ Len(Assignments(b)) \in Nat
           /\ DOMAIN Assignments(b) = 1 .. Len(Assignments(b))
           /\ Len(Assignments(b)) < IndexModulus
  BY ProgramFacts DEF Typed, Assignments
<1>2. block_index \in Nat /\ 1 =< block_index /\ block_index =< Len(blocks) + 1
  BY <1>1 DEF Typed, TypeOK
<1>3. InProgram => block_index \in DOMAIN blocks
  BY <1>1, <1>2 DEF InProgram
<1>4. CASE InProgram
  <2>1. assignment_index \in 0 .. Len(Assignments(block_index))
    BY <1>4 DEF Typed, TypeOK
  <2>. QED
    BY <1>1, <1>2, <1>3, <1>4, <2>1 DEF Typed, TypeOK
<1>5. CASE ~ InProgram
  <2>1. assignment_index \in 0 .. 0
    BY <1>5 DEF Typed, TypeOK
  <2>2. block_index = Len(blocks) + 1
    BY <1>1, <1>2, <1>5 DEF InProgram
  <2>. QED
    BY <1>1, <1>2, <1>5, <2>1, <2>2 DEF Typed, TypeOK
<1>. QED
  BY <1>4, <1>5

LEMMA InitIInv == Init => IInv
<1>. SUFFICES ASSUME Init PROVE IInv
  OBVIOUS
<1>1. IsProgram(blocks)
  BY ProgramsAssumption DEF Init, IsProgram
<1>2. Len(blocks) \in Nat
  BY <1>1, ProgramFacts
<1>3. InProgram => Len(Assignments(block_index)) \in Nat
  <2>1. InProgram => block_index \in DOMAIN blocks
    BY <1>1, ProgramFacts DEF InProgram, Init, Start
  <2>. QED
    BY <1>1, <2>1, ProgramFacts DEF Assignments
<1>4. TypeOK
  <2>1. assignment_index \in 0 .. (IF InProgram THEN Len(Assignments(block_index)) ELSE 0)
    BY <1>3 DEF Init, Start
  <2>. QED
    BY <1>2, <2>1, FS_EmptySet DEF Init, Start, TypeOK
<1>. QED
  BY <1>1, <1>4 DEF Init, Start, IInv, Typed, Growing, Wanted, LiveIsClosed, Cut

\* A pass that is at the first block starts with nothing visited.
LEMMA TypeAtStart ==
  ASSUME Typed, Rewind, blocks' = blocks
  PROVE  /\ block_index' \in 1 .. Len(blocks') + 1
         /\ assignment_index' \in 0 .. (IF InProgram' THEN Len(Assignments(block_index)') ELSE 0)
         /\ \A b \in DOMAIN blocks : \A i \in DOMAIN Assignments(b) : ~ Passed(b, i)'
<1>1. InProgram' => Len(Assignments(block_index)') \in Nat
  BY TypedFacts DEF Rewind, InProgram, Assignments
<1>. QED
  BY <1>1, TypedFacts DEF Rewind, Passed

LEMMA AddRootsStep ==
  ASSUME IInv, AddRoots
  PROVE  IInv'
<1>. USE DEF IInv, AddRoots
<1>1. IsFiniteSet(Roots) /\ Cardinality(Roots) \in Nat
  BY RootsFinite, FS_CardinalityType DEF Typed
<1>2. Typed'
  BY <1>1, TypeAtStart, TypedFacts DEF Typed, TypeOK
<1>3. Roots' = Roots
  BY DEF Roots, Of, CallArguments, Assignments
<1>4. Growing'
  <2>1. UsesAdded(Roots)'
    BY TypeAtStart DEF UsesAdded, Of, Assignments
  <2>. QED
    BY <1>3, <2>1 DEF Growing, Running
<1>5. Wanted'
  BY <1>3 DEF Wanted, ClosedUnderUses, Of, Assignments
<1>. QED
  BY <1>2, <1>4, <1>5 DEF LiveIsClosed, Cut

LEMMA AddUsesStep ==
  ASSUME IInv, AddUses
  PROVE  IInv'
<1>. USE DEF IInv, AddUses
<1>. DEFINE b == block_index
            i == assignment_index + 1
            uses == FieldsIn(Visited.operands)
<1>1. /\ b \in DOMAIN blocks
      /\ i \in 1 .. Len(Assignments(b))
      /\ Visited = Assignments(b)[i]
  BY TypedFacts DEF AtAssignment, Visited
<1>2. IsFiniteSet(uses)
  <2>1. IsBlock(blocks[b]) /\ DOMAIN blocks[b].assignments = 1 .. Len(blocks[b].assignments)
    BY <1>1, ProgramFacts DEF Typed
  <2>2. IsAssignment(Visited)
    BY <1>1, <2>1 DEF IsBlock, Assignments
  <2>. QED
    BY <2>2, FieldsInFinite DEF IsAssignment
<1>3. live \subseteq live' /\ live' \subseteq live \cup uses
  BY DEF UsesIfLive
<1>4. IsFiniteSet(live')
  <2>1. IsFiniteSet(live \cup uses)
    BY <1>2, TypedFacts, FS_Union
  <2>. QED
    BY <1>3, <2>1, FS_Subset
<1>5. Typed'
  <2>1. InProgram' /\ InProgram /\ Assignments(block_index)' = Assignments(b)
    BY DEF InProgram, AtAssignment, Assignments
  <2>2. assignment_index' \in 0 .. Len(Assignments(block_index)')
    BY <1>1, <2>1, TypedFacts
  <2>. QED
    BY <1>4, <2>1, <2>2, TypedFacts DEF Typed, TypeOK
<1>6. Growing'
  <2>1. PICK counted \in SUBSET live :
          Cardinality(counted) = prev_live_count /\ UsesAdded(counted)
    BY DEF Growing
  <2>2. UsesAdded(counted)'
    <3>. SUFFICES ASSUME NEW c \in DOMAIN blocks, Of(c), NEW k \in DOMAIN Assignments(c),
                         Passed(c, k)', Assignments(c)[k].destination \in counted
                  PROVE  FieldsIn(Assignments(c)[k].operands) \subseteq live'
      BY DEF UsesAdded, Of, Assignments
    <3>1. CASE Passed(c, k)
      BY <1>3, <2>1, <3>1 DEF UsesAdded
    <3>2. CASE c = b /\ k = i
      <4>1. live' = live \cup UsesIfLive(Visited)
        BY <3>2 DEF Of
      <4>2. Visited.destination \in live
        BY <1>1, <2>1, <3>2
      <4>. QED
        BY <1>1, <3>2, <4>1, <4>2 DEF UsesIfLive
    <3>3. Passed(c, k) \/ (c = b /\ k = i)
      <4>1. k \in Nat /\ c \in Nat
        BY TypedFacts
      <4>. QED
        BY <1>1, <4>1, TypedFacts DEF Passed
    <3>. QED
      BY <3>1, <3>2, <3>3
  <2>3. Roots' = Roots
    BY DEF Roots, Of, CallArguments, Assignments
  <2>4. Roots \subseteq live' /\ counted \subseteq live'
    BY <1>3, <2>1 DEF Growing, Running
  <2>. QED
    BY <2>1, <2>2, <2>3, <2>4 DEF Growing, Running
<1>7. Wanted'
  <2>. SUFFICES ASSUME NEW S, ClosedUnderUses(S)
                PROVE  live' \subseteq S
    BY DEF Wanted, ClosedUnderUses, Roots, Of, CallArguments, Assignments
  <2>1. live \subseteq S
    BY DEF Wanted
  <2>2. Of(b) /\ Visited.destination \in live => uses \subseteq S
    BY <1>1, <2>1, TypedFacts DEF ClosedUnderUses
  <2>. QED
    BY <2>1, <2>2 DEF UsesIfLive
<1>. QED
  BY <1>5, <1>6, <1>7 DEF LiveIsClosed, Cut

\* At the end of a block every assignment of it has been visited.
LEMMA BlockEnds ==
  ASSUME Typed, InProgram, ~ AtAssignment, NextBlock
  PROVE  \A b \in DOMAIN blocks : \A i \in DOMAIN Assignments(b) : Passed(b, i)' => Passed(b, i)
<1>1. \A b \in DOMAIN blocks : b \in Nat /\ \A i \in DOMAIN Assignments(b) :
        i \in Nat /\ 1 =< i /\ i =< Len(Assignments(b))
  BY TypedFacts
<1>2. assignment_index >= Len(Assignments(block_index))
  BY TypedFacts DEF AtAssignment
<1>. QED
  BY <1>1, <1>2, TypedFacts DEF Passed, NextBlock

LEMMA NextBlockStep ==
  ASSUME IInv, NextBlock
  PROVE  IInv'
<1>. USE DEF IInv
<1>1. InProgram /\ ~ AtAssignment
  BY DEF NextBlock
<1>2. \A b \in DOMAIN blocks : \A i \in DOMAIN Assignments(b) : Passed(b, i)' => Passed(b, i)
  BY <1>1, BlockEnds
<1>. USE DEF NextBlock
<1>3. Typed'
  <2>1. block_index' \in 1 .. Len(blocks') + 1
    BY <1>1, TypedFacts DEF InProgram
  <2>2. InProgram' => Len(Assignments(block_index)') \in Nat
    BY <2>1, TypedFacts DEF InProgram, Assignments
  <2>3. assignment_index' \in 0 .. (IF InProgram' THEN Len(Assignments(block_index)') ELSE 0)
    BY <2>2
  <2>. QED
    BY <2>1, <2>3, TypedFacts DEF Typed, TypeOK
<1>4. Growing'
  <2>. SUFFICES ASSUME phase = "closure"
                PROVE  Growing'
    BY DEF Growing
  <2>1. PICK counted \in SUBSET live :
          Cardinality(counted) = prev_live_count /\ UsesAdded(counted)
    BY DEF Growing
  <2>2. UsesAdded(counted)'
    BY <1>2, <2>1 DEF UsesAdded, Of, Assignments
  <2>3. Roots' = Roots
    BY DEF Roots, Of, CallArguments, Assignments
  <2>. QED
    BY <2>1, <2>2, <2>3 DEF Growing, Running
<1>5. Wanted'
  BY DEF Wanted, ClosedUnderUses, Roots, Of, CallArguments, Assignments
<1>6. LiveIsClosed'
  BY DEF LiveIsClosed, ClosedUnderUses, Roots, Of, CallArguments, Assignments
<1>7. Cut'
  BY <1>2 DEF Cut, Survives, Of, Assignments
<1>. QED
  BY <1>3, <1>4, <1>5, <1>6, <1>7

\* At the end of the program everything has been visited.
LEMMA ProgramEnds ==
  ASSUME Typed, ~ InProgram
  PROVE  \A b \in DOMAIN blocks : \A i : Passed(b, i)
BY TypedFacts DEF Passed

\* Equal counts mean that the pass over the program added nothing.
LEMMA EqualCountsAreClosed ==
  ASSUME IInv, phase = "closure", ~ InProgram, Cardinality(live) = prev_live_count
  PROVE  ClosedUnderUses(live)
<1>1. PICK counted \in SUBSET live :
        Cardinality(counted) = prev_live_count /\ UsesAdded(counted)
  BY DEF IInv, Growing
<1>2. IsFiniteSet(live)
  BY TypedFacts DEF IInv
<1>3. counted = live
  BY <1>1, <1>2, FS_Subset
<1>4. UsesAdded(live)
  BY <1>1, <1>3
<1>. QED
  BY <1>4, ProgramEnds DEF IInv, Growing, UsesAdded, ClosedUnderUses

LEMMA EndPassStep ==
  ASSUME IInv, EndPass
  PROVE  IInv'
<1>. USE DEF IInv, EndPass
<1>1. Cardinality(live) \in Nat
  BY TypedFacts, FS_CardinalityType
<1>2. Typed'
  BY <1>1, TypeAtStart, TypedFacts DEF Typed, TypeOK
<1>3. Roots' = Roots
  BY DEF Roots, Of, CallArguments, Assignments
<1>4. Growing'
  <2>1. UsesAdded(live)'
    BY TypeAtStart DEF UsesAdded, Of, Assignments
  <2>2. Roots \subseteq live
    BY DEF Growing
  <2>. QED
    BY <1>3, <2>1, <2>2 DEF Growing, Running
<1>5. Wanted'
  BY <1>3 DEF Wanted, ClosedUnderUses, Of, Assignments
<1>6. LiveIsClosed'
  <2>. SUFFICES ASSUME phase' = "prune"
                PROVE  ClosedUnderUses(live)'
    BY DEF LiveIsClosed
  <2>1. ClosedUnderUses(live)
    BY EqualCountsAreClosed
  <2>. QED
    BY <1>3, <2>1 DEF ClosedUnderUses, Of, Assignments
<1>7. Cut'
  BY TypeAtStart DEF Cut, Of, Assignments, Typed
<1>. QED
  BY <1>2, <1>4, <1>5, <1>6, <1>7

\* Stepping back below 0 and forward again leaves an index where it was.
LEMMA BackAndForward ==
  ASSUME NEW m \in Nat, m >= 2, NEW k \in Nat, k < m
  PROVE  /\ (((k - 1) % m) + 1) % m = k
         /\ k + 1 < m => (k + 1) % m = k + 1
<1>1. k + 1 < m => (k + 1) % m = k + 1
  OBVIOUS
<1>2. CASE k = 0
  <2>1. (0 - 1) % m = m - 1
    OBVIOUS
  <2>2. (m - 1 + 1) % m = 0
    OBVIOUS
  <2>. QED
    BY <1>1, <1>2, <2>1, <2>2
<1>3. CASE k > 0
  <2>1. (k - 1) % m = k - 1
    BY <1>3
  <2>2. (k - 1 + 1) % m = k
    OBVIOUS
  <2>. QED
    BY <1>1, <2>1, <2>2
<1>. QED
  BY <1>2, <1>3

Dead == Of(block_index) /\ ~ Survives(Visited)

\* A step of pruning removes the visited assignment, or goes on to the next one.
LEMMA PruneFacts ==
  ASSUME Typed, Prune
  PROVE  /\ block_index \in DOMAIN blocks
         /\ assignment_index + 1 \in 1 .. Len(Assignments(block_index))
         /\ Dead => /\ blocks' = [blocks EXCEPT ![block_index].assignments =
                                    Removed(Assignments(block_index), assignment_index + 1)]
                    /\ assignment_index' = assignment_index
         /\ ~ Dead => blocks' = blocks /\ assignment_index' = assignment_index + 1
<1>1. /\ block_index \in DOMAIN blocks
      /\ assignment_index \in Nat
      /\ assignment_index < Len(Assignments(block_index))
      /\ Len(Assignments(block_index)) \in Nat
      /\ Len(Assignments(block_index)) < IndexModulus
  BY TypedFacts DEF Prune, AtAssignment
<1>2. assignment_index + 1 \in 1 .. Len(Assignments(block_index))
  BY <1>1
<1>3. /\ (((assignment_index - 1) % IndexModulus) + 1) % IndexModulus = assignment_index
      /\ (assignment_index + 1) % IndexModulus = assignment_index + 1
  <2>1. assignment_index + 1 < IndexModulus
    BY <1>1, IndexModulusAssumption
  <2>2. assignment_index < IndexModulus
    BY <1>1, IndexModulusAssumption
  <2>. QED
    BY <1>1, <2>1, <2>2, IndexModulusAssumption, BackAndForward
<1>4. CASE Dead
  <2>1. assignment_index' = assignment_index
    BY <1>3, <1>4 DEF Prune, Dead
  <2>2. blocks' = [blocks EXCEPT ![block_index].assignments =
                     SubSeq(@, 1, (assignment_index + 1) - 1)
                       \o SubSeq(@, (assignment_index + 1) + 1, Len(@))]
    BY <1>4, Zenon DEF Prune, Dead
  <2>3. blocks' = [blocks EXCEPT ![block_index].assignments =
                     Removed(Assignments(block_index), assignment_index + 1)]
    BY <2>2, Zenon DEF Removed, Assignments
  <2>. QED
    BY <1>1, <1>2, <1>4, <2>1, <2>3
<1>5. CASE ~ Dead
  <2>1. assignment_index' = assignment_index + 1
    BY <1>3, <1>5 DEF Prune, Dead
  <2>2. blocks' = blocks
    BY <1>5 DEF Prune, Dead
  <2>. QED
    BY <1>1, <1>2, <1>5, <2>1, <2>2
<1>. QED
  BY <1>4, <1>5

\* What is left after a step of pruning was there before, in the same block, and a
\* removal leaves no other assignment visited.
LEMMA PruneLeaves ==
  ASSUME Typed, Prune
  PROVE  /\ IsProgram(blocks)'
         /\ DOMAIN blocks' = DOMAIN blocks
         /\ \A c \in DOMAIN blocks :
              /\ Of(c)' <=> Of(c)
              /\ blocks'[c].arrays = blocks[c].arrays
              /\ blocks'[c].terminal = blocks[c].terminal
              /\ Len(Assignments(c)') = IF Dead /\ c = block_index THEN Len(Assignments(c)) - 1
                                        ELSE Len(Assignments(c))
              /\ \A k \in DOMAIN Assignments(c)' : \E j \in DOMAIN Assignments(c) :
                   /\ Assignments(c)'[k] = Assignments(c)[j]
                   /\ Passed(c, k)' => Passed(c, j) \/ (~ Dead /\ c = block_index
                                                        /\ j = assignment_index + 1)
<1>. DEFINE b == block_index
            i == assignment_index + 1
            s == Assignments(b)
            r == Removed(s, i)
<1>1. b \in DOMAIN blocks /\ i \in 1 .. Len(s) /\ block_index' = b
  BY PruneFacts DEF Prune
<1>2. \A c \in DOMAIN blocks : c \in Nat /\ \A k \in DOMAIN Assignments(c) : k \in Nat
  BY TypedFacts
<1>3. CASE ~ Dead
  <2>1. blocks' = blocks /\ assignment_index' = assignment_index + 1
    BY <1>3, PruneFacts
  <2>2. \A c \in DOMAIN blocks : \A k \in DOMAIN Assignments(c) :
          Passed(c, k)' => Passed(c, k) \/ (c = b /\ k = i)
    BY <1>1, <1>2, <2>1, TypedFacts DEF Passed
  <2>3. IsProgram(blocks)'
    BY <2>1 DEF Typed, IsProgram
  <2>. QED
    BY <1>3, <2>1, <2>2, <2>3 DEF Of, Assignments, Prune
<1>4. CASE Dead
  <2>1. blocks' = [blocks EXCEPT ![b].assignments = r] /\ assignment_index' = assignment_index
    BY <1>4, PruneFacts
  <2>2. IsProgram(blocks)'
    BY <1>1, <2>1, PrunedProgram DEF Typed, Assignments, IsProgram
  <2>3. Replaced(blocks, b, r, blocks')
    BY <1>1, <2>1, ReplacedBlock DEF Typed
  <2>4. /\ IsSequence(s) /\ Len(s) \in Nat /\ DOMAIN s = 1 .. Len(s)
    BY <1>1, ProgramFacts, SMTT(30) DEF Typed, Assignments
  <2>5. /\ Len(r) = Len(s) - 1 /\ DOMAIN r = 1 .. Len(s) - 1
        /\ \A k \in 1 .. Len(s) - 1 : r[k] = IF k < i THEN s[k] ELSE s[k + 1]
    BY <1>1, <2>4, RemovedFacts
  <2>6. ASSUME NEW c \in DOMAIN blocks, NEW k \in DOMAIN Assignments(c)'
        PROVE  \E j \in DOMAIN Assignments(c) :
                 /\ Assignments(c)'[k] = Assignments(c)[j]
                 /\ Passed(c, k)' => Passed(c, j)
    <3>1. CASE c = b
      <4>1. Assignments(c)' = r
        BY <2>3, <3>1 DEF Replaced, Assignments
      <4>2. k \in 1 .. Len(s) - 1
        BY <2>5, <4>1
      <4>3. CASE k < i
        <5>1. k \in DOMAIN s /\ Assignments(c)'[k] = s[k]
          BY <2>4, <2>5, <4>1, <4>2, <4>3
        <5>2. Passed(c, k)' => Passed(c, k)
          BY <1>1, <2>1 DEF Passed
        <5>. QED
          BY <3>1, <5>1, <5>2
      <4>4. CASE ~ k < i
        <5>1. k + 1 \in DOMAIN s /\ Assignments(c)'[k] = s[k + 1]
          BY <2>4, <2>5, <4>1, <4>2, <4>4
        <5>2. ~ Passed(c, k)'
          BY <1>1, <1>2, <2>1, <3>1, <4>2, <4>4, TypedFacts DEF Passed
        <5>. QED
          BY <3>1, <5>1, <5>2
      <4>. QED
        BY <4>3, <4>4
    <3>2. CASE c # b
      <4>1. Assignments(c)' = Assignments(c)
        BY <2>3, <3>2 DEF Replaced, Assignments
      <4>2. Passed(c, k)' => Passed(c, k)
        BY <1>1, <2>1 DEF Passed
      <4>. QED
        BY <4>1, <4>2
    <3>. QED
      BY <3>1, <3>2
  <2>7. ASSUME NEW c \in DOMAIN blocks
        PROVE  Len(Assignments(c)') = IF c = b THEN Len(Assignments(c)) - 1
                                      ELSE Len(Assignments(c))
    <3>1. Assignments(c)' = IF c = b THEN r ELSE Assignments(c)
      BY <2>3 DEF Replaced, Assignments
    <3>. QED
      BY <2>5, <3>1
  <2>8. /\ DOMAIN blocks' = DOMAIN blocks
        /\ \A c \in DOMAIN blocks :
             /\ Of(c)' <=> Of(c)
             /\ blocks'[c].arrays = blocks[c].arrays
             /\ blocks'[c].terminal = blocks[c].terminal
    BY <2>3 DEF Replaced, Of, Prune
  <2>. QED
    BY <1>4, <2>2, <2>6, <2>7, <2>8
<1>. QED
  BY <1>3, <1>4

\* Pruning takes away roots, if anything.
LEMMA PruneRoots ==
  ASSUME Typed, Prune
  PROVE  Roots' \subseteq Roots
<1>1. ASSUME NEW c \in DOMAIN blocks
      PROVE  CallArguments(c)' \subseteq CallArguments(c)
  <2>1. \A k \in DOMAIN Assignments(c)' : \E j \in DOMAIN Assignments(c) :
          Assignments(c)'[k] = Assignments(c)[j]
    BY PruneLeaves
  <2>. QED
    BY <2>1 DEF CallArguments
<1>2. \A c \in DOMAIN blocks' :
        /\ c \in DOMAIN blocks
        /\ Of(c)' <=> Of(c)
        /\ blocks'[c].arrays = blocks[c].arrays
        /\ blocks'[c].terminal = blocks[c].terminal
  BY PruneLeaves
<1>. QED
  BY <1>1, <1>2 DEF Roots

LEMMA PruneStep ==
  ASSUME IInv, Prune
  PROVE  IInv'
<1>1. Typed /\ ClosedUnderUses(live) /\ phase = "prune" /\ Cut
  BY DEF IInv, LiveIsClosed, Prune
<1>2. UNCHANGED <<block_index, current_method, phase, live, prev_live_count>>
  BY DEF Prune
<1>3. /\ IsProgram(blocks)' /\ DOMAIN blocks' = DOMAIN blocks
      /\ \A c \in DOMAIN blocks :
           /\ Of(c)' <=> Of(c)
           /\ \A k \in DOMAIN Assignments(c)' : \E j \in DOMAIN Assignments(c) :
                /\ Assignments(c)'[k] = Assignments(c)[j]
                /\ Passed(c, k)' => Passed(c, j) \/ (~ Dead /\ c = block_index
                                                     /\ j = assignment_index + 1)
  BY <1>1, PruneLeaves
<1>4. Typed'
  <2>1. Len(blocks') = Len(blocks)
    <3>1. DOMAIN blocks' = 1 .. Len(blocks') /\ Len(blocks') \in Nat
      <4>1. \A p : IsProgram(p) => DOMAIN p = 1 .. Len(p) /\ Len(p) \in Nat
        BY ProgramFacts
      <4>. QED
        BY <1>3, <4>1 DEF IsProgram
    <3>. QED
      BY <1>1, <1>3, <3>1, TypedFacts
  <2>2. InProgram' /\ InProgram
    BY <1>2, <2>1 DEF InProgram, Prune, AtAssignment
  <2>3. assignment_index' \in 0 .. Len(Assignments(block_index)')
    <3>. DEFINE n == Len(Assignments(block_index))
                n2 == Len(Assignments(block_index)')
    <3>1. /\ assignment_index \in Nat /\ n \in Nat
          /\ assignment_index + 1 \in 1 .. n
      BY <1>1, PruneFacts, TypedFacts
    <3>2. n2 = IF Dead THEN n - 1 ELSE n
      <4>1. \A c \in DOMAIN blocks :
              Len(Assignments(c)') = IF Dead /\ c = block_index THEN Len(Assignments(c)) - 1
                                     ELSE Len(Assignments(c))
        BY <1>1, PruneLeaves
      <4>2. block_index \in DOMAIN blocks
        BY <1>1, PruneFacts
      <4>. QED
        BY <1>2, <4>1, <4>2 DEF Assignments
    <3>3. assignment_index' = IF Dead THEN assignment_index ELSE assignment_index + 1
      BY <1>1, PruneFacts
    <3>. HIDE DEF n, n2
    <3>4. assignment_index' \in 0 .. n2
      BY <3>1, <3>2, <3>3
    <3>. QED
      BY <3>4 DEF n2
  <2>. QED
    BY <1>1, <1>2, <1>3, <2>1, <2>2, <2>3, TypedFacts DEF Typed, TypeOK
<1>5. LiveIsClosed'
  <2>1. Roots' \subseteq live'
    BY <1>1, <1>2, PruneRoots DEF ClosedUnderUses
  <2>2. ASSUME NEW c \in DOMAIN blocks', Of(c)', NEW k \in DOMAIN Assignments(c)',
               Assignments(c)'[k].destination \in live'
        PROVE  FieldsIn(Assignments(c)'[k].operands) \subseteq live'
    BY <1>1, <1>2, <1>3, <2>2 DEF ClosedUnderUses
  <2>. QED
    BY <2>1, <2>2 DEF LiveIsClosed, ClosedUnderUses
<1>6. Cut'
  <2>. SUFFICES ASSUME NEW c \in DOMAIN blocks', Of(c)', NEW k \in DOMAIN Assignments(c)',
                       Passed(c, k)'
                PROVE  \/ Assignments(c)'[k].destination \in live'
                       \/ Assignments(c)'[k].type = "method_call"
    BY DEF Cut, Survives
  <2>1. PICK j \in DOMAIN Assignments(c) :
          /\ Assignments(c)'[k] = Assignments(c)[j]
          /\ Passed(c, j) \/ (~ Dead /\ c = block_index /\ j = assignment_index + 1)
    BY <1>3
  <2>2. Survives(Assignments(c)[j])
    <3>1. Of(c) /\ c \in DOMAIN blocks
      BY <1>3
    <3>2. CASE Passed(c, j)
      BY <1>1, <3>1, <3>2 DEF Cut
    <3>3. CASE ~ Dead /\ c = block_index /\ j = assignment_index + 1
      BY <3>1, <3>3 DEF Dead, Visited
    <3>. QED
      BY <2>1, <3>2, <3>3
  <2>. QED
    BY <1>2, <2>1, <2>2 DEF Survives
<1>. QED
  BY <1>1, <1>2, <1>4, <1>5, <1>6 DEF IInv, Growing, Wanted

LEMMA NextMethodStep ==
  ASSUME IInv, NextMethod
  PROVE  IInv'
<1>. USE DEF IInv, NextMethod
<1>1. Typed'
  BY TypeAtStart, TypedFacts, FS_EmptySet DEF Typed, TypeOK
<1>. QED
  BY <1>1 DEF Growing, Wanted, LiveIsClosed, Cut

LEMMA StutterStep ==
  ASSUME IInv, UNCHANGED vars
  PROVE  IInv'
BY DEF vars, IInv, Typed, IsProgram, TypeOK, InProgram, Assignments, Growing, Running, UsesAdded,
  Passed, Wanted, LiveIsClosed, Cut, ClosedUnderUses, Roots, CallArguments, Of, Survives

\* IInv is inductive.
LEMMA StepIInv == IInv /\ [Next]_vars => IInv'
BY AddRootsStep, AddUsesStep, NextBlockStep, EndPassStep, PruneStep, NextMethodStep, StutterStep
DEF Next

\* The pass is as IInv says in every reachable state.
THEOREM Invariance == Spec => []IInv
<1>. QED
  BY InitIInv, StepIInv, PTL DEF Spec

\* The iterator's indexes stay inside the program, also where prune_dead_variables
\* steps one back below 0: uint32_t arithmetic never shows.
THEOREM TypeCorrect == Spec => []TypeOK
<1>1. IInv => TypeOK
  BY DEF IInv, Typed
<1>. QED
  BY <1>1, Invariance, PTL

\* When the count of live_set has stopped growing, no kept assignment reads a field
\* whose assignments are dead.
THEOREM ClosureIsReached == Spec => []LiveIsClosed
<1>1. IInv => LiveIsClosed
  BY DEF IInv
<1>. QED
  BY <1>1, Invariance, PTL

-----------------------------------------------------------------------------
(* Pruning one assignment after the other is selecting at once *)

Extended(kept, a, fields) ==
  IF a.destination \in fields \/ a.type = "method_call" THEN Append(kept, a) ELSE kept

\* The steps in which Llir's Filtered selects what a set of fields keeps.
Selects(s, fields, n, f) ==
  f = [k \in 0 .. n |->
         IF k = 0 THEN <<>> ELSE Extended(f[k - 1], s[k], fields)]

Selected(s, fields) == (CHOOSE f : Selects(s, fields, Len(s), f))[Len(s)]

LEMMA SelectsExist ==
  ASSUME NEW s, NEW fields, NEW n \in Nat
  PROVE  \E f : Selects(s, fields, n, f)
<1>. DEFINE Without == {k \in Nat : ~ \E f : Selects(s, fields, k, f)}
<1>. SUFFICES ASSUME n \in Without PROVE FALSE
  OBVIOUS
<1>1. PICK k \in Without : \A j \in Without : k =< j
  <2>1. Without \in SUBSET Nat
    OBVIOUS
  <2>. HIDE DEF Without
  <2>. QED
    BY <2>1, LeastElement
<1>2. CASE k = 0
  <2>. DEFINE c == [m \in 0 .. 0 |-> <<>>]
  <2>1. Selects(s, fields, 0, c)
    BY DEF Selects
  <2>. QED
    BY <2>1, <1>2
<1>3. CASE k > 0
  <2>1. PICK c : Selects(s, fields, k - 1, c)
    BY <1>1, <1>3
  <2>. DEFINE d == [m \in 0 .. k |->
                      IF m = k THEN Extended(c[k - 1], s[k], fields) ELSE c[m]]
  <2>2. \A m \in 0 .. k :
          d[m] = IF m = 0 THEN <<>> ELSE Extended(d[m - 1], s[m], fields)
    BY <2>1, <1>3 DEF Selects
  <2>3. d = [m \in 0 .. k |-> IF m = 0 THEN <<>>
                              ELSE Extended(d[m - 1], s[m], fields)]
    BY <2>2
  <2>4. Selects(s, fields, k, d)
    BY <2>3 DEF Selects
  <2>. QED
    BY <2>4
<1>. QED
  BY <1>2, <1>3

\* The selection, step by step.
SelectedBy(s, fields, n, f) ==
  /\ Selected(s, fields) = f[n]
  /\ f[0] = <<>>
  /\ \A k \in 1 .. n : f[k] = Extended(f[k - 1], s[k], fields)

LEMMA SelectedFacts ==
  ASSUME NEW s, NEW fields, NEW n \in Nat, n = Len(s)
  PROVE  \E f : SelectedBy(s, fields, n, f)
<1>. DEFINE f == CHOOSE g : Selects(s, fields, n, g)
<1>1. Selects(s, fields, n, f)
  BY SelectsExist, Zenon
<1>2. Selected(s, fields) = f[n]
  BY DEF Selected
<1>. HIDE DEF f
<1>. QED
  BY <1>1, <1>2 DEF Selects, SelectedBy

\* Selecting from what is kept as a whole changes nothing.
LEMMA SelectedAll ==
  ASSUME NEW s, IsSequence(s), NEW fields,
         \A k \in DOMAIN s : s[k].destination \in fields \/ s[k].type = "method_call"
  PROVE  Selected(s, fields) = s
<1>1. PICK n \in Nat : n = Len(s) /\ DOMAIN s = 1 .. n /\ s = [i \in 1 .. n |-> s[i]]
  BY SequenceFacts
<1>. DEFINE S == {s[i] : i \in 1 .. n}
<1>2. PICK f : /\ Selected(s, fields) = f[n]
               /\ f[0] = <<>>
               /\ \A k \in 1 .. n : f[k] = Append(f[k - 1], s[k])
  <2>1. PICK f : SelectedBy(s, fields, n, f)
    BY <1>1, SelectedFacts
  <2>. QED
    BY <1>1, <2>1 DEF SelectedBy, Extended
<1>. DEFINE Good(k) == /\ f[k] \in Seq(S) /\ Len(f[k]) = k
                       /\ \A i \in 1 .. k : f[k][i] = s[i]
            Bad == {k \in Nat : k =< n /\ ~ Good(k)}
<1>3. Good(n)
  <2>. SUFFICES ASSUME ~ Good(n) PROVE FALSE
    OBVIOUS
  <2>1. n \in Bad
    OBVIOUS
  <2>2. PICK k \in Bad : \A j \in Bad : k =< j
    <3>1. Bad \in SUBSET Nat
      OBVIOUS
    <3>. HIDE DEF Bad
    <3>. QED
      BY <2>1, <3>1, LeastElement
  <2>. HIDE DEF S
  <2>3. CASE k = 0
    <3>1. f[0] \in Seq(S) /\ Len(f[0]) = 0
      BY <1>2
    <3>2. Good(0)
      BY <3>1
    <3>. QED
      BY <2>3, <3>2
  <2>4. CASE k > 0
    <3>1. Good(k - 1)
      BY <2>2, <2>4
    <3>2. f[k] = Append(f[k - 1], s[k]) /\ s[k] \in S
      <4>1. k \in 1 .. n
        BY <2>4
      <4>2. s[k] \in S
        BY <4>1 DEF S
      <4>. QED
        BY <1>2, <4>1, <4>2
    <3>3. f[k] \in Seq(S) /\ Len(f[k]) = k
      BY <2>4, <3>1, <3>2
    <3>4. \A j \in 1 .. k - 1 : f[k][j] = f[k - 1][j]
      BY <2>4, <3>1, <3>2
    <3>5. f[k][k] = s[k]
      BY <2>4, <3>1, <3>2
    <3>6. \A j \in 1 .. k : f[k][j] = s[j]
      BY <2>4, <3>1, <3>4, <3>5
    <3>. QED
      BY <3>3, <3>6
  <2>. QED
    BY <2>3, <2>4
<1>4. f[n] = s
  <2>. HIDE DEF S
  <2>1. f[n] = [i \in 1 .. n |-> f[n][i]]
    BY <1>3
  <2>. QED
    BY <1>1, <1>3, <2>1
<1>. QED
  BY <1>2, <1>4

\* Taking away an assignment that is not selected changes nothing.
LEMMA SelectedWithout ==
  ASSUME NEW s, IsSequence(s), NEW fields, NEW i \in 1 .. Len(s),
         ~ (s[i].destination \in fields \/ s[i].type = "method_call")
  PROVE  Selected(Removed(s, i), fields) = Selected(s, fields)
<1>. DEFINE r == Removed(s, i)
            Keeps(a) == a.destination \in fields \/ a.type = "method_call"
<1>1. PICK n \in Nat : n = Len(s) /\ DOMAIN s = 1 .. n
  BY SequenceFacts
<1>2. /\ Len(r) = n - 1 /\ n - 1 \in Nat
      /\ \A k \in 1 .. n - 1 : r[k] = IF k < i THEN s[k] ELSE s[k + 1]
  <2>1. /\ Len(r) = Len(s) - 1
        /\ \A k \in 1 .. Len(s) - 1 : r[k] = IF k < i THEN s[k] ELSE s[k + 1]
    BY RemovedFacts
  <2>2. n - 1 \in Nat
    BY <1>1
  <2>. HIDE DEF r
  <2>. QED
    BY <1>1, <2>1, <2>2
<1>3. PICK f : /\ Selected(s, fields) = f[n]
               /\ f[0] = <<>>
               /\ \A k \in 1 .. n :
                    f[k] = IF Keeps(s[k]) THEN Append(f[k - 1], s[k]) ELSE f[k - 1]
  <2>1. PICK f : SelectedBy(s, fields, n, f)
    BY <1>1, SelectedFacts
  <2>. QED
    BY <2>1 DEF SelectedBy, Extended
<1>4. PICK g : /\ Selected(r, fields) = g[n - 1]
               /\ g[0] = <<>>
               /\ \A k \in 1 .. n - 1 :
                    g[k] = IF Keeps(r[k]) THEN Append(g[k - 1], r[k]) ELSE g[k - 1]
  <2>. HIDE DEF r
  <2>1. PICK g : SelectedBy(r, fields, n - 1, g)
    BY <1>2, SelectedFacts
  <2>. QED
    BY <2>1 DEF SelectedBy, Extended
<1>5. ~ Keeps(s[i])
  OBVIOUS
<1>. HIDE DEF r, Keeps
<1>. DEFINE Good(k) == g[k] = IF k < i THEN f[k] ELSE f[k + 1]
            Bad == {k \in Nat : k =< n - 1 /\ ~ Good(k)}
<1>6. Good(n - 1)
  <2>. SUFFICES ASSUME ~ Good(n - 1) PROVE FALSE
    OBVIOUS
  <2>1. n - 1 \in Bad
    BY <1>2
  <2>2. PICK k \in Bad : \A j \in Bad : k =< j
    <3>1. Bad \in SUBSET Nat
      OBVIOUS
    <3>. HIDE DEF Bad
    <3>. QED
      BY <2>1, <3>1, LeastElement
  <2>3. CASE k = 0
    BY <1>3, <1>4, <2>3
  <2>4. CASE k > 0
    <3>1. Good(k - 1) /\ k \in 1 .. n - 1
      BY <2>2, <2>4
    <3>2. g[k] = IF Keeps(r[k]) THEN Append(g[k - 1], r[k]) ELSE g[k - 1]
      BY <1>4, <3>1
    <3>3. CASE k < i
      <4>1. f[k] = IF Keeps(s[k]) THEN Append(f[k - 1], s[k]) ELSE f[k - 1]
        BY <1>1, <1>3, <3>1
      <4>2. r[k] = s[k] /\ g[k - 1] = f[k - 1]
        BY <1>2, <3>1, <3>3
      <4>. QED
        BY <3>2, <3>3, <4>1, <4>2
    <3>4. CASE ~ k < i
      <4>1. f[k + 1] = IF Keeps(s[k + 1]) THEN Append(f[k], s[k + 1]) ELSE f[k]
        BY <1>1, <1>3, <3>1
      <4>2. r[k] = s[k + 1]
        BY <1>2, <3>1, <3>4
      <4>3. g[k - 1] = f[k]
        <5>1. CASE k = i
          <6>1. f[k] = f[k - 1]
            BY <1>1, <1>3, <1>5, <3>1, <5>1
          <6>. QED
            BY <3>1, <5>1, <6>1
        <5>2. CASE k # i
          BY <3>1, <3>4, <5>2
        <5>. QED
          BY <5>1, <5>2
      <4>. QED
        BY <3>2, <3>4, <4>1, <4>2, <4>3
    <3>. QED
      BY <3>3, <3>4
  <2>. QED
    BY <2>3, <2>4
<1>7. CASE i = n
  <2>1. f[n] = f[n - 1]
    BY <1>1, <1>3, <1>5, <1>7
  <2>. QED
    BY <1>1, <1>3, <1>4, <1>6, <1>7, <2>1 DEF r
<1>8. CASE i < n
  BY <1>1, <1>3, <1>4, <1>6, <1>8 DEF r
<1>. QED
  BY <1>1, <1>7, <1>8

-----------------------------------------------------------------------------
(* The pass implements Elimination *)

\* A program without what a set of fields does not keep, in one method.
Pruned(p, m, fields) ==
  [b \in DOMAIN p |->
     IF p[b].method = m THEN [p[b] EXCEPT !.assignments = Selected(@, fields)] ELSE p[b]]

MappedProgram == IF phase = "prune" THEN Pruned(blocks, current_method, live) ELSE blocks
MappedMethod == IF phase = "prune" THEN current_method + 1 ELSE current_method

\* Llir's selection is the one above.
LEMMA FilteredIsSelected ==
  ASSUME NEW s
  PROVE  Filtered(s, Survives) = Selected(s, live)
BY Zenon DEF Filtered, Survives, Selected, Selects, Extended

LEMMA KeptIsSelected ==
  ASSUME NEW s, NEW fields
  PROVE  Promise!Kept(s, fields) = Selected(s, fields)
BY Zenon DEF Promise!Kept, Promise!Filtered, Selected, Selects, Extended

LEMMA MappedVars == Promise!vars = <<MappedProgram, MappedMethod>>
BY FilteredIsSelected DEF Promise!vars, MappedProgram, MappedMethod, Pruned, Of

\* The program that Promise is given, as it is given there.
GivenProgram ==
  IF phase = "prune"
    THEN [b \in DOMAIN blocks |->
            IF Of(b) THEN [blocks[b] EXCEPT !.assignments = Filtered(@, Survives)] ELSE blocks[b]]
    ELSE blocks

LEMMA GivenIsMapped == GivenProgram = MappedProgram
BY FilteredIsSelected DEF GivenProgram, MappedProgram, Pruned, Of

LEMMA GivenIsMappedNext == (GivenProgram = MappedProgram)'
BY GivenIsMapped, PTL

\* Elimination's step, where the pass is not pruning yet.
LEMMA EliminateIs ==
  ASSUME phase # "prune", Running,
         MappedProgram' = Pruned(blocks, current_method, Promise!Needed),
         MappedMethod' = current_method + 1
  PROVE  Promise!Eliminate
<1>. DEFINE eliminated == [b \in DOMAIN blocks |->
                             IF blocks[b].method = current_method
                             THEN [blocks[b] EXCEPT !.assignments = Promise!Kept(@, Promise!Needed)]
                             ELSE blocks[b]]
<1>1. eliminated = Pruned(blocks, current_method, Promise!Needed)
  BY KeptIsSelected DEF Pruned
<1>2. GivenProgram' = eliminated
  BY <1>1, GivenIsMappedNext
<1>3. GivenProgram = blocks /\ MappedMethod = current_method
  BY DEF GivenProgram, MappedMethod
<1>. QED
  BY <1>2, <1>3 DEF Promise!Eliminate, Promise!OfMethod, Running, GivenProgram, MappedMethod

LEMMA MappedVarsNext == (Promise!vars = <<MappedProgram, MappedMethod>>)'
BY MappedVars, PTL

\* A step that leaves the mapped program and method alone is a stutter.
LEMMA StutterIs ==
  ASSUME MappedProgram' = MappedProgram, MappedMethod' = MappedMethod
  PROVE  UNCHANGED Promise!vars
BY MappedVars, MappedVarsNext

LEMMA ExceptBlock ==
  ASSUME NEW x, IsBlock(x), NEW s
  PROVE  [x EXCEPT !.assignments = s] =
           [method |-> x.method, arrays |-> x.arrays, assignments |-> s,
            terminal |-> x.terminal, predecessors |-> x.predecessors]
BY DEF IsBlock

\* Pruning one assignment does not change what the pruned program will be.
LEMMA PruneIsStutter ==
  ASSUME Typed, Prune
  PROVE  MappedProgram' = MappedProgram
<1>. DEFINE b == block_index
            i == assignment_index + 1
            s == Assignments(b)
            r == Removed(s, i)
<1>1. UNCHANGED <<current_method, phase, live>> /\ phase = "prune"
  BY DEF Prune
<1>2. SUFFICES Pruned(blocks', current_method, live) = Pruned(blocks, current_method, live)
  BY <1>1 DEF MappedProgram
<1>3. CASE ~ Dead
  BY <1>3, PruneFacts
<1>4. CASE Dead
  <2>1. blocks' = [blocks EXCEPT ![b].assignments = r]
    BY <1>4, PruneFacts
  <2>2. b \in DOMAIN blocks /\ i \in 1 .. Len(s)
    BY PruneFacts
  <2>3. Replaced(blocks, b, r, blocks')
    BY <2>1, <2>2, ReplacedBlock DEF Typed
  <2>4. \A c \in DOMAIN blocks : IsBlock(blocks[c])
    BY DEF Typed, IsProgram
  <2>5. \A c \in DOMAIN blocks : IsBlock(blocks'[c])
    <3>1. IsProgram(blocks)' /\ DOMAIN blocks' = DOMAIN blocks
      BY PruneLeaves
    <3>. QED
      BY <3>1 DEF IsProgram
  <2>6. Selected(r, live) = Selected(s, live)
    <3>1. IsSequence(s)
      BY <2>2, ProgramFacts DEF Typed, Assignments
    <3>2. ~ (s[i].destination \in live \/ s[i].type = "method_call")
      BY <1>4 DEF Dead, Visited, Survives
    <3>. QED
      BY <2>2, <3>1, <3>2, SelectedWithout
  <2>. HIDE DEF r
  <2>7. ASSUME NEW c \in DOMAIN blocks, blocks[c].method = current_method
        PROVE  [blocks'[c] EXCEPT !.assignments = Selected(@, live)]
                 = [blocks[c] EXCEPT !.assignments = Selected(@, live)]
    <3>1. blocks'[c].assignments = IF c = b THEN r ELSE blocks[c].assignments
      BY <2>3 DEF Replaced
    <3>2. Selected(blocks'[c].assignments, live) = Selected(blocks[c].assignments, live)
      BY <2>6, <3>1 DEF Assignments
    <3>3. /\ blocks'[c].method = blocks[c].method /\ blocks'[c].arrays = blocks[c].arrays
          /\ blocks'[c].terminal = blocks[c].terminal
          /\ blocks'[c].predecessors = blocks[c].predecessors
      BY <2>3 DEF Replaced
    <3>4. \A t : [blocks[c] EXCEPT !.assignments = t] =
                   [method |-> blocks[c].method, arrays |-> blocks[c].arrays, assignments |-> t,
                    terminal |-> blocks[c].terminal, predecessors |-> blocks[c].predecessors]
      BY <2>4, ExceptBlock
    <3>5. \A t : [blocks'[c] EXCEPT !.assignments = t] =
                   [method |-> blocks[c].method, arrays |-> blocks[c].arrays, assignments |-> t,
                    terminal |-> blocks[c].terminal, predecessors |-> blocks[c].predecessors]
      BY <2>5, <3>3, ExceptBlock
    <3>. QED
      BY <3>2, <3>4, <3>5
  <2>8. ASSUME NEW c \in DOMAIN blocks, blocks[c].method # current_method
        PROVE  blocks'[c] = blocks[c]
    <3>1. c # b
      BY <1>4, <2>8 DEF Dead, Of
    <3>2. blocks'[c].assignments = blocks[c].assignments
      BY <2>3, <3>1 DEF Replaced
    <3>3. /\ blocks'[c].method = blocks[c].method /\ blocks'[c].arrays = blocks[c].arrays
          /\ blocks'[c].terminal = blocks[c].terminal
          /\ blocks'[c].predecessors = blocks[c].predecessors
      BY <2>3 DEF Replaced
    <3>. QED
      BY <2>4, <2>5, <3>2, <3>3 DEF IsBlock
  <2>9. DOMAIN blocks' = DOMAIN blocks /\ \A c \in DOMAIN blocks : blocks'[c].method = blocks[c].method
    BY <2>3 DEF Replaced
  <2>. QED
    BY <2>7, <2>8, <2>9 DEF Pruned
<1>. QED
  BY <1>3, <1>4

\* When pruning has ended the program is the pruned one.
LEMMA PrunedIsDone ==
  ASSUME IInv, NextMethod
  PROVE  MappedProgram = blocks
<1>1. Typed /\ Cut /\ phase = "prune" /\ ~ InProgram
  BY DEF IInv, NextMethod
<1>2. ASSUME NEW c \in DOMAIN blocks, blocks[c].method = current_method
      PROVE  [blocks[c] EXCEPT !.assignments = Selected(@, live)] = blocks[c]
  <2>1. IsBlock(blocks[c]) /\ IsSequence(blocks[c].assignments)
    BY <1>1, ProgramFacts DEF Typed
  <2>2. \A k \in DOMAIN blocks[c].assignments :
          \/ blocks[c].assignments[k].destination \in live
          \/ blocks[c].assignments[k].type = "method_call"
    BY <1>1, <1>2, ProgramEnds DEF Cut, Of, Assignments, Survives
  <2>3. Selected(blocks[c].assignments, live) = blocks[c].assignments
    BY <2>1, <2>2, SelectedAll
  <2>. QED
    BY <2>1, <2>3, ExceptBlock DEF IsBlock
<1>3. blocks = [c \in DOMAIN blocks |-> blocks[c]]
  BY <1>1, SequenceFacts DEF Typed, IsProgram
<1>. QED
  BY <1>1, <1>2, <1>3 DEF MappedProgram, Pruned

\* Every step of the pass is a step of Elimination or changes nothing there.
LEMMA StepRefines == IInv /\ [Next]_vars => [Promise!Eliminate]_(Promise!vars)
<1>. SUFFICES ASSUME IInv, [Next]_vars
              PROVE  Promise!Eliminate \/ UNCHANGED Promise!vars
  OBVIOUS
<1>1. CASE AddRoots
  BY <1>1, StutterIs DEF AddRoots, MappedProgram, MappedMethod
<1>2. CASE AddUses
  BY <1>2, StutterIs DEF AddUses, MappedProgram, MappedMethod
<1>3. CASE NextBlock
  BY <1>3, StutterIs DEF NextBlock, MappedProgram, MappedMethod
<1>4. CASE EndPass
  <2>1. CASE Cardinality(live) = prev_live_count
    <3>1. ClosedUnderUses(live)
      BY <1>4, <2>1, EqualCountsAreClosed DEF EndPass
    <3>2. live = Promise!Needed
      <4>1. IsProgram(blocks) /\ phase # "prune" /\ Wanted
        BY <1>4 DEF IInv, Typed, EndPass
      <4>2. ClosedUnderUses(Promise!Needed) /\ \A S : ClosedUnderUses(S) => Promise!Needed \subseteq S
        BY <4>1, NeededIsLeastClosed
      <4>. QED
        BY <1>4, <3>1, <4>1, <4>2 DEF Wanted, EndPass
    <3>3. MappedProgram' = Pruned(blocks, current_method, live)
      BY <1>4, <2>1 DEF EndPass, MappedProgram
    <3>4. MappedMethod' = current_method + 1
      BY <1>4, <2>1 DEF EndPass, MappedMethod
    <3>. QED
      BY <1>4, <3>2, <3>3, <3>4, EliminateIs DEF EndPass, IInv, Growing
  <2>2. CASE Cardinality(live) # prev_live_count
    BY <1>4, <2>2, StutterIs DEF EndPass, MappedProgram, MappedMethod
  <2>. QED
    BY <2>1, <2>2
<1>5. CASE Prune
  <2>1. MappedProgram' = MappedProgram
    BY <1>5, PruneIsStutter DEF IInv
  <2>. QED
    BY <1>5, <2>1, StutterIs DEF Prune, MappedMethod
<1>6. CASE NextMethod
  <2>1. MappedProgram = blocks
    BY <1>6, PrunedIsDone
  <2>. QED
    BY <1>6, <2>1, StutterIs DEF NextMethod, MappedProgram, MappedMethod
<1>7. CASE UNCHANGED vars
  BY <1>7, StutterIs DEF vars, MappedProgram, MappedMethod, Pruned
<1>. QED
  BY <1>1, <1>2, <1>3, <1>4, <1>5, <1>6, <1>7 DEF Next

\* eliminate_dead_code as a whole removes, method after method, the assignments that
\* nothing observable needs, and nothing else.
THEOREM RefinesElimination == Spec => ImplementsElimination
<1>1. Init => Promise!Init
  BY DEF Init, Start, Promise!Init
<1>2. IInv /\ [Next]_vars => [Promise!Eliminate]_(Promise!vars)
  BY StepRefines
<1>. QED
  BY <1>1, <1>2, Invariance, PTL DEF Spec, ImplementsElimination, Promise!Spec
===============================================================================
