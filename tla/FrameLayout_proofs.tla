-------------------------- MODULE FrameLayout_proofs --------------------------
(***************************************************************************)
(* Every frame that FrameLayout lays out, whatever the methods declare.    *)
(* The layout reads the names only, so the proof first says what the names *)
(* given while LLIR is generated tell apart (Naming), then what the table  *)
(* of offsets holds for the fields placed so far (Placed): each lies under *)
(* the frame's size, and two that differ in name lie apart.                *)
(***************************************************************************)
EXTENDS FrameLayout, SequenceTheorems, WellFoundedInduction, TLAPS

Names == {d[1] : d \in Declarable} \cup {"$"}
FieldSet == [identifier : [name : Names, at : Nat], value_count : Nat \ {0},
             path : Seq(1 .. MaxScopes)]

IsTemporary(field) == field.identifier.name = "$"

Typed ==
  /\ methods \in Seq(Seq(FieldSet))
  /\ scopes \in Seq(1 .. MaxScopes)
  /\ scope_count \in 0 .. MaxScopes
  /\ temporary_counter \in Nat
  /\ declaring \in BOOLEAN
  /\ method \in 0 .. Len(methods)
  /\ next \in Nat \ {0}
  /\ stack_size \in Nat
  /\ \A id \in DOMAIN offsets : offsets[id] \in Nat \ {0}

\* All methods are generated before the first frame is laid out.
Phases ==
  /\ scopes # <<>> => method = 0 /\ methods # <<>>
  /\ declaring => scopes # <<>>

\* What else blocks are told by.
Blocks ==
  /\ before \in {"condition", "if block", "nothing"}
  /\ else_blocks \subseteq 1 .. MaxScopes

\* What a field's identifier says of it, when count temporaries are numbered.
Named(field, count) ==
  IF IsTemporary(field)
  THEN field.value_count = 1 /\ field.identifier.at < count
  ELSE /\ field.identifier.at = Len(field.path) /\ field.path # <<>>
       /\ \E d \in Declarable :
            d[1] = field.identifier.name /\ d[2] = field.value_count

\* Fields of one identifier are in different scopes of one level.
Distinct(f, g) ==
  f.identifier = g.identifier => ~ IsTemporary(f) /\ f.path # g.path

WellNamed(fields, count) ==
  /\ \A i \in 1 .. Len(fields) : Named(fields[i], count)
  /\ \A i, j \in 1 .. Len(fields) : i # j => Distinct(fields[i], fields[j])

Naming == \A m \in 1 .. Len(methods) : WellNamed(methods[m], temporary_counter)

\* NewTemporary counts no further than AddField lets it.
Counted == temporary_counter =< FieldCount /\ FieldCount =< MaxFields

\* The fields of the frame being laid out that have their place.
PlacedFields == IF method = 0 THEN {} ELSE 1 .. next - 1

Placed ==
  /\ method > 0 => next =< Len(Fields(method)) + 1
  /\ \A i \in PlacedFields :
       LET field == Fields(method)[i]
       IN  /\ field.identifier \in DOMAIN offsets
           /\ field.value_count =< offsets[field.identifier]
           /\ offsets[field.identifier] =< stack_size

OnlyLocals ==
  \A id \in DOMAIN offsets : id.name = "$" \/ id.at > 0

IInv == Typed /\ Phases /\ Blocks /\ Naming /\ Counted /\ Placed /\ OnlyLocals

\* A declared name has one length in the whole program.
OneLength == \A d, e \in Declarable : d[1] = e[1] => d[2] = e[2]

\* The words of the first end below those of the second.
Below(f, g) == offsets[f.identifier] =< offsets[g.identifier] - g.value_count

Apart ==
  \A i, j \in PlacedFields :
    LET f == Fields(method)[i]  g == Fields(method)[j]
    IN  f.identifier # g.identifier => Below(f, g) \/ Below(g, f)

-----------------------------------------------------------------------------
(* The number of fields, which FieldCount sums over the methods *)

\* A non-empty set of naturals has a least element.
LEMMA LeastElement ==
  ASSUME NEW S \in SUBSET Nat, NEW e \in S
  PROVE  \E d \in S : \A c \in S : d =< c
<1>1. PICK d \in S : \A c \in S : <<c, d>> \notin OpToRel(<, Nat)
  BY WFMin, NatLessThanWellFounded, Zenon
<1>2. \A c \in S : ~ c < d
  BY <1>1, Zenon DEF OpToRel
<1>. QED
  BY <1>2

\* The sums that FieldCount's recursive function stands for, up to the n-th method.
Counts(ms, n, c) ==
  c = [m \in 0 .. n |-> IF m = 0 THEN 0 ELSE c[m - 1] + Len(ms[m])]

SameLengths(ms, ns, n) == \A i \in 1 .. n : Len(ms[i]) = Len(ns[i])

CountOf(ms) == (CHOOSE c : Counts(ms, Len(ms), c))[Len(ms)]

\* FieldCount is such a sum, before and after a step.
LEMMA FieldCountIsCountOf ==
  FieldCount = CountOf(methods) /\ FieldCount' = CountOf(methods')
BY DEF FieldCount, CountOf, Counts

\* The recursion has a solution: the shortest sequence without one would have one.
LEMMA CountsExist ==
  ASSUME NEW ms, NEW n \in Nat
  PROVE  \E c : Counts(ms, n, c)
<1>. DEFINE Without == {k \in Nat : ~ \E c : Counts(ms, k, c)}
<1>. SUFFICES ASSUME n \in Without PROVE FALSE
  OBVIOUS
<1>1. PICK k \in Without : \A j \in Without : k =< j
  <2>. HIDE DEF Without
  <2>1. Without \in SUBSET Nat
    BY DEF Without
  <2>. QED
    BY <2>1, LeastElement
<1>2. CASE k = 0
  <2>. DEFINE c == [m \in 0 .. 0 |-> 0]
  <2>1. Counts(ms, 0, c)
    BY DEF Counts
  <2>. QED
    BY <2>1, <1>2
<1>3. CASE k > 0
  <2>1. PICK c : Counts(ms, k - 1, c)
    BY <1>1, <1>3
  <2>. DEFINE d == [m \in 0 .. k |-> IF m = k THEN c[k - 1] + Len(ms[k]) ELSE c[m]]
  <2>2. \A m \in 0 .. k : d[m] = IF m = 0 THEN 0 ELSE d[m - 1] + Len(ms[m])
    BY <2>1, <1>3 DEF Counts
  <2>3. d = [m \in 0 .. k |-> IF m = 0 THEN 0 ELSE d[m - 1] + Len(ms[m])]
    BY <2>2
  <2>4. Counts(ms, k, d)
    BY <2>3 DEF Counts
  <2>. QED
    BY <2>4
<1>. QED
  BY <1>2, <1>3

\* What the recursive function's CHOOSE takes is a solution.
LEMMA CountsChosen ==
  ASSUME NEW ms, NEW n \in Nat
  PROVE  Counts(ms, n, CHOOSE c : Counts(ms, n, c))
BY CountsExist, Zenon

\* Two solutions agree as far as their sequences of methods do.
LEMMA CountsAgree ==
  ASSUME NEW ms, NEW ns, NEW n \in Nat, NEW k \in Nat, k =< n, NEW c, NEW d,
         Counts(ms, n, c), Counts(ns, k, d),
         SameLengths(ms, ns, k)
  PROVE  c[k] = d[k]
<1>. DEFINE Differ == {m \in 0 .. k : c[m] # d[m]}
<1>. SUFFICES ASSUME k \in Differ PROVE FALSE
  OBVIOUS
<1>1. PICK m \in Differ : \A j \in Differ : m =< j
  <2>1. Differ \in SUBSET Nat
    OBVIOUS
  <2>. HIDE DEF Differ
  <2>. QED
    BY <2>1, LeastElement
<1>2. m # 0
  BY DEF Counts
<1>3. c[m - 1] = d[m - 1]
  BY <1>1, <1>2
<1>4. c[m] = c[m - 1] + Len(ms[m]) /\ d[m] = d[m - 1] + Len(ns[m])
  BY <1>2 DEF Counts
<1>5. Len(ms[m]) = Len(ns[m])
  BY <1>2 DEF SameLengths
<1>. QED
  BY <1>2, <1>3, <1>4, <1>5

\* The sum of all methods is that of all but the last, and the last's fields.
LEMMA CountStep ==
  ASSUME NEW ms, NEW ns, NEW n \in Nat, Len(ns) = n, Len(ms) = n + 1,
         SameLengths(ms, ns, n)
  PROVE  CountOf(ms) = CountOf(ns) + Len(ms[n + 1])
<1>1. n + 1 \in Nat /\ n =< n + 1
  OBVIOUS
<1>2. PICK c : Counts(ms, n + 1, c) /\ CountOf(ms) = c[n + 1]
  BY <1>1, CountsChosen DEF CountOf
<1>3. PICK d : Counts(ns, n, d) /\ CountOf(ns) = d[n]
  BY CountsChosen DEF CountOf
<1>4. c[n] = d[n]
  BY <1>1, <1>2, <1>3, CountsAgree
<1>5. c[n + 1] = c[n] + Len(ms[n + 1])
  BY <1>2 DEF Counts
<1>. QED
  BY <1>2, <1>3, <1>4, <1>5

\* The sum is a natural number.
LEMMA CountIsNat ==
  ASSUME NEW ms \in Seq(Seq(FieldSet))
  PROVE  CountOf(ms) \in Nat
<1>. DEFINE c == CHOOSE x : Counts(ms, Len(ms), x)
<1>1. CountOf(ms) = c[Len(ms)]
  BY DEF CountOf
<1>2. Counts(ms, Len(ms), c)
  BY CountsChosen
<1>. HIDE DEF c
<1>. DEFINE Not == {m \in 0 .. Len(ms) : c[m] \notin Nat}
<1>. SUFFICES ASSUME Len(ms) \in Not PROVE FALSE
  BY <1>1
<1>3. PICK m \in Not : \A j \in Not : m =< j
  <2>1. Not \in SUBSET Nat
    OBVIOUS
  <2>. HIDE DEF Not
  <2>. QED
    BY <2>1, LeastElement
<1>4. m # 0
  BY <1>2 DEF Counts
<1>5. c[m - 1] \in Nat
  BY <1>3, <1>4
<1>6. c[m] = c[m - 1] + Len(ms[m])
  BY <1>2, <1>4 DEF Counts
<1>7. ms[m] \in Seq(FieldSet) /\ Len(ms[m]) \in Nat
  BY <1>4
<1>. QED
  BY <1>5, <1>6, <1>7

-----------------------------------------------------------------------------
(* How the actions change the fields *)

\* The fields and the scopes are well-formed values.
LEMMA TypedFacts ==
  ASSUME Typed
  PROVE  /\ Len(methods) \in Nat
         /\ Len(scopes) \in Nat
         /\ \A m \in 1 .. Len(methods) :
              /\ methods[m] \in Seq(FieldSet)
              /\ Len(methods[m]) \in Nat
              /\ \A i \in 1 .. Len(methods[m]) : methods[m][i] \in FieldSet
         /\ methods # <<>> => Current \in 1 .. Len(methods)
BY DEF Typed, Current

\* AddField appends the field to the last method and leaves the others alone.
LEMMA AddFieldFacts ==
  ASSUME Typed, methods # <<>>, NEW field \in FieldSet, AddField(field)
  PROVE  /\ methods' \in Seq(Seq(FieldSet))
         /\ Len(methods') = Len(methods)
         /\ \A m \in 1 .. Len(methods) : m # Current => methods'[m] = methods[m]
         /\ methods'[Current] = Append(methods[Current], field)
         /\ Len(methods'[Current]) = Len(methods[Current]) + 1
         /\ \A i \in 1 .. Len(methods[Current]) :
              methods'[Current][i] = methods[Current][i]
         /\ methods'[Current][Len(methods[Current]) + 1] = field
<1>1. Current \in 1 .. Len(methods) /\ methods[Current] \in Seq(FieldSet)
  BY TypedFacts
<1>2. methods' = [methods EXCEPT ![Current] = Append(methods[Current], field)]
  BY DEF AddField
<1>3. Append(methods[Current], field) \in Seq(FieldSet)
  BY <1>1
<1>4. methods \in Seq(Seq(FieldSet))
  BY DEF Typed
<1>5. methods' \in Seq(Seq(FieldSet)) /\ Len(methods') = Len(methods)
  BY <1>1, <1>2, <1>3, <1>4, ExceptSeq
<1>6. methods'[Current] = Append(methods[Current], field)
  BY <1>1, <1>2, <1>4
<1>7. \A m \in 1 .. Len(methods) : m # Current => methods'[m] = methods[m]
  BY <1>2, <1>4
<1>8. /\ Len(methods'[Current]) = Len(methods[Current]) + 1
      /\ \A i \in 1 .. Len(methods[Current]) : methods'[Current][i] = methods[Current][i]
      /\ methods'[Current][Len(methods[Current]) + 1] = field
  BY <1>1, <1>6
<1>. QED
  BY <1>5, <1>6, <1>7, <1>8

\* BeginMethod adds a method without fields.
LEMMA BeginMethodFacts ==
  ASSUME Typed, BeginMethod
  PROVE  /\ methods' \in Seq(Seq(FieldSet))
         /\ Len(methods') = Len(methods) + 1
         /\ \A m \in 1 .. Len(methods) : methods'[m] = methods[m]
         /\ methods'[Len(methods) + 1] = <<>>
BY DEF Typed, BeginMethod

\* The field that DeclareField adds is one that generate_field makes.
LEMMA DeclaredField ==
  ASSUME Typed, NEW d \in Declarable
  PROVE  Field(Identifier(d[1], ScopeLevel), d[2], scopes) \in FieldSet
BY DeclarableAssumption DEF Typed, Field, Identifier, ScopeLevel, FieldSet, Names

\* The field that NewTemporary adds is well-formed.
LEMMA TemporaryField ==
  ASSUME Typed
  PROVE  Field(Temporary(temporary_counter), 1, scopes) \in FieldSet
BY DEF Typed, Field, Temporary, FieldSet, Names

\* The scopes after PushScope.
LEMMA PushScopeFacts ==
  ASSUME Typed, PushScope
  PROVE  /\ scopes' \in Seq(1 .. MaxScopes)
         /\ scopes' # <<>>
         /\ scope_count' \in 0 .. MaxScopes
BY BoundsAssumption DEF Typed, PushScope

\* Every action keeps the types; only the naming touches the fields, and only the
\* layout the offsets.
LEMMA TypedStep ==
  ASSUME Typed, Phases, [Next]_vars
  PROVE  Typed'
<1>1. CASE BeginMethod
  BY <1>1, BeginMethodFacts, PushScopeFacts DEF BeginMethod, Typed, layout
<1>2. ASSUME NEW d \in Declarable, DeclareField(d[1], d[2])
      PROVE  Typed'
  <2>1. methods # <<>>
    BY <1>2 DEF DeclareField, Phases
  <2>2. methods' \in Seq(Seq(FieldSet)) /\ Len(methods') = Len(methods)
    BY <1>2, <2>1, DeclaredField, AddFieldFacts DEF DeclareField
  <2>. QED
    BY <1>2, <2>2 DEF DeclareField, Typed, layout
<1>3. CASE NewTemporary
  <2>1. methods # <<>>
    BY <1>3 DEF NewTemporary, Phases
  <2>2. methods' \in Seq(Seq(FieldSet)) /\ Len(methods') = Len(methods)
    BY <1>3, <2>1, TemporaryField, AddFieldFacts DEF NewTemporary
  <2>3. /\ temporary_counter' = temporary_counter + 1 /\ declaring' = FALSE
        /\ UNCHANGED <<scopes, scope_count, method, next, stack_size, offsets>>
    BY <1>3 DEF NewTemporary, layout
  <2>4. temporary_counter' \in Nat
    BY <2>3 DEF Typed
  <2>5. declaring' \in BOOLEAN
    BY <2>3
  <2>. QED
    BY <2>2, <2>3, <2>4, <2>5 DEF Typed
<1>4. CASE BeginBlock
  BY <1>4, PushScopeFacts DEF BeginBlock, Typed, layout
<1>5. CASE EndBlock
  <2>1. scopes' \in Seq(1 .. MaxScopes)
    <3>1. Len(scopes) \in Nat \ {0} /\ scopes \in Seq(1 .. MaxScopes)
      BY <1>5, TypedFacts, EmptySeq DEF EndBlock, Typed
    <3>2. Len(scopes) - 1 \in Int /\ \A i \in 1 .. Len(scopes) - 1 : scopes[i] \in 1 .. MaxScopes
      <4>1. \A i \in 1 .. Len(scopes) : scopes[i] \in 1 .. MaxScopes
        BY <3>1, ElementOfSeq
      <4>. QED
        BY <3>1, <4>1
    <3>3. SubSeq(scopes, 1, Len(scopes) - 1) \in Seq(1 .. MaxScopes)
      BY <3>2, SubSeqProperties
    <3>. QED
      BY <1>5, <3>3 DEF EndBlock, PopScope
  <2>. QED
    BY <1>5, <2>1 DEF EndBlock, Typed, layout
<1>6. CASE BeginFrame
  BY <1>6, TypedFacts DEF BeginFrame, Typed, naming
<1>7. CASE PlaceField
  <2>1. method \in 1 .. Len(methods) /\ next \in 1 .. Len(methods[method])
    BY <1>7, TypedFacts DEF PlaceField, FrameDone, Fields, Typed
  <2>2. methods[method][next].value_count \in Nat \ {0}
    BY <2>1, TypedFacts DEF FieldSet
  <2>3. /\ stack_size' = stack_size + methods[method][next].value_count
        /\ offsets' = Insert(offsets, methods[method][next].identifier, stack_size')
    BY <1>7 DEF PlaceField, Fields
  <2>4. stack_size' \in Nat \ {0}
    BY <2>2, <2>3, SMTT(30) DEF Typed
  <2>5. \A id \in DOMAIN offsets' : offsets'[id] \in Nat \ {0}
    BY <2>3, <2>4 DEF Insert, Typed
  <2>. QED
    BY <1>7, <2>4, <2>5 DEF PlaceField, Typed, naming
<1>8. CASE UNCHANGED vars
  BY <1>8 DEF vars, naming, layout, Typed
<1>. QED
  BY <1>1, <1>2, <1>3, <1>4, <1>5, <1>6, <1>7, <1>8 DEF Next

\* Scopes are open only while methods are generated.
LEMMA PhasesStep ==
  ASSUME Typed, Phases, [Next]_vars
  PROVE  Phases'
<1>1. CASE BeginMethod
  BY <1>1, BeginMethodFacts, PushScopeFacts, TypedFacts, EmptySeq DEF BeginMethod, Phases, layout
<1>2. ASSUME NEW d \in Declarable, DeclareField(d[1], d[2])
      PROVE  Phases'
  <2>1. methods # <<>> /\ scopes # <<>>
    BY <1>2 DEF DeclareField, Phases
  <2>2. methods' # <<>>
    BY <1>2, <2>1, DeclaredField, AddFieldFacts, TypedFacts DEF DeclareField
  <2>. QED
    BY <1>2, <2>1, <2>2 DEF DeclareField, Phases, layout
<1>3. CASE NewTemporary
  <2>1. methods # <<>> /\ scopes # <<>>
    BY <1>3 DEF NewTemporary, Phases
  <2>2. methods' # <<>>
    BY <1>3, <2>1, TemporaryField, AddFieldFacts, TypedFacts DEF NewTemporary
  <2>. QED
    BY <1>3, <2>1, <2>2 DEF NewTemporary, Phases, layout
<1>4. CASE BeginBlock
  BY <1>4, PushScopeFacts DEF BeginBlock, Phases, layout
<1>5. CASE EndBlock
  BY <1>5 DEF EndBlock, Phases, layout
<1>6. CASE BeginFrame
  BY <1>6 DEF BeginFrame, Phases, naming
<1>7. CASE PlaceField
  <2>1. scopes = <<>>
    BY <1>7 DEF PlaceField, Phases, Typed
  <2>. QED
    BY <1>7, <2>1 DEF PlaceField, Phases, naming
<1>8. CASE UNCHANGED vars
  BY <1>8 DEF vars, naming, layout, Phases
<1>. QED
  BY <1>1, <1>2, <1>3, <1>4, <1>5, <1>6, <1>7, <1>8 DEF Next

\* Every else block is one of the scopes.
LEMMA BlocksStep ==
  ASSUME Typed, Blocks, [Next]_vars
  PROVE  Blocks'
<1>1. CASE BeginBlock
  <2>1. scope_count' \in 1 .. MaxScopes
    <3>1. scope_count < MaxScopes /\ scope_count' = scope_count + 1
      BY <1>1, Zenon DEF BeginBlock, PushScope
    <3>2. scope_count \in 0 .. MaxScopes
      BY Zenon DEF Typed
    <3>. QED
      BY ONLY <3>1, <3>2, BoundsAssumption
  <2>2. before' = "nothing" /\ else_blocks' \subseteq else_blocks \cup {scope_count'}
    BY <1>1, Zenon DEF BeginBlock
  <2>. QED
    BY <2>1, <2>2, Zenon DEF Blocks
<1>2. CASE EndBlock
  BY <1>2, Zenon DEF EndBlock, Blocks
<1>3. CASE NewTemporary
  BY <1>3, Zenon DEF NewTemporary, Blocks
<1>4. CASE UNCHANGED <<before, else_blocks>>
  BY <1>4, Zenon DEF Blocks
<1>. QED
  BY <1>1, <1>2, <1>3, <1>4, Zenon
  DEF Next, BeginMethod, DeclareField, BeginFrame, PlaceField, vars, naming

\* More temporaries change nothing for the fields there are.
LEMMA WellNamedKept ==
  ASSUME NEW fields \in Seq(FieldSet), NEW c \in Nat, NEW d \in Nat, c =< d,
         WellNamed(fields, c)
  PROVE  WellNamed(fields, d)
<1>1. \A f \in FieldSet : Named(f, c) => Named(f, d)
  BY DEF Named, FieldSet
<1>2. \A i \in 1 .. Len(fields) : fields[i] \in FieldSet
  OBVIOUS
<1>. QED
  BY <1>1, <1>2 DEF WellNamed

\* A field that is named as it should be, and unlike the others, may follow them.
LEMMA WellNamedAppend ==
  ASSUME NEW fields \in Seq(FieldSet), NEW c, NEW field \in FieldSet,
         WellNamed(fields, c), Named(field, c),
         \A i \in 1 .. Len(fields) :
           Distinct(fields[i], field) /\ Distinct(field, fields[i])
  PROVE  WellNamed(Append(fields, field), c)
<1>. DEFINE all == Append(fields, field)
<1>1. /\ Len(fields) \in Nat /\ Len(all) = Len(fields) + 1
      /\ \A i \in 1 .. Len(fields) : all[i] = fields[i]
      /\ all[Len(fields) + 1] = field
  OBVIOUS
<1>2. \A i \in 1 .. Len(all) : i \in 1 .. Len(fields) \/ i = Len(fields) + 1
  BY <1>1
<1>. HIDE DEF all
<1>3. \A i \in 1 .. Len(all) : Named(all[i], c)
  BY <1>1, <1>2 DEF WellNamed
<1>4. \A i, j \in 1 .. Len(all) : i # j => Distinct(all[i], all[j])
  BY <1>1, <1>2 DEF WellNamed
<1>5. WellNamed(all, c)
  BY <1>3, <1>4 DEF WellNamed
<1>. QED
  BY <1>5 DEF all

\* So does AddField keep the naming.
LEMMA AddedNaming ==
  ASSUME Typed, Naming, methods # <<>>, NEW field \in FieldSet, AddField(field),
         temporary_counter' \in Nat, temporary_counter =< temporary_counter',
         Named(field, temporary_counter'),
         \A i \in 1 .. Len(methods[Current]) :
           Distinct(methods[Current][i], field) /\ Distinct(field, methods[Current][i])
  PROVE  Naming'
<1>1. \A m \in 1 .. Len(methods) : WellNamed(methods[m], temporary_counter')
  BY WellNamedKept, TypedFacts DEF Naming, Typed
<1>2. Current \in 1 .. Len(methods) /\ methods[Current] \in Seq(FieldSet)
  BY TypedFacts
<1>3. WellNamed(methods'[Current], temporary_counter')
  BY <1>1, <1>2, WellNamedAppend, AddFieldFacts
<1>4. \A m \in 1 .. Len(methods') : WellNamed(methods'[m], temporary_counter')
  BY <1>1, <1>3, AddFieldFacts
<1>. QED
  BY <1>4 DEF Naming

\* Identifiers go on telling apart what they did.
LEMMA NamingStep ==
  ASSUME Typed, Phases, Naming, [Next]_vars
  PROVE  Naming'
<1>1. CASE BeginMethod
  <2>1. temporary_counter' = temporary_counter
    BY <1>1 DEF BeginMethod
  <2>2. \A m \in 1 .. Len(methods) : WellNamed(methods'[m], temporary_counter')
    BY <1>1, <2>1, BeginMethodFacts DEF Naming
  <2>3. WellNamed(methods'[Len(methods) + 1], temporary_counter')
    BY <1>1, BeginMethodFacts DEF WellNamed
  <2>4. \A m \in 1 .. Len(methods') : WellNamed(methods'[m], temporary_counter')
    BY <1>1, <2>2, <2>3, BeginMethodFacts, TypedFacts
  <2>. QED
    BY <2>4 DEF Naming
<1>2. ASSUME NEW d \in Declarable, DeclareField(d[1], d[2])
      PROVE  Naming'
  <2>. DEFINE field == Field(Identifier(d[1], ScopeLevel), d[2], scopes)
  <2>1. methods # <<>> /\ scopes # <<>> /\ d[1] # "$"
    BY <1>2, NamesAssumption DEF DeclareField, Phases
  <2>2. field \in FieldSet /\ AddField(field) /\ temporary_counter' = temporary_counter
    BY <1>2, DeclaredField DEF DeclareField
  <2>3. Named(field, temporary_counter')
    BY <2>1 DEF Named, IsTemporary, Field, Identifier, ScopeLevel
  <2>4. \A i \in 1 .. Len(methods[Current]) :
          Distinct(methods[Current][i], field) /\ Distinct(field, methods[Current][i])
    <3>1. \A i \in 1 .. Len(methods[Current]) :
            methods[Current][i].path = scopes => methods[Current][i].identifier.name # d[1]
      BY <1>2 DEF DeclareField, Fields
    <3>. QED
      BY <2>1, <3>1 DEF Distinct, IsTemporary, Field, Identifier
  <2>. HIDE DEF field
  <2>. QED
    BY <2>1, <2>2, <2>3, <2>4, AddedNaming DEF Typed
<1>3. CASE NewTemporary
  <2>. DEFINE field == Field(Temporary(temporary_counter), 1, scopes)
  <2>1. methods # <<>>
    BY <1>3 DEF NewTemporary, Phases
  <2>2. field \in FieldSet /\ AddField(field) /\ temporary_counter' = temporary_counter + 1
    BY <1>3, TemporaryField DEF NewTemporary
  <2>3. field.identifier = [name |-> "$", at |-> temporary_counter] /\ field.value_count = 1
    BY DEF Field, Temporary
  <2>. HIDE DEF field
  <2>4. Named(field, temporary_counter')
    BY <2>2, <2>3 DEF Named, IsTemporary, Typed
  <2>5. \A i \in 1 .. Len(methods[Current]) :
          Distinct(methods[Current][i], field) /\ Distinct(field, methods[Current][i])
    <3>1. \A i \in 1 .. Len(methods[Current]) : Named(methods[Current][i], temporary_counter)
      BY <2>1, TypedFacts DEF Naming, WellNamed
    <3>2. \A i \in 1 .. Len(methods[Current]) :
            methods[Current][i].identifier # field.identifier
      BY <2>3, <3>1, SMTT(30) DEF Named, IsTemporary, Typed
    <3>. QED
      BY <3>2 DEF Distinct
  <2>. QED
    BY <2>1, <2>2, <2>4, <2>5, AddedNaming, SMTT(30) DEF Typed
<1>4. CASE UNCHANGED <<methods, temporary_counter>>
  BY <1>4 DEF Naming
<1>. QED
  BY <1>1, <1>2, <1>3, <1>4
  DEF Next, BeginBlock, EndBlock, BeginFrame, PlaceField, vars, naming

\* AddField counts one more field.
LEMMA AddFieldCounts ==
  ASSUME Typed, methods # <<>>, NEW field \in FieldSet, AddField(field)
  PROVE  FieldCount' = FieldCount + 1 /\ FieldCount \in Nat
<1>1. PICK n \in Nat : Len(methods) = n + 1
  <2>1. Len(methods) - 1 \in Nat
    BY TypedFacts
  <2>. QED
    BY <2>1
<1>. DEFINE rest == SubSeq(methods, 1, n)
<1>2. /\ rest \in Seq(Seq(FieldSet)) /\ Len(rest) = n
      /\ \A i \in 1 .. n : rest[i] = methods[i]
  BY <1>1 DEF Typed
<1>. HIDE DEF rest
<1>3. SameLengths(methods, rest, n)
  BY <1>2 DEF SameLengths
<1>4. Len(methods') = n + 1 /\ SameLengths(methods', rest, n)
  BY <1>1, <1>2, AddFieldFacts, SMTT(30) DEF SameLengths, Current
<1>5. CountOf(methods) = CountOf(rest) + Len(methods[n + 1])
  BY <1>1, <1>2, <1>3, CountStep
<1>6. CountOf(methods') = CountOf(rest) + Len(methods'[n + 1])
  BY <1>2, <1>4, CountStep
<1>7. Len(methods'[n + 1]) = Len(methods[n + 1]) + 1 /\ Len(methods[n + 1]) \in Nat
  BY <1>1, AddFieldFacts, TypedFacts DEF Current
<1>8. CountOf(methods) \in Nat /\ CountOf(rest) \in Nat
  BY <1>2, CountIsNat DEF Typed
<1>. QED
  BY <1>5, <1>6, <1>7, <1>8, FieldCountIsCountOf

\* BeginMethod counts no field.
LEMMA BeginMethodCounts ==
  ASSUME Typed, BeginMethod
  PROVE  FieldCount' = FieldCount
<1>1. PICK n \in Nat : n = Len(methods)
  BY TypedFacts
<1>2. Len(methods') = n + 1 /\ SameLengths(methods', methods, n)
  BY <1>1, BeginMethodFacts DEF SameLengths
<1>3. CountOf(methods') = CountOf(methods) + Len(methods'[n + 1])
  BY <1>1, <1>2, CountStep
<1>4. Len(methods'[n + 1]) = 0
  BY <1>1, BeginMethodFacts
<1>5. CountOf(methods) \in Nat
  BY CountIsNat DEF Typed
<1>. QED
  BY <1>3, <1>4, <1>5, FieldCountIsCountOf

\* There are never more temporaries than fields, or more fields than the bound.
LEMMA CountedStep ==
  ASSUME Typed, Phases, Counted, [Next]_vars
  PROVE  Counted'
<1>1. CASE BeginMethod
  BY <1>1, BeginMethodCounts DEF BeginMethod, Counted
<1>2. ASSUME NEW d \in Declarable, DeclareField(d[1], d[2])
      PROVE  Counted'
  <2>1. methods # <<>> /\ temporary_counter' = temporary_counter
    BY <1>2 DEF DeclareField, Phases
  <2>2. FieldCount' = FieldCount + 1 /\ FieldCount \in Nat /\ FieldCount < MaxFields
    BY <1>2, <2>1, DeclaredField, AddFieldCounts DEF DeclareField, AddField
  <2>. QED
    BY <2>1, <2>2, BoundsAssumption DEF Counted, Typed
<1>3. CASE NewTemporary
  <2>1. methods # <<>> /\ temporary_counter' = temporary_counter + 1
    BY <1>3 DEF NewTemporary, Phases
  <2>2. FieldCount' = FieldCount + 1 /\ FieldCount \in Nat /\ FieldCount < MaxFields
    BY <1>3, <2>1, TemporaryField, AddFieldCounts DEF NewTemporary, AddField
  <2>. QED
    BY <2>1, <2>2, BoundsAssumption DEF Counted, Typed
<1>4. CASE UNCHANGED <<methods, temporary_counter>>
  BY <1>4 DEF Counted, FieldCount
<1>. QED
  BY <1>1, <1>2, <1>3, <1>4
  DEF Next, BeginBlock, EndBlock, BeginFrame, PlaceField, vars, naming

-----------------------------------------------------------------------------
(* The layout *)

\* What PlaceField does, with the types of what it does it to.
LEMMA PlaceFieldFacts ==
  ASSUME Typed, PlaceField
  PROVE  LET field == methods[method][next]
         IN  /\ method \in 1 .. Len(methods)
             /\ next \in 1 .. Len(methods[method])
             /\ field \in FieldSet
             /\ stack_size' = stack_size + field.value_count
             /\ DOMAIN offsets' = DOMAIN offsets \cup {field.identifier}
             /\ offsets'[field.identifier] = stack_size'
             /\ \A id \in DOMAIN offsets :
                  id # field.identifier => offsets'[id] = offsets[id]
             /\ next' = next + 1 /\ method' = method /\ methods' = methods
<1>. DEFINE field == methods[method][next]
<1>1. method \in 1 .. Len(methods) /\ next \in 1 .. Len(methods[method])
  BY TypedFacts, SMTT(30) DEF PlaceField, FrameDone, Fields, Typed
<1>2. field \in FieldSet
  BY <1>1, TypedFacts
<1>3. /\ stack_size' = stack_size + field.value_count
      /\ offsets' = Insert(offsets, field.identifier, stack_size')
      /\ next' = next + 1 /\ method' = method /\ methods' = methods
  BY DEF PlaceField, Fields, naming
<1>. HIDE DEF field
<1>4. /\ DOMAIN offsets' = DOMAIN offsets \cup {field.identifier}
      /\ offsets'[field.identifier] = stack_size'
      /\ \A id \in DOMAIN offsets : id # field.identifier => offsets'[id] = offsets[id]
  BY <1>3 DEF Insert
<1>. QED
  BY <1>1, <1>2, <1>3, <1>4 DEF field

\* No method adds to the table of offsets an identifier that a global may have.
LEMMA OnlyLocalsStep ==
  ASSUME Typed, Naming, OnlyLocals, [Next]_vars
  PROVE  OnlyLocals'
<1>1. CASE PlaceField
  <2>. DEFINE field == methods[method][next]
  <2>1. Named(field, temporary_counter) /\ field \in FieldSet
    BY <1>1, PlaceFieldFacts DEF Naming, WellNamed
  <2>2. field.identifier.name = "$" \/ field.identifier.at > 0
    BY <2>1, EmptySeq DEF Named, IsTemporary, FieldSet
  <2>3. DOMAIN offsets' = DOMAIN offsets \cup {field.identifier}
    BY <1>1, PlaceFieldFacts
  <2>. QED
    BY <2>2, <2>3 DEF OnlyLocals
<1>2. CASE UNCHANGED offsets
  BY <1>2 DEF OnlyLocals
<1>. QED
  BY <1>1, <1>2
  DEF Next, BeginMethod, DeclareField, NewTemporary, BeginBlock, EndBlock, BeginFrame, vars, layout

\* While methods are generated no frame is laid out.
LEMMA NamingBeforeLayout ==
  ASSUME Phases,
         \/ BeginMethod
         \/ \E d \in Declarable : DeclareField(d[1], d[2])
         \/ NewTemporary
         \/ BeginBlock
         \/ EndBlock
  PROVE  method = 0 /\ method' = 0
BY DEF Phases, BeginMethod, DeclareField, NewTemporary, BeginBlock, EndBlock, layout

\* A step lays out a field, begins a frame, precedes all frames or changes nothing
\* of them.
LEMMA LayoutSteps ==
  ASSUME Typed, Phases, [Next]_vars
  PROVE  \/ PlaceField
         \/ PlacedFields' = {} /\ (method' > 0 => next' =< Len(methods'[method']) + 1)
         \/ UNCHANGED <<methods, layout>>
<1>1. CASE BeginFrame
  <2>1. /\ methods' = methods /\ method' \in 1 .. Len(methods) /\ next' = 1
        /\ method' # 0
    BY <1>1, TypedFacts DEF BeginFrame, naming, Typed
  <2>2. Len(methods[method']) \in Nat
    BY <2>1, TypedFacts
  <2>. QED
    BY <2>1, <2>2 DEF PlacedFields
<1>2. CASE \/ BeginMethod
           \/ \E d \in Declarable : DeclareField(d[1], d[2])
           \/ NewTemporary
           \/ BeginBlock
           \/ EndBlock
  BY <1>2, NamingBeforeLayout DEF PlacedFields
<1>. QED
  BY <1>1, <1>2 DEF Next, vars, naming

\* What is laid out stays where it is, or moves to where there is room: a field's
\* identifier only ever gets a greater offset.
LEMMA PlacedStep ==
  ASSUME Typed, Phases, Placed, [Next]_vars
  PROVE  Placed'
<1>1. CASE PlaceField
  <2>. DEFINE field == methods[method][next]
  <2>1. /\ method \in 1 .. Len(methods) /\ next \in 1 .. Len(methods[method])
        /\ field \in FieldSet
        /\ stack_size' = stack_size + field.value_count
        /\ DOMAIN offsets' = DOMAIN offsets \cup {field.identifier}
        /\ offsets'[field.identifier] = stack_size'
        /\ \A id \in DOMAIN offsets : id # field.identifier => offsets'[id] = offsets[id]
        /\ next' = next + 1 /\ method' = method /\ methods' = methods
    BY <1>1, PlaceFieldFacts
  <2>2. field.value_count \in Nat \ {0} /\ stack_size \in Nat
    BY <2>1 DEF FieldSet, Typed
  <2>. HIDE DEF field
  <2>3. PlacedFields' = PlacedFields \cup {next}
    BY <2>1 DEF PlacedFields
  <2>4. \A i \in PlacedFields :
          /\ methods[method][i] \in FieldSet
          /\ methods[method][i].identifier \in DOMAIN offsets
          /\ methods[method][i].value_count =< offsets[methods[method][i].identifier]
          /\ offsets[methods[method][i].identifier] =< stack_size
    BY <2>1, TypedFacts DEF Placed, PlacedFields, Fields
  <2>5. ASSUME NEW i \in PlacedFields'
        PROVE  /\ methods[method][i].identifier \in DOMAIN offsets'
               /\ methods[method][i].value_count =< offsets'[methods[method][i].identifier]
               /\ offsets'[methods[method][i].identifier] =< stack_size'
    <3>1. CASE i = next
      BY <2>1, <2>2, <3>1 DEF field
    <3>2. CASE i \in PlacedFields
      <4>. DEFINE f == methods[method][i]
      <4>1. /\ f.identifier \in DOMAIN offsets /\ f.value_count =< offsets[f.identifier]
            /\ offsets[f.identifier] =< stack_size
            /\ f.value_count \in Nat /\ offsets[f.identifier] \in Nat
        BY <2>4, <3>2 DEF FieldSet, Typed
      <4>. HIDE DEF f
      <4>2. offsets'[f.identifier] \in {offsets[f.identifier], stack_size'}
        BY <2>1, <4>1
      <4>3. /\ f.identifier \in DOMAIN offsets'
            /\ f.value_count =< offsets'[f.identifier]
            /\ offsets'[f.identifier] =< stack_size'
        BY <2>1, <2>2, <4>1, <4>2, SMTT(30)
      <4>. QED
        BY <4>3 DEF f
    <3>. QED
      BY <2>3, <3>1, <3>2
  <2>. QED
    BY <2>1, <2>5, TypedFacts DEF Placed, Fields
<1>2. CASE PlacedFields' = {} /\ (method' > 0 => next' =< Len(methods'[method']) + 1)
  BY <1>2 DEF Placed, Fields
<1>3. CASE UNCHANGED <<methods, layout>>
  BY <1>3 DEF Placed, PlacedFields, Fields, layout
<1>. QED
  BY <1>1, <1>2, <1>3, LayoutSteps

\* Fields of one identifier have one length, when a name has.
LEMMA OneLengthOfFields ==
  ASSUME OneLength, Typed, Naming, NEW m \in 1 .. Len(methods),
         NEW i \in 1 .. Len(methods[m]), NEW j \in 1 .. Len(methods[m]),
         methods[m][i].identifier = methods[m][j].identifier
  PROVE  methods[m][i].value_count = methods[m][j].value_count
<1>. DEFINE f == methods[m][i]  g == methods[m][j]
<1>1. Named(f, temporary_counter) /\ Named(g, temporary_counter)
  BY DEF Naming, WellNamed
<1>. HIDE DEF f, g
<1>2. f.identifier = g.identifier
  BY DEF f, g
<1>3. f.value_count = g.value_count
  BY <1>1, <1>2 DEF Named, OneLength, IsTemporary
<1>. QED
  BY <1>3 DEF f, g

\* Fields of different identifiers stay apart: the new one lies below all others,
\* and one of its identifier that moves there is as long as it is.
LEMMA ApartStep ==
  ASSUME OneLength, Typed, Phases, Naming, Placed, Apart, [Next]_vars
  PROVE  Apart'
<1>1. CASE PlaceField
  <2>. DEFINE field == methods[method][next]
  <2>1. /\ method \in 1 .. Len(methods) /\ next \in 1 .. Len(methods[method])
        /\ field \in FieldSet
        /\ stack_size' = stack_size + field.value_count
        /\ offsets'[field.identifier] = stack_size'
        /\ \A id \in DOMAIN offsets : id # field.identifier => offsets'[id] = offsets[id]
        /\ next' = next + 1 /\ method' = method /\ methods' = methods
    BY <1>1, PlaceFieldFacts
  <2>2. field.value_count \in Nat \ {0} /\ stack_size \in Nat
    BY <2>1 DEF FieldSet, Typed
  <2>3. PlacedFields' = PlacedFields \cup {next} /\ PlacedFields' \subseteq 1 .. Len(methods[method])
    BY <2>1, TypedFacts DEF PlacedFields
  <2>4. \A i \in PlacedFields :
          /\ methods[method][i].identifier \in DOMAIN offsets
          /\ offsets[methods[method][i].identifier] =< stack_size
    BY <2>1 DEF Placed, Fields
  <2>5. ASSUME NEW i \in PlacedFields', NEW j \in PlacedFields',
               methods[method][i].identifier # methods[method][j].identifier
        PROVE  LET f == methods[method][i]  g == methods[method][j]
               IN  \/ offsets'[f.identifier] =< offsets'[g.identifier] - g.value_count
                   \/ offsets'[g.identifier] =< offsets'[f.identifier] - f.value_count
    <3>. DEFINE f == methods[method][i]  g == methods[method][j]
    <3>1. f \in FieldSet /\ g \in FieldSet
      BY <2>1, <2>3, TypedFacts
    <3>2. CASE f.identifier = field.identifier
      <4>1. f.value_count = field.value_count
        BY <2>1, <2>3, <3>2, OneLengthOfFields
      <4>2. j \in PlacedFields
        BY <2>3, <2>5, <3>2
      <4>3. /\ g.identifier \in DOMAIN offsets /\ offsets[g.identifier] =< stack_size
            /\ g.identifier # field.identifier
        BY <2>4, <2>5, <3>2, <4>2
      <4>4. offsets'[g.identifier] =< stack_size /\ offsets'[f.identifier] = stack_size'
        BY <2>1, <3>2, <4>3
      <4>. QED
        BY <2>1, <2>2, <4>1, <4>4
    <3>3. CASE g.identifier = field.identifier
      <4>1. g.value_count = field.value_count
        BY <2>1, <2>3, <3>3, OneLengthOfFields
      <4>2. i \in PlacedFields
        BY <2>3, <2>5, <3>3
      <4>3. /\ f.identifier \in DOMAIN offsets /\ offsets[f.identifier] =< stack_size
            /\ f.identifier # field.identifier
        BY <2>4, <2>5, <3>3, <4>2
      <4>4. offsets'[f.identifier] =< stack_size /\ offsets'[g.identifier] = stack_size'
        BY <2>1, <3>3, <4>3
      <4>. QED
        BY <2>1, <2>2, <4>1, <4>4
    <3>4. CASE f.identifier # field.identifier /\ g.identifier # field.identifier
      <4>1. i \in PlacedFields /\ j \in PlacedFields
        BY <2>3, <3>4
      <4>2. /\ offsets'[f.identifier] = offsets[f.identifier]
            /\ offsets'[g.identifier] = offsets[g.identifier]
        BY <2>1, <2>4, <3>4, <4>1
      <4>. QED
        BY <2>5, <4>1, <4>2 DEF Apart, Below, Fields
    <3>. QED
      BY <3>2, <3>3, <3>4
  <2>. QED
    BY <2>1, <2>5 DEF Apart, Below, Fields
<1>2. CASE PlacedFields' = {}
  BY <1>2 DEF Apart
<1>3. CASE UNCHANGED <<methods, layout>>
  BY <1>3 DEF Apart, Below, PlacedFields, Fields, layout
<1>. QED
  BY <1>1, <1>2, <1>3, LayoutSteps

-----------------------------------------------------------------------------
(* The invariant, and what follows from it *)

\* Before anything is generated the invariant holds.
LEMMA InitIInv == Init => IInv /\ Apart
<1>. SUFFICES ASSUME Init PROVE IInv /\ Apart
  OBVIOUS
<1>1. Typed
  <2>1. methods \in Seq(Seq(FieldSet)) /\ scopes \in Seq(1 .. MaxScopes)
    BY DEF Init
  <2>2. scope_count \in 0 .. MaxScopes /\ temporary_counter \in Nat /\ stack_size \in Nat
    BY BoundsAssumption DEF Init
  <2>3. declaring \in BOOLEAN
    BY DEF Init
  <2>4. method \in 0 .. Len(methods) /\ next \in Nat \ {0}
    BY DEF Init
  <2>5. DOMAIN offsets = {}
    BY DEF Init
  <2>. QED
    BY <2>1, <2>2, <2>3, <2>4, <2>5 DEF Typed
<1>2. Phases /\ Naming /\ Placed /\ OnlyLocals /\ Apart
  BY DEF Init, Phases, Naming, Placed, PlacedFields, OnlyLocals, Apart
<1>5. Blocks
  BY DEF Init, Blocks
<1>3. FieldCount = 0
  <2>. DEFINE c == CHOOSE x : Counts(<<>>, 0, x)
  <2>1. CountOf(<<>>) = c[0]
    BY DEF CountOf
  <2>2. Counts(<<>>, 0, c)
    BY CountsChosen
  <2>. HIDE DEF c
  <2>3. c[0] = 0
    BY <2>2 DEF Counts
  <2>. QED
    BY <2>1, <2>3, FieldCountIsCountOf DEF Init
<1>4. Counted
  BY <1>3, BoundsAssumption DEF Init, Counted
<1>. QED
  BY <1>1, <1>2, <1>4, <1>5 DEF IInv

\* IInv is inductive.
LEMMA StepIInv == IInv /\ [Next]_vars => IInv'
BY TypedStep, PhasesStep, BlocksStep, NamingStep, CountedStep, PlacedStep, OnlyLocalsStep DEF IInv

\* The names and the layout are sound in every reachable state.
THEOREM Invariance == Spec => []IInv
<1>. QED
  BY InitIInv, StepIInv, PTL DEF Spec

\* TypeOK says less than Typed and Counted do.
LEMMA IInvImpliesTypeOK == IInv => TypeOK
<1>. SUFFICES ASSUME IInv PROVE TypeOK
  OBVIOUS
<1>1. \A m \in 1 .. Len(methods) : \A i \in 1 .. Len(methods[m]) :
        methods[m][i].value_count \in Nat \ {0}
  BY TypedFacts DEF IInv, FieldSet
<1>2. temporary_counter \in 0 .. MaxFields
  <2>1. FieldCount \in Nat
    BY FieldCountIsCountOf, CountIsNat DEF IInv, Typed
  <2>. QED
    BY <2>1, BoundsAssumption DEF IInv, Typed, Counted
<1>. QED
  BY <1>1, <1>2 DEF IInv, Typed, Blocks, TypeOK

\* Every variable of the generation and the layout of frames has its type, and the
\* offsets are positive, as load_to_register takes them to be.
THEOREM TypeCorrect == Spec => []TypeOK
<1>. QED
  BY Invariance, IInvImpliesTypeOK, PTL

\* The frames of a laid out method hold its fields, each of which has its place.
LEMMA AllPlaced ==
  ASSUME IInv, FrameDone
  PROVE  /\ method \in 1 .. Len(methods)
         /\ PlacedFields = 1 .. Len(methods[method])
BY TypedFacts DEF IInv, Typed, Placed, FrameDone, Fields, PlacedFields

\* Words from the lowest one up.
LEMMA CellsAre ==
  ASSUME Typed, NEW field \in FieldSet, field.identifier \in DOMAIN offsets
  PROVE  \A c \in Cells(field) :
           /\ c \in Int /\ c =< offsets[field.identifier]
           /\ c > offsets[field.identifier] - field.value_count
<1>1. offsets[field.identifier] \in Nat /\ field.value_count \in Nat
  BY DEF Typed, FieldSet
<1>. QED
  BY <1>1 DEF Cells

\* generate_stack_allocation gives every field of a method words inside its frame,
\* even where a name is an array in one scope and a scalar in another.
THEOREM FramesHoldTheirFields == Spec => []FieldsStayInFrame
<1>1. IInv => FieldsStayInFrame
  <2>. SUFFICES ASSUME IInv, FrameDone, NEW i \in 1 .. Len(methods[method])
                PROVE  Cells(methods[method][i]) \subseteq 1 .. FrameSize
    BY DEF FieldsStayInFrame, Fields
  <2>. DEFINE field == methods[method][i]
  <2>1. /\ field \in FieldSet /\ field.identifier \in DOMAIN offsets
        /\ field.value_count =< offsets[field.identifier]
        /\ offsets[field.identifier] =< stack_size
    BY AllPlaced, TypedFacts DEF IInv, Placed, Fields
  <2>2. /\ field.value_count \in Nat \ {0} /\ offsets[field.identifier] \in Nat
        /\ stack_size \in Nat
    BY <2>1 DEF IInv, Typed, FieldSet
  <2>. HIDE DEF field
  <2>3. \A c \in Cells(field) :
          /\ c \in Int /\ c =< offsets[field.identifier]
          /\ c > offsets[field.identifier] - field.value_count
    BY <2>1, CellsAre DEF IInv
  <2>4. FrameSize \in Nat /\ stack_size =< FrameSize
    BY <2>2 DEF FrameSize
  <2>5. Cells(field) \subseteq 1 .. FrameSize
    BY <2>1, <2>2, <2>3, <2>4
  <2>. QED
    BY <2>5 DEF field
<1>. QED
  BY <1>1, Invariance, PTL

\* Fields of one identifier do not hold values together: they are in different
\* scopes of one level, neither of which encloses the other.
LEMMA NamesakesAreNotLive ==
  ASSUME NEW f \in FieldSet, NEW g \in FieldSet, NEW c, NEW d,
         Named(f, c), Named(g, d), Distinct(f, g), LiveTogether(f, g)
  PROVE  f.identifier # g.identifier
<1>. SUFFICES ASSUME f.identifier = g.identifier PROVE FALSE
  OBVIOUS
<1>1. f.path # g.path /\ Len(f.path) = Len(g.path)
  BY DEF Distinct, Named, IsTemporary
<1>2. f.path \in Seq(1 .. MaxScopes) /\ g.path \in Seq(1 .. MaxScopes)
  BY DEF FieldSet
<1>3. SubSeq(f.path, 1, Len(f.path)) = f.path /\ SubSeq(g.path, 1, Len(g.path)) = g.path
  BY <1>2
<1>. QED
  BY <1>1, <1>3 DEF LiveTogether, IsPrefix

\* If every declaration of a name has one length, no two fields that hold values at
\* the same time share a word of the frame generate_stack_allocation lays out.
THEOREM FieldsAreApart ==
  ASSUME OneLength
  PROVE  Spec => []FieldsDoNotOverlap
<1>1. IInv /\ Apart /\ [Next]_vars => IInv' /\ Apart'
  BY StepIInv, ApartStep DEF IInv
<1>2. IInv /\ Apart => FieldsDoNotOverlap
  <2>. SUFFICES ASSUME IInv, Apart, FrameDone,
                       NEW i \in 1 .. Len(methods[method]), NEW j \in 1 .. Len(methods[method]),
                       i # j, LiveTogether(methods[method][i], methods[method][j])
                PROVE  Cells(methods[method][i]) \cap Cells(methods[method][j]) = {}
    BY DEF FieldsDoNotOverlap, Fields
  <2>. DEFINE f == methods[method][i]  g == methods[method][j]
  <2>1. /\ f \in FieldSet /\ f.identifier \in DOMAIN offsets
        /\ g \in FieldSet /\ g.identifier \in DOMAIN offsets
    BY AllPlaced, TypedFacts DEF IInv, Placed, Fields
  <2>2. f.identifier # g.identifier
    <3>1. /\ Named(f, temporary_counter) /\ Named(g, temporary_counter) /\ Distinct(f, g)
      BY AllPlaced DEF IInv, Naming, WellNamed
    <3>. QED
      BY <2>1, <3>1, NamesakesAreNotLive
  <2>3. Below(f, g) \/ Below(g, f)
    BY <2>2, AllPlaced DEF Apart, Fields
  <2>4. /\ offsets[f.identifier] \in Nat /\ f.value_count \in Nat
        /\ offsets[g.identifier] \in Nat /\ g.value_count \in Nat
    BY <2>1 DEF IInv, Typed, FieldSet
  <2>. HIDE DEF f, g
  <2>5. /\ \A c \in Cells(f) : /\ c \in Int /\ c =< offsets[f.identifier]
                               /\ c > offsets[f.identifier] - f.value_count
        /\ \A c \in Cells(g) : /\ c \in Int /\ c =< offsets[g.identifier]
                               /\ c > offsets[g.identifier] - g.value_count
    BY <2>1, CellsAre DEF IInv
  <2>6. Cells(f) \cap Cells(g) = {}
    BY <2>3, <2>4, <2>5, SMTT(30) DEF Below
  <2>. QED
    BY <2>6 DEF f, g
<1>. QED
  BY <1>1, <1>2, InitIInv, PTL DEF Spec

\* code_generator's table of offsets, which no method clears, never holds the
\* identifier of a global.
THEOREM GlobalsAreNotCaptured == Spec => []GlobalsKeepTheirLabels
<1>1. IInv => GlobalsKeepTheirLabels
  BY NamesAssumption DEF IInv, OnlyLocals, GlobalsKeepTheirLabels, GlobalIdentifiers, Identifier
<1>. QED
  BY <1>1, Invariance, PTL
===============================================================================
