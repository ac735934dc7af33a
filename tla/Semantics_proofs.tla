--------------------------- MODULE Semantics_proofs ---------------------------
(***************************************************************************)
(* The two walks of Semantics, for programs of any size.  As long as there *)
(* is no error the analysis and the generator keep the same tables         *)
(* (Alike), so the two ways of looking a name up are compared on one stack *)
(* of tables: the one climbs from the innermost table, the other takes the *)
(* last table that has the name.                                           *)
(***************************************************************************)
EXTENDS Semantics, SequenceTheorems, FiniteSetTheorems, WellFoundedInduction, TLAPS

Tables == UNION {[names -> 0 .. MaxDeclarations] : names \in SUBSET Names}
Kinds == {"method", "loop", "if"}

LoopBlocks(stack) == {b \in DOMAIN stack : stack[b] = "loop"}

Typed ==
  /\ stage \in {"imports", "fields", "methods", "done"}
  /\ error \in BOOLEAN
  /\ fields_tables \in Seq(Tables)
  /\ tables \in Seq(Tables)
  /\ DOMAIN methods_table \subseteq Names
  /\ loop_depth \in Nat /\ loops \in Nat
  /\ blocks \in Seq(Kinds) /\ Len(blocks) =< MaxBlocks
  /\ declaring \in BOOLEAN
  /\ declarations \in 0 .. MaxDeclarations

\* Both stacks hold the program's table and one for each block; the analysis ends
\* by popping the program's.
Shape ==
  /\ Len(tables) = Len(blocks) + 1
  /\ stage # "done" => Len(fields_tables) = Len(blocks) + 1
  /\ stage # "methods" => blocks = <<>>
  /\ declaring => blocks # <<>>

Alike == (~ error /\ stage # "done") => fields_tables = tables

IInv == Typed /\ Shape /\ Alike /\ LoopDepthIsExact /\ GlobalNamesAreDistinct

-----------------------------------------------------------------------------
(* Stacks and tables *)

\* A non-empty set of naturals has a least element.
LEMMA LeastElement ==
  ASSUME NEW S \in SUBSET Nat, NEW e \in S
  PROVE  \E d \in S : \A c \in S : d =< c
<1>1. PICK d \in S : \A c \in S : <<c, d>> \notin OpToRel(<, Nat)
  BY WFMin, NatLessThanWellFounded, Zenon
<1>2. \A c \in S : ~ c < d
  BY <1>1, Zenon DEF OpToRel
<1>. QED
  BY <1>2

\* What tables are, and that an insertion makes one of one.
LEMMA TableFacts ==
  /\ Empty \in Tables
  /\ \A table \in Tables : DOMAIN table \subseteq Names
  /\ \A table \in Tables, name \in Names, value \in 0 .. MaxDeclarations :
       Insert(table, name, value) \in Tables
<1>1. Empty \in Tables
  <2>1. Empty = [n \in {} |-> 0]
    BY DEF Empty
  <2>2. [n \in {} |-> 0] \in [{} -> 0 .. MaxDeclarations]
    OBVIOUS
  <2>. QED
    BY <2>1, <2>2 DEF Tables
<1>2. ASSUME NEW table \in Tables
      PROVE  /\ DOMAIN table \subseteq Names
             /\ table \in [DOMAIN table -> 0 .. MaxDeclarations]
  BY DEF Tables
<1>3. ASSUME NEW table \in Tables, NEW name \in Names, NEW value \in 0 .. MaxDeclarations
      PROVE  Insert(table, name, value) \in Tables
  <2>1. /\ Insert(table, name, value) \in [DOMAIN table \cup {name} -> 0 .. MaxDeclarations]
        /\ DOMAIN table \cup {name} \in SUBSET Names
    BY <1>2 DEF Insert
  <2>. QED
    BY <2>1 DEF Tables
<1>. QED
  BY <1>1, <1>2, <1>3

\* Popping a stack takes its last element off.
LEMMA PopFacts ==
  ASSUME NEW S, NEW stack \in Seq(S), stack # <<>>
  PROVE  /\ PopOf(stack) \in Seq(S)
         /\ Len(stack) \in Nat /\ Len(stack) > 0
         /\ Len(PopOf(stack)) = Len(stack) - 1
         /\ \A i \in 1 .. Len(stack) - 1 : PopOf(stack)[i] = stack[i]
<1>1. PICK n \in Nat : n = Len(stack) /\ n > 0
  BY EmptySeq
<1>2. n - 1 \in Int /\ 1 \in Int /\ \A i \in 1 .. n - 1 : stack[i] \in S
  BY <1>1, ElementOfSeq
<1>3. /\ PopOf(stack) \in Seq(S)
      /\ Len(PopOf(stack)) = IF 1 =< n - 1 THEN n - 1 - 1 + 1 ELSE 0
      /\ \A i \in 1 .. n - 1 - 1 + 1 : PopOf(stack)[i] = stack[1 + i - 1]
  BY <1>1, <1>2, SubSeqProperties DEF PopOf
<1>4. Len(PopOf(stack)) = n - 1 /\ \A i \in 1 .. n - 1 : PopOf(stack)[i] = stack[i]
  BY <1>1, <1>3
<1>. QED
  BY <1>1, <1>3, <1>4

\* An insertion changes the innermost table only.
LEMMA InsertOnTopFacts ==
  ASSUME NEW stack \in Seq(Tables), stack # <<>>, NEW name \in Names,
         NEW value \in 0 .. MaxDeclarations
  PROVE  LET new == InsertOnTop(stack, name, value)
         IN  /\ new \in Seq(Tables)
             /\ Len(new) = Len(stack)
             /\ \A i \in 1 .. Len(stack) : i # Len(stack) => new[i] = stack[i]
             /\ DOMAIN new[Len(stack)] = DOMAIN stack[Len(stack)] \cup {name}
<1>1. Len(stack) \in 1 .. Len(stack) /\ stack[Len(stack)] \in Tables
  BY EmptySeq
<1>. DEFINE table == Insert(stack[Len(stack)], name, value)
<1>2. table \in Tables /\ DOMAIN table = DOMAIN stack[Len(stack)] \cup {name}
  BY <1>1, TableFacts DEF Insert
<1>3. InsertOnTop(stack, name, value) = [stack EXCEPT ![Len(stack)] = table]
  BY DEF InsertOnTop
<1>. HIDE DEF table
<1>. QED
  BY <1>1, <1>2, <1>3, ExceptSeq

\* The loops of a stack of blocks are finitely many, no more than the blocks.
LEMMA LoopBlocksFinite ==
  ASSUME NEW stack \in Seq(Kinds)
  PROVE  /\ IsFiniteSet(LoopBlocks(stack))
         /\ Cardinality(LoopBlocks(stack)) \in Nat
         /\ Cardinality(LoopBlocks(stack)) =< Len(stack)
<1>1. LoopBlocks(stack) \subseteq 1 .. Len(stack) /\ Len(stack) \in Nat
  BY DEF LoopBlocks
<1>2. IsFiniteSet(1 .. Len(stack)) /\ Cardinality(1 .. Len(stack)) = Len(stack)
  <2>1. 1 \in Int /\ Len(stack) \in Int
    BY <1>1
  <2>2. Cardinality(1 .. Len(stack)) = IF 1 > Len(stack) THEN 0 ELSE Len(stack) - 1 + 1
    BY <2>1, FS_Interval
  <2>. QED
    BY <1>1, <2>1, <2>2, FS_Interval, SMTT(30)
<1>. QED
  BY <1>1, <1>2, FS_Subset, FS_CardinalityType

\* An opened block is one loop more or none.
LEMMA LoopBlocksAppend ==
  ASSUME NEW stack \in Seq(Kinds), NEW kind \in Kinds
  PROVE  Cardinality(LoopBlocks(Append(stack, kind)))
           = Cardinality(LoopBlocks(stack)) + (IF kind = "loop" THEN 1 ELSE 0)
<1>1. /\ Len(stack) \in Nat /\ Len(Append(stack, kind)) = Len(stack) + 1
      /\ \A i \in 1 .. Len(stack) : Append(stack, kind)[i] = stack[i]
      /\ Append(stack, kind)[Len(stack) + 1] = kind
      /\ DOMAIN stack = 1 .. Len(stack)
      /\ DOMAIN Append(stack, kind) = 1 .. Len(stack) + 1
  OBVIOUS
<1>2. LoopBlocks(Append(stack, kind))
        = LoopBlocks(stack) \cup (IF kind = "loop" THEN {Len(stack) + 1} ELSE {})
  BY <1>1 DEF LoopBlocks
<1>3. Len(stack) + 1 \notin LoopBlocks(stack)
  BY <1>1 DEF LoopBlocks
<1>4. CASE kind = "loop"
  BY <1>2, <1>3, <1>4, LoopBlocksFinite, FS_AddElement
<1>5. CASE kind # "loop"
  <2>1. LoopBlocks(Append(stack, kind)) = LoopBlocks(stack)
    BY <1>2, <1>5
  <2>. QED
    BY <2>1, <1>5, LoopBlocksFinite
<1>. QED
  BY <1>4, <1>5

\* A closed block is one loop less or none.
LEMMA LoopBlocksPop ==
  ASSUME NEW stack \in Seq(Kinds), stack # <<>>
  PROVE  Cardinality(LoopBlocks(PopOf(stack)))
           = Cardinality(LoopBlocks(stack)) - (IF Top(stack) = "loop" THEN 1 ELSE 0)
<1>1. /\ Len(stack) \in Nat /\ Len(stack) > 0
      /\ DOMAIN stack = 1 .. Len(stack) /\ DOMAIN PopOf(stack) = 1 .. Len(stack) - 1
      /\ \A i \in 1 .. Len(stack) - 1 : PopOf(stack)[i] = stack[i]
  BY PopFacts
<1>2. LoopBlocks(PopOf(stack)) = LoopBlocks(stack) \ {Len(stack)}
  BY <1>1 DEF LoopBlocks
<1>3. Len(stack) \in LoopBlocks(stack) <=> Top(stack) = "loop"
  BY <1>1 DEF LoopBlocks, Top
<1>4. CASE Top(stack) = "loop"
  BY <1>2, <1>3, <1>4, LoopBlocksFinite, FS_RemoveElement
<1>5. CASE Top(stack) # "loop"
  <2>1. LoopBlocks(PopOf(stack)) = LoopBlocks(stack)
    BY <1>2, <1>3, <1>5
  <2>. QED
    BY <2>1, <1>5, LoopBlocksFinite
<1>. QED
  BY <1>4, <1>5

-----------------------------------------------------------------------------
(* What the actions do to the tables *)

\* Both stacks hold a table at least, while the program is read.
LEMMA ShapeFacts ==
  ASSUME Typed, Shape
  PROVE  /\ Len(blocks) \in Nat
         /\ tables # <<>> /\ 1 \in 1 .. Len(tables)
         /\ stage # "done" => fields_tables # <<>>
         /\ (stage # "done" /\ blocks = <<>>) => Top(fields_tables) = fields_tables[1]
BY EmptySeq DEF Typed, Shape, Top

\* declare_method enters the name, or reports an error.
LEMMA DeclareMethodFacts ==
  ASSUME Typed, NEW name \in Names, NEW m, DeclareMethod(name, m)
  PROVE  /\ error' \in BOOLEAN
         /\ ~ error' => ~ error
         /\ DOMAIN methods_table' \subseteq Names
         /\ DOMAIN methods_table' \subseteq DOMAIN methods_table \cup {name}
         /\ ~ error' => name \notin DOMAIN Top(fields_tables)
         /\ error' => error \/ methods_table' = methods_table
<1>1. CASE name \in DOMAIN methods_table \/ name \in DOMAIN Top(fields_tables)
  <2>1. error' = TRUE /\ methods_table' = methods_table
    BY <1>1 DEF DeclareMethod
  <2>. QED
    BY <2>1 DEF Typed
<1>2. CASE ~ (name \in DOMAIN methods_table \/ name \in DOMAIN Top(fields_tables))
  <2>1. error' = error /\ DOMAIN methods_table' = DOMAIN methods_table \cup {name}
    BY <1>2 DEF DeclareMethod, Insert
  <2>. QED
    BY <1>2, <2>1 DEF Typed
<1>. QED
  BY <1>1, <1>2

\* analyze_field enters the name into both innermost tables, or reports an error.
LEMMA AnalyzeFieldFacts ==
  ASSUME Typed, Shape, NEW name \in Names, AnalyzeField(name)
  PROVE  /\ stage # "done"
         /\ declarations' = declarations + 1 /\ declarations' \in 0 .. MaxDeclarations
         /\ tables' = InsertOnTop(tables, name, declarations')
         /\ \/ error' = TRUE /\ fields_tables' = fields_tables
            \/ /\ error' = error
               /\ fields_tables' = InsertOnTop(fields_tables, name, declarations')
               /\ Len(fields_tables) = 1 => name \notin DOMAIN methods_table
         /\ UNCHANGED <<stage, methods_table, loop_depth, blocks, declaring, loops>>
<1>1. declarations + 1 \in 0 .. MaxDeclarations
  BY BoundsAssumption DEF AnalyzeField, DeclareField, Typed
<1>2. stage # "done"
  BY DEF AnalyzeField, Shape
<1>. QED
  BY <1>1, <1>2 DEF AnalyzeField, DeclareField, GenerateField

\* A new scope, of a kind and with the fields that are its arguments.
LEMMA PushScopeFacts ==
  ASSUME Typed, NEW kind \in Kinds, NEW fields \in Tables, PushScope(kind, fields)
  PROVE  /\ fields_tables' \in Seq(Tables) /\ Len(fields_tables') = Len(fields_tables) + 1
         /\ tables' \in Seq(Tables) /\ Len(tables') = Len(tables) + 1
         /\ \A i \in 1 .. Len(tables) : tables'[i] = tables[i]
         /\ blocks' \in Seq(Kinds) /\ Len(blocks') = Len(blocks) + 1
         /\ Len(blocks') =< MaxBlocks
         /\ blocks' # <<>>
         /\ declaring' \in BOOLEAN
         /\ fields_tables = tables => fields_tables' = tables'
<1>1. /\ Len(blocks) < MaxBlocks /\ Len(blocks) \in Nat
      /\ blocks' = Append(blocks, kind)
      /\ fields_tables' = Append(fields_tables, fields)
      /\ tables' = Append(tables, fields)
  BY DEF PushScope, Typed
<1>2. declaring' \in BOOLEAN
  BY DEF PushScope
<1>3. blocks' \in Seq(Kinds) /\ Len(blocks') = Len(blocks) + 1
  BY <1>1 DEF Typed
<1>4. fields_tables' \in Seq(Tables) /\ Len(fields_tables') = Len(fields_tables) + 1
  BY <1>1 DEF Typed
<1>5. /\ tables' \in Seq(Tables) /\ Len(tables') = Len(tables) + 1
      /\ \A i \in 1 .. Len(tables) : tables'[i] = tables[i]
  BY <1>1 DEF Typed
<1>. QED
  BY <1>1, <1>2, <1>3, <1>4, <1>5, BoundsAssumption, EmptySeq

\* The end of a scope.
LEMMA EndBlockFacts ==
  ASSUME Typed, Shape, EndBlock
  PROVE  /\ stage = "methods" /\ stage' = stage
         /\ fields_tables' = PopOf(fields_tables) /\ fields_tables # <<>>
         /\ tables' = PopOf(tables) /\ tables # <<>>
         /\ blocks' = PopOf(blocks) /\ blocks # <<>>
         /\ declaring' = FALSE
         /\ UNCHANGED <<error, methods_table, declarations>>
BY ShapeFacts DEF EndBlock, Shape

\* The fields of a method's scope.
LEMMA ArgumentTable ==
  ASSUME NEW arguments \in SUBSET Names, NEW n \in 0 .. MaxDeclarations
  PROVE  [argument \in arguments |-> n] \in Tables
BY DEF Tables

-----------------------------------------------------------------------------
(* The invariant, step by step *)

\* The steps that leave the tables and the blocks alone.
Statement ==
  \/ \E name \in Names : Use(name)
  \/ \E name \in Names, arguments \in 0 .. 1 : AnalyzeMethodCall(name, arguments)
  \/ BreakOrContinue

\* An error stays, and nothing else is changed but the end of the declarations.
LEMMA StatementFacts ==
  ASSUME Typed, Statement
  PROVE  /\ blocks # <<>>
         /\ error' \in BOOLEAN /\ (~ error' => ~ error)
         /\ declaring' = FALSE
         /\ UNCHANGED <<stage, fields_tables, methods_table, loop_depth, blocks, tables,
                        loops, declarations>>
BY DEF Typed, Statement, Use, AnalyzeMethodCall, BreakOrContinue, StatementUnchanged

\* A method has at most one argument.
LEMMA ArgumentsAreFew ==
  ASSUME NEW arguments \in {{}} \cup {{a} : a \in Names}
  PROVE  arguments \in SUBSET Names /\ Cardinality(arguments) \in Nat
<1>1. CASE arguments = {}
  BY <1>1, FS_EmptySet
<1>2. CASE arguments \in {{a} : a \in Names}
  <2>1. PICK a \in Names : arguments = {a}
    BY <1>2
  <2>2. Cardinality({a}) = 1
    BY FS_Singleton
  <2>. QED
    BY <2>1, <2>2
<1>. QED
  BY <1>1, <1>2

\* One step after the other keeps the types.
LEMMA TypedStep ==
  ASSUME Typed, Shape, LoopDepthIsExact, [Next]_vars
  PROVE  Typed'
<1>1. ASSUME NEW name \in Names, AnalyzeImport(name)
      PROVE  Typed'
  <2>1. error' \in BOOLEAN /\ DOMAIN methods_table' \subseteq Names
    BY <1>1, DeclareMethodFacts DEF AnalyzeImport
  <2>. QED
    BY <1>1, <2>1 DEF AnalyzeImport, Typed
<1>2. ASSUME NEW name \in Names, AnalyzeField(name)
      PROVE  Typed'
  <2>1. declarations' \in 0 .. MaxDeclarations /\ error' \in BOOLEAN
    BY <1>2, AnalyzeFieldFacts DEF Typed
  <2>2. tables' \in Seq(Tables) /\ fields_tables' \in Seq(Tables)
    <3>1. /\ tables # <<>> /\ fields_tables # <<>>
          /\ tables \in Seq(Tables) /\ fields_tables \in Seq(Tables)
      BY <1>2, AnalyzeFieldFacts, ShapeFacts DEF Typed
    <3>2. /\ InsertOnTop(tables, name, declarations') \in Seq(Tables)
          /\ InsertOnTop(fields_tables, name, declarations') \in Seq(Tables)
      BY <2>1, <3>1, InsertOnTopFacts
    <3>. QED
      BY <1>2, <3>1, <3>2, AnalyzeFieldFacts
  <2>3. UNCHANGED <<stage, methods_table, loop_depth, blocks, declaring, loops>>
    BY <1>2, AnalyzeFieldFacts
  <2>. QED
    BY <2>1, <2>2, <2>3 DEF Typed
<1>3. CASE EndImports \/ EndFields
  BY <1>3 DEF EndImports, EndFields, Typed
<1>4. ASSUME NEW name \in Names, NEW returns_void \in BOOLEAN, NEW arguments \in SUBSET Names,
             BeginMethod(name, returns_void, arguments),
             Cardinality(arguments) \in Nat
      PROVE  Typed'
  <2>1. error' \in BOOLEAN /\ DOMAIN methods_table' \subseteq Names
    BY <1>4, DeclareMethodFacts DEF BeginMethod
  <2>2. declarations' \in 0 .. MaxDeclarations
    BY <1>4, BoundsAssumption DEF BeginMethod, Typed
  <2>3. /\ fields_tables' \in Seq(Tables) /\ tables' \in Seq(Tables)
        /\ blocks' \in Seq(Kinds) /\ Len(blocks') =< MaxBlocks /\ declaring' \in BOOLEAN
    BY <1>4, <2>2, ArgumentTable, PushScopeFacts DEF BeginMethod, Kinds
  <2>4. UNCHANGED <<stage, loop_depth, loops>>
    BY <1>4 DEF BeginMethod
  <2>. QED
    BY <2>1, <2>2, <2>3, <2>4 DEF Typed
<1>5. CASE BeginLoop
  <2>1. /\ fields_tables' \in Seq(Tables) /\ tables' \in Seq(Tables)
        /\ blocks' \in Seq(Kinds) /\ Len(blocks') =< MaxBlocks /\ declaring' \in BOOLEAN
    BY <1>5, TableFacts, PushScopeFacts DEF BeginLoop, Kinds
  <2>2. loop_depth' \in Nat /\ loops' \in Nat
    BY <1>5 DEF BeginLoop, Typed
  <2>3. UNCHANGED <<stage, error, methods_table, declarations>>
    BY <1>5 DEF BeginLoop
  <2>. QED
    BY <2>1, <2>2, <2>3 DEF Typed
<1>6. CASE BeginIf
  <2>1. /\ fields_tables' \in Seq(Tables) /\ tables' \in Seq(Tables)
        /\ blocks' \in Seq(Kinds) /\ Len(blocks') =< MaxBlocks /\ declaring' \in BOOLEAN
    BY <1>6, TableFacts, PushScopeFacts DEF BeginIf, Kinds
  <2>2. UNCHANGED <<stage, error, methods_table, loop_depth, loops, declarations>>
    BY <1>6 DEF BeginIf
  <2>. QED
    BY <2>1, <2>2 DEF Typed
<1>7. CASE EndBlock
  <2>1. fields_tables' \in Seq(Tables) /\ tables' \in Seq(Tables)
    BY <1>7, EndBlockFacts, PopFacts DEF Typed
  <2>2. blocks' \in Seq(Kinds) /\ Len(blocks') =< MaxBlocks
    <3>1. blocks # <<>> /\ blocks' = PopOf(blocks) /\ blocks \in Seq(Kinds)
      BY <1>7, EndBlockFacts DEF Typed
    <3>2. /\ PopOf(blocks) \in Seq(Kinds) /\ Len(blocks) \in Nat
          /\ Len(PopOf(blocks)) = Len(blocks) - 1
      BY <3>1, PopFacts
    <3>. QED
      BY <3>1, <3>2, BoundsAssumption DEF Typed
  <2>3. loop_depth' \in Nat /\ loops' \in Nat
    <3>1. /\ Cardinality(LoopBlocks(blocks)) \in Nat
          /\ Cardinality(LoopBlocks(blocks')) \in Nat
          /\ Cardinality(LoopBlocks(blocks'))
               = Cardinality(LoopBlocks(blocks)) - (IF Top(blocks) = "loop" THEN 1 ELSE 0)
      BY <1>7, <2>2, EndBlockFacts, LoopBlocksFinite, LoopBlocksPop DEF Typed
    <3>2. loop_depth = Cardinality(LoopBlocks(blocks)) /\ loops = Cardinality(LoopBlocks(blocks))
      BY DEF LoopDepthIsExact, LoopBlocks
    <3>. QED
      BY <1>7, <3>1, <3>2 DEF EndBlock
  <2>4. UNCHANGED <<stage, error, methods_table, declarations>> /\ declaring' = FALSE
    BY <1>7, EndBlockFacts
  <2>. QED
    BY <2>1, <2>2, <2>3, <2>4 DEF Typed
<1>8. CASE Statement
  BY <1>8, StatementFacts DEF Typed
<1>9. CASE EndProgram
  <2>1. fields_tables' \in Seq(Tables)
    BY <1>9, ShapeFacts, PopFacts DEF EndProgram, Typed
  <2>2. error' \in BOOLEAN
    BY <1>9 DEF EndProgram, Typed
  <2>. QED
    BY <1>9, <2>1, <2>2 DEF EndProgram, Typed
<1>10. CASE UNCHANGED vars
  BY <1>10 DEF vars, Typed
<1>. QED
  BY <1>1, <1>2, <1>3, <1>4, <1>5, <1>6, <1>7, <1>8, <1>9, <1>10, ArgumentsAreFew
  DEF Next, Done, Statement

\* The tables of both stacks match the blocks that are open.
LEMMA ShapeStep ==
  ASSUME Typed, Shape, [Next]_vars
  PROVE  Shape'
<1>1. ASSUME NEW name \in Names, AnalyzeImport(name)
      PROVE  Shape'
  BY <1>1 DEF AnalyzeImport, Shape
<1>2. ASSUME NEW name \in Names, AnalyzeField(name)
      PROVE  Shape'
  <2>1. /\ tables # <<>> /\ fields_tables # <<>>
        /\ tables \in Seq(Tables) /\ fields_tables \in Seq(Tables)
    BY <1>2, AnalyzeFieldFacts, ShapeFacts DEF Typed
  <2>2. declarations' \in 0 .. MaxDeclarations
    BY <1>2, AnalyzeFieldFacts
  <2>3. /\ Len(InsertOnTop(tables, name, declarations')) = Len(tables)
        /\ Len(InsertOnTop(fields_tables, name, declarations')) = Len(fields_tables)
    BY <2>1, <2>2, InsertOnTopFacts
  <2>4. Len(tables') = Len(tables) /\ Len(fields_tables') = Len(fields_tables)
    BY <1>2, <2>3, AnalyzeFieldFacts
  <2>5. UNCHANGED <<stage, blocks, declaring>>
    BY <1>2, AnalyzeFieldFacts
  <2>. QED
    BY <2>4, <2>5 DEF Shape
<1>3. CASE EndImports \/ EndFields
  BY <1>3 DEF EndImports, EndFields, Shape
<1>4. ASSUME NEW kind \in Kinds, NEW fields \in Tables, PushScope(kind, fields),
             stage = "methods", stage' = stage
      PROVE  Shape'
  <2>1. /\ Len(fields_tables') = Len(fields_tables) + 1
        /\ Len(tables') = Len(tables) + 1
        /\ Len(blocks') = Len(blocks) + 1 /\ blocks' # <<>>
    BY <1>4, PushScopeFacts
  <2>. QED
    BY <1>4, <2>1, ShapeFacts DEF Shape
<1>5. ASSUME NEW name \in Names, NEW returns_void, NEW arguments \in SUBSET Names,
             Cardinality(arguments) \in Nat, BeginMethod(name, returns_void, arguments)
      PROVE  Shape'
  <2>1. declarations' \in 0 .. MaxDeclarations
    BY <1>5, BoundsAssumption DEF BeginMethod, Typed
  <2>2. [argument \in arguments |-> declarations'] \in Tables
    BY <2>1, ArgumentTable
  <2>. QED
    BY <1>4, <1>5, <2>2 DEF BeginMethod, Kinds
<1>6. CASE BeginLoop \/ BeginIf
  <2>1. stage = "methods" /\ stage' = stage
    BY <1>6 DEF BeginLoop, BeginIf, Shape
  <2>. QED
    BY <1>4, <1>6, <2>1, TableFacts DEF BeginLoop, BeginIf, Kinds
<1>7. CASE EndBlock
  <2>1. /\ stage = "methods" /\ stage' = stage /\ declaring' = FALSE
        /\ fields_tables' = PopOf(fields_tables) /\ fields_tables # <<>>
        /\ tables' = PopOf(tables) /\ tables # <<>>
        /\ blocks' = PopOf(blocks) /\ blocks # <<>>
    BY <1>7, EndBlockFacts
  <2>2. /\ fields_tables \in Seq(Tables) /\ tables \in Seq(Tables) /\ blocks \in Seq(Kinds)
    BY DEF Typed
  <2>3. /\ Len(fields_tables') = Len(fields_tables) - 1
        /\ Len(tables') = Len(tables) - 1
        /\ Len(blocks') = Len(blocks) - 1
    BY <2>1, <2>2, PopFacts
  <2>. QED
    BY <2>1, <2>3, ShapeFacts DEF Shape
<1>8. CASE Statement
  BY <1>8, StatementFacts DEF Shape
<1>9. CASE EndProgram
  BY <1>9 DEF EndProgram, Shape
<1>10. CASE UNCHANGED vars
  BY <1>10 DEF vars, Shape
<1>. QED
  BY <1>1, <1>2, <1>3, <1>5, <1>6, <1>7, <1>8, <1>9, <1>10, ArgumentsAreFew
  DEF Next, Done, Statement

\* Both walks keep the same tables until there is an error.
LEMMA AlikeStep ==
  ASSUME Typed, Shape, Alike, [Next]_vars
  PROVE  Alike'
<1>1. ASSUME NEW name \in Names, AnalyzeImport(name)
      PROVE  Alike'
  BY <1>1, DeclareMethodFacts DEF AnalyzeImport, Alike
<1>2. ASSUME NEW name \in Names, AnalyzeField(name)
      PROVE  Alike'
  <2>1. \/ error' = TRUE
        \/ /\ error' = error
           /\ fields_tables' = InsertOnTop(fields_tables, name, declarations')
    BY <1>2, AnalyzeFieldFacts
  <2>2. tables' = InsertOnTop(tables, name, declarations') /\ stage' = stage
    BY <1>2, AnalyzeFieldFacts
  <2>3. CASE error' = TRUE
    BY <2>3 DEF Alike
  <2>4. CASE /\ error' = error
             /\ fields_tables' = InsertOnTop(fields_tables, name, declarations')
    BY <2>2, <2>4 DEF Alike
  <2>. QED
    BY <2>1, <2>3, <2>4
<1>3. CASE EndImports \/ EndFields
  BY <1>3 DEF EndImports, EndFields, Alike
<1>4. ASSUME NEW name \in Names, NEW returns_void, NEW arguments \in SUBSET Names,
             Cardinality(arguments) \in Nat, BeginMethod(name, returns_void, arguments)
      PROVE  Alike'
  <2>1. ~ error' => ~ error
    BY <1>4, DeclareMethodFacts DEF BeginMethod
  <2>. QED
    BY <1>4, <2>1 DEF BeginMethod, PushScope, Alike
<1>5. CASE BeginLoop \/ BeginIf
  BY <1>5 DEF BeginLoop, BeginIf, PushScope, Alike
<1>6. CASE EndBlock
  BY <1>6, EndBlockFacts DEF Alike
<1>7. CASE Statement
  BY <1>7, StatementFacts DEF Alike
<1>8. CASE EndProgram
  BY <1>8 DEF EndProgram, Alike
<1>9. CASE UNCHANGED vars
  BY <1>9 DEF vars, Alike
<1>. QED
  BY <1>1, <1>2, <1>3, <1>4, <1>5, <1>6, <1>7, <1>8, <1>9, ArgumentsAreFew
  DEF Next, Done, Statement

\* loop_depth and the generator's stack of loops change with the blocks.
LEMMA DepthStep ==
  ASSUME Typed, Shape, LoopDepthIsExact, [Next]_vars
  PROVE  LoopDepthIsExact'
<1>. DEFINE Depth(stack) == Cardinality(LoopBlocks(stack))
<1>1. loop_depth = Depth(blocks) /\ loops = Depth(blocks) /\ Depth(blocks) \in Nat
  BY LoopBlocksFinite DEF LoopDepthIsExact, LoopBlocks, Typed
<1>2. SUFFICES loop_depth' = Depth(blocks') /\ loops' = Depth(blocks')
  BY DEF LoopDepthIsExact, LoopBlocks
<1>. HIDE DEF Depth
<1>3. blocks \in Seq(Kinds)
  BY DEF Typed
<1>4. ASSUME NEW name, NEW returns_void, NEW arguments,
             BeginMethod(name, returns_void, arguments)
      PROVE  loop_depth' = Depth(blocks') /\ loops' = Depth(blocks')
  <2>1. blocks' = Append(blocks, "method") /\ UNCHANGED <<loop_depth, loops>>
    BY <1>4 DEF BeginMethod, PushScope
  <2>2. Depth(blocks') = Depth(blocks) + 0
    BY <1>3, <2>1, LoopBlocksAppend DEF Kinds, Depth
  <2>. QED
    BY <1>1, <2>1, <2>2
<1>5. CASE BeginLoop
  <2>1. blocks' = Append(blocks, "loop") /\ loop_depth' = loop_depth + 1 /\ loops' = loops + 1
    BY <1>5 DEF BeginLoop, PushScope
  <2>2. Depth(blocks') = Depth(blocks) + 1
    BY <1>3, <2>1, LoopBlocksAppend DEF Kinds, Depth
  <2>. QED
    BY <1>1, <2>1, <2>2
<1>6. CASE BeginIf
  <2>1. blocks' = Append(blocks, "if") /\ UNCHANGED <<loop_depth, loops>>
    BY <1>6 DEF BeginIf, PushScope
  <2>2. Depth(blocks') = Depth(blocks) + 0
    BY <1>3, <2>1, LoopBlocksAppend DEF Kinds, Depth
  <2>. QED
    BY <1>1, <2>1, <2>2
<1>7. CASE EndBlock
  <2>1. Depth(blocks') = Depth(blocks) - (IF Top(blocks) = "loop" THEN 1 ELSE 0)
    BY <1>3, <1>7, EndBlockFacts, LoopBlocksPop DEF Depth
  <2>. QED
    BY <1>1, <1>7, <2>1 DEF EndBlock
<1>8. CASE UNCHANGED <<blocks, loop_depth, loops>>
  BY <1>1, <1>8
<1>. QED
  BY <1>4, <1>5, <1>6, <1>7, <1>8
  DEF Next, AnalyzeImport, EndImports, AnalyzeField, EndFields, Use, AnalyzeMethodCall,
      BreakOrContinue, StatementUnchanged, EndProgram, Done, vars

\* What the step keeps of the methods and of the program's fields.
LEMMA DistinctKept ==
  ASSUME GlobalNamesAreDistinct, ~ error' => ~ error,
         methods_table' = methods_table, tables'[1] = tables[1]
  PROVE  GlobalNamesAreDistinct'
BY DEF GlobalNamesAreDistinct

\* A method's name is looked for among the program's fields, which are the top
\* table then, and a field's of the program among the methods.
LEMMA DistinctStep ==
  ASSUME Typed, Shape, Alike, GlobalNamesAreDistinct, [Next]_vars
  PROVE  GlobalNamesAreDistinct'
<1>1. ASSUME NEW name \in Names, NEW m, DeclareMethod(name, m), blocks = <<>>, stage # "done",
             tables'[1] = tables[1]
      PROVE  GlobalNamesAreDistinct'
  <2>. SUFFICES ASSUME ~ error'
                PROVE  DOMAIN methods_table' \cap DOMAIN tables[1] = {}
    BY <1>1 DEF GlobalNamesAreDistinct
  <2>1. /\ ~ error /\ name \notin DOMAIN Top(fields_tables)
        /\ DOMAIN methods_table' \subseteq DOMAIN methods_table \cup {name}
    BY <1>1, DeclareMethodFacts
  <2>2. Top(fields_tables) = tables[1]
    BY <1>1, <2>1, ShapeFacts DEF Alike
  <2>. QED
    BY <2>1, <2>2 DEF GlobalNamesAreDistinct
<1>2. ASSUME NEW name \in Names, AnalyzeImport(name)
      PROVE  GlobalNamesAreDistinct'
  BY <1>1, <1>2 DEF AnalyzeImport, Shape
<1>3. ASSUME NEW name \in Names, AnalyzeField(name)
      PROVE  GlobalNamesAreDistinct'
  <2>. SUFFICES ASSUME ~ error'
                PROVE  DOMAIN methods_table \cap DOMAIN tables'[1] = {}
    BY <1>3, AnalyzeFieldFacts DEF GlobalNamesAreDistinct
  <2>1. \/ error' = TRUE
        \/ error' = error /\ (Len(fields_tables) = 1 => name \notin DOMAIN methods_table)
    BY <1>3, AnalyzeFieldFacts
  <2>2. /\ stage # "done" /\ declarations' \in 0 .. MaxDeclarations
        /\ tables' = InsertOnTop(tables, name, declarations')
    BY <1>3, AnalyzeFieldFacts
  <2>3. ~ error /\ (Len(tables) = 1 => name \notin DOMAIN methods_table)
    BY <2>1, <2>2 DEF Alike
  <2>4. tables \in Seq(Tables) /\ tables # <<>> /\ 1 \in 1 .. Len(tables)
    BY ShapeFacts DEF Typed
  <2>5. /\ \A i \in 1 .. Len(tables) : i # Len(tables) => tables'[i] = tables[i]
        /\ DOMAIN tables'[Len(tables)] = DOMAIN tables[Len(tables)] \cup {name}
    BY <2>2, <2>4, InsertOnTopFacts
  <2>6. CASE Len(tables) = 1
    BY <2>3, <2>5, <2>6 DEF GlobalNamesAreDistinct
  <2>7. CASE Len(tables) # 1
    <3>1. tables'[1] = tables[1]
      BY <2>4, <2>5, <2>7
    <3>. QED
      BY <2>3, <3>1 DEF GlobalNamesAreDistinct
  <2>. QED
    BY <2>6, <2>7
<1>4. ASSUME NEW kind, NEW fields, PushScope(kind, fields)
      PROVE  tables'[1] = tables[1]
  <2>1. tables' = Append(tables, fields)
    BY <1>4 DEF PushScope
  <2>. QED
    BY <2>1, ShapeFacts DEF Typed
<1>5. ASSUME NEW name \in Names, NEW returns_void, NEW arguments,
             BeginMethod(name, returns_void, arguments)
      PROVE  GlobalNamesAreDistinct'
  BY <1>1, <1>4, <1>5 DEF BeginMethod
<1>6. CASE BeginLoop \/ BeginIf
  <2>1. tables'[1] = tables[1]
    BY <1>4, <1>6 DEF BeginLoop, BeginIf
  <2>. QED
    BY <1>6, <2>1, DistinctKept DEF BeginLoop, BeginIf
<1>7. CASE EndBlock
  <2>1. /\ tables' = PopOf(tables) /\ tables # <<>> /\ blocks # <<>>
        /\ tables \in Seq(Tables) /\ error' = error /\ methods_table' = methods_table
    BY <1>7, EndBlockFacts DEF Typed
  <2>2. /\ Len(tables) \in Nat
        /\ \A i \in 1 .. Len(tables) - 1 : tables'[i] = tables[i]
    BY <2>1, PopFacts
  <2>3. Len(tables) = Len(blocks) + 1 /\ Len(blocks) \in Nat /\ Len(blocks) > 0
    BY <2>1, EmptySeq, ShapeFacts DEF Shape, Typed
  <2>4. tables'[1] = tables[1]
    BY <2>2, <2>3
  <2>. QED
    BY <2>1, <2>4, DistinctKept
<1>8. CASE Statement
  BY <1>8, StatementFacts, DistinctKept
<1>9. CASE EndProgram
  BY <1>9, DistinctKept DEF EndProgram, Typed
<1>10. CASE EndImports \/ EndFields
  BY <1>10, DistinctKept DEF EndImports, EndFields
<1>11. CASE UNCHANGED vars
  BY <1>11, DistinctKept DEF vars
<1>. QED
  BY <1>2, <1>3, <1>5, <1>6, <1>7, <1>8, <1>9, <1>10, <1>11
  DEF Next, Done, Statement

-----------------------------------------------------------------------------
(* Looking a name up *)

\* What fields_table_get finds from each table up to the n-th, climbing to the
\* program's.
Climbs(stack, name, n, climb) ==
  climb = [s \in 0 .. n |->
             IF s = 0 THEN NoField
             ELSE IF name \in DOMAIN stack[s] THEN stack[s][name]
             ELSE climb[s - 1]]

\* None of the tables above the s-th has the name.
Absent(stack, name, s, n) == \A i \in s + 1 .. n : name \notin DOMAIN stack[i]

\* The recursion of FieldsTableGet has a solution.
LEMMA ClimbExists ==
  ASSUME NEW stack, NEW name, NEW n \in Nat
  PROVE  \E climb : Climbs(stack, name, n, climb)
<1>. DEFINE Without == {k \in Nat : ~ \E climb : Climbs(stack, name, k, climb)}
<1>. SUFFICES ASSUME n \in Without PROVE FALSE
  OBVIOUS
<1>1. PICK k \in Without : \A j \in Without : k =< j
  <2>1. Without \in SUBSET Nat
    OBVIOUS
  <2>. HIDE DEF Without
  <2>. QED
    BY <2>1, LeastElement
<1>2. CASE k = 0
  <2>. DEFINE c == [m \in 0 .. 0 |-> NoField]
  <2>1. Climbs(stack, name, 0, c)
    BY DEF Climbs
  <2>. QED
    BY <2>1, <1>2
<1>3. CASE k > 0
  <2>1. PICK c : Climbs(stack, name, k - 1, c)
    BY <1>1, <1>3
  <2>. DEFINE d == [t \in 0 .. k |->
                      IF t = k
                      THEN IF name \in DOMAIN stack[k] THEN stack[k][name] ELSE c[k - 1]
                      ELSE c[t]]
  <2>2. \A t \in 0 .. k : d[t] = IF t = 0 THEN NoField
                                 ELSE IF name \in DOMAIN stack[t] THEN stack[t][name]
                                 ELSE d[t - 1]
    BY <2>1, <1>3 DEF Climbs
  <2>3. d = [t \in 0 .. k |-> IF t = 0 THEN NoField
                              ELSE IF name \in DOMAIN stack[t] THEN stack[t][name]
                              ELSE d[t - 1]]
    BY <2>2
  <2>4. Climbs(stack, name, k, d)
    BY <2>3 DEF Climbs
  <2>. QED
    BY <2>4
<1>. QED
  BY <1>2, <1>3

\* What FieldsTableGet's CHOOSE takes is a solution.
LEMMA FieldsTableGetClimbs ==
  ASSUME Typed, NEW name
  PROVE  \E climb : /\ Climbs(fields_tables, name, Len(fields_tables), climb)
                    /\ FieldsTableGet(name) = climb[Len(fields_tables)]
<1>1. PICK n \in Nat : n = Len(fields_tables)
  BY DEF Typed
<1>. DEFINE c == CHOOSE x : Climbs(fields_tables, name, n, x)
<1>2. Climbs(fields_tables, name, n, c)
  BY ClimbExists, Zenon
<1>3. FieldsTableGet(name) = c[n]
  BY <1>1 DEF FieldsTableGet, Climbs
<1>. QED
  BY <1>1, <1>2, <1>3

\* The climb passes by the tables that do not have the name.
LEMMA ClimbPasses ==
  ASSUME NEW stack, NEW name, NEW n \in Nat, NEW s \in Nat, s =< n, NEW climb,
         Climbs(stack, name, n, climb), Absent(stack, name, s, n)
  PROVE  climb[n] = climb[s]
<1>. DEFINE Differ == {t \in Nat : s =< t /\ t =< n /\ climb[t] # climb[s]}
<1>. SUFFICES ASSUME n \in Differ PROVE FALSE
  OBVIOUS
<1>1. PICK t \in Differ : \A u \in Differ : t =< u
  <2>1. Differ \in SUBSET Nat
    OBVIOUS
  <2>. HIDE DEF Differ
  <2>. QED
    BY <2>1, LeastElement
<1>2. t > s
  BY <1>1
<1>3. climb[t - 1] = climb[s]
  BY <1>1, <1>2
<1>4. climb[t] = climb[t - 1]
  BY <1>2 DEF Climbs, Absent
<1>. QED
  BY <1>3, <1>4

\* If any table has the name there is a last one that has it.
LEMMA LastTable ==
  ASSUME NEW stack, NEW name, NEW n \in Nat, NEW e \in 1 .. n, name \in DOMAIN stack[e]
  PROVE  \E s \in 1 .. n : name \in DOMAIN stack[s] /\ Absent(stack, name, s, n)
<1>. DEFINE Above == {k \in Nat : k < n /\ name \in DOMAIN stack[n - k]}
<1>1. n - e \in Above
  BY DEF Above
<1>2. PICK d \in Above : \A c \in Above : d =< c
  <2>1. Above \in SUBSET Nat
    OBVIOUS
  <2>. HIDE DEF Above
  <2>. QED
    BY <1>1, <2>1, LeastElement
<1>3. n - d \in 1 .. n /\ name \in DOMAIN stack[n - d]
  OBVIOUS
<1>4. ASSUME NEW i \in n - d + 1 .. n, name \in DOMAIN stack[i]
      PROVE  FALSE
  <2>1. n - i \in Nat /\ n - i < n /\ n - (n - i) = i
    BY <1>3
  <2>2. n - i \in Above
    BY <1>4, <2>1
  <2>. QED
    BY <1>2, <2>2
<1>. QED
  BY <1>3, <1>4 DEF Absent

\* Two tables that have the name last are one.
LEMMA LastTableIsOne ==
  ASSUME NEW stack, NEW name, NEW n \in Nat, NEW s \in 1 .. n, NEW t \in 1 .. n,
         name \in DOMAIN stack[s], Absent(stack, name, s, n),
         name \in DOMAIN stack[t], Absent(stack, name, t, n)
  PROVE  s = t
BY DEF Absent

\* The analysis's way and the generator's find the same field on one stack: that
\* of the last table that has the name.
LEMMA LookupsAgree ==
  ASSUME Typed, NEW name
  PROVE  FieldsTableGet(name) = SymbolTableGet(fields_tables, name)
<1>1. PICK n \in Nat : n = Len(fields_tables) /\ DOMAIN fields_tables = 1 .. n
  BY DEF Typed
<1>2. PICK climb : Climbs(fields_tables, name, n, climb) /\ FieldsTableGet(name) = climb[n]
  BY <1>1, FieldsTableGetClimbs
<1>3. CASE \E e \in 1 .. n : name \in DOMAIN fields_tables[e]
  <2>1. PICK s \in 1 .. n :
          name \in DOMAIN fields_tables[s] /\ Absent(fields_tables, name, s, n)
    BY <1>3, LastTable
  <2>2. climb[n] = climb[s] /\ climb[s] = fields_tables[s][name]
    BY <1>2, <2>1, ClimbPasses DEF Climbs
  <2>. DEFINE t == CHOOSE t \in 1 .. n :
                     /\ name \in DOMAIN fields_tables[t]
                     /\ \A i \in t + 1 .. n : name \notin DOMAIN fields_tables[i]
  <2>3. /\ t \in 1 .. n
        /\ name \in DOMAIN fields_tables[t]
        /\ \A i \in t + 1 .. n : name \notin DOMAIN fields_tables[i]
    BY <2>1, Zenon DEF Absent
  <2>4. SymbolTableGet(fields_tables, name) = fields_tables[t][name]
    BY <1>1, <1>3 DEF SymbolTableGet
  <2>. HIDE DEF t
  <2>5. s = t
    BY <2>1, <2>3, LastTableIsOne DEF Absent
  <2>. QED
    BY <1>2, <2>2, <2>4, <2>5
<1>4. CASE ~ \E e \in 1 .. n : name \in DOMAIN fields_tables[e]
  <2>1. Absent(fields_tables, name, 0, n)
    BY <1>4 DEF Absent
  <2>2. climb[n] = climb[0] /\ climb[0] = NoField
    BY <1>2, <2>1, ClimbPasses DEF Climbs
  <2>3. SymbolTableGet(fields_tables, name) = NoField
    BY <1>1, <1>4 DEF SymbolTableGet
  <2>. QED
    BY <1>2, <2>2, <2>3
<1>. QED
  BY <1>3, <1>4

-----------------------------------------------------------------------------
(* The invariant, and what follows from it *)

\* An empty program.
LEMMA InitIInv == Init => IInv
<1>. SUFFICES ASSUME Init PROVE IInv
  OBVIOUS
<1>1. <<Empty>> \in Seq(Tables) /\ Len(<<Empty>>) = 1
  BY TableFacts
<1>2. fields_tables \in Seq(Tables) /\ tables \in Seq(Tables) /\ Len(tables) = 1
      /\ Len(fields_tables) = 1
  BY <1>1 DEF Init
<1>3. blocks \in Seq(Kinds) /\ Len(blocks) = 0 /\ LoopBlocks(blocks) = {}
  BY DEF Init, LoopBlocks
<1>4. DOMAIN methods_table = {}
  BY DEF Init, Empty
<1>5. Typed
  <2>1. error \in BOOLEAN
    BY DEF Init
  <2>2. declaring \in BOOLEAN
    BY DEF Init
  <2>. QED
    BY <1>2, <1>3, <1>4, <2>1, <2>2, BoundsAssumption DEF Init, Typed
<1>6. Shape
  BY <1>2, <1>3 DEF Init, Shape
<1>7. Alike /\ GlobalNamesAreDistinct
  BY <1>4 DEF Init, Alike, GlobalNamesAreDistinct
<1>8. LoopDepthIsExact
  BY <1>3, FS_EmptySet DEF Init, LoopDepthIsExact, LoopBlocks
<1>. QED
  BY <1>5, <1>6, <1>7, <1>8 DEF IInv

\* IInv is inductive.
LEMMA StepIInv == IInv /\ [Next]_vars => IInv'
BY TypedStep, ShapeStep, AlikeStep, DepthStep, DistinctStep DEF IInv

\* The two walks agree as IInv says in every reachable state.
THEOREM Invariance == Spec => []IInv
<1>. QED
  BY InitIInv, StepIInv, PTL DEF Spec

\* Every variable of both walks has its type, and no more loops are open than
\* blocks.
THEOREM TypeCorrect == Spec => []TypeOK
<1>1. IInv => TypeOK
  <2>. SUFFICES ASSUME IInv PROVE TypeOK
    OBVIOUS
  <2>1. loop_depth \in 0 .. MaxBlocks /\ loops \in 0 .. MaxBlocks
    <3>1. /\ Cardinality(LoopBlocks(blocks)) \in Nat /\ Len(blocks) \in Nat
          /\ Cardinality(LoopBlocks(blocks)) =< Len(blocks)
      BY LoopBlocksFinite DEF IInv, Typed
    <3>2. loop_depth = Cardinality(LoopBlocks(blocks)) /\ loops = Cardinality(LoopBlocks(blocks))
      BY DEF IInv, LoopDepthIsExact, LoopBlocks
    <3>. QED
      BY <3>1, <3>2, BoundsAssumption DEF IInv, Typed
  <2>2. /\ \A s \in DOMAIN fields_tables : DOMAIN fields_tables[s] \subseteq Names
        /\ \A s \in DOMAIN tables : DOMAIN tables[s] \subseteq Names
    BY TableFacts DEF IInv, Typed
  <2>. QED
    BY <2>1, <2>2 DEF IInv, Typed, TypeOK, Kinds
<1>. QED
  BY <1>1, Invariance, PTL

\* Until there is an error fields_table_get and symbol_table_get find the same field
\* for every name in every scope.
THEOREM NamesAgree == Spec => []NamesResolveAlike
<1>1. IInv => NamesResolveAlike
  BY LookupsAgree DEF IInv, Alike, NamesResolveAlike
<1>. QED
  BY <1>1, Invariance, PTL

\* loop_depth, and the height of the generator's stack of loops, is the number of
\* loops around the statement.
THEOREM LoopDepthCounts == Spec => []LoopDepthIsExact
<1>1. IInv => LoopDepthIsExact
  BY DEF IInv
<1>. QED
  BY <1>1, Invariance, PTL

\* No field of an accepted program has the name of a method or import.
THEOREM LabelsAreDistinct == Spec => []GlobalNamesAreDistinct
<1>1. IInv => GlobalNamesAreDistinct
  BY DEF IInv
<1>. QED
  BY <1>1, Invariance, PTL
===============================================================================
