------------------------------ MODULE Semantics ------------------------------
(***************************************************************************)
(* The names of a program: how src/src/semantics/semantics.c declares and  *)
(* resolves them in its chain of fields_tables, and how llir_generator.c,  *)
(* once the program is accepted, declares and resolves them again in a     *)
(* stack of tables of its own.  Both walk the same tree in the same order  *)
(* and neither sees the other, so one walk drives both here: the program   *)
(* is chosen step by step, and an error only shows in "error", as in the   *)
(* code, where the walk goes on.  The types of expressions are left out.   *)
(***************************************************************************)
EXTENDS Integers, Sequences, FiniteSets

CONSTANTS
  Names,           \* the identifiers of the program, "main" among them
  MaxDeclarations, \* bound on the number of fields and arguments
  MaxBlocks,       \* bound on the depth of nested blocks
  MaxMethods       \* bound on the number of methods and imports

ASSUME MainAssumption == "main" \in Names
ASSUME BoundsAssumption == MaxDeclarations \in Nat /\ MaxBlocks \in Nat /\ MaxMethods \in Nat

VARIABLES
  stage,           \* what analyze_program is at: "imports", "fields", "methods", "done"
  error,           \* a semantic error has been reported
  fields_tables,   \* semantics: the tables from the program's to the current scope's
  methods_table,   \* semantics: the methods and imports declared so far
  loop_depth,      \* semantics
  blocks,          \* the analyze_block calls in progress: "method", "loop" or "if"
  declaring,       \* whether the innermost block is still at its fields
  tables,          \* LLIR: symbol_table->tables
  loops,           \* LLIR: the number of entries of break_blocks
  declarations     \* the fields declared so far, which number them

vars == <<stage, error, fields_tables, methods_table, loop_depth, blocks,
          declaring, tables, loops, declarations>>

-----------------------------------------------------------------------------
(* Tables: functions from the names in them to fields, here their numbers *)

NoField == 0
Empty == <<>>

Top(stack) == stack[Len(stack)]
PopOf(stack) == SubSeq(stack, 1, Len(stack) - 1)

Insert(table, name, value) ==
  [n \in DOMAIN table \cup {name} |-> IF n = name THEN value ELSE table[n]]
InsertOnTop(stack, name, value) ==
  [stack EXCEPT ![Len(stack)] = Insert(@, name, value)]

\* fields_table_get climbing through the parents, and symbol_table_get: the
\* innermost table that has the name.
SymbolTableGet(stack, name) ==
  IF \E s \in DOMAIN stack : name \in DOMAIN stack[s]
  THEN LET s == CHOOSE s \in DOMAIN stack :
                  /\ name \in DOMAIN stack[s]
                  /\ \A i \in s + 1 .. Len(stack) : name \notin DOMAIN stack[i]
       IN  stack[s][name]
  ELSE NoField

FieldsTableGet(name) ==
  LET climb[s \in 0 .. Len(fields_tables)] ==
        IF s = 0 THEN NoField
        ELSE IF name \in DOMAIN fields_tables[s] THEN fields_tables[s][name]
        ELSE climb[s - 1]
  IN  climb[Len(fields_tables)]

-----------------------------------------------------------------------------
Init ==
  /\ stage = "imports"
  /\ error = FALSE
  /\ fields_tables = <<Empty>>
  /\ methods_table = Empty
  /\ loop_depth = 0
  /\ blocks = <<>>
  /\ declaring = FALSE
  /\ tables = <<Empty>>
  /\ loops = 0
  /\ declarations = 0

\* declare_method: not a second time, and not over a field of the program.
\* Mutant: the fields not looked at.
DeclareMethodOver(name, method) ==
  IF name \in DOMAIN methods_table
  THEN error' = TRUE /\ UNCHANGED methods_table
  ELSE methods_table' = Insert(methods_table, name, method) /\ UNCHANGED error
DeclareMethod(name, method) ==
  IF name \in DOMAIN methods_table \/ name \in DOMAIN Top(fields_tables)
  THEN error' = TRUE /\ UNCHANGED methods_table
  ELSE methods_table' = Insert(methods_table, name, method) /\ UNCHANGED error

\* declare_field: not a second time in its scope; a field of the program not over
\* a method or import, all of which are declared before it.
\* Mutant: the duplicate accepted.
DeclareFieldAgain(name) ==
  /\ declarations < MaxDeclarations
  /\ declarations' = declarations + 1
  /\ IF name \in DOMAIN Top(fields_tables)
     THEN UNCHANGED <<error, fields_tables>>
     ELSE /\ fields_tables' = InsertOnTop(fields_tables, name, declarations')
          /\ UNCHANGED error
DeclareField(name) ==
  LET global == Len(fields_tables) = 1
  IN  /\ declarations < MaxDeclarations
      /\ declarations' = declarations + 1
      /\ IF \/ name \in DOMAIN Top(fields_tables)
            \/ global /\ name \in DOMAIN methods_table
         THEN error' = TRUE /\ UNCHANGED fields_tables
         ELSE /\ fields_tables' = InsertOnTop(fields_tables, name, declarations')
              /\ UNCHANGED error

\* generate_field sets the name in the innermost table, whatever is there.
GenerateField(name) == tables' = InsertOnTop(tables, name, declarations')


(* analyze_program, generate_llir *)

AnalyzeImport(name) ==
  /\ stage = "imports"
  /\ Cardinality(DOMAIN methods_table) < MaxMethods
  /\ DeclareMethod(name, [imported |-> TRUE, returns_void |-> FALSE, arguments |-> 0])
  /\ UNCHANGED <<stage, fields_tables, loop_depth, blocks, declaring, tables, loops,
                 declarations>>

EndImports ==
  /\ stage = "imports" /\ stage' = "fields"
  /\ UNCHANGED <<error, fields_tables, methods_table, loop_depth, blocks, declaring,
                 tables, loops, declarations>>

\* A field of the program, or at the head of the innermost block.
AnalyzeField(name) ==
  /\ stage = "fields" \/ declaring
  /\ DeclareField(name)
  /\ GenerateField(name)
  /\ UNCHANGED <<stage, methods_table, loop_depth, blocks, declaring, loops>>

EndFields ==
  /\ stage = "fields" /\ stage' = "methods"
  /\ UNCHANGED <<error, fields_tables, methods_table, loop_depth, blocks, declaring,
                 tables, loops, declarations>>

\* analyze_block links the new table, here of these fields already, to the current
\* scope and pushes it; symbol_table_push_scope.
PushScope(kind, fields) ==
  /\ Len(blocks) < MaxBlocks
  /\ blocks' = Append(blocks, kind)
  /\ fields_tables' = Append(fields_tables, fields)
  /\ tables' = Append(tables, fields)
  /\ declaring' = TRUE

\* analyze_method, generate_method, with at most one argument: the arguments are
\* the first fields of the method's scope in both.
BeginMethod(name, returns_void, arguments) ==
  /\ stage = "methods" /\ blocks = <<>>
  /\ Cardinality(DOMAIN methods_table) < MaxMethods
  /\ declarations + Cardinality(arguments) =< MaxDeclarations
  /\ DeclareMethod(name, [imported |-> FALSE, returns_void |-> returns_void,
                          arguments |-> Cardinality(arguments)])
  /\ declarations' = declarations + Cardinality(arguments)
  /\ PushScope("method", [argument \in arguments |-> declarations'])
  /\ UNCHANGED <<stage, loop_depth, loops>>

\* analyze_while_statement, analyze_for_statement; push_loop
BeginLoop ==
  /\ blocks # <<>>
  /\ loop_depth' = loop_depth + 1
  /\ loops' = loops + 1
  /\ PushScope("loop", Empty)
  /\ UNCHANGED <<stage, error, methods_table, declarations>>

BeginIf ==
  /\ blocks # <<>>
  /\ PushScope("if", Empty)
  /\ UNCHANGED <<stage, error, methods_table, loop_depth, loops, declarations>>

\* The end of a block: pop_scope, symbol_table_pop_scope, and of a loop: pop_loop.
\* Mutant: loop_depth left as it is.
EndBlockKeepsDepth ==
  LET looping == IF Top(blocks) = "loop" THEN 1 ELSE 0
  IN  /\ blocks # <<>>
      /\ fields_tables' = PopOf(fields_tables)
      /\ tables' = PopOf(tables)
      /\ loops' = loops - looping
      /\ blocks' = PopOf(blocks)
      /\ declaring' = FALSE
      /\ UNCHANGED <<stage, error, methods_table, loop_depth, declarations>>
\* Mutant: loop_depth counted down at every block's end.
EndBlockOfAnyKind ==
  LET looping == IF Top(blocks) = "loop" THEN 1 ELSE 0
  IN  /\ blocks # <<>>
      /\ fields_tables' = PopOf(fields_tables)
      /\ tables' = PopOf(tables)
      /\ loop_depth' = loop_depth - 1
      /\ loops' = loops - looping
      /\ blocks' = PopOf(blocks)
      /\ declaring' = FALSE
      /\ UNCHANGED <<stage, error, methods_table, declarations>>

EndBlock ==
  LET looping == IF Top(blocks) = "loop" THEN 1 ELSE 0
  IN  /\ blocks # <<>>
      /\ fields_tables' = PopOf(fields_tables)
      /\ tables' = PopOf(tables)
      /\ loop_depth' = loop_depth - looping
      /\ loops' = loops - looping
      /\ blocks' = PopOf(blocks)
      /\ declaring' = FALSE
      /\ UNCHANGED <<stage, error, methods_table, declarations>>

StatementUnchanged ==
  /\ declaring' = FALSE
  /\ UNCHANGED <<stage, fields_tables, methods_table, loop_depth, blocks, tables,
                 loops, declarations>>

\* analyze_location (get_field_declaration), generate_location
Use(name) ==
  /\ blocks # <<>>
  /\ error' = (error \/ FieldsTableGet(name) = NoField)
  /\ StatementUnchanged

\* analyze_method_call (get_method_declaration): a field of the name hides the method.
CallIsWrong(name, arguments) ==
  \/ FieldsTableGet(name) # NoField
  \/ name \notin DOMAIN methods_table
  \/ ~ methods_table[name].imported /\ methods_table[name].arguments # arguments

AnalyzeMethodCall(name, arguments) ==
  /\ blocks # <<>>
  /\ error' = (error \/ CallIsWrong(name, arguments))
  /\ StatementUnchanged

\* analyze_break_statement, analyze_continue_statement
BreakOrContinue ==
  /\ blocks # <<>>
  /\ error' = (error \/ loop_depth = 0)
  /\ StatementUnchanged

MainIsWrong ==
  \/ "main" \notin DOMAIN methods_table
  \/ methods_table["main"].imported
  \/ ~ methods_table["main"].returns_void
  \/ methods_table["main"].arguments > 0

EndProgram ==
  /\ stage = "methods" /\ blocks = <<>>
  /\ stage' = "done"
  /\ error' = (error \/ MainIsWrong)
  /\ fields_tables' = PopOf(fields_tables)
  /\ UNCHANGED <<methods_table, loop_depth, blocks, declaring, tables, loops, declarations>>

Done == stage = "done" /\ UNCHANGED vars

Next ==
  \/ \E name \in Names : AnalyzeImport(name) \/ AnalyzeField(name) \/ Use(name)
  \/ EndImports
  \/ EndFields
  \/ \E name \in Names, returns_void \in BOOLEAN, arguments \in {{}} \cup {{a} : a \in Names} :
       BeginMethod(name, returns_void, arguments)
  \/ BeginLoop
  \/ BeginIf
  \/ EndBlock
  \/ \E name \in Names, arguments \in 0 .. 1 : AnalyzeMethodCall(name, arguments)
  \/ BreakOrContinue
  \/ EndProgram
  \/ Done

Spec == Init /\ [][Next]_vars

-----------------------------------------------------------------------------
(* Properties *)

\* Every variable has its type.
TypeOK ==
  /\ stage \in {"imports", "fields", "methods", "done"}
  /\ error \in BOOLEAN
  /\ \A s \in DOMAIN fields_tables : DOMAIN fields_tables[s] \subseteq Names
  /\ \A s \in DOMAIN tables : DOMAIN tables[s] \subseteq Names
  /\ DOMAIN methods_table \subseteq Names
  /\ loop_depth \in 0 .. MaxBlocks /\ loops \in 0 .. MaxBlocks
  /\ blocks \in Seq({"method", "loop", "if"})
  /\ declaring \in BOOLEAN
  /\ declarations \in 0 .. MaxDeclarations

\* As long as there is no error, every name means the same field to the analysis
\* and to the generator of code, in every scope, after any number of scopes that
\* shadowed it have come and gone: the analysis checks the types of the field that
\* the code uses, and generate_location's assertion that there is one never fails.
NamesResolveAlike ==
  (~ error /\ stage # "done") =>
    \A name \in Names : FieldsTableGet(name) = SymbolTableGet(tables, name)

\* loop_depth is the number of loops around the statement, also after ifs, loops
\* and methods have ended: a break or continue that the analysis lets pass finds a
\* block on the generator's stacks, and none inside a loop is rejected.
LoopDepthIsExact ==
  LET depth == Cardinality({b \in DOMAIN blocks : blocks[b] = "loop"})
  IN  loop_depth = depth /\ loops = depth

\* Fields of the program, methods and imports share the name space of the
\* assembler's labels: in an accepted program no two have one name, in whatever
\* order they were declared.
GlobalNamesAreDistinct ==
  ~ error => DOMAIN methods_table \cap DOMAIN tables[1] = {}
=============================================================================
