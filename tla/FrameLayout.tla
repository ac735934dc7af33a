----------------------------- MODULE FrameLayout -----------------------------
(***************************************************************************)
(* How a field declared in some scope of the program comes to a place in   *)
(* memory: llir_generator.c names it by its identifier and scope level     *)
(* (generate_block, generate_field, new_temporary), and code_generator.c   *)
(* gives every name of a method an offset below %rbp                       *)
(* (generate_stack_allocation).  All methods are named before the first    *)
(* frame is laid out.  Memory is counted in words of 8 bytes.              *)
(***************************************************************************)
EXTENDS Integers, Sequences

CONSTANTS
  GlobalFields,   \* the program's global fields: pairs <<name, length>>
  Declarable,     \* what a method or block may declare: pairs <<name, length>>
  MaxMethods,     \* bound on the number of methods
  MaxFields,      \* bound on the fields of all methods, temporaries included
  MaxScopes       \* bound on the scopes of all methods

ASSUME GlobalFieldsAssumption == \A g \in GlobalFields : g[2] \in Nat \ {0}

\* analyze_field rejects arrays of length 0; a scalar has length 1.
ASSUME DeclarableAssumption == \A d \in Declarable : d[2] \in Nat \ {0}

\* The scanner's identifiers hold letters, digits and underscores.
ASSUME NamesAssumption == \A f \in GlobalFields \cup Declarable : f[1] # "$"

ASSUME BoundsAssumption == MaxMethods \in Nat /\ MaxFields \in Nat /\ MaxScopes \in Nat

VARIABLES
  methods,             \* the fields of each method, in the order they are laid out
  scopes,              \* the scopes open in the method being generated, outermost first
  scope_count,         \* the number of scopes opened so far
  temporary_counter,   \* the number of the next temporary
  declaring,           \* whether the innermost scope is still at its declarations
  before,              \* what allows a block to begin: "condition", "if block" or "nothing"
  else_blocks,         \* the scopes that are the else block of an if
  method,              \* code generation: the method whose frame is laid out, 0 before
  next,                \* the position in it of the next field to place
  stack_size,          \* its frame's size so far
  offsets              \* code_generator's table, which outlives the method

naming == <<methods, scopes, scope_count, temporary_counter, declaring, before, else_blocks>>
layout == <<method, next, stack_size, offsets>>
vars == <<naming, layout>>

-----------------------------------------------------------------------------
(* Fields and their identifiers *)

\* llir_field_new: "name" at level 0, which is the globals' and the temporaries',
\* and "name@level" anywhere else.
\* Mutant: the scope level left out.
BareIdentifier(name, level) == [name |-> name, at |-> 0]
Identifier(name, level) == [name |-> name, at |-> level]
Temporary(n) == [name |-> "$", at |-> n]

\* "path" is where the field is declared: the scopes open then.
Field(identifier, length, path) ==
  [identifier |-> identifier, value_count |-> length, path |-> path]

GlobalIdentifiers == {Identifier(g[1], 0) : g \in GlobalFields}

Fields(m) == methods[m]
Current == Len(methods)

\* symbol_table_get_scope_level: the globals are level 0, a method's arguments and
\* its outermost block level 1.
\* Mutant: only global and local told apart.
ScopeLevelLocal == IF scopes = <<>> THEN 0 ELSE 1
ScopeLevel == Len(scopes)

FieldCount ==
  LET count[m \in 0 .. Len(methods)] == IF m = 0 THEN 0 ELSE count[m - 1] + Len(methods[m])
  IN  count[Len(methods)]

AddField(field) ==
  /\ FieldCount < MaxFields
  /\ methods' = [methods EXCEPT ![Current] = Append(@, field)]

PushScope ==
  /\ scope_count < MaxScopes
  /\ scope_count' = scope_count + 1
  /\ scopes' = Append(scopes, scope_count + 1)

\* symbol_table_pop_scope
PopScope == SubSeq(scopes, 1, Len(scopes) - 1)

-----------------------------------------------------------------------------
Init ==
  /\ methods = <<>>
  /\ scopes = <<>>
  /\ scope_count = 0
  /\ temporary_counter = 0
  /\ declaring = FALSE
  /\ before = "nothing"
  /\ else_blocks = {}
  /\ method = 0
  /\ next = 1
  /\ stack_size = 0
  /\ offsets = <<>>

(* llir_generator.c *)

BeginMethod ==
  /\ method = 0
  /\ scopes = <<>>
  /\ Len(methods) < MaxMethods
  /\ PushScope
  /\ methods' = Append(methods, <<>>)
  /\ declaring' = TRUE
  /\ UNCHANGED <<temporary_counter, before, else_blocks, layout>>

\* An argument or a field at the head of the innermost block; declare_field lets
\* no name be declared twice in one scope.
DeclareField(name, length) ==
  /\ declaring
  /\ \A i \in 1 .. Len(Fields(Current)) :
       Fields(Current)[i].path = scopes => Fields(Current)[i].identifier.name # name
  /\ AddField(Field(Identifier(name, ScopeLevel), length, scopes))
  /\ UNCHANGED <<scopes, scope_count, temporary_counter, declaring, before, else_blocks, layout>>

\* Part of a statement: no field of this scope can be declared any more.  Every expression
\* ends with a temporary, so that this one may be a condition's last.
NewTemporary ==
  /\ scopes # <<>>
  /\ AddField(Field(Temporary(temporary_counter), 1, scopes))
  /\ temporary_counter' = temporary_counter + 1
  /\ declaring' = FALSE
  /\ before' = "condition"
  /\ UNCHANGED <<scopes, scope_count, else_blocks, layout>>

\* The block of an if or of a loop follows the condition, whose temporaries are fields of
\* the scope around it; an else block follows the if block, with nothing in between.
BeginBlock ==
  /\ scopes # <<>> /\ before # "nothing"
  /\ PushScope
  /\ declaring' = TRUE
  /\ before' = "nothing"
  /\ else_blocks' = IF before = "if block" THEN else_blocks \cup {scope_count'} ELSE else_blocks
  /\ UNCHANGED <<methods, temporary_counter, layout>>

\* The end of a block, or of the method.  A block that followed a condition may be an if's.
EndBlock ==
  /\ scopes # <<>>
  /\ scopes' = PopScope
  /\ declaring' = FALSE
  /\ before' = IF Len(scopes) > 1 /\ scopes[Len(scopes)] \notin else_blocks
                 THEN "if block" ELSE "nothing"
  /\ UNCHANGED <<methods, scope_count, temporary_counter, else_blocks, layout>>

(* code_generator.c *)

FrameDone == method > 0 /\ next > Len(Fields(method))

BeginFrame ==
  /\ scopes = <<>> /\ method < Len(methods)
  /\ method = 0 \/ FrameDone
  /\ method' = method + 1
  /\ next' = 1
  /\ stack_size' = 0
  /\ UNCHANGED <<offsets, naming>>

\* g_hash_table_insert: an identifier that has an offset gets the new one.
\* Mutant: an identifier keeps the offset it has.
InsertNew(table, key, value) ==
  [k \in DOMAIN table \cup {key} |-> IF k \in DOMAIN table THEN table[k] ELSE value]
Insert(table, key, value) ==
  [k \in DOMAIN table \cup {key} |-> IF k = key THEN value ELSE table[k]]

\* The field takes the words below the last one, and its offset is that of the
\* lowest of them, where its first element is.
\* Mutant: the offset taken before the size grows.
PlaceFieldEarly ==
  LET field == Fields(method)[next]
  IN  /\ method > 0 /\ ~ FrameDone
      /\ stack_size' = stack_size + field.value_count
      /\ offsets' = Insert(offsets, field.identifier, stack_size)
      /\ next' = next + 1
      /\ UNCHANGED <<method, naming>>

PlaceField ==
  LET field == Fields(method)[next]
  IN  /\ method > 0 /\ ~ FrameDone
      /\ stack_size' = stack_size + field.value_count
      /\ offsets' = Insert(offsets, field.identifier, stack_size')
      /\ next' = next + 1
      /\ UNCHANGED <<method, naming>>

Next ==
  \/ BeginMethod
  \/ \E d \in Declarable : DeclareField(d[1], d[2])
  \/ NewTemporary
  \/ BeginBlock
  \/ EndBlock
  \/ BeginFrame
  \/ PlaceField

Spec == Init /\ [][Next]_vars

-----------------------------------------------------------------------------
(* Properties *)

\* Every variable has its type; offsets are positive, which is how
\* load_to_register tells a local field from a global one.
TypeOK ==
  /\ \A m \in 1 .. Len(methods) : \A i \in 1 .. Len(methods[m]) :
       methods[m][i].value_count \in Nat \ {0}
  /\ scopes \in Seq(1 .. MaxScopes)
  /\ scope_count \in 0 .. MaxScopes
  /\ temporary_counter \in 0 .. MaxFields
  /\ declaring \in BOOLEAN
  /\ before \in {"condition", "if block", "nothing"}
  /\ else_blocks \subseteq 1 .. MaxScopes
  /\ method \in 0 .. Len(methods)
  /\ next \in Nat \ {0}
  /\ stack_size \in Nat
  /\ \A id \in DOMAIN offsets : offsets[id] \in Nat \ {0}

\* The size that the prologue subtracts from %rsp: whole pairs of words.
FrameSize == stack_size + (stack_size % 2)

\* The words that the emitted code touches when it uses a field, by their
\* distance below %rbp.
Cells(field) ==
  {offsets[field.identifier] - k : k \in 0 .. field.value_count - 1}

IsPrefix(p, q) == Len(p) =< Len(q) /\ SubSeq(q, 1, Len(p)) = p

\* Both fields hold values at some moment: one is declared in a scope that
\* encloses, or is, the other's.
LiveTogether(f, g) == IsPrefix(f.path, g.path) \/ IsPrefix(g.path, f.path)

\* A frame's fields stay inside it: none reaches up to the saved %rbp and the
\* return address, or down to what a callee may overwrite.  Methods share the
\* table of offsets, and a frame may be smaller than the one before.
FieldsStayInFrame ==
  FrameDone =>
    \A i \in 1 .. Len(Fields(method)) :
      Cells(Fields(method)[i]) \subseteq 1 .. FrameSize

\* Two fields that hold values at the same time share no word: a field that
\* shadows another leaves it alone, and so do sibling scopes that use one name.
FieldsDoNotOverlap ==
  FrameDone =>
    \A i, j \in 1 .. Len(Fields(method)) :
      (i # j /\ LiveTogether(Fields(method)[i], Fields(method)[j])) =>
        Cells(Fields(method)[i]) \cap Cells(Fields(method)[j]) = {}

\* A global's identifier is never found in the table of offsets, which no method
\* clears: a local of the same name, here or in an earlier method, does not
\* capture the accesses to the global.
GlobalsKeepTheirLabels == GlobalIdentifiers \cap DOMAIN offsets = {}
=============================================================================
