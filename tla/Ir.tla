--------------------------------- MODULE Ir ---------------------------------
(***************************************************************************)
(* How the tree of the parser becomes the IR: ast_node_linearize of        *)
(* src/src/parser/ast.c writes its nodes in a row, parents first and       *)
(* without their number of children, and the constructors of               *)
(* src/src/semantics/ir.c read the row from left to right.  They tell      *)
(* where a list ends, and which optional child is there, by the type of    *)
(* the next node alone, and assert what must come.                         *)
(***************************************************************************)
EXTENDS Parser

Term(kind, parts) == Node(kind, 0, parts)
Nothing == Term("none", <<>>)

-----------------------------------------------------------------------------
(* ast_node_linearize *)

\* Mutant: blocks are not closed.
EndsUnclosed == [program |-> "program_end"]
Ends == [program |-> "program_end", block |-> "block_end"]

RECURSIVE Linearize(_), LinearizeAll(_)
LinearizeAll(nodes) ==
  IF nodes = <<>> THEN <<>> ELSE Linearize(Head(nodes)) \o LinearizeAll(Tail(nodes))
Linearize(node) ==
  <<Node(node.kind, node.at, <<>>)>> \o LinearizeAll(node.parts)
  \o (IF node.kind \in DOMAIN Ends THEN <<Node(Ends[node.kind], 0, <<>>)>> ELSE <<>>)

-----------------------------------------------------------------------------
(* The constructors, by the kind of node that each asserts *)

\* What a constructor does after its first assertion: a child of one of kinds, a child if
\* the next node is of one of kinds, children while it is of a kind, children until it is,
\* or a node that must come and is dropped.
Child(kinds) == Item("child", "", kinds)
Option(kinds) == Item("option", "", kinds)
While(kind) == Item("while", kind, {kind})
Until(kind, child) == Item("until", kind, {child})
Drop(kind) == Item("drop", kind, {kind})
Fields == Item("fields", "field", {"field"})

\* Without a kind of its own the term is its only child's.
Constructor(kind, items) == [kind |-> kind, items |-> items]

Expressions == Child({"expression"})
IrProgramNew == Constructor("program", <<While("import"), Fields, While("method")>>)
IrMethodNewFromImport == Constructor("import", <<Child({"identifier"})>>)
IterateFields ==
  Constructor("fields", <<Option({"const"}), Child({"void", "data_type"}), While("field_identifier")>>)
IrFieldNew ==
  Constructor("field", <<Child({"identifier"}), Option({"int_literal", "empty_array_length"}),
                         Option({"initializer"})>>)
IrMethodNew ==
  Constructor("method", <<Child({"void", "data_type"}), Child({"identifier"}),
                          While("method_argument"), Child({"block"})>>)
IrFieldNewFromMethodArgument ==
  Constructor("parameter", <<Child({"void", "data_type"}), Child({"identifier"})>>)
IrInitializerNew == Constructor("initializer", <<Option({"array_literal"}), While("literal")>>)
IrBlockNew == Constructor("block", <<Fields, While("statement"), Drop("block_end")>>)
IrStatementNew ==
  Constructor("", <<Child({"if_statement", "for_statement", "while_statement", "return_statement",
                           "break_statement", "continue_statement", "method_call", "assignment"})>>)
IrIfStatementNew == Constructor("if", <<Expressions, Child({"block"}), Option({"block"})>>)
IrForStatementNew ==
  Constructor("for", <<Child({"identifier"}), Expressions, Expressions, Child({"for_update"}),
                       Child({"block"})>>)
IrForUpdateNew == Constructor("", <<Child({"method_call", "assignment"})>>)
IrWhileStatementNew == Constructor("while", <<Expressions, Child({"block"})>>)
ReturnStatement == Constructor("return", <<Option({"expression"})>>)
BreakStatement == Constructor("break", <<>>)
ContinueStatement == Constructor("continue", <<>>)

\* The expression of an assignment is read unless its operator is ++ or --.
IrAssignmentNew ==
  Constructor("assignment", <<Child({"location"}), Child({"assign_operator", "increment_operator"}),
                              Item("assigned", "", {"expression"})>>)
IrMethodCallNew ==
  Constructor("call", <<Child({"identifier"}), Until("method_call_end", "method_call_argument"),
                        Drop("method_call_end")>>)
IrMethodCallArgumentNew == Constructor("", <<Child({"string_literal", "expression"})>>)
IrLocationNew == Constructor("location", <<Child({"identifier"}), Option({"location_index"})>>)
LocationIndexExpression == Constructor("", <<Expressions>>)
IrExpressionNew ==
  Constructor("", <<Child({"binary_expression", "not_expression", "negate_expression",
                           "len_expression", "method_call", "literal", "location"})>>)
IrBinaryExpressionNew == Constructor("binary", <<Expressions, Child({"binary_operator"}), Expressions>>)
NotExpression == Constructor("not", <<Expressions>>)
NegateExpression == Constructor("negate", <<Expressions>>)
IrLengthExpressionNew == Constructor("len", <<Child({"identifier"})>>)
IrLiteralNew ==
  Constructor("literal", <<Option({"literal_negation"}),
                           Child({"int_literal", "bool_literal", "char_literal"})>>)

Constructors ==
  [program |-> IrProgramNew, import |-> IrMethodNewFromImport, field |-> IterateFields,
   field_identifier |-> IrFieldNew, method |-> IrMethodNew,
   method_argument |-> IrFieldNewFromMethodArgument, initializer |-> IrInitializerNew,
   block |-> IrBlockNew, statement |-> IrStatementNew, if_statement |-> IrIfStatementNew,
   for_statement |-> IrForStatementNew, for_update |-> IrForUpdateNew,
   while_statement |-> IrWhileStatementNew, return_statement |-> ReturnStatement,
   break_statement |-> BreakStatement, continue_statement |-> ContinueStatement,
   assignment |-> IrAssignmentNew, method_call |-> IrMethodCallNew,
   method_call_argument |-> IrMethodCallArgumentNew, location |-> IrLocationNew,
   location_index |-> LocationIndexExpression, expression |-> IrExpressionNew,
   binary_expression |-> IrBinaryExpressionNew, not_expression |-> NotExpression,
   negate_expression |-> NegateExpression, len_expression |-> IrLengthExpressionNew,
   literal |-> IrLiteralNew]

\* The tokens that the switches over a leaf's token, and those of its conversion, know.
LeafTokens ==
  [identifier |-> {"identifier"}, int_literal |-> IntLiterals, bool_literal |-> BoolLiterals,
   char_literal |-> {"char"}, string_literal |-> {"string"}, data_type |-> Types,
   binary_operator |-> BinaryOperators, assign_operator |-> AssignOperators,
   increment_operator |-> IncrementOperators, void |-> {"void"}, const |-> {"const"},
   literal_negation |-> {"-"}]

-----------------------------------------------------------------------------
(* Reading the row.  The state is the nodes passed, whether an assertion has failed, and *)
(* the terms made by the constructor under way.                                          *)

RECURSIVE Steps(_, _, _), ReadStep(_, _, _)

NextKind(nodes, r) == IF r.position < Len(nodes) THEN nodes[r.position + 1].kind ELSE "beyond"

\* A constructor called for a child; a failed assertion ends the program.
Finish(r, constructor, made) ==
  LET term == IF constructor.kind = "" /\ Built(made) THEN made.parts[1]
              ELSE Term(constructor.kind, made.parts)
  IN  [made EXCEPT !.parts = Append(r.parts, term)]
CallConstructor(nodes, constructor, r) ==
  Finish(r, constructor, Steps(nodes, constructor.items, [Pass(r) EXCEPT !.parts = <<>>]))
Read(nodes, r) ==
  LET node == nodes[r.position + 1]
  IN  IF node.kind \in DOMAIN LeafTokens
      THEN IF tokens[node.at] \in LeafTokens[node.kind]
           THEN Add(Pass(r), Node(tokens[node.at], node.at, <<>>)) ELSE Report(r)
      ELSE IF node.kind \in DOMAIN Constructors
      THEN CallConstructor(nodes, Constructors[node.kind], r)
      ELSE IF node.kind \in {"array_literal", "empty_array_length"}
      THEN Add(Pass(r), Term(node.kind, <<>>))
      ELSE Report(r)

Steps(nodes, items, r) ==
  IF items = <<>> \/ r.error THEN r ELSE Steps(nodes, Tail(items), ReadStep(nodes, Head(items), r))

\* The children of a list, in a term of their own.
RECURSIVE ReadList(_, _, _, _)
ReadList(nodes, kinds, end, r) ==
  LET next == NextKind(nodes, r)
  IN  IF r.error \/ next = end \/ (end = "" /\ next \notin kinds) THEN r
      ELSE IF next \notin kinds THEN Report(r)
      ELSE ReadList(nodes, kinds, end, Read(nodes, r))

\* iterate_fields makes a field of every identifier, with the constancy and type of all.
Declared(declaration) ==
  LET identifiers == declaration.parts[3].parts
  IN  [i \in 1 .. Len(identifiers) |->
         Term("field", SubSeq(declaration.parts, 1, 2) \o identifiers[i].parts)]
RECURSIVE AllDeclared(_)
AllDeclared(declarations) ==
  IF declarations = <<>> THEN <<>> ELSE Declared(Head(declarations)) \o AllDeclared(Tail(declarations))

\* A step, given the children that are a list's.
TakeStep(nodes, item, r, list) ==
  LET next == NextKind(nodes, r)
      none == Add(r, Nothing)
      listed(terms) == [list EXCEPT !.parts = Append(r.parts, Term("list", terms))]
  IN  CASE item.op = "child" -> IF next \in item.more THEN Read(nodes, r) ELSE Report(r)
        [] item.op = "option" -> IF next \in item.more THEN Read(nodes, r) ELSE none
        [] item.op = "drop" -> IF next \in item.more THEN Pass(r) ELSE Report(r)
        [] item.op \in {"while", "until"} -> listed(list.parts)
        [] item.op = "fields" ->
             IF list.error THEN list ELSE listed(AllDeclared(list.parts))
        [] item.op = "assigned" ->
             IF r.parts[2].kind \in IncrementOperators THEN none
             ELSE IF next \in item.more THEN Read(nodes, r) ELSE Report(r)
ReadStep(nodes, item, r) ==
  TakeStep(nodes, item, r,
           ReadList(nodes, item.more, IF item.op = "until" THEN item.name ELSE "",
                    [r EXCEPT !.parts = <<>>]))

\* ir_program_new, whose last assertion is that the row ends with the program.
Ended(nodes, r) == IF NextKind(nodes, r) = "program_end" THEN r ELSE Report(r)
Construct(nodes, r) ==
  Ended(nodes, IF NextKind(nodes, r) = "program" THEN Read(nodes, r) ELSE Report(r))
=============================================================================
