-------------------------------- MODULE Parser --------------------------------
(***************************************************************************)
(* The recursive descent of src/src/parser/parser.c.  A parse_... function *)
(* takes the parser's state, the tokens passed and whether an error has    *)
(* been reported, and returns it with the node it has built, or with none  *)
(* where the code returns NULL.  All but those of binary expressions are   *)
(* rules: tokens to expect and functions to call, in order, and errors     *)
(* that are reported but do not stop the parse.  Only the trees of parses  *)
(* without an error are used, so that a missing child needs no place in    *)
(* its parent.  The token of an inner node serves messages only.           *)
(***************************************************************************)
EXTENDS Integers, Sequences

VARIABLE tokens   \* the types of the tokens that the scanner has found

-----------------------------------------------------------------------------
(* Tokens *)

Keywords ==
  {"bool", "break", "const", "continue", "else", "false", "for", "if", "import", "int",
   "len", "return", "true", "void", "while"}
BoolLiterals == {"true", "false"}
IntLiterals == {"decimal", "hex"}
Types == {"int", "bool"}
AssignOperators == {"=", "+=", "-=", "*=", "/=", "%="}
IncrementOperators == {"++", "--"}

\* BINARY_OPERATOR_PRECEDENCE, the loosest first.
Levels == <<{"||"}, {"&&"}, {"==", "!="}, {"<", "<=", ">=", ">"}, {"+", "-"}, {"*", "/", "%"}>>
BinaryOperators == UNION {Levels[n] : n \in 1 .. Len(Levels)}
Precedence == [op \in BinaryOperators |-> CHOOSE n \in 1 .. Len(Levels) : op \in Levels[n]]

\* A node, with the token that a leaf stands for.
Node(kind, at, parts) == [kind |-> kind, at |-> at, parts |-> parts]

-----------------------------------------------------------------------------
(* The parser's state: the tokens passed, the error flag, and the nodes built by the   *)
(* function under way.                                                                 *)

Start == [position |-> 0, error |-> FALSE, parts |-> <<>>]

\* A token of types at a position relative to s's.
Peek(s, n, types) ==
  s.position + n < Len(tokens) /\ tokens[s.position + n + 1] \in types

Pass(s) == [s EXCEPT !.position = @ + 1]
Report(s) == [s EXCEPT !.error = TRUE]
Add(s, node) == [s EXCEPT !.parts = Append(@, node)]
Built(s) == s.parts # <<>>

\* The nodes gathered become the children of one.
Wrap(s, kind) == [s EXCEPT !.parts = <<Node(kind, 0, @)>>]

Expect(s, token) == IF Peek(s, 0, {token}) THEN Pass(s) ELSE Report(s)

\* Passes a token of types and makes it a leaf; forbidden ones make one too, with an error.
Leaf(s, kind, types, forbidden) ==
  IF ~Peek(s, 0, types \cup forbidden) THEN s
  ELSE LET leaf == Add(Pass(s), Node(kind, s.position + 1, <<>>))
       IN  IF Peek(s, 0, forbidden) THEN Report(leaf) ELSE leaf

-----------------------------------------------------------------------------
(* The rules *)

Item(op, name, more) == [op |-> op, name |-> name, more |-> more]
Token(token) == Item("token", token, <<>>)         \* an error without it
Need(rule) == Item("need", rule, <<>>)             \* a child, an error without it
Maybe(rule) == Item("maybe", rule, <<>>)
Many(rule) == Item("many", rule, <<>>)
If(token, items) == Item("if", token, items)
List(rule, close) == Item("list", rule, close)     \* with commas between, up to close
Mark(kind) == Item("mark", kind, <<>>)             \* a node without a token
Parameters == Item("parameters", "method_argument", ")")
Arguments == Item("arguments", "method_call_argument", ")")

\* A rule that returns NULL unless a token comes first, or unless another rule does not, or
\* unless one of others does not; the last is a leaf's.  Without a kind of its own its
\* children are its caller's.
Rule(form, first, kind, items) == [form |-> form, first |-> first, kind |-> kind, items |-> items]
Begins(token, kind, items) == Rule("token", token, kind, items)
Led(rule, kind, items) == Rule("rule", rule, kind, items)
OneOf(kind, rules) == Rule("one of", "", kind, rules)
Terminal(kind, types, forbidden) == Rule("leaf", types, kind, forbidden)

ParseIdentifier == Terminal("identifier", {"identifier"}, Keywords)
ParseCharLiteral == Terminal("char_literal", {"char"}, {})
ParseStringLiteral == Terminal("string_literal", {"string"}, {})
ParseBoolLiteral == Terminal("bool_literal", BoolLiterals, {})
ParseIntLiteral == Terminal("int_literal", IntLiterals, {})
ParseType == Terminal("data_type", Types, {"void"})
ParseBinaryOperator == Terminal("binary_operator", BinaryOperators, {})
ParseIncrementOperator == Terminal("increment_operator", IncrementOperators, {})
ParseAssignOperator == Terminal("assign_operator", AssignOperators, {})
ParseLiteralNegation == Terminal("literal_negation", {"-"}, {})

\* parse_literal: a string is passed with an error, and a minus sign asks for a literal.
MisplacedString == Terminal("string_literal", {}, {"string"})
Unsigned == OneOf("", <<"bool_literal", "int_literal", "char_literal", "misplaced_string">>)
Signed == Led("literal_negation", "", <<Need("unsigned")>>)
ParseLiteral == OneOf("literal", <<"signed", "unsigned">>)
ParseArrayLiteral == Begins("{", "array_literal", <<List("literal", "}")>>)
ParseInitializer == OneOf("initializer", <<"array_literal", "literal">>)

ParseMethodCallArgument == OneOf("method_call_argument", <<"string_literal", "expression">>)
ParseMethodCall ==
  Led("identifier", "method_call", <<Token("("), Arguments, Mark("method_call_end")>>)
ParseParenthesisExpression == Begins("(", "", <<Need("expression"), Token(")")>>)
ParseNotExpression == Begins("!", "not_expression", <<Need("unary_expression")>>)
ParseNegateExpression == Begins("-", "negate_expression", <<Need("unary_expression")>>)
ParseLenExpression ==
  Begins("len", "len_expression", <<Token("("), Need("identifier"), Token(")")>>)
ParseUnaryExpression == OneOf("", <<"primary", "parenthesis_expression">>)
Primary ==
  OneOf("expression", <<"len_expression", "not_expression", "negate_expression", "literal",
                        "method_call", "location">>)
LocationIndex == OneOf("location_index", <<"expression">>)
ParseLocation ==
  Led("identifier", "location", <<If("[", <<Need("location_index"), Token("]")>>)>>)

ParseAssignment == Led("location", "assignment", <<Need("update")>>)
Update == OneOf("", <<"assign_update", "increment_operator">>)
AssignUpdate == Led("assign_operator", "", <<Need("expression")>>)
ParseForUpdate == OneOf("for_update", <<"method_call", "assignment">>)
ParseContinueStatement == Begins("continue", "continue_statement", <<Token(";")>>)
ParseBreakStatement == Begins("break", "break_statement", <<Token(";")>>)
ParseReturnStatement == Begins("return", "return_statement", <<Maybe("expression"), Token(";")>>)
ParseWhileStatement ==
  Begins("while", "while_statement", <<Token("("), Need("expression"), Token(")"), Need("block")>>)
ParseForStatement ==
  Begins("for", "for_statement",
         <<Token("("), Need("identifier"), Token("="), Need("expression"), Token(";"),
           Need("expression"), Token(";"), Need("for_update"), Token(")"), Need("block")>>)
ParseIfStatement ==
  Begins("if", "if_statement", <<Token("("), Need("expression"), Token(")"), Need("block"),
                                 If("else", <<Need("block")>>)>>)
ParseMethodCallStatement == Led("method_call", "", <<Token(";")>>)
ParseAssignStatement == Led("assignment", "", <<Token(";")>>)
ParseStatement ==
  OneOf("statement", <<"if_statement", "for_statement", "while_statement", "return_statement",
                       "break_statement", "continue_statement", "method_call_statement",
                       "assign_statement">>)
ParseBlock == Begins("{", "block", <<Many("field"), Many("statement"), Token("}")>>)

ParseMethodArgument == Led("data_type", "method_argument", <<Need("identifier")>>)
ParseVoid == Terminal("void", {"void"}, {})
ReturnType == OneOf("", <<"void", "data_type">>)
ParseMethod ==
  Led("return_type", "method", <<Need("identifier"), Token("("), Parameters, Need("block")>>)
ParseFieldIdentifier ==
  Led("identifier", "field_identifier",
      <<If("[", <<Need("array_length"), Token("]")>>), If("=", <<Need("initializer")>>)>>)
ArrayLength == OneOf("", <<"int_literal", "empty_array_length">>)
ParseConst == Terminal("const", {"const"}, {})
ConstType == Led("const", "", <<Need("data_type")>>)
FieldType == OneOf("", <<"const_type", "data_type">>)
ParseField == Led("field_type", "field", <<List("field_identifier", ";")>>)
ParseImport == Begins("import", "import", <<Need("identifier"), Token(";")>>)

Rules ==
  [identifier |-> ParseIdentifier, char_literal |-> ParseCharLiteral,
   string_literal |-> ParseStringLiteral, bool_literal |-> ParseBoolLiteral,
   int_literal |-> ParseIntLiteral, data_type |-> ParseType,
   binary_operator |-> ParseBinaryOperator, increment_operator |-> ParseIncrementOperator,
   assign_operator |-> ParseAssignOperator, literal_negation |-> ParseLiteralNegation,
   misplaced_string |-> MisplacedString, unsigned |-> Unsigned, signed |-> Signed,
   literal |-> ParseLiteral, array_literal |-> ParseArrayLiteral,
   initializer |-> ParseInitializer, method_call_argument |-> ParseMethodCallArgument,
   method_call |-> ParseMethodCall, parenthesis_expression |-> ParseParenthesisExpression,
   not_expression |-> ParseNotExpression, negate_expression |-> ParseNegateExpression,
   len_expression |-> ParseLenExpression, unary_expression |-> ParseUnaryExpression,
   primary |-> Primary, location_index |-> LocationIndex, location |-> ParseLocation,
   assignment |-> ParseAssignment, update |-> Update, assign_update |-> AssignUpdate,
   for_update |-> ParseForUpdate, continue_statement |-> ParseContinueStatement,
   break_statement |-> ParseBreakStatement, return_statement |-> ParseReturnStatement,
   while_statement |-> ParseWhileStatement, for_statement |-> ParseForStatement,
   if_statement |-> ParseIfStatement, method_call_statement |-> ParseMethodCallStatement,
   assign_statement |-> ParseAssignStatement, statement |-> ParseStatement,
   block |-> ParseBlock, method_argument |-> ParseMethodArgument, void |-> ParseVoid,
   return_type |-> ReturnType, method |-> ParseMethod, const |-> ParseConst,
   field_identifier |-> ParseFieldIdentifier, array_length |-> ArrayLength,
   const_type |-> ConstType, field_type |-> FieldType, field |-> ParseField,
   global_field |-> ParseField, import |-> ParseImport]

-----------------------------------------------------------------------------
(* Looking ahead *)

\* peek_field
PeekField(s) ==
  LET i == IF Peek(s, 0, {"const"}) THEN 1 ELSE 0
  IN  Peek(s, i, Types) /\ Peek(s, i + 1, {"identifier"}) /\ ~Peek(s, i + 2, {"("})

\* What a function peeks at before it starts.  The minus sign of an int belongs to the literal.
\* Mutant: it is an operator.
EntersLoosely(rule, s) ==
  /\ rule = "method_call" => Peek(s, 0, {"identifier"}) /\ Peek(s, 1, {"("})
  /\ rule = "global_field" => PeekField(s)
Enters(rule, s) ==
  /\ rule = "method_call" => Peek(s, 0, {"identifier"}) /\ Peek(s, 1, {"("})
  /\ rule = "negate_expression" => ~Peek(s, 1, IntLiterals)
  /\ rule = "global_field" => PeekField(s)

\* Mutant: a minus sign after ! taken for a binary operator.
IsBinaryLoosely(s, i) ==
  /\ Peek(s, i, BinaryOperators)
  /\ Peek(s, i, {"-"}) => i > 0 /\ ~Peek(s, i - 1, BinaryOperators)
IsBinaryOperator(s, i) ==
  /\ Peek(s, i, BinaryOperators)
  /\ Peek(s, i, {"-"}) => i > 0 /\ ~Peek(s, i - 1, BinaryOperators \cup {"!"})

IsExpressionTermination(s, depth, i) ==
  (depth = 0 /\ Peek(s, i, {")", "]", ";", ","})) \/ s.position + i >= Len(tokens)

\* The binary operators outside brackets, in an expression of a length, or in the one that
\* comes next.
Unlimited == -1
RECURSIVE FindBinaryOperators(_, _, _, _)
FindBinaryOperators(s, length, depth, i) ==
  IF i = length \/ IsExpressionTermination(s, depth, i) THEN {}
  ELSE LET inside == depth + (IF Peek(s, i, {"(", "["}) THEN 1 ELSE 0)
                           - (IF Peek(s, i, {")", "]"}) THEN 1 ELSE 0)
           others == FindBinaryOperators(s, length, inside, i + 1)
       IN  IF inside = 0 /\ IsBinaryOperator(s, i) THEN {i} \cup others ELSE others

\* get_lowest_precedence_index: the last of the loosest.
\* Mutant: the first.
FirstOfLowestPrecedence(s, indices) ==
  LET precedence(i) == Precedence[tokens[s.position + i + 1]]
  IN  CHOOSE i \in indices : \A j \in indices \ {i} :
        precedence(i) < precedence(j) \/ (precedence(i) = precedence(j) /\ i < j)
LowestPrecedence(s, indices) ==
  LET precedence(i) == Precedence[tokens[s.position + i + 1]]
  IN  CHOOSE i \in indices : \A j \in indices \ {i} :
        precedence(i) < precedence(j) \/ (precedence(i) = precedence(j) /\ i > j)

-----------------------------------------------------------------------------
(* The descent *)

RECURSIVE Parse(_, _), Do(_, _), DoItem(_, _), FirstBuilt(_, _), ParseExpression(_, _)

\* A function called for a child.
Call(rule, s) == [Parse(rule, [s EXCEPT !.parts = <<>>]) EXCEPT !.parts = s.parts \o @]

\* The same for a part of an expression that has a length, and must be there.
Gather(s, done) ==
  IF Built(done) THEN [done EXCEPT !.parts = s.parts \o @]
  ELSE Report([done EXCEPT !.parts = s.parts])
CallExpression(s, length) == Gather(s, ParseExpression([s EXCEPT !.parts = <<>>], length))

Do(items, s) == IF items = <<>> THEN s ELSE Do(Tail(items), DoItem(Head(items), s))

\* An item, given the state in which the function that it names has returned, if it does.
AfterCall(item, s, called) ==
  LET built == Len(called.parts) > Len(s.parts)
      needed == IF built THEN called ELSE Report(called)
      comma(t) == Peek(t, 0, {","})
  IN  CASE item.op = "token" -> Expect(s, item.name)
        [] item.op = "need" -> needed
        [] item.op = "maybe" -> called
        [] item.op = "many" -> IF built THEN DoItem(item, called) ELSE called
        [] item.op = "if" -> IF Peek(s, 0, {item.name}) THEN Do(item.more, Pass(s)) ELSE s
        [] item.op = "mark" -> Add(s, Node(item.name, 0, <<>>))
        [] item.op = "list" ->
             IF comma(needed) THEN DoItem(item, Pass(needed)) ELSE Expect(needed, item.more)
        [] item.op = "arguments" ->
             IF Peek(s, 0, {item.more}) THEN Pass(s) ELSE DoItem(List(item.name, item.more), s)
        [] item.op = "parameters" ->
             \* The comma may be missing, but not the parameter after it.
             IF Peek(s, 0, {item.more}) THEN Pass(s)
             ELSE IF ~built THEN needed
             ELSE IF ~comma(called) THEN DoItem(item, called)
             ELSE LET next == Pass(called)
                  IN  DoItem(item, IF Peek(next, 0, {item.more}) THEN Report(next) ELSE next)
DoItem(item, s) == AfterCall(item, s, Call(item.name, s))

FirstBuilt(rules, s) ==
  LET Or(first) ==
        IF Built(first) \/ Len(rules) = 1 THEN first ELSE FirstBuilt(Tail(rules), first)
  IN  Or(Call(Head(rules), s))

\* parse_binary_expression: the operator that is applied last divides the expression, and
\* the left half must end there.
MoveTo(s, position) ==
  IF s.position = position THEN s ELSE Report([s EXCEPT !.position = position])
ParseBinaryExpression(s, length, index) ==
  LET left == MoveTo(CallExpression(s, index), s.position + index)
      right == CallExpression(Call("binary_operator", left),
                              IF length = Unlimited THEN Unlimited ELSE length - index - 1)
  IN  Wrap(Wrap(right, "binary_expression"), "expression")

\* parse_expression_with_length
ParseExpression(s, length) ==
  LET Divide(indices) ==
        IF indices = {} THEN Call("unary_expression", s)
        ELSE ParseBinaryExpression(s, length, LowestPrecedence(s, indices))
  IN  Divide(FindBinaryOperators(s, length, 0, 0))

\* What has been built, under a node of the rule's kind.
Close(s, kind) == IF kind = "" THEN s ELSE Wrap(s, kind)
Apply(rule, s) ==
  LET Follow(led) == IF Built(led) THEN Close(Do(rule.items, led), rule.kind) ELSE led
      One(one) == IF Built(one) THEN Close(one, rule.kind) ELSE one
  IN  CASE rule.form = "leaf" -> Leaf(s, rule.kind, rule.first, rule.items)
        [] rule.form = "token" ->
             IF Peek(s, 0, {rule.first}) THEN Close(Do(rule.items, Pass(s)), rule.kind) ELSE s
        [] rule.form = "rule" -> Follow(Call(rule.first, s))
        [] rule.form = "one of" -> One(FirstBuilt(rule.items, s))

Parse(name, s) ==
  IF name = "expression" THEN ParseExpression(s, Unlimited)
  ELSE IF name = "empty_array_length" THEN Add(s, Node(name, 0, <<>>))
  ELSE IF Enters(name, s) THEN Apply(Rules[name], s) ELSE s

\* parse_program and parser_parse, which reports an error as -1.
ToTheEnd(s) == IF s.position = Len(tokens) THEN s ELSE Report(s)
ParseProgram ==
  ToTheEnd(Do(<<Many("import"), Many("global_field"), Many("method")>>, Start))
ParserParse == IF tokens = <<>> THEN Report(Start) ELSE Wrap(ParseProgram, "program")
=============================================================================
