------------------------------- MODULE Grammar -------------------------------
(***************************************************************************)
(* The language and its meaning as a tree, independent of how              *)
(* src/src/parser/parser.c recognizes it: a grammar whose rules also say,  *)
(* by symbols that begin with a dot, how the term of what has been read is *)
(* built on a stack.  The operators have a level each, from the loosest to *)
(* the tightest, and those of a level apply from left to right.  What the  *)
(* rules admit is what tests/parse/succeed and tests/parse/fail show; that *)
(* the comma between two parameters may be missing, no test shows, and the *)
(* code admits.                                                            *)
(***************************************************************************)
EXTENDS Integers, Sequences, TLC

-----------------------------------------------------------------------------
(* Rules: of each nonterminal, the sequences of symbols it stands for *)

Ints == {"decimal", "hex"}
Others == {"true", "false", "char"}

\* A token that is part of the term, and the same for any of several.
Kept(token) == <<token, ".leaf">>
AnyKept(types) == {Kept(t) : t \in types}

\* Expressions.  A minus sign directly before an int belongs to the int.
Operators == <<{"||"}, {"&&"}, {"==", "!="}, {"<", "<=", ">=", ">"}, {"+", "-"}, {"*", "/", "%"}>>
Level == <<"e1", "e2", "e3", "e4", "e5", "e6", "unary">>
Rest == <<"r1", "r2", "r3", "r4", "r5", "r6">>

ExpressionRules ==
  [e \in {"e1", "e2", "e3", "e4", "e5", "e6"} |->
     LET n == CHOOSE k \in 1 .. 6 : Level[k] = e IN {<<Level[n + 1], Rest[n]>>}]
RestRules ==
  [r \in {"r1", "r2", "r3", "r4", "r5", "r6"} |->
     LET n == CHOOSE k \in 1 .. 6 : Rest[k] = r
     IN  {<<>>} \cup {Kept(op) \o <<Level[n + 1], ".binary", r>> : op \in Operators[n]}]

UnaryRules ==
  [unary |-> {<<".none">> \o Kept(t) \o <<".literal">> : t \in Ints} \cup {<<"operand">>},
   operand |-> {<<".none">> \o Kept(t) \o <<".literal">> : t \in Others}
     \cup {<<"-", "negated">>, <<"!", "unary", ".not">>, <<"(", "e1", ")">>,
           <<"len", "(", "identifier", ".leaf", ")", ".len">>,
           <<"identifier", ".leaf", "location_or_call">>},
   negated |-> {<<".leaf">> \o Kept(t) \o <<".literal">> : t \in Ints}
     \cup {<<"operand", ".negate">>},
   location_or_call |-> {<<"index", ".location">>, <<"(", "arguments", ".call">>},
   index |-> {<<".none">>, <<"[", "e1", "]">>},
   arguments |-> {<<".list", ")">>, <<".list", "argument", ".add", "more_arguments">>},
   more_arguments |-> {<<")">>, <<",", "argument", ".add", "more_arguments">>},
   argument |-> {Kept("string"), <<"e1">>}]

StatementRules ==
  [statements |-> {<<>>, <<"statement", ".add", "statements">>},
   statement |->
     {<<"if", "(", "e1", ")", "block", "else_part", ".if">>,
      <<"while", "(", "e1", ")", "block", ".while">>,
      <<"for", "(", "identifier", ".leaf", "=", "e1", ";", "e1", ";", "change", ")", "block", ".for">>,
      <<"return", ".none", ";", ".return">>, <<"return", "e1", ";", ".return">>,
      <<"break", ";", ".break">>, <<"continue", ";", ".continue">>, <<"change", ";">>},
   else_part |-> {<<".none">>, <<"else", "block">>},
   change |-> {<<"identifier", ".leaf", "index", ".location", "assigned", ".assignment">>,
               <<"identifier", ".leaf", "(", "arguments", ".call">>},
   assigned |-> {Kept(op) \o <<"e1">> : op \in {"=", "+=", "-=", "*=", "/=", "%="}}
     \cup {Kept(op) \o <<".none">> : op \in {"++", "--"}},
   block |-> {<<"{", ".list", "fields", ".list", "statements", "}", ".block">>}]

DeclarationRules ==
  [program |-> {<<".list", "imports", ".list", "fields", ".list", "methods", ".program">>},
   imports |-> {<<>>, <<"import", "identifier", ".leaf", ";", ".import", ".add", "imports">>},
   fields |-> {<<>>} \cup
     {constancy \o Kept(type) \o <<"fields_of_type", ".end_fields", "fields">> :
        constancy \in {<<".none">>, Kept("const")}, type \in {"int", "bool"}},
   fields_of_type |-> {<<"identifier", ".leaf", "length", "initialized", ".field", "more_fields">>},
   more_fields |-> {<<";">>, <<",", "fields_of_type">>},
   length |-> {<<".none">>, <<"[", ".empty_array_length", "]">>}
     \cup {<<"[">> \o Kept(t) \o <<"]">> : t \in Ints},
   initialized |->
     {<<".none">>, <<"=", ".none", ".list", "literal", ".add", ".initializer">>,
      <<"=", "{", ".array_literal", ".list", "literal", ".add", "more_literals", ".initializer">>},
   more_literals |-> {<<"}">>, <<",", "literal", ".add", "more_literals">>},
   literal |-> {sign \o Kept(t) \o <<".literal">> :
                  sign \in {<<".none">>, Kept("-")}, t \in Ints \cup Others},
   methods |-> {<<>>} \cup
     {Kept(type) \o <<"identifier", ".leaf", "(", ".list", "parameters", "block", ".method", ".add",
                      "methods">> : type \in {"int", "bool", "void"}},
   parameters |-> {<<")">>, <<"parameter", ".add", "more_parameters">>},
   more_parameters |->
     {<<")">>, <<",", "parameter", ".add", "more_parameters">>,
      <<"parameter", ".add", "more_parameters">>},
   parameter |-> {Kept(type) \o <<"identifier", ".leaf", ".parameter">> : type \in {"int", "bool"}}]

Grammar == ExpressionRules @@ RestRules @@ UnaryRules @@ StatementRules @@ DeclarationRules

-----------------------------------------------------------------------------
(* Terms *)

Made(kind, at, parts) == [kind |-> kind, at |-> at, parts |-> parts]

\* The symbols that make a term of those on top of the stack: its kind and their number.
Makes(kind, arity) == [kind |-> kind, arity |-> arity]
Makers ==
  ".none" :> Makes("none", 0) @@ ".list" :> Makes("list", 0) @@
  ".array_literal" :> Makes("array_literal", 0) @@
  ".empty_array_length" :> Makes("empty_array_length", 0) @@
  ".break" :> Makes("break", 0) @@ ".continue" :> Makes("continue", 0) @@
  ".import" :> Makes("import", 1) @@ ".len" :> Makes("len", 1) @@ ".not" :> Makes("not", 1) @@
  ".negate" :> Makes("negate", 1) @@ ".return" :> Makes("return", 1) @@
  ".literal" :> Makes("literal", 2) @@ ".location" :> Makes("location", 2) @@
  ".call" :> Makes("call", 2) @@ ".while" :> Makes("while", 2) @@ ".block" :> Makes("block", 2) @@
  ".initializer" :> Makes("initializer", 2) @@ ".parameter" :> Makes("parameter", 2) @@
  ".binary" :> Makes("binary", 3) @@ ".assignment" :> Makes("assignment", 3) @@
  ".if" :> Makes("if", 3) @@ ".program" :> Makes("program", 3) @@ ".method" :> Makes("method", 4) @@
  ".for" :> Makes("for", 5)

Top(terms, n) == SubSeq(terms, Len(terms) - n + 1, Len(terms))
Below(terms, n) == SubSeq(terms, 1, Len(terms) - n)

\* Puts a term at the end of the list that is the n-th from the top.
Enlist(terms, n, term) ==
  [terms EXCEPT ![Len(terms) - n + 1].parts = Append(@, term)]

\* What a symbol with a dot does to the stack, when token n was the last one read.
Stacked(symbol, terms, token, n) ==
  CASE symbol = ".leaf" -> Append(terms, Made(token, n, <<>>))
    [] symbol = ".add" -> Enlist(Below(terms, 1), 1, terms[Len(terms)])
    \* A field takes the constancy and type below its identifier, which stay for the next.
    [] symbol = ".field" -> Enlist(Below(terms, 3), 3, Made("field", 0, Top(terms, 5)))
    [] symbol = ".end_fields" -> Below(terms, 2)
    [] OTHER -> LET m == Makers[symbol]
                IN  Append(Below(terms, m.arity), Made(m.kind, 0, Top(terms, m.arity)))
Symbols == DOMAIN Makers \cup {".leaf", ".add", ".field", ".end_fields"}

-----------------------------------------------------------------------------
(* Readings: the ways to read the tokens so far, each with the symbols still to come. *)

Reading(todo, terms, last) == [todo |-> todo, terms |-> terms, last |-> last]
NothingRead == Reading(<<"program">>, <<>>, "")

\* The ways in which a reading of n tokens goes on with token t, or ends.
TheEnd == "end of text"
RECURSIVE After(_, _, _)
After(r, t, n) ==
  IF r.todo = <<>> THEN IF t = TheEnd THEN {r} ELSE {}
  ELSE LET symbol == Head(r.todo)
           rest == Tail(r.todo)
       IN  IF symbol \in DOMAIN Grammar
           THEN UNION {After([r EXCEPT !.todo = rule \o rest], t, n) : rule \in Grammar[symbol]}
           ELSE IF symbol \in Symbols
           THEN After(Reading(rest, Stacked(symbol, r.terms, r.last, n), r.last), t, n)
           ELSE IF symbol = t THEN {Reading(rest, r.terms, t)} ELSE {}

\* The trees of a text.
RECURSIVE Readings(_, _)
Readings(text, n) ==
  IF n = 0 THEN {NothingRead}
  ELSE UNION {After(r, text[n], n - 1) : r \in Readings(text, n - 1)}
Trees(text) ==
  {r.terms[1] : r \in UNION {After(r, TheEnd, Len(text)) : r \in Readings(text, Len(text))}}
=============================================================================
