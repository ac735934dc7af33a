------------------------------ MODULE MCDriver ------------------------------
(* Short texts at every place of the grammar, word by word and phrase by phrase, *)
(* compiled up to the IR; and a few texts compiled by every command line.        *)
EXTENDS Driver, SequencesExt

Words(alphabet, n) == UNION {[1 .. k -> alphabet] : k \in 0 .. n}
Phrases(phrases, n) == {FlattenSeq(w) : w \in Words(phrases, n)}

Inter == {CommandLine(TRUE, "inter", <<>>, FALSE, 1, "none", TRUE, TRUE)}
Main == <<"void", "identifier", "(", ")", "{">>
Assigned == Main \o <<"identifier", "=">>

\* Every pair of binary operators, with signs and brackets.
Operands ==
  {<<"identifier">>, <<"-", "identifier">>, <<"-", "decimal">>, <<"!", "-", "hex">>,
   <<"(", "identifier", "-", "char", ")">>, <<"len", "(", "identifier", ")">>}
Pairs ==
  {a \o <<op>> \o <<"identifier">> \o <<op2>> \o b :
     a \in Operands, b \in Operands, op \in BinaryOperators, op2 \in BinaryOperators}

Statements ==
  {<<"if", "(", "true", ")", "{">>, <<"else", "{">>, <<"while", "(", "false", ")", "{">>, <<"}">>,
   <<"for", "(", "identifier", "=", "decimal", ";", "true", ";">>, <<"identifier", "++", ")", "{">>,
   <<"identifier", "(", "string", ")">>, <<"return">>, <<";">>, <<"const", "bool", "identifier", ";">>,
   <<"identifier", "[", "char", "]", "%=", "hex">>, <<"continue", ";">>}
Declarations ==
  {<<"import", "identifier", ";">>, <<"int", "identifier">>, <<"const">>, <<"[", "hex", "]">>, <<"[", "]">>,
   <<"=">>, <<"{", "-", "char">>, <<",">>, <<",", "identifier">>, <<"false">>, <<"}">>, <<"(">>, <<")", "{", "}">>, <<";">>}

\* A program with every construct.
Whole ==
  <<"import", "identifier", ";", "const", "int", "identifier", "[", "hex", "]", "=", "{", "decimal", ",",
    "-", "decimal", "}", ",", "identifier", ";", "bool", "identifier", "=", "true", ";",
    "int", "identifier", "(", "int", "identifier", ",", "bool", "identifier", ")", "{",
    "int", "identifier", ",", "identifier", "[", "]", "=", "{", "false", "}", ";",
    "for", "(", "identifier", "=", "decimal", ";", "identifier", "<", "len", "(", "identifier", ")", ";",
    "identifier", "(", "string", ",", "identifier", "[", "hex", "]", ")", ")", "{",
    "if", "(", "!", "identifier", "||", "identifier", "==", "char", ")", "{", "break", ";", "}",
    "else", "{", "continue", ";", "}", "while", "(", "true", ")", "{", "}", "}",
    "identifier", "[", "identifier", "]", "*=", "-", "(", "identifier", ")", ";", "identifier", "--", ";",
    "return", "identifier", "(", ")", ";", "}", "void", "identifier", "(", ")", "{", "return", ";", "}">>

Sources ==
  {Texts(Assigned, Words({"identifier", "-", "*", "<", "!", "(", ")", "decimal"}, 5), <<";", "}">>, Inter),
   Texts(Assigned, Pairs, <<";", "}">>, Inter),
   Texts(<<>>, {Whole}, <<>>, Inter),
   Texts(Assigned \o <<"identifier">>,
         Words({"identifier", "-", "(", ")", "[", "]", ",", "string"}, 4), <<";", "}">>, Inter),
   Texts(Main, Words({"identifier", "=", ";", "++", "return", "break", "(", ")"}, 4), <<"}">>, Inter),
   Texts(Main, Phrases(Statements, 4), <<"}">>, Inter),
   Texts(Main \o <<"for", "(", "identifier", "=", "decimal">>,
         Words({"identifier", ";", "++", "(", ")", "decimal"}, 5), <<")", "{", "}", "}">>, Inter),
   Texts(<<"int", "identifier", "=">>, Words({"{", "}", "decimal", ",", "-", "string"}, 5), <<";">>, Inter),
   Texts(<<>>, Words({"import", "identifier", ";", "int", "const", "(", "void", ","}, 4), <<>>, Inter),
   Texts(<<"int", "identifier">>, Phrases(Declarations, 4), <<";">>, Inter),
   Texts(<<"int", "identifier", "(">>,
         Words({"int", "void", "identifier", ",", ")", "{", "}"}, 4), <<")", "{", "}">>, Inter)}

\* Every command line with up to two optimizations, and every outcome of a phase.
Lists == UNION {[1 .. k -> Entries \cup {Entry("unknown", TRUE)}] : k \in 0 .. 2}
CommandLines ==
  {CommandLine(TRUE, target, list, debug, 1, "none", TRUE, TRUE) :
     target \in {"assembly", "inter"}, list \in Lists, debug \in BOOLEAN}
  \cup {CommandLine(parses, target, list, debug, files, file_error, scans, legal) :
     parses \in BOOLEAN, target \in Targets \cup {"unknown"}, list \in {<<>>, <<Entry("all", TRUE)>>},
     debug \in BOOLEAN, files \in 0 .. 2, file_error \in {"none", "output", "input"},
     scans \in BOOLEAN, legal \in BOOLEAN}
Programs ==
  {Texts(<<>>, {<<>>, Main \o <<"}">>, Main \o <<"break", ";", "}">>, Main}, <<>>, CommandLines)}

MCCompilations == Sources \cup Programs
=============================================================================
