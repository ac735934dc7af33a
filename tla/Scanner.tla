------------------------------- MODULE Scanner -------------------------------
(***************************************************************************)
(* src/src/scanner: scanner_tokenize cuts a source file into tokens.  The  *)
(* patterns of token.c are the alternatives of one regular expression, in  *)
(* the order of enum token_type, and the first that matches wins, not the  *)
(* longest.  A pattern is here the set of words it matches, with what      *)
(* decides between them: \b after them, and whether the repetition in them *)
(* is greedy or lazy.  One step per token.                                 *)
(***************************************************************************)
EXTENDS Integers, Sequences, FiniteSetsExt

CONSTANT Sources    \* the source files

\* A source file is a sequence of characters.
ASSUME SourcesAssumption == Sources \subseteq Seq(STRING)

VARIABLES
  source,
  position,   \* the characters passed
  tokens,     \* the good tokens so far: see Token
  scanned     \* what scanner_tokenize returns: 0, or -1 when a bad one has been met

scanner == <<source, position, tokens, scanned>>

-----------------------------------------------------------------------------
(* Characters *)

Space == {" ", "\n", "\t"}
Digits == {"0", "1", "2", "3", "4", "5", "6", "7", "8", "9"}
HexDigits == Digits \cup {"a", "b", "c", "d", "e", "f", "A", "B", "C", "D", "E", "F"}
Letters ==
  (HexDigits \ Digits) \cup
  {"g", "h", "i", "j", "k", "l", "m", "n", "o", "p", "q", "r", "s", "t", "u", "v", "w", "x", "y", "z", "_"}
WordCharacters == Letters \cup Digits
Signs == {"!", "%", "&", "(", ")", "*", "+", ",", "-", "/", ";", "<", "=", ">", "@", "[", "]", "{", "|", "}"}

\* VALID_CHAR_PATTERN and EXTENDED_CHAR_PATTERN: one character, or a backslash and one.
Plain == WordCharacters \cup Signs \cup {" "}
ValidUnits == {<<c>> : c \in Plain} \cup {<<"\\", c>> : c \in {"'", "\"", "\\", "t", "n"}}
ExtendedPlain == Plain \cup {"'", "\""}
ExtendedUnits == {<<c>> : c \in ExtendedPlain} \cup {<<"\\", c>> : c \in ExtendedPlain \cup {"\\"}}

\* Units one after the other.
AllUnits(w, units) ==
  LET from[k \in 1 .. Len(w) + 1] ==
        IF k > Len(w) THEN TRUE
        ELSE LET n == IF w[k] = "\\" THEN 2 ELSE 1
             IN  k + n - 1 =< Len(w) /\ SubSeq(w, k, k + n - 1) \in units /\ from[k + n]
  IN  from[1]

\* A word between two quotes of a kind.
Quoted(w, quote) == Len(w) > 1 /\ w[1] = quote /\ w[Len(w)] = quote
Inner(w) == SubSeq(w, 2, Len(w) - 1)

All(w, characters) == \A k \in 1 .. Len(w) : w[k] \in characters

-----------------------------------------------------------------------------
(* Patterns.  A type is a sequence: the spelling of a keyword or an operator, or the *)
(* name of another type.                                                             *)

Keywords ==
  <<<<"b", "o", "o", "l">>, <<"b", "r", "e", "a", "k">>, <<"c", "o", "n", "s", "t">>,
    <<"c", "o", "n", "t", "i", "n", "u", "e">>, <<"e", "l", "s", "e">>, <<"f", "a", "l", "s", "e">>,
    <<"f", "o", "r">>, <<"i", "f">>, <<"i", "m", "p", "o", "r", "t">>, <<"i", "n", "t">>,
    <<"l", "e", "n">>, <<"r", "e", "t", "u", "r", "n">>, <<"t", "r", "u", "e">>,
    <<"v", "o", "i", "d">>, <<"w", "h", "i", "l", "e">>>>
LongOperators ==
  <<<<"+", "=">>, <<"-", "=">>, <<"*", "=">>, <<"/", "=">>, <<"%", "=">>, <<"+", "+">>, <<"-", "-">>,
    <<"=", "=">>, <<"!", "=">>, <<"<", "=">>, <<">", "=">>, <<"&", "&">>, <<"|", "|">>>>
ShortOperators ==
  <<<<"(">>, <<")">>, <<"[">>, <<"]">>, <<"{">>, <<"}">>, <<"=">>, <<"+">>, <<"-">>, <<"*">>, <<"/">>,
    <<"%">>, <<"<">>, <<">">>, <<"!">>, <<",">>, <<";">>>>

Whitespace == <<"whitespace">>
HexLiteral == <<"hex literal">>
HexIncomplete == <<"hex literal incomplete">>
DecimalLiteral == <<"decimal literal">>
CharLiteral == <<"char literal">>
CharEmpty == <<"char literal empty">>
CharInvalidChar == <<"char literal invalid char">>
CharInvalidLength == <<"char literal invalid length">>
CharUnterminated == <<"char literal unterminated">>
StringLiteral == <<"string literal">>
StringInvalidChar == <<"string literal invalid char">>
StringUnterminated == <<"string literal unterminated">>
Identifier == <<"identifier">>
LineComment == <<"line comment">>
MultilineComment == <<"multiline comment">>
CommentUnterminated == <<"multiline comment unterminated">>
Unknown == <<"unknown">>

Named ==
  <<HexLiteral, HexIncomplete, DecimalLiteral, CharLiteral, CharEmpty, CharInvalidChar,
    CharInvalidLength, CharUnterminated, StringLiteral, StringInvalidChar, StringUnterminated,
    Identifier, LineComment, MultilineComment, CommentUnterminated>>

\* merge_regex_patterns: the order of enum token_type.
\* Mutant: the operators of one character before those of two.
AlternativesShortFirst ==
  <<Whitespace>> \o Keywords \o Named \o ShortOperators \o LongOperators
Alternatives == <<Whitespace>> \o Keywords \o Named \o LongOperators \o ShortOperators

Spelled == {Keywords[k] : k \in 1 .. Len(Keywords)} \cup {LongOperators[k] : k \in 1 .. Len(LongOperators)}
             \cup {ShortOperators[k] : k \in 1 .. Len(ShortOperators)}

\* \b follows.
\* Mutant: it does not follow a keyword.
BoundedHexOnly == {HexIncomplete}
Bounded == {HexIncomplete} \cup {Keywords[k] : k \in 1 .. Len(Keywords)}

\* The repetition takes as little as it can.
\* Mutant: that of comments takes as much as it can.
LazyOutsideComments == {CharInvalidLength, StringLiteral, StringInvalidChar}
Lazy == {CharInvalidLength, StringLiteral, StringInvalidChar, MultilineComment}

IgnoredTypes == {Whitespace, LineComment, MultilineComment}
ErrorTypes ==
  {HexIncomplete, CharEmpty, CharInvalidChar, CharInvalidLength, CharUnterminated,
   StringInvalidChar, StringUnterminated, CommentUnterminated, Unknown}

Opens(w, c, d) == Len(w) > 1 /\ w[1] = c /\ w[2] = d
InPattern(type, w) ==
  CASE type \in Spelled -> w = type
    [] type = Whitespace -> All(w, Space)
    [] type = HexLiteral -> Opens(w, "0", "x") /\ Len(w) > 2 /\ All(SubSeq(w, 3, Len(w)), HexDigits)
    [] type = HexIncomplete -> w = <<"0", "x">>
    [] type = DecimalLiteral -> All(w, Digits)
    [] type = CharLiteral -> Quoted(w, "'") /\ Inner(w) \in ValidUnits
    [] type = CharEmpty -> w = <<"'", "'">>
    [] type = CharInvalidChar -> Quoted(w, "'") /\ Inner(w) \in ExtendedUnits
    [] type = CharInvalidLength -> Quoted(w, "'") /\ AllUnits(Inner(w), ExtendedUnits)
    [] type = CharUnterminated -> w[1] = "'" /\ AllUnits(Tail(w), ExtendedUnits)
    [] type = StringLiteral -> Quoted(w, "\"") /\ AllUnits(Inner(w), ValidUnits)
    [] type = StringInvalidChar -> Quoted(w, "\"") /\ AllUnits(Inner(w), ExtendedUnits)
    [] type = StringUnterminated -> w[1] = "\"" /\ AllUnits(Tail(w), ExtendedUnits)
    [] type = Identifier -> w[1] \in Letters /\ All(w, WordCharacters)
    [] type = LineComment -> Opens(w, "/", "/") /\ \A k \in 1 .. Len(w) : w[k] # "\n"
    [] type = MultilineComment ->
         Opens(w, "/", "*") /\ Len(w) > 3 /\ w[Len(w) - 1] = "*" /\ w[Len(w)] = "/"
    [] type = CommentUnterminated -> Opens(w, "/", "*")

-----------------------------------------------------------------------------
(* Matching *)

\* The n characters after the first at of the source, of which there are as many.
Text(at, n) == SubSeq(source, at + 1, at + n)
Boundary(at) == at = Len(source) \/ source[at + 1] \notin WordCharacters

\* The numbers of characters that a pattern can match at a place.
Lengths(type, at) ==
  {n \in IF type \in Spelled THEN {Len(type)} ELSE 1 .. (Len(source) - at) :
     /\ at + n =< Len(source)
     /\ InPattern(type, Text(at, n))
     /\ type \in Bounded => Boundary(at + n)}

\* g_regex_match at one place: the first alternative that matches.
FirstMatch(at) ==
  LET Matches(k) == Lengths(Alternatives[k], at) # {}
  IN  IF \E k \in 1 .. Len(Alternatives) : Matches(k)
        THEN Alternatives[CHOOSE k \in 1 .. Len(Alternatives) :
                            Matches(k) /\ \A j \in 1 .. k - 1 : ~ Matches(j)]
        ELSE Unknown
MatchLength(type, at) == IF type \in Lazy THEN Min(Lengths(type, at)) ELSE Max(Lengths(type, at))

\* match_token: where nothing matches, what lies before the next match is one unknown token.
NextMatch(at) ==
  Min({k \in at + 1 .. Len(source) : k = Len(source) \/ FirstMatch(k) # Unknown})
TokenLength(type, at) == IF type = Unknown THEN NextMatch(at) - at ELSE MatchLength(type, at)

Token(type, word) == [type |-> type, word |-> word]

-----------------------------------------------------------------------------
ScannerNew ==
  /\ source \in Sources
  /\ position = 0
  /\ tokens = <<>>
  /\ scanned = 0

\* One round of scanner_tokenize's loop.
ScannerNextToken ==
  /\ position < Len(source)
  /\ LET type == FirstMatch(position)
         length == TokenLength(type, position)
     IN  /\ position' = position + length
         /\ tokens' = IF type \in IgnoredTypes \cup ErrorTypes THEN tokens
                      ELSE Append(tokens, Token(type, Text(position, length)))
         /\ scanned' = IF type \in ErrorTypes THEN -1 ELSE scanned
  /\ UNCHANGED source

Finished == position = Len(source)

-----------------------------------------------------------------------------
(* Properties *)

ScannerTypeOK ==
  /\ position \in 0 .. Len(source)
  /\ Len(tokens) =< position
  /\ scanned \in {0, -1}

\* The longest good word at a place, by the definition of each type alone.  A comment ends
\* with the first mark that closes it.
GoodTypes ==
  {Alternatives[k] : k \in 1 .. Len(Alternatives)} \ (ErrorTypes \cup {MultilineComment})
ClosesOnlyAtItsEnd(w) == \A k \in 3 .. Len(w) - 2 : ~(w[k] = "*" /\ w[k + 1] = "/")
GoodLengths(at) ==
  {n \in 1 .. Len(source) - at :
     \/ \E type \in GoodTypes : InPattern(type, Text(at, n))
     \/ InPattern(MultilineComment, Text(at, n)) /\ ClosesOnlyAtItsEnd(Text(at, n))}

\* A keyword is not an identifier; hexadecimal digits and the end of a comment must come
\* where they have been announced.
GoodType(w) ==
  CASE w \in Spelled -> w
    [] InPattern(MultilineComment, w) -> MultilineComment
    [] OTHER -> CHOOSE type \in GoodTypes : InPattern(type, w)
Announced(at) ==
  /\ at + 2 =< Len(source)
  /\ \/ Text(at, 2) = <<"0", "x">> /\ Boundary(at + 2)
     \/ Text(at, 2) = <<"/", "*">> /\ GoodLengths(at) \subseteq {1}

\* The tokens of the source from a place on, and whether all is good.
Longest(at) ==
  LET from[k \in 0 .. Len(source)] ==
        IF k = Len(source) THEN [tokens |-> <<>>, good |-> TRUE]
        ELSE IF GoodLengths(k) = {} \/ Announced(k) THEN [tokens |-> <<>>, good |-> FALSE]
        ELSE LET w == Text(k, Max(GoodLengths(k)))
                 rest == from[k + Len(w)]
             IN  IF GoodType(w) \in IgnoredTypes THEN rest
                 ELSE [rest EXCEPT !.tokens = <<Token(GoodType(w), w)>> \o @]
  IN  from[at]

\* Though the first alternative wins, each token is the longest one that is good at its place,
\* and a source is rejected exactly if that leaves something over: no alternative hides a
\* longer one behind it, and no pattern of an error a good token.
TokensAreLongest ==
  Finished =>
    LET longest == Longest(0)
    IN  /\ scanned = 0 <=> longest.good
        /\ scanned = 0 => tokens = longest.tokens
=============================================================================
