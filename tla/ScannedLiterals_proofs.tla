---------------------- MODULE ScannedLiterals_proofs ----------------------
(***************************************************************************)
(* The scanner for every source file, and string_to_int for words of any   *)
(* even size, any bases and literals of any length.                        *)
(*                                                                         *)
(* Scanner.  The first character of a place leaves a few alternatives      *)
(* only.  For each kind of first character the first of them that matches  *)
(* is compared with the longest good token, which gives                    *)
(* EveryPlaceIsDecided.  The scanner's loop then keeps that the tokens     *)
(* found, followed by those still to be read, are those of the source.     *)
(*                                                                         *)
(* Conversion.  The digits are added from the last to the first, so what   *)
(* the loop has yet to add is the number that the first digits stand for,  *)
(* times the place value; with the value so far it makes the whole number. *)
(* The checks are what keeps the three words of the loop from wrapping.    *)
(***************************************************************************)
EXTENDS ScannedLiterals, SequenceTheorems, WellFoundedInduction, TLAPS

-----------------------------------------------------------------------------
(* Least and greatest elements *)

\* A non-empty set of naturals has a least element.
LEMMA LeastElement ==
  ASSUME NEW S \in SUBSET Nat, NEW e \in S
  PROVE  \E d \in S : \A c \in S : d =< c
<1>1. PICK d \in S : \A c \in S : <<c, d>> \notin OpToRel(<, Nat)
  BY WFMin, NatLessThanWellFounded, Zenon
<1>2. \A c \in S : ~ c < d
  BY <1>1, Zenon DEF OpToRel
<1>. QED
  BY <1>2

-----------------------------------------------------------------------------
(* The patterns *)

\* A function on 1 .. n is a sequence of length n.
LEMMA FunctionIsSeq ==
  ASSUME NEW S, NEW n \in Nat, NEW f \in [1 .. n -> S]
  PROVE  f \in Seq(S) /\ Len(f) = n
OBVIOUS

\* The least element of a set of naturals.
LEMMA MinFacts ==
  ASSUME NEW S, NEW e \in S, S \subseteq Nat
  PROVE  Min(S) \in S /\ \A x \in S : Min(S) =< x
<1>1. \E d \in S : \A c \in S : d =< c
  BY LeastElement
<1>. QED
  BY <1>1 DEF Min

\* The greatest element of a bounded set of naturals.
LEMMA MaxFacts ==
  ASSUME NEW S, NEW e \in S, NEW n \in Nat, S \subseteq 0 .. n
  PROVE  Max(S) \in S /\ \A x \in S : Max(S) >= x
<1>. DEFINE T == {m \in Nat : \E x \in S : m = n - x}
<1>1. n - e \in T /\ T \in SUBSET Nat
  OBVIOUS
<1>2. PICK d \in T : \A c \in T : d =< c
  <2>. HIDE DEF T
  <2>. QED
    BY <1>1, LeastElement
<1>3. PICK y \in S : d = n - y
  BY <1>2
<1>4. \A x \in S : y >= x
  <2>1. SUFFICES ASSUME NEW x \in S PROVE y >= x
    OBVIOUS
  <2>2. n - x \in T
    OBVIOUS
  <2>3. d =< n - x
    BY <1>2, <2>2
  <2>. QED
    BY <1>3, <2>3
<1>. QED
  BY <1>3, <1>4 DEF Max

-----------------------------------------------------------------------------
(* Words that are spelled out *)

\* The characters that the operators of each list begin with.
LongFirst == {"+", "-", "*", "/", "%", "=", "!", "<", ">", "&", "|"}
ShortFirst ==
  {"(", ")", "[", "]", "{", "}", "=", "+", "-", "*", "/", "%", "<", ">", "!", ",", ";"}

\* The small letters are letters.
LEMMA LetterFacts ==
  {"a", "b", "c", "d", "e", "f", "g", "h", "i", "j", "k", "l", "m", "n", "o", "p", "q", "r",
   "s", "t", "u", "v", "w", "x", "y", "z"} \subseteq Letters
BY DEF Letters, HexDigits, Digits

\* A keyword is made of letters, of more than one.
LEMMA KeywordFacts ==
  /\ Len(Keywords) = 15
  /\ \A k \in 1 .. 15 : All(Keywords[k], Letters) /\ Len(Keywords[k]) \in Nat /\ Len(Keywords[k]) > 1
<1>1. Len(Keywords) = 15
  BY DEF Keywords
<1>2. ASSUME NEW k \in 1 .. 15
      PROVE  Keywords[k] \in
               {<<"b", "o", "o", "l">>, <<"b", "r", "e", "a", "k">>, <<"c", "o", "n", "s", "t">>,
                <<"c", "o", "n", "t", "i", "n", "u", "e">>, <<"e", "l", "s", "e">>, <<"f", "a", "l", "s", "e">>,
                <<"f", "o", "r">>, <<"i", "f">>, <<"i", "m", "p", "o", "r", "t">>,
                <<"i", "n", "t">>, <<"l", "e", "n">>, <<"r", "e", "t", "u", "r", "n">>,
                <<"t", "r", "u", "e">>, <<"v", "o", "i", "d">>, <<"w", "h", "i", "l", "e">>}
  BY DEF Keywords
<1>3. All(<<"i", "f">>, Letters) /\ Len(<<"i", "f">>) = 2
  BY LetterFacts DEF All
<1>4. \A w \in {<<"f", "o", "r">>, <<"i", "n", "t">>, <<"l", "e", "n">>} : All(w, Letters) /\ Len(w) = 3
  BY LetterFacts DEF All
<1>5. \A w \in {<<"b", "o", "o", "l">>, <<"e", "l", "s", "e">>, <<"t", "r", "u", "e">>, <<"v", "o", "i", "d">>} : All(w, Letters) /\ Len(w) = 4
  BY LetterFacts DEF All
<1>6. \A w \in {<<"b", "r", "e", "a", "k">>, <<"c", "o", "n", "s", "t">>, <<"f", "a", "l", "s", "e">>, <<"w", "h", "i", "l", "e">>} : All(w, Letters) /\ Len(w) = 5
  BY LetterFacts DEF All
<1>7. \A w \in {<<"i", "m", "p", "o", "r", "t">>, <<"r", "e", "t", "u", "r", "n">>} : All(w, Letters) /\ Len(w) = 6
  BY LetterFacts DEF All
<1>8. All(<<"c", "o", "n", "t", "i", "n", "u", "e">>, Letters) /\ Len(<<"c", "o", "n", "t", "i", "n", "u", "e">>) = 8
  BY LetterFacts DEF All
<1>9. ASSUME NEW k \in 1 .. 15
      PROVE  All(Keywords[k], Letters) /\ Len(Keywords[k]) \in {2, 3, 4, 5, 6, 8}
  BY <1>2, <1>3, <1>4, <1>5, <1>6, <1>7, <1>8, Zenon
<1>10. \A n \in {2, 3, 4, 5, 6, 8} : n \in Nat /\ n > 1
  OBVIOUS
<1>. QED
  BY <1>1, <1>9, <1>10, Zenon

\* An operator has two characters or one.
LEMMA OperatorFacts ==
  /\ Len(LongOperators) = 13 /\ Len(ShortOperators) = 17
  /\ \A k \in 1 .. 13 : \E c \in LongFirst : \E d \in {"=", "+", "-", "&", "|"} : LongOperators[k] = <<c, d>>
  /\ \A k \in 1 .. 17 : \E c \in ShortFirst : ShortOperators[k] = <<c>>
<1>1. Len(LongOperators) = 13 /\ Len(ShortOperators) = 17
  BY DEF LongOperators, ShortOperators
<1>2. ASSUME NEW k \in 1 .. 13
      PROVE  \E c \in LongFirst : \E d \in {"=", "+", "-", "&", "|"} : LongOperators[k] = <<c, d>>
  BY DEF LongOperators, LongFirst
<1>3. ASSUME NEW a1, NEW a2, NEW a3, NEW a4, NEW a5, NEW a6, NEW a7, NEW a8,
             NEW a9, NEW a10, NEW a11, NEW a12, NEW a13, NEW a14, NEW a15,
             NEW a16, NEW a17,
             NEW k \in 1 .. 17
      PROVE  <<a1, a2, a3, a4, a5, a6, a7, a8, a9, a10, a11, a12, a13, a14,
                 a15, a16, a17>>[k] \in
               {a1, a2, a3, a4, a5, a6, a7, a8, a9, a10, a11, a12, a13, a14,
                 a15, a16, a17}
  OBVIOUS
<1>4. PICK W : W = {<<"(">>, <<")">>, <<"[">>, <<"]">>, <<"{">>, <<"}">>, <<"=">>, <<"+">>,
         <<"-">>, <<"*">>, <<"/">>, <<"%">>, <<"<">>, <<">">>, <<"!">>, <<",">>,
         <<";">>}
  OBVIOUS
<1>5. \A k \in 1 .. 17 : ShortOperators[k] \in W
  BY <1>3, <1>4, Zenon DEF ShortOperators
<1>6. \A w \in W : \E c \in ShortFirst : w = <<c>>
  BY <1>4, Zenon DEF ShortFirst
<1>7. \A k \in 1 .. 17 : \E c \in ShortFirst : ShortOperators[k] = <<c>>
  BY <1>5, <1>6, Zenon
<1>. QED
  BY <1>1, <1>2, <1>7

\* The sequence d is b, of length n, and behind it c, of length m.
IsJoined(d, b, c, n, m) ==
  /\ Len(d) = n + m
  /\ \A k \in 1 .. n : d[k] = b[k]
  /\ \A k \in 1 .. m : d[n + k] = c[k]

\* Concatenation, element by element.
LEMMA Joined ==
  ASSUME NEW S, NEW b \in Seq(S), NEW c \in Seq(S)
  PROVE  b \o c \in Seq(S) /\ IsJoined(b \o c, b, c, Len(b), Len(c))
BY DEF IsJoined

\* The alternatives, by their place in the order.
LEMMA AlternativeFacts ==
  /\ Len(Alternatives) = 61
  /\ Alternatives[1] = Whitespace
  /\ \A k \in 1 .. 15 : Alternatives[1 + k] = Keywords[k]
  /\ \A k \in 1 .. 15 : Alternatives[16 + k] = Named[k]
  /\ \A k \in 1 .. 13 : Alternatives[31 + k] = LongOperators[k]
  /\ \A k \in 1 .. 17 : Alternatives[44 + k] = ShortOperators[k]
<1>1. Len(Keywords) = 15 /\ Len(Named) = 15 /\ Len(LongOperators) = 13 /\ Len(ShortOperators) = 17
  BY KeywordFacts, OperatorFacts DEF Named
<1>2. PICK S : /\ <<Whitespace>> \in Seq(S) /\ Keywords \in Seq(S) /\ Named \in Seq(S)
               /\ LongOperators \in Seq(S) /\ ShortOperators \in Seq(S)
  <2>. DEFINE T == {Whitespace} \cup {Keywords[k] : k \in 1 .. 15} \cup {Named[k] : k \in 1 .. 15}
                    \cup {LongOperators[k] : k \in 1 .. 13} \cup {ShortOperators[k] : k \in 1 .. 17}
  <2>1. <<Whitespace>> \in Seq(T)
    OBVIOUS
  <2>2. Keywords = [k \in 1 .. 15 |-> Keywords[k]]
    BY DEF Keywords
  <2>3. Named = [k \in 1 .. 15 |-> Named[k]]
    BY DEF Named
  <2>4. LongOperators = [k \in 1 .. 13 |-> LongOperators[k]]
    BY DEF LongOperators
  <2>5. ShortOperators = [k \in 1 .. 17 |-> ShortOperators[k]]
    BY DEF ShortOperators
  <2>6. Keywords \in Seq(T) /\ Named \in Seq(T)
    BY <2>2, <2>3, FunctionIsSeq
  <2>7. LongOperators \in Seq(T) /\ ShortOperators \in Seq(T)
    BY <2>4, <2>5, FunctionIsSeq
  <2>. QED
    BY <2>1, <2>6, <2>7
<1>3. PICK w : w = <<Whitespace>>
  OBVIOUS
<1>4. PICK a : a = w \o Keywords
  OBVIOUS
<1>5. PICK b : b = a \o Named
  OBVIOUS
<1>6. PICK c : c = b \o LongOperators
  OBVIOUS
<1>7. PICK d : d = c \o ShortOperators
  OBVIOUS
<1>8. w \in Seq(S) /\ Len(w) = 1
  BY <1>2, <1>3
<1>9. a \in Seq(S) /\ IsJoined(a, w, Keywords, 1, 15)
  BY <1>1, <1>2, <1>4, <1>8, Joined, Zenon
<1>10. Len(a) = 16
  BY <1>9 DEF IsJoined
<1>11. b \in Seq(S) /\ IsJoined(b, a, Named, 16, 15)
  BY <1>1, <1>2, <1>5, <1>9, <1>10, Joined, Zenon
<1>12. Len(b) = 31
  BY <1>11 DEF IsJoined
<1>13. c \in Seq(S) /\ IsJoined(c, b, LongOperators, 31, 13)
  BY <1>1, <1>2, <1>6, <1>11, <1>12, Joined, Zenon
<1>14. Len(c) = 44
  BY <1>13 DEF IsJoined
<1>15. IsJoined(d, c, ShortOperators, 44, 17)
  BY <1>1, <1>2, <1>7, <1>13, <1>14, Joined, ZenonT(60)
<1>16. Alternatives = d
  BY <1>3, <1>4, <1>5, <1>6, <1>7, Zenon DEF Alternatives
<1>17. w[1] = Whitespace
  BY <1>3
<1>18. /\ IsJoined(a, w, Keywords, 1, 15) /\ IsJoined(b, a, Named, 16, 15)
       /\ IsJoined(c, b, LongOperators, 31, 13) /\ IsJoined(d, c, ShortOperators, 44, 17)
  BY <1>9, <1>11, <1>13, <1>15
<1>19. /\ Len(d) = 61 /\ d[1] = Whitespace
       /\ \A k \in 1 .. 15 : d[1 + k] = Keywords[k]
  BY <1>17, <1>18 DEF IsJoined
<1>20. /\ \A k \in 1 .. 15 : d[16 + k] = Named[k]
       /\ \A k \in 1 .. 13 : d[31 + k] = LongOperators[k]
       /\ \A k \in 1 .. 17 : d[44 + k] = ShortOperators[k]
  BY <1>18 DEF IsJoined
<1>. QED
  BY <1>16, <1>19, <1>20, Zenon

-----------------------------------------------------------------------------
(* Types and patterns *)

\* The types that are not spelled out have longer names.
LEMMA NotSpelled ==
  ASSUME NEW s, s \notin ShortFirst
  PROVE  <<s>> \notin Spelled
<1>. SUFFICES ASSUME <<s>> \in Spelled PROVE FALSE
  OBVIOUS
<1>1. CASE \E k \in 1 .. 15 : <<s>> = Keywords[k]
  <2>1. Len(<<s>>) = 1
    OBVIOUS
  <2>2. \A k \in 1 .. 15 : Len(Keywords[k]) > 1
    BY KeywordFacts, Zenon
  <2>3. ~ 1 > 1
    OBVIOUS
  <2>. QED
    BY <1>1, <2>1, <2>2, <2>3, Zenon
<1>2. CASE \E k \in 1 .. 13 : <<s>> = LongOperators[k]
  <2>1. \A k \in 1 .. 13 : \E c, d : LongOperators[k] = <<c, d>>
    <3>1. \A k \in 1 .. 13 : \E c \in LongFirst : \E d \in {"=", "+", "-", "&", "|"} : LongOperators[k] = <<c, d>>
      BY OperatorFacts
    <3>. QED
      BY <3>1
  <2>2. PICK c, d : <<s>> = <<c, d>>
    BY <1>2, <2>1, Zenon
  <2>. QED
    BY <2>2
<1>3. CASE \E k \in 1 .. 17 : <<s>> = ShortOperators[k]
  <2>1. PICK c \in ShortFirst : <<s>> = <<c>>
    BY <1>3, OperatorFacts, Zenon
  <2>. QED
    BY <2>1
<1>4. Len(Keywords) = 15 /\ Len(LongOperators) = 13 /\ Len(ShortOperators) = 17
  BY KeywordFacts, OperatorFacts
<1>. QED
  BY <1>1, <1>2, <1>3, <1>4, Zenon DEF Spelled

\* No name of a type is the spelling of a keyword or an operator.
LEMMA NamesNotSpelled ==
  /\ Whitespace \notin Spelled
  /\ HexLiteral \notin Spelled /\ HexIncomplete \notin Spelled /\ DecimalLiteral \notin Spelled
  /\ CharLiteral \notin Spelled /\ CharEmpty \notin Spelled /\ CharInvalidChar \notin Spelled
  /\ CharInvalidLength \notin Spelled /\ CharUnterminated \notin Spelled
  /\ StringLiteral \notin Spelled /\ StringInvalidChar \notin Spelled /\ StringUnterminated \notin Spelled
  /\ Identifier \notin Spelled /\ LineComment \notin Spelled /\ MultilineComment \notin Spelled
  /\ CommentUnterminated \notin Spelled /\ Unknown \notin Spelled
<1>1. ShortFirst \cap {"whitespace", "hex literal", "hex literal incomplete", "decimal literal",
                       "char literal", "char literal empty", "char literal invalid char",
                       "char literal invalid length", "char literal unterminated", "string literal",
                       "string literal invalid char", "string literal unterminated", "identifier",
                       "line comment", "multiline comment", "multiline comment unterminated", "unknown"} = {}
  BY DEF ShortFirst
<1>. QED
  BY <1>1, NotSpelled DEF Whitespace, HexLiteral, HexIncomplete, DecimalLiteral, CharLiteral, CharEmpty,
    CharInvalidChar, CharInvalidLength, CharUnterminated, StringLiteral, StringInvalidChar,
    StringUnterminated, Identifier, LineComment, MultilineComment, CommentUnterminated, Unknown

\* The pattern of each type, one by one.
LEMMA Patterns ==
  ASSUME NEW w
  PROVE  /\ \A type \in Spelled : InPattern(type, w) <=> w = type
         /\ InPattern(Whitespace, w) <=> All(w, Space)
         /\ InPattern(HexLiteral, w) <=> Opens(w, "0", "x") /\ Len(w) > 2 /\ All(SubSeq(w, 3, Len(w)), HexDigits)
         /\ InPattern(HexIncomplete, w) <=> w = <<"0", "x">>
         /\ InPattern(DecimalLiteral, w) <=> All(w, Digits)
         /\ InPattern(CharLiteral, w) <=> Quoted(w, "'") /\ Inner(w) \in ValidUnits
         /\ InPattern(CharEmpty, w) <=> w = <<"'", "'">>
         /\ InPattern(CharInvalidChar, w) <=> Quoted(w, "'") /\ Inner(w) \in ExtendedUnits
         /\ InPattern(CharInvalidLength, w) <=> Quoted(w, "'") /\ AllUnits(Inner(w), ExtendedUnits)
         /\ InPattern(CharUnterminated, w) <=> w[1] = "'" /\ AllUnits(Tail(w), ExtendedUnits)
         /\ InPattern(StringLiteral, w) <=> Quoted(w, "\"") /\ AllUnits(Inner(w), ValidUnits)
         /\ InPattern(StringInvalidChar, w) <=> Quoted(w, "\"") /\ AllUnits(Inner(w), ExtendedUnits)
         /\ InPattern(StringUnterminated, w) <=> w[1] = "\"" /\ AllUnits(Tail(w), ExtendedUnits)
         /\ InPattern(Identifier, w) <=> w[1] \in Letters /\ All(w, WordCharacters)
         /\ InPattern(LineComment, w) <=> Opens(w, "/", "/") /\ \A k \in 1 .. Len(w) : w[k] # "\n"
         /\ InPattern(MultilineComment, w) <=>
              Opens(w, "/", "*") /\ Len(w) > 3 /\ w[Len(w) - 1] = "*" /\ w[Len(w)] = "/"
         /\ InPattern(CommentUnterminated, w) <=> Opens(w, "/", "*")
<1>. USE NamesNotSpelled DEF InPattern
<1>1. \A type \in Spelled : InPattern(type, w) <=> w = type
  OBVIOUS
<1>. QED
  BY <1>1 DEF Whitespace, HexLiteral, HexIncomplete, DecimalLiteral, CharLiteral, CharEmpty,
    CharInvalidChar, CharInvalidLength, CharUnterminated, StringLiteral, StringInvalidChar,
    StringUnterminated, Identifier, LineComment, MultilineComment, CommentUnterminated, Unknown

-----------------------------------------------------------------------------
(* What can match at a place *)

\* The characters of a text are those of the source.
LEMMA TextFacts ==
  ASSUME source \in Seq(STRING), NEW at \in 0 .. Len(source), NEW n \in 0 .. Len(source) - at
  PROVE  /\ Text(at, n) \in Seq(STRING) /\ Len(Text(at, n)) = n
         /\ \A q \in 1 .. n : Text(at, n)[q] = source[at + q]
<1>1. /\ Len(source) \in Nat /\ at \in Int /\ n \in Int
      /\ n = (at + n) - (at + 1) + 1
  OBVIOUS
<1>2. CASE n = 0
  <2>1. Text(at, n) = << >>
    BY <1>1, <1>2, SubSeqEmpty DEF Text
  <2>2. << >> \in Seq(STRING) /\ Len(<< >>) = 0
    OBVIOUS
  <2>3. \A q \in 1 .. n : FALSE
    BY <1>2
  <2>. QED
    BY <1>2, <2>1, <2>2, <2>3, Zenon
<1>3. CASE n > 0
  <2>1. /\ at + 1 \in 1 .. Len(source) + 1 /\ at + n \in 0 .. Len(source)
        /\ at + 1 \in 1 .. Len(source) /\ at + n \in at + 1 - 1 .. Len(source)
    BY <1>1, <1>3
  <2>2. /\ SubSeq(source, at + 1, at + n) \in Seq(STRING)
        /\ Len(SubSeq(source, at + 1, at + n)) = n
        /\ \A q \in 1 .. n : SubSeq(source, at + 1, at + n)[q] = source[at + 1 + q - 1]
    BY <1>1, <1>3, <2>1, SubSeqProperties
  <2>3. \A q \in 1 .. n : at + 1 + q - 1 = at + q
    BY <1>1
  <2>. QED
    BY <2>2, <2>3 DEF Text
<1>. QED
  BY <1>1, <1>2, <1>3

\* What is spelled out is a word of letters, or one or two signs.
LEMMA SpelledShape ==
  ASSUME NEW type \in Spelled
  PROVE  \/ All(type, Letters) /\ Len(type) \in Nat /\ Len(type) > 1
         \/ \E c \in LongFirst : \E d \in {"=", "+", "-", "&", "|"} : type = <<c, d>>
         \/ \E c \in ShortFirst : type = <<c>>
<1>1. \/ \E k \in 1 .. 15 : type = Keywords[k]
      \/ \E k \in 1 .. 13 : type = LongOperators[k]
      \/ \E k \in 1 .. 17 : type = ShortOperators[k]
  <2>1. Len(Keywords) = 15 /\ Len(LongOperators) = 13 /\ Len(ShortOperators) = 17
    BY KeywordFacts, OperatorFacts
  <2>. QED
    BY <2>1 DEF Spelled
<1>2. CASE \E k \in 1 .. 15 : type = Keywords[k]
  BY <1>2, KeywordFacts, Zenon
<1>3. CASE \E k \in 1 .. 13 : type = LongOperators[k]
  BY <1>3, OperatorFacts, Zenon
<1>4. CASE \E k \in 1 .. 17 : type = ShortOperators[k]
  BY <1>4, OperatorFacts, Zenon
<1>. QED
  BY <1>1, <1>2, <1>3, <1>4, Zenon

\* What is spelled out has a character at least.
LEMMA SpelledFacts ==
  ASSUME NEW type \in Spelled
  PROVE  Len(type) \in Nat /\ Len(type) > 0
<1>1. CASE Len(type) \in Nat /\ Len(type) > 1
  BY <1>1
<1>2. CASE \E c, d : type = <<c, d>>
  BY <1>2
<1>3. CASE \E c : type = <<c>>
  BY <1>3
<1>. QED
  BY <1>1, <1>2, <1>3, SpelledShape, Zenon

\* The lengths of what a pattern matches, in one form for all types.
LEMMA LengthsAre ==
  ASSUME source \in Seq(STRING), NEW at \in 0 .. Len(source), NEW type
  PROVE  Lengths(type, at) =
           {n \in 1 .. Len(source) - at :
              /\ InPattern(type, Text(at, n))
              /\ type \in Bounded => Boundary(at + n)}
<1>1. ASSUME NEW n \in 1 .. Len(source) - at
      PROVE  at + n =< Len(source)
  OBVIOUS
<1>2. CASE type \notin Spelled
  BY <1>1, <1>2 DEF Lengths
<1>3. CASE type \in Spelled
  <2>1. Len(type) \in Nat /\ Len(type) > 0
    BY <1>3, SpelledFacts
  <2>2. ASSUME NEW n \in 1 .. Len(source) - at, InPattern(type, Text(at, n))
        PROVE  n = Len(type)
    <3>1. n \in 0 .. Len(source) - at
      OBVIOUS
    <3>2. Len(Text(at, n)) = n
      BY <3>1, TextFacts
    <3>3. Text(at, n) = type
      BY <1>3, <2>2, Patterns
    <3>. QED
      BY <3>2, <3>3
  <2>3. ASSUME at + Len(type) =< Len(source)
        PROVE  Len(type) \in 1 .. Len(source) - at
    BY <2>1, <2>3
  <2>4. Lengths(type, at) =
          {n \in {Len(type)} : /\ at + n =< Len(source)
                               /\ InPattern(type, Text(at, n))
                               /\ type \in Bounded => Boundary(at + n)}
    BY <1>3 DEF Lengths
  <2>. QED
    BY <1>1, <2>2, <2>3, <2>4, Zenon
<1>. QED
  BY <1>2, <1>3

\* The alternatives that are neither keywords nor operators.
LEMMA NamedFacts ==
  /\ Alternatives[1] = Whitespace
  /\ Alternatives[17] = HexLiteral /\ Alternatives[18] = HexIncomplete /\ Alternatives[19] = DecimalLiteral
  /\ Alternatives[20] = CharLiteral /\ Alternatives[21] = CharEmpty /\ Alternatives[22] = CharInvalidChar
  /\ Alternatives[23] = CharInvalidLength /\ Alternatives[24] = CharUnterminated
  /\ Alternatives[25] = StringLiteral /\ Alternatives[26] = StringInvalidChar
  /\ Alternatives[27] = StringUnterminated /\ Alternatives[28] = Identifier
  /\ Alternatives[29] = LineComment /\ Alternatives[30] = MultilineComment
  /\ Alternatives[31] = CommentUnterminated
<1>1. \A k \in 1 .. 15 : Alternatives[16 + k] = Named[k]
  BY AlternativeFacts, Zenon
<1>2. /\ Alternatives[17] = Named[1] /\ Alternatives[18] = Named[2] /\ Alternatives[19] = Named[3]
      /\ Alternatives[20] = Named[4] /\ Alternatives[21] = Named[5] /\ Alternatives[22] = Named[6]
      /\ Alternatives[23] = Named[7] /\ Alternatives[24] = Named[8] /\ Alternatives[25] = Named[9]
      /\ Alternatives[26] = Named[10] /\ Alternatives[27] = Named[11] /\ Alternatives[28] = Named[12]
      /\ Alternatives[29] = Named[13] /\ Alternatives[30] = Named[14] /\ Alternatives[31] = Named[15]
  BY <1>1
<1>3. Alternatives[1] = Whitespace
  BY AlternativeFacts, Zenon
<1>. QED
  BY <1>2, <1>3 DEF Named

-----------------------------------------------------------------------------
\* The alternative k matches at a place, and none before it.
IsFirst(k, at) ==
  /\ k \in 1 .. 61
  /\ Lengths(Alternatives[k], at) # {}
  /\ \A j \in 1 .. k - 1 : Lengths(Alternatives[j], at) = {}

\* FirstMatch is the type of the first alternative that matches, or unknown.
LEMMA FirstMatchFacts ==
  ASSUME NEW at
  PROVE  /\ \A k : IsFirst(k, at) => FirstMatch(at) = Alternatives[k]
         /\ (\A k \in 1 .. 61 : Lengths(Alternatives[k], at) = {}) => FirstMatch(at) = Unknown
         /\ \/ \E k : IsFirst(k, at)
            \/ \A k \in 1 .. 61 : Lengths(Alternatives[k], at) = {}
<1>. DEFINE Matches(k) == Lengths(Alternatives[k], at) # {}
            First(k) == Matches(k) /\ \A j \in 1 .. k - 1 : ~ Matches(j)
<1>1. FirstMatch(at) = IF \E k \in 1 .. Len(Alternatives) : Matches(k)
                         THEN Alternatives[CHOOSE k \in 1 .. Len(Alternatives) : First(k)]
                         ELSE Unknown
  BY DEF FirstMatch
<1>2. \A k : IsFirst(k, at) <=> k \in 1 .. 61 /\ First(k)
  BY Zenon DEF IsFirst
<1>. HIDE DEF Matches
<1>0. Len(Alternatives) = 61
  BY AlternativeFacts, Zenon
<1>3. ASSUME NEW k, IsFirst(k, at)
      PROVE  FirstMatch(at) = Alternatives[k]
  <2>. DEFINE c == CHOOSE m \in 1 .. Len(Alternatives) : First(m)
  <2>0. k \in 1 .. Len(Alternatives) /\ First(k)
    BY <1>0, <1>2, <1>3
  <2>1. c \in 1 .. 61 /\ First(c)
    <3>1. c \in 1 .. Len(Alternatives) /\ First(c)
      <4>. HIDE DEF First
      <4>. QED
        BY <2>0, Zenon
    <3>. QED
      BY <1>0, <3>1
  <2>2. k \in 1 .. 61 /\ First(k)
    BY <1>0, <2>0
  <2>3. FirstMatch(at) = Alternatives[c]
    BY <1>1, <2>0, Zenon
  <2>. HIDE DEF c
  <2>4. c = k
    <3>1. c \in Int /\ k \in Int /\ c >= 1 /\ k >= 1
      BY <2>1, <2>2
    <3>2. ~ c < k
      BY <2>1, <2>2, <3>1
    <3>3. ~ k < c
      BY <2>1, <2>2, <3>1
    <3>. QED
      BY <3>1, <3>2, <3>3
  <2>. QED
    BY <2>3, <2>4, Zenon
<1>4. ASSUME \A k \in 1 .. 61 : ~ Matches(k)
      PROVE  FirstMatch(at) = Unknown
  BY <1>0, <1>1, <1>4
<1>5. ASSUME NEW e \in 1 .. 61, Matches(e)
      PROVE  \E k : IsFirst(k, at)
  <2>. DEFINE S == {k \in 1 .. 61 : Matches(k)}
  <2>1. S \in SUBSET Nat /\ e \in S
    BY <1>5
  <2>2. PICK k \in S : \A j \in S : k =< j
    <3>. HIDE DEF S
    <3>. QED
      BY <2>1, LeastElement
  <2>3. k \in 1 .. 61 /\ Matches(k)
    OBVIOUS
  <2>4. \A j \in 1 .. k - 1 : ~ Matches(j)
    BY <2>2, <2>3
  <2>. QED
    BY <1>2, <2>3, <2>4, Zenon
<1>. QED
  BY <1>3, <1>4, <1>5, Zenon DEF Matches

-----------------------------------------------------------------------------
(* The first character decides which alternatives can match *)

\* The characters that the alternative k begins with.
Begins(k, c) ==
  \/ k = 1 /\ c \in Space
  \/ k \in 2 .. 16 /\ c \in Letters
  \/ k \in 17 .. 19 /\ c \in Digits
  \/ k \in 20 .. 24 /\ c = "'"
  \/ k \in 25 .. 27 /\ c = "\""
  \/ k = 28 /\ c \in Letters
  \/ k \in 29 .. 31 /\ c = "/"
  \/ k \in 32 .. 44 /\ c \in LongFirst
  \/ k \in 45 .. 61 /\ c \in ShortFirst

\* What matches an alternative begins with a character of it.
LEMMA Initials ==
  ASSUME source \in Seq(STRING), NEW at \in 0 .. Len(source), NEW k \in 1 .. 61,
         NEW n \in 1 .. Len(source) - at, InPattern(Alternatives[k], Text(at, n))
  PROVE  Begins(k, source[at + 1])
<1>1. PICK w : w = Text(at, n) /\ Len(w) = n /\ w[1] = source[at + 1]
  BY TextFacts
<1>2. n \in Nat /\ n >= 1 /\ 1 \in 1 .. n
  OBVIOUS
<1>3. InPattern(Alternatives[k], w)
  BY <1>1
<1>4. \A S : All(w, S) => w[1] \in S
  BY <1>1, <1>2 DEF All
<1>5. CASE k = 1
  <2>1. All(w, Space)
    BY <1>3, <1>5, NamedFacts, Patterns, Zenon
  <2>. QED
    BY <1>1, <1>4, <1>5, <2>1, Zenon DEF Begins
<1>6. CASE k \in 2 .. 16
  <2>1. PICK j \in 1 .. 15 : k = 1 + j
    BY <1>6
  <2>2. Alternatives[k] = Keywords[j] /\ Keywords[j] \in Spelled
    BY <2>1, AlternativeFacts, KeywordFacts, Zenon DEF Spelled
  <2>3. w = Keywords[j]
    BY <1>3, <2>2, Patterns, Zenon
  <2>4. All(w, Letters)
    BY <2>3, KeywordFacts, Zenon
  <2>. QED
    BY <1>1, <1>4, <1>6, <2>4, Zenon DEF Begins
<1>7. CASE k \in 32 .. 44
  <2>1. PICK j \in 1 .. 13 : k = 31 + j
    BY <1>7
  <2>2. Alternatives[k] = LongOperators[j] /\ LongOperators[j] \in Spelled
    BY <2>1, AlternativeFacts, OperatorFacts, Zenon DEF Spelled
  <2>3. w = LongOperators[j]
    BY <1>3, <2>2, Patterns, Zenon
  <2>4. PICK c \in LongFirst : \E d \in {"=", "+", "-", "&", "|"} : w = <<c, d>>
    BY <2>3, OperatorFacts, Zenon
  <2>5. w[1] = c
    BY <2>4
  <2>. QED
    BY <1>1, <1>7, <2>5, Zenon DEF Begins
<1>8. CASE k \in 45 .. 61
  <2>1. PICK j \in 1 .. 17 : k = 44 + j
    BY <1>8
  <2>2. Alternatives[k] = ShortOperators[j] /\ ShortOperators[j] \in Spelled
    BY <2>1, AlternativeFacts, OperatorFacts, Zenon DEF Spelled
  <2>3. w = ShortOperators[j]
    BY <1>3, <2>2, Patterns, Zenon
  <2>4. PICK c \in ShortFirst : w = <<c>>
    BY <2>3, OperatorFacts, Zenon
  <2>5. w[1] = c
    BY <2>4
  <2>. QED
    BY <1>1, <1>8, <2>5, Zenon DEF Begins
<1>9. CASE k \in 17 .. 19
  <2>1. w[1] \in Digits
    <3>1. CASE k = 17
      <4>1. Opens(w, "0", "x")
        BY <1>3, <3>1, NamedFacts, Patterns, Zenon
      <4>. QED
        BY <4>1 DEF Opens, Digits
    <3>2. CASE k = 18
      <4>1. w = <<"0", "x">>
        BY <1>3, <3>2, NamedFacts, Patterns, Zenon
      <4>. QED
        BY <4>1 DEF Digits
    <3>3. CASE k = 19
      <4>1. All(w, Digits)
        BY <1>3, <3>3, NamedFacts, Patterns, Zenon
      <4>. QED
        BY <1>4, <4>1
    <3>. QED
      BY <1>9, <3>1, <3>2, <3>3
  <2>. QED
    BY <1>1, <1>9, <2>1, Zenon DEF Begins
<1>10. CASE k \in 20 .. 24
  <2>1. Quoted(w, "'") \/ w = <<"'", "'">> \/ w[1] = "'"
    <3>1. k \in {20, 21, 22, 23, 24}
      BY <1>10
    <3>. QED
      BY <1>3, <3>1, NamedFacts, Patterns, ZenonT(60)
  <2>2. w[1] = "'"
    BY <2>1 DEF Quoted
  <2>. QED
    BY <1>1, <1>10, <2>2, Zenon DEF Begins
<1>11. CASE k \in 25 .. 27
  <2>1. Quoted(w, "\"") \/ w[1] = "\""
    <3>1. k \in {25, 26, 27}
      BY <1>11
    <3>. QED
      BY <1>3, <3>1, NamedFacts, Patterns, Zenon
  <2>2. w[1] = "\""
    BY <2>1 DEF Quoted
  <2>. QED
    BY <1>1, <1>11, <2>2, Zenon DEF Begins
<1>12. CASE k = 28
  <2>1. w[1] \in Letters
    BY <1>3, <1>12, NamedFacts, Patterns, Zenon
  <2>. QED
    BY <1>1, <1>12, <2>1, Zenon DEF Begins
<1>13. CASE k \in 29 .. 31
  <2>1. Opens(w, "/", "/") \/ Opens(w, "/", "*")
    <3>1. k \in {29, 30, 31}
      BY <1>13
    <3>. QED
      BY <1>3, <3>1, NamedFacts, Patterns, Zenon
  <2>2. w[1] = "/"
    BY <2>1 DEF Opens
  <2>. QED
    BY <1>1, <1>13, <2>2, Zenon DEF Begins
<1>14. \/ k = 1 \/ k \in 2 .. 16 \/ k \in 17 .. 19 \/ k \in 20 .. 24 \/ k \in 25 .. 27
       \/ k = 28 \/ k \in 29 .. 31 \/ k \in 32 .. 44 \/ k \in 45 .. 61
  OBVIOUS
<1>. QED
  BY <1>5, <1>6, <1>7, <1>8, <1>9, <1>10, <1>11, <1>12, <1>13, <1>14, Zenon

-----------------------------------------------------------------------------
\* No character begins two kinds of word, but for operators and comments.
LEMMA CharactersApart ==
  ASSUME NEW c
  PROVE  /\ c \in Space => c \notin Letters /\ c \notin Digits
         /\ c \in Letters => c \notin Digits
         /\ c \in Space \cup Letters \cup Digits => c \notin {"'", "\"", "/"} \cup LongFirst \cup ShortFirst
         /\ c \in {"'", "\""} => c \notin LongFirst \cup ShortFirst
<1>1. Space \cap Letters = {} /\ Space \cap Digits = {} /\ Letters \cap Digits = {}
  BY DEF Space, Letters, HexDigits, Digits
<1>2. Letters \cap ({"'", "\"", "/"} \cup LongFirst \cup ShortFirst) = {}
  <2>1. Letters \cap ({"'", "\"", "/"} \cup LongFirst) = {}
    BY ZenonT(60) DEF Letters, HexDigits, Digits, LongFirst
  <2>2. Letters \cap ShortFirst = {}
    BY ZenonT(60) DEF Letters, HexDigits, Digits, ShortFirst
  <2>. QED
    BY <2>1, <2>2
<1>3. (Space \cup Digits) \cap ({"'", "\"", "/"} \cup LongFirst \cup ShortFirst) = {}
  BY DEF Space, Digits, LongFirst, ShortFirst
<1>4. {"'", "\""} \cap (LongFirst \cup ShortFirst) = {}
  BY DEF LongFirst, ShortFirst
<1>. QED
  BY <1>1, <1>2, <1>3, <1>4

\* The alternatives that a character can begin.
LEMMA BeginsWith ==
  ASSUME NEW c, NEW k \in 1 .. 61, Begins(k, c)
  PROVE  /\ c \in Space => k = 1
         /\ c \in Letters => k \in 2 .. 16 \/ k = 28
         /\ c \in Digits => k \in 17 .. 19
         /\ c = "'" => k \in 20 .. 24
         /\ c = "\"" => k \in 25 .. 27
         /\ c \notin Space \cup Letters \cup Digits \cup {"'", "\""} => k \in 29 .. 61
<1>1. c \in {"'", "\"", "/"} => c \notin Space \cup Letters \cup Digits
  BY CharactersApart
<1>2. \A m \in 29 .. 31 \cup 32 .. 44 \cup 45 .. 61 : m \in 29 .. 61
  OBVIOUS
<1>. QED
  BY <1>1, <1>2, CharactersApart, ZenonT(60) DEF Begins

\* The places of the types of good tokens in the order, comments of several lines apart.
GoodPlaces == 1 .. 17 \cup {19, 20, 25, 28, 29} \cup 32 .. 61
ErrorPlaces == {18, 21, 22, 23, 24, 26, 27, 31}

\* Keywords and operators stand apart in the order.
LEMMA SpelledPlaces ==
  ASSUME NEW k \in 2 .. 16 \cup 32 .. 61
  PROVE  Alternatives[k] \in Spelled
<1>1. CASE k \in 2 .. 16
  <2>1. PICK j \in 1 .. 15 : k = 1 + j
    BY <1>1
  <2>2. Alternatives[k] = Keywords[j] /\ Keywords[j] \in Spelled
    BY <2>1, AlternativeFacts, KeywordFacts, Zenon DEF Spelled
  <2>. QED
    BY <2>2
<1>2. CASE k \in 32 .. 44
  <2>1. PICK j \in 1 .. 13 : k = 31 + j
    BY <1>2
  <2>2. Alternatives[k] = LongOperators[j] /\ LongOperators[j] \in Spelled
    BY <2>1, AlternativeFacts, OperatorFacts, Zenon DEF Spelled
  <2>. QED
    BY <2>2
<1>3. CASE k \in 45 .. 61
  <2>1. PICK j \in 1 .. 17 : k = 44 + j
    BY <1>3
  <2>2. Alternatives[k] = ShortOperators[j] /\ ShortOperators[j] \in Spelled
    BY <2>1, AlternativeFacts, OperatorFacts, Zenon DEF Spelled
  <2>. QED
    BY <2>2
<1>. QED
  BY <1>1, <1>2, <1>3

\* Each keyword and operator has its alternative.
LEMMA SpelledInPlace ==
  ASSUME NEW w \in Spelled
  PROVE  \E k \in 2 .. 16 \cup 32 .. 61 : InPattern(Alternatives[k], w) /\ Alternatives[k] = w
<1>1. \/ \E j \in 1 .. 15 : w = Keywords[j]
      \/ \E j \in 1 .. 13 : w = LongOperators[j]
      \/ \E j \in 1 .. 17 : w = ShortOperators[j]
  <2>1. Len(Keywords) = 15 /\ Len(LongOperators) = 13 /\ Len(ShortOperators) = 17
    BY KeywordFacts, OperatorFacts
  <2>. QED
    BY <2>1 DEF Spelled
<1>2. /\ \A j \in 1 .. 15 : 1 + j \in 2 .. 16 \cup 32 .. 61
      /\ \A j \in 1 .. 13 : 31 + j \in 2 .. 16 \cup 32 .. 61
      /\ \A j \in 1 .. 17 : 44 + j \in 2 .. 16 \cup 32 .. 61
  OBVIOUS
<1>3. \E k \in 2 .. 16 \cup 32 .. 61 : Alternatives[k] = w
  <2>1. CASE \E j \in 1 .. 15 : w = Keywords[j]
    <3>1. PICK j \in 1 .. 15 : w = Keywords[j]
      BY <2>1
    <3>2. Alternatives[1 + j] = Keywords[j]
      BY AlternativeFacts, Zenon
    <3>. QED
      BY <1>2, <3>1, <3>2, Zenon
  <2>2. CASE \E j \in 1 .. 13 : w = LongOperators[j]
    <3>1. PICK j \in 1 .. 13 : w = LongOperators[j]
      BY <2>2
    <3>2. Alternatives[31 + j] = LongOperators[j]
      BY AlternativeFacts, Zenon
    <3>. QED
      BY <1>2, <3>1, <3>2, Zenon
  <2>3. CASE \E j \in 1 .. 17 : w = ShortOperators[j]
    <3>1. PICK j \in 1 .. 17 : w = ShortOperators[j]
      BY <2>3
    <3>2. Alternatives[44 + j] = ShortOperators[j]
      BY AlternativeFacts, Zenon
    <3>. QED
      BY <1>2, <3>1, <3>2, Zenon
  <2>. QED
    BY <1>1, <2>1, <2>2, <2>3, Zenon
<1>4. PICK k \in 2 .. 16 \cup 32 .. 61 : Alternatives[k] = w
  BY <1>3, Zenon
<1>5. InPattern(w, w)
  BY Patterns, Zenon
<1>. QED
  BY <1>4, <1>5, Zenon

\* The alternatives of good tokens and of errors.
LEMMA Places ==
  /\ \A k \in GoodPlaces : Alternatives[k] \in GoodTypes /\ Alternatives[k] \notin ErrorTypes
  /\ \A type \in GoodTypes : \E k \in GoodPlaces : type = Alternatives[k]
  /\ \A k \in ErrorPlaces : Alternatives[k] \in ErrorTypes
  /\ MultilineComment \notin ErrorTypes /\ Unknown \in ErrorTypes
<1>1. \A k \in ErrorPlaces : Alternatives[k] \in ErrorTypes
  BY NamedFacts DEF ErrorPlaces, ErrorTypes
<1>2. /\ MultilineComment \notin ErrorTypes /\ Unknown \in ErrorTypes
      /\ \A type \in {Whitespace, HexLiteral, DecimalLiteral, CharLiteral, StringLiteral, Identifier, LineComment} :
           type \notin ErrorTypes /\ type # MultilineComment
  BY DEF ErrorTypes, Whitespace, HexLiteral, HexIncomplete, DecimalLiteral, CharLiteral, CharEmpty,
    CharInvalidChar, CharInvalidLength, CharUnterminated, StringLiteral, StringInvalidChar,
    StringUnterminated, Identifier, LineComment, MultilineComment, CommentUnterminated, Unknown
<1>3. \A type \in Spelled : type \notin ErrorTypes /\ type # MultilineComment
  BY NamesNotSpelled, Zenon DEF ErrorTypes
<1>4. ASSUME NEW k \in GoodPlaces
      PROVE  k \in 1 .. 61 /\ Alternatives[k] \notin ErrorTypes /\ Alternatives[k] # MultilineComment
  <2>1. k \in 1 .. 61 /\ (k \in {1, 17, 19, 20, 25, 28, 29} \/ k \in 2 .. 16 \cup 32 .. 61)
    BY DEF GoodPlaces
  <2>2. CASE k \in {1, 17, 19, 20, 25, 28, 29}
    BY <1>2, <2>1, <2>2, NamedFacts, ZenonT(60)
  <2>3. CASE k \in 2 .. 16 \cup 32 .. 61
    BY <1>3, <2>1, <2>3, SpelledPlaces, Zenon
  <2>. QED
    BY <2>1, <2>2, <2>3
<1>5. Len(Alternatives) = 61
  BY AlternativeFacts, Zenon
<1>6. \A k \in GoodPlaces : Alternatives[k] \in GoodTypes
  <2>1. \A k \in 1 .. 61 : k \in 1 .. Len(Alternatives)
    BY <1>5
  <2>. QED
    BY <1>4, <2>1, Zenon DEF GoodTypes
<1>7. ASSUME NEW type \in GoodTypes
      PROVE  \E k \in GoodPlaces : type = Alternatives[k]
  <2>1. PICK k \in 1 .. Len(Alternatives) : type = Alternatives[k]
    BY Zenon DEF GoodTypes
  <2>2. type \notin ErrorTypes /\ type # MultilineComment
    BY Zenon DEF GoodTypes
  <2>3. k \in 1 .. 61
    BY <1>5
  <2>4. k \notin ErrorPlaces /\ k # 30
    BY <1>1, <2>1, <2>2, NamedFacts, Zenon
  <2>5. k \in GoodPlaces
    BY <2>3, <2>4 DEF GoodPlaces, ErrorPlaces
  <2>. QED
    BY <2>1, <2>5
<1>. QED
  BY <1>1, <1>2, <1>4, <1>6, <1>7, Zenon

\* The good lengths at a place, by alternatives.
LEMMA GoodLengthsAre ==
  ASSUME source \in Seq(STRING), NEW at \in 0 .. Len(source), NEW n
  PROVE  n \in GoodLengths(at) <=>
           /\ n \in 1 .. Len(source) - at
           /\ \/ \E k \in GoodPlaces : InPattern(Alternatives[k], Text(at, n))
              \/ InPattern(MultilineComment, Text(at, n)) /\ ClosesOnlyAtItsEnd(Text(at, n))
BY Places, Zenon DEF GoodLengths

-----------------------------------------------------------------------------
\* \b follows keywords and 0x only.
LEMMA BoundedPlaces ==
  ASSUME NEW k \in 1 .. 61
  PROVE  Alternatives[k] \in Bounded <=> k \in 2 .. 16 \cup {18}
<1>1. Len(Keywords) = 15 /\ \A j \in 1 .. 15 : All(Keywords[j], Letters) /\ Len(Keywords[j]) > 1
  BY KeywordFacts, Zenon
<1>2. \A type : type \in Bounded <=> type = HexIncomplete \/ \E j \in 1 .. 15 : type = Keywords[j]
  BY <1>1 DEF Bounded
<1>3. CASE k \in 2 .. 16
  <2>1. PICK j \in 1 .. 15 : k = 1 + j
    BY <1>3
  <2>2. Alternatives[k] = Keywords[j]
    BY <2>1, AlternativeFacts, Zenon
  <2>. QED
    BY <1>2, <1>3, <2>2
<1>4. CASE k = 18
  BY <1>2, <1>4, NamedFacts
<1>5. CASE k \in {1, 17} \cup 19 .. 31
  <2>1. k \in {1, 17, 19, 20, 21, 22, 23, 24, 25, 26, 27, 28, 29, 30, 31}
    BY <1>5
  <2>2. Alternatives[k] \notin Spelled
    BY <2>1, NamedFacts, NamesNotSpelled, Zenon
  <2>3. \A j \in 1 .. 15 : Keywords[j] \in Spelled
    BY KeywordFacts, Zenon DEF Spelled
  <2>4. /\ Whitespace # HexIncomplete /\ HexLiteral # HexIncomplete /\ DecimalLiteral # HexIncomplete
        /\ CharLiteral # HexIncomplete /\ CharEmpty # HexIncomplete /\ CharInvalidChar # HexIncomplete
        /\ CharInvalidLength # HexIncomplete /\ CharUnterminated # HexIncomplete /\ StringLiteral # HexIncomplete
        /\ StringInvalidChar # HexIncomplete /\ StringUnterminated # HexIncomplete /\ Identifier # HexIncomplete
        /\ LineComment # HexIncomplete /\ MultilineComment # HexIncomplete /\ CommentUnterminated # HexIncomplete
    BY DEF Whitespace, HexLiteral, HexIncomplete, DecimalLiteral, CharLiteral, CharEmpty,
      CharInvalidChar, CharInvalidLength, CharUnterminated, StringLiteral, StringInvalidChar,
      StringUnterminated, Identifier, LineComment, MultilineComment, CommentUnterminated
  <2>5. Alternatives[k] # HexIncomplete
    BY <2>1, <2>4, NamedFacts, ZenonT(60)
  <2>6. Alternatives[k] \notin Bounded
    BY <1>2, <2>2, <2>3, <2>5, Zenon
  <2>. QED
    BY <1>5, <2>6
<1>6. CASE k \in 32 .. 61
  <2>1. Alternatives[k] \in Spelled
    BY <1>6, SpelledPlaces
  <2>2. Alternatives[k] # HexIncomplete
    BY <2>1, NamesNotSpelled, Zenon
  <2>3. Len(Alternatives[k]) \in 1 .. 2 /\ Alternatives[k][1] \in LongFirst \cup ShortFirst
    <3>1. CASE k \in 32 .. 44
      <4>1. PICK j \in 1 .. 13 : k = 31 + j
        BY <3>1
      <4>2. Alternatives[k] = LongOperators[j]
        BY <4>1, AlternativeFacts, Zenon
      <4>3. PICK c \in LongFirst : \E d \in {"=", "+", "-", "&", "|"} : Alternatives[k] = <<c, d>>
        BY <4>2, OperatorFacts, Zenon
      <4>. QED
        BY <4>3
    <3>2. CASE k \in 45 .. 61
      <4>1. PICK j \in 1 .. 17 : k = 44 + j
        BY <3>2
      <4>2. Alternatives[k] = ShortOperators[j]
        BY <4>1, AlternativeFacts, Zenon
      <4>3. PICK c \in ShortFirst : Alternatives[k] = <<c>>
        BY <4>2, OperatorFacts, Zenon
      <4>. QED
        BY <4>3
    <3>. QED
      BY <1>6, <3>1, <3>2
  <2>4. ASSUME NEW j \in 1 .. 15, Alternatives[k] = Keywords[j]
        PROVE  FALSE
    <3>1. All(Alternatives[k], Letters)
      BY <1>1, <2>4, Zenon
    <3>2. Alternatives[k][1] \in Letters
      BY <2>3, <3>1 DEF All
    <3>. QED
      BY <2>3, <3>2, CharactersApart
  <2>5. Alternatives[k] \notin Bounded
    BY <1>2, <2>2, <2>4, Zenon
  <2>. QED
    BY <1>6, <2>5
<1>. QED
  BY <1>3, <1>4, <1>5, <1>6

\* The types whose repetition is lazy, and no pattern is unknown.
LEMMA LazyPlaces ==
  /\ \A k \in GoodPlaces : k # 25 => Alternatives[k] \notin Lazy
  /\ StringLiteral \in Lazy /\ MultilineComment \in Lazy
  /\ \A k \in 1 .. 61 : Alternatives[k] # Unknown
<1>1. /\ StringLiteral \in Lazy /\ MultilineComment \in Lazy
      /\ \A type \in {Whitespace, HexLiteral, DecimalLiteral, CharLiteral, Identifier, LineComment} : type \notin Lazy
  BY DEF Lazy, Whitespace, HexLiteral, DecimalLiteral, CharLiteral, CharInvalidLength, StringLiteral,
    StringInvalidChar, Identifier, LineComment, MultilineComment
<1>2. \A type \in Spelled : type \notin Lazy /\ type # Unknown
  BY NamesNotSpelled, Zenon DEF Lazy
<1>3. ASSUME NEW k \in GoodPlaces, k # 25
      PROVE  Alternatives[k] \notin Lazy
  <2>1. k \in {1, 17, 19, 20, 28, 29} \/ k \in 2 .. 16 \cup 32 .. 61
    BY <1>3 DEF GoodPlaces
  <2>. QED
    BY <1>1, <1>2, <2>1, NamedFacts, SpelledPlaces, Zenon
<1>4. ASSUME NEW k \in 1 .. 61
      PROVE  Alternatives[k] # Unknown
  <2>1. k \in {1, 17, 18, 19, 20, 21, 22, 23, 24, 25, 26, 27, 28, 29, 30, 31} \/ k \in 2 .. 16 \cup 32 .. 61
    OBVIOUS
  <2>2. /\ Whitespace # Unknown /\ HexLiteral # Unknown /\ HexIncomplete # Unknown
        /\ DecimalLiteral # Unknown /\ CharLiteral # Unknown /\ CharEmpty # Unknown
        /\ CharInvalidChar # Unknown /\ CharInvalidLength # Unknown /\ CharUnterminated # Unknown
        /\ StringLiteral # Unknown /\ StringInvalidChar # Unknown /\ StringUnterminated # Unknown
        /\ Identifier # Unknown /\ LineComment # Unknown /\ MultilineComment # Unknown
        /\ CommentUnterminated # Unknown
    BY DEF Whitespace, HexLiteral, HexIncomplete, DecimalLiteral, CharLiteral, CharEmpty,
      CharInvalidChar, CharInvalidLength, CharUnterminated, StringLiteral, StringInvalidChar,
      StringUnterminated, Identifier, LineComment, MultilineComment, CommentUnterminated, Unknown
  <2>. QED
    BY <1>2, <2>1, <2>2, NamedFacts, SpelledPlaces, Zenon
<1>. QED
  BY <1>1, <1>3, <1>4, Zenon

\* Where nothing is asked of what follows, what is in the pattern matches.
LEMMA InLengths ==
  ASSUME source \in Seq(STRING), NEW at \in 0 .. Len(source), NEW k \in 1 .. 61, k \notin 2 .. 16, k # 18,
         NEW n
  PROVE  n \in Lengths(Alternatives[k], at) <=>
           n \in 1 .. Len(source) - at /\ InPattern(Alternatives[k], Text(at, n))
<1>1. Alternatives[k] \notin Bounded
  BY BoundedPlaces
<1>2. PICK type : type = Alternatives[k]
  OBVIOUS
<1>. QED
  BY <1>1, <1>2, LengthsAre

\* What MatchLength chooses: the longest match, or the shortest of a lazy repetition.
LEMMA MatchFacts ==
  ASSUME source \in Seq(STRING), NEW at \in 0 .. Len(source), NEW type, Lengths(type, at) # {}
  PROVE  /\ MatchLength(type, at) \in Lengths(type, at)
         /\ type \notin Lazy => \A m \in Lengths(type, at) : m =< MatchLength(type, at)
         /\ type \in Lazy => \A m \in Lengths(type, at) : MatchLength(type, at) =< m
<1>1. PICK L, N : L = Lengths(type, at) /\ N = Len(source) - at
  OBVIOUS
<1>2. N \in Nat /\ L \subseteq 1 .. N
  <2>1. L \subseteq 1 .. N
    BY <1>1, LengthsAre, Zenon
  <2>. QED
    BY <1>1, <2>1
<1>3. L \subseteq Nat /\ L \subseteq 0 .. N /\ \E e : e \in L
  BY <1>1, <1>2
<1>4. Max(L) \in L /\ \A x \in L : Max(L) >= x
  BY <1>2, <1>3, MaxFacts
<1>5. Min(L) \in L /\ \A x \in L : Min(L) =< x
  BY <1>3, MinFacts
<1>6. MatchLength(type, at) = IF type \in Lazy THEN Min(L) ELSE Max(L)
  BY <1>1, Zenon DEF MatchLength
<1>7. CASE type \in Lazy
  BY <1>1, <1>5, <1>6, <1>7, Zenon
<1>8. CASE type \notin Lazy
  <2>1. MatchLength(type, at) = Max(L)
    BY <1>6, <1>8
  <2>2. \A x \in L : x =< Max(L)
    BY <1>2, <1>4
  <2>. QED
    BY <1>1, <1>4, <1>8, <2>1, <2>2, Zenon
<1>. QED
  BY <1>7, <1>8

-----------------------------------------------------------------------------
(* The first alternative against the longest good token *)

\* What the scanner takes at a place, of a type and a length, is the longest good token
\* there; or it is an error where there is no good one or another has been announced.
DecidedAs(at, type, n) ==
  /\ n \in 1 .. Len(source) - at
  /\ type \in ErrorTypes => GoodLengths(at) = {} \/ Announced(at)
  /\ type \notin ErrorTypes =>
       /\ n \in GoodLengths(at) /\ \A m \in GoodLengths(at) : m =< n
       /\ ~ Announced(at)
       /\ GoodType(Text(at, n)) = type
       /\ InPattern(type, Text(at, n))
Decided(at) == DecidedAs(at, FirstMatch(at), TokenLength(FirstMatch(at), at))

\* The length of a token that is not unknown.
LEMMA TokenOfPlace ==
  ASSUME source \in Seq(STRING), NEW at \in 0 .. Len(source), NEW k, IsFirst(k, at)
  PROVE  /\ k \in 1 .. 61
         /\ FirstMatch(at) = Alternatives[k]
         /\ TokenLength(Alternatives[k], at) = MatchLength(Alternatives[k], at)
         /\ MatchLength(Alternatives[k], at) \in 1 .. Len(source) - at
         /\ InPattern(Alternatives[k], Text(at, MatchLength(Alternatives[k], at)))
         /\ k \in 2 .. 16 => Boundary(at + MatchLength(Alternatives[k], at))
         /\ k \in GoodPlaces /\ k # 25 =>
              \A m \in Lengths(Alternatives[k], at) : m =< MatchLength(Alternatives[k], at)
<1>1. k \in 1 .. 61 /\ Lengths(Alternatives[k], at) # {}
  BY Zenon DEF IsFirst
<1>2. FirstMatch(at) = Alternatives[k]
  BY FirstMatchFacts, Zenon
<1>3. TokenLength(Alternatives[k], at) = MatchLength(Alternatives[k], at)
  BY <1>1, LazyPlaces, Zenon DEF TokenLength
<1>4. PICK type, n : type = Alternatives[k] /\ n = MatchLength(type, at)
  OBVIOUS
<1>5. n \in Lengths(type, at) /\ (type \notin Lazy => \A m \in Lengths(type, at) : m =< n)
  BY <1>1, <1>4, MatchFacts, Zenon
<1>6. /\ n \in 1 .. Len(source) - at /\ InPattern(type, Text(at, n))
      /\ type \in Bounded => Boundary(at + n)
  BY <1>5, LengthsAre
<1>7. k \in 2 .. 16 => type \in Bounded
  BY <1>1, <1>4, BoundedPlaces
<1>8. k \in GoodPlaces /\ k # 25 => type \notin Lazy
  BY <1>4, LazyPlaces, Zenon
<1>. QED
  BY <1>1, <1>2, <1>3, <1>4, <1>5, <1>6, <1>7, <1>8, Zenon

\* The first alternative is that of the longest good token.
LEMMA GoodDecision ==
  ASSUME source \in Seq(STRING), NEW at \in 0 .. Len(source), NEW k, IsFirst(k, at),
         k \in GoodPlaces \cup {30}, NEW n, n = MatchLength(Alternatives[k], at),
         n \in GoodLengths(at), \A m \in GoodLengths(at) : m =< n, ~ Announced(at),
         GoodType(Text(at, n)) = Alternatives[k]
  PROVE  Decided(at)
<1>1. Alternatives[k] \notin ErrorTypes
  BY Places, NamedFacts, Zenon
<1>2. /\ FirstMatch(at) = Alternatives[k] /\ TokenLength(Alternatives[k], at) = n
      /\ n \in 1 .. Len(source) - at /\ InPattern(Alternatives[k], Text(at, n))
  BY TokenOfPlace, Zenon
<1>3. DecidedAs(at, Alternatives[k], n)
  BY <1>1, <1>2, Zenon DEF DecidedAs
<1>. QED
  BY <1>2, <1>3, Zenon DEF Decided

\* The first alternative is an error, and rightly.
LEMMA ErrorDecision ==
  ASSUME source \in Seq(STRING), NEW at \in 0 .. Len(source), NEW k, IsFirst(k, at),
         k \in ErrorPlaces, GoodLengths(at) = {} \/ Announced(at)
  PROVE  Decided(at)
<1>1. Alternatives[k] \in ErrorTypes
  BY Places
<1>2. PICK n : n = MatchLength(Alternatives[k], at)
  OBVIOUS
<1>3. /\ FirstMatch(at) = Alternatives[k] /\ TokenLength(Alternatives[k], at) = n
      /\ n \in 1 .. Len(source) - at
  BY <1>2, TokenOfPlace, Zenon
<1>4. DecidedAs(at, Alternatives[k], n)
  BY <1>1, <1>3, Zenon DEF DecidedAs
<1>. QED
  BY <1>3, <1>4, Zenon DEF Decided

\* What matches nowhere is unknown up to the next match, or to the end.
LEMMA UnknownDecision ==
  ASSUME source \in Seq(STRING), NEW at \in 0 .. Len(source), at # Len(source),
         \A k \in 1 .. 61 : Lengths(Alternatives[k], at) = {}, GoodLengths(at) = {}
  PROVE  Decided(at)
<1>1. FirstMatch(at) = Unknown
  BY FirstMatchFacts, Zenon
<1>2. PICK L : L = Len(source) /\ L \in Nat /\ at \in 0 .. L - 1
  OBVIOUS
<1>. DEFINE S == {k \in at + 1 .. L : k = L \/ FirstMatch(k) # Unknown}
<1>3. L \in S /\ S \subseteq at + 1 .. L /\ S \subseteq Nat
  BY <1>2
<1>4. Min(S) \in S
  <2>. HIDE DEF S
  <2>. QED
    BY <1>3, MinFacts
<1>5. Min(S) - at \in 1 .. L - at
  <2>1. PICK m : m = Min(S)
    OBVIOUS
  <2>2. m \in at + 1 .. L
    <3>. HIDE DEF S
    <3>. QED
      BY <1>3, <1>4, <2>1
  <2>. QED
    BY <1>2, <2>1, <2>2
<1>6. NextMatch(at) = Min(S)
  BY <1>2, Zenon DEF NextMatch
<1>7. TokenLength(Unknown, at) = Min(S) - at
  BY <1>6, Zenon DEF TokenLength
<1>8. Unknown \in ErrorTypes
  BY Places, Zenon
<1>. QED
  BY <1>1, <1>2, <1>5, <1>7, <1>8, Zenon DEF Decided, DecidedAs

\* An announcement begins with a zero or a slash.
LEMMA AnnouncedFacts ==
  ASSUME source \in Seq(STRING), NEW at \in 0 .. Len(source), Announced(at)
  PROVE  /\ 2 \in 1 .. Len(source) - at
         /\ \/ /\ source[at + 1] = "0" /\ source[at + 2] = "x"
               /\ Text(at, 2) = <<"0", "x">> /\ Boundary(at + 2)
            \/ /\ source[at + 1] = "/" /\ source[at + 2] = "*"
               /\ Text(at, 2) = <<"/", "*">> /\ GoodLengths(at) \subseteq {1}
<1>1. at + 2 =< Len(source)
  BY DEF Announced
<1>2. 2 \in 0 .. Len(source) - at /\ 2 \in 1 .. Len(source) - at
  BY <1>1
<1>3. \A q \in 1 .. 2 : Text(at, 2)[q] = source[at + q]
  BY <1>2, TextFacts
<1>4. Text(at, 2)[1] = source[at + 1] /\ Text(at, 2)[2] = source[at + 2]
  BY <1>3
<1>5. CASE Text(at, 2) = <<"0", "x">> /\ Boundary(at + 2)
  BY <1>2, <1>4, <1>5
<1>6. CASE Text(at, 2) = <<"/", "*">> /\ GoodLengths(at) \subseteq {1}
  BY <1>2, <1>4, <1>6
<1>. QED
  BY <1>5, <1>6 DEF Announced

-----------------------------------------------------------------------------
(* Each kind of first character *)

\* The first character, for the first alternative and for good words.
LEMMA AlternativeBegins ==
  ASSUME source \in Seq(STRING), NEW at \in 0 .. Len(source)
  PROVE  /\ \A k : IsFirst(k, at) => k \in 1 .. 61 /\ Begins(k, source[at + 1])
         /\ \A n \in 1 .. Len(source) - at : \A k \in 1 .. 61 :
              InPattern(Alternatives[k], Text(at, n)) => Begins(k, source[at + 1])
<1>1. ASSUME NEW n \in 1 .. Len(source) - at, NEW k \in 1 .. 61, InPattern(Alternatives[k], Text(at, n))
      PROVE  Begins(k, source[at + 1])
  BY <1>1, Initials, Zenon
<1>2. ASSUME NEW k, IsFirst(k, at)
      PROVE  k \in 1 .. 61 /\ Begins(k, source[at + 1])
  <2>1. /\ k \in 1 .. 61 /\ MatchLength(Alternatives[k], at) \in 1 .. Len(source) - at
        /\ InPattern(Alternatives[k], Text(at, MatchLength(Alternatives[k], at)))
    BY <1>2, TokenOfPlace, Zenon
  <2>. QED
    BY <1>1, <2>1, Zenon
<1>. QED
  BY <1>1, <1>2, Zenon

\* Only a slash can begin a comment of several lines.
LEMMA CommentBegins ==
  ASSUME source \in Seq(STRING), NEW at \in 0 .. Len(source), NEW n \in 1 .. Len(source) - at,
         InPattern(MultilineComment, Text(at, n)) \/ InPattern(LineComment, Text(at, n))
  PROVE  source[at + 1] = "/"
<1>1. PICK k \in {29, 30} : InPattern(Alternatives[k], Text(at, n))
  BY NamedFacts, Zenon
<1>2. /\ k \in 1 .. 61 /\ k # 1 /\ k \notin 2 .. 16 /\ k \notin 17 .. 19 /\ k \notin 20 .. 24
      /\ k \notin 25 .. 27 /\ k # 28 /\ k \notin 32 .. 44 /\ k \notin 45 .. 61
  OBVIOUS
<1>3. Begins(k, source[at + 1])
  BY <1>1, <1>2, AlternativeBegins, ZenonT(60)
<1>. QED
  BY <1>2, <1>3, Zenon DEF Begins

\* A place that is not the end has a character.
LEMMA AtLeastOne ==
  ASSUME source \in Seq(STRING), NEW at \in 0 .. Len(source), at # Len(source)
  PROVE  /\ 1 \in 1 .. Len(source) - at
         /\ \A S : source[at + 1] \in S => All(Text(at, 1), S)
<1>1. 1 \in 1 .. Len(source) - at /\ 1 \in 0 .. Len(source) - at
  OBVIOUS
<1>2. Len(Text(at, 1)) = 1 /\ \A q \in 1 .. 1 : Text(at, 1)[q] = source[at + q]
  BY <1>1, TextFacts
<1>3. Text(at, 1)[1] = source[at + 1]
  BY <1>2
<1>. QED
  BY <1>1, <1>2, <1>3 DEF All

\* Where all good tokens and the first alternative are of one type that is not spelled out.
LEMMA OneType ==
  ASSUME source \in Seq(STRING), NEW at \in 0 .. Len(source),
         NEW k \in {1, 17, 19, 20, 25, 28, 29}, NEW n \in 1 .. Len(source) - at,
         InPattern(Alternatives[k], Text(at, n)),
         Text(at, n) \notin Spelled, ~ InPattern(MultilineComment, Text(at, n)),
         \A j \in GoodPlaces : InPattern(Alternatives[j], Text(at, n)) => j = k \/ Alternatives[j] \in Spelled
  PROVE  GoodType(Text(at, n)) = Alternatives[k]
<1>1. k \in GoodPlaces
  BY DEF GoodPlaces
<1>. DEFINE w == Text(at, n)
<1>2. /\ Alternatives[k] \in GoodTypes /\ InPattern(Alternatives[k], w)
      /\ \A type \in GoodTypes : InPattern(type, w) => type = Alternatives[k]
  <2>1. \A type \in Spelled : ~ InPattern(type, w)
    BY Patterns, ZenonT(60)
  <2>. QED
    BY <1>1, <2>1, Places, ZenonT(60)
<1>3. GoodType(w) = CHOOSE type \in GoodTypes : InPattern(type, w)
  BY DEF GoodType
<1>. HIDE DEF w
<1>. QED
  BY <1>2, <1>3, Zenon DEF w

\* What is spelled out is of the type that it spells.
LEMMA SpelledType ==
  ASSUME NEW w \in Spelled
  PROVE  ~ InPattern(MultilineComment, w) /\ GoodType(w) = w
<1>1. ~ InPattern(MultilineComment, w)
  <2>. SUFFICES ASSUME InPattern(MultilineComment, w) PROVE FALSE
    OBVIOUS
  <2>1. Len(w) > 3 /\ w[1] = "/"
    BY Patterns, Zenon DEF Opens
  <2>2. CASE All(w, Letters) /\ Len(w) \in Nat /\ Len(w) > 1
    <3>1. w[1] \in Letters
      BY <2>2 DEF All
    <3>. QED
      BY <2>1, <3>1, CharactersApart
  <2>3. CASE \E c, d : w = <<c, d>>
    BY <2>1, <2>3
  <2>4. CASE \E c : w = <<c>>
    BY <2>1, <2>4
  <2>. QED
    BY <2>2, <2>3, <2>4, SpelledShape, Zenon
<1>. QED
  BY <1>1 DEF GoodType

\* At white space.
LEMMA AtSpace ==
  ASSUME source \in Seq(STRING), NEW at \in 0 .. Len(source), at # Len(source), source[at + 1] \in Space
  PROVE  Decided(at)
<1>. DEFINE c == source[at + 1]
<1>1. /\ 1 \in GoodPlaces /\ 1 \in 1 .. 61 /\ 1 \notin 2 .. 16 /\ 1 # 18 /\ 1 # 25
      /\ \A k \in GoodPlaces : k \in 1 .. 61
  BY DEF GoodPlaces
<1>2. PICK n : n = MatchLength(Alternatives[1], at)
  OBVIOUS
<1>3. 1 \in Lengths(Alternatives[1], at)
  BY <1>1, AtLeastOne, InLengths, NamedFacts, Patterns, Zenon
<1>4. IsFirst(1, at)
  <2>1. \A j \in 1 .. 1 - 1 : FALSE
    OBVIOUS
  <2>. QED
    BY <1>1, <1>3, <2>1, Zenon DEF IsFirst
<1>5. n \in 1 .. Len(source) - at /\ InPattern(Alternatives[1], Text(at, n))
      /\ \A m \in Lengths(Alternatives[1], at) : m =< n
  BY <1>1, <1>2, <1>4, TokenOfPlace, Zenon
<1>6. ASSUME NEW m \in 1 .. Len(source) - at
      PROVE  /\ \A k \in 1 .. 61 : InPattern(Alternatives[k], Text(at, m)) => k = 1
             /\ ~ InPattern(MultilineComment, Text(at, m))
  BY AlternativeBegins, BeginsWith, CommentBegins, CharactersApart, ZenonT(60)
<1>7. n \in GoodLengths(at)
  BY <1>1, <1>5, GoodLengthsAre, Zenon
<1>8. \A m \in GoodLengths(at) : m =< n
  <2>. SUFFICES ASSUME NEW m \in GoodLengths(at) PROVE m =< n
    OBVIOUS
  <2>1. m \in 1 .. Len(source) - at /\ InPattern(Alternatives[1], Text(at, m))
    BY <1>1, <1>6, GoodLengthsAre, Zenon
  <2>. QED
    BY <1>1, <1>5, <2>1, InLengths, Zenon
<1>9. ~ Announced(at)
  <2>1. "0" \in Digits
    BY DEF Digits
  <2>. QED
    BY <2>1, AnnouncedFacts, CharactersApart, Zenon
<1>10. Text(at, n) \notin Spelled
  <2>. SUFFICES ASSUME Text(at, n) \in Spelled PROVE FALSE
    OBVIOUS
  <2>1. PICK k \in 2 .. 16 \cup 32 .. 61 : InPattern(Alternatives[k], Text(at, n))
    BY SpelledInPlace, Zenon
  <2>2. k \in 1 .. 61 /\ k # 1
    OBVIOUS
  <2>. QED
    BY <1>5, <1>6, <2>1, <2>2, Zenon
<1>11. GoodType(Text(at, n)) = Alternatives[1]
  BY <1>1, <1>5, <1>6, <1>10, OneType, Zenon
<1>. QED
  BY <1>1, <1>2, <1>4, <1>7, <1>8, <1>9, <1>11, GoodDecision, Zenon

\* A text of characters of a set, and what it says of the source.
LEMMA AllFacts ==
  ASSUME source \in Seq(STRING), NEW at \in 0 .. Len(source), NEW n \in 0 .. Len(source) - at, NEW S
  PROVE  All(Text(at, n), S) <=> \A q \in 1 .. n : source[at + q] \in S
<1>1. PICK w : w = Text(at, n) /\ Len(w) = n /\ \A q \in 1 .. n : w[q] = source[at + q]
  BY TextFacts
<1>2. All(w, S) <=> \A q \in 1 .. n : w[q] \in S
  BY <1>1 DEF All
<1>. QED
  BY <1>1, <1>2, Zenon

\* At a letter: a keyword wins over the identifier only if a word boundary follows it, and then
\* the identifier is no longer.
LEMMA AtLetter ==
  ASSUME source \in Seq(STRING), NEW at \in 0 .. Len(source), at # Len(source), source[at + 1] \in Letters
  PROVE  Decided(at)
<1>1. /\ 28 \in GoodPlaces /\ 28 \in 1 .. 61 /\ 28 \notin 2 .. 16 /\ 28 # 18 /\ 28 # 25
      /\ \A k \in GoodPlaces : k \in 1 .. 61
      /\ \A k \in 2 .. 16 : k \in GoodPlaces /\ k \in 1 .. 61 /\ k # 25 /\ k \in 1 .. 28 - 1
  BY DEF GoodPlaces
\* What a good token here is made of.
<1>2. ASSUME NEW m \in 1 .. Len(source) - at
      PROVE  /\ \A k \in 1 .. 61 : InPattern(Alternatives[k], Text(at, m)) =>
                                     (k \in 2 .. 16 \/ k = 28) /\ m \in Lengths(Alternatives[28], at)
             /\ ~ InPattern(MultilineComment, Text(at, m))
  <2>1. ~ InPattern(MultilineComment, Text(at, m))
    BY CommentBegins, CharactersApart, Zenon
  <2>2. ASSUME NEW k \in 1 .. 61, InPattern(Alternatives[k], Text(at, m))
        PROVE  (k \in 2 .. 16 \/ k = 28) /\ m \in Lengths(Alternatives[28], at)
    <3>1. k \in 2 .. 16 \/ k = 28
      BY <2>2, AlternativeBegins, BeginsWith, Zenon
    <3>2. CASE k \in 2 .. 16
      <4>1. Alternatives[k] \in Spelled
        BY <3>2, SpelledPlaces
      <4>2. Text(at, m) = Alternatives[k]
        BY <2>2, <4>1, Patterns, Zenon
      <4>3. PICK j \in 1 .. 15 : k = 1 + j
        BY <3>2
      <4>4. Alternatives[k] = Keywords[j]
        BY <4>3, AlternativeFacts, Zenon
      <4>5. All(Text(at, m), Letters)
        BY <4>2, <4>4, KeywordFacts, Zenon
      <4>6. All(Text(at, m), WordCharacters)
        BY <4>5 DEF All, WordCharacters
      <4>7. Text(at, m)[1] \in Letters
        <5>1. m \in 0 .. Len(source) - at /\ 1 \in 1 .. m
          OBVIOUS
        <5>2. Len(Text(at, m)) = m
          BY <5>1, TextFacts
        <5>. QED
          BY <4>5, <5>1, <5>2, Zenon DEF All
      <4>8. InPattern(Identifier, Text(at, m))
        BY <4>6, <4>7, Patterns, Zenon
      <4>. QED
        BY <1>1, <3>1, <4>8, InLengths, NamedFacts, ZenonT(60)
    <3>3. CASE k = 28
      BY <1>1, <2>2, <3>3, InLengths, Zenon
    <3>. QED
      BY <3>1, <3>2, <3>3, Zenon
  <2>. QED
    BY <2>1, <2>2, Zenon
<1>3. 1 \in Lengths(Alternatives[28], at)
  <2>1. 1 \in 1 .. Len(source) - at /\ All(Text(at, 1), WordCharacters) /\ All(Text(at, 1), Letters)
    BY AtLeastOne, Zenon DEF WordCharacters
  <2>2. Text(at, 1)[1] = source[at + 1]
    <3>1. 1 \in 0 .. Len(source) - at /\ 1 \in 1 .. 1
      BY <2>1
    <3>. QED
      BY <3>1, TextFacts, Zenon
  <2>. QED
    BY <1>1, <2>1, <2>2, InLengths, NamedFacts, Patterns, ZenonT(60)
<1>4. PICK k : IsFirst(k, at)
  BY <1>1, <1>3, FirstMatchFacts, ZenonT(60)
<1>5. k \in 2 .. 16 \/ k = 28
  BY <1>4, AlternativeBegins, BeginsWith, Zenon
<1>6. PICK n : n = MatchLength(Alternatives[k], at)
  OBVIOUS
<1>7. k \in GoodPlaces /\ k \in 1 .. 61 /\ k # 25
  BY <1>1, <1>5, ZenonT(60)
<1>8. /\ n \in 1 .. Len(source) - at /\ InPattern(Alternatives[k], Text(at, n))
      /\ \A m \in Lengths(Alternatives[k], at) : m =< n
      /\ k \in 2 .. 16 => Boundary(at + n)
  BY <1>4, <1>6, <1>7, TokenOfPlace, Zenon
<1>9. n \in GoodLengths(at)
  BY <1>7, <1>8, GoodLengthsAre, Zenon
<1>10. ~ Announced(at)
  <2>1. "0" \in Digits
    BY DEF Digits
  <2>. QED
    BY <2>1, AnnouncedFacts, CharactersApart, Zenon
<1>11. \A m \in GoodLengths(at) : m \in Lengths(Alternatives[28], at)
  BY <1>1, <1>2, GoodLengthsAre, Zenon
<1>12. CASE k \in 2 .. 16
  <2>1. \A m \in GoodLengths(at) : m =< n
    <3>. SUFFICES ASSUME NEW m \in GoodLengths(at), ~ m =< n PROVE FALSE
      OBVIOUS
    <3>1. m \in Lengths(Alternatives[28], at)
      BY <1>11
    <3>2. m \in 1 .. Len(source) - at /\ All(Text(at, m), WordCharacters)
      <4>1. m \in 1 .. Len(source) - at /\ InPattern(Alternatives[28], Text(at, m))
        BY <1>1, <3>1, InLengths, Zenon
      <4>2. InPattern(Identifier, Text(at, m))
        BY <4>1, NamedFacts, Zenon
      <4>. QED
        BY <4>1, <4>2, Patterns, Zenon
    <3>3. n + 1 \in 1 .. m /\ m \in 0 .. Len(source) - at /\ at + n # Len(source)
          /\ at + (n + 1) = at + n + 1
      BY <1>8, <3>2
    <3>4. source[at + n + 1] \in WordCharacters
      BY <3>2, <3>3, AllFacts, Zenon
    <3>. QED
      BY <1>8, <1>12, <3>3, <3>4, Zenon DEF Boundary
  <2>2. Alternatives[k] \in Spelled
    BY <1>12, SpelledPlaces
  <2>3. Text(at, n) = Alternatives[k]
    BY <1>8, <2>2, Patterns, Zenon
  <2>4. GoodType(Text(at, n)) = Alternatives[k]
    BY <2>2, <2>3, SpelledType, Zenon
  <2>. QED
    BY <1>4, <1>6, <1>7, <1>9, <1>10, <2>1, <2>4, GoodDecision, Zenon
<1>13. CASE k = 28
  <2>1. \A m \in GoodLengths(at) : m =< n
    BY <1>8, <1>11, <1>13, Zenon
  <2>2. Boundary(at + n)
    <3>. SUFFICES ASSUME at + n # Len(source), source[at + n + 1] \in WordCharacters PROVE FALSE
      BY Zenon DEF Boundary
    <3>1. n + 1 \in 1 .. Len(source) - at /\ n \in 0 .. Len(source) - at /\ n + 1 \in 0 .. Len(source) - at
          /\ at + (n + 1) = at + n + 1
      BY <1>8
    <3>2. All(Text(at, n), WordCharacters)
      BY <1>8, <1>13, NamedFacts, Patterns, Zenon
    <3>3. \A q \in 1 .. n + 1 : q \in 1 .. n \/ q = n + 1
      BY <1>8
    <3>4. All(Text(at, n + 1), WordCharacters)
      BY <3>1, <3>2, <3>3, AllFacts, Zenon
    <3>5. Text(at, n + 1)[1] = source[at + 1]
      <4>1. 1 \in 1 .. n + 1
        BY <1>8
      <4>. QED
        BY <3>1, <4>1, TextFacts, Zenon
    <3>6. n + 1 \in Lengths(Alternatives[28], at)
      BY <1>1, <3>1, <3>4, <3>5, InLengths, NamedFacts, Patterns, ZenonT(60)
    <3>. QED
      BY <1>8, <1>13, <3>1, <3>6
  <2>3. Text(at, n) \notin Spelled
    <3>. SUFFICES ASSUME Text(at, n) \in Spelled PROVE FALSE
      OBVIOUS
    <3>1. PICK j \in 2 .. 16 \cup 32 .. 61 : InPattern(Alternatives[j], Text(at, n))
      BY SpelledInPlace, Zenon
    <3>2. j \in 1 .. 61 /\ j # 28
      OBVIOUS
    <3>3. j \in 2 .. 16
      BY <1>2, <1>8, <3>1, <3>2, Zenon
    <3>4. n \in Lengths(Alternatives[j], at)
      BY <1>8, <2>2, <3>1, LengthsAre
    <3>5. Lengths(Alternatives[j], at) = {}
      BY <1>1, <1>4, <1>13, <3>3, Zenon DEF IsFirst
    <3>. QED
      BY <3>4, <3>5, Zenon
  <2>4. k \in {1, 17, 19, 20, 25, 28, 29}
    BY <1>13
  <2>5. \A j \in GoodPlaces : InPattern(Alternatives[j], Text(at, n)) => j = k \/ Alternatives[j] \in Spelled
    BY <1>1, <1>2, <1>8, <1>13, SpelledPlaces
  <2>6. GoodType(Text(at, n)) = Alternatives[k]
    BY <1>2, <1>8, <2>3, <2>4, <2>5, OneType, Zenon
  <2>. QED
    BY <1>4, <1>6, <1>7, <1>9, <1>10, <2>1, <2>6, GoodDecision, Zenon
<1>. QED
  BY <1>5, <1>12, <1>13, Zenon

\* Hexadecimal digits follow 0x, and no digit is an x.
LEMMA HexAndDecimal ==
  ASSUME source \in Seq(STRING), NEW at \in 0 .. Len(source), NEW m \in 1 .. Len(source) - at
  PROVE  /\ InPattern(HexLiteral, Text(at, m)) =>
              m > 2 /\ source[at + 2] = "x" /\ at + 2 # Len(source) /\ source[at + 2 + 1] \in WordCharacters
         /\ InPattern(DecimalLiteral, Text(at, m)) => m = 1 \/ source[at + 2] # "x"
<1>1. PICK w : w = Text(at, m) /\ Len(w) = m /\ w \in Seq(STRING) /\ \A q \in 1 .. m : w[q] = source[at + q]
  <2>1. m \in 0 .. Len(source) - at
    OBVIOUS
  <2>. QED
    BY <2>1, TextFacts
<1>2. ASSUME InPattern(HexLiteral, w)
      PROVE  m > 2 /\ source[at + 2] = "x" /\ at + 2 # Len(source) /\ source[at + 2 + 1] \in WordCharacters
  <2>1. Opens(w, "0", "x") /\ Len(w) > 2 /\ All(SubSeq(w, 3, Len(w)), HexDigits)
    BY <1>2, Patterns, Zenon
  <2>2. m > 2 /\ w[2] = "x" /\ 2 \in 1 .. m /\ 3 \in 1 .. m /\ at + 2 # Len(source) /\ at + 2 + 1 = at + 3
    BY <1>1, <2>1 DEF Opens
  <2>3. w[2] = source[at + 2] /\ w[3] = source[at + 3]
    BY <1>1, <2>2, Zenon
  <2>4. Len(SubSeq(w, 3, m)) = m - 2 /\ SubSeq(w, 3, m)[1] = w[3]
    BY <1>1, <2>2
  <2>5. w[3] \in HexDigits
    <3>1. 1 \in 1 .. m - 2
      BY <2>2
    <3>. QED
      BY <1>1, <2>1, <2>4, <3>1, Zenon DEF All
  <2>6. HexDigits \subseteq WordCharacters
    BY DEF WordCharacters, Letters
  <2>. QED
    BY <2>2, <2>3, <2>5, <2>6, Zenon
<1>3. ASSUME InPattern(DecimalLiteral, w), m # 1
      PROVE  source[at + 2] # "x"
  <2>1. All(w, Digits)
    BY <1>3, Patterns, Zenon
  <2>2. 2 \in 1 .. m
    BY <1>3
  <2>3. source[at + 2] \in Digits
    BY <1>1, <2>1, <2>2, Zenon DEF All
  <2>. QED
    BY <2>3 DEF Digits
<1>. QED
  BY <1>1, <1>2, <1>3, Zenon

\* At a digit: hexadecimal digits win over the zero before them, and 0x alone is an error.
LEMMA AtDigit ==
  ASSUME source \in Seq(STRING), NEW at \in 0 .. Len(source), at # Len(source), source[at + 1] \in Digits
  PROVE  Decided(at)
<1>1. /\ 17 \in GoodPlaces /\ 17 \in 1 .. 61 /\ 17 \notin 2 .. 16 /\ 17 # 18 /\ 17 # 25
      /\ 19 \in GoodPlaces /\ 19 \in 1 .. 61 /\ 19 \notin 2 .. 16 /\ 19 # 18 /\ 19 # 25
      /\ \A k \in GoodPlaces : k \in 1 .. 61
      /\ \A k \in GoodPlaces : k \in 17 .. 19 => k = 17 \/ k = 19
      /\ \A k \in 2 .. 16 \cup 32 .. 61 : k \in 1 .. 61 /\ k \notin 17 .. 19
      /\ \A k \in 17 .. 19 : k = 17 \/ k = 18 \/ k = 19
      /\ 18 \in 1 .. 61 /\ 18 \in ErrorPlaces /\ 17 \in 1 .. 19 - 1 /\ 18 \in 1 .. 19 - 1
  BY DEF GoodPlaces, ErrorPlaces
<1>2. ASSUME NEW m \in 1 .. Len(source) - at
      PROVE  /\ \A k \in 1 .. 61 : InPattern(Alternatives[k], Text(at, m)) => k \in 17 .. 19
             /\ ~ InPattern(MultilineComment, Text(at, m))
             /\ Text(at, m) \notin Spelled
  <2>1. \A k \in 1 .. 61 : InPattern(Alternatives[k], Text(at, m)) => k \in 17 .. 19
    BY AlternativeBegins, BeginsWith, Zenon
  <2>2. ~ InPattern(MultilineComment, Text(at, m))
    BY CommentBegins, CharactersApart, Zenon
  <2>3. Text(at, m) \notin Spelled
    BY <1>1, <2>1, SpelledInPlace, Zenon
  <2>. QED
    BY <2>1, <2>2, <2>3, Zenon
<1>3. 1 \in Lengths(Alternatives[19], at)
  BY <1>1, AtLeastOne, InLengths, NamedFacts, Patterns, Zenon
<1>4. PICK k : IsFirst(k, at)
  BY <1>1, <1>3, FirstMatchFacts, ZenonT(60)
<1>5. k = 17 \/ k = 18 \/ k = 19
  BY <1>1, <1>4, AlternativeBegins, BeginsWith, ZenonT(60)
<1>6. PICK n : n = MatchLength(Alternatives[k], at)
  OBVIOUS
<1>7. /\ n \in 1 .. Len(source) - at /\ InPattern(Alternatives[k], Text(at, n))
      /\ k # 18 => \A m \in Lengths(Alternatives[k], at) : m =< n
  <2>1. k # 18 => k \in GoodPlaces /\ k # 25
    BY <1>1, <1>5, ZenonT(60)
  <2>. QED
    BY <1>4, <1>6, <2>1, TokenOfPlace, Zenon
<1>8. ASSUME NEW m \in GoodLengths(at)
      PROVE  /\ m \in 1 .. Len(source) - at
             /\ \/ m \in Lengths(Alternatives[17], at) /\ InPattern(HexLiteral, Text(at, m))
                \/ m \in Lengths(Alternatives[19], at) /\ InPattern(DecimalLiteral, Text(at, m))
  <2>1. m \in 1 .. Len(source) - at
    BY GoodLengthsAre, Zenon
  <2>2. PICK j \in GoodPlaces : InPattern(Alternatives[j], Text(at, m))
    BY <1>2, <2>1, GoodLengthsAre, Zenon
  <2>3. j = 17 \/ j = 19
    BY <1>1, <1>2, <2>1, <2>2, Zenon
  <2>4. CASE j = 17
    BY <1>1, <2>1, <2>2, <2>4, InLengths, NamedFacts, ZenonT(60)
  <2>5. CASE j = 19
    BY <1>1, <2>1, <2>2, <2>5, InLengths, NamedFacts, ZenonT(60)
  <2>. QED
    BY <2>3, <2>4, <2>5, Zenon
<1>9. k # 18 => n \in GoodLengths(at)
  BY <1>1, <1>5, <1>7, GoodLengthsAre, ZenonT(60)
<1>10. Announced(at) => /\ 2 \in 1 .. Len(source) - at /\ source[at + 2] = "x"
                        /\ Text(at, 2) = <<"0", "x">> /\ Boundary(at + 2)
  <2>1. source[at + 1] # "/"
    BY CharactersApart, Zenon
  <2>. QED
    BY <2>1, AnnouncedFacts, Zenon
<1>11. CASE k = 17
  <2>1. /\ n > 2 /\ source[at + 2] = "x"
        /\ at + 2 # Len(source) /\ source[at + 2 + 1] \in WordCharacters
    <3>1. InPattern(HexLiteral, Text(at, n))
      BY <1>7, <1>11, NamedFacts, Zenon
    <3>. QED
      BY <1>7, <3>1, HexAndDecimal, Zenon
  <2>2. ~ Announced(at)
    BY <1>10, <2>1, Zenon DEF Boundary
  <2>3. \A m \in GoodLengths(at) : m =< n
    <3>. SUFFICES ASSUME NEW m \in GoodLengths(at) PROVE m =< n
      OBVIOUS
    <3>1. m \in Lengths(Alternatives[17], at) \/ m = 1
      BY <1>8, <2>1, HexAndDecimal, Zenon
    <3>2. 1 =< n
      BY <1>7
    <3>3. \A q \in Lengths(Alternatives[17], at) : q =< n
      BY <1>1, <1>7, <1>11, Zenon
    <3>. QED
      BY <3>1, <3>2, <3>3, Zenon
  <2>4. \A j \in GoodPlaces : InPattern(Alternatives[j], Text(at, n)) => j = k \/ Alternatives[j] \in Spelled
    <3>1. ~ InPattern(DecimalLiteral, Text(at, n))
      <4>1. n # 1
        BY <2>1
      <4>. QED
        BY <1>7, <2>1, <4>1, HexAndDecimal, Zenon
    <3>. QED
      BY <1>1, <1>2, <1>7, <1>11, <3>1, NamedFacts, Zenon
  <2>5. k \in {1, 17, 19, 20, 25, 28, 29}
    BY <1>11
  <2>6. GoodType(Text(at, n)) = Alternatives[k]
    BY <1>2, <1>7, <2>4, <2>5, OneType, Zenon
  <2>. QED
    BY <1>1, <1>4, <1>6, <1>9, <1>11, <2>2, <2>3, <2>6, GoodDecision, Zenon
<1>12. CASE k = 18
  <2>1. PICK m : m \in Lengths(Alternatives[18], at)
    BY <1>4, <1>12 DEF IsFirst
  <2>2. /\ m \in 1 .. Len(source) - at /\ InPattern(HexIncomplete, Text(at, m))
        /\ Boundary(at + m)
    <3>1. Alternatives[18] = HexIncomplete /\ HexIncomplete \in Bounded
      BY NamedFacts, Zenon DEF Bounded
    <3>2. m \in Lengths(HexIncomplete, at)
      BY <2>1, <3>1, Zenon
    <3>. QED
      BY <3>1, <3>2, LengthsAre
  <2>3. Text(at, m) = <<"0", "x">>
    BY <2>2, Patterns, Zenon
  <2>4. m = 2
    <3>1. m \in 0 .. Len(source) - at
      BY <2>2
    <3>2. Len(Text(at, m)) = m
      BY <3>1, TextFacts, Zenon
    <3>. QED
      BY <2>3, <3>2
  <2>5. at + 2 =< Len(source)
    BY <2>2, <2>4
  <2>6. Announced(at)
    BY <2>2, <2>3, <2>4, <2>5, Zenon DEF Announced
  <2>. QED
    BY <1>1, <1>4, <1>12, <2>6, ErrorDecision, Zenon
<1>13. CASE k = 19
  <2>1. Lengths(Alternatives[17], at) = {} /\ Lengths(Alternatives[18], at) = {}
    BY <1>1, <1>4, <1>13, Zenon DEF IsFirst
  <2>2. ~ Announced(at)
    <3>. SUFFICES ASSUME Announced(at) PROVE FALSE
      OBVIOUS
    <3>1. /\ 2 \in 1 .. Len(source) - at /\ InPattern(HexIncomplete, Text(at, 2)) /\ Boundary(at + 2)
      BY <1>10, Patterns, Zenon
    <3>2. 2 \in Lengths(HexIncomplete, at)
      BY <3>1, LengthsAre
    <3>. QED
      BY <2>1, <3>2, NamedFacts, Zenon
  <2>3. \A m \in GoodLengths(at) : m =< n
    BY <1>5, <1>7, <1>8, <1>13, <2>1, Zenon
  <2>4. \A j \in GoodPlaces : InPattern(Alternatives[j], Text(at, n)) => j = k \/ Alternatives[j] \in Spelled
    <3>1. ~ InPattern(Alternatives[17], Text(at, n))
      BY <1>1, <1>7, <2>1, InLengths, Zenon
    <3>. QED
      BY <1>1, <1>2, <1>7, <1>13, <3>1, ZenonT(60)
  <2>5. k \in {1, 17, 19, 20, 25, 28, 29}
    BY <1>13
  <2>6. GoodType(Text(at, n)) = Alternatives[k]
    BY <1>2, <1>7, <2>4, <2>5, OneType, Zenon
  <2>. QED
    BY <1>1, <1>4, <1>6, <1>9, <1>13, <2>2, <2>3, <2>6, GoodDecision, Zenon
<1>. QED
  BY <1>5, <1>11, <1>12, <1>13

-----------------------------------------------------------------------------
(* Literals in quotes *)

\* The places B of a word of N characters, where units of the lengths step begin and the last ends.
Units(B, N, step) ==
  /\ B \in SUBSET (1 .. N + 1) /\ 1 \in B
  /\ \A b \in B : b =< N => b + step[b] \in B

\* A word that is cut into units has places where they begin.
LEMMA AllUnitsFacts ==
  ASSUME NEW w \in Seq(STRING), NEW units, AllUnits(w, units)
  PROVE  \E B : /\ Units(B, Len(w), [k \in 1 .. Len(w) |-> IF w[k] = "\\" THEN 2 ELSE 1])
                /\ \A b \in B : b =< Len(w) /\ w[b] # "\\" => SubSeq(w, b, b) \in units
<1>. DEFINE N == Len(w)
            n(k) == IF w[k] = "\\" THEN 2 ELSE 1
            unit(k) == k + n(k) - 1 =< N /\ SubSeq(w, k, k + n(k) - 1) \in units
            Fun(f) == f = [k \in 1 .. N + 1 |-> IF k > N THEN TRUE ELSE unit(k) /\ f[k + n(k)]]
            Cut(k, B) == /\ B \in SUBSET (1 .. N + 1) /\ k \in B
                         /\ \A b \in B : b =< N => unit(b) /\ b + n(b) \in B
            g == [k \in 1 .. N + 1 |-> \E B : Cut(k, B)]
            from == CHOOSE f : Fun(f)
<1>1. N \in Nat /\ \A k \in 1 .. N : n(k) \in {1, 2} /\ (unit(k) => k + n(k) \in 1 .. N + 1)
  OBVIOUS
<1>2. Fun(g)
  <2>1. ASSUME NEW k \in 1 .. N + 1
        PROVE  (\E B : Cut(k, B)) <=> (IF k > N THEN TRUE ELSE unit(k) /\ g[k + n(k)])
    <3>1. CASE k > N
      <4>1. k \in {k} /\ {k} \in SUBSET (1 .. N + 1) /\ \A b \in {k} : ~ b =< N
        BY <1>1, <3>1
      <4>2. Cut(k, {k})
        <5>. HIDE DEF N, unit, n
        <5>. QED
          BY <4>1, Zenon
      <4>. QED
        BY <3>1, <4>2, Zenon
    <3>2. CASE ~ k > N
      <4>1. k \in 1 .. N /\ k =< N
        BY <1>1, <3>2
      <4>2. ASSUME NEW B, Cut(k, B)
            PROVE  unit(k) /\ g[k + n(k)]
        <5>1. unit(k) /\ k + n(k) \in B
          <6>. HIDE DEF N, unit, n
          <6>. QED
            BY <4>1, <4>2, Zenon
        <5>2. Cut(k + n(k), B) /\ k + n(k) \in 1 .. N + 1
          <6>. HIDE DEF N, unit, n
          <6>. QED
            BY <4>2, <5>1, Zenon
        <5>. HIDE DEF N, unit, n, Cut
        <5>. QED
          BY <5>1, <5>2, Zenon
      <4>3. ASSUME unit(k), g[k + n(k)]
            PROVE  \E B : Cut(k, B)
        <5>1. k + n(k) \in 1 .. N + 1
          <6>. HIDE DEF N, unit, n, Cut, g
          <6>. QED
            BY <1>1, <4>1, <4>3, Zenon
        <5>2. PICK B : Cut(k + n(k), B)
          <6>. HIDE DEF N, unit, n, Cut
          <6>. QED
            BY <4>3, <5>1, Zenon
        <5>3. Cut(k, B \cup {k})
          <6>. HIDE DEF N, unit, n, g
          <6>. QED
            BY <4>3, <5>2
        <5>. HIDE DEF Cut
        <5>. QED
          BY <5>3
      <4>. HIDE DEF N, unit, n, Cut, g
      <4>. QED
        BY <3>2, <4>2, <4>3, Zenon
    <3>. QED
      BY <3>1, <3>2, Zenon
  <2>2. DOMAIN g = 1 .. N + 1 /\ \A k \in 1 .. N + 1 : g[k] = (\E B : Cut(k, B))
    <3>. HIDE DEF Cut
    <3>. QED
      BY Zenon
  <2>3. \A k \in 1 .. N + 1 : (\E B : Cut(k, B)) = (IF k > N THEN TRUE ELSE unit(k) /\ g[k + n(k)])
    <3>. HIDE DEF Cut, unit, n, N, g
    <3>. QED
      BY <2>1, Zenon
  <2>. HIDE DEF Cut, unit, n, N
  <2>. QED
    BY <2>3, Zenon
<1>3. Fun(from)
  <2>. HIDE DEF Fun, g
  <2>. QED
    BY <1>2, Zenon
<1>4. from[1]
  BY Zenon DEF AllUnits
<1>5. PICK f : f = from
  OBVIOUS
<1>6. \A k \in 1 .. N + 1 : f[k] = (IF k > N THEN TRUE ELSE unit(k) /\ f[k + n(k)])
  <2>1. Fun(f)
    <3>. HIDE DEF Fun, from
    <3>. QED
      BY <1>3, <1>5, Zenon
  <2>. HIDE DEF unit, n, from, N
  <2>. QED
    BY <2>1, Zenon
<1>. DEFINE B == {b \in 1 .. N + 1 : f[b]}
<1>7. B \in SUBSET (1 .. N + 1) /\ 1 \in B
  <2>. HIDE DEF from
  <2>. QED
    BY <1>1, <1>4, <1>5
<1>8. ASSUME NEW b \in B, b =< N
      PROVE  b \in 1 .. N /\ unit(b) /\ b + n(b) \in B
  <2>1. b \in 1 .. N + 1 /\ ~ b > N /\ b \in 1 .. N
    BY <1>1, <1>8
  <2>2. unit(b) /\ f[b + n(b)]
    <3>1. f[b]
      OBVIOUS
    <3>. HIDE DEF unit, n, from, N
    <3>. QED
      BY <1>6, <2>1, <3>1, Zenon
  <2>3. b + n(b) \in 1 .. N + 1
    <3>. HIDE DEF unit, n, from, N
    <3>. QED
      BY <1>1, <2>1, <2>2, Zenon
  <2>. HIDE DEF unit, n, from, N
  <2>. QED
    BY <2>1, <2>2, <2>3
<1>9. ASSUME NEW b \in B, b =< N, w[b] # "\\"
      PROVE  SubSeq(w, b, b) \in units
  <2>1. n(b) = 1 /\ b \in 1 .. N /\ unit(b)
    <3>. HIDE DEF B, unit
    <3>. QED
      BY <1>8, <1>9
  <2>2. b + n(b) - 1 = b
    BY <2>1
  <2>. QED
    BY <2>1, <2>2
<1>10. Units(B, N, [k \in 1 .. N |-> n(k)])
  <2>1. \A b \in B : b =< N => b + [k \in 1 .. N |-> n(k)][b] \in B
    <3>. HIDE DEF B, unit, n, N
    <3>. QED
      BY <1>8
  <2>. HIDE DEF B, n, N
  <2>. QED
    BY <1>7, <2>1 DEF Units
<1>. QED
  BY <1>9, <1>10

\* Places and lengths are numbers.
LEMMA LengthIsNat ==
  ASSUME source \in Seq(STRING), NEW at \in 0 .. Len(source)
  PROVE  at \in Nat /\ Len(source) \in Nat /\ \A m \in 1 .. Len(source) - at : m \in Nat
OBVIOUS

\* What a backslash begins has two characters.
Steps(at, N) == [k \in 1 .. N |-> IF source[at + 1 + k] = "\\" THEN 2 ELSE 1]

\* A string ends with a quote, and no unit in it begins with one.
LEMMA StringUnits ==
  ASSUME source \in Seq(STRING), NEW at \in 0 .. Len(source), NEW m \in 1 .. Len(source) - at,
         InPattern(StringLiteral, Text(at, m))
  PROVE  /\ m >= 2 /\ source[at + m] = "\""
         /\ \E B : /\ Units(B, m - 2, Steps(at, m - 2))
                   /\ \A b \in B : b =< m - 2 => source[at + 1 + b] # "\""
<1>1. PICK w : w = Text(at, m) /\ Len(w) = m /\ w \in Seq(STRING) /\ \A q \in 1 .. m : w[q] = source[at + q]
  <2>1. m \in 0 .. Len(source) - at
    OBVIOUS
  <2>. QED
    BY <2>1, TextFacts
<1>2. Quoted(w, "\"") /\ AllUnits(Inner(w), ValidUnits)
  BY <1>1, Patterns, Zenon
<1>3. m >= 2 /\ w[m] = "\"" /\ m \in 1 .. m
  <2>1. Len(w) > 1 /\ w[Len(w)] = "\""
    BY <1>2, Zenon DEF Quoted
  <2>2. m > 1 /\ w[m] = "\""
    BY <1>1, <2>1, Zenon
  <2>3. m >= 2 /\ m \in 1 .. m
    <3>1. m > 1
      BY <2>2
    <3>. QED
      BY <3>1
  <2>. QED
    BY <2>2, <2>3
<1>4. PICK v : v = Inner(w)
  OBVIOUS
<1>5. v \in Seq(STRING) /\ Len(v) = m - 2 /\ \A q \in 1 .. m - 2 : v[q] = source[at + 1 + q]
  <2>1. SubSeq(w, 2, m - 1) \in Seq(STRING) /\ Len(SubSeq(w, 2, m - 1)) = m - 2
        /\ \A q \in 1 .. m - 2 : SubSeq(w, 2, m - 1)[q] = w[1 + q]
    <3>1. w \in Seq(STRING) /\ Len(w) = m /\ m \in Nat /\ m >= 2
      BY <1>1, <1>3, LengthIsNat, Zenon
    <3>. QED
      BY ONLY <3>1
  <2>2. \A q \in 1 .. m - 2 : w[1 + q] = source[at + 1 + q]
    <3>1. \A q \in 1 .. m - 2 : 1 + q \in 1 .. m /\ at + (1 + q) = at + 1 + q
      OBVIOUS
    <3>. QED
      BY <1>1, <3>1, Zenon
  <2>3. v = SubSeq(w, 2, m - 1)
    BY <1>1, <1>4 DEF Inner
  <2>. QED
    BY <2>1, <2>2, <2>3, Zenon
<1>6. PICK B : /\ Units(B, Len(v), [k \in 1 .. Len(v) |-> IF v[k] = "\\" THEN 2 ELSE 1])
               /\ \A b \in B : b =< Len(v) /\ v[b] # "\\" => SubSeq(v, b, b) \in ValidUnits
  BY <1>2, <1>4, <1>5, AllUnitsFacts, Zenon
<1>7. [k \in 1 .. Len(v) |-> IF v[k] = "\\" THEN 2 ELSE 1] = Steps(at, m - 2)
  BY <1>5, Zenon DEF Steps
<1>8. ASSUME NEW b \in B, b =< m - 2, source[at + 1 + b] = "\""
      PROVE  FALSE
  <2>1. b \in 1 .. m - 2
    <3>1. b \in 1 .. Len(v) + 1
      BY <1>6, Zenon DEF Units
    <3>2. m \in Nat /\ m >= 2 /\ Len(v) = m - 2 /\ b =< m - 2
      BY <1>3, <1>5, <1>8, LengthIsNat, Zenon
    <3>. QED
      BY ONLY <3>1, <3>2
  <2>2. v[b] = "\""
    BY <1>5, <1>8, <2>1, Zenon
  <2>3. SubSeq(v, b, b) \in ValidUnits
    BY <1>5, <1>6, <1>8, <2>2
  <2>4. Len(SubSeq(v, b, b)) = 1 /\ SubSeq(v, b, b)[1] = v[b]
    BY <1>5, <2>1
  <2>5. PICK u : u = SubSeq(v, b, b) /\ u \in ValidUnits /\ Len(u) = 1 /\ u[1] = v[b]
    BY <2>3, <2>4, Zenon
  <2>6. \E c \in Plain : u = <<c>>
    <3>1. (\E c \in Plain : u = <<c>>) \/ \E c : u = <<"\\", c>>
      BY <2>5, Zenon DEF ValidUnits
    <3>2. \A c : Len(<<"\\", c>>) = 2
      OBVIOUS
    <3>3. Len(u) # 2
      BY <2>5
    <3>. QED
      BY <3>1, <3>2, <3>3, Zenon
  <2>7. "\"" \in Plain
    <3>1. PICK c \in Plain : u = <<c>>
      BY <2>6
    <3>2. u[1] = c
      BY <3>1
    <3>. QED
      BY <2>2, <2>5, <3>1, <3>2, Zenon
  <2>8. "\"" \notin Signs /\ "\"" # " "
    BY DEF Signs
  <2>9. "\"" \notin WordCharacters
    BY CharactersApart, Zenon DEF WordCharacters
  <2>. QED
    BY <2>7, <2>8, <2>9, Zenon DEF Plain
<1>. QED
  BY <1>1, <1>3, <1>5, <1>6, <1>7, <1>8, Zenon

\* Only one string begins at a place.
LEMMA OneString ==
  ASSUME source \in Seq(STRING), NEW at \in 0 .. Len(source), NEW m \in 1 .. Len(source) - at,
         NEW n \in 1 .. Len(source) - at, m < n,
         InPattern(StringLiteral, Text(at, m)), InPattern(StringLiteral, Text(at, n))
  PROVE  FALSE
<1>1. m >= 2 /\ source[at + m] = "\"" /\ m - 2 \in Nat /\ n - 2 \in Nat /\ m - 2 < n - 2
  <2>1. m >= 2 /\ n >= 2 /\ source[at + m] = "\""
    BY StringUnits, Zenon
  <2>2. m >= 2 /\ n >= 2
    BY <2>1, Zenon
  <2>3. m - 2 \in Nat /\ n - 2 \in Nat /\ m - 2 < n - 2
    <3>1. m \in Nat /\ n \in Nat
      OBVIOUS
    <3>. QED
      BY <2>2, <3>1
  <2>. QED
    BY <2>1, <2>3
<1>2. PICK M, N : M = m - 2 /\ N = n - 2 /\ M \in Nat /\ N \in Nat /\ M < N
  BY <1>1
<1>3. PICK B : Units(B, M, Steps(at, M))
  BY <1>2, StringUnits, Zenon
<1>4. PICK C : Units(C, N, Steps(at, N)) /\ \A b \in C : b =< N => source[at + 1 + b] # "\""
  BY <1>2, StringUnits, ZenonT(60)
<1>5. ASSUME NEW b \in B, b \in C, b =< M
      PROVE  \E e \in B : e \in C /\ e > b
  <2>1. b \in 1 .. M /\ b \in 1 .. N
    BY <1>2, <1>3, <1>5 DEF Units
  <2>2. PICK s \in {1, 2} : Steps(at, M)[b] = s /\ Steps(at, N)[b] = s
    BY <2>1 DEF Steps
  <2>3. b + s \in B /\ b + s \in C
    <3>1. b =< N
      BY <1>2, <2>1
    <3>2. b + Steps(at, M)[b] \in B /\ b + Steps(at, N)[b] \in C
      BY <1>3, <1>4, <1>5, <3>1, Zenon DEF Units
    <3>. QED
      BY <2>2, <3>2, Zenon
  <2>4. b + s > b
    BY <2>1
  <2>. QED
    BY <2>3, <2>4, Zenon
<1>6. PICK S : S = B \cap C
  OBVIOUS
<1>7. S \subseteq 0 .. M + 1 /\ 1 \in S
  <2>1. S \subseteq 1 .. M + 1 /\ 1 \in S
    BY <1>3, <1>4, <1>6, Zenon DEF Units
  <2>. QED
    BY <1>2, <2>1
<1>8. PICK e : e \in S /\ \A x \in S : e >= x
  <2>1. M + 1 \in Nat
    BY <1>2
  <2>. QED
    BY <1>7, <2>1, MaxFacts
<1>9. e = M + 1
  <2>1. ~ e =< M
    <3>. SUFFICES ASSUME e =< M PROVE FALSE
      OBVIOUS
    <3>1. PICK x \in S : x > e
      BY <1>5, <1>6, <1>8
    <3>2. e >= x /\ e \in 0 .. M + 1 /\ x \in 0 .. M + 1
      BY <1>7, <1>8
    <3>. QED
      BY <1>2, <3>1, <3>2
  <2>2. e \in 0 .. M + 1
    BY <1>7, <1>8
  <2>. QED
    BY <1>2, <2>1, <2>2
<1>10. e \in C /\ e =< N /\ at + 1 + e = at + m
  BY <1>2, <1>6, <1>8, <1>9
<1>. QED
  BY <1>1, <1>4, <1>10

\* A literal in quotes of either kind is the longest good token, if it is one at all.
LEMMA AtQuotes ==
  ASSUME source \in Seq(STRING), NEW at \in 0 .. Len(source), at # Len(source), source[at + 1] \in {"'", "\""}
  PROVE  Decided(at)
<1>1. PICK g \in {20, 25} : (g = 20 /\ source[at + 1] = "'") \/ (g = 25 /\ source[at + 1] = "\"")
  BY Zenon
<1>0. g \in {20, 25}
  BY <1>1
<1>2. /\ g \in GoodPlaces /\ g \in 1 .. 61 /\ g \notin 2 .. 16 /\ g # 18
      /\ g \in {1, 17, 19, 20, 25, 28, 29}
      /\ \A k \in GoodPlaces : k \in 1 .. 61
      /\ \A k \in 2 .. 16 \cup 32 .. 61 : k \in 1 .. 61 /\ k \notin 20 .. 24 /\ k \notin 25 .. 27
  BY ONLY <1>0 DEF GoodPlaces
<1>3. \A k \in 1 .. 61 : Begins(k, source[at + 1]) => k = g \/ k \in ErrorPlaces
  <2>1. \A k \in 20 .. 24 : k = 20 \/ k \in ErrorPlaces
    BY ONLY DEF ErrorPlaces
  <2>2. \A k \in 25 .. 27 : k = 25 \/ k \in ErrorPlaces
    BY ONLY DEF ErrorPlaces
  <2>. QED
    BY <1>1, <2>1, <2>2, BeginsWith, ZenonT(60)
<1>4. \A k \in GoodPlaces : k \notin ErrorPlaces
  BY ONLY DEF GoodPlaces, ErrorPlaces
<1>5. ASSUME NEW m \in 1 .. Len(source) - at
      PROVE  /\ \A k \in GoodPlaces : InPattern(Alternatives[k], Text(at, m)) => k = g
             /\ ~ InPattern(MultilineComment, Text(at, m))
             /\ Text(at, m) \notin Spelled
  <2>1. \A k \in GoodPlaces : InPattern(Alternatives[k], Text(at, m)) => k = g
    BY <1>2, <1>3, <1>4, AlternativeBegins, ZenonT(60)
  <2>2. ~ InPattern(MultilineComment, Text(at, m))
    <3>1. source[at + 1] # "/"
      BY <1>1
    <3>. QED
      BY <3>1, CommentBegins, Zenon
  <2>3. Text(at, m) \notin Spelled
    <3>1. \A k \in 2 .. 16 \cup 32 .. 61 : k \in GoodPlaces /\ k # g
      BY ONLY <1>0 DEF GoodPlaces
    <3>. QED
      BY <2>1, <3>1, SpelledInPlace, ZenonT(60)
  <2>. QED
    BY <2>1, <2>2, <2>3, Zenon
<1>6. \A m : m \in GoodLengths(at) <=> m \in Lengths(Alternatives[g], at)
  BY <1>2, <1>5, GoodLengthsAre, InLengths, ZenonT(60)
<1>7. ~ Announced(at)
  <2>1. source[at + 1] # "/" /\ source[at + 1] # "0"
    BY <1>1
  <2>. QED
    BY <2>1, AnnouncedFacts, Zenon
<1>8. CASE IsFirst(g, at)
  <2>1. PICK n : n = MatchLength(Alternatives[g], at)
    OBVIOUS
  <2>2. /\ n \in 1 .. Len(source) - at /\ InPattern(Alternatives[g], Text(at, n))
        /\ g # 25 => \A m \in Lengths(Alternatives[g], at) : m =< n
    BY <1>2, <1>8, <2>1, TokenOfPlace, ZenonT(60)
  <2>3. n \in GoodLengths(at)
    BY <1>2, <2>2, GoodLengthsAre, Zenon
  <2>4. ASSUME NEW m \in GoodLengths(at), g = 25
        PROVE  m =< n
    <3>1. m \in Lengths(Alternatives[g], at)
      BY <1>6
    <3>2. m \in 1 .. Len(source) - at /\ InPattern(StringLiteral, Text(at, m))
      BY <1>2, <2>4, <3>1, InLengths, NamedFacts, ZenonT(60)
    <3>3. ~ n < m
      BY <2>2, <2>4, <3>2, OneString, NamedFacts, Zenon
    <3>4. m \in Nat /\ n \in Nat
      BY <2>2, <3>2, LengthIsNat, Zenon
    <3>. QED
      BY ONLY <3>3, <3>4
  <2>5. \A m \in GoodLengths(at) : m =< n
    BY <1>6, <2>2, <2>4, Zenon
  <2>6. GoodType(Text(at, n)) = Alternatives[g]
    <3>1. g \in {1, 17, 19, 20, 25, 28, 29}
      BY <1>2, Zenon
    <3>2. \A j \in GoodPlaces : InPattern(Alternatives[j], Text(at, n)) => j = g \/ Alternatives[j] \in Spelled
      BY <1>5, <2>2, Zenon
    <3>. QED
      BY <1>5, <2>2, <3>1, <3>2, OneType, Zenon
  <2>. QED
    BY <1>2, <1>7, <1>8, <2>1, <2>3, <2>5, <2>6, GoodDecision, ZenonT(60)
<1>9. CASE ~ IsFirst(g, at)
  <2>1. CASE \E k : IsFirst(k, at)
    <3>1. PICK k : IsFirst(k, at)
      BY <2>1
    <3>2. k \in 1 .. 61 /\ k \in ErrorPlaces
      BY <1>3, <1>9, <3>1, AlternativeBegins, Zenon
    <3>3. (g = 20 /\ k \in 20 .. 24) \/ (g = 25 /\ k \in 25 .. 27)
      <4>1. k \in 1 .. 61 /\ Begins(k, source[at + 1])
        BY <3>1, AlternativeBegins, Zenon
      <4>2. /\ source[at + 1] = "'" => k \in 20 .. 24
            /\ source[at + 1] = "\"" => k \in 25 .. 27
        <5>1. PICK c : c = source[at + 1]
          OBVIOUS
        <5>2. /\ c = "'" => k \in 20 .. 24
              /\ c = "\"" => k \in 25 .. 27
          <6>1. k \in 1 .. 61 /\ Begins(k, c)
            BY <4>1, <5>1, Zenon
          <6>. QED
            BY ONLY <6>1, BeginsWith, ZenonT(60)
        <5>. QED
          BY <5>1, <5>2, Zenon
      <4>. QED
        BY <1>1, <4>2, Zenon
    <3>4. g \in 1 .. k - 1
      <4>1. k # g
        BY <1>9, <3>1
      <4>. QED
        BY ONLY <3>3, <4>1
    <3>5. Lengths(Alternatives[g], at) = {}
      BY <3>1, <3>4, Zenon DEF IsFirst
    <3>6. GoodLengths(at) = {}
      BY <1>6, <3>5, Zenon
    <3>. QED
      BY <3>1, <3>2, <3>6, ErrorDecision, Zenon
  <2>2. CASE \A k \in 1 .. 61 : Lengths(Alternatives[k], at) = {}
    <3>1. GoodLengths(at) = {}
      BY <1>2, <1>6, <2>2, ZenonT(60)
    <3>. QED
      BY <2>2, <3>1, UnknownDecision, Zenon
  <2>. QED
    BY <2>1, <2>2, FirstMatchFacts, Zenon
<1>. QED
  BY <1>8, <1>9

\* Operators are of two characters or one, and the second is not that of a comment.
LEMMA SignWord ==
  ASSUME source \in Seq(STRING), NEW at \in 0 .. Len(source), NEW m \in 1 .. Len(source) - at,
         NEW j \in 32 .. 61, InPattern(Alternatives[j], Text(at, m))
  PROVE  /\ j \in 32 .. 44 => m = 2 /\ source[at + 2] # "/" /\ source[at + 2] # "*"
         /\ j \in 45 .. 61 => m = 1
<1>1. PICK w : w = Text(at, m) /\ Len(w) = m /\ \A q \in 1 .. m : w[q] = source[at + q]
  <2>1. m \in 0 .. Len(source) - at
    OBVIOUS
  <2>. QED
    BY <2>1, TextFacts
<1>2. w = Alternatives[j]
  <2>1. Alternatives[j] \in Spelled
    BY SpelledPlaces
  <2>. QED
    BY <1>1, <2>1, Patterns, ZenonT(60)
<1>3. CASE j \in 32 .. 44
  <2>1. PICK e \in 1 .. 13 : j = 31 + e
    BY <1>3
  <2>2. Alternatives[j] = LongOperators[e]
    BY <2>1, AlternativeFacts, Zenon
  <2>3. PICK c \in LongFirst : \E d \in {"=", "+", "-", "&", "|"} : Alternatives[j] = <<c, d>>
    BY <2>2, OperatorFacts, Zenon
  <2>4. PICK d \in {"=", "+", "-", "&", "|"} : w = <<c, d>>
    BY <1>2, <2>3, Zenon
  <2>5. Len(w) = 2 /\ w[2] = d /\ 2 \in 1 .. 2
    BY <2>4
  <2>6. m = 2 /\ source[at + 2] = d
    BY <1>1, <2>5, Zenon
  <2>7. d # "/" /\ d # "*" /\ j \notin 45 .. 61
    BY <1>3
  <2>. QED
    BY <2>6, <2>7, Zenon
<1>4. CASE j \in 45 .. 61
  <2>1. PICK e \in 1 .. 17 : j = 44 + e
    BY <1>4
  <2>2. Alternatives[j] = ShortOperators[e]
    BY <2>1, AlternativeFacts, Zenon
  <2>3. PICK c \in ShortFirst : w = <<c>>
    BY <1>2, <2>2, OperatorFacts, Zenon
  <2>4. Len(w) = 1
    BY <2>3
  <2>5. j \notin 32 .. 44
    BY <1>4
  <2>. QED
    BY <1>1, <2>4, <2>5, Zenon
<1>5. j \in 32 .. 44 \/ j \in 45 .. 61
  OBVIOUS
<1>. QED
  BY <1>3, <1>4, <1>5, Zenon

\* What comments say of the source.
Opened(at, d) == source[at + 1] = "/" /\ source[at + 2] = d
Closed(at, m) == source[at + m - 1] = "*" /\ source[at + m] = "/"

\* The patterns of comments, by the characters of the source.
LEMMA CommentFacts ==
  ASSUME source \in Seq(STRING), NEW at \in 0 .. Len(source), NEW m \in 1 .. Len(source) - at
  PROVE  /\ InPattern(LineComment, Text(at, m)) => m > 1 /\ Opened(at, "/")
         /\ InPattern(CommentUnterminated, Text(at, m)) <=> m > 1 /\ Opened(at, "*")
         /\ InPattern(MultilineComment, Text(at, m)) <=> m > 3 /\ Opened(at, "*") /\ Closed(at, m)
         /\ ClosesOnlyAtItsEnd(Text(at, m)) <=> \A q \in 3 .. m - 2 : ~ Closed(at, q + 1)
<1>1. PICK w : w = Text(at, m) /\ Len(w) = m /\ \A q \in 1 .. m : w[q] = source[at + q]
  <2>1. m \in 0 .. Len(source) - at
    OBVIOUS
  <2>. QED
    BY <2>1, TextFacts
<1>2. m \in Nat /\ at \in Nat
  OBVIOUS
<1>3. ASSUME NEW d
      PROVE  Opens(w, "/", d) <=> m > 1 /\ Opened(at, d)
  <2>1. CASE m > 1
    <3>1. 1 \in 1 .. m /\ 2 \in 1 .. m
      BY ONLY <1>2, <2>1
    <3>. QED
      BY <1>1, <2>1, <3>1, Zenon DEF Opens, Opened
  <2>2. CASE ~ m > 1
    BY <1>1, <2>2, Zenon DEF Opens
  <2>. QED
    BY <2>1, <2>2
<1>4. (m > 3 /\ w[m - 1] = "*" /\ w[m] = "/") <=> (m > 3 /\ Closed(at, m))
  <2>1. CASE m > 3
    <3>1. m - 1 \in 1 .. m /\ m \in 1 .. m /\ at + (m - 1) = at + m - 1
      BY ONLY <1>2, <2>1
    <3>. QED
      BY <1>1, <3>1, Zenon DEF Closed
  <2>. QED
    BY <2>1, Zenon
<1>5. ClosesOnlyAtItsEnd(w) <=> \A q \in 3 .. m - 2 : ~ Closed(at, q + 1)
  <2>1. ASSUME NEW q \in 3 .. m - 2
        PROVE  (w[q] = "*" /\ w[q + 1] = "/") <=> Closed(at, q + 1)
    <3>1. q \in 1 .. m /\ q + 1 \in 1 .. m /\ at + (q + 1) - 1 = at + q
      BY ONLY <1>2
    <3>. QED
      BY <1>1, <3>1, Zenon DEF Closed
  <2>. QED
    BY <1>1, <2>1, Zenon DEF ClosesOnlyAtItsEnd
<1>6. m > 3 => m > 1
  BY <1>2
<1>7. InPattern(LineComment, w) => m > 1 /\ Opened(at, "/")
  BY <1>3, Patterns, Zenon
<1>8. InPattern(CommentUnterminated, w) <=> m > 1 /\ Opened(at, "*")
  BY <1>3, Patterns, Zenon
<1>9. InPattern(MultilineComment, w) <=> m > 3 /\ Opened(at, "*") /\ Closed(at, m)
  <2>1. InPattern(MultilineComment, w) <=> Opens(w, "/", "*") /\ m > 3 /\ w[m - 1] = "*" /\ w[m] = "/"
    BY <1>1, Patterns, ZenonT(60)
  <2>. QED
    BY <1>3, <1>4, <1>6, <2>1, Zenon
<1>. QED
  BY <1>1, <1>5, <1>7, <1>8, <1>9, Zenon

\* A comment that begins with a mark other than the one that stands there.
LEMMA OpenedOnce == ASSUME NEW at, Opened(at, "/"), Opened(at, "*") PROVE FALSE
BY DEF Opened

\* A place where only operators and comments begin.
AtSign(at) == source[at + 1] \notin Space \cup Letters \cup Digits \cup {"'", "\""}

\* The lengths of the good words there.
LEMMA SignLengths ==
  ASSUME source \in Seq(STRING), NEW at \in 0 .. Len(source), AtSign(at), NEW m
  PROVE  m \in GoodLengths(at) <=>
           \/ m \in Lengths(Alternatives[29], at)
           \/ m \in Lengths(Alternatives[30], at) /\ \A q \in 3 .. m - 2 : ~ Closed(at, q + 1)
           \/ \E j \in 32 .. 61 : m \in Lengths(Alternatives[j], at)
<1>1. /\ 29 \in GoodPlaces /\ 29 \in 1 .. 61 /\ 29 \notin 2 .. 16 /\ 29 # 18
      /\ 30 \in 1 .. 61 /\ 30 \notin 2 .. 16 /\ 30 # 18
      /\ \A j \in 32 .. 61 : j \in GoodPlaces /\ j \in 1 .. 61 /\ j \notin 2 .. 16 /\ j # 18
      /\ \A j \in GoodPlaces : j \in 1 .. 61
      /\ \A j \in GoodPlaces : j \in 29 .. 61 => j = 29 \/ j \in 32 .. 61
  BY DEF GoodPlaces
<1>2. m \in 1 .. Len(source) - at /\ InPattern(MultilineComment, Text(at, m)) <=> m \in Lengths(Alternatives[30], at)
  BY <1>1, InLengths, NamedFacts, ZenonT(60)
<1>3. m \in 1 .. Len(source) - at =>
        (ClosesOnlyAtItsEnd(Text(at, m)) <=> \A q \in 3 .. m - 2 : ~ Closed(at, q + 1))
  BY CommentFacts, Zenon
<1>4. ASSUME m \in 1 .. Len(source) - at
      PROVE  (\E k \in GoodPlaces : InPattern(Alternatives[k], Text(at, m))) <=>
               \/ m \in Lengths(Alternatives[29], at)
               \/ \E j \in 32 .. 61 : m \in Lengths(Alternatives[j], at)
  <2>1. ASSUME NEW k \in GoodPlaces, InPattern(Alternatives[k], Text(at, m))
        PROVE  \/ m \in Lengths(Alternatives[29], at)
               \/ \E j \in 32 .. 61 : m \in Lengths(Alternatives[j], at)
    <3>1. k \in 1 .. 61 /\ Begins(k, source[at + 1])
      BY <1>1, <1>4, <2>1, AlternativeBegins, Zenon
    <3>2. k \in 29 .. 61
      BY <3>1, BeginsWith, Zenon DEF AtSign
    <3>3. k = 29 \/ k \in 32 .. 61
      BY <1>1, <3>2, Zenon
    <3>4. k \notin 2 .. 16 /\ k # 18
      BY <1>1, <3>3, ZenonT(60)
    <3>5. m \in Lengths(Alternatives[k], at)
      BY <1>4, <2>1, <3>1, <3>4, InLengths, Zenon
    <3>. QED
      BY <3>3, <3>5, Zenon
  <2>2. ASSUME NEW k \in GoodPlaces, k \in 1 .. 61, k \notin 2 .. 16, k # 18, m \in Lengths(Alternatives[k], at)
        PROVE  \E j \in GoodPlaces : InPattern(Alternatives[j], Text(at, m))
    BY <2>2, InLengths, Zenon
  <2>. QED
    BY <1>1, <2>1, <2>2, Zenon
<1>5. m \in Lengths(Alternatives[29], at) => m \in 1 .. Len(source) - at
  BY <1>1, InLengths, Zenon
<1>6. \A j \in 32 .. 61 : m \in Lengths(Alternatives[j], at) => m \in 1 .. Len(source) - at
  BY <1>1, InLengths, Zenon
<1>. QED
  BY <1>2, <1>3, <1>4, <1>5, <1>6, GoodLengthsAre, Zenon

\* The lengths of comments and operators.
LEMMA SignMatches ==
  ASSUME source \in Seq(STRING), NEW at \in 0 .. Len(source), NEW m
  PROVE  /\ m \in Lengths(Alternatives[29], at) => m \in Nat /\ m > 1 /\ Opened(at, "/")
         /\ m \in Lengths(Alternatives[30], at) <=>
              m \in 1 .. Len(source) - at /\ m > 3 /\ Opened(at, "*") /\ Closed(at, m)
         /\ m \in Lengths(Alternatives[31], at) <=>
              m \in 1 .. Len(source) - at /\ m > 1 /\ Opened(at, "*")
         /\ \A j \in 32 .. 44 : m \in Lengths(Alternatives[j], at) =>
              m = 2 /\ ~ Opened(at, "*") /\ ~ Opened(at, "/") /\ Text(at, m) = Alternatives[j]
         /\ \A j \in 45 .. 61 : m \in Lengths(Alternatives[j], at) => m = 1 /\ Text(at, m) = Alternatives[j]
<1>1. /\ 29 \in 1 .. 61 /\ 29 \notin 2 .. 16 /\ 29 # 18
      /\ 30 \in 1 .. 61 /\ 30 \notin 2 .. 16 /\ 30 # 18
      /\ 31 \in 1 .. 61 /\ 31 \notin 2 .. 16 /\ 31 # 18
      /\ \A j \in 32 .. 61 : j \in 1 .. 61 /\ j \notin 2 .. 16 /\ j # 18 /\ j \in 2 .. 16 \cup 32 .. 61
      /\ \A j \in 32 .. 44 : j \in 32 .. 61
      /\ \A j \in 45 .. 61 : j \in 32 .. 61
  OBVIOUS
<1>0. /\ m \in Lengths(Alternatives[29], at) <=> m \in 1 .. Len(source) - at /\ InPattern(LineComment, Text(at, m))
      /\ m \in Lengths(Alternatives[30], at) <=> m \in 1 .. Len(source) - at /\ InPattern(MultilineComment, Text(at, m))
      /\ m \in Lengths(Alternatives[31], at) <=> m \in 1 .. Len(source) - at /\ InPattern(CommentUnterminated, Text(at, m))
  <2>1. ASSUME NEW j \in 1 .. 61, j \notin 2 .. 16, j # 18
        PROVE  m \in Lengths(Alternatives[j], at) <=>
                 m \in 1 .. Len(source) - at /\ InPattern(Alternatives[j], Text(at, m))
    BY <2>1, InLengths, Zenon
  <2>. QED
    BY <1>1, <2>1, NamedFacts, Zenon
<1>2. m \in Lengths(Alternatives[29], at) => m \in Nat /\ m > 1 /\ Opened(at, "/")
  BY <1>0, CommentFacts, LengthIsNat, Zenon
<1>3. m \in Lengths(Alternatives[30], at) <=>
        m \in 1 .. Len(source) - at /\ m > 3 /\ Opened(at, "*") /\ Closed(at, m)
  BY <1>0, CommentFacts, Zenon
<1>4. m \in Lengths(Alternatives[31], at) <=> m \in 1 .. Len(source) - at /\ m > 1 /\ Opened(at, "*")
  BY <1>0, CommentFacts, Zenon
<1>5. ASSUME NEW j \in 32 .. 61, m \in Lengths(Alternatives[j], at)
      PROVE  m \in 1 .. Len(source) - at /\ InPattern(Alternatives[j], Text(at, m)) /\ Text(at, m) = Alternatives[j]
  <2>1. m \in 1 .. Len(source) - at /\ InPattern(Alternatives[j], Text(at, m))
    BY <1>1, <1>5, InLengths, Zenon
  <2>2. Alternatives[j] \in Spelled
    BY SpelledPlaces
  <2>. QED
    BY <2>1, <2>2, Patterns, Zenon
<1>6. ASSUME NEW j \in 32 .. 44, m \in Lengths(Alternatives[j], at)
      PROVE  m = 2 /\ ~ Opened(at, "*") /\ ~ Opened(at, "/") /\ Text(at, m) = Alternatives[j]
  BY <1>1, <1>5, <1>6, SignWord, ZenonT(60) DEF Opened
<1>7. ASSUME NEW j \in 45 .. 61, m \in Lengths(Alternatives[j], at)
      PROVE  m = 1 /\ Text(at, m) = Alternatives[j]
  BY <1>1, <1>5, <1>7, SignWord, ZenonT(60)
<1>. QED
  BY <1>2, <1>3, <1>4, <1>6, <1>7, Zenon

\* What begins a comment of several lines begins nothing else that is good but a slash.
LEMMA AtSigns ==
  ASSUME source \in Seq(STRING), NEW at \in 0 .. Len(source), at # Len(source), AtSign(at)
  PROVE  Decided(at)
<1>1. /\ 29 \in GoodPlaces /\ 31 \in ErrorPlaces
      /\ 29 \in {1, 17, 19, 20, 25, 28, 29}
      /\ \A j \in 32 .. 61 : j \in GoodPlaces /\ j \in 1 .. 61
      /\ \A j \in 32 .. 61 : j # 25 /\ 29 \in 1 .. j - 1 /\ 30 \in 1 .. j - 1 /\ 31 \in 1 .. j - 1
      /\ 29 \in 1 .. 30 - 1 /\ 29 \in 1 .. 31 - 1 /\ 30 \in 1 .. 31 - 1
      /\ \A j \in 45 .. 61 : \A l \in 32 .. 44 : l \in 1 .. j - 1
      /\ \A j \in 32 .. 61 : j \in 32 .. 44 \/ j \in 45 .. 61
      /\ \A j \in 29 .. 61 : j = 29 \/ j = 30 \/ j = 31 \/ j \in 32 .. 44 \/ j \in 45 .. 61
      /\ \A j \in 32 .. 44 : j \in 32 .. 61
      /\ \A j \in 45 .. 61 : j \in 32 .. 61
  BY DEF GoodPlaces, ErrorPlaces
<1>2. Announced(at) => Opened(at, "*") /\ GoodLengths(at) \subseteq {1} /\ 2 \in 1 .. Len(source) - at
  <2>1. source[at + 1] # "0"
    BY Zenon DEF AtSign, Digits
  <2>. QED
    BY <2>1, AnnouncedFacts, Zenon DEF Opened
<1>3. ASSUME NEW k, IsFirst(k, at), NEW j \in 1 .. k - 1
      PROVE  \A m : m \notin Lengths(Alternatives[j], at)
  BY <1>3, Zenon DEF IsFirst
\* A line comment.
<1>4. CASE IsFirst(29, at)
  <2>1. PICK n : n = MatchLength(Alternatives[29], at)
    OBVIOUS
  <2>2. /\ n \in 1 .. Len(source) - at /\ InPattern(Alternatives[29], Text(at, n))
        /\ \A m \in Lengths(Alternatives[29], at) : m =< n
    <3>1. 29 # 25
      OBVIOUS
    <3>. QED
      BY <1>1, <1>4, <2>1, <3>1, TokenOfPlace, Zenon
  <2>3. n \in GoodLengths(at)
    BY <1>1, <2>2, GoodLengthsAre, Zenon
  <2>4. n \in Nat /\ n > 1 /\ Opened(at, "/") /\ ~ Opened(at, "*")
    BY <2>2, CommentFacts, LengthIsNat, NamedFacts, OpenedOnce, Zenon
  <2>5. \A m \in GoodLengths(at) : m =< n
    <3>. SUFFICES ASSUME NEW m \in GoodLengths(at) PROVE m =< n
      OBVIOUS
    <3>1. m \in Lengths(Alternatives[29], at) \/ m = 1 \/ m = 2
      BY <1>1, <2>4, SignLengths, SignMatches, Zenon
    <3>2. CASE m = 1 \/ m = 2
      BY ONLY <2>4, <3>2
    <3>. QED
      BY <2>2, <3>1, <3>2, Zenon
  <2>6. ASSUME NEW j \in 1 .. 61, InPattern(Alternatives[j], Text(at, n))
        PROVE  j \in 29 .. 61
    BY <2>2, <2>6, AlternativeBegins, BeginsWith, ZenonT(60) DEF AtSign
  <2>7. Text(at, n) \notin Spelled
    <3>. SUFFICES ASSUME Text(at, n) \in Spelled PROVE FALSE
      OBVIOUS
    <3>1. PICK j \in 2 .. 16 \cup 32 .. 61 : InPattern(Alternatives[j], Text(at, n))
      BY SpelledInPlace, Zenon
    <3>2. j \in 1 .. 61 /\ (j \in 29 .. 61 => j \in 32 .. 61)
      BY ONLY TRUE
    <3>3. j \in 32 .. 61
      BY <2>6, <3>1, <3>2, Zenon
    <3>4. source[at + 2] # "/" \/ n = 1
      BY <1>1, <2>2, <3>1, <3>3, SignWord, ZenonT(60)
    <3>5. n # 1
      BY ONLY <2>4
    <3>. QED
      BY <2>4, <3>4, <3>5, Zenon DEF Opened
  <2>8. ~ InPattern(MultilineComment, Text(at, n))
    BY <2>2, <2>4, CommentFacts, Zenon
  <2>9. \A j \in GoodPlaces : InPattern(Alternatives[j], Text(at, n)) => j = 29 \/ Alternatives[j] \in Spelled
    <3>1. \A j \in GoodPlaces : j \in 1 .. 61 /\ (j \in 29 .. 61 => j = 29 \/ j \in 2 .. 16 \cup 32 .. 61)
      BY ONLY DEF GoodPlaces
    <3>. QED
      BY <2>6, <3>1, SpelledPlaces, Zenon
  <2>10. GoodType(Text(at, n)) = Alternatives[29]
    BY <1>1, <2>2, <2>7, <2>8, <2>9, OneType, ZenonT(60)
  <2>. QED
    BY <1>1, <1>2, <1>4, <2>1, <2>3, <2>4, <2>5, <2>10, GoodDecision, Zenon
\* A comment of several lines ends with the first mark that closes it.
<1>5. CASE IsFirst(30, at)
  <2>1. PICK n : n = MatchLength(Alternatives[30], at)
    OBVIOUS
  <2>2. n \in Lengths(Alternatives[30], at) /\ \A m \in Lengths(Alternatives[30], at) : n =< m
    <3>1. Lengths(Alternatives[30], at) # {} /\ Alternatives[30] \in Lazy
      BY <1>5, LazyPlaces, NamedFacts, Zenon DEF IsFirst
    <3>. QED
      BY <2>1, <3>1, MatchFacts, Zenon
  <2>3. n \in 1 .. Len(source) - at /\ n > 3 /\ Opened(at, "*") /\ Closed(at, n) /\ n \in Nat
    BY <2>2, SignMatches, LengthIsNat, Zenon
  <2>4. \A q \in 3 .. n - 2 : ~ Closed(at, q + 1)
    <3>. SUFFICES ASSUME NEW q \in 3 .. n - 2, Closed(at, q + 1) PROVE FALSE
      OBVIOUS
    <3>1. q + 1 \in 1 .. Len(source) - at /\ q + 1 > 3 /\ ~ n =< q + 1
      BY <2>3
    <3>2. q + 1 \in Lengths(Alternatives[30], at)
      BY <2>3, <3>1, SignMatches, Zenon
    <3>. QED
      BY <2>2, <3>1, <3>2, Zenon
  <2>5. n \in GoodLengths(at)
    BY <2>2, <2>4, SignLengths, Zenon
  <2>6. \A m \in GoodLengths(at) : m =< n
    <3>. SUFFICES ASSUME NEW m \in GoodLengths(at), ~ m =< n PROVE FALSE
      OBVIOUS
    <3>1. \/ m \in Lengths(Alternatives[30], at) /\ \A q \in 3 .. m - 2 : ~ Closed(at, q + 1)
          \/ m = 1 \/ m = 2
      <4>1. 29 \in 1 .. 30 - 1
        OBVIOUS
      <4>2. m \notin Lengths(Alternatives[29], at)
        BY <1>5, <4>1, Zenon DEF IsFirst
      <4>3. \A j \in 32 .. 61 : m \in Lengths(Alternatives[j], at) => m = 1 \/ m = 2
        BY <1>1, SignMatches, Zenon
      <4>. QED
        BY <4>2, <4>3, SignLengths, Zenon
    <3>2. m # 1 /\ m # 2
      BY <2>3
    <3>3. m \in Nat
      BY <3>1, <3>2, SignMatches, LengthIsNat, Zenon
    <3>4. n - 1 \in 3 .. m - 2 /\ n - 1 + 1 = n
      BY <2>3, <3>3
    <3>5. \A q \in 3 .. m - 2 : ~ Closed(at, q + 1)
      BY <3>1, <3>2, Zenon
    <3>6. ~ Closed(at, n - 1 + 1)
      BY <3>4, <3>5, Zenon
    <3>. QED
      BY <2>3, <3>4, <3>6, Zenon
  <2>7. ~ Announced(at)
    <3>1. n \notin {1}
      BY <2>3
    <3>. QED
      BY <1>2, <2>5, <3>1, Zenon
  <2>8. GoodType(Text(at, n)) = Alternatives[30]
    <3>1. InPattern(MultilineComment, Text(at, n))
      BY <2>3, CommentFacts, Zenon
    <3>2. Text(at, n) \notin Spelled
      BY <3>1, SpelledType, Zenon
    <3>. QED
      BY <3>1, <3>2, NamedFacts, Zenon DEF GoodType
  <2>9. 30 \in GoodPlaces \cup {30}
    OBVIOUS
  <2>. QED
    BY <1>5, <2>1, <2>5, <2>6, <2>7, <2>8, <2>9, GoodDecision, Zenon
\* The end of a comment is missing.
<1>6. CASE IsFirst(31, at)
  <2>1. PICK m : m \in Lengths(Alternatives[31], at)
    BY <1>6 DEF IsFirst
  <2>2. m \in 1 .. Len(source) - at /\ m > 1 /\ Opened(at, "*")
    BY <2>1, SignMatches, Zenon
  <2>3. 2 \in 1 .. Len(source) - at /\ 2 > 1 /\ at + 2 =< Len(source) /\ 2 \in 0 .. Len(source) - at
    BY <2>2
  <2>4. InPattern(CommentUnterminated, Text(at, 2))
    BY <2>2, <2>3, CommentFacts, Zenon
  <2>5. Text(at, 2) = <<"/", "*">>
    <3>1. PICK w : w = Text(at, 2) /\ w \in Seq(STRING) /\ Len(w) = 2
      BY <2>3, TextFacts, ZenonT(60)
    <3>2. Opens(w, "/", "*")
      BY <2>4, <3>1, Patterns, Zenon
    <3>3. w[1] = "/" /\ w[2] = "*"
      BY <3>2, Zenon DEF Opens
    <3>4. w = <<w[1], w[2]>>
      BY ONLY <3>1
    <3>. QED
      BY <3>1, <3>3, <3>4, Zenon
  <2>6. GoodLengths(at) \subseteq {1}
    <3>. SUFFICES ASSUME NEW g \in GoodLengths(at) PROVE g = 1
      OBVIOUS
    <3>1. \A e : e \notin Lengths(Alternatives[29], at) /\ e \notin Lengths(Alternatives[30], at)
      <4>1. 29 \in 1 .. 31 - 1 /\ 30 \in 1 .. 31 - 1
        OBVIOUS
      <4>. QED
        BY <1>6, <4>1, Zenon DEF IsFirst
    <3>2. PICK j \in 32 .. 61 : g \in Lengths(Alternatives[j], at)
      BY <3>1, SignLengths, Zenon
    <3>. QED
      BY <1>1, <2>2, <3>2, SignMatches, Zenon
  <2>7. Announced(at)
    BY <2>3, <2>5, <2>6, Zenon DEF Announced
  <2>. QED
    BY <1>1, <1>6, <2>7, ErrorDecision, Zenon
\* An operator.
<1>7. ASSUME NEW k \in 32 .. 61, IsFirst(k, at)
      PROVE  Decided(at)
  <2>1. PICK n : n = MatchLength(Alternatives[k], at)
    OBVIOUS
  <2>2. n \in Lengths(Alternatives[k], at)
    BY <1>7, <2>1, MatchFacts, Zenon DEF IsFirst
  <2>3. \A e : /\ e \notin Lengths(Alternatives[29], at) /\ e \notin Lengths(Alternatives[30], at)
               /\ e \notin Lengths(Alternatives[31], at)
    BY <1>1, <1>3, <1>7, ZenonT(60)
  <2>4. n \in GoodLengths(at)
    BY <2>2, SignLengths, Zenon
  <2>5. Text(at, n) = Alternatives[k] /\ Alternatives[k] \in Spelled
    <3>1. Text(at, n) = Alternatives[k]
      <4>1. k \in 32 .. 44 \/ k \in 45 .. 61
        BY <1>1, Zenon
      <4>2. CASE k \in 32 .. 44
        BY <2>2, <4>2, SignMatches, ZenonT(60)
      <4>3. CASE k \in 45 .. 61
        BY <2>2, <4>3, SignMatches, Zenon
      <4>. QED
        BY <4>1, <4>2, <4>3, Zenon
    <3>. QED
      BY <3>1, SpelledPlaces
  <2>6. GoodType(Text(at, n)) = Alternatives[k]
    BY <2>5, SpelledType, Zenon
  <2>7. ~ Announced(at)
    <3>. SUFFICES ASSUME Announced(at) PROVE FALSE
      OBVIOUS
    <3>1. 2 > 1
      OBVIOUS
    <3>2. 2 \in Lengths(Alternatives[31], at)
      BY <1>2, <3>1, SignMatches, Zenon
    <3>. QED
      BY <2>3, <3>2, Zenon
  <2>8. \A m \in GoodLengths(at) : m =< n
    <3>. SUFFICES ASSUME NEW m \in GoodLengths(at) PROVE m =< n
      OBVIOUS
    <3>1. PICK j \in 32 .. 61 : m \in Lengths(Alternatives[j], at)
      BY <2>3, SignLengths, Zenon
    <3>2. CASE k \in 32 .. 44
      <4>1. n = 2 /\ (m = 1 \/ m = 2)
        BY <1>1, <2>2, <3>1, <3>2, SignMatches, Zenon
      <4>. QED
        BY ONLY <4>1
    <3>3. CASE k \in 45 .. 61
      <4>1. j \in 45 .. 61
        BY <1>1, <1>3, <1>7, <3>1, <3>3, Zenon
      <4>2. n = 1 /\ m = 1
        BY <2>2, <3>1, <3>3, <4>1, SignMatches, Zenon
      <4>. QED
        BY ONLY <4>2
    <3>. QED
      BY <1>1, <3>2, <3>3, Zenon
  <2>9. k \in GoodPlaces \cup {30}
    BY <1>1
  <2>. QED
    BY <1>7, <2>1, <2>4, <2>6, <2>7, <2>8, <2>9, GoodDecision, Zenon
\* Nothing.
<1>8. CASE \A k \in 1 .. 61 : Lengths(Alternatives[k], at) = {}
  <2>1. 29 \in 1 .. 61 /\ 30 \in 1 .. 61
    OBVIOUS
  <2>2. GoodLengths(at) = {}
    BY <1>1, <1>8, <2>1, SignLengths, ZenonT(60)
  <2>. QED
    BY <1>8, <2>2, UnknownDecision, Zenon
<1>9. ASSUME NEW k, IsFirst(k, at)
      PROVE  k = 29 \/ k = 30 \/ k = 31 \/ k \in 32 .. 61
  <2>1. k \in 1 .. 61 /\ Begins(k, source[at + 1])
    BY <1>9, AlternativeBegins, Zenon
  <2>2. k \in 29 .. 61
    BY <2>1, BeginsWith, Zenon DEF AtSign
  <2>. QED
    BY <1>1, <2>2, Zenon
<1>. QED
  BY <1>4, <1>5, <1>6, <1>7, <1>8, <1>9, FirstMatchFacts, ZenonT(60)

\* What the scanner takes is the longest good token at its place, or an error where there is none.
THEOREM EveryPlaceIsDecided ==
  ASSUME source \in Seq(STRING), NEW at \in 0 .. Len(source), at # Len(source)
  PROVE  Decided(at)
BY AtSpace, AtLetter, AtDigit, AtQuotes, AtSigns, Zenon DEF AtSign

-----------------------------------------------------------------------------
(* Reading a source by its longest good tokens *)

\* No good token begins at a place; the longest that does; and what it adds to those behind it.
Over(k) == GoodLengths(k) = {} \/ Announced(k)
NextWord(k) == Text(k, Max(GoodLengths(k)))
Before(w, rest) ==
  IF GoodType(w) \in IgnoredTypes THEN rest
  ELSE [rest EXCEPT !.tokens = <<Token(GoodType(w), w)>> \o @]
Read(k, f) ==
  IF k = Len(source) THEN [tokens |-> <<>>, good |-> TRUE]
  ELSE IF Over(k) THEN [tokens |-> <<>>, good |-> FALSE]
  ELSE Before(NextWord(k), f[k + Len(NextWord(k))])

\* The longest good token is one, and ends in the source.
LEMMA NextPlace ==
  ASSUME source \in Seq(STRING), NEW k \in 0 .. Len(source), ~ Over(k)
  PROVE  /\ Max(GoodLengths(k)) \in GoodLengths(k) /\ \A m \in GoodLengths(k) : Max(GoodLengths(k)) >= m
         /\ Max(GoodLengths(k)) \in 1 .. Len(source) - k
         /\ Len(NextWord(k)) = Max(GoodLengths(k))
         /\ k + Len(NextWord(k)) \in k + 1 .. Len(source)
<1>1. PICK G, n, N : G = GoodLengths(k) /\ n = Max(G) /\ N = Len(source) - k
  OBVIOUS
<1>2. N \in Nat /\ \A e \in 1 .. N : e \in 0 .. N /\ k + e \in k + 1 .. Len(source)
  BY <1>1
<1>3. G \subseteq 1 .. N
  BY <1>1, GoodLengthsAre, Zenon
<1>4. PICK e : e \in G
  BY <1>1, Zenon DEF Over
<1>5. n \in G /\ \A m \in G : n >= m
  <2>1. G \subseteq 0 .. N
    BY <1>2, <1>3, Zenon
  <2>. QED
    BY <1>1, <1>2, <1>4, <2>1, MaxFacts
<1>6. n \in 0 .. N /\ n \in 1 .. N /\ k + n \in k + 1 .. Len(source)
  BY <1>2, <1>3, <1>5, Zenon
<1>7. Len(Text(k, n)) = n
  BY <1>1, <1>6, TextFacts, Zenon
<1>. QED
  BY <1>1, <1>5, <1>6, <1>7, Zenon DEF NextWord

\* A place is read by what is read behind it.
LEMMA SameRead ==
  ASSUME source \in Seq(STRING), NEW k \in 0 .. Len(source), NEW f, NEW g,
         \A q \in k + 1 .. Len(source) : f[q] = g[q]
  PROVE  Read(k, f) = Read(k, g)
<1>1. CASE k = Len(source) \/ Over(k)
  BY <1>1, Zenon DEF Read
<1>2. CASE ~ Over(k)
  <2>1. PICK q \in k + 1 .. Len(source) : q = k + Len(NextWord(k))
    BY <1>2, NextPlace, Zenon
  <2>2. f[k + Len(NextWord(k))] = g[k + Len(NextWord(k))]
    BY <2>1, Zenon
  <2>. QED
    BY <2>2, Zenon DEF Read
<1>. QED
  BY <1>1, <1>2

\* The function by which a source is read exists.
LEMMA ReadFunction ==
  ASSUME source \in Seq(STRING)
  PROVE  \E f : f = [k \in 0 .. Len(source) |-> Read(k, f)]
<1>. DEFINE L == Len(source)
            Reads(d, f) == f = [k \in L - d .. L |-> Read(k, f)]
            S == {d \in Nat : d =< L /\ ~ \E f : Reads(d, f)}
<1>1. L \in Nat
  OBVIOUS
<1>2. S = {}
  <2>. SUFFICES ASSUME NEW e \in S PROVE FALSE
    OBVIOUS
  <2>1. PICK d \in S : \A c \in S : d =< c
    <3>1. S \in SUBSET Nat
      OBVIOUS
    <3>. HIDE DEF S
    <3>. QED
      BY <3>1, LeastElement
  <2>2. d \in Nat /\ d =< L /\ ~ \E f : Reads(d, f)
    OBVIOUS
  <2>. HIDE DEF S
  <2>3. \E f : Reads(d, f)
    <3>1. PICK f : \A k \in L - d + 1 .. L : f[k] = Read(k, f)
      <4>1. CASE d = 0
        <5>1. \A k \in L - d + 1 .. L : FALSE
          BY <1>1, <4>1
        <5>. QED
          BY <5>1, Zenon
      <4>2. CASE d # 0
        <5>1. d - 1 \in Nat /\ d - 1 =< L /\ ~ d =< d - 1 /\ L - (d - 1) = L - d + 1
          BY <1>1, <2>2, <4>2
        <5>2. PICK f : Reads(d - 1, f)
          <6>. HIDE DEF Reads
          <6>. QED
            BY <2>1, <5>1, Zenon DEF S
        <5>. HIDE DEF L
        <5>3. \A k \in L - (d - 1) .. L : f[k] = Read(k, f)
          BY <5>2, Zenon
        <5>. QED
          BY <5>1, <5>3, Zenon
      <4>. QED
        BY <4>1, <4>2, Zenon
    <3>. DEFINE g == [k \in L - d .. L |-> IF k = L - d THEN Read(k, f) ELSE f[k]]
    <3>2. \A k \in L - d + 1 .. L : g[k] = f[k] /\ k \in L - d .. L
      BY <1>1, <2>2
    <3>3. ASSUME NEW k \in L - d .. L
          PROVE  (IF k = L - d THEN Read(k, f) ELSE f[k]) = Read(k, g)
      <4>1. /\ k \in 0 .. L /\ \A q \in k + 1 .. L : q \in L - d + 1 .. L
            /\ k # L - d => k \in L - d + 1 .. L
        BY <1>1, <2>2
      <4>2. Read(k, f) = Read(k, g)
        <5>1. \A q \in k + 1 .. Len(source) : f[q] = g[q]
          <6>. HIDE DEF g
          <6>. QED
            BY <3>2, <4>1, Zenon
        <5>. HIDE DEF g
        <5>. QED
          BY <4>1, <5>1, SameRead, Zenon
      <4>. HIDE DEF g, L
      <4>. QED
        BY <3>1, <4>1, <4>2, Zenon
    <3>4. Reads(d, g)
      <4>. HIDE DEF L
      <4>. QED
        BY <3>3, Zenon
    <3>. HIDE DEF g, Reads
    <3>. QED
      BY <3>4, Zenon
  <2>. HIDE DEF Reads
  <2>. QED
    BY <2>2, <2>3, Zenon
<1>3. \E f : Reads(L, f)
  <2>1. L =< L
    BY <1>1
  <2>2. L \notin S
    <3>. HIDE DEF S, L
    <3>. QED
      BY <1>2, Zenon
  <2>. HIDE DEF Reads, L
  <2>. QED
    BY <1>1, <2>1, <2>2, Zenon
<1>4. L - L = 0
  BY <1>1
<1>. HIDE DEF L
<1>5. PICK f : f = [k \in 0 .. L |-> Read(k, f)]
  BY <1>3, <1>4, Zenon
<1>. QED
  BY <1>5, Zenon DEF L

\* What is read from a place on.
LEMMA LongestAre ==
  ASSUME source \in Seq(STRING), NEW at \in 0 .. Len(source)
  PROVE  /\ at = Len(source) => Longest(at) = [tokens |-> <<>>, good |-> TRUE]
         /\ at # Len(source) /\ Over(at) => Longest(at) = [tokens |-> <<>>, good |-> FALSE]
         /\ at # Len(source) /\ ~ Over(at) =>
              Longest(at) = Before(NextWord(at), Longest(at + Len(NextWord(at))))
<1>. DEFINE Fun(f) == f = [k \in 0 .. Len(source) |-> Read(k, f)]
            from == CHOOSE f : Fun(f)
<1>1. \A k : Longest(k) = from[k]
  BY Zenon DEF Longest, Read, Over, Before, NextWord
<1>2. Fun(from)
  <2>1. \E f : Fun(f)
    BY ReadFunction, Zenon
  <2>. HIDE DEF Fun
  <2>. QED
    BY <2>1, Zenon
<1>3. PICK f : f = from
  OBVIOUS
<1>4. Fun(f)
  <2>. HIDE DEF Fun, from
  <2>. QED
    BY <1>2, <1>3, Zenon
<1>5. \A k : Longest(k) = f[k]
  BY <1>1, <1>3, Zenon
<1>. HIDE DEF from
<1>6. f[at] = Read(at, f)
  BY <1>4, Zenon
<1>7. Longest(at) = IF at = Len(source) THEN [tokens |-> <<>>, good |-> TRUE]
                    ELSE IF Over(at) THEN [tokens |-> <<>>, good |-> FALSE]
                    ELSE Before(NextWord(at), Longest(at + Len(NextWord(at))))
  BY <1>5, <1>6, Zenon DEF Read
<1>. QED
  BY <1>7, Zenon

-----------------------------------------------------------------------------
(* The scanner's loop *)

\* The tokens that the scanner can find.
GoodTokens ==
  {t \in [type : GoodTypes \cup {MultilineComment}, word : Seq(STRING)] :
     InPattern(t.type, t.word) /\ Len(t.word) > 0}

\* What a place that is decided says of the longest good token.
LEMMA DecidedFacts ==
  ASSUME source \in Seq(STRING), NEW at \in 0 .. Len(source), at # Len(source)
  PROVE  /\ TokenLength(FirstMatch(at), at) \in 1 .. Len(source) - at
         /\ FirstMatch(at) \in ErrorTypes <=> Over(at)
         /\ ~ Over(at) =>
              /\ TokenLength(FirstMatch(at), at) = Len(NextWord(at))
              /\ Text(at, TokenLength(FirstMatch(at), at)) = NextWord(at)
              /\ FirstMatch(at) = GoodType(NextWord(at))
              /\ Token(GoodType(NextWord(at)), NextWord(at)) \in GoodTokens
<1>1. PICK type, n : type = FirstMatch(at) /\ n = TokenLength(type, at)
  OBVIOUS
<1>2. DecidedAs(at, type, n)
  BY <1>1, EveryPlaceIsDecided, Zenon DEF Decided
<1>3. n \in 1 .. Len(source) - at
  BY <1>2, Zenon DEF DecidedAs
<1>4. type \in ErrorTypes <=> Over(at)
  BY <1>2, Zenon DEF DecidedAs, Over
<1>5. ASSUME ~ Over(at)
      PROVE  /\ n = Len(NextWord(at))
             /\ Text(at, n) = NextWord(at)
             /\ type = GoodType(NextWord(at))
             /\ Token(GoodType(NextWord(at)), NextWord(at)) \in GoodTokens
  <2>1. /\ n \in GoodLengths(at) /\ \A m \in GoodLengths(at) : m =< n
        /\ GoodType(Text(at, n)) = type /\ InPattern(type, Text(at, n))
    BY <1>2, <1>4, <1>5, Zenon DEF DecidedAs
  <2>2. n = Max(GoodLengths(at))
    <3>1. PICK x : x = Max(GoodLengths(at))
      OBVIOUS
    <3>2. x \in GoodLengths(at) /\ x >= n /\ x \in 1 .. Len(source) - at
      BY <1>5, <2>1, <3>1, NextPlace, Zenon
    <3>3. x =< n
      BY <2>1, <3>2
    <3>. QED
      BY <1>3, <3>1, <3>2, <3>3
  <2>3. PICK w : w = NextWord(at) /\ w = Text(at, n) /\ Len(w) = n
    BY <1>5, <2>2, NextPlace, Zenon DEF NextWord
  <2>4. w \in Seq(STRING)
    <3>1. n \in 0 .. Len(source) - at
      BY <1>3
    <3>. QED
      BY <2>3, <3>1, TextFacts, Zenon
  <2>5. type \in GoodTypes \cup {MultilineComment}
    <3>1. type \notin ErrorTypes
      BY <1>4, <1>5
    <3>2. PICK k \in 1 .. 61 : type = Alternatives[k]
      <4>1. type # Unknown
        BY <3>1, Places, Zenon
      <4>. QED
        BY <1>1, <4>1, FirstMatchFacts, Zenon DEF IsFirst
    <3>3. k \in 1 .. Len(Alternatives)
      BY <3>2, AlternativeFacts, Zenon
    <3>. QED
      BY <3>1, <3>2, <3>3, Zenon DEF GoodTypes
  <2>6. Token(type, w) \in GoodTokens
    <3>1. Len(w) > 0
      BY <1>3, <2>3
    <3>2. InPattern(type, w)
      BY <2>1, <2>3, Zenon
    <3>3. PICK T, S : T = GoodTypes \cup {MultilineComment} /\ S = Seq(STRING)
      OBVIOUS
    <3>4. type \in T /\ w \in S
      BY <2>4, <2>5, <3>3, Zenon
    <3>5. PICK t : t = [type |-> type, word |-> w]
      OBVIOUS
    <3>6. t \in [type : T, word : S] /\ t.type = type /\ t.word = w
      BY <3>4, <3>5
    <3>. QED
      BY <3>1, <3>2, <3>3, <3>5, <3>6, Zenon DEF GoodTokens, Token
  <2>. QED
    BY <2>1, <2>3, <2>6, Zenon
<1>. QED
  BY <1>1, <1>3, <1>4, <1>5, Zenon

\* What is read is a sequence of tokens.
LEMMA LongestType ==
  ASSUME source \in Seq(STRING), NEW at \in 0 .. Len(source)
  PROVE  Longest(at) \in [tokens : Seq(GoodTokens), good : BOOLEAN]
<1>. DEFINE L == Len(source)
            R == [tokens : Seq(GoodTokens), good : BOOLEAN]
            S == {d \in Nat : d =< L /\ Longest(L - d) \notin R}
<1>1. L \in Nat
  OBVIOUS
<1>2. \A b \in BOOLEAN : [tokens |-> <<>>, good |-> b] \in R
  <2>1. <<>> \in Seq(GoodTokens)
    OBVIOUS
  <2>. QED
    BY <2>1, Zenon
<1>3. ASSUME NEW w, NEW r \in R, Token(GoodType(w), w) \in GoodTokens
      PROVE  Before(w, r) \in R
  <2>1. PICK T, t : T = GoodTokens /\ t = Token(GoodType(w), w) /\ t \in T
    BY <1>3
  <2>2. r \in [tokens : Seq(T), good : BOOLEAN]
    BY <2>1
  <2>3. [r EXCEPT !.tokens = <<t>> \o @] \in [tokens : Seq(T), good : BOOLEAN]
    <3>1. PICK old : old = r.tokens /\ old \in Seq(T) /\ r.good \in BOOLEAN
      BY ONLY <2>2
    <3>2. PICK new : new = <<t>> \o old /\ new \in Seq(T)
      <4>1. <<t>> \in Seq(T)
        BY ONLY <2>1
      <4>. QED
        BY <3>1, <4>1, Joined, Zenon
    <3>3. [r EXCEPT !.tokens = new] \in [tokens : Seq(T), good : BOOLEAN]
      BY ONLY <2>2, <3>2
    <3>. QED
      BY <3>1, <3>2, <3>3, Zenon
  <2>4. Before(w, r) = IF GoodType(w) \in IgnoredTypes THEN r ELSE [r EXCEPT !.tokens = <<t>> \o @]
    BY <2>1, Zenon DEF Before
  <2>. QED
    BY <2>1, <2>2, <2>3, <2>4, Zenon
<1>. HIDE DEF R
<1>4. S = {}
  <2>. SUFFICES ASSUME NEW e \in S PROVE FALSE
    OBVIOUS
  <2>1. PICK d \in S : \A c \in S : d =< c
    <3>1. S \in SUBSET Nat
      OBVIOUS
    <3>. HIDE DEF S
    <3>. QED
      BY <3>1, LeastElement
  <2>2. d \in Nat /\ d =< L /\ Longest(L - d) \notin R
    OBVIOUS
  <2>3. PICK k \in 0 .. L : k = L - d
    BY <1>1, <2>2
  <2>4. k # L /\ ~ Over(k)
    BY <1>2, <2>2, <2>3, LongestAre, Zenon
  <2>5. PICK j \in k + 1 .. L : j = k + Len(NextWord(k))
    BY <2>3, <2>4, NextPlace, Zenon
  <2>6. L - j \in Nat /\ L - j =< L /\ ~ d =< L - j /\ L - (L - j) = j
    BY <1>1, <2>2, <2>3, <2>5
  <2>7. Longest(j) \in R
    <3>1. L - j \notin S
      <4>. HIDE DEF S
      <4>. QED
        BY <2>1, <2>6, Zenon
    <3>2. Longest(L - (L - j)) \in R
      BY <2>6, <3>1, Zenon
    <3>. QED
      BY <2>6, <3>2, Zenon
  <2>8. Longest(k) = Before(NextWord(k), Longest(j))
    BY <2>3, <2>4, <2>5, LongestAre, Zenon
  <2>9. Token(GoodType(NextWord(k)), NextWord(k)) \in GoodTokens
    BY <2>3, <2>4, DecidedFacts, Zenon
  <2>. QED
    BY <1>3, <2>2, <2>3, <2>7, <2>8, <2>9, Zenon
<1>5. L - at \in Nat /\ L - at =< L /\ L - (L - at) = at
  BY <1>1
<1>6. L - at \notin S
  <2>. HIDE DEF S
  <2>. QED
    BY <1>4, Zenon
<1>7. Longest(L - (L - at)) \in R
  BY <1>5, <1>6, Zenon
<1>. QED
  BY <1>5, <1>7, Zenon DEF R

-----------------------------------------------------------------------------
(* The invariant of the scanner *)

ScannerTyped ==
  /\ source \in Seq(STRING)
  /\ position \in 0 .. Len(source)
  /\ tokens \in Seq(GoodTokens)
  /\ Len(tokens) =< position
  /\ scanned \in {0, -1}

\* What has been found, followed by what is to be read, is what is read from the beginning.
Found ==
  /\ scanned = -1 => ~ Longest(0).good
  /\ scanned = 0 =>
       /\ Longest(0).good = Longest(position).good
       /\ Longest(0).tokens = tokens \o Longest(position).tokens

ScannerInv == ScannerTyped /\ Found

\* What is read depends on the source only.
LEMMA SameLongest == ASSUME source' = source PROVE \A k : Longest(k)' = Longest(k)
BY DEF Longest, Announced, GoodLengths, Text, Boundary

\* The scanner starts with nothing found.
LEMMA ScannerStarts == ScannerNew => ScannerInv
<1>. SUFFICES ASSUME ScannerNew PROVE ScannerInv
  OBVIOUS
<1>1. source \in Seq(STRING)
  BY SourcesAssumption DEF ScannerNew
<1>2. position = 0 /\ tokens = <<>> /\ scanned = 0
  BY DEF ScannerNew
<1>3. ScannerTyped
  BY <1>1, <1>2 DEF ScannerTyped
<1>4. PICK r : r = Longest(0)
  OBVIOUS
<1>5. 0 \in 0 .. Len(source)
  BY <1>1
<1>6. r.tokens \in Seq(GoodTokens)
  <2>1. r \in [tokens : Seq(GoodTokens), good : BOOLEAN]
    BY <1>1, <1>4, <1>5, LongestType, Zenon
  <2>. QED
    BY <2>1
<1>7. <<>> \o r.tokens = r.tokens
  BY <1>6
<1>8. Found
  <2>1. 0 # -1
    OBVIOUS
  <2>. QED
    BY <1>2, <1>4, <1>7, <2>1, Zenon DEF Found
<1>. QED
  BY <1>3, <1>8 DEF ScannerInv

\* A round of the loop finds what is read at its place.
LEMMA ScannerStep == ScannerInv /\ ScannerNextToken => ScannerInv'
<1>. SUFFICES ASSUME ScannerInv, ScannerNextToken PROVE ScannerInv'
  OBVIOUS
<1>1. source \in Seq(STRING) /\ position \in 0 .. Len(source) /\ position # Len(source)
  BY DEF ScannerInv, ScannerTyped, ScannerNextToken
<1>2. PICK at, type, n, w : at = position /\ type = FirstMatch(at) /\ n = TokenLength(type, at) /\ w = NextWord(at)
  OBVIOUS
<1>3. /\ position' = at + n
      /\ tokens' = IF type \in IgnoredTypes \cup ErrorTypes THEN tokens
                   ELSE Append(tokens, Token(type, Text(at, n)))
      /\ scanned' = IF type \in ErrorTypes THEN -1 ELSE scanned
      /\ source' = source
  BY <1>2, Zenon DEF ScannerNextToken
<1>4. PICK r, s : r = Longest(at) /\ s = Longest(at + n)
  OBVIOUS
<1>5. PICK t : t = Token(GoodType(w), w)
  OBVIOUS
<1>6. /\ n \in 1 .. Len(source) - at
      /\ type \in ErrorTypes <=> Over(at)
      /\ ~ Over(at) => n = Len(w) /\ Text(at, n) = w /\ type = GoodType(w) /\ t \in GoodTokens
  BY <1>1, <1>2, <1>5, DecidedFacts, Zenon
<1>7. at + n \in 0 .. Len(source) /\ at \in Nat /\ n \in Nat /\ n >= 1
  BY <1>1, <1>2, <1>6
<1>8. /\ tokens \in Seq(GoodTokens) /\ Len(tokens) \in Nat /\ Len(tokens) =< at /\ scanned \in {0, -1}
  BY <1>2 DEF ScannerInv, ScannerTyped
<1>9. tokens' \in Seq(GoodTokens) /\ Len(tokens') \in {Len(tokens), Len(tokens) + 1}
  <2>1. CASE type \in IgnoredTypes \cup ErrorTypes
    BY <1>3, <1>8, <2>1
  <2>2. CASE type \notin IgnoredTypes \cup ErrorTypes
    <3>1. t \in GoodTokens /\ tokens' = Append(tokens, t)
      BY <1>3, <1>5, <1>6, <2>2, Zenon
    <3>. QED
      BY <1>8, <3>1
  <2>. QED
    BY <2>1, <2>2
<1>10. ScannerTyped'
  <2>1. Len(tokens') =< at + n
    BY <1>7, <1>8, <1>9
  <2>2. scanned' \in {0, -1}
    BY <1>3, <1>8, Zenon
  <2>. QED
    BY <1>1, <1>3, <1>7, <1>9, <2>1, <2>2, Zenon DEF ScannerTyped
<1>11. Longest(0)' = Longest(0) /\ Longest(position)' = s
  BY <1>3, <1>4, SameLongest
<1>12. r \in [tokens : Seq(GoodTokens), good : BOOLEAN] /\ s \in [tokens : Seq(GoodTokens), good : BOOLEAN]
  BY <1>1, <1>2, <1>4, <1>7, LongestType, Zenon
<1>13. /\ scanned = -1 => ~ Longest(0).good
       /\ scanned = 0 => Longest(0).good = r.good /\ Longest(0).tokens = tokens \o r.tokens
  BY <1>2, <1>4, Zenon DEF ScannerInv, Found
<1>14. CASE Over(at)
  <2>1. scanned' = -1 /\ r = [tokens |-> <<>>, good |-> FALSE]
    BY <1>1, <1>2, <1>3, <1>4, <1>6, <1>14, LongestAre, Zenon
  <2>2. ~ r.good /\ -1 # 0
    BY <2>1
  <2>3. ~ Longest(0).good
    BY <1>8, <1>13, <2>2
  <2>4. Found'
    BY <1>11, <2>1, <2>2, <2>3, Zenon DEF Found
  <2>. QED
    BY <1>10, <2>4 DEF ScannerInv
<1>15. CASE ~ Over(at)
  <2>1. r = Before(w, s) /\ scanned' = scanned
    BY <1>1, <1>2, <1>3, <1>4, <1>6, <1>15, LongestAre, Zenon
  <2>2. r.good = s.good /\ tokens \o r.tokens = tokens' \o s.tokens
    <3>1. CASE type \in IgnoredTypes
      <4>1. r = s /\ tokens' = tokens
        BY <1>3, <1>6, <1>15, <2>1, <3>1, Zenon DEF Before
      <4>. QED
        BY <4>1, Zenon
    <3>2. CASE type \notin IgnoredTypes
      <4>1. r = [s EXCEPT !.tokens = <<t>> \o @] /\ tokens' = Append(tokens, t) /\ t \in GoodTokens
        BY <1>3, <1>5, <1>6, <1>15, <2>1, <3>2, Zenon DEF Before
      <4>2. PICK old : old = s.tokens /\ old \in Seq(GoodTokens)
        BY <1>12
      <4>3. r.good = s.good /\ r.tokens = <<t>> \o old
        BY <1>12, <4>1, <4>2
      <4>4. tokens \o (<<t>> \o old) = Append(tokens, t) \o old
        <5>1. PICK T, u : T = GoodTokens /\ u = tokens /\ u \in Seq(T) /\ old \in Seq(T) /\ t \in T
          BY <1>8, <4>1, <4>2
        <5>2. u \o (<<t>> \o old) = Append(u, t) \o old
          BY ONLY <5>1
        <5>. QED
          BY <5>1, <5>2, Zenon
      <4>. QED
        BY <4>1, <4>2, <4>3, <4>4, Zenon
    <3>. QED
      BY <3>1, <3>2
  <2>3. Found'
    BY <1>11, <1>13, <2>1, <2>2, Zenon DEF Found
  <2>. QED
    BY <1>10, <2>3 DEF ScannerInv
<1>. QED
  BY <1>14, <1>15

\* What the scanner does not change stays.
LEMMA ScannerStutters == ScannerInv /\ UNCHANGED scanner => ScannerInv'
<1>. SUFFICES ASSUME ScannerInv, UNCHANGED scanner PROVE ScannerInv'
  OBVIOUS
<1>1. source' = source /\ position' = position /\ tokens' = tokens /\ scanned' = scanned
  BY DEF scanner
<1>2. Longest(0)' = Longest(0) /\ Longest(position)' = Longest(position)
  BY <1>1, SameLongest
<1>3. Found'
  BY <1>1, <1>2, Zenon DEF ScannerInv, Found
<1>4. ScannerTyped'
  BY <1>1, Zenon DEF ScannerInv, ScannerTyped
<1>. QED
  BY <1>3, <1>4 DEF ScannerInv

\* What the invariant says of the end.
LEMMA ScannerEnds == ScannerInv => ScannerTypeOK /\ TokensAreLongest
<1>. SUFFICES ASSUME ScannerInv PROVE ScannerTypeOK /\ TokensAreLongest
  OBVIOUS
<1>1. ScannerTypeOK
  BY DEF ScannerInv, ScannerTyped, ScannerTypeOK
<1>2. TokensAreLongest
  <2>. SUFFICES ASSUME position = Len(source)
                PROVE  /\ scanned = 0 <=> Longest(0).good
                       /\ scanned = 0 => tokens = Longest(0).tokens
    BY Zenon DEF TokensAreLongest, Finished
  <2>1. source \in Seq(STRING) /\ position \in 0 .. Len(source) /\ scanned \in {0, -1} /\ tokens \in Seq(GoodTokens)
    BY DEF ScannerInv, ScannerTyped
  <2>2. PICK r : r = Longest(position)
    OBVIOUS
  <2>3. r = [tokens |-> <<>>, good |-> TRUE]
    BY <2>1, <2>2, LongestAre, Zenon
  <2>4. r.tokens = <<>> /\ r.good = TRUE
    BY <2>3
  <2>5. tokens \o <<>> = tokens /\ -1 # 0
    BY <2>1
  <2>6. /\ scanned = -1 => ~ Longest(0).good
        /\ scanned = 0 => Longest(0).good = r.good /\ Longest(0).tokens = tokens \o r.tokens
    BY <2>2, Zenon DEF ScannerInv, Found
  <2>. QED
    BY <2>1, <2>4, <2>5, <2>6, Zenon
<1>. QED
  BY <1>1, <1>2

\* The number that the first k digits stand for.
PartialOf(ds, b, k) ==
  LET prefix[j \in 0 .. Len(ds)] ==
        IF j = 0 THEN 0 ELSE LET before == prefix[j - 1] IN before * b + ds[j]
  IN  prefix[k]

Partial(k) == PartialOf(digits, base, k)

Typed ==
  /\ base \in Bases
  /\ digits \in Seq(0 .. base - 1) /\ Len(digits) > 0
  /\ negate \in BOOLEAN
  /\ i \in 0 .. Len(digits)
  /\ value \in Word /\ place \in Word
  /\ result \in Word \cup {Converting}
  /\ (i > 0 /\ result = Converting) => place > 0

\* What is still to be added and what has been make the number.
Exact == result = Converting => Partial(i) * place + value = Number /\ value =< MaxValue

Accepted == Converted => result = Number /\ result =< MaxValue

IInv == Typed /\ Exact /\ Accepted /\ InRangeIsAccepted

-----------------------------------------------------------------------------
(* The number, which the property defines by recursion *)

\* The numbers of the first 0, 1 .. n digits.
Prefixes(ds, b, n, prefix) ==
  prefix = [k \in 0 .. n |-> IF k = 0 THEN 0 ELSE prefix[k - 1] * b + ds[k]]

\* The recursion has a solution: the shortest literal without one would have one.
LEMMA PrefixesExist ==
  ASSUME NEW ds, NEW b, NEW n \in Nat
  PROVE  \E prefix : Prefixes(ds, b, n, prefix)
<1>. DEFINE Without == {k \in Nat : ~ \E prefix : Prefixes(ds, b, k, prefix)}
<1>. SUFFICES ASSUME n \in Without PROVE FALSE
  OBVIOUS
<1>1. PICK k \in Without : \A j \in Without : k =< j
  <2>1. Without \in SUBSET Nat
    OBVIOUS
  <2>. HIDE DEF Without
  <2>. QED
    BY <2>1, LeastElement
<1>2. CASE k = 0
  <2>. DEFINE c == [m \in 0 .. 0 |-> 0]
  <2>1. Prefixes(ds, b, 0, c)
    BY DEF Prefixes
  <2>. QED
    BY <2>1, <1>2
<1>3. CASE k > 0
  <2>1. PICK c : Prefixes(ds, b, k - 1, c)
    BY <1>1, <1>3
  <2>. DEFINE d == [m \in 0 .. k |-> IF m = k THEN c[k - 1] * b + ds[k] ELSE c[m]]
  <2>2. \A m \in 0 .. k : d[m] = IF m = 0 THEN 0 ELSE d[m - 1] * b + ds[m]
    BY <2>1, <1>3 DEF Prefixes
  <2>3. d = [m \in 0 .. k |-> IF m = 0 THEN 0 ELSE d[m - 1] * b + ds[m]]
    BY <2>2
  <2>4. Prefixes(ds, b, k, d)
    BY <2>3 DEF Prefixes
  <2>. QED
    BY <2>4
<1>. QED
  BY <1>2, <1>3

\* The digits and the base are naturals.
LEMMA TypedFacts ==
  ASSUME Typed
  PROVE  /\ base \in Nat /\ base >= 2 /\ base < Modulus
         /\ Len(digits) \in Nat
         /\ \A k \in 1 .. Len(digits) : digits[k] \in Nat /\ digits[k] < base
         /\ value \in Nat /\ value < Modulus
         /\ place \in Nat /\ place < Modulus
         /\ i \in Nat /\ i =< Len(digits)
<1>1. base \in Nat /\ base >= 2 /\ base < Modulus
  BY BasesAssumption, ModulusAssumption, SMTT(30) DEF Typed
<1>2. \A k \in 1 .. Len(digits) : digits[k] \in 0 .. base - 1
  BY ElementOfSeq DEF Typed
<1>. QED
  BY <1>1, <1>2, ModulusAssumption DEF Typed, Word

\* The numbers of the first digits, by the equations of the recursion.
LEMMA PartialFacts ==
  ASSUME Typed
  PROVE  /\ Partial(0) = 0
         /\ \A k \in 1 .. Len(digits) : Partial(k) = Partial(k - 1) * base + digits[k]
         /\ \A k \in 0 .. Len(digits) : Partial(k) \in Nat
         /\ Number = Partial(Len(digits))
<1>1. PICK n \in Nat : n = Len(digits)
  BY TypedFacts
<1>. DEFINE f == CHOOSE prefix : Prefixes(digits, base, n, prefix)
<1>2. Prefixes(digits, base, n, f)
  BY PrefixesExist, Zenon
<1>3. \A k : Partial(k) = f[k]
  BY <1>1 DEF Partial, PartialOf, Prefixes
<1>4. Number = f[n]
  BY <1>1 DEF Number, Prefixes
<1>. HIDE DEF f
<1>5. f[0] = 0 /\ \A k \in 1 .. n : f[k] = f[k - 1] * base + digits[k]
  BY <1>2 DEF Prefixes
<1>6. \A k \in 0 .. n : f[k] \in Nat
  <2>. DEFINE Not == {k \in Nat : k =< n /\ f[k] \notin Nat}
  <2>. SUFFICES ASSUME NEW e \in Not PROVE FALSE
    OBVIOUS
  <2>1. PICK k \in Not : \A j \in Not : k =< j
    <3>1. Not \in SUBSET Nat
      OBVIOUS
    <3>. HIDE DEF Not
    <3>. QED
      BY <3>1, LeastElement
  <2>2. k # 0
    BY <1>5
  <2>3. f[k - 1] \in Nat /\ f[k] = f[k - 1] * base + digits[k]
    BY <1>5, <2>1, <2>2
  <2>4. digits[k] \in Nat /\ base \in Nat
    BY <1>1, <2>2, TypedFacts
  <2>. QED
    BY <2>3, <2>4
<1>. QED
  BY <1>1, <1>3, <1>4, <1>5, <1>6

\* A literal without superfluous zeros counts for one at least, whatever follows.
LEMMA PartialIsPositive ==
  ASSUME Typed, digits[1] # 0
  PROVE  \A k \in 1 .. Len(digits) : Partial(k) >= 1
<1>. DEFINE Zero == {k \in Nat : 1 =< k /\ k =< Len(digits) /\ ~ Partial(k) >= 1}
<1>. SUFFICES ASSUME NEW e \in Zero PROVE FALSE
  BY TypedFacts
<1>1. PICK k \in Zero : \A j \in Zero : k =< j
  <2>1. Zero \in SUBSET Nat
    OBVIOUS
  <2>. HIDE DEF Zero
  <2>. QED
    BY <2>1, LeastElement
<1>2. /\ k \in 1 .. Len(digits) /\ base \in Nat /\ base >= 2
      /\ digits[k] \in Nat /\ digits[1] \in Nat
      /\ Partial(k - 1) \in Nat
      /\ Partial(k) = Partial(k - 1) * base + digits[k]
      /\ Partial(0) = 0
  <2>1. Len(digits) \in Nat /\ k \in 1 .. Len(digits) /\ 1 \in 1 .. Len(digits)
    BY TypedFacts DEF Typed
  <2>2. k - 1 \in 0 .. Len(digits)
    BY <2>1
  <2>3. /\ base \in Nat /\ base >= 2 /\ digits[k] \in Nat /\ digits[1] \in Nat
    BY <2>1, TypedFacts
  <2>. QED
    BY <2>1, <2>2, <2>3, PartialFacts
<1>3. CASE k = 1
  BY <1>2, <1>3
<1>4. CASE k > 1
  <2>1. Partial(k - 1) >= 1
    BY <1>1, <1>2, <1>4
  <2>2. Partial(k - 1) * base >= base
    BY <1>2, <2>1
  <2>. QED
    BY <1>2, <2>2
<1>. QED
  BY <1>3, <1>4

-----------------------------------------------------------------------------
(* Words *)

\* Wrapping takes a natural to a word, and leaves it alone if it is one.
LEMMA WrapFacts ==
  ASSUME NEW n \in Nat
  PROVE  /\ Wrap(n) \in Word /\ Wrap(n) \in Nat /\ Wrap(n) =< n
         /\ n < Modulus => Wrap(n) = n
BY ModulusAssumption DEF Wrap, Word

\* The check of a product: dividing it by one factor gives the other only if it
\* has not wrapped.
LEMMA ProductCheck ==
  ASSUME NEW d \in Nat, NEW p \in Nat, p > 0
  PROVE  /\ d * p \in Nat
         /\ Wrap(d * p) \div p = d => d * p < Modulus /\ Wrap(d * p) = d * p
         /\ Wrap(d * p) \div p # d => d * p >= Modulus
<1>1. d * p \in Nat
  OBVIOUS
<1>2. Wrap(d * p) \in Nat /\ Wrap(d * p) < Modulus /\ Wrap(d * p) =< d * p
      /\ (d * p < Modulus => Wrap(d * p) = d * p)
  BY <1>1, WrapFacts, ModulusAssumption DEF Word
<1>3. ASSUME Wrap(d * p) \div p = d
      PROVE  d * p < Modulus /\ Wrap(d * p) = d * p
  <2>1. d * p =< Wrap(d * p)
    <3>. DEFINE w == Wrap(d * p)
    <3>1. w \in Nat /\ w \div p = d
      BY <1>2, <1>3
    <3>. HIDE DEF w
    <3>2. d * p =< w
      BY <3>1
    <3>. QED
      BY <3>2 DEF w
  <2>. QED
    BY <1>1, <1>2, <2>1, ModulusAssumption
<1>4. ASSUME Wrap(d * p) \div p # d
      PROVE  d * p >= Modulus
  <2>1. (d * p) \div p = d
    OBVIOUS
  <2>. QED
    BY <1>1, <1>2, <1>4, <2>1, ModulusAssumption
<1>. QED
  BY <1>1, <1>3, <1>4

\* The check of a sum: it is less than a term only if it has wrapped.
LEMMA SumCheck ==
  ASSUME NEW v \in Nat, v < Modulus, NEW w \in Nat, w < Modulus
  PROVE  /\ Wrap(v + w) < v => v + w >= Modulus
         /\ ~ Wrap(v + w) < v => v + w < Modulus /\ Wrap(v + w) = v + w
<1>1. v + w < Modulus => Wrap(v + w) = v + w
  BY WrapFacts
<1>2. v + w >= Modulus => Wrap(v + w) = v + w - Modulus
  BY ModulusAssumption DEF Wrap
<1>. QED
  BY <1>1, <1>2, ModulusAssumption

\* The largest magnitudes are words, and Overflow is none of them.
LEMMA MaxValueFacts ==
  ASSUME negate \in BOOLEAN, Number \in Nat
  PROVE  /\ Modulus \div 2 \in Nat /\ Modulus = 2 * (Modulus \div 2) /\ Modulus \div 2 >= 2
         /\ MaxValue \in Nat /\ MaxValue < Overflow
         /\ negate => MaxValue = Modulus \div 2
         /\ ~ negate => MaxValue = Modulus \div 2 - 1
         /\ InRange <=> Number =< MaxValue
<1>1. PICK h \in Nat : h = Modulus \div 2 /\ Modulus = 2 * h /\ h >= 2
  <2>1. /\ Modulus \div 2 \in Nat
        /\ Modulus = 2 * (Modulus \div 2) + (Modulus % 2)
    BY ModulusAssumption
  <2>2. Modulus = 2 * (Modulus \div 2) /\ Modulus \div 2 >= 2
    BY <2>1, ModulusAssumption
  <2>. QED
    BY <2>1, <2>2
<1>2. CASE negate
  BY <1>1, <1>2 DEF MaxValue, Overflow, InRange
<1>3. CASE ~ negate
  BY <1>1, <1>3 DEF MaxValue, Overflow, InRange
<1>. QED
  BY <1>1, <1>2, <1>3

-----------------------------------------------------------------------------
(* One digit *)

\* What AddDigit finds: the number is what the digits before this one stand for,
\* at the next place, and the sum it is about to make.
LEMMA Decomposition ==
  ASSUME Typed, Exact, i > 0, result = Converting
  PROVE  /\ Digit \in Nat /\ Digit < base
         /\ Partial(i - 1) \in Nat
         /\ Digit * place \in Nat /\ place * base \in Nat
         /\ Partial(i - 1) * (place * base) \in Nat
         /\ Number = Partial(i - 1) * (place * base) + (value + Digit * place)
<1>1. /\ i \in 1 .. Len(digits) /\ i - 1 \in 0 .. Len(digits)
      /\ value \in Nat /\ place \in Nat /\ base \in Nat
  BY TypedFacts
<1>2. Digit \in Nat /\ Digit < base
  BY <1>1, TypedFacts DEF Digit
<1>3. /\ Partial(i - 1) \in Nat
      /\ Partial(i) = Partial(i - 1) * base + Digit
      /\ Number = Partial(i) * place + value
  BY <1>1, PartialFacts DEF Digit, Exact
<1>4. \A P, b, d, p, v \in Nat : (P * b + d) * p + v = P * (p * b) + (v + d * p)
  OBVIOUS
<1>5. Number = Partial(i - 1) * (place * base) + (value + Digit * place)
  BY <1>1, <1>2, <1>3, <1>4, SMTT(30)
<1>. QED
  BY <1>1, <1>2, <1>3, <1>5, SMTT(30)

\* An AddDigit that finds no overflow adds the digit; one that finds some has met a
\* literal too large, or with superfluous zeros.
LEMMA AddDigitFacts ==
  ASSUME Typed, Exact, AddDigit
  PROVE  \/ /\ result' = Converting
            /\ value' = value + Digit * place /\ value' =< MaxValue
            /\ i > 1 => place' = place * base /\ place * base < Modulus
         \/ /\ result' = Overflow
            /\ value' \in Word
            /\ place' = place
            /\ \/ Number > MaxValue
               \/ i > 1 /\ place * base >= Modulus
<1>1. /\ i > 0 /\ result = Converting
      /\ value \in Nat /\ value < Modulus /\ place \in Nat /\ place > 0 /\ place < Modulus
      /\ base \in Nat /\ Number \in Nat /\ MaxValue \in Nat /\ MaxValue < Overflow
      /\ Modulus \in Nat
  BY TypedFacts, PartialFacts, MaxValueFacts, ModulusAssumption, SMTT(30) DEF AddDigit, Typed
<1>2. /\ Digit \in Nat /\ Digit * place \in Nat /\ place * base \in Nat
      /\ value + Digit * place =< Number
  BY <1>1, Decomposition
<1>3. /\ Increment \in Nat /\ Increment < Modulus
      /\ ProductOverflows => Digit * place >= Modulus
      /\ ~ ProductOverflows => Increment = Digit * place
  BY <1>1, <1>2, ProductCheck, WrapFacts DEF Increment, ProductOverflows, Word
<1>4. /\ SumOverflows => value + Increment >= Modulus
      /\ ~ SumOverflows => value + Increment < Modulus /\ Wrap(value + Increment) = value + Increment
  BY <1>1, <1>3, SumCheck DEF SumOverflows
<1>5. /\ PlaceOverflows => i > 1 /\ place * base >= Modulus
      /\ (~ PlaceOverflows /\ i > 1) => place * base < Modulus /\ Wrap(place * base) = place * base
  <2>1. place * base = base * place
    BY <1>1
  <2>. QED
    BY <1>1, <2>1, ProductCheck DEF PlaceOverflows
<1>6. CASE ProductOverflows \/ SumOverflows
  <2>1. result' = Overflow /\ value' = value /\ place' = place
    BY <1>6 DEF AddDigit
  <2>2. Number >= Modulus
    BY <1>1, <1>2, <1>3, <1>4, <1>6
  <2>. QED
    BY <1>1, <2>1, <2>2 DEF Typed, Overflow
<1>7. CASE ~ ProductOverflows /\ ~ SumOverflows
  <2>1. /\ value' = Wrap(value + Increment)
        /\ result' = IF value' > MaxValue \/ PlaceOverflows THEN Overflow ELSE Converting
        /\ place' = IF result' = Overflow THEN place ELSE Wrap(place * base)
    BY <1>7 DEF AddDigit
  <2>2. value' = value + Digit * place /\ value' \in Nat /\ value' < Modulus
    BY <1>1, <1>2, <1>3, <1>4, <1>7, <2>1
  <2>3. value' \in Word
    BY <1>1, <2>2 DEF Word
  <2>4. Converting # Overflow
    BY <1>1 DEF Converting, Overflow
  <2>5. CASE value' > MaxValue
    <3>1. result' = Overflow /\ place' = place /\ Number > MaxValue
      BY <1>1, <1>2, <2>1, <2>2, <2>5
    <3>. QED
      BY <2>3, <3>1
  <2>6. CASE PlaceOverflows
    <3>1. result' = Overflow /\ place' = place
      BY <2>1, <2>6
    <3>. QED
      BY <1>5, <2>3, <2>6, <3>1
  <2>7. CASE ~ value' > MaxValue /\ ~ PlaceOverflows
    <3>1. result' = Converting /\ place' = Wrap(place * base) /\ value' =< MaxValue
      BY <1>1, <2>1, <2>2, <2>4, <2>7
    <3>. QED
      BY <1>5, <2>2, <2>7, <3>1
  <2>. QED
    BY <2>5, <2>6, <2>7
<1>. QED
  BY <1>6, <1>7

\* The literal does not change, and so neither does its number.
LEMMA NumberKept ==
  ASSUME digits' = digits, base' = base
  PROVE  Number' = Number
BY DEF Number

\* Adding a digit keeps the sum the number, and a rejected literal is out of range.
LEMMA AddDigitStep ==
  ASSUME IInv, AddDigit
  PROVE  IInv'
<1>1. /\ i > 0 /\ result = Converting /\ i' = i - 1
      /\ digits' = digits /\ base' = base /\ negate' = negate
  BY DEF AddDigit
<1>2. /\ Typed /\ Exact /\ Number' = Number /\ MaxValue' = MaxValue
      /\ (InRange' <=> InRange)
  BY <1>1, NumberKept DEF IInv, MaxValue, InRange
<1>3. /\ i - 1 \in 0 .. Len(digits) /\ i \in Nat
      /\ value \in Nat /\ place \in Nat /\ base \in Nat /\ base >= 2 /\ place > 0
      /\ Modulus \in Nat
  BY <1>1, <1>2, TypedFacts, ModulusAssumption DEF Typed
<1>4. /\ Digit \in Nat /\ Digit * place \in Nat /\ place * base \in Nat
      /\ Partial(i - 1) \in Nat /\ Partial(i - 1) * (place * base) \in Nat
      /\ Number = Partial(i - 1) * (place * base) + (value + Digit * place)
      /\ Number \in Nat
  BY <1>1, <1>2, Decomposition, PartialFacts
<1>5. MaxValue \in Nat /\ MaxValue < Overflow /\ (InRange <=> Number =< MaxValue)
  BY <1>2, <1>4, MaxValueFacts DEF Typed
<1>6. /\ Converting \notin Word /\ Overflow \in Word /\ Converting # Overflow
  BY ModulusAssumption DEF Converting, Overflow, Word
<1>7. CASE /\ result' = Converting
           /\ value' = value + Digit * place /\ value' =< MaxValue
           /\ i > 1 => place' = place * base /\ place * base < Modulus
  <2>1. value' \in Word
    BY <1>3, <1>4, <1>5, <1>7 DEF Word, Overflow
  <2>2. place' \in Word /\ (i' > 0 => place' > 0)
    <3>1. CASE i > 1
      <4>1. place * base >= 1
        BY <1>3
      <4>. QED
        BY <1>3, <1>4, <1>7, <3>1, <4>1 DEF Word
    <3>2. CASE i = 1
      <4>1. place' = IF result' = Overflow THEN place ELSE Wrap(place * base)
        BY DEF AddDigit
      <4>. QED
        BY <1>1, <1>4, <1>6, <1>7, <3>2, <4>1, WrapFacts
    <3>. QED
      BY <1>1, <1>3, <3>1, <3>2
  <2>3. Typed'
    BY <1>1, <1>2, <1>3, <1>7, <2>1, <2>2 DEF Typed
  <2>4. Partial(i - 1) * place' + value' = Number
    <3>1. CASE i > 1
      BY <1>4, <1>7, <3>1
    <3>2. CASE i = 1
      <4>1. Partial(i - 1) = 0
        BY <1>2, <3>2, PartialFacts
      <4>2. place' \in Nat
        BY <2>2, <1>3 DEF Word
      <4>. QED
        BY <1>3, <1>4, <1>7, <4>1, <4>2
    <3>. QED
      BY <1>1, <1>3, <3>1, <3>2
  <2>5. Exact'
    BY <1>1, <1>2, <1>7, <2>4 DEF Exact, Partial
  <2>6. Accepted' /\ InRangeIsAccepted'
    BY <1>6, <1>7 DEF Accepted, Converted, InRangeIsAccepted
  <2>. QED
    BY <2>3, <2>5, <2>6 DEF IInv
<1>8. CASE /\ result' = Overflow
           /\ value' \in Word
           /\ place' = place
           /\ \/ Number > MaxValue
              \/ i > 1 /\ place * base >= Modulus
  <2>1. Typed'
    BY <1>1, <1>2, <1>3, <1>6, <1>8 DEF Typed
  <2>2. Exact' /\ Accepted'
    BY <1>6, <1>8 DEF Exact, Accepted, Converted
  <2>3. ASSUME InRange
        PROVE  Len(digits) > 1 /\ digits[1] = 0
    <3>1. i > 1 /\ place * base >= Modulus /\ Number =< MaxValue
      BY <1>4, <1>5, <1>8, <2>3
    <3>2. i =< Len(digits) /\ Len(digits) \in Nat
      BY <1>2, TypedFacts
    <3>3. ASSUME digits[1] # 0
          PROVE  FALSE
      <4>1. Partial(i - 1) >= 1
        BY <1>2, <1>3, <3>1, <3>2, <3>3, PartialIsPositive
      <4>2. Partial(i - 1) * (place * base) >= place * base
        BY <1>4, <4>1
      <4>3. Number >= Modulus
        BY <1>3, <1>4, <3>1, <4>2
      <4>. QED
        BY <1>3, <1>4, <1>5, <3>1, <4>3 DEF Overflow
    <3>. QED
      BY <1>3, <3>1, <3>2, <3>3
  <2>4. InRangeIsAccepted'
    BY <1>1, <1>2, <2>3 DEF InRangeIsAccepted
  <2>. QED
    BY <2>1, <2>2, <2>4 DEF IInv
<1>. QED
  BY <1>2, <1>7, <1>8, AddDigitFacts

\* At the end nothing is left to be added.
LEMMA FinishStep ==
  ASSUME IInv, Finish
  PROVE  IInv'
<1>1. /\ i = 0 /\ result = Converting /\ result' = value
      /\ UNCHANGED <<digits, base, negate, i, value, place>>
  BY DEF Finish
<1>2. /\ Typed /\ Number' = Number /\ MaxValue' = MaxValue
  BY <1>1, NumberKept DEF IInv, MaxValue
<1>3. value \in Nat /\ place \in Nat /\ Partial(0) = 0 /\ Number \in Nat
  BY <1>2, TypedFacts, PartialFacts
<1>4. value = Number /\ value =< MaxValue
  BY <1>1, <1>3 DEF IInv, Exact
<1>5. MaxValue \in Nat /\ MaxValue < Overflow
  BY <1>2, <1>3, MaxValueFacts DEF Typed
<1>6. value # Overflow /\ value # Converting
  BY <1>3, <1>4, <1>5, ModulusAssumption DEF Overflow, Converting
<1>7. Typed'
  BY <1>1, <1>2, <1>6 DEF Typed
<1>8. Exact' /\ Accepted' /\ InRangeIsAccepted'
  BY <1>1, <1>2, <1>4, <1>6 DEF Exact, Accepted, InRangeIsAccepted
<1>. QED
  BY <1>7, <1>8 DEF IInv

-----------------------------------------------------------------------------
(* The invariant, and what follows from it *)

\* A literal before its conversion.
Fresh ==
  /\ base \in Bases
  /\ digits \in Seq(0 .. base - 1) /\ Len(digits) > 0
  /\ negate \in BOOLEAN
  /\ i = Len(digits) /\ value = 0 /\ place = 1 /\ result = Converting

\* A literal has a digit at least.
LEMMA InitIsFresh == Init => Fresh
<1>. SUFFICES ASSUME Init PROVE Fresh
  OBVIOUS
<1>1. PICK n \in 1 .. MaxDigits : digits \in [1 .. n -> 0 .. base - 1]
  BY DEF Init
<1>2. n \in Nat /\ n > 0
  BY MaxDigitsAssumption
<1>3. digits \in Seq(0 .. base - 1) /\ Len(digits) = n
  BY <1>1, <1>2, FunctionIsSeq
<1>. QED
  BY <1>2, <1>3 DEF Init, Fresh

\* All of it is still to be added.
LEMMA FreshIInv == Fresh => IInv
<1>. SUFFICES ASSUME Fresh PROVE IInv
  OBVIOUS
<1>1. digits \in Seq(0 .. base - 1) /\ Len(digits) \in Nat /\ Len(digits) > 0
  BY DEF Fresh
<1>2. /\ 0 \in Word /\ 1 \in Word /\ Converting \notin Word
      /\ Converting # Overflow
  BY ModulusAssumption DEF Word, Converting, Overflow
<1>3. Typed
  BY <1>1, <1>2 DEF Fresh, Typed
<1>4. Number \in Nat /\ Number = Partial(i)
  BY <1>1, <1>3, PartialFacts DEF Fresh
<1>5. MaxValue \in Nat
  BY <1>3, <1>4, MaxValueFacts DEF Typed
<1>6. Exact
  BY <1>4, <1>5 DEF Fresh, Exact
<1>7. Accepted /\ InRangeIsAccepted
  BY <1>2 DEF Fresh, Accepted, Converted, InRangeIsAccepted
<1>. QED
  BY <1>3, <1>6, <1>7 DEF IInv

\* A step without a change keeps the invariant.
LEMMA StutterStep ==
  ASSUME IInv, UNCHANGED vars
  PROVE  IInv'
<1>1. /\ digits' = digits /\ base' = base /\ negate' = negate /\ i' = i
      /\ value' = value /\ place' = place /\ result' = result
  BY DEF vars
<1>2. Number' = Number /\ MaxValue' = MaxValue
  BY <1>1, NumberKept DEF MaxValue
<1>3. Typed'
  BY <1>1 DEF IInv, Typed
<1>4. Exact' /\ Accepted'
  BY <1>1, <1>2 DEF IInv, Exact, Accepted, Converted, Partial
<1>5. InRangeIsAccepted'
  BY <1>1, <1>2 DEF IInv, InRangeIsAccepted, InRange
<1>. QED
  BY <1>3, <1>4, <1>5 DEF IInv

\* IInv is inductive.
LEMMA StepIInv == IInv /\ [Next]_vars => IInv'
BY AddDigitStep, FinishStep, StutterStep DEF Next, Done

\* The loop of string_to_int keeps its sum in every reachable state.
THEOREM Invariance == Spec => []IInv
<1>. QED
  BY InitIsFresh, FreshIInv, StepIInv, PTL DEF Spec

\* What is accepted is the number, and literal_to_int64 gives it its sign.
LEMMA ExactFollows == IInv => LiteralIsExact
<1>. SUFFICES ASSUME IInv, Converted
              PROVE  ToInt64(result) = (IF negate THEN -Number ELSE Number)
  BY DEF LiteralIsExact
<1>1. Typed /\ Number \in Nat /\ result = Number /\ Number =< MaxValue
  BY PartialFacts, TypedFacts DEF IInv, Accepted
<1>2. PICK h \in Nat : h = Modulus \div 2 /\ Modulus = 2 * h /\ h >= 2
  BY <1>1, MaxValueFacts DEF Typed
<1>3. (negate => Number =< h) /\ (~ negate => Number < h)
  BY <1>1, <1>2, MaxValueFacts DEF Typed
<1>4. CASE Number = h
  <2>1. negate
    BY <1>1, <1>2, <1>3, <1>4 DEF Typed
  <2>2. ToInt64(result) = (h - Modulus) * 1
    BY <1>1, <1>2, <1>4, <2>1 DEF ToInt64, Cast
  <2>. QED
    BY <1>2, <1>4, <2>1, <2>2
<1>5. CASE Number # h
  <2>1. Number < h
    BY <1>1, <1>2, <1>3, <1>5 DEF Typed
  <2>2. ToInt64(result) = Number * (IF negate THEN -1 ELSE 1)
    BY <1>1, <1>2, <2>1 DEF ToInt64, Cast
  <2>. QED
    BY <1>1, <2>2
<1>. QED
  BY <1>4, <1>5

\* Every variable is a word, and the place that string_to_int divides by is never
\* zero while its loop runs.
THEOREM TypeCorrect == Spec => []TypeOK
<1>1. IInv => TypeOK
  BY DEF IInv, Typed, TypeOK
<1>. QED
  BY <1>1, Invariance, PTL

\* The int64_t that literal_to_int64 makes of what string_to_int accepts is the
\* number that was written, with its sign.
THEOREM AcceptedAreExact == Spec => []LiteralIsExact
BY ExactFollows, Invariance, PTL

\* string_to_int rejects no literal in the range that is written without
\* superfluous zeros.
THEOREM InRangeAreAccepted == Spec => []InRangeIsAccepted
<1>1. IInv => InRangeIsAccepted
  BY DEF IInv
<1>. QED
  BY <1>1, Invariance, PTL

-----------------------------------------------------------------------------
(* From the token to the number *)

\* The value of a digit is below its base.
LEMMA CharacterValues ==
  /\ \A c \in Digits : CharacterToInt[c] \in 0 .. 9
  /\ \A c \in HexDigits : CharacterToInt[c] \in 0 .. 15
<1>1. ASSUME NEW c \in Digits
      PROVE  CharacterToInt[c] \in 0 .. 9
  <2>1. CharacterToInt[c] =
          CHOOSE n \in 0 .. 9 : <<"0", "1", "2", "3", "4", "5", "6", "7", "8", "9">>[n + 1] = c
    BY DEF CharacterToInt, HexDigits
  <2>2. \E n \in 0 .. 9 : <<"0", "1", "2", "3", "4", "5", "6", "7", "8", "9">>[n + 1] = c
    <3>1. PICK s : s = <<"0", "1", "2", "3", "4", "5", "6", "7", "8", "9">>
      OBVIOUS
    <3>2. \E k \in 1 .. 10 : s[k] = c
      BY <3>1 DEF Digits
    <3>3. \A k \in 1 .. 10 : k - 1 \in 0 .. 9 /\ (k - 1) + 1 = k
      OBVIOUS
    <3>. QED
      BY <3>1, <3>2, <3>3, Zenon
  <2>. QED
    BY <2>1, <2>2, Zenon
<1>2. ASSUME NEW c \in HexDigits, c \notin Digits
      PROVE  CharacterToInt[c] \in 0 .. 15
  <2>1. \A n \in {10, 11, 12, 13, 14, 15} : n \in 0 .. 15
    OBVIOUS
  <2>. QED
    BY <1>2, <2>1 DEF CharacterToInt, HexDigits
<1>3. \A n \in 0 .. 9 : n \in 0 .. 15
  OBVIOUS
<1>. QED
  BY <1>1, <1>2, <1>3, Zenon

\* A literal's token, from the first of its digits on.
LEMMA SpellingFacts ==
  ASSUME NEW w \in Seq(STRING), NEW p \in 1 .. Len(w), NEW S, All(SubSeq(w, p, Len(w)), S),
         NEW b \in Int, \A c \in S : CharacterToInt[c] \in 0 .. b - 1
  PROVE  /\ Spelling(SubSeq(w, p, Len(w))) \in Seq(0 .. b - 1)
         /\ Len(Spelling(SubSeq(w, p, Len(w)))) = Len(w) - p + 1
<1>1. PICK v, n : v = SubSeq(w, p, Len(w)) /\ n = Len(w) - p + 1 /\ n \in Nat /\ Len(v) = n
  <2>1. w \in Seq(STRING) /\ p \in 1 .. Len(w)
    OBVIOUS
  <2>2. Len(w) - p + 1 \in Nat /\ Len(SubSeq(w, p, Len(w))) = Len(w) - p + 1
    BY ONLY <2>1
  <2>. QED
    BY <2>2, Zenon
<1>2. \A k \in 1 .. n : v[k] \in S
  BY <1>1, Zenon DEF All
<1>3. \A k \in 1 .. n : CharacterToInt[v[k]] \in 0 .. b - 1
  BY <1>2, Zenon
<1>4. [k \in 1 .. n |-> CharacterToInt[v[k]]] \in [1 .. n -> 0 .. b - 1]
  BY <1>3, Zenon
<1>5. Spelling(v) = [k \in 1 .. n |-> CharacterToInt[v[k]]]
  BY <1>1, Zenon DEF Spelling
<1>6. Spelling(v) \in Seq(0 .. b - 1) /\ Len(Spelling(v)) = n
  <2>1. PICK f, T : f = Spelling(v) /\ T = 0 .. b - 1 /\ f \in [1 .. n -> T]
    BY <1>4, <1>5, Zenon
  <2>. QED
    <3>1. n \in Nat
      BY <1>1
    <3>2. f \in Seq(T) /\ Len(f) = n
      BY <2>1, <3>1, FunctionIsSeq
    <3>. QED
      BY <2>1, <3>2, Zenon
<1>. QED
  BY <1>1, <1>6, Zenon

\* No literal has been found yet.
Waiting ==
  /\ digits = <<>> /\ base = 10 /\ negate = FALSE
  /\ i = 0 /\ value = 0 /\ place = 1 /\ result = Converting

ScannedInv == ScannerInv /\ (Waiting \/ IInv)

\* The digits of a token are digits of its base.
LEMMA LiteralIsFresh == ScannerInv /\ Waiting /\ IrIntLiteralFromAst => Fresh'
<1>. SUFFICES ASSUME ScannerInv, Waiting, IrIntLiteralFromAst PROVE Fresh'
  OBVIOUS
<1>1. PICK t : t = LiteralToken /\ t \in GoodTokens
  <2>1. tokens \in Seq(GoodTokens)
    BY DEF ScannerInv, ScannerTyped
  <2>2. Len(tokens) \in {1, 2}
    BY Zenon DEF IrIntLiteralFromAst, IsLiteral
  <2>3. Len(tokens) \in 1 .. Len(tokens)
    BY <2>2
  <2>. QED
    BY <2>1, <2>3 DEF LiteralToken
<1>2. PICK w : w = t.word /\ w \in Seq(STRING) /\ InPattern(t.type, w) /\ Len(w) > 0
  <2>1. PICK T, S : T = GoodTypes \cup {MultilineComment} /\ S = Seq(STRING)
    OBVIOUS
  <2>2. t \in [type : T, word : S] /\ InPattern(t.type, t.word) /\ Len(t.word) > 0
    BY <1>1, <2>1, Zenon DEF GoodTokens
  <2>3. t.word \in S
    BY <2>2
  <2>. QED
    BY <2>1, <2>2, <2>3, Zenon
<1>3. t.type = HexLiteral \/ t.type = DecimalLiteral
  BY <1>1, Zenon DEF IrIntLiteralFromAst, IsLiteral
<1>4. /\ negate' = (Len(tokens) = 2) /\ i' = Len(digits')
      /\ value' = 0 /\ place' = 1 /\ result' = Converting
  BY DEF IrIntLiteralFromAst, Waiting
<1>5. negate' \in BOOLEAN
  BY <1>4
<1>6. 10 \in Bases /\ 16 \in Bases
  BY LiteralBasesAssumption
<1>7. Len(w) \in Nat /\ Len(w) > 0
  BY <1>2
<1>8. base' \in Bases /\ digits' \in Seq(0 .. base' - 1) /\ Len(digits') > 0
  <2>1. CASE t.type = HexLiteral
    <3>1. base' = 16 /\ digits' = Spelling(SubSeq(w, 2 + 1, Len(w)))
      BY <1>1, <1>2, <2>1, Zenon DEF IrIntLiteralFromAst
    <3>2. Len(w) > 2 /\ All(SubSeq(w, 3, Len(w)), HexDigits)
      BY <1>2, <2>1, Patterns, Zenon
    <3>3. 3 \in 1 .. Len(w) /\ 2 + 1 = 3 /\ 16 - 1 = 15 /\ 16 \in Int /\ Len(w) - 3 + 1 > 0
      <4>1. Len(w) > 2
        BY <3>2
      <4>. QED
        BY ONLY <1>7, <4>1
    <3>4. \A c \in HexDigits : CharacterToInt[c] \in 0 .. 16 - 1
      BY <3>3, CharacterValues, Zenon
    <3>5. digits' \in Seq(0 .. 16 - 1) /\ Len(digits') = Len(w) - 3 + 1
      BY <1>2, <3>1, <3>2, <3>3, <3>4, SpellingFacts, Zenon
    <3>. QED
      BY <1>6, <3>1, <3>3, <3>5, Zenon
  <2>2. CASE t.type = DecimalLiteral
    <3>1. HexLiteral # DecimalLiteral
      BY DEF HexLiteral, DecimalLiteral
    <3>2. base' = 10 /\ digits' = Spelling(SubSeq(w, 0 + 1, Len(w)))
      BY <1>1, <1>2, <2>2, <3>1, Zenon DEF IrIntLiteralFromAst
    <3>3. 1 \in 1 .. Len(w) /\ 0 + 1 = 1 /\ 10 - 1 = 9 /\ 10 \in Int /\ Len(w) - 1 + 1 > 0
      BY ONLY <1>7
    <3>4. SubSeq(w, 1, Len(w)) = w
      BY ONLY <1>2, <1>7
    <3>5. All(SubSeq(w, 1, Len(w)), Digits)
      <4>1. All(w, Digits)
        BY <1>2, <2>2, Patterns, Zenon
      <4>. QED
        BY <3>4, <4>1, Zenon
    <3>6. \A c \in Digits : CharacterToInt[c] \in 0 .. 10 - 1
      BY <3>3, CharacterValues, Zenon
    <3>7. digits' \in Seq(0 .. 10 - 1) /\ Len(digits') = Len(w) - 1 + 1
      BY <1>2, <3>2, <3>3, <3>5, <3>6, SpellingFacts, Zenon
    <3>. QED
      BY <1>6, <3>2, <3>3, <3>7, Zenon
  <2>. QED
    BY <1>3, <2>1, <2>2
<1>. QED
  BY <1>4, <1>5, <1>8, Zenon DEF Fresh

\* The loop of string_to_int runs on a literal.
LEMMA ConversionStep == ScannedInv /\ StringToInt => ScannedInv'
<1>. SUFFICES ASSUME ScannedInv, StringToInt PROVE ScannedInv'
  OBVIOUS
<1>1. ScannerInv'
  BY ScannerStutters DEF ScannedInv, StringToInt
<1>2. IInv
  BY DEF ScannedInv, StringToInt, Waiting
<1>3. [Next]_vars
  BY DEF StringToInt, Next
<1>4. IInv'
  BY <1>2, <1>3, StepIInv
<1>. QED
  BY <1>1, <1>4 DEF ScannedInv

\* What is not converted stays as it is.
LEMMA UnconvertedStep == ScannedInv /\ UNCHANGED vars => (Waiting \/ IInv)'
<1>. SUFFICES ASSUME ScannedInv, UNCHANGED vars PROVE (Waiting \/ IInv)'
  OBVIOUS
<1>1. CASE IInv
  BY <1>1, StutterStep
<1>2. CASE Waiting
  BY <1>2 DEF Waiting, vars
<1>. QED
  BY <1>1, <1>2 DEF ScannedInv

\* The scanner reads by the longest good tokens and the conversion keeps its sum.
THEOREM ScannedInvariance == ScannedSpec => []ScannedInv
<1>1. ScannedInit => ScannedInv
  BY ScannerStarts DEF ScannedInit, ScannedInv, Waiting
<1>2. ScannedInv /\ Scan => ScannedInv'
  BY ScannerStep, UnconvertedStep DEF ScannedInv, Scan
<1>3. ScannedInv /\ UNCHANGED <<vars, scanner>> => ScannedInv'
  BY ScannerStutters, UnconvertedStep DEF ScannedInv
<1>4. ScannedInv /\ IrIntLiteralFromAst => ScannerInv' /\ Fresh'
  <2>1. IInv => digits # <<>>
    BY DEF IInv, Typed
  <2>2. IrIntLiteralFromAst => digits = <<>> /\ UNCHANGED scanner
    BY DEF IrIntLiteralFromAst
  <2>. QED
    BY <2>1, <2>2, LiteralIsFresh, ScannerStutters DEF ScannedInv
<1>5. Fresh' => IInv'
  BY FreshIInv, PTL
<1>6. ScannedInv /\ [ScannedNext]_<<vars, scanner>> => ScannedInv'
  BY <1>2, <1>3, <1>4, <1>5, ConversionStep DEF ScannedNext, ScannedInv
<1>. QED
  BY <1>1, <1>6, PTL DEF ScannedSpec

\* Scanner and conversion are well typed from the source file to the int64_t: each round of the
\* scanner's loop passes a character at least and none behind the end, and the place that
\* string_to_int divides by is not zero.
THEOREM StateCorrect == ScannedSpec => []StateOK
<1>1. ScannedInv => StateOK
  <2>1. Waiting => TypeOK
    BY ModulusAssumption DEF Waiting, TypeOK, Word, Converting
  <2>2. IInv => TypeOK
    BY DEF IInv, Typed, TypeOK
  <2>. QED
    BY <2>1, <2>2, ScannerEnds DEF ScannedInv, StateOK
<1>. QED
  BY <1>1, ScannedInvariance, PTL

\* scanner_tokenize finds the longest good token at each place, in every source file, though
\* the first alternative of its regular expression wins.
THEOREM TokensAreTheLongest == ScannedSpec => []TokensAreLongest
<1>1. ScannedInv => TokensAreLongest
  BY ScannerEnds DEF ScannedInv
<1>. QED
  BY <1>1, ScannedInvariance, PTL

\* The int64_t of a literal that is found in a source file is the number that is written there.
THEOREM ScannedAreExact == ScannedSpec => []LiteralIsExact
<1>1. Waiting => LiteralIsExact
  BY DEF Waiting, LiteralIsExact, Converted
<1>2. ScannedInv => LiteralIsExact
  BY <1>1, ExactFollows DEF ScannedInv
<1>. QED
  BY <1>2, ScannedInvariance, PTL

\* A literal in the range that is found in a source file is accepted, if it has no superfluous zeros.
THEOREM ScannedInRangeAreAccepted == ScannedSpec => []InRangeIsAccepted
<1>1. Waiting => InRangeIsAccepted
  BY ModulusAssumption DEF Waiting, InRangeIsAccepted, Converting, Overflow
<1>2. ScannedInv => InRangeIsAccepted
  BY <1>1 DEF ScannedInv, IInv
<1>. QED
  BY <1>2, ScannedInvariance, PTL
===========================================================================
