------------------------- MODULE Expressions_proofs -------------------------
(***************************************************************************)
(* Proofs about module Expressions: first of its arithmetic, for words of  *)
(* any width, then that the analysis and the rules of the language judge a *)
(* program alike, and that an accepted one computes what it says.          *)
(***************************************************************************)
EXTENDS Expressions, SequenceTheorems, TLAPS

-----------------------------------------------------------------------------
(* Words *)

LEMMA WordFacts ==
  /\ Half \in Nat /\ Half >= 2 /\ Modulus \in Nat /\ Modulus = Half + Half /\ Modulus > 0
  /\ MinWord \in Int /\ MinWord = -Half /\ MaxWord \in Int /\ MaxWord = Half - 1
  /\ \A n : n \in Word <=> n \in Int /\ -Half =< n /\ n < Half
  /\ Fault = Half /\ Fault \notin Word
  /\ 0 \in Word /\ 1 \in Word /\ -1 \in Word
BY HalfAssumption DEF Modulus, MinWord, MaxWord, Word, Fault

LEMMA Remainders ==
  ASSUME NEW a \in Int, NEW d \in Nat, d > 0
  PROVE  /\ a % d \in Int /\ 0 =< a % d /\ a % d < d
         /\ \E q \in Int : a = d * q + (a % d)
<1>1. a = d * (a \div d) + (a % d) /\ 0 =< a % d /\ a % d < d /\ a \div d \in Int /\ a % d \in Int
  OBVIOUS
<1>. QED
  BY <1>1

\* A result that is off by less than two moduli is wrapped once at most.
LEMMA WrapFacts ==
  ASSUME NEW n \in Int
  PROVE  /\ Wrap(n) \in Word
         /\ n \in Word => Wrap(n) = n
         /\ n >= -Half - Modulus /\ n < -Half => Wrap(n) = n + Modulus
         /\ n >= Half /\ n < Half + Modulus => Wrap(n) = n - Modulus
<1>. DEFINE r == (n + Half) % Modulus
<1>1. n + Half \in Int /\ Modulus \in Nat /\ Modulus > 0
  BY WordFacts
<1>2. r \in Int /\ 0 =< r /\ r < Modulus
  BY <1>1, Remainders
<1>3. PICK q \in Int : n + Half = Modulus * q + r
  BY <1>1, Remainders
<1>4. Wrap(n) = r - Half
  <2>1. n - MinWord = n + Half
    BY WordFacts
  <2>. QED
    BY <1>2, <2>1, WordFacts DEF Wrap
<1>. HIDE DEF r
<1>5. q >= 1 => Modulus * q >= Modulus
  BY <1>1, <1>3
<1>6. q =< -1 => Modulus * q =< -Modulus
  BY <1>1, <1>3
<1>7. q >= 2 => Modulus * q >= Modulus + Modulus
  BY <1>1, <1>3
<1>8. q =< -2 => Modulus * q =< -Modulus - Modulus
  BY <1>1, <1>3
<1>9. /\ q = 0 => Modulus * q = 0
      /\ q = 1 => Modulus * q = Modulus
      /\ q = -1 => Modulus * q = -Modulus
      /\ Modulus * q \in Int
  BY <1>1, <1>3
<1>. DEFINE p == Modulus * q
<1>10. n + Half = p + r /\ p \in Int
  BY <1>3, <1>9
<1>11. n \in Word => q = 0
  BY <1>10, <1>2, <1>5, <1>6, WordFacts
<1>12. n >= -Half - Modulus /\ n < -Half => q = -1
  BY <1>10, <1>2, <1>5, <1>8, <1>9, WordFacts
<1>13. n >= Half /\ n < Half + Modulus => q = 1
  BY <1>10, <1>2, <1>7, <1>6, <1>9, WordFacts
<1>. QED
  BY <1>2, <1>4, <1>9, <1>10, <1>11, <1>12, <1>13, WordFacts

LEMMA UnsignedFacts ==
  ASSUME NEW n \in Word
  PROVE  /\ n >= 0 => Unsigned(n) = n
         /\ n < 0 => Unsigned(n) = n + Modulus
<1>1. n \in Int /\ Modulus \in Nat /\ Modulus > 0
  BY WordFacts
<1>. DEFINE r == n % Modulus
<1>2. r \in Int /\ 0 =< r /\ r < Modulus
  BY <1>1, Remainders
<1>3. PICK q \in Int : n = Modulus * q + r
  BY <1>1, Remainders
<1>. HIDE DEF r
<1>4. /\ q >= 1 => Modulus * q >= Modulus
      /\ q =< -2 => Modulus * q =< -Modulus - Modulus
      /\ q =< -1 => Modulus * q =< -Modulus
      /\ q = 0 => Modulus * q = 0
      /\ q = -1 => Modulus * q = -Modulus
      /\ Modulus * q \in Int
  BY <1>1, <1>3
<1>5. n >= 0 => q = 0
  BY <1>1, <1>2, <1>3, <1>4, WordFacts
<1>6. n < 0 => q = -1
  BY <1>1, <1>2, <1>3, <1>4, WordFacts
<1>. QED
  BY <1>1, <1>2, <1>3, <1>4, <1>5, <1>6 DEF r, Unsigned

\* idivq and the C operator round towards zero: the rest has the sign of the dividend.
LEMMA QuotientFacts ==
  ASSUME NEW l \in Word, NEW r \in Word, r # 0, ~ (l = MinWord /\ r = -1)
  PROVE  /\ Quotient(l, r) \in Word
         /\ Remainder(l, r) \in Word
         /\ l - r * Quotient(l, r) = Remainder(l, r)
<1>. DEFINE a == Magnitude(l)
            b == Magnitude(r)
            q == a \div b
            p == b * q
<1>1. l \in Int /\ r \in Int /\ -Half =< l /\ l < Half /\ -Half =< r /\ r < Half
  BY WordFacts
<1>2. a \in Int /\ b \in Int /\ 0 =< a /\ a =< Half /\ 0 < b /\ b =< Half
  BY <1>1, WordFacts DEF Magnitude
<1>3. IF l < 0 THEN l = -a ELSE l = a
  BY <1>1 DEF Magnitude
<1>4. IF r < 0 THEN r = -b ELSE r = b
  BY <1>1 DEF Magnitude
<1>5. b = 1 /\ a = Half => (l < 0 /\ r >= 0)
  BY <1>1, <1>2, <1>3, <1>4, WordFacts
<1>. HIDE DEF a, b
<1>6. q \in Int /\ p =< a /\ a < p + b /\ p \in Int
  BY <1>2
<1>7. q >= 0
  <2>1. q =< -1 => p =< -b
    <3>. HIDE DEF q
    <3>. QED
      BY <1>2, <1>6
  <2>. QED
    BY <2>1, <1>2, <1>6
<1>. HIDE DEF q
<1>8. p >= 0 /\ p >= q /\ (b >= 2 => p >= q + q) /\ (b = 1 => p = q)
  BY <1>2, <1>6, <1>7
<1>9. Quotient(l, r) = IF (l < 0) = (r < 0) THEN q ELSE -q
  BY DEF Quotient, q, a, b
<1>10. r * q = IF r < 0 THEN -p ELSE p
  BY <1>2, <1>4, <1>6
<1>11. r * (-q) = IF r < 0 THEN p ELSE -p
  BY <1>2, <1>4, <1>6
<1>12. r * Quotient(l, r) = IF l < 0 THEN -p ELSE p
  BY <1>9, <1>10, <1>11
<1>. HIDE DEF p
<1>13. Quotient(l, r) \in Word
  BY <1>2, <1>5, <1>6, <1>7, <1>8, <1>9, WordFacts
<1>14. l - r * Quotient(l, r) \in Word
  BY <1>1, <1>2, <1>3, <1>6, <1>8, <1>12, WordFacts
<1>. QED
  BY <1>13, <1>14 DEF Remainder

\* The conditions that sete and its like read off the flags are the comparisons of C.
LEMMA SignedIsCompare ==
  ASSUME NEW l \in Word, NEW r \in Word, NEW type \in ComparisonType
  PROVE  Signed(type, Flags(l, r)) = Compare(type, l, r)
<1>. DEFINE d == Wrap(l - r)
<1>1. /\ l \in Int /\ r \in Int /\ -Half =< l /\ l < Half /\ -Half =< r /\ r < Half
      /\ Half \in Int /\ Modulus = Half + Half
  BY WordFacts
<1>2. l - r \in Int /\ l - r >= -Half - Modulus /\ l - r < Half + Modulus
  BY <1>1
<1>3. d \in Word /\ (l - r \in Word => d = l - r)
  BY <1>2, WrapFacts
<1>4. l - r < -Half => d = l - r + Modulus
  BY <1>2, WrapFacts
<1>5. l - r >= Half => d = l - r - Modulus
  BY <1>2, WrapFacts
<1>6. d \in Int /\ -Half =< d /\ d < Half
  BY <1>3, WordFacts
<1>7. l - r < -Half \/ l - r >= Half \/ d = l - r
  BY <1>2, <1>3, WordFacts
<1>8. /\ Flags(l, r).zero = (d = 0)
      /\ Flags(l, r).sign = (d < 0)
      /\ Flags(l, r).overflow = (d # l - r)
  BY DEF Flags
<1>. HIDE DEF d
<1>9. (d = 0) = (l = r)
  BY <1>1, <1>2, <1>4, <1>5, <1>6, <1>7
<1>10. ((d < 0) # (d # l - r)) = (l < r)
  BY <1>1, <1>2, <1>4, <1>5, <1>6, <1>7
<1>11. Flags(l, r).zero = (l = r) /\ (Flags(l, r).sign # Flags(l, r).overflow) = (l < r)
  BY <1>8, <1>9, <1>10
<1>12. /\ (l =< r) = (l = r \/ l < r)
       /\ (l > r) = (l # r /\ ~ (l < r))
       /\ (l >= r) = ~ (l < r)
  BY <1>1
<1>13. (Flags(l, r).sign = Flags(l, r).overflow) = ~ (l < r)
  BY <1>8, <1>11
<1>14. CASE type = "equal"
  BY <1>14, <1>11 DEF Signed, Compare
<1>15. CASE type = "not_equal"
  BY <1>15, <1>11 DEF Signed, Compare
<1>16. CASE type = "less"
  BY <1>16, <1>11 DEF Signed, Compare
<1>17. CASE type = "less_equal"
  BY <1>17, <1>11, <1>12 DEF Signed, Compare
<1>18. CASE type = "greater"
  BY <1>18, <1>11, <1>12, <1>13 DEF Signed, Compare
<1>19. CASE type = "greater_equal"
  BY <1>19, <1>11, <1>12, <1>13 DEF Signed, Compare
<1>. QED
  BY <1>14, <1>15, <1>16, <1>17, <1>18, <1>19 DEF ComparisonType

LEMMA NotFacts ==
  ASSUME NEW n \in Word
  PROVE  MachineUnary("not", n) = IF n = 0 THEN 1 ELSE 0
<1>1. 0 \in Word
  BY WordFacts
<1>2. Signed("not_equal", Flags(n, 0)) = (n # 0)
  BY <1>1, SignedIsCompare DEF Compare, ComparisonType
<1>3. MachineUnary("not", n) = (-1 - Truth(n # 0)) % 2
  BY <1>2 DEF MachineUnary
<1>4. Truth(n # 0) = IF n = 0 THEN 0 ELSE 1
  BY DEF Truth
<1>5. (-1 - 0) % 2 = 1 /\ (-1 - 1) % 2 = 0
  <2>. DEFINE a == -1 - 0
              b == -1 - 1
  <2>1. a \in Int /\ a = -1 /\ b \in Int /\ b = -2 /\ 2 \in Nat /\ 2 > 0
    OBVIOUS
  <2>. HIDE DEF a, b
  <2>2. a % 2 \in Int /\ 0 =< a % 2 /\ a % 2 < 2 /\ \E q \in Int : a = 2 * q + (a % 2)
    BY ONLY <2>1, Remainders
  <2>3. b % 2 \in Int /\ 0 =< b % 2 /\ b % 2 < 2 /\ \E q \in Int : b = 2 * q + (b % 2)
    BY ONLY <2>1, Remainders
  <2>4. a % 2 = 1
    BY <2>1, <2>2
  <2>5. b % 2 = 0
    BY <2>1, <2>3
  <2>. QED
    BY <2>4, <2>5 DEF a, b
<1>. QED
  BY <1>3, <1>4, <1>5

LEMMA NegateFacts ==
  ASSUME NEW n \in Word
  PROVE  MachineUnary("negate", n) = Wrap(-n) /\ Wrap(-n) \in Word
<1>1. -n \in Int
  BY WordFacts
<1>. QED
  BY <1>1, WrapFacts DEF MachineUnary

\* What folding computes is what the machine does.
LEMMA BinaryFacts ==
  ASSUME NEW type \in BinaryType, NEW l \in Word, NEW r \in Word, ~ Traps(type, l, r)
  PROVE  /\ MachineBinary(type, l, r) = FoldBinary(type, l, r)
         /\ MachineBinary(type, l, r) \in Word
         /\ type \in ComparisonType => MachineBinary(type, l, r) \in {0, 1}
<1>1. l \in Int /\ r \in Int /\ l + r \in Int /\ l - r \in Int /\ l * r \in Int
  BY WordFacts
<1>2. CASE type = "add"
  BY <1>1, <1>2, WrapFacts DEF MachineBinary, FoldBinary, ComparisonType
<1>3. CASE type = "subtract"
  BY <1>1, <1>3, WrapFacts DEF MachineBinary, FoldBinary, ComparisonType
<1>4. CASE type = "multiply"
  BY <1>1, <1>4, WrapFacts DEF MachineBinary, FoldBinary, ComparisonType
<1>5. CASE type \in DivisionType
  <2>1. r # 0 /\ ~ (l = MinWord /\ r = -1)
    BY <1>5 DEF Traps
  <2>2. /\ Quotient(l, r) \in Word /\ Remainder(l, r) \in Word
        /\ l - r * Quotient(l, r) = Remainder(l, r)
    BY <2>1, QuotientFacts
  <2>3. Quotient(l, r) \in Int /\ Remainder(l, r) \in Int
    BY <2>2, WordFacts
  <2>4. FoldQuotient(l, r) = Quotient(l, r)
    BY <2>1, <2>2, <2>3, WrapFacts DEF FoldQuotient
  <2>5. Wrap(l - r * FoldQuotient(l, r)) = Remainder(l, r)
    BY <2>2, <2>3, <2>4, WrapFacts
  <2>6. CASE type = "divide"
    BY <2>2, <2>4, <2>6 DEF MachineBinary, FoldBinary, ComparisonType
  <2>7. CASE type = "modulo"
    BY <2>2, <2>5, <2>7 DEF MachineBinary, FoldBinary, ComparisonType
  <2>. QED
    BY <1>5, <2>6, <2>7 DEF DivisionType
<1>6. CASE type \in ComparisonType
  <2>1. Signed(type, Flags(l, r)) = Compare(type, l, r)
    BY <1>6, SignedIsCompare
  <2>2. MachineBinary(type, l, r) = Truth(Signed(type, Flags(l, r)))
    BY <1>6 DEF MachineBinary, ComparisonType
  <2>3. FoldBinary(type, l, r) = Truth(Compare(type, l, r))
    BY <1>6 DEF FoldBinary, ComparisonType
  <2>4. Truth(Compare(type, l, r)) \in {0, 1}
    BY DEF Truth
  <2>. QED
    BY <2>1, <2>2, <2>3, <2>4, WordFacts
<1>. QED
  BY <1>2, <1>3, <1>4, <1>5, <1>6 DEF BinaryType

\* A negative index is, without its sign, past the longest array.
LEMMA BoundsFacts ==
  ASSUME NEW index \in Word, NEW length \in 0 .. MaxWord
  PROVE  InBounds(index, length) = (index \in 0 .. length - 1)
<1>1. length \in Word /\ length >= 0 /\ length \in Int /\ index \in Int
  BY WordFacts
<1>2. Unsigned(length) = length
  BY <1>1, UnsignedFacts
<1>3. InBounds(index, length) = (Unsigned(index) < Unsigned(length))
  BY DEF InBounds, JumpTaken, Below, Flags
<1>4. CASE index >= 0
  <2>1. Unsigned(index) = index
    BY <1>4, UnsignedFacts
  <2>2. (index < length) = (index \in 0 .. length - 1)
    BY <1>1, <1>4
  <2>. QED
    BY <1>2, <1>3, <2>1, <2>2
<1>5. CASE index < 0
  <2>1. Unsigned(index) = index + Modulus
    BY <1>5, UnsignedFacts
  <2>2. ~ (index + Modulus < length) /\ index \notin 0 .. length - 1
    BY <1>1, <1>5, WordFacts
  <2>. QED
    BY <1>2, <1>3, <2>1, <2>2
<1>. QED
  BY <1>1, <1>4, <1>5

\* The jumps of conditions and short circuits.
LEMMA JumpFacts ==
  ASSUME NEW l \in Word, NEW r \in Word
  PROVE  /\ JumpTaken("equal", FALSE, l, r) <=> l = r
         /\ JumpTaken("not_equal", FALSE, l, r) <=> l # r
<1>1. "equal" \in ComparisonType /\ "not_equal" \in ComparisonType
  BY DEF ComparisonType
<1>2. /\ Signed("equal", Flags(l, r)) = (l = r)
      /\ Signed("not_equal", Flags(l, r)) = (l # r)
  BY <1>1, SignedIsCompare DEF Compare
<1>. QED
  BY <1>2 DEF JumpTaken

LEMMA LiteralFacts ==
  ASSUME NEW l, IsLiteral(l), l.magnitude # TooLarge
  PROVE  /\ LiteralWord(l) \in Word
         /\ LiteralWord(l) = LiteralMeaning(l)
         /\ l.type = "bool" /\ ~ l.negate => LiteralWord(l) \in {0, 1}
<1>. DEFINE m == l.magnitude
<1>1. /\ m \in 0 .. Half /\ l.negate \in BOOLEAN /\ (m = Half => l.negate)
      /\ (l.type = "bool" => m \in {0, 1})
  BY DEF IsLiteral, LiteralSet
<1>2. m \in Int /\ 0 =< m /\ m =< Half
  BY <1>1, WordFacts
<1>3. LiteralWord(l) = Wrap(m) * (IF l.negate /\ m # Half THEN -1 ELSE 1)
  BY DEF LiteralWord
<1>4. LiteralMeaning(l) = IF l.negate THEN -m ELSE m
  BY DEF LiteralMeaning
<1>. HIDE DEF m
<1>5. CASE m = Half
  <2>1. Wrap(m) = -Half
    BY <1>2, <1>5, WrapFacts, WordFacts
  <2>2. LiteralWord(l) = -Half /\ LiteralMeaning(l) = -Half
    BY <1>1, <1>3, <1>4, <1>5, <2>1, WordFacts
  <2>3. -Half \in Word /\ (l.type = "bool" => l.negate)
    BY <1>1, <1>5, WordFacts
  <2>. QED
    BY <2>2, <2>3
<1>6. CASE m # Half
  <2>1. Wrap(m) = m
    BY <1>2, <1>6, WrapFacts, WordFacts
  <2>2. LiteralWord(l) = LiteralMeaning(l)
    BY <1>1, <1>2, <1>3, <1>4, <1>6, <2>1
  <2>3. LiteralMeaning(l) \in Word
    BY <1>1, <1>2, <1>4, <1>6, WordFacts
  <2>. QED
    BY <1>1, <1>4, <2>2, <2>3
<1>. QED
  BY <1>5, <1>6

-----------------------------------------------------------------------------
(* What an accepted program computes with *)

\* What the analysis does not look for (findings 3 and 4 of the README): a minus sign
\* before a bool in an initializer, and an array as long as no int is.
UnsignedBools ==
  \A d \in Declarations : \A i \in DOMAIN d.initializer :
    d.initializer[i].type = "bool" => ~ d.initializer[i].negate
FittingLengths ==
  \A d \in Declarations : d.brackets = "length" => d.array_length # TooLarge

FieldTypes == Scalar \cup {"bool array", "int array"}
Lengths == {Missing} \cup 0 .. MaxWord
OperandSet == [type : FieldTypes \cup {"void"}, word : Word \cup {Fault}, meaning : Int]
FieldSet ==
  UNION {[type : FieldTypes, constant : BOOLEAN, array_length : {n},
          words : [0 .. n - 1 -> Word], meanings : [0 .. n - 1 -> Int]] : n \in Lengths}

\* A field without a length stands in a rejected program, and so does an operand
\* without a value.
IsSized(field) ==
  /\ ~ IsArray(field.type) => field.array_length > 0
  /\ field.array_length = Missing => error
HasValue(operand) == operand.type = "void" => error

Typed ==
  /\ operands \in Seq(OperandSet) /\ fields \in Seq(FieldSet)
  /\ return_type \in Scalar \cup {"void"}
  /\ error \in BOOLEAN /\ wrong \in BOOLEAN /\ stopped \in BOOLEAN
  /\ \A f \in DOMAIN fields : IsSized(fields[f])
  /\ \A k \in DOMAIN operands : HasValue(operands[k])

\* Every bool is 0 or 1, whether in a register or in memory.
OperandIsKept(operand) ==
  /\ operand.word = operand.meaning
  /\ operand.type = "bool" => operand.word \in {0, 1, Fault}
FieldIsKept(field) ==
  /\ field.words = field.meanings
  /\ field.type \in {"bool", "bool array"} =>
       \A i \in DOMAIN field.words : field.words[i] \in {0, 1}

Kept ==
  /\ \A k \in DOMAIN operands : OperandIsKept(operands[k])
  /\ \A f \in DOMAIN fields : FieldIsKept(fields[f])
  /\ passed[1] = passed[2]

Sound == Typed /\ (UnsignedBools => Kept)
Decided == UnsignedBools /\ FittingLengths => error = wrong

IInv == Sound /\ Decided

-----------------------------------------------------------------------------
(* The operands *)

LEMMA FaultFacts ==
  /\ Fault \in Int /\ Fault \notin {0, 1} /\ Word \subseteq Int
  /\ 0 \in Word /\ 0 \in Int /\ 1 \in Int
BY WordFacts

LEMMA FieldFacts ==
  ASSUME NEW field \in FieldSet
  PROVE  /\ field.type \in FieldTypes /\ field.constant \in BOOLEAN
         /\ field.array_length \in Lengths
         /\ field.words \in [0 .. field.array_length - 1 -> Word]
         /\ field.meanings \in [0 .. field.array_length - 1 -> Int]
<1>1. PICK n \in Lengths :
        field \in [type : FieldTypes, constant : BOOLEAN, array_length : {n},
                   words : [0 .. n - 1 -> Word], meanings : [0 .. n - 1 -> Int]]
  BY DEF FieldSet
<1>2. field.array_length = n
  BY <1>1
<1>. QED
  BY <1>1, <1>2

\* An operator's operands make place for its result.
LEMMA Replaced ==
  ASSUME NEW S, NEW s \in Seq(S), NEW count \in Nat, count =< Len(s), NEW o \in S
  PROVE  LET r == Append(SubSeq(s, 1, Len(s) - count), o)
         IN  /\ r \in Seq(S)
             /\ \A k \in DOMAIN r : r[k] = o \/ (k \in DOMAIN s /\ r[k] = s[k])
<1>. DEFINE n == Len(s) - count
            t == SubSeq(s, 1, n)
            r == Append(t, o)
<1>1. Len(s) \in Nat /\ n \in Nat /\ n =< Len(s) /\ DOMAIN s = 1 .. Len(s)
  BY LenProperties
<1>2. t \in Seq(S) /\ Len(t) = n /\ \A k \in 1 .. n : t[k] = s[k]
  <2>1. \A k \in 1 .. n : s[k] \in S
    BY <1>1, ElementOfSeq
  <2>. HIDE DEF n
  <2>2. n - 1 + 1 = n /\ \A k \in 1 .. n : 1 + k - 1 = k
    BY <1>1
  <2>3. /\ t \in Seq(S) /\ Len(t) = (IF 1 =< n THEN n - 1 + 1 ELSE 0)
        /\ \A k \in 1 .. n - 1 + 1 : t[k] = s[1 + k - 1]
    BY <1>1, <2>1, SubSeqProperties
  <2>. QED
    BY <1>1, <2>2, <2>3
<1>. HIDE DEF t
<1>3. /\ r \in Seq(S) /\ Len(r) = n + 1 /\ r[n + 1] = o
      /\ \A k \in 1 .. n : r[k] = t[k]
      /\ DOMAIN r = 1 .. n + 1
  BY <1>1, <1>2, AppendProperties, LenProperties
<1>. HIDE DEF n, r
<1>4. ASSUME NEW k \in DOMAIN r
      PROVE  r[k] = o \/ (k \in DOMAIN s /\ r[k] = s[k])
  <2>1. k \in 1 .. n \/ k = n + 1
    BY <1>1, <1>3
  <2>2. k \in 1 .. n => k \in 1 .. Len(s)
    BY <1>1
  <2>. QED
    BY <1>1, <1>2, <1>3, <2>1, <2>2
<1>. QED
  BY <1>3, <1>4 DEF r, t, n

LEMMA LastOperands ==
  ASSUME Typed
  PROVE  /\ Len(operands) \in Nat /\ DOMAIN operands = 1 .. Len(operands)
         /\ \A k \in DOMAIN operands : operands[k] \in OperandSet
         /\ \A k \in {0, 1} : Len(operands) > k => Len(operands) - k \in DOMAIN operands
         /\ operands # <<>> => Len(operands) > 0
BY LenProperties, ElementOfSeq, EmptySeq DEF Typed

LEMMA OneField ==
  ASSUME Typed, NEW f \in DOMAIN fields
  PROVE  fields[f] \in FieldSet /\ IsSized(fields[f])
BY LenProperties, ElementOfSeq DEF Typed

\* A result is on top of operands that are as they were.
LEMMA PushStep ==
  ASSUME Sound,
         NEW count \in Nat, NEW type \in FieldTypes \cup {"void"}, NEW word, NEW meaning,
         Push(count, type, word, meaning),
         error' \in BOOLEAN, wrong' \in BOOLEAN, error => error', type = "void" => error',
         Runs' => word \in Word \cup {Fault} /\ meaning \in Int,
         Runs' /\ UnsignedBools => /\ word = meaning
                                   /\ type = "bool" => word \in {0, 1, Fault}
  PROVE  Sound'
<1>. DEFINE o == Known(type, word, meaning)
<1>1. o.type = type /\ o \in OperandSet
  <2>1. 0 \in Word /\ 0 \in Int
    BY FaultFacts
  <2>. QED
    BY <2>1 DEF Known, OperandSet
<1>2. o.type = "void" => error'
  BY <1>1
<1>3. UnsignedBools => OperandIsKept(o)
  BY DEF Known, OperandIsKept
<1>4. /\ operands' = Append(SubSeq(operands, 1, Len(operands) - count), o)
      /\ Len(operands) >= count
      /\ UNCHANGED <<fields, return_type, stopped, passed>>
  BY DEF Push, Dropping
<1>. HIDE DEF o
<1>5. operands \in Seq(OperandSet) /\ Len(operands) \in Nat
  BY LastOperands DEF Sound, Typed
<1>6. /\ operands' \in Seq(OperandSet)
      /\ \A k \in DOMAIN operands' :
           operands'[k] = o \/ (k \in DOMAIN operands /\ operands'[k] = operands[k])
  BY <1>1, <1>4, <1>5, Replaced
<1>7. Typed'
  <2>1. \A k \in DOMAIN operands' : HasValue(operands[k])'
    BY <1>2, <1>6 DEF Sound, Typed, HasValue
  <2>2. \A f \in DOMAIN fields' : IsSized(fields[f])'
    BY <1>4 DEF Sound, Typed, IsSized
  <2>. QED
    BY <1>4, <1>6, <2>1, <2>2 DEF Sound, Typed
<1>8. UnsignedBools => Kept'
  BY <1>3, <1>4, <1>6 DEF Sound, Kept
<1>. QED
  BY <1>7, <1>8 DEF Sound

\* A statement leaves no operands behind.
LEMMA StatementStep ==
  ASSUME Sound, operands' = <<>>, UNCHANGED <<fields, return_type>>,
         error' \in BOOLEAN, wrong' \in BOOLEAN, stopped' \in BOOLEAN, error => error',
         UnsignedBools => passed'[1] = passed'[2]
  PROVE  Sound'
<1>1. operands' \in Seq(OperandSet) /\ DOMAIN operands' = {}
  BY EmptySeq
<1>2. Typed'
  <2>1. \A f \in DOMAIN fields' : IsSized(fields[f])'
    BY DEF Sound, Typed, IsSized
  <2>. QED
    BY <1>1, <2>1 DEF Sound, Typed
<1>3. UnsignedBools => Kept'
  BY <1>1 DEF Sound, Kept
<1>. QED
  BY <1>2, <1>3 DEF Sound

-----------------------------------------------------------------------------
(* The steps: expressions *)

LEMMA Reported ==
  ASSUME Sound, NEW c, NEW b, Report(c), Breaks(b)
  PROVE  /\ error' \in BOOLEAN /\ wrong' \in BOOLEAN /\ (error => error')
         /\ c => error'
         /\ error \/ (c <=> b) => (Decided => Decided')
BY DEF Sound, Typed, Report, Breaks, Decided

LEMMA PushLiteralStep ==
  ASSUME IInv, NEW l \in Literals, PushLiteral(l)
  PROVE  IInv'
<1>. DEFINE c == l.magnitude = TooLarge
<1>1. IsLiteral(l) /\ (l.type = "bool" => ~ l.negate)
  BY LiteralsAssumption
<1>2. c <=> LiteralIsWrong(l)
  BY <1>1 DEF LiteralIsWrong
<1>3. /\ Report(c) /\ Breaks(LiteralIsWrong(l))
      /\ Push(0, l.type, LiteralWord(l), LiteralMeaning(l))
  BY DEF PushLiteral
<1>4. error' \in BOOLEAN /\ wrong' \in BOOLEAN /\ (error => error') /\ (c => error') /\ Decided'
  <2>1. Sound /\ Decided
    BY DEF IInv
  <2>. HIDE DEF c
  <2>2. /\ error' \in BOOLEAN /\ wrong' \in BOOLEAN /\ (error => error') /\ (c => error')
        /\ (c <=> LiteralIsWrong(l)) => (Decided => Decided')
    BY ONLY <1>3, <2>1, Reported
  <2>. QED
    BY <1>2, <2>1, <2>2
<1>5. l.type \in FieldTypes \cup {"void"} /\ l.type # "void"
  BY <1>1 DEF IsLiteral, LiteralSet, FieldTypes, Scalar
<1>6. Runs' => /\ LiteralWord(l) \in Word /\ LiteralWord(l) = LiteralMeaning(l)
               /\ l.type = "bool" => LiteralWord(l) \in {0, 1}
  BY <1>1, <1>4, LiteralFacts DEF Runs
<1>7. Runs' => LiteralMeaning(l) \in Int
  BY <1>6, FaultFacts
<1>8. Sound'
  BY <1>3, <1>4, <1>5, <1>6, <1>7, PushStep, 0 \in Nat DEF IInv
<1>. QED
  BY <1>4, <1>8 DEF IInv

LEMMA LocationStep ==
  ASSUME IInv, NEW f \in DOMAIN fields, Location(f)
  PROVE  IInv'
<1>. DEFINE field == fields[f]
<1>1. field \in FieldSet /\ IsSized(field)
  BY OneField DEF IInv, Sound
<1>2. Report(FALSE) /\ Breaks(FALSE)
  BY DEF Location
<1>3. error' \in BOOLEAN /\ wrong' \in BOOLEAN /\ (error => error') /\ Decided'
  BY <1>2, Reported DEF IInv
<1>4. field.type \in FieldTypes \cup {"void"} /\ field.type # "void"
  BY <1>1, FieldFacts DEF FieldTypes, Scalar
<1>5. CASE IsArray(field.type)
  <2>1. Push(0, field.type, 0, 0)
    BY <1>5 DEF Location
  <2>2. field.type # "bool"
    BY <1>5 DEF IsArray
  <2>3. Sound'
    BY <1>3, <1>4, <2>1, <2>2, FaultFacts, PushStep, 0 \in Nat DEF IInv
  <2>. QED
    BY <1>3, <2>3 DEF IInv
<1>6. CASE ~ IsArray(field.type)
  <2>1. Push(0, field.type, field.words[0], field.meanings[0])
    BY <1>6 DEF Location
  <2>2. field.array_length \in Lengths /\ field.array_length > 0
    BY <1>1, <1>6, FieldFacts DEF IsSized
  <2>3. 0 \in 0 .. field.array_length - 1
    BY <2>2, WordFacts DEF Lengths, Missing
  <2>4. field.words[0] \in Word /\ field.meanings[0] \in Int /\ 0 \in DOMAIN field.words
    BY <1>1, <2>3, FieldFacts
  <2>5. UnsignedBools => FieldIsKept(field)
    BY DEF IInv, Sound, Kept
  <2>6. UnsignedBools => /\ field.words[0] = field.meanings[0]
                         /\ field.type = "bool" => field.words[0] \in {0, 1, Fault}
    BY <2>4, <2>5 DEF FieldIsKept
  <2>. HIDE DEF field
  <2>7. Sound'
    BY <1>3, <1>4, <2>1, <2>4, <2>6, PushStep, 0 \in Nat DEF IInv
  <2>. QED
    BY <1>3, <2>7 DEF IInv
<1>. QED
  BY <1>5, <1>6

LEMMA ElementStep ==
  ASSUME IInv, NEW f \in DOMAIN fields, Element(f)
  PROVE  IInv'
<1>. DEFINE field == fields[f]
            index == Operand(0)
            c == ~ IsArray(field.type) \/ index.type # "int"
            type == IF IsArray(field.type) THEN ElementOf(field.type) ELSE field.type
            word == IF index.word \in DOMAIN field.words THEN field.words[index.word] ELSE Fault
            meaning == IF index.meaning \in DOMAIN field.meanings
                       THEN field.meanings[index.meaning] ELSE Fault
<1>1. field \in FieldSet /\ operands # <<>>
  BY OneField DEF IInv, Sound, Element
<1>2. Report(c) /\ Breaks(c) /\ Push(1, type, word, meaning)
  BY DEF Element
<1>3. error' \in BOOLEAN /\ wrong' \in BOOLEAN /\ (error => error') /\ (c => error') /\ Decided'
  BY <1>2, Reported DEF IInv
<1>4. type \in FieldTypes \cup {"void"} /\ type # "void"
  BY <1>1, FieldFacts DEF FieldTypes, Scalar, ElementOf
<1>5. word \in Word \cup {Fault} /\ meaning \in Int
  BY <1>1, FieldFacts, FaultFacts
<1>6. ASSUME Runs', UnsignedBools
      PROVE  word = meaning /\ (type = "bool" => word \in {0, 1, Fault})
  <2>1. IsArray(field.type)
    BY <1>3, <1>6 DEF Runs
  <2>2. FieldIsKept(field)
    BY <1>6 DEF IInv, Sound, Kept
  <2>3. Len(operands) - 0 \in DOMAIN operands
    BY <1>1, LastOperands DEF IInv, Sound
  <2>4. OperandIsKept(index)
    BY <1>6, <2>3 DEF IInv, Sound, Kept, Operand
  <2>5. type = "bool" => field.type \in {"bool", "bool array"}
    BY <2>1 DEF ElementOf
  <2>. HIDE DEF field, index, type
  <2>. QED
    BY <2>2, <2>4, <2>5 DEF FieldIsKept, OperandIsKept
<1>. HIDE DEF word, meaning, type
<1>7. Sound'
  BY <1>2, <1>3, <1>4, <1>5, <1>6, PushStep, 1 \in Nat DEF IInv
<1>. QED
  BY <1>3, <1>7 DEF IInv

LEMMA LengthStep ==
  ASSUME IInv, NEW f \in DOMAIN fields, Length(f)
  PROVE  IInv'
<1>. DEFINE length == fields[f].array_length
            c == ~ IsArray(fields[f].type)
<1>1. length \in Lengths /\ (length = Missing => error)
  BY OneField, FieldFacts DEF IInv, Sound, IsSized
<1>2. Report(c) /\ Breaks(c) /\ Push(0, "int", length, length)
  BY DEF Length
<1>3. error' \in BOOLEAN /\ wrong' \in BOOLEAN /\ (error => error') /\ Decided'
  BY <1>2, Reported DEF IInv
<1>. HIDE DEF length
<1>4. Runs' => length \in Word /\ length \in Int
  BY <1>1, <1>3, WordFacts DEF Runs, Lengths
<1>5. "int" \in FieldTypes \cup {"void"}
  BY DEF FieldTypes, Scalar
<1>6. Sound'
  BY <1>2, <1>3, <1>4, <1>5, PushStep, 0 \in Nat DEF IInv
<1>. QED
  BY <1>3, <1>6 DEF IInv

\* The operand that is k below the top.
LEMMA OperandFacts ==
  ASSUME Sound, NEW k \in {0, 1}, Len(operands) > k
  PROVE  /\ Operand(k) \in OperandSet
         /\ Operand(k).type \in FieldTypes \cup {"void"}
         /\ Operand(k).word \in Word \cup {Fault} /\ Operand(k).meaning \in Int
         /\ Operand(k).type = "void" => error
         /\ UnsignedBools => OperandIsKept(Operand(k))
<1>1. Len(operands) - k \in DOMAIN operands
  BY LastOperands DEF Sound
<1>2. Operand(k) \in OperandSet
  BY <1>1, LastOperands DEF Sound, Operand
<1>3. Operand(k).type = "void" => error
  BY <1>1 DEF Sound, Typed, HasValue, Operand
<1>4. UnsignedBools => OperandIsKept(Operand(k))
  BY <1>1 DEF Sound, Kept, Operand
<1>. HIDE DEF Operand
<1>. QED
  BY <1>2, <1>3, <1>4 DEF OperandSet

LEMMA NotStep ==
  ASSUME IInv, Not
  PROVE  IInv'
<1>. DEFINE o == Operand(0)
            c == o.type # "bool"
            word == Strict(o.word, MachineUnary("not", o.word))
            meaning == Strict(o.meaning, 1 - o.meaning)
<1>1. Sound /\ Decided /\ Len(operands) > 0
  BY LastOperands DEF IInv, Sound, Not
<1>2. Report(c) /\ Breaks(c) /\ Push(1, "bool", word, meaning)
  BY DEF Not
<1>3. error' \in BOOLEAN /\ wrong' \in BOOLEAN /\ (error => error') /\ (c => error') /\ Decided'
  BY <1>1, <1>2, Reported
<1>4. /\ o.word \in Word \cup {Fault} /\ o.meaning \in Int
      /\ UnsignedBools => OperandIsKept(o)
  BY <1>1, OperandFacts
<1>5. o.word # Fault => MachineUnary("not", o.word) \in {0, 1}
  BY <1>4, NotFacts
<1>6. word \in Word \cup {Fault} /\ meaning \in Int
  <2>1. word \in Word \cup {Fault}
    BY <1>4, <1>5, WordFacts DEF Strict
  <2>2. 1 - o.meaning \in Int
    BY <1>4
  <2>. QED
    BY <2>1, <2>2, FaultFacts DEF Strict
<1>7. ASSUME Runs', UnsignedBools
      PROVE  word = meaning /\ word \in {0, 1, Fault}
  <2>1. OperandIsKept(o) /\ o.type = "bool"
    BY <1>3, <1>4, <1>7 DEF Runs
  <2>2. o.word = o.meaning /\ o.word \in {0, 1, Fault}
    BY <2>1 DEF OperandIsKept
  <2>3. o.word # Fault => MachineUnary("not", o.word) = 1 - o.word
    BY <2>2, NotFacts, WordFacts
  <2>. QED
    BY <1>5, <2>2, <2>3 DEF Strict
<1>8. "bool" \in FieldTypes \cup {"void"}
  BY DEF FieldTypes, Scalar
<1>. HIDE DEF word, meaning, o
<1>9. Sound'
  BY <1>1, <1>2, <1>3, <1>6, <1>7, <1>8, PushStep, 1 \in Nat
<1>. QED
  BY <1>3, <1>9 DEF IInv

LEMMA NegateStep ==
  ASSUME IInv, Negate
  PROVE  IInv'
<1>. DEFINE o == Operand(0)
            c == o.type # "int"
            word == Strict(o.word, MachineUnary("negate", o.word))
            meaning == Strict(o.meaning, Wrap(-o.meaning))
<1>1. Sound /\ Decided /\ Len(operands) > 0
  BY LastOperands DEF IInv, Sound, Negate
<1>2. Report(c) /\ Breaks(c) /\ Push(1, "int", word, meaning)
  BY DEF Negate
<1>3. error' \in BOOLEAN /\ wrong' \in BOOLEAN /\ (error => error') /\ Decided'
  BY <1>1, <1>2, Reported
<1>4. /\ o.word \in Word \cup {Fault} /\ o.meaning \in Int
      /\ UnsignedBools => OperandIsKept(o)
  BY <1>1, OperandFacts
<1>5. o.word # Fault => /\ MachineUnary("negate", o.word) = Wrap(-o.word)
                        /\ Wrap(-o.word) \in Word
  BY <1>4, NegateFacts
<1>6. Wrap(-o.meaning) \in Int
  <2>1. -o.meaning \in Int
    BY <1>4
  <2>. QED
    BY <2>1, WrapFacts, FaultFacts
<1>7. word \in Word \cup {Fault} /\ meaning \in Int
  BY <1>4, <1>5, <1>6, FaultFacts DEF Strict
<1>8. UnsignedBools => word = meaning
  BY <1>4, <1>5 DEF OperandIsKept, Strict
<1>9. "int" \in FieldTypes \cup {"void"}
  BY DEF FieldTypes, Scalar
<1>. HIDE DEF word, meaning, o
<1>10. Sound'
  BY <1>1, <1>2, <1>3, <1>7, <1>8, <1>9, PushStep, 1 \in Nat
<1>. QED
  BY <1>3, <1>10 DEF IInv

LEMMA FoldBinaryIsInt ==
  ASSUME NEW type \in BinaryType, NEW l \in Int, NEW r \in Int
  PROVE  FoldBinary(type, l, r) \in Int
<1>1. \A n \in Int : Wrap(n) \in Int
  BY WrapFacts, FaultFacts
<1>2. l + r \in Int /\ l - r \in Int /\ l * r \in Int
  OBVIOUS
<1>3. FoldQuotient(l, r) \in Int
  <2>1. CASE r = 0
    BY <2>1 DEF FoldQuotient
  <2>2. CASE r # 0
    <3>1. Magnitude(l) \in Int /\ Magnitude(r) \in Int /\ Magnitude(r) > 0
      BY <2>2 DEF Magnitude
    <3>2. Magnitude(l) \div Magnitude(r) \in Int
      BY <3>1
    <3>3. Quotient(l, r) \in Int
      BY <3>2 DEF Quotient
    <3>. QED
      BY <1>1, <2>2, <3>3 DEF FoldQuotient
  <2>. QED
    BY <2>1, <2>2
<1>4. l - r * FoldQuotient(l, r) \in Int
  BY <1>3
<1>5. \A condition : Truth(condition) \in Int
  BY DEF Truth
<1>6. CASE type \in ComparisonType
  BY <1>5, <1>6 DEF FoldBinary, ComparisonType
<1>7. CASE type \notin ComparisonType
  BY <1>1, <1>2, <1>3, <1>4, <1>7 DEF FoldBinary, BinaryType, DivisionType
<1>. QED
  BY <1>6, <1>7

\* Comparing a bool with 1 runs the right operand when the language does.
LEMMA ShortCircuitFacts ==
  ASSUME NEW operator \in ConditionType, NEW l \in Word, NEW r
  PROVE  /\ ShortCircuit(operator, l, r) \in {l, r}
         /\ l \in {0, 1} => ShortCircuit(operator, l, r) =
                              IF operator = "and" THEN (IF l = 1 THEN r ELSE 0)
                              ELSE (IF l = 1 THEN 1 ELSE r)
<1>1. /\ JumpTaken("equal", FALSE, l, 1) <=> l = 1
      /\ JumpTaken("not_equal", FALSE, l, 1) <=> l # 1
  BY JumpFacts, WordFacts
<1>2. CASE operator = "or"
  <2>1. ShortCircuit(operator, l, r) = IF l = 1 THEN l ELSE r
    BY <1>1, <1>2 DEF ShortCircuit
  <2>. QED
    BY <1>2, <2>1
<1>3. CASE operator = "and"
  <2>1. ShortCircuit(operator, l, r) = IF l # 1 THEN l ELSE r
    BY <1>1, <1>3 DEF ShortCircuit
  <2>. QED
    BY <1>3, <2>1
<1>. QED
  BY <1>2, <1>3 DEF ConditionType

LEMMA BinaryWordFacts ==
  ASSUME NEW operator \in BinaryType \cup ConditionType,
         NEW l \in Word \cup {Fault}, NEW r \in Word \cup {Fault}
  PROVE  /\ BinaryWord(operator, l, r) \in Word \cup {Fault}
         /\ operator \in ConditionType /\ l \in {0, 1, Fault} =>
              BinaryWord(operator, l, r) = Meaning(operator, l, r)
         /\ operator \in ConditionType /\ l \in {0, 1, Fault} /\ r \in {0, 1, Fault} =>
              BinaryWord(operator, l, r) \in {0, 1, Fault}
         /\ operator \in BinaryType => BinaryWord(operator, l, r) = Meaning(operator, l, r)
         /\ operator \in ComparisonType => BinaryWord(operator, l, r) \in {0, 1, Fault}
<1>1. Fault \notin Word /\ Fault \notin {0, 1} /\ 0 \in Word /\ 1 \in Word
  BY WordFacts
<1>2. /\ ConditionType \cap BinaryType = {} /\ ComparisonType \subseteq BinaryType
      /\ operator \in ConditionType <=> operator \in {"and", "or"}
  BY DEF ConditionType, BinaryType, DivisionType, ComparisonType
<1>3. CASE l = Fault
  BY <1>1, <1>3 DEF BinaryWord, Meaning, Strict
<1>4. CASE l # Fault /\ operator \in ConditionType
  <2>1. BinaryWord(operator, l, r) = ShortCircuit(operator, l, r)
    BY <1>4 DEF BinaryWord, Strict
  <2>2. /\ operator = "and" => Meaning(operator, l, r) = IF l = 1 THEN r ELSE 0
        /\ operator = "or" => Meaning(operator, l, r) = IF l = 1 THEN 1 ELSE r
    BY <1>4 DEF Meaning, Strict
  <2>3. /\ ShortCircuit(operator, l, r) \in {l, r}
        /\ l \in {0, 1} => ShortCircuit(operator, l, r) =
                             IF operator = "and" THEN (IF l = 1 THEN r ELSE 0)
                             ELSE (IF l = 1 THEN 1 ELSE r)
    BY <1>4, ShortCircuitFacts
  <2>. QED
    BY <1>1, <1>2, <1>4, <2>1, <2>2, <2>3
<1>5. CASE l # Fault /\ operator \in BinaryType
  <2>1. operator \notin ConditionType /\ operator \notin {"and", "or"}
    BY <1>2, <1>5
  <2>2. BinaryWord(operator, l, r) =
          Strict(r, IF Traps(operator, l, r) THEN Fault ELSE MachineBinary(operator, l, r))
    BY <1>5, <2>1 DEF BinaryWord, Strict
  <2>3. Meaning(operator, l, r) =
          Strict(r, IF Traps(operator, l, r) THEN Fault ELSE FoldBinary(operator, l, r))
    BY <1>5, <2>1 DEF Meaning, Strict
  <2>4. r # Fault /\ ~ Traps(operator, l, r) =>
          /\ MachineBinary(operator, l, r) = FoldBinary(operator, l, r)
          /\ MachineBinary(operator, l, r) \in Word
          /\ operator \in ComparisonType => MachineBinary(operator, l, r) \in {0, 1}
    BY <1>5, BinaryFacts
  <2>. QED
    BY <2>1, <2>2, <2>3, <2>4 DEF Strict
<1>. QED
  BY <1>2, <1>3, <1>4, <1>5

LEMMA MeaningIsInt ==
  ASSUME NEW operator \in BinaryType \cup ConditionType, NEW l \in Int, NEW r \in Int
  PROVE  Meaning(operator, l, r) \in Int
<1>1. Fault \in Int
  BY FaultFacts
<1>2. CASE operator \in ConditionType
  BY <1>1, <1>2 DEF Meaning, Strict, ConditionType
<1>3. CASE operator \in BinaryType
  <2>1. operator \notin {"and", "or"}
    BY <1>3 DEF BinaryType, DivisionType, ComparisonType
  <2>. QED
    BY <1>1, <1>3, <2>1, FoldBinaryIsInt DEF Meaning, Strict
<1>. QED
  BY <1>2, <1>3

\* The analysis looks for what does not suit an operator, except that it takes an
\* operand without a value to have been reported.
LEMMA MismatchesFacts ==
  ASSUME NEW operator, NEW l \in FieldTypes \cup {"void"}, NEW r \in FieldTypes \cup {"void"},
         l # "void" \/ r # "void"
  PROVE  Mismatches(operator, l, r) <=> ~ Suits(operator, l, r)
<1>1. ConditionType \cap EqualityType = {}
  BY DEF ConditionType, EqualityType
<1>2. CASE operator \in ConditionType
  BY <1>1, <1>2 DEF Mismatches, Suits
<1>3. CASE operator \in EqualityType
  BY <1>1, <1>3 DEF Mismatches, Suits, IsArray, FieldTypes, Scalar
<1>4. CASE operator \notin ConditionType \cup EqualityType
  BY <1>4 DEF Mismatches, Suits
<1>. QED
  BY <1>2, <1>3, <1>4

LEMMA BinaryStep ==
  ASSUME IInv, NEW operator \in BinaryType \cup ConditionType, Binary(operator)
  PROVE  IInv'
<1>. DEFINE l == Operand(1)
            r == Operand(0)
            c == Mismatches(operator, l.type, r.type)
            b == ~ Suits(operator, l.type, r.type)
            type == ResultType(operator)
            word == BinaryWord(operator, l.word, r.word)
            meaning == Meaning(operator, l.meaning, r.meaning)
<1>1. Sound /\ Decided /\ Len(operands) > 0 /\ Len(operands) > 1
  <2>1. Len(operands) \in Nat /\ Len(operands) >= 2
    BY LastOperands DEF IInv, Sound, Binary
  <2>. QED
    BY <2>1 DEF IInv
<1>2. Report(c) /\ Breaks(b) /\ Push(2, type, word, meaning)
  BY DEF Binary
<1>3. /\ l.type \in FieldTypes \cup {"void"} /\ (l.type = "void" => error)
      /\ l.word \in Word \cup {Fault} /\ l.meaning \in Int
      /\ UnsignedBools => OperandIsKept(l)
  BY <1>1, OperandFacts
<1>4. /\ r.type \in FieldTypes \cup {"void"}
      /\ r.word \in Word \cup {Fault} /\ r.meaning \in Int
      /\ UnsignedBools => OperandIsKept(r)
  BY <1>1, OperandFacts
<1>. HIDE DEF l, r
<1>5. error \/ (c <=> b)
  BY <1>3, <1>4, MismatchesFacts
<1>. HIDE DEF b
<1>6. error' \in BOOLEAN /\ wrong' \in BOOLEAN /\ (error => error') /\ (c => error') /\ Decided'
  BY <1>1, <1>2, <1>5, Reported
<1>7. type \in FieldTypes \cup {"void"} /\ type # "void"
  BY DEF FieldTypes, Scalar, ResultType
<1>8. word \in Word \cup {Fault} /\ meaning \in Int
  BY <1>3, <1>4, BinaryWordFacts, MeaningIsInt
<1>9. ASSUME Runs', UnsignedBools
      PROVE  word = meaning /\ (type = "bool" => word \in {0, 1, Fault})
  <2>1. l.word = l.meaning /\ (l.type = "bool" => l.word \in {0, 1, Fault})
    BY <1>3, <1>9 DEF OperandIsKept
  <2>2. r.word = r.meaning /\ (r.type = "bool" => r.word \in {0, 1, Fault})
    BY <1>4, <1>9 DEF OperandIsKept
  <2>3. operator \in ConditionType => l.type = "bool" /\ r.type = "bool"
    BY <1>6, <1>9 DEF Runs, Mismatches, ConditionType, EqualityType
  <2>4. type = "bool" => operator \in ConditionType \cup ComparisonType
    BY DEF ResultType
  <2>5. /\ operator \in ConditionType /\ l.word \in {0, 1, Fault} => word = meaning
        /\ operator \in BinaryType => word = meaning
    BY <1>3, <1>4, <2>1, <2>2, BinaryWordFacts
  <2>6. /\ operator \in ConditionType /\ l.word \in {0, 1, Fault} /\ r.word \in {0, 1, Fault} =>
             word \in {0, 1, Fault}
        /\ operator \in ComparisonType => word \in {0, 1, Fault}
    BY <1>3, <1>4, BinaryWordFacts
  <2>. HIDE DEF word, meaning, type, c
  <2>. QED
    BY <2>1, <2>2, <2>3, <2>4, <2>5, <2>6
<1>. HIDE DEF word, meaning, type
<1>10. Sound'
  BY <1>1, <1>2, <1>6, <1>7, <1>8, <1>9, PushStep, 2 \in Nat
<1>. QED
  BY <1>6, <1>10 DEF IInv

-----------------------------------------------------------------------------
(* The steps: calls and statements *)

LEMMA CallOperandStep ==
  ASSUME IInv, NEW method \in Methods, NEW argument \in Arguments,
         CallOperand(method, argument)
  PROVE  IInv'
<1>. DEFINE c == ArgumentMismatches(method, argument) \/ ReturnsNothing(method)
            type == method.return_type
            taken == SubSeq(operands, Len(operands) - Taken(argument) + 1, Len(operands))
<1>1. Sound /\ Decided
  BY DEF IInv
<1>2. Report(c) /\ Breaks(c)
  BY DEF CallOperand, ArgumentMismatches, ReturnsNothing
<1>3. PICK result \in ResultWords(method, taken) : Push(Taken(argument), type, result, result)
  BY DEF CallOperand
<1>4. error' \in BOOLEAN /\ wrong' \in BOOLEAN /\ (error => error') /\ (c => error') /\ Decided'
  BY <1>1, <1>2, Reported
<1>5. type \in Scalar \cup {"void"} /\ (type = "void" => error')
  BY <1>4, MethodsAssumption DEF ReturnsNothing
<1>6. /\ result \in Word \cup {Fault} /\ result \in Int
      /\ type = "bool" => result \in {0, 1, Fault}
  <2>1. ResultWords(method, taken) \in {{Fault}, Word, {0, 1}, {0}}
    BY <1>5 DEF ResultWords
  <2>2. type = "bool" => ResultWords(method, taken) \in {{Fault}, {0, 1}}
    BY DEF ResultWords
  <2>. QED
    BY <1>3, <2>1, <2>2, WordFacts
<1>7. Taken(argument) \in Nat /\ type \in FieldTypes \cup {"void"}
  BY <1>5 DEF Taken, FieldTypes
<1>. HIDE DEF type, c, taken
<1>8. Sound'
  BY <1>1, <1>3, <1>4, <1>5, <1>6, <1>7, PushStep
<1>. QED
  BY <1>4, <1>8 DEF IInv

LEMMA CallStatementStep ==
  ASSUME IInv, NEW method \in Methods, NEW argument \in Arguments,
         CallStatement(method, argument)
  PROVE  IInv'
<1>. DEFINE c == ArgumentMismatches(method, argument)
<1>1. Sound /\ Decided
  BY DEF IInv
<1>2. /\ Report(c) /\ Breaks(c) /\ StopsIf(FALSE)
      /\ operands' = <<>> /\ UNCHANGED <<fields, return_type, passed>>
  BY DEF CallStatement, ArgumentMismatches
<1>3. error' \in BOOLEAN /\ wrong' \in BOOLEAN /\ (error => error') /\ Decided'
  BY <1>1, <1>2, Reported
<1>4. stopped' \in BOOLEAN
  BY <1>1, <1>2 DEF StopsIf, Sound, Typed
<1>5. UnsignedBools => passed'[1] = passed'[2]
  BY <1>1, <1>2 DEF Sound, Kept
<1>6. Sound'
  BY <1>1, <1>2, <1>3, <1>4, <1>5, StatementStep
<1>. QED
  BY <1>3, <1>6 DEF IInv

LEMMA ConditionStep ==
  ASSUME IInv, Condition
  PROVE  IInv'
<1>. DEFINE o == Operand(0)
            c == o.type # "bool"
<1>1. Sound /\ Decided /\ Len(operands) = 1 /\ Len(operands) > 0
  BY DEF IInv, Condition
<1>2. /\ Report(c) /\ Breaks(c) /\ StopsIf(FALSE)
      /\ operands' = <<>> /\ UNCHANGED <<fields, return_type>>
      /\ passed' = IF Runs' THEN <<~ JumpTaken("equal", FALSE, o.word, 0), o.meaning = 1>>
                   ELSE <<FALSE, FALSE>>
  BY DEF Condition
<1>3. error' \in BOOLEAN /\ wrong' \in BOOLEAN /\ (error => error') /\ (c => error') /\ Decided'
  BY <1>1, <1>2, Reported
<1>4. stopped' \in BOOLEAN
  BY <1>1, <1>2 DEF StopsIf, Sound, Typed
<1>5. ASSUME Runs', UnsignedBools
      PROVE  (~ JumpTaken("equal", FALSE, o.word, 0)) = (o.meaning = 1)
  <2>1. o.type = "bool" /\ OperandIsKept(o)
    BY <1>1, <1>3, <1>5, OperandFacts DEF Runs
  <2>2. o.word # Fault
    <3>1. Len(operands) - 0 \in DOMAIN operands
      BY <1>1, LastOperands DEF Sound
    <3>. QED
      BY <1>2, <1>5, <3>1 DEF StopsIf, Runs, Operand
  <2>. HIDE DEF o
  <2>3. o.word \in {0, 1} /\ o.meaning = o.word
    BY <2>1, <2>2 DEF OperandIsKept
  <2>4. PICK w \in {0, 1} : o.word = w /\ o.meaning = w
    BY <2>3
  <2>5. w \in Word /\ 0 \in Word
    BY WordFacts
  <2>6. JumpTaken("equal", FALSE, w, 0) <=> w = 0
    BY <2>5, JumpFacts
  <2>7. w = 1 <=> ~ (w = 0)
    OBVIOUS
  <2>8. (~ JumpTaken("equal", FALSE, w, 0)) = (w = 1)
    BY <2>6, <2>7, Zenon
  <2>. QED
    BY <2>4, <2>8, Zenon
<1>6. UnsignedBools => passed'[1] = passed'[2]
  <2>. HIDE DEF o
  <2>. QED
    BY <1>2, <1>5
<1>. HIDE DEF o
<1>7. Sound'
  BY <1>1, <1>2, <1>3, <1>4, <1>6, StatementStep
<1>. QED
  BY <1>3, <1>7 DEF IInv

LEMMA ReturnStatementStep ==
  ASSUME IInv, ReturnStatement
  PROVE  IInv'
<1>. DEFINE type == IF operands = <<>> THEN "void" ELSE Operand(0).type
            c == type # return_type
<1>1. Sound /\ Decided
  BY DEF IInv
<1>2. /\ Report(c) /\ Breaks(c) /\ StopsIf(FALSE)
      /\ operands' = <<>> /\ UNCHANGED <<fields, return_type, passed>>
  BY DEF ReturnStatement
<1>3. error' \in BOOLEAN /\ wrong' \in BOOLEAN /\ (error => error') /\ Decided'
  BY <1>1, <1>2, Reported
<1>4. stopped' \in BOOLEAN
  BY <1>1, <1>2 DEF StopsIf, Sound, Typed
<1>5. UnsignedBools => passed'[1] = passed'[2]
  BY <1>1, <1>2 DEF Sound, Kept
<1>6. Sound'
  BY <1>1, <1>2, <1>3, <1>4, <1>5, StatementStep
<1>. QED
  BY <1>3, <1>6 DEF IInv

Stored(s, f, at, x, y) == [s EXCEPT ![f].words[at] = x, ![f].meanings[at] = y]

LEMMA StoredField ==
  ASSUME NEW s \in Seq(FieldSet), NEW f \in DOMAIN s, NEW at \in DOMAIN s[f].words,
         NEW x \in Word, NEW y \in Int, NEW new, new = Stored(s, f, at, x, y)
  PROVE  /\ new \in Seq(FieldSet) /\ DOMAIN new = DOMAIN s
         /\ \A g \in DOMAIN s : g # f => new[g] = s[g]
         /\ new[f].type = s[f].type /\ new[f].array_length = s[f].array_length
         /\ new[f].words = [s[f].words EXCEPT ![at] = x]
         /\ new[f].meanings = [s[f].meanings EXCEPT ![at] = y]
<1>. DEFINE old == s[f]
            n == old.array_length
            changed == [old EXCEPT !.words = [old.words EXCEPT ![at] = x],
                                   !.meanings = [old.meanings EXCEPT ![at] = y]]
<1>1. /\ old \in FieldSet /\ DOMAIN s = 1 .. Len(s) /\ f \in 1 .. Len(s)
      /\ \A g \in DOMAIN s : s[g] \in FieldSet
  BY LenProperties, ElementOfSeq
<1>2. PICK m \in Lengths :
        old \in [type : FieldTypes, constant : BOOLEAN, array_length : {m},
                 words : [0 .. m - 1 -> Word], meanings : [0 .. m - 1 -> Int]]
  BY <1>1 DEF FieldSet
<1>3. /\ [old.words EXCEPT ![at] = x] \in [0 .. m - 1 -> Word]
      /\ [old.meanings EXCEPT ![at] = y] \in [0 .. m - 1 -> Int]
  BY <1>2
<1>4. /\ changed \in [type : FieldTypes, constant : BOOLEAN, array_length : {m},
                      words : [0 .. m - 1 -> Word], meanings : [0 .. m - 1 -> Int]]
      /\ changed.type = old.type /\ changed.array_length = old.array_length
      /\ changed.words = [old.words EXCEPT ![at] = x]
      /\ changed.meanings = [old.meanings EXCEPT ![at] = y]
  BY <1>2, <1>3
<1>5. changed \in FieldSet
  BY <1>4 DEF FieldSet
<1>6. new = [s EXCEPT ![f] = changed]
  BY <1>1, <1>2 DEF Stored
<1>. HIDE DEF changed, old
<1>7. new \in Seq(FieldSet)
  <2>1. [s EXCEPT ![f] = changed] \in Seq(FieldSet)
    BY ONLY s \in Seq(FieldSet), f \in 1 .. Len(s), changed \in FieldSet, ExceptSeq,
            <1>1, <1>5
  <2>. QED
    BY <1>6, <2>1
<1>8. DOMAIN new = DOMAIN s /\ new[f] = changed /\ \A g \in DOMAIN s : g # f => new[g] = s[g]
  BY <1>6
<1>. QED
  BY <1>4, <1>7, <1>8 DEF old

\* What stands in an operand's place: an operand, or a constant of the generator.
Operates(o) ==
  /\ o.type \in FieldTypes \cup {"void"} /\ (o.type = "void" => error)
  /\ o.word \in Word \cup {Fault} /\ o.meaning \in Int
  /\ UnsignedBools => OperandIsKept(o)

LEMMA ConstantOperates ==
  ASSUME NEW n \in {0, 1}
  PROVE  Operates(Constant(n)) /\ Constant(n).type = "int" /\ Constant(n).word = n
<1>1. n \in Word /\ n \in Int
  BY WordFacts
<1>2. Constant(n).type = "int" /\ Constant(n).word = n /\ Constant(n).meaning = n
  BY DEF Constant
<1>. QED
  BY <1>1, <1>2 DEF Operates, OperandIsKept, FieldTypes, Scalar

LEMMA OperandOperates ==
  ASSUME Sound, NEW k \in DOMAIN operands
  PROVE  Operates(operands[k])
<1>1. operands[k] \in OperandSet
  BY LastOperands DEF Sound
<1>2. operands[k].type = "void" => error
  BY DEF Sound, Typed, HasValue
<1>3. UnsignedBools => OperandIsKept(operands[k])
  BY DEF Sound, Kept
<1>. QED
  BY <1>1, <1>2, <1>3 DEF OperandSet, Operates

\* The analysis of the target and of the source together is the language's rule.
LEMMA AssignableFacts ==
  ASSUME Sound, NEW f \in DOMAIN fields, NEW indexed \in BOOLEAN,
         NEW operator, NEW source \in FieldTypes \cup {"void"}
  PROVE  /\ (\/ AssignmentMismatches(f, indexed, operator, source)
             \/ indexed /\ ~ IsArray(fields[f].type))
             <=> ~ Assignable(f, indexed, operator, source)
         /\ Assignable(f, indexed, operator, source) =>
              /\ indexed <=> IsArray(fields[f].type)
              /\ fields[f].type \in {"bool", "bool array"} => operator = "set" /\ source = "bool"
<1>. DEFINE type == fields[f].type
            target == TargetType(f, indexed)
<1>1. type \in FieldTypes
  BY OneField, FieldFacts DEF Sound
<1>2. target = IF indexed /\ type = "bool array" THEN "bool"
               ELSE IF indexed /\ type = "int array" THEN "int" ELSE type
  BY <1>1 DEF TargetType, IsArray, ElementOf, FieldTypes, Scalar
<1>3. IsArray(type) <=> type \in {"bool array", "int array"}
  BY DEF IsArray
<1>4. AssignmentMismatches(f, indexed, operator, source) <=>
        \/ fields[f].constant
        \/ target \in {"bool array", "int array"}
        \/ operator # "set" /\ target # "int"
        \/ source # target
  BY DEF AssignmentMismatches, IsArray
<1>5. Assignable(f, indexed, operator, source) <=>
        /\ ~ fields[f].constant
        /\ type \in {"bool", "int"} <=> ~ indexed
        /\ source = target
        /\ source = "int" \/ (source = "bool" /\ operator = "set")
  BY DEF Assignable, Scalar
<1>6. type \in {"bool", "int", "bool array", "int array"}
  BY <1>1 DEF FieldTypes, Scalar
<1>. HIDE DEF type, target
<1>7. (\/ AssignmentMismatches(f, indexed, operator, source)
       \/ indexed /\ ~ IsArray(type)) <=> ~ Assignable(f, indexed, operator, source)
  BY <1>2, <1>3, <1>4, <1>5, <1>6
<1>8. Assignable(f, indexed, operator, source) =>
        /\ indexed <=> IsArray(type)
        /\ type \in {"bool", "bool array"} => operator = "set" /\ source = "bool"
  BY <1>2, <1>3, <1>5, <1>6
<1>. QED
  BY <1>7, <1>8 DEF type

\* The word that a store leaves is the value it should, and fits.
LEMMA UpdatedFacts ==
  ASSUME NEW operator \in AssignOperator, NEW old \in Word, NEW word \in Word,
         operator # "set" => ~ Traps(operator, old, word)
  PROVE  /\ Updated(operator, old, word) \in Word
         /\ Updated(operator, old, word) = MeaningUpdated(operator, old, word)
         /\ operator = "set" => Updated(operator, old, word) = word
<1>1. CASE operator = "set"
  BY <1>1 DEF Updated, MeaningUpdated
<1>2. CASE operator # "set"
  <2>1. operator \in BinaryType
    BY <1>2 DEF AssignOperator, BinaryType, DivisionType
  <2>. QED
    BY <1>2, <2>1, BinaryFacts DEF Updated, MeaningUpdated
<1>. QED
  BY <1>1, <1>2

LEMMA MeaningUpdatedIsInt ==
  ASSUME NEW operator \in AssignOperator, NEW old \in Int, NEW meaning \in Int
  PROVE  MeaningUpdated(operator, old, meaning) \in Int
<1>1. operator # "set" => operator \in BinaryType
  BY DEF AssignOperator, BinaryType, DivisionType
<1>. QED
  BY <1>1, FoldBinaryIsInt DEF MeaningUpdated

LEMMA StoreStep ==
  ASSUME Sound, NEW f \in DOMAIN fields, NEW indexed \in BOOLEAN,
         NEW index, Operates(index), NEW operator \in AssignOperator,
         NEW source, Operates(source),
         Store(f, indexed, index, operator, source),
         source.word = Fault => \E k \in DOMAIN operands : operands[k].word = Fault,
         error' \in BOOLEAN, wrong' \in BOOLEAN, error => error',
         ~ error' => Assignable(f, indexed, operator, source.type),
         operands' = <<>>, UNCHANGED return_type
  PROVE  Sound'
<1>. DEFINE words == fields[f].words
            meanings == fields[f].meanings
            length == fields[f].array_length
            at == index.word
            x == Updated(operator, words[at], source.word)
            y == MeaningUpdated(operator, meanings[at], source.meaning)
<1>1. /\ fields[f] \in FieldSet /\ length \in Lengths /\ (length = Missing => error)
      /\ words \in [0 .. length - 1 -> Word] /\ meanings \in [0 .. length - 1 -> Int]
  BY OneField, FieldFacts DEF Sound, IsSized
<1>2. stopped' \in BOOLEAN
  BY DEF Store, StopsIf, Sound, Typed
<1>3. Runs' => /\ at \in DOMAIN words
               /\ operator # "set" => ~ Traps(operator, words[at], source.word)
               /\ source.word # Fault
               /\ fields' = [fields EXCEPT ![f].words[at] = x, ![f].meanings[at] = y]
  BY DEF Store, StopsIf, Runs
<1>4. ~ Runs' => fields' = fields
  BY DEF Store
<1>5. passed' = IF indexed /\ ~ error' /\ at # Fault
                THEN <<InBounds(at, length), index.meaning \in DOMAIN words>>
                ELSE <<FALSE, FALSE>>
  BY DEF Store
<1>6. UnsignedBools => passed'[1] = passed'[2]
  <2>. SUFFICES ASSUME UnsignedBools, indexed, ~ error', at # Fault
                PROVE  InBounds(at, length) = (index.meaning \in DOMAIN words)
    BY <1>5
  <2>1. at \in Word /\ index.meaning = at
    BY DEF Operates, OperandIsKept
  <2>2. length \in 0 .. MaxWord
    BY <1>1 DEF Lengths
  <2>. HIDE DEF at, length
  <2>3. InBounds(at, length) = (at \in 0 .. length - 1)
    BY <2>1, <2>2, BoundsFacts
  <2>4. DOMAIN words = 0 .. length - 1
    BY <1>1
  <2>. QED
    BY <2>1, <2>3, <2>4
<1>7. operands' \in Seq(OperandSet) /\ DOMAIN operands' = {}
  BY EmptySeq
<1>8. CASE ~ Runs'
  <2>1. UNCHANGED <<fields, return_type>>
    BY <1>4, <1>8
  <2>. QED
    BY <1>2, <1>6, <2>1, StatementStep
<1>9. CASE Runs'
  <2>1. words[at] \in Word /\ meanings[at] \in Int /\ source.word \in Word /\ source.meaning \in Int
    BY <1>1, <1>3, <1>9 DEF Operates
  <2>2. x \in Word /\ y \in Int /\ (operator = "set" => x = source.word)
    BY <1>3, <1>9, <2>1, UpdatedFacts, MeaningUpdatedIsInt
  <2>3. ASSUME UnsignedBools
        PROVE  x = y /\ words = meanings
    <3>1. words = meanings /\ source.word = source.meaning
      BY <2>3 DEF Sound, Kept, FieldIsKept, Operates, OperandIsKept
    <3>. QED
      BY <1>3, <1>9, <2>1, <3>1, UpdatedFacts
  <2>4. fields[f].type \in {"bool", "bool array"} => operator = "set" /\ source.type = "bool"
    BY <1>9, AssignableFacts DEF Operates, Runs
  <2>5. UnsignedBools /\ fields[f].type \in {"bool", "bool array"} => x \in {0, 1}
    <3>1. UnsignedBools /\ source.type = "bool" => source.word \in {0, 1}
      BY <2>1, WordFacts DEF Operates, OperandIsKept
    <3>. QED
      BY <2>2, <2>4, <3>1
  <2>. HIDE DEF x, y, at
  <2>6. fields \in Seq(FieldSet)
    BY DEF Sound, Typed
  <2>7. /\ fields' \in Seq(FieldSet) /\ DOMAIN fields' = DOMAIN fields
        /\ \A g \in DOMAIN fields : g # f => fields'[g] = fields[g]
        /\ fields'[f].type = fields[f].type /\ fields'[f].array_length = fields[f].array_length
        /\ fields'[f].words = [words EXCEPT ![at] = x]
        /\ fields'[f].meanings = [meanings EXCEPT ![at] = y]
    <3>1. fields' = Stored(fields, f, at, x, y)
      BY <1>3, <1>9 DEF Stored
    <3>2. at \in DOMAIN fields[f].words
      BY <1>3, <1>9
    <3>3. x \in Word /\ y \in Int /\ f \in DOMAIN fields
      BY <2>2
    <3>. QED
      BY ONLY <2>6, <3>1, <3>2, <3>3, StoredField
  <2>8. \A g \in DOMAIN fields' : IsSized(fields[g])'
    <3>1. \A g \in DOMAIN fields : IsSized(fields[g])
      BY DEF Sound, Typed
    <3>. QED
      BY <2>7, <3>1 DEF IsSized
  <2>9. Typed'
    BY <1>2, <1>7, <2>7, <2>8 DEF Sound, Typed
  <2>10. ASSUME UnsignedBools
         PROVE  \A g \in DOMAIN fields' : FieldIsKept(fields'[g])
    <3>1. \A g \in DOMAIN fields : FieldIsKept(fields[g])
      BY <2>10 DEF Sound, Kept
    <3>2. [words EXCEPT ![at] = x] = [meanings EXCEPT ![at] = y]
      BY <2>3, <2>10
    <3>3. fields[f].type \in {"bool", "bool array"} =>
            \A i \in DOMAIN words : [words EXCEPT ![at] = x][i] \in {0, 1}
      BY <2>5, <2>10, <3>1 DEF FieldIsKept
    <3>4. FieldIsKept(fields'[f])
      BY <2>7, <3>2, <3>3 DEF FieldIsKept
    <3>. QED
      BY <2>7, <3>1, <3>4
  <2>11. UnsignedBools => Kept'
    BY <1>6, <1>7, <2>10 DEF Kept
  <2>. QED
    BY <2>9, <2>11 DEF Sound
<1>. QED
  BY <1>8, <1>9

LEMMA AssignStep ==
  ASSUME IInv, NEW f \in DOMAIN fields, NEW indexed \in BOOLEAN, NEW increment \in BOOLEAN,
         NEW operator \in AssignOperator, Assign(f, indexed, operator, increment)
  PROVE  IInv'
<1>. DEFINE source == IF increment THEN Constant(1) ELSE Operand(0)
            index == IF indexed THEN operands[1] ELSE Constant(0)
            count == (IF indexed THEN 1 ELSE 0) + (IF increment THEN 0 ELSE 1)
            mismatch == AssignmentMismatches(f, indexed, operator, source.type)
            c == mismatch \/ (indexed /\ (~ IsArray(fields[f].type) \/ index.type # "int"))
            b == ~ Assignable(f, indexed, operator, source.type) \/ index.type # "int"
<1>1. Sound /\ Decided
  BY DEF IInv
<1>2. /\ Len(operands) = count
      /\ Report(c) /\ Breaks(b)
      /\ Store(f, indexed, index, operator, source)
      /\ operands' = <<>> /\ UNCHANGED return_type
  BY DEF Assign
<1>3. DOMAIN operands = 1 .. Len(operands) /\ Len(operands) \in Nat
  BY <1>1, LastOperands DEF Sound
<1>4. /\ indexed => 1 \in DOMAIN operands
      /\ ~ increment => Len(operands) - 0 \in DOMAIN operands
  BY <1>2, <1>3
<1>5. Operates(source)
  <2>1. CASE increment
    BY <2>1, ConstantOperates
  <2>2. CASE ~ increment
    BY <1>1, <1>4, <2>2, OperandOperates DEF Operand
  <2>. QED
    BY <2>1, <2>2
<1>6. Operates(index)
  <2>1. CASE indexed
    BY <1>1, <1>4, <2>1, OperandOperates
  <2>2. CASE ~ indexed
    BY <2>2, ConstantOperates
  <2>. QED
    BY <2>1, <2>2
<1>7. source.word = Fault => \E k \in DOMAIN operands : operands[k].word = Fault
  <2>1. CASE increment
    BY <2>1, ConstantOperates, WordFacts
  <2>2. CASE ~ increment
    BY <1>4, <2>2 DEF Operand
  <2>. QED
    BY <2>1, <2>2
<1>8. ~ indexed => index.type = "int"
  BY ConstantOperates
<1>. HIDE DEF source, index
<1>9. /\ (mismatch \/ (indexed /\ ~ IsArray(fields[f].type)))
           <=> ~ Assignable(f, indexed, operator, source.type)
  BY <1>1, <1>5, AssignableFacts DEF Operates
<1>10. c <=> b
  BY <1>8, <1>9
<1>. HIDE DEF c, b
<1>11. error' \in BOOLEAN /\ wrong' \in BOOLEAN /\ (error => error') /\ (c => error') /\ Decided'
  BY <1>1, <1>2, <1>10, Reported
<1>12. ~ error' => Assignable(f, indexed, operator, source.type)
  BY <1>10, <1>11 DEF b
<1>13. Sound'
  BY <1>1, <1>2, <1>5, <1>6, <1>7, <1>11, <1>12, StoreStep
<1>. QED
  BY <1>11, <1>13 DEF IInv

-----------------------------------------------------------------------------
(* The steps: declarations *)

LEMMA DeclarationFacts ==
  ASSUME NEW d \in Declarations
  PROVE  /\ d.type \in Scalar /\ d.constant \in BOOLEAN /\ d.list \in BOOLEAN
         /\ d.initializer \in Seq(LiteralSet)
         /\ Len(d.initializer) \in 0 .. MaxWord
         /\ DOMAIN d.initializer = 1 .. Len(d.initializer)
         /\ d.initializer = <<>> <=> Len(d.initializer) = 0
         /\ \A i \in DOMAIN d.initializer : /\ IsLiteral(d.initializer[i])
                                            /\ d.initializer[i].type \in Scalar
         /\ d.initializer = <<>> => ~ d.list
         /\ \/ d.brackets = "none" /\ d.array_length = 1
            \/ d.brackets = "empty" /\ d.array_length = Missing
            \/ d.brackets = "length" /\ d.array_length \in {TooLarge} \cup 0 .. MaxWord
<1>1. IsDeclaration(d)
  BY DeclarationsAssumption
<1>2. d.initializer \in Seq(LiteralSet) /\ Len(d.initializer) =< MaxWord
  BY <1>1 DEF IsDeclaration
<1>3. /\ Len(d.initializer) \in Nat /\ DOMAIN d.initializer = 1 .. Len(d.initializer)
      /\ d.initializer = <<>> <=> Len(d.initializer) = 0
  BY <1>2, LenProperties, EmptySeq
<1>4. Len(d.initializer) \in 0 .. MaxWord
  BY <1>2, <1>3, WordFacts
<1>5. \A i \in DOMAIN d.initializer : /\ IsLiteral(d.initializer[i])
                                      /\ d.initializer[i].type \in Scalar
  BY <1>1, <1>3 DEF IsDeclaration, IsLiteral, LiteralSet
<1>. QED
  BY <1>1, <1>2, <1>3, <1>4, <1>5 DEF IsDeclaration

Count(d) == IF Initialized(d) THEN Len(d.initializer) ELSE d.array_length

LEMMA CountFacts ==
  ASSUME NEW d \in Declarations
  PROVE  /\ Count(d) \in Lengths
         /\ ~ IsArray(FieldType(d)) => Count(d) > 0
         /\ Count(d) = Missing => FieldIsRejected(d)
         /\ Initialized(d) => DOMAIN d.initializer = 1 .. Count(d)
         /\ FieldType(d) \in FieldTypes
<1>1. /\ Len(d.initializer) \in 0 .. MaxWord /\ MaxWord >= 1 /\ MaxWord \in Int
      /\ Missing = -1 /\ TooLarge = -1
      /\ Initialized(d) <=> Len(d.initializer) # 0
  BY DeclarationFacts, WordFacts DEF Initialized, Missing, TooLarge
<1>2. Count(d) \in Lengths
  BY <1>1, DeclarationFacts DEF Count, Lengths
<1>3. ~ IsArray(FieldType(d)) => d.brackets = "none"
  BY DEF FieldType, IsArray, ArrayOf
<1>4. d.brackets = "none" => Count(d) > 0
  BY <1>1, DeclarationFacts DEF Count
<1>5. Count(d) = Missing => ~ Initialized(d) /\ d.brackets # "none" /\ d.array_length = Missing
  BY <1>1, DeclarationFacts DEF Count
<1>6. FieldType(d) \in FieldTypes
  BY DeclarationFacts DEF FieldType, ArrayOf, FieldTypes
<1>. QED
  BY <1>2, <1>3, <1>4, <1>5, <1>6, DeclarationFacts DEF FieldIsRejected, Count

\* Without the two it does not look for, what the analysis rejects is what the rules forbid.
LEMMA RejectedFacts ==
  ASSUME UnsignedBools, FittingLengths, NEW d \in Declarations
  PROVE  FieldIsRejected(d) <=> ~ WellDeclared(d)
<1>. DEFINE first == d.initializer[1].type
            Uniform == \A i \in DOMAIN d.initializer :
                         d.initializer[i].type = first /\ d.initializer[i].magnitude # TooLarge
            Proper == \A i \in DOMAIN d.initializer :
                        d.initializer[i].type = d.type /\ ~ LiteralIsWrong(d.initializer[i])
<1>1. /\ d.type \in Scalar /\ d.list \in BOOLEAN /\ d.constant \in BOOLEAN
      /\ Missing = -1 /\ TooLarge = -1
      /\ \/ d.brackets = "none" /\ d.array_length = 1
         \/ d.brackets = "empty" /\ d.array_length = Missing
         \/ d.brackets = "length" /\ d.array_length \in {TooLarge} \cup 0 .. MaxWord
  BY DeclarationFacts DEF Missing, TooLarge
<1>2. d.brackets = "length" => d.array_length \in 0 .. MaxWord
  BY <1>1 DEF FittingLengths
<1>3. CASE ~ Initialized(d)
  <2>1. d.initializer = <<>> /\ DOMAIN d.initializer = {} /\ ~ d.list
    BY <1>3, DeclarationFacts DEF Initialized
  <2>2. FieldIsRejected(d) <=> \/ d.brackets # "none" /\ d.array_length \in {Missing, 0}
                               \/ d.constant
    BY <1>3 DEF FieldIsRejected
  <2>3. /\ d.brackets = "none" => (WellDeclared(d) <=> ~ d.constant)
        /\ d.brackets = "length" => (WellDeclared(d) <=> d.array_length > 0 /\ ~ d.constant)
        /\ d.brackets = "empty" => ~ WellDeclared(d)
    BY <1>3, <2>1 DEF WellDeclared
  <2>4. d.brackets = "length" => (d.array_length > 0 <=> d.array_length \notin {Missing, 0})
    BY <1>1, <1>2, WordFacts
  <2>. QED
    BY <1>1, <2>2, <2>3, <2>4
<1>4. CASE Initialized(d)
  <2>1. 1 \in DOMAIN d.initializer /\ first \in Scalar
    <3>1. Len(d.initializer) # 0 /\ Len(d.initializer) \in 0 .. MaxWord
      BY <1>4, DeclarationFacts DEF Initialized
    <3>2. 1 \in 1 .. Len(d.initializer)
      BY <3>1, WordFacts
    <3>. QED
      BY <3>2, DeclarationFacts
  <2>2. InitializerIsRejected(d) <=> ~ Uniform
    BY DEF InitializerIsRejected
  <2>3. Proper <=> Uniform /\ first = d.type
    <3>1. \A i \in DOMAIN d.initializer :
            LiteralIsWrong(d.initializer[i]) <=> d.initializer[i].magnitude = TooLarge
      BY DEF LiteralIsWrong, UnsignedBools
    <3>. QED
      BY <2>1, <3>1
  <2>. HIDE DEF Uniform, Proper
  <2>4. InitializerType(d) = IF d.list THEN ArrayOf(first) ELSE first
    BY DEF InitializerType
  <2>5. FieldIsRejected(d) <=> \/ ~ Uniform
                               \/ InitializerType(d) # FieldType(d)
                               \/ d.brackets # "none" /\ d.list /\ d.array_length # Missing
    BY <1>4, <2>2 DEF FieldIsRejected
  <2>6. WellDeclared(d) <=> /\ Proper
                            /\ CASE d.brackets = "none" -> ~ d.list
                                 [] d.brackets = "length" -> FALSE
                                 [] d.brackets = "empty" -> d.list
    BY <1>4 DEF WellDeclared, Proper
  <2>. HIDE DEF first
  <2>7. /\ ArrayOf(first) # d.type /\ first # ArrayOf(d.type)
        /\ ArrayOf(first) = ArrayOf(d.type) <=> first = d.type
    BY <1>1, <2>1 DEF ArrayOf, Scalar
  <2>8. CASE d.brackets = "none"
    BY <2>3, <2>4, <2>5, <2>6, <2>7, <2>8 DEF FieldType
  <2>9. CASE d.brackets = "empty"
    BY <1>1, <2>3, <2>4, <2>5, <2>6, <2>7, <2>9 DEF FieldType
  <2>10. CASE d.brackets = "length"
    <3>1. d.array_length # Missing
      BY <1>1, <1>2, <2>10, WordFacts
    <3>. QED
      BY <2>4, <2>5, <2>6, <2>7, <2>10, <3>1 DEF FieldType
  <2>. QED
    BY <1>1, <2>8, <2>9, <2>10
<1>. QED
  BY <1>3, <1>4

\* A field's first values: its literals', or zeros.
LEMMA FirstValues ==
  ASSUME NEW d \in Declarations, NEW i \in 0 .. Count(d) - 1,
         Initialized(d), ~ FieldIsRejected(d)
  PROVE  LET l == d.initializer[i + 1]
         IN  /\ LiteralWord(l) \in Word /\ LiteralWord(l) = LiteralMeaning(l)
             /\ UnsignedBools /\ FieldType(d) \in {"bool", "bool array"} =>
                  LiteralWord(l) \in {0, 1}
<1>. DEFINE l == d.initializer[i + 1]
<1>1. DOMAIN d.initializer = 1 .. Count(d) /\ Count(d) \in Int
  BY CountFacts, WordFacts DEF Lengths, Missing
<1>2. i + 1 \in DOMAIN d.initializer
  BY <1>1
<1>3. IsLiteral(l) /\ l.type \in Scalar
  BY <1>2, DeclarationFacts
<1>4. ~ InitializerIsRejected(d) /\ InitializerType(d) = FieldType(d)
  BY DEF FieldIsRejected
<1>5. l.magnitude # TooLarge /\ l.type = d.initializer[1].type
  BY <1>2, <1>4 DEF InitializerIsRejected
<1>6. LiteralWord(l) \in Word /\ LiteralWord(l) = LiteralMeaning(l)
  BY <1>3, <1>5, LiteralFacts
<1>7. ASSUME UnsignedBools, FieldType(d) \in {"bool", "bool array"}
      PROVE  LiteralWord(l) \in {0, 1}
  <2>1. l.type = "bool"
    BY <1>3, <1>4, <1>5, <1>7 DEF InitializerType, ArrayOf, Scalar
  <2>2. ~ l.negate
    BY <1>2, <1>7, <2>1 DEF UnsignedBools
  <2>. QED
    BY <1>3, <1>5, <2>1, <2>2, LiteralFacts
<1>. QED
  BY <1>6, <1>7

LEMMA DeclareFieldStep ==
  ASSUME IInv, NEW d \in Declarations, DeclareField(d)
  PROVE  IInv'
<1>. DEFINE c == FieldIsRejected(d)
            b == ~ WellDeclared(d)
            words == [i \in 0 .. Count(d) - 1 |->
                        IF Runs' /\ Initialized(d) THEN LiteralWord(d.initializer[i + 1]) ELSE 0]
            meanings == [i \in 0 .. Count(d) - 1 |->
                           IF Runs' /\ Initialized(d) THEN LiteralMeaning(d.initializer[i + 1])
                           ELSE 0]
            field == [type |-> FieldType(d), constant |-> d.constant,
                      array_length |-> Count(d), words |-> words, meanings |-> meanings]
<1>1. Sound /\ Decided
  BY DEF IInv
<1>2. /\ Report(c) /\ Breaks(b) /\ UNCHANGED <<operands, return_type, stopped, passed>>
      /\ fields' = Append(fields, field)
  BY DEF DeclareField, Count
<1>3. UnsignedBools /\ FittingLengths => (c <=> b)
  BY RejectedFacts
<1>4. /\ error' \in BOOLEAN /\ wrong' \in BOOLEAN /\ (error => error') /\ (c => error')
      /\ Decided'
  <2>. HIDE DEF c, b
  <2>. QED
    BY <1>1, <1>2, <1>3 DEF Sound, Typed, Report, Breaks, Decided
<1>5. /\ Count(d) \in Lengths /\ FieldType(d) \in FieldTypes /\ d.constant \in BOOLEAN
      /\ ~ IsArray(FieldType(d)) => Count(d) > 0
      /\ Count(d) = Missing => error'
  BY <1>4, CountFacts, DeclarationFacts
<1>6. ASSUME NEW i \in 0 .. Count(d) - 1
      PROVE  /\ words[i] \in Word /\ words[i] = meanings[i] /\ meanings[i] \in Int
             /\ UnsignedBools /\ FieldType(d) \in {"bool", "bool array"} => words[i] \in {0, 1}
  <2>1. CASE Runs' /\ Initialized(d)
    <3>1. ~ FieldIsRejected(d)
      BY <1>4, <2>1 DEF Runs
    <3>2. /\ LiteralWord(d.initializer[i + 1]) \in Word
          /\ LiteralWord(d.initializer[i + 1]) = LiteralMeaning(d.initializer[i + 1])
          /\ UnsignedBools /\ FieldType(d) \in {"bool", "bool array"} =>
               LiteralWord(d.initializer[i + 1]) \in {0, 1}
      BY <2>1, <3>1, FirstValues
    <3>3. /\ words[i] = LiteralWord(d.initializer[i + 1])
          /\ meanings[i] = LiteralMeaning(d.initializer[i + 1])
      BY <2>1
    <3>. HIDE DEF words, meanings
    <3>. QED
      BY <3>2, <3>3, FaultFacts
  <2>2. CASE ~ (Runs' /\ Initialized(d))
    <3>1. words[i] = 0 /\ meanings[i] = 0
      BY <2>2
    <3>. HIDE DEF words, meanings
    <3>. QED
      BY <3>1, FaultFacts
  <2>. QED
    BY <2>1, <2>2
<1>7. DOMAIN words = 0 .. Count(d) - 1 /\ DOMAIN meanings = 0 .. Count(d) - 1
  OBVIOUS
<1>8. /\ words \in [0 .. Count(d) - 1 -> Word]
      /\ meanings \in [0 .. Count(d) - 1 -> Int]
      /\ words = meanings
  <2>1. /\ words = [i \in 0 .. Count(d) - 1 |-> words[i]]
        /\ meanings = [i \in 0 .. Count(d) - 1 |-> meanings[i]]
    OBVIOUS
  <2>. HIDE DEF words, meanings
  <2>. QED
    BY <1>6, <2>1
<1>. HIDE DEF words, meanings
<1>9. /\ field \in FieldSet
      /\ field.type = FieldType(d) /\ field.array_length = Count(d)
      /\ field.words = words /\ field.meanings = meanings
  BY <1>5, <1>8 DEF FieldSet
<1>10. UnsignedBools => FieldIsKept(field)
  BY <1>6, <1>7, <1>8, <1>9 DEF FieldIsKept
<1>. HIDE DEF field, c, b
<1>11. fields \in Seq(FieldSet) /\ Len(fields) \in Nat /\ DOMAIN fields = 1 .. Len(fields)
  BY <1>1, LenProperties DEF Sound, Typed
<1>12. /\ fields' \in Seq(FieldSet) /\ Len(fields') = Len(fields) + 1
       /\ \A f \in 1 .. Len(fields) : fields'[f] = fields[f]
       /\ fields'[Len(fields) + 1] = field
  BY <1>2, <1>9, <1>11, AppendProperties
<1>13. \A f \in DOMAIN fields' :
         fields'[f] = field \/ (f \in DOMAIN fields /\ fields'[f] = fields[f])
  <2>1. DOMAIN fields' = 1 .. Len(fields) + 1
    BY <1>11, <1>12, LenProperties
  <2>. QED
    BY <1>11, <1>12, <2>1
<1>14. Typed'
  <2>1. \A f \in DOMAIN fields' : IsSized(fields[f])'
    <3>1. \A f \in DOMAIN fields : IsSized(fields[f])
      BY <1>1 DEF Sound, Typed
    <3>. QED
      BY <1>4, <1>5, <1>9, <1>13, <3>1 DEF IsSized
  <2>2. \A k \in DOMAIN operands' : HasValue(operands[k])'
    BY <1>1, <1>2, <1>4 DEF Sound, Typed, HasValue
  <2>. QED
    BY <1>1, <1>2, <1>4, <1>12, <2>1, <2>2 DEF Sound, Typed
<1>15. UnsignedBools => Kept'
  BY <1>1, <1>2, <1>10, <1>13 DEF Sound, Kept
<1>. QED
  BY <1>4, <1>14, <1>15 DEF IInv, Sound

-----------------------------------------------------------------------------
(* The theorems *)

LEMMA InitIInv == Init => IInv
<1>. SUFFICES ASSUME Init
              PROVE  IInv
  OBVIOUS
<1>1. operands \in Seq(OperandSet) /\ DOMAIN operands = {}
  BY EmptySeq DEF Init
<1>2. fields \in Seq(FieldSet) /\ DOMAIN fields = {}
  BY EmptySeq DEF Init
<1>3. Typed
  BY <1>1, <1>2 DEF Init, Typed
<1>4. Kept
  BY <1>1, <1>2 DEF Init, Kept
<1>. QED
  BY <1>3, <1>4 DEF Init, IInv, Sound, Decided

LEMMA NextIInv == IInv /\ [Next]_vars => IInv'
<1>. SUFFICES ASSUME IInv, [Next]_vars
              PROVE  IInv'
  OBVIOUS
<1>1. ASSUME NEW l \in Literals, PushLiteral(l)
      PROVE  IInv'
  BY <1>1, PushLiteralStep
<1>2. ASSUME NEW f \in DOMAIN fields, Location(f) \/ Element(f) \/ Length(f)
      PROVE  IInv'
  BY <1>2, LocationStep, ElementStep, LengthStep
<1>3. CASE Not \/ Negate
  BY <1>3, NotStep, NegateStep
<1>4. ASSUME NEW operator \in BinaryType \cup ConditionType, Binary(operator)
      PROVE  IInv'
  BY <1>4, BinaryStep
<1>5. ASSUME NEW method \in Methods, NEW argument \in Arguments,
             CallOperand(method, argument) \/ CallStatement(method, argument)
      PROVE  IInv'
  BY <1>5, CallOperandStep, CallStatementStep
<1>6. ASSUME NEW f \in DOMAIN fields, NEW indexed \in BOOLEAN, NEW increment \in BOOLEAN,
             NEW operator \in AssignOperator, Assign(f, indexed, operator, increment)
      PROVE  IInv'
  BY <1>6, AssignStep
<1>7. CASE Condition \/ ReturnStatement
  BY <1>7, ConditionStep, ReturnStatementStep
<1>8. ASSUME NEW d \in Declarations, DeclareField(d)
      PROVE  IInv'
  BY <1>8, DeclareFieldStep
<1>9. CASE UNCHANGED vars
  BY <1>9 DEF vars, IInv, Sound, Typed, Kept, Decided, IsSized, HasValue
<1>. QED
  BY <1>1, <1>2, <1>3, <1>4, <1>5, <1>6, <1>7, <1>8, <1>9 DEF Next

\* Whatever is declared, every operand and field has its type, and every word fits.
THEOREM Invariance == Spec => []IInv
BY InitIInv, NextIInv, PTL DEF Spec

LEMMA Typing == IInv => TypeOK
<1>. SUFFICES ASSUME IInv
              PROVE  TypeOK
  OBVIOUS
<1>1. \A k \in DOMAIN operands :
        /\ operands[k].type \in Scalar \cup {"void", "bool array", "int array"}
        /\ operands[k].word \in Word \cup {Fault}
  <2>1. \A k \in DOMAIN operands : operands[k] \in OperandSet
    BY LastOperands DEF IInv, Sound
  <2>. QED
    BY <2>1 DEF OperandSet, FieldTypes
<1>2. \A f \in DOMAIN fields : \A i \in DOMAIN fields[f].words : fields[f].words[i] \in Word
  <2>1. \A f \in DOMAIN fields : fields[f].words \in [0 .. fields[f].array_length - 1 -> Word]
    BY OneField, FieldFacts DEF IInv, Sound
  <2>. QED
    BY <2>1
<1>. QED
  BY <1>1, <1>2 DEF IInv, Sound, Typed, TypeOK

\* Every variable of the walk has its type, and whatever the code computes fits a word,
\* for every width of words and every set of literals, methods and declarations that
\* the parser lets through.
THEOREM TypeCorrect == Spec => []TypeOK
BY Invariance, Typing, PTL

\* As long as no bool in an initializer has a minus sign and no array is longer than an
\* int, the analysis reports an error exactly when a rule is broken: what it leaves
\* out of its checks of operands, targets and declarations is covered by the others.
THEOREM TypesAreDecided ==
  ASSUME UnsignedBools, FittingLengths
  PROVE  Spec => []TypesDecide
<1>1. IInv => TypesDecide
  BY DEF IInv, Decided, TypesDecide
<1>. QED
  BY <1>1, Invariance, PTL

\* As long as no bool in an initializer has a minus sign, what the generated code
\* computes in an accepted program is what the language says, and its conditions and
\* bounds checks let control on when they have to.
THEOREM TheValuesAreKept ==
  ASSUME UnsignedBools
  PROVE  Spec => []ValuesAreKept
<1>1. IInv => ValuesAreKept
  BY DEF IInv, Sound, Kept, OperandIsKept, FieldIsKept, ValuesAreKept
<1>. QED
  BY <1>1, Invariance, PTL
===============================================================================
