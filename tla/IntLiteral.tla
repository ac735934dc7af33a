------------------------------ MODULE IntLiteral ------------------------------
(***************************************************************************)
(* How the digits of an integer literal become the int64_t of an operand:  *)
(* string_to_int and ir_int_literal_from_ast of src/src/semantics/ir.c,    *)
(* the check of semantics.c, and literal_to_int64 of llir_generator.c.     *)
(* One step per digit, from the last to the first.  The word has Modulus   *)
(* values where the code's has 2^64.                                       *)
(***************************************************************************)
EXTENDS Integers, Sequences

CONSTANTS
  Modulus,    \* the number of values of a uint64_t
  Bases,      \* 10 and 16
  MaxDigits   \* bound on the number of digits of a literal

ASSUME ModulusAssumption == Modulus \in Nat /\ Modulus > 2 /\ Modulus % 2 = 0
ASSUME BasesAssumption == \A base \in Bases : base \in 2 .. (Modulus - 1)
ASSUME MaxDigitsAssumption == MaxDigits \in Nat \ {0}

VARIABLES
  digits,     \* the literal, first digit first
  base,
  negate,     \* a minus sign precedes it
  i,          \* the digits still to be added in
  value, place,
  result      \* what string_to_int returns; Converting until it does

vars == <<digits, base, negate, i, value, place, result>>

-----------------------------------------------------------------------------
Word == 0 .. Modulus - 1
Wrap(n) == n % Modulus

\* (uint64_t)-1, which semantic analysis reports as an overflow.
Overflow == Modulus - 1
Converting == -1

\* INT64_MAX, and one more behind a minus sign.
\* Mutant: the minus sign ignored.
MaxValueUnsigned == Modulus \div 2 - 1
MaxValue == Modulus \div 2 - 1 + (IF negate THEN 1 ELSE 0)

Init ==
  /\ base \in Bases
  /\ digits \in UNION {[1 .. n -> 0 .. base - 1] : n \in 1 .. MaxDigits}
  /\ negate \in BOOLEAN
  /\ i = Len(digits)
  /\ value = 0
  /\ place = 1
  /\ result = Converting

Digit == digits[i]
Increment == Wrap(Digit * place)

\* The product has wrapped around.
ProductOverflows == Increment \div place # Digit

\* The sum has wrapped around.
SumOverflows == Wrap(value + Increment) < value

\* Mutant: the last place value unchecked.
PlaceUnchecked == FALSE
PlaceOverflows == i > 1 /\ Wrap(place * base) \div place # base

\* One round of the loop.
\* Mutant: only the sum checked.
AddDigitUnchecked ==
  /\ i > 0 /\ result = Converting
  /\ i' = i - 1
  /\ value' = Wrap(value + Increment)
  /\ place' = IF PlaceOverflows THEN place ELSE Wrap(place * base)
  /\ result' = IF SumOverflows \/ value' > MaxValue \/ PlaceOverflows
               THEN Overflow ELSE Converting
  /\ UNCHANGED <<digits, base, negate>>

AddDigit ==
  /\ i > 0 /\ result = Converting
  /\ i' = i - 1
  /\ value' = IF ProductOverflows \/ SumOverflows THEN value ELSE Wrap(value + Increment)
  /\ result' = IF ProductOverflows \/ SumOverflows \/ value' > MaxValue \/ PlaceOverflows
               THEN Overflow ELSE Converting
  /\ place' = IF result' = Overflow THEN place ELSE Wrap(place * base)
  /\ UNCHANGED <<digits, base, negate>>

Finish ==
  /\ i = 0 /\ result = Converting
  /\ result' = value
  /\ UNCHANGED <<digits, base, negate, i, value, place>>

Done == result # Converting /\ UNCHANGED vars

Next == AddDigit \/ Finish \/ Done

Spec == Init /\ [][Next]_vars

\* literal_to_int64: the cast, then the sign, but for the one magnitude that the
\* cast makes negative already.
Cast(n) == IF n >= Modulus \div 2 THEN n - Modulus ELSE n
ToInt64(n) == Cast(n) * (IF negate /\ n # Modulus \div 2 THEN -1 ELSE 1)

-----------------------------------------------------------------------------
(* Properties *)

\* The number that digits stands for, in school arithmetic.
Number ==
  LET prefix[k \in 0 .. Len(digits)] ==
        IF k = 0 THEN 0 ELSE LET before == prefix[k - 1] IN before * base + digits[k]
  IN  prefix[Len(digits)]

InRange == IF negate THEN Number =< Modulus \div 2 ELSE Number < Modulus \div 2
Converted == result \notin {Converting, Overflow}

\* Every variable is a word of its type.  While the loop runs the place is not
\* zero: the compiler divides by it.
TypeOK ==
  /\ i \in 0 .. Len(digits)
  /\ value \in Word /\ place \in Word
  /\ result \in Word \cup {Converting}
  /\ (i > 0 /\ result = Converting) => place > 0

\* The int64_t of an accepted literal is the number that was written, with its
\* sign, and so in the range: no wrap-around escapes the three checks, and the
\* least integer, whose magnitude no int64_t holds, comes out as itself.
LiteralIsExact ==
  Converted => ToInt64(result) = (IF negate THEN -Number ELSE Number)

\* Every literal in the range, written without superfluous zeros, is accepted.
InRangeIsAccepted ==
  (result = Overflow /\ InRange) => (Len(digits) > 1 /\ digits[1] = 0)
=============================================================================
