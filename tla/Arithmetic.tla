----------------------------- MODULE Arithmetic -----------------------------
(***************************************************************************)
(* Two's complement integers -Half .. Half - 1, the operations of LLIR on  *)
(* them as constant folding computes them in C (src/src/optimizations/     *)
(* cf.c) and as the x86 instructions that code_generator.c emits compute   *)
(* them.                                                                   *)
(***************************************************************************)
EXTENDS Integers

CONSTANT Half   \* 2^63 in the code; a small power of two in a model

ASSUME HalfAssumption == Half \in Nat /\ Half >= 2

Modulus == 2 * Half
MinWord == -Half
MaxWord == Half - 1
Word == MinWord .. MaxWord

Wrap(n) == ((n - MinWord) % Modulus) + MinWord
Unsigned(n) == n % Modulus

Truth(condition) == IF condition THEN 1 ELSE 0

\* Division that rounds towards zero, in C and in idivq.
Magnitude(n) == IF n < 0 THEN -n ELSE n
Quotient(l, r) ==
  LET q == Magnitude(l) \div Magnitude(r)
  IN  IF (l < 0) = (r < 0) THEN q ELSE -q
Remainder(l, r) == l - r * Quotient(l, r)

UnaryType == {"move", "negate", "not"}
DivisionType == {"divide", "modulo"}
ComparisonType == {"equal", "not_equal", "less", "less_equal", "greater", "greater_equal"}
BinaryType == {"add", "subtract", "multiply"} \cup DivisionType \cup ComparisonType

\* idivq raises a fault when the quotient does not exist or does not fit.
Traps(type, l, r) ==
  /\ type \in DivisionType
  /\ r = 0 \/ (l = MinWord /\ r = -1)

-----------------------------------------------------------------------------
(* Constant folding: C operators on int64_t.  Overflow is undefined in C;    *)
(* the builds' add, subtract, multiply and negate instructions wrap.         *)

FoldUnary(type, n) ==
  CASE type = "move" -> n
    [] type = "not" -> Truth(n = 0)
    [] type = "negate" -> Wrap(-n)

\* The division instruction of an arm64 host never faults: n / 0 is 0.
FoldQuotient(l, r) == IF r = 0 THEN 0 ELSE Wrap(Quotient(l, r))

Compare(type, l, r) ==
  CASE type = "equal" -> l = r
    [] type = "not_equal" -> l # r
    [] type = "less" -> l < r
    [] type = "less_equal" -> l =< r
    [] type = "greater" -> l > r
    [] type = "greater_equal" -> l >= r

FoldBinary(type, l, r) ==
  CASE type = "add" -> Wrap(l + r)
    [] type = "subtract" -> Wrap(l - r)
    [] type = "multiply" -> Wrap(l * r)
    [] type = "divide" -> FoldQuotient(l, r)
    [] type = "modulo" -> Wrap(l - r * FoldQuotient(l, r))
    [] OTHER -> Truth(Compare(type, l, r))

-----------------------------------------------------------------------------
(* The emitted instructions *)

\* cmpq sets the flags of l - r.
Flags(l, r) ==
  LET difference == Wrap(l - r)
  IN  [zero |-> difference = 0, sign |-> difference < 0,
       overflow |-> difference # l - r, carry |-> Unsigned(l) < Unsigned(r)]

\* sete, setne, setl, setle, setg, setge and je, jne, jl, jle, jg, jge.
Signed(type, f) ==
  CASE type = "equal" -> f.zero
    [] type = "not_equal" -> ~ f.zero
    [] type = "less" -> f.sign # f.overflow
    [] type = "less_equal" -> f.zero \/ f.sign # f.overflow
    [] type = "greater" -> ~ f.zero /\ f.sign = f.overflow
    [] type = "greater_equal" -> f.sign = f.overflow

\* je, jne, jb, jbe, ja, jae: the comparison of a bounds check is unsigned.
Below(type, f) ==
  CASE type = "equal" -> f.zero
    [] type = "not_equal" -> ~ f.zero
    [] type = "less" -> f.carry
    [] type = "less_equal" -> f.carry \/ f.zero
    [] type = "greater" -> ~ (f.carry \/ f.zero)
    [] type = "greater_equal" -> ~ f.carry

\* "not" is cmpq $0, setne, xorb $-1, andb $1.
MachineUnary(type, n) ==
  CASE type = "move" -> n
    [] type = "negate" -> Wrap(-n)
    [] type = "not" -> (-1 - Truth(Signed("not_equal", Flags(n, 0)))) % 2

\* Defined where Traps(type, l, r) does not hold.
MachineBinary(type, l, r) ==
  CASE type = "add" -> Wrap(l + r)
    [] type = "subtract" -> Wrap(l - r)
    [] type = "multiply" -> Wrap(l * r)
    [] type = "divide" -> Quotient(l, r)
    [] type = "modulo" -> Remainder(l, r)
    [] OTHER -> Truth(Signed(type, Flags(l, r)))

\* Whether generate_branch's conditional jump is taken.
JumpTaken(type, unsigned_comparison, l, r) ==
  IF unsigned_comparison THEN Below(type, Flags(l, r)) ELSE Signed(type, Flags(l, r))
=============================================================================
