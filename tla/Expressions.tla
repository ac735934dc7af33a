----------------------------- MODULE Expressions -----------------------------
(***************************************************************************)
(* Expressions, assignments and declarations of fields, checked and run:   *)
(* the types that src/src/semantics/semantics.c gives them, and the words  *)
(* that the code generated by src/src/assembly/llir_generator.c computes   *)
(* for them.  Both go through an expression's operands before they come to *)
(* its operator, so that one walk, from the innermost operands outwards,   *)
(* drives both; the program is chosen on the way.  Names and the number of *)
(* arguments are left to module Semantics, blocks to LlirGenerator.        *)
(***************************************************************************)
EXTENDS Arithmetic, Sequences

CONSTANTS
  Literals,       \* the literals of expressions: see Literal
  Declarations,   \* the declarations of fields: see Declaration
  Methods,        \* the methods that are called: see Method
  MaxFields,      \* bound on the number of fields
  MaxOperands     \* bound on the number of operands that wait for their operator

VARIABLES
  fields,         \* the fields declared so far
  operands,       \* the subexpressions done, innermost last
  return_type,    \* the current method's
  error,          \* a semantic error has been reported
  wrong,          \* not in the code: a rule of the language has been broken
  stopped,        \* running the program has faulted
  passed          \* whether the last condition or bounds check let control on, by code
                  \* and by meaning

vars == <<fields, operands, return_type, error, wrong, stopped, passed>>

-----------------------------------------------------------------------------
(* Types and literals *)

Scalar == {"bool", "int"}
ArrayOf(type) == IF type = "bool" THEN "bool array" ELSE "int array"
IsArray(type) == type \in {"bool array", "int array"}
ElementOf(type) == IF type = "bool array" THEN "bool" ELSE "int"

\* A literal's magnitude is 0 .. Half, or TooLarge, what the conversion of a larger
\* one returns.  Only in initializers can a bool have a minus sign: before any other
\* literal than an int's it is an operator (parse_negate_expression).
TooLarge == -1
Literal(type, magnitude, negate) == [type |-> type, magnitude |-> magnitude, negate |-> negate]

\* literal_to_int64
\* Mutant: every negated literal multiplied by -1.
LiteralWordNegated(l) == Wrap(l.magnitude) * (IF l.negate THEN -1 ELSE 1)
LiteralWord(l) == Wrap(l.magnitude) * (IF l.negate /\ l.magnitude # Half THEN -1 ELSE 1)
LiteralMeaning(l) == IF l.negate THEN -l.magnitude ELSE l.magnitude

LiteralIsWrong(l) == l.magnitude = TooLarge \/ (l.negate /\ l.type = "bool")

\* What the conversions return: Half only behind a minus sign, and 0 or 1 for a bool.
LiteralSet == [type : Scalar, magnitude : {TooLarge} \cup 0 .. Half, negate : BOOLEAN]
IsLiteral(l) ==
  /\ l \in LiteralSet
  /\ l.magnitude = Half => l.negate
  /\ l.type = "bool" => l.magnitude \in {0, 1}

ASSUME LiteralsAssumption ==
  \A l \in Literals : IsLiteral(l) /\ (l.type = "bool" => ~ l.negate)

-----------------------------------------------------------------------------
Init ==
  /\ fields = <<>>
  /\ operands = <<>>
  /\ return_type \in Scalar \cup {"void"}
  /\ error = FALSE /\ wrong = FALSE /\ stopped = FALSE
  /\ passed = <<FALSE, FALSE>>

\* A program with an error is never run.
Runs == ~ error /\ ~ stopped

\* Stands for the word of an expression that traps when it is computed or, what the
\* code does not check, reads outside an array.
Fault == MaxWord + 1
Strict(word, result) == IF word = Fault THEN Fault ELSE result

\* What is known of an expression: its type, the word its code computes, and the
\* value that the language gives it; a bool's is 0 or 1.
Known(type, word, meaning) ==
  [type |-> type, word |-> IF Runs' THEN word ELSE 0, meaning |-> IF Runs' THEN meaning ELSE 0]

Operand(k) == operands[Len(operands) - k]
Dropping(count) == SubSeq(operands, 1, Len(operands) - count)

Report(condition) == error' = (error \/ condition)
Breaks(condition) == wrong' = (wrong \/ condition)
StopsIf(condition) ==
  stopped' = (stopped \/ condition \/ \E k \in DOMAIN operands : operands[k].word = Fault)

\* The operator takes "count" operands off and puts its result on.
Push(count, type, word, meaning) ==
  /\ Len(operands) >= count
  /\ Len(operands) - count < MaxOperands
  /\ UNCHANGED <<fields, return_type, stopped, passed>>
  /\ operands' = Append(Dropping(count), Known(type, word, meaning))

-----------------------------------------------------------------------------
(* Expressions *)

\* analyze_literal, generate_literal
PushLiteral(l) ==
  /\ Report(l.magnitude = TooLarge)
  /\ Breaks(LiteralIsWrong(l))
  /\ Push(0, l.type, LiteralWord(l), LiteralMeaning(l))

\* analyze_location, generate_location; the word of an array is the address of
\* nothing the program may use.
Location(f) ==
  LET field == fields[f]
  IN  /\ Report(FALSE) /\ Breaks(FALSE)
      /\ IF IsArray(field.type) THEN Push(0, field.type, 0, 0)
         ELSE Push(0, field.type, field.words[0], field.meanings[0])

\* The same with an index.
Element(f) ==
  LET field == fields[f]
      index == Operand(0)
      At(values, at) == IF at \in DOMAIN values THEN values[at] ELSE Fault
  IN  /\ operands # <<>>
      /\ Report(~ IsArray(field.type) \/ index.type # "int")
      /\ Breaks(~ IsArray(field.type) \/ index.type # "int")
      /\ Push(1, IF IsArray(field.type) THEN ElementOf(field.type) ELSE field.type,
              At(field.words, index.word), At(field.meanings, index.meaning))

\* analyze_len_expression, generate_len_expression
Length(f) ==
  LET length == fields[f].array_length
  IN  /\ Report(~ IsArray(fields[f].type))
      /\ Breaks(~ IsArray(fields[f].type))
      /\ Push(0, "int", length, length)

\* analyze_not_expression, generate_not_expression
Not ==
  /\ operands # <<>>
  /\ Report(Operand(0).type # "bool")
  /\ Breaks(Operand(0).type # "bool")
  /\ Push(1, "bool", Strict(Operand(0).word, MachineUnary("not", Operand(0).word)),
          Strict(Operand(0).meaning, 1 - Operand(0).meaning))

\* analyze_negate_expression, generate_negate_expression
Negate ==
  /\ operands # <<>>
  /\ Report(Operand(0).type # "int")
  /\ Breaks(Operand(0).type # "int")
  /\ Push(1, "int", Strict(Operand(0).word, MachineUnary("negate", Operand(0).word)),
          Strict(Operand(0).meaning, Wrap(-Operand(0).meaning)))

\* analyze_binary_expression: the three kinds of operators, and what they return.
ConditionType == {"and", "or"}
EqualityType == {"equal", "not_equal"}

Mismatches(operator, l, r) ==
  CASE operator \in ConditionType -> l # "bool" \/ r # "bool"
    [] operator \in EqualityType -> IsArray(l) \/ IsArray(r) \/ l # r
    [] OTHER -> l # "int" \/ r # "int"
ResultType(operator) ==
  IF operator \in ConditionType \cup ComparisonType THEN "bool" ELSE "int"

\* generate_short_circuit: the right operand is run unless the branch on the left
\* one jumps over it.
\* Mutant: both operators with the comparison of one.
ShortCircuitAsOr(operator, l, r) ==
  IF JumpTaken("equal", FALSE, l, 1) THEN l ELSE r
ShortCircuit(operator, l, r) ==
  LET comparison == IF operator = "or" THEN "equal" ELSE "not_equal"
  IN  IF JumpTaken(comparison, FALSE, l, 1) THEN l ELSE r

\* generate_binary_expression
BinaryWord(operator, l, r) ==
  Strict(l, IF operator \in ConditionType THEN ShortCircuit(operator, l, r)
            ELSE Strict(r, IF Traps(operator, l, r) THEN Fault ELSE MachineBinary(operator, l, r)))

\* The language's rules: arithmetic and order on ints, logic on bools, equality
\* on two of one kind.
Suits(operator, l, r) ==
  CASE operator \in ConditionType -> <<l, r>> = <<"bool", "bool">>
    [] operator \in EqualityType -> <<l, r>> \in {<<"int", "int">>, <<"bool", "bool">>}
    [] OTHER -> <<l, r>> = <<"int", "int">>
Meaning(operator, l, r) ==
  Strict(l, CASE operator = "and" -> IF l = 1 THEN r ELSE 0
              [] operator = "or" -> IF l = 1 THEN 1 ELSE r
              [] OTHER -> Strict(r, IF Traps(operator, l, r) THEN Fault
                                    ELSE FoldBinary(operator, l, r)))

Binary(operator) ==
  LET l == Operand(1)
      r == Operand(0)
  IN  /\ Len(operands) >= 2
      /\ Report(Mismatches(operator, l.type, r.type))
      /\ Breaks(~ Suits(operator, l.type, r.type))
      /\ Push(2, ResultType(operator), BinaryWord(operator, l.word, r.word),
              Meaning(operator, l.meaning, r.meaning))

-----------------------------------------------------------------------------
(* Method calls *)

\* "parameter" is the type of the one argument, or "" when the method takes none;
\* imports take anything and return an int.
Method(imported, returns, parameter) ==
  [imported |-> imported, return_type |-> returns, parameter |-> parameter]

ASSUME MethodsAssumption ==
  \A method \in Methods :
    method.imported \in BOOLEAN /\ method.return_type \in Scalar \cup {"void"}

\* analyze_method_call, _argument, analyze_imported_method_call_argument: "argument"
\* is its type, or "string", or "" when there is none.
ArgumentMismatches(method, argument) == ~ method.imported /\ argument # method.parameter

\* As an operand, a call has to return something: analyze_expression.
\* Mutant: the check left to the operator above.
OperandUnchecked(method) == FALSE
ReturnsNothing(method) == method.return_type = "void"

ResultWords(method, arguments) ==
  IF \E k \in DOMAIN arguments : arguments[k].word = Fault THEN {Fault}
  ELSE CASE method.return_type = "int" -> Word
         [] method.return_type = "bool" -> {0, 1}
         [] OTHER -> {0}

\* What a call may be given: nothing, a string, or the last operand.
Arguments == {"", "string"} \cup (IF operands = <<>> THEN {} ELSE {Operand(0).type})
Taken(argument) == IF argument \in {"", "string"} THEN 0 ELSE 1

CallOperand(method, argument) ==
  /\ Report(ArgumentMismatches(method, argument) \/ ReturnsNothing(method))
  /\ Breaks((~ method.imported /\ argument # method.parameter) \/ method.return_type = "void")
  /\ \E result \in ResultWords(method, SubSeq(operands, Len(operands) - Taken(argument) + 1,
                                            Len(operands))) :
       Push(Taken(argument), method.return_type, result, result)

-----------------------------------------------------------------------------
(* Statements: the operands left are theirs, and none is left behind. *)

\* A call on its own: its result, whatever its type, is dropped.
CallStatement(method, argument) ==
  /\ Len(operands) = Taken(argument)
  /\ Report(ArgumentMismatches(method, argument))
  /\ Breaks(~ method.imported /\ argument # method.parameter)
  /\ StopsIf(FALSE)
  /\ operands' = <<>>
  /\ UNCHANGED <<fields, return_type, passed>>

AssignOperator == {"set", "add", "subtract", "multiply", "divide", "modulo"}

\* The type of what is assigned to.
TargetType(f, indexed) ==
  IF indexed /\ IsArray(fields[f].type) THEN ElementOf(fields[f].type) ELSE fields[f].type

\* analyze_assignment
AssignmentMismatches(f, indexed, operator, source) ==
  LET type == TargetType(f, indexed)
  IN  \/ fields[f].constant
      \/ IsArray(type)
      \/ operator # "set" /\ type # "int"
      \/ source # type

\* The language's rules: a scalar or an element, not constant, takes a value of its
\* type, and only an int can be operated on.
Assignable(f, indexed, operator, source) ==
  /\ ~ fields[f].constant
  /\ fields[f].type \in Scalar <=> ~ indexed
  /\ source = TargetType(f, indexed)
  /\ source = "int" \/ (source = "bool" /\ operator = "set")

\* generate_assignment: the bounds check, then the update of the old word.
Updated(operator, old, source) ==
  IF operator = "set" THEN source ELSE MachineBinary(operator, old, source)
MeaningUpdated(operator, old, source) ==
  IF operator = "set" THEN source ELSE FoldBinary(operator, old, source)

\* generate_bounds_check: its jump leads to the assignment, past the program's exit.
InBounds(index, length) == JumpTaken("less", TRUE, index, length)

\* The index, 0 without one, is checked and then used twice.
Store(f, indexed, index, operator, source) ==
  LET words == fields[f].words
      at == index.word
  IN  /\ StopsIf(\/ at \notin DOMAIN words
                 \/ operator # "set" /\ Traps(operator, words[at], source.word))
      /\ passed' = IF indexed /\ ~ error' /\ at # Fault
                   THEN <<InBounds(at, fields[f].array_length), index.meaning \in DOMAIN words>>
                   ELSE <<FALSE, FALSE>>
      /\ fields' = IF Runs' THEN
           [fields EXCEPT ![f].words[at] = Updated(operator, @, source.word),
                          ![f].meanings[at] = MeaningUpdated(operator, @, source.meaning)]
         ELSE fields

\* An increment or decrement has the source 1 and no expression.
Constant(n) == [type |-> "int", word |-> n, meaning |-> n]

Assign(f, indexed, operator, increment) ==
  LET source == IF increment THEN Constant(1) ELSE Operand(0)
      index == IF indexed THEN operands[1] ELSE Constant(0)
      count == (IF indexed THEN 1 ELSE 0) + (IF increment THEN 0 ELSE 1)
      mismatch == AssignmentMismatches(f, indexed, operator, source.type)
  IN  /\ Len(operands) = count
      /\ increment => operator \in {"add", "subtract"}
      /\ Report(mismatch \/ (indexed /\ (~ IsArray(fields[f].type) \/ index.type # "int")))
      /\ Breaks(~ Assignable(f, indexed, operator, source.type) \/ index.type # "int")
      /\ Store(f, indexed, index, operator, source)
      /\ operands' = <<>>
      /\ UNCHANGED return_type

\* The condition of an if, a while or a for: the jump past the block is taken when
\* the word equals 0.
Condition ==
  /\ Len(operands) = 1
  /\ Report(Operand(0).type # "bool")
  /\ Breaks(Operand(0).type # "bool")
  /\ StopsIf(FALSE)
  /\ passed' = IF Runs' THEN <<~ JumpTaken("equal", FALSE, Operand(0).word, 0),
                                Operand(0).meaning = 1>>
                ELSE <<FALSE, FALSE>>
  /\ operands' = <<>>
  /\ UNCHANGED <<fields, return_type>>

\* analyze_return_statement; the program goes on in another statement.
ReturnStatement ==
  LET type == IF operands = <<>> THEN "void" ELSE Operand(0).type
  IN  /\ Len(operands) =< 1
      /\ Report(type # return_type)
      /\ Breaks(type # return_type)
      /\ StopsIf(FALSE)
      /\ operands' = <<>>
      /\ UNCHANGED <<fields, return_type, passed>>

-----------------------------------------------------------------------------
(* Declarations *)

\* "brackets" are those behind the name: "none", "empty", or "length" with a literal
\* in them.  As ir_field_new leaves it, array_length is that literal, Missing for
\* empty brackets and 1 for none.  An initializer is a list in braces or one literal.
Missing == -1
Declaration(type, constant, brackets, array_length, initializer, list) ==
  [type |-> type, constant |-> constant, brackets |-> brackets,
   array_length |-> array_length, initializer |-> initializer, list |-> list]

\* What ir_field_new makes of a declaration that the parser lets through.
IsDeclaration(d) ==
  /\ d.type \in Scalar
  /\ d.constant \in BOOLEAN /\ d.list \in BOOLEAN
  /\ d.initializer \in Seq(LiteralSet) /\ Len(d.initializer) =< MaxWord
  /\ \A i \in 1 .. Len(d.initializer) : IsLiteral(d.initializer[i])
  /\ d.initializer = <<>> => ~ d.list
  /\ \/ d.brackets = "none" /\ d.array_length = 1
     \/ d.brackets = "empty" /\ d.array_length = Missing
     \/ d.brackets = "length" /\ d.array_length \in {TooLarge} \cup 0 .. MaxWord

ASSUME DeclarationsAssumption == \A d \in Declarations : IsDeclaration(d)

FieldType(d) == IF d.brackets = "none" THEN d.type ELSE ArrayOf(d.type)
Initialized(d) == d.initializer # <<>>

\* analyze_initializer: the first literal's type, or its array's.
InitializerType(d) ==
  IF d.list THEN ArrayOf(d.initializer[1].type) ELSE d.initializer[1].type
InitializerIsRejected(d) ==
  \E i \in DOMAIN d.initializer : \/ d.initializer[i].type # d.initializer[1].type
                                  \/ d.initializer[i].magnitude = TooLarge

\* analyze_field
FieldIsRejected(d) ==
  IF Initialized(d)
  THEN \/ InitializerIsRejected(d)
       \/ InitializerType(d) # FieldType(d)
       \/ d.brackets # "none" /\ d.list /\ d.array_length # Missing
  ELSE \/ d.brackets # "none" /\ d.array_length \in {Missing, 0}
       \/ d.constant

\* The language's rules: a scalar with at most one literal, an array with a length
\* that is a positive int or with a list, a constant with an initializer, and
\* literals of the declared type.
WellDeclared(d) ==
  /\ \A i \in DOMAIN d.initializer :
       d.initializer[i].type = d.type /\ ~ LiteralIsWrong(d.initializer[i])
  /\ CASE d.brackets = "none" -> ~ d.list
       [] d.brackets = "length" -> d.array_length > 0 /\ ~ Initialized(d)
       [] d.brackets = "empty" -> d.list
  /\ d.constant => Initialized(d)

\* generate_field, get_field_initializer; llir_field_new fills the rest with zeros.
DeclareField(d) ==
  LET count == IF Initialized(d) THEN Len(d.initializer) ELSE d.array_length
      Values(Value(_)) ==
        [i \in 0 .. count - 1 |->
           IF Runs' /\ Initialized(d) THEN Value(d.initializer[i + 1]) ELSE 0]
  IN  /\ operands = <<>>
      /\ Len(fields) < MaxFields
      /\ Report(FieldIsRejected(d))
      /\ Breaks(~ WellDeclared(d))
      /\ UNCHANGED <<operands, return_type, stopped, passed>>
      /\ fields' = Append(fields, [type |-> FieldType(d), constant |-> d.constant,
                                   array_length |-> count,
                                   words |-> Values(LiteralWord),
                                   meanings |-> Values(LiteralMeaning)])

Next ==
  \/ \E l \in Literals : PushLiteral(l)
  \/ \E f \in DOMAIN fields : Location(f) \/ Element(f) \/ Length(f)
  \/ Not \/ Negate
  \/ \E operator \in BinaryType \cup ConditionType : Binary(operator)
  \/ \E method \in Methods, argument \in Arguments :
       CallOperand(method, argument) \/ CallStatement(method, argument)
  \/ \E f \in DOMAIN fields, indexed, increment \in BOOLEAN, operator \in AssignOperator :
       Assign(f, indexed, operator, increment)
  \/ Condition
  \/ ReturnStatement
  \/ \E d \in Declarations : DeclareField(d)

Spec == Init /\ [][Next]_vars

-----------------------------------------------------------------------------
(* Properties *)

\* Every variable has its type, and whatever the code computes fits a word.
TypeOK ==
  /\ \A k \in DOMAIN operands :
       /\ operands[k].type \in Scalar \cup {"void", "bool array", "int array"}
       /\ operands[k].word \in Word \cup {Fault}
  /\ \A f \in DOMAIN fields : \A i \in DOMAIN fields[f].words : fields[f].words[i] \in Word
  /\ return_type \in Scalar \cup {"void"}
  /\ error \in BOOLEAN /\ wrong \in BOOLEAN /\ stopped \in BOOLEAN

\* The analysis rejects the program exactly when a rule of the language is broken:
\* however an expression is put together, the types it recovers after one check
\* neither hide a breach from the next nor make one up.
TypesDecide == error = wrong

\* An accepted program computes what it says, and no more: every operand and field
\* has the value that the language gives it, and every condition and bounds check
\* lets control on when it has to.  Since short circuits compare a bool with 1 and
\* conditions with 0, every bool in memory has to be one of them; and the one
\* unsigned comparison of a bounds check has to stop negative indexes, too.
ValuesAreKept ==
  /\ Runs =>
       /\ \A k \in DOMAIN operands : operands[k].word = operands[k].meaning
       /\ \A f \in DOMAIN fields : fields[f].words = fields[f].meanings
  /\ passed[1] = passed[2]
=============================================================================
