------------------------------ MODULE CallStack ------------------------------
(***************************************************************************)
(* The stack as the code printed by src/src/assembly/code_generator.c      *)
(* uses it: arguments in registers and on the stack, the prologue, the     *)
(* return and what the caller does after it.  Each action is the printed   *)
(* sequence of instructions of one generate_* function.  Memory is counted *)
(* in words of 8 bytes, and addresses grow upwards as the machine's do.    *)
(***************************************************************************)
EXTENDS Integers, Sequences

CONSTANTS
  Methods,     \* the program's methods: records of the number of arguments and locals
  Main,        \* the one that the C runtime calls
  Results,     \* the values methods return and assign
  Touched,     \* the positions of the fields that methods assign to
  StackTop,    \* the highest address of the stack
  MaxDepth     \* bound on the number of methods active at once

ASSUME MethodsAssumption ==
  /\ \A m \in Methods : m.arguments \in Nat /\ m.locals \in Nat
  /\ Main \in Methods /\ Main.arguments = 0

ASSUME ResultsAssumption == \A result \in Results : result.kind = "number"

\* The x86-64 ABI aligns the stack to two words before a call.
ASSUME StackTopAssumption == StackTop \in Nat /\ StackTop % 2 = 0

VARIABLES
  memory,      \* the words of the stack
  rsp, rbp,
  registers,   \* rdi, rsi, rdx, rcx, r8, r9: the argument registers
  rax,
  pc,          \* the code that runs next, see Code
  depth,       \* the number of methods active: the model's bound counts it
  passed       \* not in the code: the operands of the last call as the caller had them

vars == <<memory, rsp, rbp, registers, rax, pc, depth, passed>>

-----------------------------------------------------------------------------
RegisterCount == 6

\* A word: a number, or the address that call pushes, which names the call's place
\* in its method: what the printed code does there after the return.
Number(n) == [kind |-> "number", n |-> n]
ReturnTo(site) == [kind |-> "return", site |-> site]

Site(caller, extra_stack_size, destination) ==
  [caller |-> caller, extra_stack_size |-> extra_stack_size, destination |-> destination]

NoMethod == [arguments |-> 0, locals |-> 0]
Runtime == Site(NoMethod, 0, 0)

\* "entering" the method behind a call, "running" the method's body, "returned" to
\* a call's site, "ended" in the C runtime.
Code(at, method, site) == [at |-> at, method |-> method, site |-> site]

FieldCount(m) == m.arguments + m.locals

\* generate_stack_allocation rounds the frame up to an even number of words.
\* Mutant: rounded down.
FrameSizeRoundedDown(m) == FieldCount(m) - (FieldCount(m) % 2)
FrameSize(m) == FieldCount(m) + (FieldCount(m) % 2)

\* The words reserved for the arguments that find no register, in pairs.
\* Mutant: the padding of an odd number of them forgotten.
ExtraUnpadded(argument_count) ==
  IF argument_count > RegisterCount THEN argument_count - RegisterCount ELSE 0
ExtraStackSize(argument_count) ==
  LET stack_argument_count == argument_count - RegisterCount
  IN  IF stack_argument_count > 0
      THEN stack_argument_count + (stack_argument_count % 2) ELSE 0

\* A method that is called takes the words for its arguments, the return address, the
\* saved rbp and the frame; the stack is large enough for MaxDepth of any of them.
ActivationSize(m) == ExtraStackSize(m.arguments) + 2 + FrameSize(m)
ASSUME StackIsLargeEnough ==
  /\ MaxDepth \in Nat \ {0}
  /\ \A m \in Methods : MaxDepth * ActivationSize(m) =< StackTop

\* Every field is one word here: the f-th is f words below rbp.
FieldAddress(base, f) == base - f

\* A word of the stack is overwritten; the rest stays.
Write(words) ==
  memory' = [a \in DOMAIN memory |-> IF a \in DOMAIN words THEN words[a] ELSE memory[a]]

-----------------------------------------------------------------------------
\* The C runtime has called main.
Init ==
  /\ rsp = StackTop - 1
  /\ rbp = StackTop
  /\ memory = [a \in 0 .. StackTop |-> IF a = StackTop - 1 THEN ReturnTo(Runtime) ELSE Number(0)]
  /\ registers = [i \in 1 .. RegisterCount |-> Number(0)]
  /\ rax = Number(0)
  /\ pc = Code("entering", Main, Runtime)
  /\ depth = 0
  /\ passed = <<>>

(* generate_method_call, up to the call *)

\* The caller's operands: its own first argument, if it has one, and literals that
\* tell the positions apart.
Operand(i) ==
  IF i = 1 /\ pc.method.arguments > 0 THEN memory[FieldAddress(rbp, 1)] ELSE Number(i)

\* The address, below the caller's frame, of the i-th argument.
StackArgument(i, argument_count, low) == low + (i - RegisterCount) - 1

Call(callee, destination) ==
  LET count == callee.arguments
      extra == ExtraStackSize(count)
      low == rsp - extra
      stack_arguments == RegisterCount + 1 .. count
      address(i) == StackArgument(i, count, low)
  IN  /\ pc.at = "running"
      /\ depth < MaxDepth
      /\ registers' = [i \in 1 .. RegisterCount |-> IF i =< count THEN Operand(i) ELSE registers[i]]
      /\ Write([a \in {address(i) : i \in stack_arguments} \cup {low - 1} |->
                  IF a = low - 1 THEN ReturnTo(Site(pc.method, extra, destination))
                  ELSE Operand(CHOOSE i \in stack_arguments : address(i) = a)])
      /\ rsp' = low - 1
      /\ rax' = Number(0)
      /\ pc' = Code("entering", callee, Runtime)
      /\ passed' = [i \in 1 .. count |-> Operand(i)]
      /\ UNCHANGED <<rbp, depth>>

(* generate_method_declaration: the prologue *)

\* generate_method_arguments: where the i-th argument comes from, base being the
\* new rbp, above which are the saved one and the return address.
\* Mutant: the saved rbp forgotten.
IncomingPastReturn(i, base) ==
  IF i =< RegisterCount THEN registers[i] ELSE memory[base + (i - RegisterCount)]
Incoming(i, base) ==
  IF i =< RegisterCount THEN registers[i] ELSE memory[base + (i - RegisterCount - 1) + 2]

Enter ==
  LET method == pc.method
      base == rsp - 1
      arguments == {FieldAddress(base, i) : i \in 1 .. method.arguments}
  IN  /\ pc.at = "entering"
      /\ Write([a \in arguments \cup {base} |->
                  IF a = base THEN Number(rbp) ELSE Incoming(base - a, base)])
      /\ rbp' = base
      /\ rsp' = base - FrameSize(method)
      /\ pc' = Code("running", method, Runtime)
      /\ depth' = depth + 1
      /\ UNCHANGED <<registers, rax, passed>>

(* store_from_register, in an assignment *)

Assign(f, value) ==
  /\ pc.at = "running"
  /\ Write([a \in {FieldAddress(rbp, f)} |-> value])
  /\ UNCHANGED <<rsp, rbp, registers, rax, pc, depth, passed>>

(* generate_return *)

Return(result) ==
  LET site == memory[rbp + 1].site
  IN  /\ pc.at = "running"
      /\ rax' = result
      /\ rbp' = memory[rbp].n
      /\ rsp' = rbp + 2
      /\ pc' = Code(IF site = Runtime THEN "ended" ELSE "returned", site.caller, site)
      /\ depth' = depth - 1
      /\ UNCHANGED <<memory, registers, passed>>

(* generate_method_call, after the call *)

\* Mutant: the words reserved for arguments kept.
CleanUpKeepsArguments ==
  /\ pc.at = "returned"
  /\ Write([a \in {FieldAddress(rbp, pc.site.destination)} |-> rax])
  /\ pc' = Code("running", pc.method, Runtime)
  /\ UNCHANGED <<rsp, rbp, registers, rax, depth, passed>>

CleanUp ==
  /\ pc.at = "returned"
  /\ rsp' = rsp + pc.site.extra_stack_size
  /\ Write([a \in {FieldAddress(rbp, pc.site.destination)} |-> rax])
  /\ pc' = Code("running", pc.method, Runtime)
  /\ UNCHANGED <<rbp, registers, rax, depth, passed>>

\* The runtime's exit: nothing runs any more.
Ended == pc.at = "ended" /\ UNCHANGED vars

Destinations == Touched \cap (1 .. FieldCount(pc.method))

Next ==
  \/ \E callee \in Methods, destination \in Destinations : Call(callee, destination)
  \/ Enter
  \/ \E f \in Destinations, value \in Results : Assign(f, value)
  \/ \E result \in Results : Return(result)
  \/ CleanUp
  \/ Ended

Spec == Init /\ [][Next]_vars

-----------------------------------------------------------------------------
(* Properties *)

\* Every variable has its type, the stack is large enough for the bounds, and a
\* running method's fields lie above rsp, where no callee or signal writes.
TypeOK ==
  /\ rsp \in 0 .. StackTop
  /\ rbp \in 0 .. StackTop
  /\ \A a \in 0 .. StackTop : memory[a].kind \in {"number", "return"}
  /\ \A i \in 1 .. RegisterCount : registers[i].kind = "number"
  /\ rax.kind = "number"
  /\ pc.at \in {"entering", "running", "returned", "ended"}
  /\ depth \in 0 .. MaxDepth
  /\ pc.at = "running" => rsp + FieldCount(pc.method) =< rbp

\* At every call instruction, of a method, of an external function or of exit,
\* rsp is a multiple of 16 bytes, as the ABI that printf relies on asks: so it is
\* whenever a body runs, and when an extra word of arguments is on the stack.
CallsAreAligned ==
  /\ pc.at = "running" => rsp % 2 = 0
  /\ pc.at = "entering" => (rsp + 1) % 2 = 0

\* Whenever a method's body runs, rsp is its frame's size below rbp, so that every
\* call has given back what it reserved for arguments, padding included, and the
\* C runtime gets back its own two from main.
StackIsBalanced ==
  /\ pc.at = "running" => rsp = rbp - FrameSize(pc.method)
  /\ pc.at = "ended" => rsp = StackTop /\ rbp = StackTop

-----------------------------------------------------------------------------
(* Refinement: the activations are found by following the saved rbp. *)

\* The frames from the running method's down to main's.
Frames ==
  LET outer(frame) == [base |-> memory[frame.base].n,
                       method |-> memory[frame.base + 1].site.caller]
      innermost == IF pc.at = "entering"
                   THEN [base |-> rbp, method |-> memory[rsp].site.caller]
                   ELSE [base |-> rbp, method |-> pc.method]
      frame[k \in 1 .. depth] == IF k = 1 THEN innermost
                                 ELSE LET inner == frame[k - 1] IN outer(inner)
  IN  frame

FieldsOf(frame) == [f \in 1 .. FieldCount(frame.method) |-> memory[FieldAddress(frame.base, f)]]

\* Between the return and the store the result is in rax.
Settled(k, fields) ==
  IF k = 1 /\ pc.at = "returned" THEN [fields EXCEPT ![pc.site.destination] = rax] ELSE fields

MappedActivations ==
  LET frames == Frames
  IN  [k \in 1 .. depth |-> Settled(depth - k + 1, FieldsOf(frames[depth - k + 1]))]

A == INSTANCE Activations WITH
       activations <- MappedActivations, phase <- pc.at,
       answer <- [destination |-> pc.site.destination, result |-> rax]

\* The stack implements activations: a callee finds the arguments it was passed, in
\* order, the fields of the methods below it stay as they were through calls of any
\* depth, and the result arrives in the field that the call names.
ImplementsActivations == A!Spec
=============================================================================
