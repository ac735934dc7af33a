----------------------------- MODULE Elimination -----------------------------
(***************************************************************************)
(* What dead-code elimination promises: method after method, the           *)
(* assignments that no observable use needs disappear, all at once, and    *)
(* nothing else changes.  Calls are observable whatever becomes of their   *)
(* result; so are the globals, the arrays and the operands of terminals.   *)
(***************************************************************************)
EXTENDS Llir

CONSTANT Programs   \* the programs it is run on

VARIABLES
  program,   \* the program
  method     \* the next method, numbered in the order of the program

vars == <<program, method>>

OfMethod(b) == program[b].method = method

AssignmentsOfMethod ==
  UNION {{program[b].assignments[i] : i \in DOMAIN program[b].assignments} :
           b \in {c \in DOMAIN program : OfMethod(c)}}

Observed ==
  Globals
  \cup (UNION {program[b].arrays \cup FieldsIn(program[b].terminal.operands) :
                 b \in {c \in DOMAIN program : OfMethod(c)}})
  \cup UNION {FieldsIn(a.operands) : a \in {d \in AssignmentsOfMethod : d.type = "method_call"}}

\* The least set with the observed fields and all that assignments to it read.
Needed ==
  LET ReadFor(S) == UNION {FieldsIn(a.operands) :
                             a \in {d \in AssignmentsOfMethod : d.destination \in S}}
      within[n \in 0 .. Cardinality(AssignmentsOfMethod)] ==
        IF n = 0 THEN Observed ELSE LET known == within[n - 1] IN known \cup ReadFor(known)
  IN  within[Cardinality(AssignmentsOfMethod)]

\* A block's assignments without those that a set of needed fields does not need.
Kept(assignments, needed) ==
  LET Keep(a) == a.destination \in needed \/ a.type = "method_call"
  IN  Filtered(assignments, Keep)

Init == program \in Programs /\ method = 1

Eliminate ==
  /\ \E b \in DOMAIN program : program[b].method >= method
  /\ LET needed == Needed
     IN  program' = [b \in DOMAIN program |->
                       IF OfMethod(b)
                         THEN [program[b] EXCEPT !.assignments = Kept(@, needed)]
                         ELSE program[b]]
  /\ method' = method + 1

Spec == Init /\ [][Eliminate]_vars
=============================================================================
