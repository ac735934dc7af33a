--------------------------- MODULE MCOptimizations ---------------------------
(* Optimizations on small methods as llir_generator.c generates them: the    *)
(* statements are translated from the source language with a fresh temporary *)
(* wherever generate_expression takes one.                                   *)
EXTENDS Optimizations

\* Names: local and argument fields, a local array, a global, temporaries.
x == <<"x", 0>>
y == <<"y", 0>>
n == <<"n", 0>>
a == <<"a", 0>>
g == <<"g", 0>>
T(k) == <<"$", k>>
S(k) == <<"#", k>>

MCGlobals == {g}
MCNonLocal == {S(0)}
MCParameters == {n}
MCLengths == [f \in {x, y, n, a, g, S(0)} \cup {T(k) : k \in 10 .. 69} |-> IF f = a THEN 2 ELSE 1]
MCInputs == {[argument |-> arg, global |-> 2, answer |-> ans, garbage |-> -1] :
               arg \in 0 .. 2, ans \in 0 .. 1}
MCPassSets == {{"cf", "cp", "dce"}, {"cp", "dce"}, {"dce"}}

F(f) == FieldOperand(f)

\* v = 2;  v = w;  v += w;  v /= w;  v = call();  call(v);  v = a[w];  at place k.
Set(v, c, k) == <<Move(Literal(c), T(k)), Move(F(T(k)), v)>>
Copy(v, w, k) == <<Move(F(w), T(k)), Move(F(T(k)), v)>>
Update(type, v, w, k) ==
  <<Move(F(w), T(k)), Move(F(v), T(k + 1)),
    Assignment(type, T(k + 2), <<F(T(k + 1)), F(T(k))>>), Move(F(T(k + 2)), v)>>
Ask(v, k) == <<MethodCall(<<>>, T(k)), Move(F(T(k)), v)>>
Report(v, k) == <<Move(F(v), T(k + 1)), MethodCall(<<F(T(k + 1))>>, T(k))>>
Read(v, w, k) ==
  <<Move(F(w), T(k + 1)), ArrayAccess(F(T(k + 1)), a, T(k)), Move(F(T(k)), v)>>

\* int x, y; int a[2];
Declare ==
  <<Move(Literal(0), x), Move(Literal(0), y),
    ArrayUpdate(Literal(0), Literal(1), a), ArrayUpdate(Literal(1), Literal(2), a)>>

\* l < r or l == r into T(k + 2).
Condition(type, l, r, k) ==
  <<Move(l, T(k)), Move(r, T(k + 1)), Assignment(type, T(k + 2), <<F(T(k)), F(T(k + 1))>>)>>
Otherwise(k, true_block, false_block) ==
  BranchIf("equal", FALSE, F(T(k + 2)), Literal(0), true_block, false_block)

Block(method, arrays, assignments, terminal, predecessors) ==
  [method |-> method, arrays |-> arrays, assignments |-> assignments,
   terminal |-> terminal, predecessors |-> predecessors]

Finish == Report(x, 50) \o Report(y, 52)

\* A second method that has a local of the same name.
Other == Block(2, {}, <<Move(Literal(0), x)>> \o Ask(x, 60) \o Report(x, 62) \o Copy(g, x, 64),
               ReturnOf(F(x)), <<>>)

\* first; if (n == 0) { second } third
If(first, second, third) ==
  << Block(1, {a}, Declare \o first \o Condition("equal", F(n), Literal(0), 40),
           Otherwise(40, 2, 3), <<>>),
     Block(1, {}, second, JumpTo(3), <<1>>),
     Block(1, {}, third \o Finish, ReturnOf(Literal(0)), <<1, 2>>),
     Other >>

\* first; while (y < n) { second; y += 1; } third
While(first, second, third) ==
  << Block(1, {a}, Declare \o first, JumpTo(2), <<>>),
     Block(1, {}, Condition("less", F(y), F(n), 40), Otherwise(40, 3, 4), <<1, 3>>),
     Block(1, {}, second \o <<Move(F(y), T(46)), Assignment("add", T(47), <<F(T(46)), Literal(1)>>),
                              Move(F(T(47)), y)>>, JumpTo(2), <<2>>),
     Block(1, {}, third \o Finish, ReturnOf(Literal(0)), <<2>>),
     Other >>

\* first; a[n] = x; second; third
Bounds(first, second, third) ==
  << Block(1, {a}, Declare \o first \o <<Move(F(n), T(40))>>,
           BranchIf("less", TRUE, F(T(40)), Literal(2), 2, 3), <<>>),
     Block(1, {}, <<>>, Exit, <<1>>),
     Block(1, {}, <<Move(F(x), T(41)), ArrayUpdate(F(T(40)), F(T(41)), a)>>
                  \o second \o third \o Finish, ReturnOf(Literal(0)), <<1>>),
     Other >>

\* first; y = n == 1 && x == 1; second; third
ShortCircuit(first, second, third) ==
  << Block(1, {a}, Declare \o first \o Condition("equal", F(n), Literal(1), 40)
                   \o <<Move(F(T(42)), S(0))>>,
           BranchIf("not_equal", FALSE, F(T(42)), Literal(1), 2, 3), <<>>),
     Block(1, {}, Condition("equal", F(x), Literal(1), 43) \o <<Move(F(T(45)), S(0))>>,
           JumpTo(3), <<1>>),
     Block(1, {}, <<Move(F(S(0)), y)>> \o second \o third \o Finish,
           ReturnOf(Literal(0)), <<1, 2>>),
     Other >>

Firsts == {Set(x, 1, 10), Copy(x, y, 10), Copy(x, n, 10), Copy(x, g, 10)}
Seconds == {Set(x, 1, 20), Set(x, 2, 20), Copy(x, y, 20), Update("add", x, y, 20),
            Copy(g, x, 20), Ask(x, 20)}
Thirds == {Copy(y, x, 30), Update("divide", y, x, 30), Read(y, x, 30), Set(x, 2, 30)}

\* No program assigns to its argument: see MCArgumentUpdate.
MCPrograms ==
  UNION {{If(p, q, r), While(p, q, r), Bounds(p, q, r), ShortCircuit(p, q, r)} :
           p \in Firsts, q \in Seconds, r \in Thirds}
=============================================================================
