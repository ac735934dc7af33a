------------------------ MODULE MCDeadCodeElimination ------------------------
(* DeadCodeElimination on every program of a method of three assignments in    *)
(* two blocks, as copy propagation leaves them, followed by a second method    *)
(* that shares its field names.                                                *)
EXTENDS DeadCodeElimination

F(f) == FieldOperand(f)

\* Chains x <- y <- z <- x can be written in either order; a is a local array
\* and g a global.
Statements ==
  {Move(F("y"), "x"), Move(F("z"), "y"), Move(F("x"), "z"),
   ArrayUpdate(F("z"), Literal(1), "a"), ArrayAccess(F("x"), "a", "y"),
   Assignment("add", "g", <<F("y"), Literal(1)>>), MethodCall(<<F("x")>>, "z")}

Block(method, arrays, assignments, terminal) ==
  [method |-> method, arrays |-> arrays, assignments |-> assignments,
   terminal |-> terminal, predecessors |-> <<>>]

MCPrograms ==
  { << Block(1, {"a"}, <<s1, s2>>, JumpTo(2)),
       Block(1, {}, <<s3>>, ReturnOf(result)),
       Block(2, {}, <<Move(F("y"), "x"), Move(F("x"), "z")>>, ReturnOf(F("z"))) >> :
    s1, s2, s3 \in Statements, result \in {F("x"), Literal(0)} }
=============================================================================
