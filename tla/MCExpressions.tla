---------------------------- MODULE MCExpressions ----------------------------
(* One field, and operators nested to the right up to three deep.             *)
EXTENDS Expressions

Plus(n) == Literal("int", n, FALSE)
Minus(n) == Literal("int", n, TRUE)
Bool(n) == Literal("bool", n, FALSE)
Overflowing == Plus(TooLarge)

MCLiterals == {Plus(1), Minus(Half), Bool(0), Bool(1), Overflowing}

MCMethods == {Method(TRUE, "int", ""), Method(FALSE, "void", "int"),
              Method(FALSE, "bool", ""), Method(FALSE, "int", "bool")}

Initializers == {<<>>, <<Plus(1)>>, <<Minus(Half)>>, <<Bool(1)>>, <<Overflowing>>,
                 <<Plus(0), Bool(1)>>, <<Bool(0), Bool(1)>>}

\* Every form of declaration the parser lets through.
DeclarationsWith(initializers, lengths) ==
  {d \in {Declaration(type, constant, brackets, length, initializer, list) :
            type \in Scalar, constant \in BOOLEAN, brackets \in {"none", "empty", "length"},
            length \in lengths \cup {Missing, 1}, initializer \in initializers, list \in BOOLEAN} :
     /\ d.brackets = "none" => d.array_length = 1
     /\ d.brackets = "empty" => d.array_length = Missing
     /\ d.brackets = "length" => d.array_length \in lengths
     /\ d.initializer = <<>> => ~ d.list
     /\ Len(d.initializer) > 1 => d.list}

MCDeclarations == DeclarationsWith(Initializers, {0, 2})

\* A bool with a minus sign in an array whose length is past the largest int: two rules
\* broken, each of which alone has to reject the declaration.
UnsoundDeclarations ==
  {Declaration("bool", FALSE, "length", TooLarge, <<Literal("bool", 1, TRUE)>>, TRUE)}
=============================================================================
