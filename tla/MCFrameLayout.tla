---------------------------- MODULE MCFrameLayout ----------------------------
(* Two methods and up to three nested or sibling scopes over an array x and a *)
(* scalar y, which are also the names of two globals.                         *)
EXTENDS FrameLayout

ArrayAndScalar == {<<"x", 2>>, <<"y", 1>>}

\* The same, and x declared as a scalar in some scopes.
ArrayOrScalar == ArrayAndScalar \cup {<<"x", 1>>}
=============================================================================
