----------------------------- MODULE MCSemantics -----------------------------
(* Programs over two names, one of them "main".                               *)
EXTENDS Semantics
=============================================================================
