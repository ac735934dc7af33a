--------------------------- MODULE MCCodeGenerator ---------------------------
(* The flow graph that LlirGenerator makes of every program within the bounds,*)
(* and its text, with and without the pinhole optimization.                   *)
EXTENDS CodeGenerator
=============================================================================
