----------------------------- MODULE MCCallStack -----------------------------
(* Methods with no argument, with one on the stack and with two, in frames of *)
(* an even and an odd number of words.                                        *)
EXTENDS CallStack

Method(arguments, locals) == [arguments |-> arguments, locals |-> locals]

MCMain == Method(0, 2)
MCMethods == {MCMain, Method(7, 0), Method(8, 1)}
MCResults == {Number(9)}
=============================================================================
