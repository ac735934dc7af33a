--------------------------- MODULE MCArgumentUpdate ---------------------------
(* Optimizations on methods that assign to their argument on one of two paths. *)
EXTENDS MCOptimizations

ArgumentUpdates ==
  {If(Set(x, 1, 10), second, Copy(y, n, 30)) : second \in {Set(n, 2, 20), Copy(n, x, 20)}}
  \cup {While(Set(x, 1, 10), Set(n, 0, 20), Copy(x, n, 30))}
=============================================================================
