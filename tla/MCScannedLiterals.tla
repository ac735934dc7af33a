-------------------------- MODULE MCScannedLiterals --------------------------
(* Short sources over alphabets that each bring a few patterns into conflict, and *)
(* integer literals with and without a minus sign.                                *)
EXTENDS ScannedLiterals

Words(alphabet, n) == UNION {[1 .. k -> alphabet] : k \in 0 .. n}
Behind(prefix, words) == {prefix \o w : w \in words}

Decimals == Words(Digits, 3) \cup Words({"0", "1", "2", "5", "7", "8", "9"}, 4)
Hexadecimals == Behind(<<"0", "x">>, Words({"0", "1", "7", "8", "a", "F"}, 4))
IntLiterals == Decimals \cup Hexadecimals

MCSources ==
  Words({"/", "*", "=", "\n", "a"}, 4) \cup Behind(<<"/", "*">>, Words({"/", "*", "\n", "a"}, 5))
  \cup Words({"'", "\"", "\\", "n", "@"}, 5)
  \cup Words({"i", "f", "0", "x", "_", " "}, 4)
  \cup Words({"+", "-", "=", "!", "&", "<", "@"}, 4)
  \cup IntLiterals \cup Behind(<<"-">>, IntLiterals)
==============================================================================
