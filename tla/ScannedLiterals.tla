--------------------------- MODULE ScannedLiterals ---------------------------
(***************************************************************************)
(* An integer literal from the source file to the int64_t: the scanner     *)
(* (Scanner) followed by the conversion of the token it finds              *)
(* (IntLiteral), by ir_literal_new and ir_int_literal_from_ast of          *)
(* src/src/semantics/ir.c.  A source that is no literal is only scanned.   *)
(***************************************************************************)
EXTENDS IntLiteral, Scanner

\* What the two kinds of literal are written in.
ASSUME LiteralBasesAssumption == {10, 16} \subseteq Bases

-----------------------------------------------------------------------------
CharacterToInt ==
  [c \in HexDigits |->
     CASE c \in Digits -> CHOOSE n \in 0 .. 9 : <<"0", "1", "2", "3", "4", "5", "6", "7", "8", "9">>[n + 1] = c
       [] c \in {"a", "A"} -> 10
       [] c \in {"b", "B"} -> 11
       [] c \in {"c", "C"} -> 12
       [] c \in {"d", "D"} -> 13
       [] c \in {"e", "E"} -> 14
       [] c \in {"f", "F"} -> 15]

Spelling(word) == [k \in 1 .. Len(word) |-> CharacterToInt[word[k]]]

\* The tokens of an integer literal: the last is the digits', a minus sign may precede it.
LiteralToken == tokens[Len(tokens)]
IsLiteral ==
  /\ Len(tokens) \in {1, 2}
  /\ LiteralToken.type \in {HexLiteral, DecimalLiteral}
  /\ Len(tokens) = 2 => tokens[1].type = <<"-">>

ScannedInit ==
  /\ ScannerNew
  /\ digits = <<>> /\ base = 10 /\ negate = FALSE
  /\ i = 0 /\ value = 0 /\ place = 1 /\ result = Converting

Scan == ScannerNextToken /\ UNCHANGED vars

\* The two characters before hexadecimal digits are skipped.
IrIntLiteralFromAst ==
  /\ Finished /\ scanned = 0 /\ digits = <<>> /\ IsLiteral
  /\ LET hex == LiteralToken.type = HexLiteral
         skipped == IF hex THEN 2 ELSE 0
     IN  /\ digits' = Spelling(SubSeq(LiteralToken.word, skipped + 1, Len(LiteralToken.word)))
         /\ base' = IF hex THEN 16 ELSE 10
  /\ negate' = (Len(tokens) = 2)
  /\ i' = Len(digits')
  /\ UNCHANGED <<value, place, result>>
  /\ UNCHANGED scanner

StringToInt ==
  /\ digits # <<>>
  /\ AddDigit \/ Finish
  /\ UNCHANGED scanner

ScannedNext == Scan \/ IrIntLiteralFromAst \/ StringToInt

ScannedSpec == ScannedInit /\ [][ScannedNext]_<<vars, scanner>>

-----------------------------------------------------------------------------
(* Properties *)

\* Both components are well typed: the place value is never zero while the compiler divides
\* by it.
StateOK == TypeOK /\ ScannerTypeOK
=============================================================================
