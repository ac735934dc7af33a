\* The scanner stops at the end of the source, the conversion at its result.
CONSTANTS
  Sources <- MCSources
  Modulus = 256
  Bases = {10, 16}
  MaxDigits = 4

SPECIFICATION ScannedSpec

INVARIANTS
  StateOK
  TokensAreLongest
  LiteralIsExact
  InRangeIsAccepted

CHECK_DEADLOCK FALSE
