CONSTANTS
  ShortWord = 1
  LongWord = 2
  IntWidth = 3
  CountModulus = 4
  Divisors = {1}
  Chars <- MCChars
  ControlWords <- MCControlWords
SPECIFICATION HSpec
INVARIANTS TdreIsSafe FlagsFollowRdr IrqBitMirrorsLine
PROPERTIES GapsAreShown LossesAreShown
