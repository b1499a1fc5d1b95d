CONSTANTS
  ShortWord = 3
  LongWord = 4
  IntWidth = 5
  CountModulus = 6
  Divisors = {1, 2, 4}
  Chars <- MCChars
  ControlWords <- MCFormats
  MaxSent = 3
SPECIFICATION LSpec
INVARIANTS ReceivedIsSent
