CONSTANTS
  ShortWord = 1
  LongWord = 2
  IntWidth = 3
  CountModulus = 4
  Divisors = {1, 2}
  Chars <- MCChars
  ControlWords <- MCFormats
SPECIFICATION ClocksSpec
PROPERTIES TdrDrains CharacterEnds
