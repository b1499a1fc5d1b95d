CONSTANTS
  ShortWord = 1
  LongWord = 2
  IntWidth = 3
  CountModulus = 4
  Divisors = {1, 4}
  Chars <- MCChars
  ControlWords <- MCControlWords
  ByteBits = 2
  DummyByte <- MCDummyByte
  RxPeriod = 2
  LockThreshold = 2
  ScrValues <- MCScrValues
  Tapes <- MCTapes
  Recordings <- MCRecordings
SPECIFICATION LoadSpec
INVARIANTS LockMeansCarrier LoadIsFaithful
PROPERTIES PlaysTheTape StoppedTapeLosesCarrier
