CONSTANTS
  AddrSpace = 2
  ByteSpace = 2
  Null = null
  Bad = bad
  Numbers = {0, 3}
  MaxLines = 2
SPECIFICATION Spec
INVARIANTS EngineMirrorsManager SaveThenLoadRestores
