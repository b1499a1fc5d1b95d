CONSTANTS
  Digit = 2
  Uninitialised = {0}
  ScanModulus = 4
  LastColumn = 2
  Dips = {7}
  Menus <- MCMenus
  Keymap <- MCKeymap
SPECIFICATION SysSpec
INVARIANTS IrqIsConsistent LatchFollowsWrites TableIsSound
PROPERTIES AnswerIsTrue HeldKeyInterrupts
