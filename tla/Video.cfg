CONSTANTS
  CharModulus = 8
  RasterModulus = 16
  LineModulus = 4
  AdjModulus = 4
  WidthModulus = 3
  ScrBuffHeight = 50
  MaxQueued = 2
  Menus <- MCMenus
SPECIFICATION Spec
INVARIANTS FramesAreRegular NoFrameIsForgotten
PROPERTIES DisplayIsTheScreen VsyncIsSeen FieldHasItsLines PictureComesBack
