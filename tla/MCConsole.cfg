CONSTANTS
  Width = 3
  Height = 2
  TabStop = 2
  WordMod = 256
  HexWidth = 2
  DumpWidth = 2
  Chars <- MCChars
  Numbers = {10, 127, 128, 129}
  Colours <- MCColours
  Cursors <- MCCursors
  Levels = {2, 6, 7}
  MaxLog = 2
SPECIFICATION Spec
INVARIANTS ScreenIsTail NumbersReadBack
CHECK_DEADLOCK FALSE
