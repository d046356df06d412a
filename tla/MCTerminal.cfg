CONSTANTS
  WordMod = 256
  HexWidth = 2
  W = 4
  H = 3
  BarRow = 1
  BarCol = 1
  BarLen = 2
  SpinMax = 3
  LineMax = 5
  Glyphs = {"h", "c", "v", "p"}
  MaxKeys = 6
SPECIFICATION TerminalSpec
INVARIANT LineEditing
PROPERTY BootContinues
CHECK_DEADLOCK FALSE
