CONSTANTS
  AddrMod = 20
  FrameSize = 2
  MaxFrames = 7
  LowBytes = 3
  KernelStart = 5
  KernelEnd = 8
  DefaultUpper = 9
  Uppers <- MCUppers
  Stack <- MCStack
  NoMap = NoMap
  Nothing = Nothing
SPECIFICATION PmmSpec
INVARIANTS FramesSound CountMatches
PROPERTY RefinesFrames
CHECK_DEADLOCK FALSE
