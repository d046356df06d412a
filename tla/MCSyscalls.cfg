CONSTANTS
  MAX_OPEN_FILES = 3
  WORD = 8
  Addr = {1, 2, 3, 4, 5}
  NULL = NULL
  Tree <- MCTree
  TreeRoot = 1
  Paths <- MCPaths
  Options <- MCOptions
  Counts = {0, 2}
  Offsets <- MCOffsets
  EHDR = 2
  Header <- MCHeader
  INIT_ELF <- MCInitElf
  BIN_SH <- MCSh
  OpenAccesses = {"RDONLY"}
  MaxPid = 2
SPECIFICATION Spec
INVARIANT HeldExactly
PROPERTIES OthersUntouched LoadsEnd
CHECK_DEADLOCK FALSE
