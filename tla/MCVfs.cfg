CONSTANTS
  MAX_OPEN_FILES = 2
  WORD = 8
  Addr = {1, 2, 3, 4, 5, 6}
  NULL = NULL
  Tree <- MCTree
  TreeRoot = 1
  Paths <- MCPaths
  Options <- MCOptions
  Counts = {1, 7}
  Offsets <- MCOffsets
SPECIFICATION Spec
INVARIANT DescriptorsCurrent
PROPERTIES NothingCreatedOrRemoved RefinesOpenFiles
