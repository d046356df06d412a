CONSTANTS
  NULL = NULL
  SECTOR = 2
  POLLS = 2
  MAX_BLK_DEVS = 1
  max_sectors = 7
  max_bytes_cap = 15
  NODE = 2
  META = 1
  Disks <- MCDisks
  Memory <- MCMemory
SPECIFICATION Spec
INVARIANTS AllOrNothing InStep TreeIsArchive
PROPERTY MountEnds
