CONSTANTS
  Volumes <- MCVolumes
  BYTES = 2
  CHUNK = 2
  EOF = 99
  WORD = 16
  Lower <- MCLower
  Names <- MCNames
  Offsets = {0, 3, 4, 7}
  Sizes = {0, 2, 8}
  Indices = {0, 1, 2, 3, 4, 5}
  MaxNodes = 3
SPECIFICATION Spec
INVARIANTS HeldExactly CacheIsTable ReadsContents DirectoryIsChain
PROPERTY CallsEnd
