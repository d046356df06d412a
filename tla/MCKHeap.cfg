CONSTANTS
  KHEAP_START = 16
  KHEAP_INITIAL_SIZE = 76
  KHEAP_ALIGN = 16
  WORD = 1024
  Sizes <- MCSizes
  Counts = {2}
SPECIFICATION FairSpec
INVARIANTS TypeOK Tiled Coalesced NothingLeaks
PROPERTIES FailsOnlyWhenFull RefinesAllocator CallsReturn
