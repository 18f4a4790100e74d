CONSTANTS
  PAGE_SIZE = 2
  BITMAP_SIZE = 6
  SIZE_MAX = 64
  mem_map <- MapPC
  LAYOUT_PADDR_START = 0
  LAYOUT_PADDR_END = 3
  pages_bitmap0 = 1
  IdentityMapped = {0, 1, 2, 3, 4, 5}
  HeapGrowth = {0, 1}
  Addrs = {0, 6, 9, 10, 13}
  Sizes = {0, 3}
  MaxBitmaps = 3
  MaxHint = 6
SPECIFICATION FairSpec
INVARIANTS TypeOK HintExact RequestsDoNotCollide UnsetExact Accounting ScanIsFirstFit Ownership
PROPERTIES CallsReturn ImplementsContract
CHECK_DEADLOCK FALSE
