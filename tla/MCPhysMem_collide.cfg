CONSTANTS
  PAGE_SIZE = 2
  BITMAP_SIZE = 6
  SIZE_MAX = 64
  mem_map <- MapPC
  LAYOUT_PADDR_START = 6
  LAYOUT_PADDR_END = 12
  pages_bitmap0 = 5
  IdentityMapped = {0, 1, 2, 3, 4, 5}
  HeapGrowth = {0}
  Addrs = {13}
  Sizes = {0}
  MaxBitmaps = 2
  MaxHint = 6
SPECIFICATION Spec
INVARIANT RequestLocksItsPage
CHECK_DEADLOCK FALSE
