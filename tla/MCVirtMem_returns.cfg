CONSTANTS
  LEVELS = 3
  PT_LENGTH = 9
  FRAMES = 64
  KernelPath <- PathToKernel
  FirstPage = 1
  EntryPages = 1
  TextPages = 1
  RodataPages = 1
  DataPages = 1
  BootPages = 1
  Leftovers <- Stale
  PAGE_SIZE = 2
  MapFrames = {20}
  HeapFrames = {30, 31}
  ByteSizes = {2}
  Hints <- FreeHints
  Released <- FreeHints
  FlagSets <- Callers
  Touched <- TouchedPages
  MaxCached = 0
  MaxMapped = 9
SPECIFICATION Spec
INVARIANT MapReturnsItsPages
CHECK_DEADLOCK FALSE
