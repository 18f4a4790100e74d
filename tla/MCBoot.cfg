CONSTANTS
  BLOCK = 32
  SIZE_DIGITS = 2
  PAGE_SIZE = 64
  NumPages = 26
  HIGHER_HALF = 100000
  PADDR_START = 192
  PADDR_END = 290
  TagLists <- AllTagLists
  StartTakes = 3
  Paths = {"a", "b", "c"}
SPECIFICATION Spec
INVARIANTS BootinfoArrives PagesHaveOneOwner LookupsAnswer
CHECK_DEADLOCK FALSE
