CONSTANTS
  PAGE_SIZE = 2
  MAX_FRAMES = 3
  MemoryMaps <- MCMemoryMaps
  KernelEnds <- MCKernelEnds
  Addresses = {0, 5, 6, 8, 10, 12, 14, 18}
  Spaces = {p1, p2}
  AddrLimit = 6
  MapVas = {0, 1, 2, 4}
  MapPas = {0, 3, 4}
  MapLens = {0, 1, 2, 3, 4, 5}
  None = None
SPECIFICATION Spec
INVARIANTS
  FreeCountExact
  HeldFramesMarked
  NoneOnlyWhenFull
  RootsOwned
  TranslateAgrees
PROPERTIES
  TranslationNeverRedirected
CHECK_DEADLOCK FALSE
