SPECIFICATION FairSpec
CONSTANTS
  ALIGNMENT = 2
  HEAD = 2
  FOOT = 2
  HEAP_T = 2
  FRAME_SIZE = 26
  HEAP_FRAMES = 1
  FRAMES = 2
  Sizes = {1, 4, 28}
PROPERTIES
  AllocatorSpec
  MallocEnds
INVARIANTS
  Tiled
  Coalesced
  FramesExact
  ScanMissesNothing
