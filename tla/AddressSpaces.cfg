SPECIFICATION Spec
CONSTANTS
  Space = {s1, s2}
  First = s1
  ASIDS = 3
  VMAS = 2
  PAGES = 4
  AUTO_LIMIT = 3
  FRAMES = 3
  ENTRIES = 2
  Counts = {1, 2}
  PAGE_SIZE = 2
  NONE = NONE
INVARIANTS
  TLBCoherent
  NoDoubleMatch
  FramesPrivate
  CheckUserSound
