SPECIFICATION FairSpec
CONSTANTS
  Cpu = {c1, c2}
  RANGE = 3
  Ops <- Calls
  EXCEPTIONS = 2
  NONE = NONE
PROPERTIES
  AtomicSpec
  LockFree
