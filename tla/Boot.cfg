SPECIFICATION FairSpec
CHECK_DEADLOCK FALSE
CONSTANTS
  NCPU = 3
  Short = {0}
INVARIANTS
  MemoryOrder
  OwnQueue
PROPERTY
  CpusComeUp
