SPECIFICATION Spec
CONSTANTS
  NULL = NULL
  TimerThread = timer
  Idle = idle_t
  Main = main
  Thread = {timer, idle_t, main, t1, t2}
  KTimer = {}
  UINT_RANGE = 2
  TIMER_PERIOD = 1
  USEC = 1
  MAX_UPTIME = 100
  Seconds = {1}
  Usecs = {1}
  Delays = {}
  VMM_FAILS = FALSE
SYMMETRY Symmetry
PROPERTY
  LifeSpec
INVARIANTS
  RunQueueExact
  JoinOnlyDead
  NoDangling
