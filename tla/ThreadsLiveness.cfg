SPECIFICATION FairSpec
CONSTANTS
  NULL = NULL
  TimerThread = timer
  Idle = idle_t
  Main = main
  Thread = {timer, idle_t, main, t1}
  KTimer = {k}
  UINT_RANGE = 4
  TIMER_PERIOD = 1
  USEC = 1
  MAX_UPTIME = 3
  Seconds = {2}
  Usecs = {}
  Delays = {0}
  VMM_FAILS = FALSE
PROPERTIES
  DestroyEnds
  ReadyRuns
  SleepEnds
  JoinEnds
