SPECIFICATION Spec
CONSTANTS
  NULL = NULL
  TimerThread = timer
  Idle = idle_t
  Main = main
  Thread = {timer, idle_t, main, t1}
  KTimer = {k}
  UINT_RANGE = 3
  TIMER_PERIOD = 1
  USEC = 1
  MAX_UPTIME = 100
  Seconds = {1}
  Usecs = {1}
  Delays = {1}
  VMM_FAILS = TRUE
INVARIANTS
  SleeperHasTimer
  DestroyedTimerUntouched
PROPERTY
  NoStaleTimeout
