CONSTANTS
  NULL = NULL
  Thread = {k, u1, u2}
  Idle = k
  User = {u1, u2}
  NEST = 2
  KILL_MISSES = TRUE
SPECIFICATION Spec
INVARIANT ResumesOwn
