CONSTANTS
  NULL = NULL
  Thread = {c1, c2, t1, t2}
  Boot = {c1, c2}
  Process = {p1, p2}
  UThread = {x1, x2}
  REJOIN = FALSE
SPECIFICATION FairSpec
INVARIANTS JoinsOwn NoLeaks
PROPERTY JoinedIsReaped
