CONSTANTS
  Threads = {t1, t2}
  MaxCrossings = 2
SPECIFICATION SpecPosix
INVARIANT NoEarlyCrossing
CHECK_DEADLOCK FALSE
