CONSTANTS
  Threads = {t1, t2, t3, t4}
  MaxCrossings = 4
SPECIFICATION FairSpec
INVARIANT TypeOK
INVARIANT NoEarlyCrossing
PROPERTY EveryoneCrosses
CHECK_DEADLOCK FALSE
