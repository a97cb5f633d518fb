CONSTANTS
  Threads = {t1, t2}
  Keys = {1, 2, 3, 5}
  Vals = {5}
  Bound <- MCBoundLive
  HtLength = 2
SPECIFICATION FairSpec
PROPERTY EveryCallReturns
