CONSTANTS
  Threads = {t1, t2}
  Items = {5, 6}
  NumNodes = 3
  Kinds = {"treiber", "lock"}
  InitialLock = 0
SPECIFICATION FairSpec
INVARIANT TypeOK
INVARIANT ChainIsContent
PROPERTY NoReuseUnderReference
PROPERTY Linearizable
PROPERTY LockFree
