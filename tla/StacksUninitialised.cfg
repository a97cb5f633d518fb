CONSTANTS
  Threads = {t1, t2}
  Items = {5}
  NumNodes = 2
  Kinds = {"lock"}
  InitialLock = 2
SPECIFICATION Spec
INVARIANT CountMatchesReturns
