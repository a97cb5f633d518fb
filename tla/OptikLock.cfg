CONSTANTS
  Threads = {t1, t2, t3}
  MaxVersion = 2
SPECIFICATION Spec
SYMMETRY Symmetry
INVARIANT TypeOK
INVARIANT MutualExclusion
INVARIANT ValidatedReadIsConsistent
INVARIANT ValidatedLockIsFresh
PROPERTY DeletedIsForever
CHECK_DEADLOCK FALSE
