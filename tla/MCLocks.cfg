CONSTANTS
  t1 = t1
  t2 = t2
  t3 = t3
  Threads = {t1, t2, t3}
  Users <- MCUsers
  TicketMod = 14
  MaxVersion = 2
SPECIFICATION Spec
INVARIANT MutualExclusion
INVARIANT ValidatedLockIsFresh
INVARIANT FirstComeFirstServed
PROPERTY EveryLockReturns
CHECK_DEADLOCK FALSE
