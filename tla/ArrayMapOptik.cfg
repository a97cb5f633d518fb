CONSTANTS
  Threads = {t1, t2}
  Keys = {1, 2, 3}
  Vals = {5, 6}
  Size = 2
  MaxVersion = 4
SPECIFICATION FairSpec
INVARIANT TypeOK
INVARIANT NoDuplicateKeys
INVARIANT UpdatesHitTheirSlot
INVARIANT LengthMatchesReturns
PROPERTY Linearizable
PROPERTY EveryCallReturns
