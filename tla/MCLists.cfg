CONSTANTS
  Threads = {t1, t2}
  Keys = {1, 2, 3, 5}
  Vals = {5}
  Bound <- MCBound
  HtLength = 2
SPECIFICATION Spec
SYMMETRY Symmetry
INVARIANT TypeOK
INVARIANT MapIsList
INVARIANT LengthMatchesReturns
INVARIANT ReleaseIsSafe
PROPERTY RemovedIsFrozen
PROPERTY Linearizable
