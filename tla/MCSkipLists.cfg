CONSTANTS
  Threads = {t1, t2}
  Keys = {1, 2}
  Vals = {5}
  NumNodes = 2
  LevelMax = 2
  Bound <- MCBound
SPECIFICATION Spec
SYMMETRY Symmetry
INVARIANT MapIsLevel0
INVARIANT LengthMatchesReturns
 
PROPERTY Linearizable
