CONSTANTS
  Threads = {t1, t2}
  Items = {5}
  NumNodes = 3
  Kinds = {"lf"}
  Reordered = TRUE
SPECIFICATION Spec
INVARIANT ChainIsContent
