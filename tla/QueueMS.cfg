CONSTANTS
  Threads = {t1, t2}
  Items = {5, 6}
  NumNodes = 3
  Kinds = {"lf", "lb", "hybrid"}
  Reordered = FALSE
SPECIFICATION FairSpec
INVARIANT TypeOK
INVARIANT ChainIsContent
INVARIANT TailNotBehindHead
PROPERTY NoReuseUnderReference
PROPERTY Linearizable
PROPERTY StoppedThreadsDoNotBlock
