---------------------------- MODULE MCSkipLists ----------------------------
EXTENDS SkipLists, TLC

Symmetry == Permutations(Threads)

Ops == {"search", "insert", "remove"}

\* Where a skip list has many states, one search is left out: the other one and the
\* updates walk over the same nodes.
MCBound ==
  [s \in {"SkiplistOptik", "SkiplistFraser", "SkiplistHerlihyLF"} |-> (Ops \X {1, 2}) \ {<<"search", 1>>}]
    @@ [s \in {"SkiplistHerlihyLB", "SkiplistSeq"} |-> Ops \X {1, 2}]
=============================================================================
