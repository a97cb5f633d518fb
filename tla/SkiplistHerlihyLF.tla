------------------------- MODULE SkiplistHerlihyLF -------------------------
(***************************************************************************)
(* SkiplistHerlihyLF (src/algorithms/skiplist_herlihy_lf.h): the lock-free *)
(* skip list with Herlihy's optimization.  Only the search after a failed  *)
(* CAS and at the end of a remove unlinks marked nodes; the others step    *)
(* over them.  A remove belongs to the thread that marks level 0.  pred    *)
(* and next are left and left_next, curr is right; node is the new node or *)
(* the one to remove.                                                      *)
(***************************************************************************)
EXTENDS SkipList

Init == is("SkiplistHerlihyLF") /\ SkipInit

length == Cardinality({n \in OnLevel(0) : ~node[n].mark[0]})

Holds(n, i, next) == node[n].next[i] = next /\ ~node[n].mark[i]

-----------------------------------------------------------------------------
(* herlihy_search_no_cleanup, which the updates start with.                *)

Right(t, from, to) ==
  /\ Goto(t, from, to)
  /\ loc' = [loc EXCEPT ![t].curr = node[IF @ = NULL THEN Pred(t) ELSE @].next[lvl(t)]]
  /\ UNCHANGED <<heap, hist>>

\* Is right marked on this level?  Then go past it; otherwise it is the new left, or
\* the level is done.
FindMark(t) ==
  /\ pc[t] = "find_mark"
  /\ \/ /\ node[Curr(t)].mark[lvl(t)]
        /\ pc' = [pc EXCEPT ![t] = "find"]
        /\ UNCHANGED loc
     \/ /\ ~node[Curr(t)].mark[lvl(t)]
        /\ key(Curr(t)) < Key(t)
        /\ pc' = [pc EXCEPT ![t] = "find"]
        /\ loc' = [loc EXCEPT ![t].pred = Curr(t)]
     \/ /\ ~node[Curr(t)].mark[lvl(t)]
        /\ key(Curr(t)) >= Key(t)
        /\ pc' = [pc EXCEPT ![t] = IF lvl(t) = 0 THEN "found" ELSE "find"]
        /\ loc' = [loc EXCEPT ![t] =
                     [@ EXCEPT !.preds[lvl(t)] = Pred(t), !.succs[lvl(t)] = Curr(t),
                               !.curr = NULL, !.lvl = IF @ = 0 THEN 0 ELSE @ - 1]]
  /\ UNCHANGED <<heap, hist>>

herlihy_search_no_cleanup(t) == Right(t, "find", "find_mark") \/ FindMark(t)

-----------------------------------------------------------------------------
(* herlihy_search, which unlinks the marked nodes it meets.                *)

Cleanup(t) ==
  /\ pc' = [pc EXCEPT ![t] = "clean"]
  /\ loc' = [loc EXCEPT ![t] = AtTop(loc[t])]

CleanLeft(t) ==
  /\ pc[t] = "clean"
  /\ LET next == node[Pred(t)].next[lvl(t)] IN
       \/ node[Pred(t)].mark[lvl(t)] /\ Cleanup(t)
       \/ /\ ~node[Pred(t)].mark[lvl(t)]
          /\ pc' = [pc EXCEPT ![t] = "clean_right"]
          /\ loc' = [loc EXCEPT ![t].next = next, ![t].curr = next]
  /\ UNCHANGED <<heap, hist>>

CleanRight(t) ==
  /\ pc[t] = "clean_right"
  /\ LET next == node[Curr(t)].next[lvl(t)] IN
       \/ /\ node[Curr(t)].mark[lvl(t)]
          /\ loc' = [loc EXCEPT ![t].curr = next]
          /\ UNCHANGED pc
       \/ /\ ~node[Curr(t)].mark[lvl(t)]
          /\ key(Curr(t)) < Key(t)
          /\ loc' = [loc EXCEPT ![t].pred = Curr(t), ![t].next = next, ![t].curr = next]
          /\ UNCHANGED pc
       \/ /\ ~node[Curr(t)].mark[lvl(t)]
          /\ key(Curr(t)) >= Key(t)
          /\ IF loc[t].next = Curr(t)
             THEN Record(t, Pred(t), Curr(t), "clean")
             ELSE pc' = [pc EXCEPT ![t] = "clean_cas"] /\ UNCHANGED loc
  /\ UNCHANGED <<heap, hist>>

CleanCas(t) ==
  /\ pc[t] = "clean_cas"
  /\ \/ /\ Holds(Pred(t), lvl(t), loc[t].next)
        /\ SetNodes([node EXCEPT ![Pred(t)].next[lvl(t)] = Curr(t)])
        /\ Record(t, Pred(t), Curr(t), "clean")
     \/ /\ ~Holds(Pred(t), lvl(t), loc[t].next)
        /\ Cleanup(t)
        /\ UNCHANGED heap
  /\ UNCHANGED hist

herlihy_search(t) == CleanLeft(t) \/ CleanRight(t) \/ CleanCas(t)

-----------------------------------------------------------------------------
(* herlihy_left_search, which stops on the first level that has the key.   *)

\* Mutated: takes a marked node for the one it looks for.
LeftMarkIgnored(t) ==
  /\ pc[t] = "s_mark"
  /\ \/ /\ key(Curr(t)) < Key(t)
        /\ pc' = [pc EXCEPT ![t] = "search"]
        /\ loc' = [loc EXCEPT ![t].pred = IF node[Curr(t)].mark[lvl(t)] THEN @ ELSE Curr(t)]
        /\ UNCHANGED <<heap, hist>>
     \/ /\ key(Curr(t)) >= Key(t)
        /\ Answer(t, IF key(Curr(t)) = Key(t) THEN node[Curr(t)].val ELSE 0)

LeftMark(t) ==
  /\ pc[t] = "s_mark"
  /\ \/ /\ key(Curr(t)) < Key(t) \/ node[Curr(t)].mark[lvl(t)]
        /\ pc' = [pc EXCEPT ![t] = "search"]
        /\ loc' = [loc EXCEPT ![t].pred = IF node[Curr(t)].mark[lvl(t)] THEN @ ELSE Curr(t)]
        /\ UNCHANGED <<heap, hist>>
     \/ /\ key(Curr(t)) >= Key(t)
        /\ ~node[Curr(t)].mark[lvl(t)]
        /\ IF key(Curr(t)) # Key(t) /\ lvl(t) > 0
           THEN /\ pc' = [pc EXCEPT ![t] = "search"]
                /\ loc' = [loc EXCEPT ![t].lvl = @ - 1, ![t].curr = NULL]
                /\ UNCHANGED <<heap, hist>>
           ELSE Answer(t, IF key(Curr(t)) = Key(t) THEN node[Curr(t)].val ELSE 0)

herlihy_left_search(t) == Right(t, "search", "s_mark") \/ LeftMark(t)

search(t) == herlihy_left_search(t)

-----------------------------------------------------------------------------

succ0(t) == loc[t].succs[0]

InsertFound(t) ==
  /\ pc[t] = "found"
  /\ call[t].op = "insert"
  /\ loc[t].upto = 0
  /\ key(succ0(t)) = Key(t)
  /\ Answer(t, 0)

\* CAS(&preds[0]->next[0], succs[0], new_node): the insert takes effect.
InsertCas(t) ==
  /\ pc[t] = "found"
  /\ call[t].op = "insert"
  /\ loc[t].upto = 0
  /\ key(succ0(t)) # Key(t)
  /\ \/ /\ Holds(loc[t].preds[0], 0, succ0(t))
        /\ LET new == Min(Fresh)
               own == [i \in Levels |-> IF i < loc[t].top THEN loc[t].succs[i] ELSE NULL]
           IN  /\ node' = [node EXCEPT ![new] = Allocated(t, own),
                                       ![loc[t].preds[0]].next[0] = new]
               /\ used' = used \cup {new}
               /\ loc' = [loc EXCEPT ![t].node = new, ![t].upto = 1]
        /\ pc' = [pc EXCEPT ![t] = IF loc[t].top > 1 THEN "linking" ELSE "i_return"]
        /\ TakesEffect(t, call[t].val, 1)
        /\ UNCHANGED <<set, freed>>
     \/ /\ ~Holds(loc[t].preds[0], 0, succ0(t))
        /\ \E l \in get_rand_level :   \* the next try draws a new height
             loc' = [loc EXCEPT ![t] = [AtTop(loc[t]) EXCEPT !.top = l]]
        /\ pc' = [pc EXCEPT ![t] = "find"]
        /\ UNCHANGED <<heap, hist>>

LinkAgain(t) == call[t].op = "insert" /\ loc[t].upto > 0 /\ Decide(t, "found", "linking")

\* A new node that is already marked on the level is not linked there.
LinkMarked(t) ==
  /\ pc[t] = "linking"
  /\ pc' = [pc EXCEPT ![t] = IF node[loc[t].node].mark[loc[t].upto] THEN "i_return" ELSE "link"]
  /\ UNCHANGED <<heap, loc, hist>>

\* CAS(&pred->next[i], succ, new_node); new_node->next[i] stays what it was when
\* the node was made.
LinkCas(t) ==
  /\ pc[t] = "link"
  /\ LET i    == loc[t].upto
         pred == loc[t].preds[i]
     IN  \/ /\ Holds(pred, i, loc[t].succs[i])
            /\ SetNodes([node EXCEPT ![pred].next[i] = loc[t].node])
            /\ loc' = [loc EXCEPT ![t].upto = i + 1]
            /\ pc' = [pc EXCEPT ![t] = IF i + 1 < loc[t].top THEN "linking" ELSE "i_return"]
         \/ /\ ~Holds(pred, i, loc[t].succs[i])
            /\ Cleanup(t)
            /\ UNCHANGED heap
  /\ UNCHANGED hist

InsertReturn(t) == pc[t] = "i_return" /\ Answer(t, 1)

insert(t) ==
  InsertFound(t) \/ InsertCas(t) \/ LinkAgain(t) \/ LinkMarked(t) \/ LinkCas(t) \/ InsertReturn(t)

-----------------------------------------------------------------------------

RemoveFound(t) ==
  /\ pc[t] = "found"
  /\ call[t].op = "remove"
  /\ ~loc[t].mine
  /\ \/ key(succ0(t)) # Key(t) /\ Answer(t, 0)
     \/ /\ key(succ0(t)) = Key(t)
        /\ pc' = [pc EXCEPT ![t] = "mark"]
        /\ loc' = [loc EXCEPT ![t] = [AtTop(@) EXCEPT !.node = succ0(t),
                                                      !.i = node[succ0(t)].top - 1]]
        /\ UNCHANGED <<heap, hist>>

\* mark_node_ptrs: the levels above 0, by whoever comes first.
MarkUpper(t) ==
  /\ pc[t] = "mark"
  /\ loc[t].i > 0
  /\ SetNodes([node EXCEPT ![loc[t].node].mark[loc[t].i] = TRUE])
  /\ loc' = [loc EXCEPT ![t].i = @ - 1]
  /\ UNCHANGED <<pc, hist>>

\* Level 0: the remove takes effect, or somebody else has removed the node.
MarkLevel0(t) ==
  /\ pc[t] = "mark"
  /\ loc[t].i = 0
  /\ LET n == loc[t].node IN
       \/ node[n].mark[0] /\ Answer(t, 0)
       \/ /\ ~node[n].mark[0]
          /\ SetNodes([node EXCEPT ![n].mark[0] = TRUE])
          /\ TakesEffect(t, None, node[n].val)
          /\ pc' = [pc EXCEPT ![t] = "clean"]
          /\ loc' = [loc EXCEPT ![t] = [AtTop(@) EXCEPT !.mine = TRUE]]

mark_node_ptrs(t) == MarkUpper(t) \/ MarkLevel0(t)

\* After the search that unlinks the node: ssmem_free.
RemoveFree(t) ==
  /\ pc[t] = "found"
  /\ loc[t].mine
  /\ SetNodesAndRelease(node, loc[t].node)
  /\ Return(t, node[loc[t].node].val)

remove(t) == RemoveFound(t) \/ mark_node_ptrs(t) \/ RemoveFree(t)

Step(t) == search(t) \/ herlihy_search_no_cleanup(t) \/ herlihy_search(t) \/ insert(t) \/ remove(t)
=============================================================================
