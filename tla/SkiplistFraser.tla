--------------------------- MODULE SkiplistFraser ---------------------------
(***************************************************************************)
(* SkiplistFraser (src/algorithms/skiplist_fraser.h): Fraser's lock-free   *)
(* skip list.  The lowest bit of each next pointer marks its node as       *)
(* removed on that level; next[i] and mark[i] are one word.  A remove      *)
(* increments deleted (here gone), marks the pointers from the top down    *)
(* and searches once more, since a search unlinks the marked nodes it      *)
(* meets.  pred and next are left and left_next, curr is right; node is    *)
(* the new node, or the one whose pointers are being marked.               *)
(***************************************************************************)
EXTENDS SkipList

Init == is("SkiplistFraser") /\ SkipInit

length == Cardinality({n \in OnLevel(0) : ~node[n].mark[0]})

\* The word n->next[i] is (next, unmarked).
Holds(n, i, next) == node[n].next[i] = next /\ ~node[n].mark[i]

-----------------------------------------------------------------------------
(* fraser_search; it returns to "found", or to "linking" and "cleaned" when *)
(* it is called from there.                                                *)

\* left_next = left->next[i]; a marked one makes the search start over.
FindLeft(t) ==
  /\ pc[t] = "find"
  /\ LET next == node[Pred(t)].next[lvl(t)] IN
       \/ node[Pred(t)].mark[lvl(t)] /\ Restart(t)
       \/ /\ ~node[Pred(t)].mark[lvl(t)]
          /\ pc' = [pc EXCEPT ![t] = "find_right"]
          /\ loc' = [loc EXCEPT ![t].next = next, ![t].curr = next]
  /\ UNCHANGED <<heap, hist>>

\* right_next = right->next[i]: past a marked node, past a smaller key, or the end
\* of this level, where the marked nodes in between are unlinked with a CAS.
FindRight(t) ==
  /\ pc[t] = "find_right"
  /\ LET next == node[Curr(t)].next[lvl(t)] IN
       \/ /\ node[Curr(t)].mark[lvl(t)]
          /\ loc' = [loc EXCEPT ![t].curr = next]
          /\ UNCHANGED pc
       \/ /\ ~node[Curr(t)].mark[lvl(t)]
          /\ key(Curr(t)) < Key(t)
          /\ loc' = [loc EXCEPT ![t].pred = Curr(t), ![t].next = next, ![t].curr = next]
          /\ UNCHANGED pc
       \/ /\ ~node[Curr(t)].mark[lvl(t)]
          /\ key(Curr(t)) >= Key(t)
          /\ IF loc[t].next = Curr(t)
             THEN Record(t, Pred(t), Curr(t), "find")
             ELSE pc' = [pc EXCEPT ![t] = "find_cas"] /\ UNCHANGED loc
  /\ UNCHANGED <<heap, hist>>

FindCas(t) ==
  /\ pc[t] = "find_cas"
  /\ \/ /\ Holds(Pred(t), lvl(t), loc[t].next)
        /\ SetNodes([node EXCEPT ![Pred(t)].next[lvl(t)] = Curr(t)])
        /\ Record(t, Pred(t), Curr(t), "find")
     \/ /\ ~Holds(Pred(t), lvl(t), loc[t].next)
        /\ Restart(t)
        /\ UNCHANGED heap
  /\ UNCHANGED hist

fraser_search(t) == FindLeft(t) \/ FindRight(t) \/ FindCas(t)

-----------------------------------------------------------------------------

\* mark_node_ptrs: one level is marked with a CAS, which fails when the word has
\* changed and is tried again; read and CAS together are one step that marks.
\* What the search has found is not needed any more.
mark_node_ptrs(t, to) ==
  /\ pc[t] = "mark"
  /\ LET i == loc[t].i IN
       /\ SetNodes([node EXCEPT ![loc[t].node].mark[i] = TRUE])
       /\ loc' = [loc EXCEPT ![t].i = IF i = 0 THEN 0 ELSE i - 1]
       /\ pc' = [pc EXCEPT ![t] = IF i = 0 THEN to ELSE "mark"]
  /\ UNCHANGED hist

MarkFrom(t, n) ==
  /\ pc' = [pc EXCEPT ![t] = "mark"]
  /\ loc' = [loc EXCEPT ![t] = [AtTop(@) EXCEPT !.node = n, !.i = node[n].top - 1]]

succ0(t) == loc[t].succs[0]

\* search goes through the same walk as the updates.
SearchStart(t) == Decide(t, "search", "find")

SearchDeleted(t) ==
  /\ pc[t] = "found"
  /\ call[t].op = "search"
  /\ Answer(t, IF key(succ0(t)) = Key(t) /\ ~node[succ0(t)].gone THEN node[succ0(t)].val ELSE 0)

search(t) == SearchStart(t) \/ SearchDeleted(t)

-----------------------------------------------------------------------------

\* The key is there: return 0, or help to remove it and search again.
InsertFound(t) ==
  /\ pc[t] = "found"
  /\ call[t].op = "insert"
  /\ loc[t].upto = 0
  /\ key(succ0(t)) = Key(t)
  /\ \/ node[succ0(t)].gone /\ MarkFrom(t, succ0(t)) /\ UNCHANGED <<heap, hist>>
     \/ ~node[succ0(t)].gone /\ Answer(t, 0)

InsertHelp(t) == call[t].op = "insert" /\ mark_node_ptrs(t, "again")

Again(t) == pc[t] = "again" /\ Restart(t) /\ UNCHANGED <<heap, hist>>

\* CAS(&preds[0]->next[0], succs[0], new_node): the insert takes effect.
InsertCas(t) ==
  /\ pc[t] = "found"
  /\ call[t].op = "insert"
  /\ loc[t].upto = 0
  /\ key(succ0(t)) # Key(t)
  /\ \/ /\ Holds(loc[t].preds[0], 0, succ0(t))
        /\ LET new == Min(Fresh)
               own == [i \in Levels |-> IF i < loc[t].top THEN loc[t].succs[i] ELSE NULL]
           IN  /\ node' = [node EXCEPT ![new] = Allocated(t, own),
                                       ![loc[t].preds[0]].next[0] = new]
               /\ used' = used \cup {new}
               /\ loc' = [loc EXCEPT ![t].node = new, ![t].upto = 1]
        /\ pc' = [pc EXCEPT ![t] = IF loc[t].top > 1 THEN "linking" ELSE "i_return"]
        /\ TakesEffect(t, call[t].val, 1)
        /\ UNCHANGED <<set, freed>>
     \/ /\ ~Holds(loc[t].preds[0], 0, succ0(t))
        /\ Restart(t)
        /\ UNCHANGED <<heap, hist>>

\* The next level of the new node, after a search that had to be repeated.
LinkAgain(t) == loc[t].upto > 0 /\ Decide(t, "found", "linking")

\* The node is done on this level, with success or without.
NextLevel(t) ==
  /\ loc' = [loc EXCEPT ![t].upto = @ + 1]
  /\ pc' = [pc EXCEPT ![t] = IF loc[t].upto + 1 < loc[t].top THEN "linking" ELSE "i_return"]

\* new_next = new_node->next[i]: a marked one ends the insert.
LinkRead(t) ==
  /\ pc[t] = "linking"
  /\ LET n == loc[t].node
         i == loc[t].upto
     IN  \/ /\ node[n].mark[i]
            /\ pc' = [pc EXCEPT ![t] = "i_return"]
            /\ UNCHANGED loc
         \/ /\ ~node[n].mark[i]
            /\ pc' = [pc EXCEPT ![t] = IF node[n].next[i] = loc[t].succs[i] THEN "link" ELSE "own"]
            /\ loc' = [loc EXCEPT ![t].next = node[n].next[i]]
  /\ UNCHANGED <<heap, hist>>


\* CAS(&new_node->next[i], new_next, succ)
LinkOwn(t) ==
  /\ pc[t] = "own"
  /\ LET n == loc[t].node
         i == loc[t].upto
     IN  \/ /\ Holds(n, i, loc[t].next)
            /\ SetNodes([node EXCEPT ![n].next[i] = loc[t].succs[i]])
            /\ pc' = [pc EXCEPT ![t] = "link"]
            /\ UNCHANGED loc
         \/ /\ ~Holds(n, i, loc[t].next)
            /\ NextLevel(t)
            /\ UNCHANGED heap
  /\ UNCHANGED hist

\* CAS(&pred->next[i], succ, new_node).  When succ has the same key, the code takes
\* the address of its next array for the successor: no pointer is equal to that.
LinkCas(t) ==
  /\ pc[t] = "link"
  /\ LET i    == loc[t].upto
         pred == loc[t].preds[i]
         ok   == Holds(pred, i, loc[t].succs[i]) /\ key(loc[t].succs[i]) # Key(t)
     IN  \/ /\ ok
            /\ SetNodes([node EXCEPT ![pred].next[i] = loc[t].node])
            /\ NextLevel(t)
         \/ /\ ~ok
            /\ Restart(t)
            /\ UNCHANGED heap
  /\ UNCHANGED hist

InsertReturn(t) == pc[t] = "i_return" /\ Answer(t, 1)

insert(t) ==
  InsertFound(t) \/ InsertHelp(t) \/ Again(t) \/ InsertCas(t) \/ LinkAgain(t) \/ LinkRead(t)
    \/ LinkOwn(t) \/ LinkCas(t) \/ InsertReturn(t)

-----------------------------------------------------------------------------

RemoveFound(t) ==
  /\ pc[t] = "found"
  /\ call[t].op = "remove"
  /\ ~loc[t].mine
  /\ IF key(succ0(t)) # Key(t) \/ node[succ0(t)].gone
     THEN Answer(t, 0)
     ELSE Decide(t, "found", "r_delete")

\* Mutated: reads deleted and sets it.
RemoveDeleteStore(t) ==
  /\ pc[t] = "r_delete"
  /\ LET n == succ0(t) IN
       /\ SetNodes([node EXCEPT ![n].gone = TRUE])
       /\ TakesEffect(t, None, node[n].val)
       /\ pc' = [pc EXCEPT ![t] = "mark"]
       /\ loc' = [loc EXCEPT ![t].node = n, ![t].i = node[n].top - 1, ![t].mine = TRUE]

\* FETCH_AND_INC(&deleted) == 0: the remove takes effect.
RemoveDelete(t) ==
  /\ pc[t] = "r_delete"
  /\ LET n == succ0(t) IN
       \/ /\ ~node[n].gone
          /\ SetNodes([node EXCEPT ![n].gone = TRUE])
          /\ TakesEffect(t, None, node[n].val)
          /\ pc' = [pc EXCEPT ![t] = "mark"]
          /\ loc' = [loc EXCEPT ![t] =
                       [AtTop(@) EXCEPT !.node = n, !.i = node[n].top - 1, !.mine = TRUE]]
       \/ /\ node[n].gone
          /\ Answer(t, 0)

RemoveMark(t) == call[t].op = "remove" /\ mark_node_ptrs(t, "r_free")

\* ssmem_free, and only then the search that unlinks the node.
RemoveFree(t) ==
  /\ pc[t] = "r_free"
  /\ SetNodesAndRelease(node, loc[t].node)
  /\ Restart(t)
  /\ UNCHANGED hist

RemoveReturn(t) ==
  /\ pc[t] = "found"
  /\ loc[t].mine
  /\ Answer(t, node[loc[t].node].val)

remove(t) ==
  RemoveFound(t) \/ RemoveDelete(t) \/ RemoveMark(t) \/ RemoveFree(t) \/ RemoveReturn(t)

Step(t) == search(t) \/ fraser_search(t) \/ insert(t) \/ remove(t)
=============================================================================
