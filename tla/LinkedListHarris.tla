-------------------------- MODULE LinkedListHarris --------------------------
(***************************************************************************)
(* LinkedListHarris (src/algorithms/linkedlist_harris.h): a sorted list    *)
(* without locks.  The lowest bit of a next pointer marks its node as      *)
(* removed; next and marked of a node are that one word here, read and     *)
(* compared together.  harris_search returns two neighbours, both          *)
(* unmarked, unlinks the marked nodes it met in between and frees them.    *)
(* pred is left_node, lnext left_node_next, curr right_node (t during the  *)
(* walk), next and mark the word t_next.                                   *)
(***************************************************************************)
EXTENDS SortedList

Init == is("LinkedListHarris") /\ ListInit(ll_simple(0, None, NULL))

\* length() does not count marked nodes.
length == Cardinality({n \in Reachable : ~node[n].marked})

\* The word n->next is (next, unmarked).
Holds(n, next) == node[n].next = next /\ ~node[n].marked

\* The search starts again; a remove keeps what it is going to return.
Again(t) ==
  /\ pc' = [pc EXCEPT ![t] = "again"]
  /\ loc' = [loc EXCEPT ![t] = [AtHead(Key(t)) EXCEPT !.res = loc[t].res]]

\* t = head; t_next = head->next
Start(t) ==
  /\ pc[t] \in {"search", "insert", "remove", "again"}
  /\ pc' = [pc EXCEPT ![t] = "walk"]
  /\ loc' = [loc EXCEPT ![t].next = node[Curr(t)].next, ![t].mark = node[Curr(t)].marked]
  /\ UNCHANGED <<heap, hist>>

\* One turn of the inner loop: remember t if it is unmarked, move on to t_next and
\* read the word there.
WalkMarked(t) ==
  /\ pc[t] = "walk"
  /\ LET n == loc[t].next
         more == node[n].next # NULL /\ (node[n].marked \/ node[n].key < Key(t))
     IN /\ loc' = [loc EXCEPT ![t] =
                     [@ EXCEPT !.pred  = IF loc[t].mark THEN @ ELSE Curr(t),
                               !.lnext = IF loc[t].mark THEN @ ELSE n,
                               !.curr  = n,
                               !.next  = IF more THEN node[n].next ELSE NULL,
                               !.mark  = more /\ node[n].marked]]
        /\ pc' = [pc EXCEPT ![t] = IF more THEN "walk" ELSE "adjacent"]
  /\ UNCHANGED <<heap, hist>>

\* left_node and right_node are neighbours: right_node if it is still unmarked.
Adjacent(t) ==
  /\ \/ pc[t] = "adjacent" /\ loc[t].lnext = Curr(t)
     \/ pc[t] = "recheck"
  /\ \/ node[Curr(t)].marked /\ Again(t)
     \/ /\ ~node[Curr(t)].marked
        /\ pc' = [pc EXCEPT ![t] = "found"]
        /\ UNCHANGED loc
  /\ UNCHANGED <<heap, hist>>

\* The nodes from n up to right_node.
Between(n, right) ==
  LET chain[d \in 0..Cardinality(Nodes)] ==
        IF d = 0 THEN {n} \ {right}
        ELSE chain[d - 1] \cup ({node[m].next : m \in chain[d - 1]} \ {right})
  IN  chain[Cardinality(Nodes)]

\* Unlink the marked nodes in between, with a CAS on left_node->next, and free them.
Cleanup(t) ==
  /\ pc[t] = "adjacent"
  /\ loc[t].lnext # Curr(t)
  /\ \/ /\ Holds(Pred(t), loc[t].lnext)
        /\ SetNodesAndRelease([node EXCEPT ![Pred(t)].next = Curr(t)],
                              Between(loc[t].lnext, Curr(t)))
        /\ pc' = [pc EXCEPT ![t] = "recheck"]
        /\ UNCHANGED loc
     \/ /\ ~Holds(Pred(t), loc[t].lnext)
        /\ Again(t)
        /\ UNCHANGED heap
  /\ UNCHANGED hist

harris_search(t) == Start(t) \/ WalkMarked(t) \/ Adjacent(t) \/ Cleanup(t)

-----------------------------------------------------------------------------

\* search answers; insert finds the key, or remove does not.
Answers(t) ==
  /\ pc[t] = "found"
  /\ loc[t].res = None
  /\ \/ call[t].op = "search" /\ Answer(t, Val(t))
     \/ call[t].op = "insert" /\ KeyOf(t) = Key(t) /\ Answer(t, 0)
     \/ call[t].op = "remove" /\ KeyOf(t) # Key(t) /\ Answer(t, 0)

\* Mutated: compares the pointer and not the mark.
InsertCasUnmarked(t) ==
  /\ pc[t] = "found"
  /\ call[t].op = "insert"
  /\ KeyOf(t) # Key(t)
  /\ \/ /\ node[Pred(t)].next = Curr(t)
        /\ Publish(t, Pred(t), ll_simple(Key(t), call[t].val, Curr(t)))
        /\ pc' = [pc EXCEPT ![t] = "i_return"]
        /\ UNCHANGED loc
     \/ /\ node[Pred(t)].next # Curr(t)
        /\ Again(t)
        /\ UNCHANGED <<heap, hist>>

\* CAS(&left_node->next, right_node, newnode): the insert takes effect.
InsertCas(t) ==
  /\ pc[t] = "found"
  /\ call[t].op = "insert"
  /\ KeyOf(t) # Key(t)
  /\ \/ /\ Holds(Pred(t), Curr(t))
        /\ Publish(t, Pred(t), ll_simple(Key(t), call[t].val, Curr(t)))
        /\ pc' = [pc EXCEPT ![t] = "i_return"]
        /\ UNCHANGED loc
     \/ /\ ~Holds(Pred(t), Curr(t))
        /\ Again(t)
        /\ UNCHANGED <<heap, hist>>

InsertReturn(t) == pc[t] = "i_return" /\ Answer(t, 1)

\* right_node_next = right_node->next
RemoveNext(t) ==
  /\ pc[t] = "found"
  /\ call[t].op = "remove"
  /\ loc[t].res = None
  /\ KeyOf(t) = Key(t)
  /\ \/ node[Curr(t)].marked /\ Again(t)
     \/ /\ ~node[Curr(t)].marked
        /\ pc' = [pc EXCEPT ![t] = "r_mark"]
        /\ loc' = [loc EXCEPT ![t].next = node[Curr(t)].next]
  /\ UNCHANGED <<heap, hist>>

\* CAS of the mark into right_node->next: the remove takes effect.
RemoveMark(t) ==
  /\ pc[t] = "r_mark"
  /\ \/ /\ Holds(Curr(t), loc[t].next)
        /\ SetNodes([node EXCEPT ![Curr(t)].marked = TRUE])
        /\ TakesEffect(t, None, node[Curr(t)].val)
        /\ pc' = [pc EXCEPT ![t] = "r_unlink"]
        /\ loc' = [loc EXCEPT ![t].res = node[Curr(t)].val]
     \/ /\ ~Holds(Curr(t), loc[t].next)
        /\ Again(t)
        /\ UNCHANGED <<heap, hist>>

\* Mutated: frees the node whoever unlinks it.
RemoveUnlinkFrees(t) ==
  /\ pc[t] = "r_unlink"
  /\ \/ /\ Holds(Pred(t), Curr(t))
        /\ SetNodesAndRelease([node EXCEPT ![Pred(t)].next = loc[t].next], {Curr(t)})
        /\ Return(t, loc[t].res)
     \/ /\ ~Holds(Pred(t), Curr(t))
        /\ Again(t)
        /\ SetNodesAndRelease(node, {Curr(t)})
        /\ UNCHANGED hist

\* Unlink the node and free it, or leave that to a search.
RemoveUnlink(t) ==
  /\ pc[t] = "r_unlink"
  /\ \/ /\ Holds(Pred(t), Curr(t))
        /\ SetNodesAndRelease([node EXCEPT ![Pred(t)].next = loc[t].next], {Curr(t)})
        /\ Return(t, loc[t].res)
     \/ /\ ~Holds(Pred(t), Curr(t))
        /\ Again(t)
        /\ UNCHANGED <<heap, hist>>

RemoveReturn(t) == pc[t] = "found" /\ loc[t].res # None /\ Answer(t, loc[t].res)

insert(t) == InsertCas(t) \/ InsertReturn(t)
remove(t) == RemoveNext(t) \/ RemoveMark(t) \/ RemoveUnlink(t) \/ RemoveReturn(t)

Step(t) == harris_search(t) \/ Answers(t) \/ insert(t) \/ remove(t)
=============================================================================
