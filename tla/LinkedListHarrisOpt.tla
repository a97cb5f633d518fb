------------------------ MODULE LinkedListHarrisOpt ------------------------
(***************************************************************************)
(* LinkedListHarrisOpt (src/algorithms/linkedlist_harris_opt.h): Harris'   *)
(* list with a search that neither writes nor restarts, and updates whose  *)
(* walk unlinks one marked node at a time and goes on whether that worked  *)
(* or not.  pred is left_node, curr right_node.                            *)
(***************************************************************************)
EXTENDS SortedList

Init == is("LinkedListHarrisOpt") /\ ListInit(ll_simple(0, None, NULL))

\* Mutated: counts the marked nodes too.
length_of_all == Length

\* length() does not count marked nodes.
length == Cardinality({n \in Reachable : ~node[n].marked})

\* The word n->next is (next, unmarked).
Holds(n, next) == node[n].next = next /\ ~node[n].marked

\* The CAS unlinks right_node, which is marked, and who unlinks it frees it.
physical_delete_right(t) ==
  \/ /\ Holds(Pred(t), Curr(t))
     /\ SetNodesAndRelease([node EXCEPT ![Pred(t)].next = node[Curr(t)].next], {Curr(t)})
  \/ ~Holds(Pred(t), Curr(t)) /\ UNCHANGED heap

\* left_node = head; right_node = head->next
Start(t) ==
  /\ pc[t] \in {"insert", "remove"}
  /\ pc' = [pc EXCEPT ![t] = "mark"]
  /\ loc' = [loc EXCEPT ![t].pred = Curr(t), ![t].curr = node[Curr(t)].next]
  /\ UNCHANGED <<heap, hist>>

\* Is right_node marked?
Mark(t) ==
  /\ pc[t] = "mark"
  /\ \/ /\ node[Curr(t)].marked
        /\ pc' = [pc EXCEPT ![t] = "delete"]
        /\ UNCHANGED loc
     \/ /\ ~node[Curr(t)].marked
        /\ KeyOf(t) >= Key(t)
        /\ pc' = [pc EXCEPT ![t] = "found"]
        /\ UNCHANGED loc
     \/ /\ ~node[Curr(t)].marked
        /\ KeyOf(t) < Key(t)
        /\ pc' = [pc EXCEPT ![t] = "next"]
        /\ loc' = [loc EXCEPT ![t].pred = Curr(t)]
  /\ UNCHANGED <<heap, hist>>

Cleanup(t) ==
  /\ Goto(t, "delete", "next")
  /\ physical_delete_right(t)
  /\ UNCHANGED <<loc, hist>>

\* right_node = the unmarked right_node->next
Advance(t) ==
  /\ Goto(t, "next", "mark")
  /\ loc' = [loc EXCEPT ![t].curr = node[@].next]
  /\ UNCHANGED <<heap, hist>>

list_search(t) == Start(t) \/ Mark(t) \/ Cleanup(t) \/ Advance(t)

-----------------------------------------------------------------------------

\* insert finds the key, or remove does not.
Fail(t) ==
  /\ pc[t] = "found"
  /\ (KeyOf(t) = Key(t)) = (call[t].op = "insert")
  /\ Answer(t, 0)

\* CAS(&left_node->next, right_node, node_to_add): the insert takes effect.
InsertCas(t) ==
  /\ pc[t] = "found"
  /\ call[t].op = "insert"
  /\ KeyOf(t) # Key(t)
  /\ \/ /\ Holds(Pred(t), Curr(t))
        /\ Publish(t, Pred(t), ll_simple(Key(t), call[t].val, Curr(t)))
        /\ pc' = [pc EXCEPT ![t] = "i_return"]
        /\ UNCHANGED loc
     \/ /\ ~Holds(Pred(t), Curr(t))
        /\ Restart(t)
        /\ UNCHANGED <<heap, hist>>

InsertReturn(t) == pc[t] = "i_return" /\ Answer(t, 1)

\* unmarked_ref: the next pointer of right_node, without its mark.
RemoveNext(t) ==
  /\ Goto(t, "found", "r_mark")
  /\ call[t].op = "remove"
  /\ KeyOf(t) = Key(t)
  /\ loc' = [loc EXCEPT ![t].next = node[Curr(t)].next]
  /\ UNCHANGED <<heap, hist>>

\* CAS of the mark into right_node->next: the remove takes effect.
RemoveMark(t) ==
  /\ pc[t] = "r_mark"
  /\ \/ /\ Holds(Curr(t), loc[t].next)
        /\ SetNodes([node EXCEPT ![Curr(t)].marked = TRUE])
        /\ TakesEffect(t, None, node[Curr(t)].val)
        /\ pc' = [pc EXCEPT ![t] = "r_delete"]
        /\ UNCHANGED loc
     \/ /\ ~Holds(Curr(t), loc[t].next)
        /\ Restart(t)
        /\ UNCHANGED <<heap, hist>>

RemoveDelete(t) ==
  /\ pc[t] = "r_delete"
  /\ physical_delete_right(t)
  /\ Return(t, node[Curr(t)].val)

search(t) == SearchNext(t) \/ SearchMark(t)
insert(t) == InsertCas(t) \/ InsertReturn(t)
remove(t) == RemoveNext(t) \/ RemoveMark(t) \/ RemoveDelete(t)

Step(t) == search(t) \/ list_search(t) \/ Fail(t) \/ insert(t) \/ remove(t)
=============================================================================
