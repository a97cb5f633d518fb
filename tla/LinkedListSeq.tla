--------------------------- MODULE LinkedListSeq ---------------------------
(***************************************************************************)
(* LinkedListSeq (src/algorithms/linkedlist_seq.h): the list without any   *)
(* synchronization, for one thread at a time.                              *)
(***************************************************************************)
EXTENDS SortedList

Init == is("LinkedListSeq") /\ ListInit(ll_simple(0, None, NULL))

length == Length

search(t) == SearchNext(t) \/ SearchEnd(t)

insert(t) ==
  \/ Walk(t, "insert", "i_test")
  \/ pc[t] = "i_test" /\ KeyOf(t) = Key(t) /\ Answer(t, 0)
  \/ /\ Goto(t, "i_test", "i_return")
     /\ KeyOf(t) # Key(t)
     /\ Publish(t, Pred(t), ll_simple(Key(t), call[t].val, Curr(t)))
     /\ UNCHANGED loc
  \/ pc[t] = "i_return" /\ Answer(t, 1)

remove(t) ==
  \/ Walk(t, "remove", "r_test")
  \/ pc[t] = "r_test" /\ KeyOf(t) # Key(t) /\ Answer(t, 0)
  \/ /\ Goto(t, "r_test", "r_return")
     /\ KeyOf(t) = Key(t)
     /\ SetNodesAndRelease([node EXCEPT ![Pred(t)].next = node[Curr(t)].next], {Curr(t)})
     /\ TakesEffect(t, None, node[Curr(t)].val)
     /\ UNCHANGED loc
  \/ pc[t] = "r_return" /\ Answer(t, node[Curr(t)].val)

Step(t) == search(t) \/ insert(t) \/ remove(t)
=============================================================================
