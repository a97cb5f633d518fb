------------------------- MODULE LinkedListCoupling -------------------------
(***************************************************************************)
(* LinkedListCoupling (src/algorithms/linkedlist_coupling.h): a sorted     *)
(* list that every operation walks hand over hand, always holding the      *)
(* locks of two neighbours (pred and curr here, curr and next there).  A   *)
(* removed node is freed at once (ll_marked_delete), not through the       *)
(* collector: nobody may wait for its lock or hold a pointer to it.        *)
(***************************************************************************)
EXTENDS SortedList

Init == is("LinkedListCoupling") /\ ListInit(ll_marked(0, None, NULL))

length == Length

\* LOCK(head): curr is the head here, pred not yet set.
LockHead(t) ==
  /\ pc[t] \in Ops
  /\ Lock(t, Curr(t), pc[t], "lock_next")
  /\ UNCHANGED <<loc, hist>>

\* LOCK(curr->next); next = curr->next
LockNext(t) ==
  /\ pc[t] = "lock_next"
  /\ LET next == node[Curr(t)].next IN
       /\ Lock(t, next, "lock_next", IF node[next].key < Key(t) THEN "advance" ELSE "found")
       /\ loc' = [loc EXCEPT ![t].pred = Curr(t), ![t].curr = next]
  /\ UNCHANGED hist

\* UNLOCK(curr); curr = next.  The pointer to the node given back is overwritten.
Advance(t) ==
  /\ Goto(t, "advance", "lock_next")
  /\ SetNodes(Unlocked({Pred(t)}))
  /\ loc' = [loc EXCEPT ![t].pred = NULL]
  /\ UNCHANGED hist

\* The operations that change nothing give the locks back.
Finish(t, r) ==
  /\ SetNodes(Unlocked({Pred(t), Curr(t)}))
  /\ Return(t, r)

SearchFound(t) ==
  /\ pc[t] = "found"
  /\ call[t].op = "search"
  /\ Finish(t, Val(t))

\* insert finds the key, or remove does not.
Fail(t) ==
  /\ pc[t] = "found"
  /\ \/ call[t].op = "insert" /\ KeyOf(t) = Key(t)
     \/ call[t].op = "remove" /\ KeyOf(t) # Key(t)
  /\ Finish(t, 0)

Link(t) ==
  /\ Goto(t, "found", "unlock")
  /\ call[t].op = "insert"
  /\ KeyOf(t) # Key(t)
  /\ Publish(t, Pred(t), ll_marked(Key(t), call[t].val, Curr(t)))
  /\ UNCHANGED loc

Unlink(t) ==
  /\ Goto(t, "found", "delete")
  /\ call[t].op = "remove"
  /\ KeyOf(t) = Key(t)
  /\ SetNodes([node EXCEPT ![Pred(t)].next = node[Curr(t)].next])
  /\ TakesEffect(t, None, node[Curr(t)].val)
  /\ UNCHANGED loc

InsertUnlock(t) == pc[t] = "unlock" /\ Finish(t, 1)

\* UNLOCK(next); ll_marked_delete(next); UNLOCK(curr)
Delete(t) ==
  /\ pc[t] = "delete"
  /\ SetNodesAndRelease(Unlocked({Pred(t), Curr(t)}), {Curr(t)})
  /\ Return(t, node[Curr(t)].val)

-----------------------------------------------------------------------------

search(t) == SearchFound(t)
insert(t) == Link(t) \/ InsertUnlock(t)
remove(t) == Unlink(t) \/ Delete(t)

Step(t) ==
  LockHead(t) \/ LockNext(t) \/ Advance(t) \/ Fail(t) \/ search(t) \/ insert(t) \/ remove(t)
=============================================================================
