--------------------------- MODULE LinkedListPugh ---------------------------
(***************************************************************************)
(* LinkedListPugh (src/algorithms/linkedlist_pugh.h): a sorted list with a *)
(* lock per node.  An update walks without locks to a predecessor, locks   *)
(* it, and moves on to the right, one lock at a time, until it holds the   *)
(* predecessor of the key.  A removed node points back to its predecessor, *)
(* so that a thread that stands on it finds its way into the list again.   *)
(* With PUGH_RO_FAIL, which the build sets, a call that the successor      *)
(* shows to be in vain returns before it locks anything.                   *)
(***************************************************************************)
EXTENDS SortedList

Init == is("LinkedListPugh") /\ ListInit(ll_locked(0, None, NULL))

length == Length

\* search_weak_left is the walk.  search_strong_cond then reads the successor once
\* more: succ = pred->next, and gives up if (succ->key == key) == equal.
Check(t) ==
  /\ pc[t] = "check"
  /\ LET succ == node[Pred(t)].next IN
       \/ /\ (node[succ].key = Key(t)) = (call[t].op = "insert")
          /\ Answer(t, 0)
       \/ /\ (node[succ].key = Key(t)) # (call[t].op = "insert")
          /\ pc' = [pc EXCEPT ![t] = "lock"]
          /\ UNCHANGED <<heap, loc, hist>>

\* LOCK(pred); succ = pred->next
LockPred(t) ==
  /\ Lock(t, Pred(t), "lock", IF node[node[Pred(t)].next].key < Key(t) THEN "right" ELSE "found")
  /\ loc' = [loc EXCEPT ![t].curr = node[Pred(t)].next]
  /\ UNCHANGED hist

\* UNLOCK(pred); pred = succ
Right(t) ==
  /\ Goto(t, "right", "lock")
  /\ SetNodes(Unlocked({Pred(t)}))
  /\ loc' = [loc EXCEPT ![t].pred = Curr(t)]
  /\ UNCHANGED hist

Finish(t, r) ==
  /\ SetNodes(Unlocked({Pred(t)}))
  /\ Return(t, r)

\* insert finds the key, or remove does not.
Fail(t) ==
  /\ pc[t] = "found"
  /\ (KeyOf(t) = Key(t)) = (call[t].op = "insert")
  /\ Finish(t, 0)

Link(t) ==
  /\ Goto(t, "found", "unlock")
  /\ call[t].op = "insert"
  /\ KeyOf(t) # Key(t)
  /\ Publish(t, Pred(t), ll_locked(Key(t), call[t].val, node[Pred(t)].next))
  /\ UNCHANGED loc

InsertUnlock(t) == pc[t] = "unlock" /\ Finish(t, 1)

RemoveLock(t) ==
  /\ pc[t] = "found"
  /\ call[t].op = "remove"
  /\ KeyOf(t) = Key(t)
  /\ Lock(t, Curr(t), "found", "r_unlink")
  /\ UNCHANGED <<loc, hist>>

\* left->next = right->next
Unlink(t) ==
  /\ Goto(t, "r_unlink", "r_back")
  /\ SetNodes([node EXCEPT ![Pred(t)].next = node[Curr(t)].next])
  /\ TakesEffect(t, None, node[Curr(t)].val)
  /\ UNCHANGED loc

\* right->next = left
Back(t) ==
  /\ Goto(t, "r_back", "r_unlock")
  /\ SetNodes([node EXCEPT ![Curr(t)].next = Pred(t)])
  /\ UNCHANGED <<loc, hist>>

RemoveUnlock(t) ==
  /\ pc[t] = "r_unlock"
  /\ SetNodesAndRelease(Unlocked({Pred(t), Curr(t)}), {Curr(t)})
  /\ Return(t, node[Curr(t)].val)

-----------------------------------------------------------------------------

search(t) == SearchNext(t) \/ SearchEnd(t)

search_weak_left(t) == Walk(t, "insert", "check") \/ Walk(t, "remove", "check")

search_strong_cond(t) == search_weak_left(t) \/ Check(t) \/ LockPred(t) \/ Right(t)

insert(t) == Link(t) \/ InsertUnlock(t)

remove(t) == RemoveLock(t) \/ Unlink(t) \/ Back(t) \/ RemoveUnlock(t)

Step(t) == search(t) \/ search_strong_cond(t) \/ Fail(t) \/ insert(t) \/ remove(t)

\* The deviation of this list from the atomic map: a remove finds a smaller key
\* behind its predecessor, because one has been inserted there since the walk or
\* because the predecessor has been removed and points back, and gives up although
\* its own key is in the list.
SpuriousMiss(t) ==
  /\ is("LinkedListPugh")
  /\ pc[t] = "check"
  /\ call[t].op = "remove"
  /\ node[node[Pred(t)].next].key < Key(t)
  /\ Answer(t, 0)
=============================================================================
