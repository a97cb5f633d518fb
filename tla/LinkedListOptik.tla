-------------------------- MODULE LinkedListOptik --------------------------
(***************************************************************************)
(* LinkedListOptik (src/algorithms/linkedlist_optik.h): a sorted list with *)
(* one OPTIK lock per node.  Operations walk the list without locks.  An   *)
(* insert locks the predecessor, a remove the predecessor and the node,    *)
(* each only if its version is still the one read on the way; a remove     *)
(* that gets only the first lock reverts it.  A removed node stays locked  *)
(* for ever, which keeps later updates from linking behind it.             *)
(***************************************************************************)
EXTENDS SortedList

Init == is("LinkedListOptik") /\ ListInit(ll_optik(0, None, NULL))

length == Length

\* optik_trylock_version of node n with the version read before.
Trylock(t, n, ver, from, to) ==
  /\ pc[t] = from
  /\ optik_trylock_version(node[n].lock, ver)
  /\ SetLock(n, optik_locked(ver))
  /\ pc' = [pc EXCEPT ![t] = to]
  /\ UNCHANGED <<loc, hist>>

TrylockFails(t, n, ver, from) ==
  /\ pc[t] = from
  /\ ~optik_trylock_version(node[n].lock, ver)
  /\ UNCHANGED <<heap, hist>>

-----------------------------------------------------------------------------
(* insert(key, val)                                                        *)

\* One turn of the loop: read the version of curr, then its successor.
InsertVersion(t) ==
  /\ Goto(t, "insert", "i_next")
  /\ loc' = [loc EXCEPT ![t].pver = node[Curr(t)].lock]
  /\ UNCHANGED <<heap, hist>>

InsertNext(t) ==
  /\ pc[t] = "i_next"
  /\ LET next == node[Curr(t)].next IN
       /\ loc' = [loc EXCEPT ![t].pred = Curr(t), ![t].curr = next]
       /\ pc'  = [pc EXCEPT ![t] = IF node[next].key < Key(t) THEN "insert" ELSE "i_test"]
  /\ UNCHANGED <<heap, hist>>

\* The key is there: nothing to do, and nothing is validated.
InsertFound(t) == pc[t] = "i_test" /\ KeyOf(t) = Key(t) /\ Answer(t, 0)

\* The key is not there: allocate the node, lock the predecessor.
InsertLock(t) ==
  Trylock(t, Pred(t), loc[t].pver, "i_test", "i_link") /\ KeyOf(t) # Key(t)

InsertLockFails(t) ==
  TrylockFails(t, Pred(t), loc[t].pver, "i_test") /\ KeyOf(t) # Key(t) /\ Restart(t)

\* pred->next = newnode: the insert takes effect.
InsertLink(t) ==
  /\ Goto(t, "i_link", "i_unlock")
  /\ Publish(t, Pred(t), ll_optik(Key(t), call[t].val, Curr(t)))
  /\ UNCHANGED loc

InsertUnlock(t) ==
  /\ pc[t] = "i_unlock"
  /\ SetLock(Pred(t), optik_unlocked(node[Pred(t)].lock))
  /\ Return(t, 1)

-----------------------------------------------------------------------------
(* remove(key)                                                             *)

RemoveHeadVersion(t) ==
  /\ Goto(t, "remove", "r_next")
  /\ loc' = [loc EXCEPT ![t].cver = node[Curr(t)].lock]
  /\ UNCHANGED <<heap, hist>>

\* One turn of the loop: read the successor of pred, then its version.
RemoveNext(t) ==
  /\ Goto(t, "r_next", "r_ver")
  /\ loc' = [loc EXCEPT ![t].pred = Curr(t), ![t].pver = loc[t].cver,
                        ![t].curr = node[@].next]
  /\ UNCHANGED <<heap, hist>>

RemoveVersion(t) ==
  /\ Goto(t, "r_ver", IF KeyOf(t) < Key(t) THEN "r_next" ELSE "r_test")
  /\ loc' = [loc EXCEPT ![t].cver = node[Curr(t)].lock]
  /\ UNCHANGED <<heap, hist>>

RemoveMiss(t) == pc[t] = "r_test" /\ KeyOf(t) # Key(t) /\ Answer(t, 0)

RemoveSuccessor(t) ==
  /\ Goto(t, "r_test", "r_lock_pred")
  /\ KeyOf(t) = Key(t)
  /\ loc' = [loc EXCEPT ![t].next = node[Curr(t)].next]
  /\ UNCHANGED <<heap, hist>>

RemoveLockPred(t) == Trylock(t, Pred(t), loc[t].pver, "r_lock_pred", "r_lock_curr")

RemoveLockPredFails(t) == TrylockFails(t, Pred(t), loc[t].pver, "r_lock_pred") /\ Restart(t)

\* Mutated: the lock of the predecessor is thought to be enough.
RemoveSkipsLockCurr(t) ==
  /\ Goto(t, "r_lock_curr", "r_unlink")
  /\ UNCHANGED <<heap, loc, hist>>

RemoveLockCurr(t) == Trylock(t, Curr(t), loc[t].cver, "r_lock_curr", "r_unlink")

RemoveLockCurrFails(t) ==
  /\ TrylockFails(t, Curr(t), loc[t].cver, "r_lock_curr")
  /\ pc' = [pc EXCEPT ![t] = "r_revert"]
  /\ UNCHANGED loc

\* optik_revert gives the predecessor its old version back.
RemoveRevert(t) ==
  /\ pc[t] = "r_revert"
  /\ SetLock(Pred(t), optik_reverted(node[Pred(t)].lock))
  /\ Restart(t)
  /\ UNCHANGED hist

\* pred->next = cnxt: the remove takes effect.
RemoveUnlink(t) ==
  /\ Goto(t, "r_unlink", "r_unlock")
  /\ SetNodes([node EXCEPT ![Pred(t)].next = loc[t].next])
  /\ TakesEffect(t, None, node[Curr(t)].val)
  /\ UNCHANGED loc

\* Only the predecessor is unlocked.
RemoveUnlock(t) ==
  /\ pc[t] = "r_unlock"
  /\ SetNodesAndRelease([node EXCEPT ![Pred(t)].lock = optik_unlocked(@)], {Curr(t)})
  /\ Return(t, node[Curr(t)].val)

-----------------------------------------------------------------------------

search(t) == SearchNext(t) \/ SearchEnd(t)

insert(t) ==
  InsertVersion(t) \/ InsertNext(t) \/ InsertFound(t) \/ InsertLock(t)
    \/ InsertLockFails(t) \/ InsertLink(t) \/ InsertUnlock(t)

remove(t) ==
  RemoveHeadVersion(t) \/ RemoveNext(t) \/ RemoveVersion(t) \/ RemoveMiss(t)
    \/ RemoveSuccessor(t) \/ RemoveLockPred(t) \/ RemoveLockPredFails(t)
    \/ RemoveLockCurr(t) \/ RemoveLockCurrFails(t) \/ RemoveRevert(t)
    \/ RemoveUnlink(t) \/ RemoveUnlock(t)

Step(t) == search(t) \/ insert(t) \/ remove(t)
=============================================================================
