--------------------------- MODULE LinkedListLazy ---------------------------
(***************************************************************************)
(* LinkedListLazy (src/algorithms/linkedlist_lazy.h): a sorted list with a *)
(* lock and a mark per node.  An update walks without locks, locks the     *)
(* nodes it is going to change, and validates that they are unmarked and   *)
(* still neighbours.  A remove marks the node before it unlinks it, so     *)
(* that a search can tell a removed node from one in the list.  Failing    *)
(* updates do not lock (LAZY_RO_FAIL, which the build sets).               *)
(***************************************************************************)
EXTENDS SortedList

Init == is("LinkedListLazy") /\ ListInit(ll_marked(0, None, NULL))

length == Length

\* Mutated: does not look at the marks.
parse_validate_next(t) == node[Pred(t)].next = Curr(t)

\* parse_validate(pred, curr), evaluated with pred locked: while the two are
\* neighbours, curr is marked only by who holds that lock, so the three reads and
\* the write that follows are one step.
parse_validate(t) ==
  /\ ~node[Pred(t)].marked
  /\ ~node[Curr(t)].marked
  /\ node[Pred(t)].next = Curr(t)

-----------------------------------------------------------------------------

\* The key is there: return 0, or start over if the node is being removed.
InsertFound(t) ==
  /\ pc[t] = "i_test"
  /\ KeyOf(t) = Key(t)
  /\ \/ node[Curr(t)].marked /\ Restart(t) /\ UNCHANGED <<heap, hist>>
     \/ ~node[Curr(t)].marked /\ Answer(t, 0)

InsertLock(t) ==
  /\ Lock(t, Pred(t), "i_test", "i_check")
  /\ KeyOf(t) # Key(t)
  /\ UNCHANGED <<loc, hist>>

\* The node is linked, or the predecessor is given back and the call starts over.
InsertValidate(t) ==
  /\ pc[t] = "i_check"
  /\ \/ /\ parse_validate(t)
        /\ Publish(t, Pred(t), ll_marked(Key(t), call[t].val, Curr(t)))
        /\ pc' = [pc EXCEPT ![t] = "i_unlock"]
        /\ UNCHANGED loc
     \/ /\ ~parse_validate(t)
        /\ SetNodes(Unlocked({Pred(t)}))
        /\ Restart(t)
        /\ UNCHANGED hist

InsertUnlock(t) ==
  /\ pc[t] = "i_unlock"
  /\ SetNodes(Unlocked({Pred(t)}))
  /\ Return(t, 1)

-----------------------------------------------------------------------------

RemoveMiss(t) == pc[t] = "r_test" /\ KeyOf(t) # Key(t) /\ Answer(t, 0)

RemoveLockPred(t) ==
  /\ Lock(t, Pred(t), "r_test", "r_lock_curr")
  /\ KeyOf(t) = Key(t)
  /\ UNCHANGED <<loc, hist>>

RemoveLockCurr(t) ==
  /\ Lock(t, Curr(t), "r_lock_curr", "r_check")
  /\ UNCHANGED <<loc, hist>>

\* curr->marked = 1: the remove takes effect.
RemoveMark(t) ==
  /\ pc[t] = "r_check"
  /\ \/ /\ parse_validate(t)
        /\ SetNodes([node EXCEPT ![Curr(t)].marked = TRUE])
        /\ TakesEffect(t, None, node[Curr(t)].val)
        /\ pc' = [pc EXCEPT ![t] = "r_unlink"]
        /\ UNCHANGED loc
     \/ /\ ~parse_validate(t)
        /\ SetNodes(Unlocked({Pred(t), Curr(t)}))
        /\ Restart(t)
        /\ UNCHANGED hist

RemoveUnlink(t) ==
  /\ Goto(t, "r_unlink", "r_unlock")
  /\ SetNodes([node EXCEPT ![Pred(t)].next = node[Curr(t)].next])
  /\ UNCHANGED <<loc, hist>>

RemoveUnlock(t) ==
  /\ pc[t] = "r_unlock"
  /\ SetNodesAndRelease(Unlocked({Pred(t), Curr(t)}), {Curr(t)})
  /\ Return(t, node[Curr(t)].val)

-----------------------------------------------------------------------------

search(t) == SearchNext(t) \/ SearchMark(t)

insert(t) ==
  Walk(t, "insert", "i_test") \/ InsertFound(t) \/ InsertLock(t) \/ InsertValidate(t)
    \/ InsertUnlock(t)

remove(t) ==
  Walk(t, "remove", "r_test") \/ RemoveMiss(t) \/ RemoveLockPred(t) \/ RemoveLockCurr(t)
    \/ RemoveMark(t) \/ RemoveUnlink(t) \/ RemoveUnlock(t)

Step(t) == search(t) \/ insert(t) \/ remove(t)
=============================================================================
