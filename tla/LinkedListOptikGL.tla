------------------------- MODULE LinkedListOptikGL -------------------------
(***************************************************************************)
(* LinkedListOptikGL (src/algorithms/linkedlist_optik_gl.h): a sorted list *)
(* with one OPTIK lock.  An update reads the version, walks without a lock *)
(* and takes the lock only if the version is still the same, so that one   *)
(* comparison validates the whole walk.  The version may be read while the *)
(* lock is held; then the update restarts in any case.                     *)
(***************************************************************************)
EXTENDS SortedList

Init == is("LinkedListOptikGL") /\ ListInit(ll_simple(0, None, NULL))

length == Length

\* The word of the list's lock.
GLock(t) == lock[addr(Key(t))]

Version(t) ==
  /\ \/ Goto(t, "insert", "i_walk")
     \/ Goto(t, "remove", "r_walk")
  /\ loc' = [loc EXCEPT ![t].pver = GLock(t)]
  /\ UNCHANGED <<heap, hist>>

\* insert finds the key, or remove does not.
Fail(t) ==
  /\ \/ pc[t] = "i_test" /\ KeyOf(t) = Key(t)
     \/ pc[t] = "r_test" /\ KeyOf(t) # Key(t)
  /\ Answer(t, 0)

Found(t) ==
  \/ pc[t] = "i_test" /\ KeyOf(t) # Key(t)
  \/ pc[t] = "r_test" /\ KeyOf(t) = Key(t)

\* optik_trylock_version(&lock, version)
Validate(t) ==
  /\ Found(t)
  /\ optik_trylock_version(GLock(t), loc[t].pver)
  /\ lock' = [lock EXCEPT ![addr(Key(t))] = optik_locked(@)]
  /\ pc' = [pc EXCEPT ![t] = IF @ = "i_test" THEN "i_link" ELSE "r_unlink"]
  /\ UNCHANGED <<set, node, used, freed, array, loc, hist>>

LockFails(t) ==
  /\ Found(t)
  /\ ~optik_trylock_version(GLock(t), loc[t].pver)
  /\ Restart(t)
  /\ UNCHANGED <<heap, hist>>

\* pred->next = newnode
Link(t) ==
  /\ Goto(t, "i_link", "unlock")
  /\ Publish(t, Pred(t), ll_simple(Key(t), call[t].val, Curr(t)))
  /\ UNCHANGED loc

\* pred->next = curr->next
Unlink(t) ==
  /\ Goto(t, "r_unlink", "unlock")
  /\ SetNodes([node EXCEPT ![Pred(t)].next = node[Curr(t)].next])
  /\ TakesEffect(t, None, node[Curr(t)].val)
  /\ UNCHANGED loc

Unlock(t) ==
  /\ pc[t] = "unlock"
  /\ lock' = [lock EXCEPT ![addr(Key(t))] = optik_unlocked(@)]
  /\ Return(t, IF call[t].op = "insert" THEN 1 ELSE node[Curr(t)].val)
  /\ freed' = [freed EXCEPT ![Curr(t)] = @ + IF call[t].op = "remove" THEN 1 ELSE 0]
  /\ UNCHANGED <<set, node, used, array>>

search(t) == SearchNext(t) \/ SearchEnd(t)

insert(t) == Walk(t, "i_walk", "i_test") \/ Link(t)

remove(t) == Walk(t, "r_walk", "r_test") \/ Unlink(t)

Step(t) ==
  search(t) \/ Version(t) \/ insert(t) \/ remove(t) \/ Fail(t) \/ Validate(t)
    \/ LockFails(t) \/ Unlock(t)
=============================================================================
