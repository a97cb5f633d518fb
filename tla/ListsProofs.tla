---------------------------- MODULE ListsProofs -----------------------------
(***************************************************************************)
(* Theorems about the sorted lists of module Lists and the hash tables     *)
(* over them: what SortedListProofs shows of each list's steps, in the     *)
(* terms of the specification.                                             *)
(***************************************************************************)
EXTENDS Lists, SortedListProofs

-----------------------------------------------------------------------------
(* The list with one OPTIK lock.                                           *)

\* The steps of the instance, in the terms of SortedList.
LEMMA OptikGLSteps ==
  ASSUME NEW t, OptikGL!Step(t)
  PROVE  \/ SearchNext(t) \/ SearchEnd(t)
         \/ /\ Goto(t, "insert", "i_walk") \/ Goto(t, "remove", "r_walk")
            /\ loc' = [loc EXCEPT ![t].pver = lock[addr(Key(t))]] /\ UNCHANGED heap /\ UNCHANGED hist
         \/ Walk(t, "i_walk", "i_test") \/ Walk(t, "r_walk", "r_test")
         \/ /\ \/ pc[t] = "i_test" /\ KeyOf(t) = Key(t)
               \/ pc[t] = "r_test" /\ KeyOf(t) # Key(t)
            /\ Answer(t, 0)
         \/ /\ \/ pc[t] = "i_test" /\ KeyOf(t) # Key(t)
               \/ pc[t] = "r_test" /\ KeyOf(t) = Key(t)
            /\ optik_trylock_version(lock[addr(Key(t))], loc[t].pver)
            /\ lock' = [lock EXCEPT ![addr(Key(t))] = optik_locked(@)]
            /\ pc' = [pc EXCEPT ![t] = IF @ = "i_test" THEN "i_link" ELSE "r_unlink"]
            /\ UNCHANGED <<set, node, used, freed, array, loc, hist>>
         \/ pc[t] \in {"i_test", "r_test"} /\ Restart(t) /\ UNCHANGED heap /\ UNCHANGED hist
         \/ /\ Goto(t, "i_link", "unlock")
            /\ Publish(t, Pred(t), ll_simple(Key(t), call[t].val, Curr(t))) /\ UNCHANGED loc
         \/ /\ Goto(t, "r_unlink", "unlock")
            /\ SetNodes([node EXCEPT ![Pred(t)].next = node[Curr(t)].next])
            /\ TakesEffect(t, None, node[Curr(t)].val) /\ UNCHANGED loc
         \/ /\ pc[t] = "unlock"
            /\ lock' = [lock EXCEPT ![addr(Key(t))] = optik_unlocked(@)]
            /\ Return(t, IF call[t].op = "insert" THEN 1 ELSE node[Curr(t)].val)
            /\ freed' = [freed EXCEPT ![Curr(t)] = @ + IF call[t].op = "remove" THEN 1 ELSE 0]
            /\ UNCHANGED <<set, node, used>>
<1> USE DEF OptikGL!KeyOf, KeyOf, OptikGL!Curr, Curr, OptikGL!Pred, Pred, OptikGL!Key, Key,
            OptikGL!addr, addr, OptikGL!hash, hash, OptikGL!heap, heap, OptikGL!hist, hist,
            OptikGL!Goto, Goto, OptikGL!NULL, NULL, OptikGL!None, None, OptikGL!NoCall, NoCall,
            OptikGL!Abs!NoCall, Abs!NoCall, OptikGL!Abs!None, Abs!None,
            OptikGL!Abs!Pending, Abs!Pending, OptikGL!GLock, OptikGL!Found
<1>1. OptikGL!search(t) => SearchNext(t) \/ SearchEnd(t)
  BY DEF OptikGL!search, OptikGL!SearchNext, SearchNext, OptikGL!SearchEnd, SearchEnd,
         OptikGL!Answer, Answer, OptikGL!Return, Return, OptikGL!Val, Val, OptikGL!Returns, Returns,
         OptikGL!NoLocals, NoLocals
<1>2. OptikGL!Version(t) =>
         /\ Goto(t, "insert", "i_walk") \/ Goto(t, "remove", "r_walk")
         /\ loc' = [loc EXCEPT ![t].pver = lock[addr(Key(t))]] /\ UNCHANGED heap /\ UNCHANGED hist
  BY DEF OptikGL!Version
<1>3. /\ OptikGL!Walk(t, "i_walk", "i_test") => Walk(t, "i_walk", "i_test")
      /\ OptikGL!Walk(t, "r_walk", "r_test") => Walk(t, "r_walk", "r_test")
  BY DEF OptikGL!Walk, Walk
<1>4. OptikGL!Fail(t) =>
         /\ \/ pc[t] = "i_test" /\ KeyOf(t) = Key(t)
            \/ pc[t] = "r_test" /\ KeyOf(t) # Key(t)
         /\ Answer(t, 0)
  BY DEF OptikGL!Fail, OptikGL!Answer, Answer, OptikGL!Return, Return, OptikGL!Returns, Returns,
         OptikGL!NoLocals, NoLocals
<1>5. OptikGL!Validate(t) =>
         /\ \/ pc[t] = "i_test" /\ KeyOf(t) # Key(t)
            \/ pc[t] = "r_test" /\ KeyOf(t) = Key(t)
         /\ optik_trylock_version(lock[addr(Key(t))], loc[t].pver)
         /\ lock' = [lock EXCEPT ![addr(Key(t))] = optik_locked(@)]
         /\ pc' = [pc EXCEPT ![t] = IF @ = "i_test" THEN "i_link" ELSE "r_unlink"]
         /\ UNCHANGED <<set, node, used, freed, array, loc, hist>>
  BY DEF OptikGL!Validate, OptikGL!optik_trylock_version, optik_trylock_version, OptikGL!optik_locked,
         optik_locked, OptikGL!optik_is_locked, optik_is_locked, OptikGL!OPTIK_DELETED, OPTIK_DELETED
<1>6. OptikGL!LockFails(t) =>
         pc[t] \in {"i_test", "r_test"} /\ Restart(t) /\ UNCHANGED heap /\ UNCHANGED hist
  BY DEF OptikGL!LockFails, OptikGL!Restart, Restart, OptikGL!AtHead, AtHead, OptikGL!NoLocals, NoLocals,
         OptikGL!Sentinels, Sentinels, OptikGL!min, min
<1>7. OptikGL!Link(t) =>
         /\ Goto(t, "i_link", "unlock")
         /\ Publish(t, Pred(t), ll_simple(Key(t), call[t].val, Curr(t))) /\ UNCHANGED loc
  <2>1. OptikGL!Fresh = Fresh
    BY DEF OptikGL!Fresh, Fresh, OptikGL!Nodes, Nodes
  <2>2. OptikGL!Min(Fresh) = Min(Fresh)
    BY DEF OptikGL!Min, Min
  <2>3. QED BY <2>1, <2>2 DEF OptikGL!Link, OptikGL!Publish, Publish, OptikGL!TakesEffect, TakesEffect,
         OptikGL!ll_simple, ll_simple, OptikGL!Abs!Observe, Abs!Observe
<1>8. OptikGL!Unlink(t) =>
         /\ Goto(t, "r_unlink", "unlock")
         /\ SetNodes([node EXCEPT ![Pred(t)].next = node[Curr(t)].next])
         /\ TakesEffect(t, None, node[Curr(t)].val) /\ UNCHANGED loc
  BY DEF OptikGL!Unlink, OptikGL!SetNodes, SetNodes, OptikGL!TakesEffect, TakesEffect,
         OptikGL!Abs!Observe, Abs!Observe
<1>9. OptikGL!Unlock(t) =>
         /\ pc[t] = "unlock"
         /\ lock' = [lock EXCEPT ![addr(Key(t))] = optik_unlocked(@)]
         /\ Return(t, IF call[t].op = "insert" THEN 1 ELSE node[Curr(t)].val)
         /\ freed' = [freed EXCEPT ![Curr(t)] = @ + IF call[t].op = "remove" THEN 1 ELSE 0]
         /\ UNCHANGED <<set, node, used>>
  BY DEF OptikGL!Unlock, OptikGL!Return, Return, OptikGL!Returns, Returns, OptikGL!NoLocals, NoLocals,
         OptikGL!optik_unlocked, optik_unlocked
<1>10. QED
  BY <1>1, <1>2, <1>3, <1>4, <1>5, <1>6, <1>7, <1>8, <1>9, Zenon
     DEF OptikGL!Step, OptikGL!insert, OptikGL!remove

LEMMA OptikGLKeeps ==
  ASSUME NEW L, Core(L), OptikGLOK(L), NEW t \in Threads, OptikGL!Step(t)
  PROVE  \E L2 : Good(L2) /\ OptikGLOK(L2)'
BY OptikGLSteps, GLSearchNext, GLSearchEnd, GLVersion, GLWalk, GLFail, GLValidate, GLLockFails, GLLink, GLUnlink, GLUnlock

LEMMA OptikGLInit ==
  ASSUME OptikGL!Init
  PROVE  is("LinkedListOptikGL") /\ ListInit(ll_simple(0, None, NULL))
BY DEF OptikGL!Init, OptikGL!is, is, OptikGL!ListInit, ListInit, OptikGL!Nodes, Nodes, OptikGL!Buckets, Buckets,
       OptikGL!min, min, OptikGL!max, max, OptikGL!MaxKey, MaxKey, OptikGL!Max, Max, OptikGL!Sentinels, Sentinels,
       OptikGL!NoLocals, NoLocals, OptikGL!NULL, NULL, OptikGL!None, None, OptikGL!HistInit, HistInit,
       OptikGL!Abs!Init, Abs!Init, OptikGL!Abs!None, Abs!None, OptikGL!Abs!NoCall, Abs!NoCall,
       OptikGL!Abs!Pending, Abs!Pending, OptikGL!ll_simple, ll_simple

LEMMA OptikGLLength == OptikGL!length = Cardinality(Reachable)
<1>1. OptikGL!Reachable = Reachable
  BY DEF OptikGL!Reachable, Reachable, OptikGL!From, From, OptikGL!Buckets, Buckets, OptikGL!min, min,
         OptikGL!Sentinels, Sentinels, OptikGL!NULL, NULL
<1>2. OptikGL!Cardinality(Reachable) = Cardinality(Reachable)
  BY DEF OptikGL!Cardinality, Cardinality
<1>3. QED BY <1>1, <1>2 DEF OptikGL!length, OptikGL!Length

-----------------------------------------------------------------------------
(* The sequential list.                                                    *)

LEMMA SingleSteps ==
  ASSUME NEW t, Single!Step(t)
  PROVE  \/ SearchNext(t) \/ SearchEnd(t)
         \/ Walk(t, "insert", "i_test") \/ Walk(t, "remove", "r_test")
         \/ /\ \/ pc[t] = "i_test" /\ KeyOf(t) = Key(t)
               \/ pc[t] = "r_test" /\ KeyOf(t) # Key(t)
            /\ Answer(t, 0)
         \/ /\ Goto(t, "i_test", "i_return") /\ KeyOf(t) # Key(t)
            /\ Publish(t, Pred(t), ll_simple(Key(t), call[t].val, Curr(t))) /\ UNCHANGED loc
         \/ /\ Goto(t, "r_test", "r_return") /\ KeyOf(t) = Key(t)
            /\ SetNodesAndRelease([node EXCEPT ![Pred(t)].next = node[Curr(t)].next], {Curr(t)})
            /\ TakesEffect(t, None, node[Curr(t)].val) /\ UNCHANGED loc
         \/ \/ pc[t] = "i_return" /\ Answer(t, 1)
            \/ pc[t] = "r_return" /\ Answer(t, node[Curr(t)].val)
<1> USE DEF Single!KeyOf, KeyOf, Single!Curr, Curr, Single!Pred, Pred, Single!Key, Key,
            Single!addr, addr, Single!hash, hash, Single!heap, heap, Single!hist, hist,
            Single!Goto, Goto, Single!NULL, NULL, Single!None, None, Single!NoCall, NoCall,
            Single!Abs!NoCall, Abs!NoCall, Single!Abs!None, Abs!None, Single!Abs!Pending, Abs!Pending
<1>1. Single!search(t) => SearchNext(t) \/ SearchEnd(t)
  BY DEF Single!search, Single!SearchNext, SearchNext, Single!SearchEnd, SearchEnd,
         Single!Answer, Answer, Single!Return, Return, Single!Val, Val, Single!Returns, Returns,
         Single!NoLocals, NoLocals
<1>2. /\ Single!Walk(t, "insert", "i_test") => Walk(t, "insert", "i_test")
      /\ Single!Walk(t, "remove", "r_test") => Walk(t, "remove", "r_test")
  BY DEF Single!Walk, Walk
<1>3. \A r : Single!Answer(t, r) => Answer(t, r)
  BY DEF Single!Answer, Answer, Single!Return, Return, Single!Returns, Returns, Single!NoLocals, NoLocals
<1>4. \A p, r : Single!Publish(t, p, r) => Publish(t, p, r)
  <2>1. Single!Fresh = Fresh
    BY DEF Single!Fresh, Fresh, Single!Nodes, Nodes
  <2>2. Single!Min(Fresh) = Min(Fresh)
    BY DEF Single!Min, Min
  <2>3. QED BY <2>1, <2>2 DEF Single!Publish, Publish, Single!TakesEffect, TakesEffect,
         Single!Abs!Observe, Abs!Observe
<1>5. \A f, S : Single!SetNodesAndRelease(f, S) => SetNodesAndRelease(f, S)
  BY DEF Single!SetNodesAndRelease, SetNodesAndRelease, Single!Nodes, Nodes
<1>6. \A v, r : Single!TakesEffect(t, v, r) => TakesEffect(t, v, r)
  BY DEF Single!TakesEffect, TakesEffect, Single!Abs!Observe, Abs!Observe
<1>7. \A k, v, n : Single!ll_simple(k, v, n) = ll_simple(k, v, n)
  BY DEF Single!ll_simple, ll_simple
<1>8. QED
  BY <1>1, <1>2, <1>3, <1>4, <1>5, <1>6, <1>7 DEF Single!Step, Single!insert, Single!remove

LEMMA SingleKeeps ==
  ASSUME NEW L, Core(L), SeqOK(L), NEW t \in Threads, Single!Step(t)
  PROVE  \E L2 : Good(L2) /\ SeqOK(L2)'
BY SingleSteps, SeqSearchNext, SeqSearchEnd, SeqWalk, SeqFail, SeqLink, SeqUnlink, SeqReturn

LEMMA SingleInit ==
  ASSUME Single!Init
  PROVE  is("LinkedListSeq") /\ ListInit(ll_simple(0, None, NULL))
BY DEF Single!Init, Single!is, is, Single!ListInit, ListInit, Single!Nodes, Nodes, Single!Buckets, Buckets,
       Single!min, min, Single!max, max, Single!MaxKey, MaxKey, Single!Max, Max, Single!Sentinels, Sentinels,
       Single!NoLocals, NoLocals, Single!NULL, NULL, Single!None, None, Single!HistInit, HistInit,
       Single!Abs!Init, Abs!Init, Single!Abs!None, Abs!None, Single!Abs!NoCall, Abs!NoCall,
       Single!Abs!Pending, Abs!Pending, Single!ll_simple, ll_simple

LEMMA SingleLength == Single!length = Cardinality(Reachable)
<1>1. Single!Reachable = Reachable
  BY DEF Single!Reachable, Reachable, Single!From, From, Single!Buckets, Buckets, Single!min, min,
         Single!Sentinels, Sentinels, Single!NULL, NULL
<1>2. Single!Cardinality(Reachable) = Cardinality(Reachable)
  BY DEF Single!Cardinality, Cardinality
<1>3. QED BY <1>1, <1>2 DEF Single!length, Single!Length

-----------------------------------------------------------------------------
(* The lazy list.                                                          *)

LEMMA LazyShared ==
  ASSUME NEW t
  PROVE  /\ \A r : Lazy!Return(t, r) => Return(t, r)
         /\ \A r : Lazy!Answer(t, r) => Answer(t, r)
         /\ \A p, r : Lazy!Publish(t, p, r) => Publish(t, p, r)
         /\ \A f : Lazy!SetNodes(f) => SetNodes(f)
         /\ \A f, S : Lazy!SetNodesAndRelease(f, S) => SetNodesAndRelease(f, S)
         /\ \A S : Lazy!Unlocked(S) = Unlocked(S)
         /\ \A v, r : Lazy!TakesEffect(t, v, r) => TakesEffect(t, v, r)
         /\ \A k, v, n : Lazy!ll_marked(k, v, n) = ll_marked(k, v, n)
         /\ Lazy!Restart(t) => Restart(t)
         /\ \A n, from, to : Lazy!Lock(t, n, from, to) =>
              /\ pc[t] = from /\ pc' = [pc EXCEPT ![t] = to]
              /\ tas_lock_passes(node[n].lock) /\ SetLock(n, tas_locked(node[n].lock))
<1> USE DEF Lazy!KeyOf, KeyOf, Lazy!Curr, Curr, Lazy!Pred, Pred, Lazy!Key, Key,
            Lazy!addr, addr, Lazy!hash, hash, Lazy!heap, heap, Lazy!hist, hist,
            Lazy!Goto, Goto, Lazy!NULL, NULL, Lazy!None, None, Lazy!NoCall, NoCall,
            Lazy!Abs!NoCall, Abs!NoCall, Lazy!Abs!None, Abs!None, Lazy!Abs!Pending, Abs!Pending
<1>1. \A r : Lazy!Return(t, r) => Return(t, r)
  BY DEF Lazy!Return, Return, Lazy!Returns, Returns, Lazy!NoLocals, NoLocals
<1>2. \A r : Lazy!Answer(t, r) => Answer(t, r)
  BY <1>1 DEF Lazy!Answer, Answer
<1>3. \A p, r : Lazy!Publish(t, p, r) => Publish(t, p, r)
  <2>1. Lazy!Fresh = Fresh
    BY DEF Lazy!Fresh, Fresh, Lazy!Nodes, Nodes
  <2>2. Lazy!Min(Fresh) = Min(Fresh)
    BY DEF Lazy!Min, Min
  <2>3. QED BY <2>1, <2>2 DEF Lazy!Publish, Publish, Lazy!TakesEffect, TakesEffect,
         Lazy!Abs!Observe, Abs!Observe
<1>4. \A f : Lazy!SetNodes(f) => SetNodes(f)
  BY DEF Lazy!SetNodes, SetNodes
<1>5. \A f, S : Lazy!SetNodesAndRelease(f, S) => SetNodesAndRelease(f, S)
  BY DEF Lazy!SetNodesAndRelease, SetNodesAndRelease, Lazy!Nodes, Nodes
<1>6. \A S : Lazy!Unlocked(S) = Unlocked(S)
  BY DEF Lazy!Unlocked, Unlocked, Lazy!Nodes, Nodes, Lazy!TAS_FREE, TAS_FREE
<1>7. \A v, r : Lazy!TakesEffect(t, v, r) => TakesEffect(t, v, r)
  BY DEF Lazy!TakesEffect, TakesEffect, Lazy!Abs!Observe, Abs!Observe
<1>8. \A k, v, n : Lazy!ll_marked(k, v, n) = ll_marked(k, v, n)
  BY DEF Lazy!ll_marked, ll_marked, Lazy!ll_simple, ll_simple, Lazy!TAS_FREE, TAS_FREE
<1>9. Lazy!Restart(t) => Restart(t)
  BY DEF Lazy!Restart, Restart, Lazy!AtHead, AtHead, Lazy!NoLocals, NoLocals,
         Lazy!Sentinels, Sentinels, Lazy!min, min
<1>10. \A n, from, to : Lazy!Lock(t, n, from, to) =>
              /\ pc[t] = from /\ pc' = [pc EXCEPT ![t] = to]
              /\ tas_lock_passes(node[n].lock) /\ SetLock(n, tas_locked(node[n].lock))
  BY DEF Lazy!Lock, Lazy!tas_lock_passes, tas_lock_passes, Lazy!SetLock, SetLock, Lazy!SetNodes, SetNodes,
         Lazy!tas_locked, tas_locked, Lazy!TAS_FREE, TAS_FREE, Lazy!TAS_LCKD, TAS_LCKD
<1>11. QED BY <1>1, <1>2, <1>3, <1>4, <1>5, <1>6, <1>7, <1>8, <1>9, <1>10

\* A step that takes the lock of node n.
LazyLocks(t, n, to) ==
  /\ \/ pc[t] = "i_test" /\ to = "i_check" /\ n = Pred(t) /\ KeyOf(t) # Key(t)
     \/ pc[t] = "r_test" /\ to = "r_lock_curr" /\ n = Pred(t) /\ KeyOf(t) = Key(t)
     \/ pc[t] = "r_lock_curr" /\ to = "r_check" /\ n = Curr(t)
  /\ pc' = [pc EXCEPT ![t] = to] /\ tas_lock_passes(node[n].lock)
  /\ SetLock(n, tas_locked(node[n].lock)) /\ UNCHANGED loc /\ UNCHANGED hist

\* One step of the lazy list, by what it does.
LazySteps(t) ==
  \/ SearchNext(t) \/ SearchMark(t)
  \/ Walk(t, "insert", "i_test") \/ Walk(t, "remove", "r_test")
  \/ /\ \/ pc[t] = "i_test" /\ KeyOf(t) = Key(t) /\ ~node[Curr(t)].marked
        \/ pc[t] = "r_test" /\ KeyOf(t) # Key(t)
     /\ Answer(t, 0)
  \/ pc[t] = "i_test" /\ Restart(t) /\ UNCHANGED heap /\ UNCHANGED hist
  \/ \E n, to : LazyLocks(t, n, to)
  \/ /\ \/ pc[t] = "i_check" /\ SetNodes(Unlocked({Pred(t)}))
        \/ pc[t] = "r_check" /\ SetNodes(Unlocked({Pred(t), Curr(t)}))
     /\ Restart(t) /\ UNCHANGED hist
  \/ /\ pc[t] = "i_check"
     /\ ~node[Pred(t)].marked /\ ~node[Curr(t)].marked /\ node[Pred(t)].next = Curr(t)
     /\ Publish(t, Pred(t), ll_marked(Key(t), call[t].val, Curr(t)))
     /\ pc' = [pc EXCEPT ![t] = "i_unlock"] /\ UNCHANGED loc
  \/ /\ pc[t] = "r_check"
     /\ ~node[Pred(t)].marked /\ ~node[Curr(t)].marked /\ node[Pred(t)].next = Curr(t)
     /\ SetNodes([node EXCEPT ![Curr(t)].marked = TRUE])
     /\ TakesEffect(t, None, node[Curr(t)].val)
     /\ pc' = [pc EXCEPT ![t] = "r_unlink"] /\ UNCHANGED loc
  \/ /\ Goto(t, "r_unlink", "r_unlock")
     /\ SetNodes([node EXCEPT ![Pred(t)].next = node[Curr(t)].next]) /\ UNCHANGED loc /\ UNCHANGED hist
  \/ \/ pc[t] = "i_unlock" /\ SetNodes(Unlocked({Pred(t)})) /\ Return(t, 1)
     \/ /\ pc[t] = "r_unlock" /\ SetNodesAndRelease(Unlocked({Pred(t), Curr(t)}), {Curr(t)})
        /\ Return(t, node[Curr(t)].val)

LEMMA LazyIsSteps ==
  ASSUME NEW t, Lazy!Step(t)
  PROVE  LazySteps(t)
<1> USE DEF Lazy!KeyOf, KeyOf, Lazy!Curr, Curr, Lazy!Pred, Pred, Lazy!Key, Key,
            Lazy!addr, addr, Lazy!hash, hash, Lazy!heap, heap, Lazy!hist, hist,
            Lazy!Goto, Goto, Lazy!NULL, NULL, Lazy!None, None, Lazy!Abs!None, Abs!None
<1>1. Lazy!search(t) => SearchNext(t) \/ SearchMark(t)
  BY LazyShared DEF Lazy!search, Lazy!SearchNext, SearchNext, Lazy!SearchMark, SearchMark, Lazy!Val, Val
<1>2. /\ Lazy!Walk(t, "insert", "i_test") => Walk(t, "insert", "i_test")
      /\ Lazy!Walk(t, "remove", "r_test") => Walk(t, "remove", "r_test")
  BY DEF Lazy!Walk, Walk
<1>3. /\ Lazy!InsertFound(t) => LazySteps(t)
      /\ Lazy!RemoveMiss(t) => LazySteps(t)
  BY LazyShared DEF Lazy!InsertFound, Lazy!RemoveMiss, LazySteps
<1>4. /\ Lazy!InsertLock(t) => LazySteps(t)
      /\ Lazy!RemoveLockPred(t) => LazySteps(t)
      /\ Lazy!RemoveLockCurr(t) => LazySteps(t)
  <2>1. Lazy!InsertLock(t) => LazyLocks(t, Pred(t), "i_check")
    BY LazyShared DEF Lazy!InsertLock, LazyLocks
  <2>2. Lazy!RemoveLockPred(t) => LazyLocks(t, Pred(t), "r_lock_curr")
    BY LazyShared DEF Lazy!RemoveLockPred, LazyLocks
  <2>3. Lazy!RemoveLockCurr(t) => LazyLocks(t, Curr(t), "r_check")
    BY LazyShared DEF Lazy!RemoveLockCurr, LazyLocks
  <2>4. (\E n, to : LazyLocks(t, n, to)) => LazySteps(t)
    BY DEF LazySteps
  <2>5. QED BY <2>1, <2>2, <2>3, <2>4
<1>5. Lazy!InsertValidate(t) => LazySteps(t)
  BY LazyShared DEF Lazy!InsertValidate, Lazy!parse_validate, LazySteps
<1>6. Lazy!RemoveMark(t) => LazySteps(t)
  <2>1. SUFFICES ASSUME Lazy!RemoveMark(t) PROVE LazySteps(t)
    OBVIOUS
  <2>2. CASE Lazy!parse_validate(t)
    <3>1. SetNodes([node EXCEPT ![Curr(t)].marked = TRUE]) /\ TakesEffect(t, None, node[Curr(t)].val)
      BY <2>1, <2>2, LazyShared DEF Lazy!RemoveMark
    <3>2. /\ pc[t] = "r_check" /\ pc' = [pc EXCEPT ![t] = "r_unlink"] /\ UNCHANGED loc
          /\ ~node[Pred(t)].marked /\ ~node[Curr(t)].marked /\ node[Pred(t)].next = Curr(t)
      BY <2>1, <2>2 DEF Lazy!RemoveMark, Lazy!parse_validate
    <3>3. QED BY <3>1, <3>2 DEF LazySteps
  <2>3. CASE ~Lazy!parse_validate(t)
    <3>1. SetNodes(Unlocked({Pred(t), Curr(t)})) /\ Restart(t)
      BY <2>1, <2>3, LazyShared DEF Lazy!RemoveMark
    <3>2. pc[t] = "r_check" /\ UNCHANGED hist
      BY <2>1, <2>3 DEF Lazy!RemoveMark
    <3>3. QED BY <3>1, <3>2 DEF LazySteps
  <2>4. QED BY <2>2, <2>3
<1>7. Lazy!RemoveUnlink(t) => LazySteps(t)
  BY LazyShared DEF Lazy!RemoveUnlink, LazySteps
<1>8. /\ Lazy!InsertUnlock(t) => LazySteps(t)
      /\ Lazy!RemoveUnlock(t) => LazySteps(t)
  BY LazyShared DEF Lazy!InsertUnlock, Lazy!RemoveUnlock, LazySteps
<1>9. QED
  BY <1>1, <1>2, <1>3, <1>4, <1>5, <1>6, <1>7, <1>8 DEF Lazy!Step, Lazy!insert, Lazy!remove, LazySteps

LEMMA LazyKeeps ==
  ASSUME NEW L, Core(L), LazyOK(L), NEW t \in Threads, Lazy!Step(t)
  PROVE  \E L2 : Good(L2) /\ LazyOK(L2)'
BY LazyIsSteps, LazySearchNext, LazySearchMark, LazyWalk, LazyFail, LazyFoundMarked, LazyLock, LazyInvalid,
   LazyLink, LazyMark, LazyUnlink, LazyReturn DEF LazySteps, LazyLocks

LEMMA LazyInit ==
  ASSUME Lazy!Init
  PROVE  is("LinkedListLazy") /\ ListInit(ll_marked(0, None, NULL))
BY DEF Lazy!Init, Lazy!is, is, Lazy!ListInit, ListInit, Lazy!Nodes, Nodes, Lazy!Buckets, Buckets,
       Lazy!min, min, Lazy!max, max, Lazy!MaxKey, MaxKey, Lazy!Max, Max, Lazy!Sentinels, Sentinels,
       Lazy!NoLocals, NoLocals, Lazy!NULL, NULL, Lazy!None, None, Lazy!HistInit, HistInit,
       Lazy!Abs!Init, Abs!Init, Lazy!Abs!None, Abs!None, Lazy!Abs!NoCall, Abs!NoCall,
       Lazy!Abs!Pending, Abs!Pending, Lazy!ll_marked, ll_marked, Lazy!ll_simple, ll_simple,
       Lazy!TAS_FREE, TAS_FREE

LEMMA LazyLength == Lazy!length = Cardinality(Reachable)
<1>1. Lazy!Reachable = Reachable
  BY DEF Lazy!Reachable, Reachable, Lazy!From, From, Lazy!Buckets, Buckets, Lazy!min, min,
         Lazy!Sentinels, Sentinels, Lazy!NULL, NULL
<1>2. Lazy!Cardinality(Reachable) = Cardinality(Reachable)
  BY DEF Lazy!Cardinality, Cardinality
<1>3. QED BY <1>1, <1>2 DEF Lazy!length, Lazy!Length

-----------------------------------------------------------------------------
(* The list with lock coupling.                                            *)

LEMMA CouplingShared ==
  ASSUME NEW t
  PROVE  /\ \A r : Coupling!Return(t, r) => Return(t, r)
         /\ \A p, r : Coupling!Publish(t, p, r) => Publish(t, p, r)
         /\ \A f : Coupling!SetNodes(f) => SetNodes(f)
         /\ \A f, S : Coupling!SetNodesAndRelease(f, S) => SetNodesAndRelease(f, S)
         /\ \A S : Coupling!Unlocked(S) = Unlocked(S)
         /\ \A v, r : Coupling!TakesEffect(t, v, r) => TakesEffect(t, v, r)
         /\ \A k, v, n : Coupling!ll_marked(k, v, n) = ll_marked(k, v, n)
         /\ \A n, from, to : Coupling!Lock(t, n, from, to) =>
              /\ pc[t] = from /\ pc' = [pc EXCEPT ![t] = to]
              /\ tas_lock_passes(node[n].lock) /\ SetLock(n, tas_locked(node[n].lock))
<1> USE DEF Coupling!KeyOf, KeyOf, Coupling!Curr, Curr, Coupling!Pred, Pred, Coupling!Key, Key,
            Coupling!addr, addr, Coupling!hash, hash, Coupling!heap, heap, Coupling!hist, hist,
            Coupling!Goto, Goto, Coupling!NULL, NULL, Coupling!None, None, Coupling!NoCall, NoCall,
            Coupling!Abs!NoCall, Abs!NoCall, Coupling!Abs!None, Abs!None, Coupling!Abs!Pending, Abs!Pending
<1>1. \A r : Coupling!Return(t, r) => Return(t, r)
  BY DEF Coupling!Return, Return, Coupling!Returns, Returns, Coupling!NoLocals, NoLocals
<1>2. \A p, r : Coupling!Publish(t, p, r) => Publish(t, p, r)
  <2>1. Coupling!Fresh = Fresh
    BY DEF Coupling!Fresh, Fresh, Coupling!Nodes, Nodes
  <2>2. Coupling!Min(Fresh) = Min(Fresh)
    BY DEF Coupling!Min, Min
  <2>3. QED BY <2>1, <2>2 DEF Coupling!Publish, Publish, Coupling!TakesEffect, TakesEffect,
         Coupling!Abs!Observe, Abs!Observe
<1>3. \A f : Coupling!SetNodes(f) => SetNodes(f)
  BY DEF Coupling!SetNodes, SetNodes
<1>4. \A f, S : Coupling!SetNodesAndRelease(f, S) => SetNodesAndRelease(f, S)
  BY DEF Coupling!SetNodesAndRelease, SetNodesAndRelease, Coupling!Nodes, Nodes
<1>5. \A S : Coupling!Unlocked(S) = Unlocked(S)
  BY DEF Coupling!Unlocked, Unlocked, Coupling!Nodes, Nodes, Coupling!TAS_FREE, TAS_FREE
<1>6. \A v, r : Coupling!TakesEffect(t, v, r) => TakesEffect(t, v, r)
  BY DEF Coupling!TakesEffect, TakesEffect, Coupling!Abs!Observe, Abs!Observe
<1>7. \A k, v, n : Coupling!ll_marked(k, v, n) = ll_marked(k, v, n)
  BY DEF Coupling!ll_marked, ll_marked, Coupling!ll_simple, ll_simple, Coupling!TAS_FREE, TAS_FREE
<1>8. \A n, from, to : Coupling!Lock(t, n, from, to) =>
              /\ pc[t] = from /\ pc' = [pc EXCEPT ![t] = to]
              /\ tas_lock_passes(node[n].lock) /\ SetLock(n, tas_locked(node[n].lock))
  BY DEF Coupling!Lock, Coupling!tas_lock_passes, tas_lock_passes, Coupling!SetLock, SetLock, Coupling!SetNodes,
         SetNodes, Coupling!tas_locked, tas_locked, Coupling!TAS_FREE, TAS_FREE, Coupling!TAS_LCKD, TAS_LCKD
<1>9. QED BY <1>1, <1>2, <1>3, <1>4, <1>5, <1>6, <1>7, <1>8

\* One step of the list with lock coupling, by what it does.
CouplingSteps(t) ==
  \/ /\ pc[t] \in Ops /\ pc' = [pc EXCEPT ![t] = "lock_next"]
     /\ tas_lock_passes(node[Curr(t)].lock) /\ SetLock(Curr(t), tas_locked(node[Curr(t)].lock))
     /\ UNCHANGED loc /\ UNCHANGED hist
  \/ \E n, to : CouplingLocks(t, n, to)
  \/ CouplingAdvances(t)
  \/ /\ pc[t] = "found" /\ SetNodes(Unlocked({Pred(t), Curr(t)}))
     /\ \E r : /\ \/ call[t].op = "search" /\ r = Val(t)
                  \/ call[t].op = "insert" /\ KeyOf(t) = Key(t) /\ r = 0
                  \/ call[t].op = "remove" /\ KeyOf(t) # Key(t) /\ r = 0
               /\ Return(t, r)
  \/ /\ pc[t] = "found" /\ call[t].op = "insert" /\ KeyOf(t) # Key(t)
     /\ Publish(t, Pred(t), ll_marked(Key(t), call[t].val, Curr(t)))
     /\ pc' = [pc EXCEPT ![t] = "unlock"] /\ UNCHANGED loc
  \/ /\ pc[t] = "found" /\ call[t].op = "remove" /\ KeyOf(t) = Key(t)
     /\ SetNodes([node EXCEPT ![Pred(t)].next = node[Curr(t)].next])
     /\ TakesEffect(t, None, node[Curr(t)].val)
     /\ pc' = [pc EXCEPT ![t] = "delete"] /\ UNCHANGED loc
  \/ pc[t] = "unlock" /\ SetNodes(Unlocked({Pred(t), Curr(t)})) /\ Return(t, 1)
  \/ /\ pc[t] = "delete" /\ SetNodesAndRelease(Unlocked({Pred(t), Curr(t)}), {Curr(t)})
     /\ Return(t, node[Curr(t)].val)

LEMMA CouplingIsSteps ==
  ASSUME NEW t, Coupling!Step(t)
  PROVE  CouplingSteps(t)
<1> USE DEF Coupling!KeyOf, KeyOf, Coupling!Curr, Curr, Coupling!Pred, Pred, Coupling!Key, Key,
            Coupling!addr, addr, Coupling!hash, hash, Coupling!heap, heap, Coupling!hist, hist,
            Coupling!Goto, Goto, Coupling!NULL, NULL, Coupling!None, None, Coupling!Abs!None, Abs!None
<1>1. Coupling!LockHead(t) => CouplingSteps(t)
  BY CouplingShared DEF Coupling!LockHead, CouplingSteps, Coupling!Ops, Ops
<1>2. Coupling!LockNext(t) => \E n, to : CouplingLocks(t, n, to)
  <2>1. SUFFICES ASSUME Coupling!LockNext(t) PROVE \E n, to : CouplingLocks(t, n, to)
    OBVIOUS
  <2>2. PICK n, to : n = node[Curr(t)].next /\ to = IF node[n].key < Key(t) THEN "advance" ELSE "found"
    OBVIOUS
  <2>3. /\ pc[t] = "lock_next" /\ Coupling!Lock(t, n, "lock_next", to)
        /\ loc' = [loc EXCEPT ![t].pred = Curr(t), ![t].curr = n] /\ UNCHANGED hist
    BY <2>1, <2>2 DEF Coupling!LockNext
  <2>4. pc' = [pc EXCEPT ![t] = to] /\ tas_lock_passes(node[n].lock) /\ SetLock(n, tas_locked(node[n].lock))
    BY <2>3, CouplingShared
  <2>5. CouplingLocks(t, n, to)
    BY <2>2, <2>3, <2>4 DEF CouplingLocks
  <2>6. QED BY <2>5
<1>3. Coupling!Advance(t) => CouplingAdvances(t)
  BY CouplingShared DEF Coupling!Advance, CouplingAdvances, SetNodes
<1>4. \A r : Coupling!Finish(t, r) => SetNodes(Unlocked({Pred(t), Curr(t)})) /\ Return(t, r)
  BY CouplingShared DEF Coupling!Finish
<1>5. Coupling!SearchFound(t) => CouplingSteps(t)
  BY <1>4 DEF Coupling!SearchFound, CouplingSteps, Coupling!Val, Val
<1>6. Coupling!Fail(t) => CouplingSteps(t)
  BY <1>4 DEF Coupling!Fail, CouplingSteps
<1>7. Coupling!Link(t) => CouplingSteps(t)
  BY CouplingShared DEF Coupling!Link, CouplingSteps
<1>8. Coupling!Unlink(t) => CouplingSteps(t)
  BY CouplingShared DEF Coupling!Unlink, CouplingSteps
<1>9. Coupling!InsertUnlock(t) => CouplingSteps(t)
  BY <1>4 DEF Coupling!InsertUnlock, CouplingSteps
<1>10. Coupling!Delete(t) => CouplingSteps(t)
  BY CouplingShared DEF Coupling!Delete, CouplingSteps
<1>11. QED
  BY <1>1, <1>2, <1>3, <1>5, <1>6, <1>7, <1>8, <1>9, <1>10
  DEF Coupling!Step, Coupling!search, Coupling!insert, Coupling!remove, CouplingSteps

LEMMA CouplingKeeps ==
  ASSUME NEW L, Core(L), CouplingOK(L), NEW t \in Threads, Coupling!Step(t)
  PROVE  \E L2 : Good(L2) /\ CouplingOK(L2)'
<1>1. CouplingSteps(t)
  BY CouplingIsSteps
<1>2. \A f : SetNodes(f) => node' = f /\ UNCHANGED <<set, used, freed, lock>>
  BY DEF SetNodes
<1>3. QED
  BY <1>1, <1>2, CouplingLockHead, CouplingLockNext, CouplingAdvance, CouplingAnswer, CouplingInserted, CouplingLink,
     CouplingUnlink, CouplingDelete DEF CouplingSteps

LEMMA CouplingInit ==
  ASSUME Coupling!Init
  PROVE  is("LinkedListCoupling") /\ ListInit(ll_marked(0, None, NULL))
BY DEF Coupling!Init, Coupling!is, is, Coupling!ListInit, ListInit, Coupling!Nodes, Nodes, Coupling!Buckets, Buckets,
       Coupling!min, min, Coupling!max, max, Coupling!MaxKey, MaxKey, Coupling!Max, Max, Coupling!Sentinels, Sentinels,
       Coupling!NoLocals, NoLocals, Coupling!NULL, NULL, Coupling!None, None, Coupling!HistInit, HistInit,
       Coupling!Abs!Init, Abs!Init, Coupling!Abs!None, Abs!None, Coupling!Abs!NoCall, Abs!NoCall,
       Coupling!Abs!Pending, Abs!Pending, Coupling!ll_marked, ll_marked, Coupling!ll_simple, ll_simple,
       Coupling!TAS_FREE, TAS_FREE

LEMMA CouplingLength == Coupling!length = Cardinality(Reachable)
<1>1. Coupling!Reachable = Reachable
  BY DEF Coupling!Reachable, Reachable, Coupling!From, From, Coupling!Buckets, Buckets, Coupling!min, min,
         Coupling!Sentinels, Sentinels, Coupling!NULL, NULL
<1>2. Coupling!Cardinality(Reachable) = Cardinality(Reachable)
  BY DEF Coupling!Cardinality, Cardinality
<1>3. QED BY <1>1, <1>2 DEF Coupling!length, Coupling!Length

-----------------------------------------------------------------------------
(* The list with an OPTIK lock in each node.                               *)

LEMMA OptikShared ==
  ASSUME NEW t
  PROVE  /\ \A r : Optik!Return(t, r) => Return(t, r)
         /\ \A r : Optik!Answer(t, r) => Answer(t, r)
         /\ \A p, r : Optik!Publish(t, p, r) => Publish(t, p, r)
         /\ \A f : Optik!SetNodes(f) => SetNodes(f)
         /\ \A n, w : Optik!SetLock(n, w) => SetLock(n, w)
         /\ \A f, S : Optik!SetNodesAndRelease(f, S) => SetNodesAndRelease(f, S)
         /\ \A v, r : Optik!TakesEffect(t, v, r) => TakesEffect(t, v, r)
         /\ \A k, v, n : Optik!ll_optik(k, v, n) = ll_optik(k, v, n)
         /\ Optik!Restart(t) => Restart(t)
         /\ \A l : /\ Optik!optik_unlocked(l) = optik_unlocked(l)
                   /\ Optik!optik_reverted(l) = optik_reverted(l)
         /\ \A n, v, from, to : Optik!Trylock(t, n, v, from, to) => OptikGets(t, n, v, from, to)
<1> USE DEF Optik!KeyOf, KeyOf, Optik!Curr, Curr, Optik!Pred, Pred, Optik!Key, Key,
            Optik!addr, addr, Optik!hash, hash, Optik!heap, heap, Optik!hist, hist,
            Optik!Goto, Goto, Optik!NULL, NULL, Optik!None, None, Optik!NoCall, NoCall,
            Optik!Abs!NoCall, Abs!NoCall, Optik!Abs!None, Abs!None, Optik!Abs!Pending, Abs!Pending
<1>1. \A r : Optik!Return(t, r) => Return(t, r)
  BY DEF Optik!Return, Return, Optik!Returns, Returns, Optik!NoLocals, NoLocals
<1>2. \A r : Optik!Answer(t, r) => Answer(t, r)
  BY <1>1 DEF Optik!Answer, Answer
<1>3. \A p, r : Optik!Publish(t, p, r) => Publish(t, p, r)
  <2>1. Optik!Fresh = Fresh
    BY DEF Optik!Fresh, Fresh, Optik!Nodes, Nodes
  <2>2. Optik!Min(Fresh) = Min(Fresh)
    BY DEF Optik!Min, Min
  <2>3. QED BY <2>1, <2>2 DEF Optik!Publish, Publish, Optik!TakesEffect, TakesEffect,
         Optik!Abs!Observe, Abs!Observe
<1>4. \A f : Optik!SetNodes(f) => SetNodes(f)
  BY DEF Optik!SetNodes, SetNodes
<1>5. \A n, w : Optik!SetLock(n, w) => SetLock(n, w)
  BY <1>4 DEF Optik!SetLock, SetLock
<1>6. \A f, S : Optik!SetNodesAndRelease(f, S) => SetNodesAndRelease(f, S)
  BY DEF Optik!SetNodesAndRelease, SetNodesAndRelease, Optik!Nodes, Nodes
<1>7. \A v, r : Optik!TakesEffect(t, v, r) => TakesEffect(t, v, r)
  BY DEF Optik!TakesEffect, TakesEffect, Optik!Abs!Observe, Abs!Observe
<1>8. \A k, v, n : Optik!ll_optik(k, v, n) = ll_optik(k, v, n)
  BY DEF Optik!ll_optik, ll_optik, Optik!ll_simple, ll_simple, Optik!OPTIK_INIT, OPTIK_INIT
<1>9. Optik!Restart(t) => Restart(t)
  BY DEF Optik!Restart, Restart, Optik!AtHead, AtHead, Optik!NoLocals, NoLocals,
         Optik!Sentinels, Sentinels, Optik!min, min
<1>10. \A l : Optik!optik_unlocked(l) = optik_unlocked(l) /\ Optik!optik_reverted(l) = optik_reverted(l)
  BY DEF Optik!optik_unlocked, optik_unlocked, Optik!optik_reverted, optik_reverted
<1>11. \A n, v, from, to : Optik!Trylock(t, n, v, from, to) => OptikGets(t, n, v, from, to)
  <2>1. \A l, v : Optik!optik_trylock_version(l, v) <=> optik_trylock_version(l, v)
    BY DEF Optik!optik_trylock_version, optik_trylock_version, Optik!optik_is_locked, optik_is_locked,
           Optik!OPTIK_DELETED, OPTIK_DELETED
  <2>2. \A v : Optik!optik_locked(v) = optik_locked(v)
    BY DEF Optik!optik_locked, optik_locked
  <2>3. QED BY <1>5, <2>1, <2>2 DEF Optik!Trylock, OptikGets
<1>12. QED BY <1>1, <1>2, <1>3, <1>4, <1>5, <1>6, <1>7, <1>8, <1>9, <1>10, <1>11

\* One step of the list with OPTIK locks, by what it does.
OptikSteps(t) ==
  \/ SearchNext(t) \/ SearchEnd(t)
  \/ OptikReadsPver(t) \/ OptikReadsCver(t) \/ OptikWalks(t) \/ OptikReadsNext(t)
  \/ /\ \/ pc[t] = "i_test" /\ KeyOf(t) = Key(t)
        \/ pc[t] = "r_test" /\ KeyOf(t) # Key(t)
     /\ Answer(t, 0)
  \/ pc[t] \in {"i_test", "r_lock_pred"} /\ Restart(t) /\ UNCHANGED heap /\ UNCHANGED hist
  \/ OptikGets(t, Pred(t), loc[t].pver, "i_test", "i_link") /\ KeyOf(t) # Key(t)
  \/ OptikGets(t, Pred(t), loc[t].pver, "r_lock_pred", "r_lock_curr")
  \/ OptikGets(t, Curr(t), loc[t].cver, "r_lock_curr", "r_unlink")
  \/ Goto(t, "r_lock_curr", "r_revert") /\ UNCHANGED heap /\ UNCHANGED hist /\ UNCHANGED loc
  \/ /\ pc[t] = "r_revert" /\ SetLock(Pred(t), optik_reverted(node[Pred(t)].lock))
     /\ Restart(t) /\ UNCHANGED hist
  \/ /\ Goto(t, "i_link", "i_unlock") /\ UNCHANGED loc
     /\ Publish(t, Pred(t), ll_optik(Key(t), call[t].val, Curr(t)))
  \/ pc[t] = "i_unlock" /\ SetLock(Pred(t), optik_unlocked(node[Pred(t)].lock)) /\ Return(t, 1)
  \/ /\ Goto(t, "r_unlink", "r_unlock") /\ UNCHANGED loc
     /\ SetNodes([node EXCEPT ![Pred(t)].next = loc[t].next])
     /\ TakesEffect(t, None, node[Curr(t)].val)
  \/ /\ pc[t] = "r_unlock" /\ Return(t, node[Curr(t)].val)
     /\ SetNodesAndRelease([node EXCEPT ![Pred(t)].lock = optik_unlocked(node[Pred(t)].lock)], {Curr(t)})

LEMMA OptikIsSteps ==
  ASSUME NEW t, Optik!Step(t)
  PROVE  OptikSteps(t)
<1> USE DEF Optik!KeyOf, KeyOf, Optik!Curr, Curr, Optik!Pred, Pred, Optik!Key, Key,
            Optik!addr, addr, Optik!hash, hash, Optik!heap, heap, Optik!hist, hist,
            Optik!Goto, Goto, Optik!NULL, NULL, Optik!None, None, Optik!Abs!None, Abs!None
<1>1. Optik!search(t) => SearchNext(t) \/ SearchEnd(t)
  BY OptikShared DEF Optik!search, Optik!SearchNext, SearchNext, Optik!SearchEnd, SearchEnd, Optik!Val, Val
<1>2. /\ Optik!InsertVersion(t) => OptikReadsPver(t)
      /\ Optik!RemoveHeadVersion(t) => OptikReadsCver(t)
      /\ Optik!RemoveVersion(t) => OptikReadsCver(t)
  BY DEF Optik!InsertVersion, Optik!RemoveHeadVersion, Optik!RemoveVersion, OptikReadsPver, OptikReadsCver
<1>3. /\ Optik!InsertNext(t) => OptikWalks(t)
      /\ Optik!RemoveNext(t) => OptikWalks(t)
  <2>1. Optik!InsertNext(t) => OptikWalks(t)
    BY DEF Optik!InsertNext, OptikWalks
  <2>2. Optik!RemoveNext(t) => OptikWalks(t)
    BY DEF Optik!RemoveNext, OptikWalks
  <2>3. QED BY <2>1, <2>2
<1>4. Optik!RemoveSuccessor(t) => OptikReadsNext(t)
  BY DEF Optik!RemoveSuccessor, OptikReadsNext
<1>5. /\ Optik!InsertFound(t) => OptikSteps(t)
      /\ Optik!RemoveMiss(t) => OptikSteps(t)
  BY OptikShared DEF Optik!InsertFound, Optik!RemoveMiss, OptikSteps
<1>6. /\ Optik!InsertLockFails(t) => OptikSteps(t)
      /\ Optik!RemoveLockPredFails(t) => OptikSteps(t)
  <2>1. Optik!InsertLockFails(t) => OptikSteps(t)
    BY OptikShared DEF Optik!InsertLockFails, Optik!TrylockFails, OptikSteps
  <2>2. Optik!RemoveLockPredFails(t) => OptikSteps(t)
    BY OptikShared DEF Optik!RemoveLockPredFails, Optik!TrylockFails, OptikSteps
  <2>3. QED BY <2>1, <2>2
<1>7. /\ Optik!InsertLock(t) => OptikGets(t, Pred(t), loc[t].pver, "i_test", "i_link") /\ KeyOf(t) # Key(t)
      /\ Optik!RemoveLockPred(t) => OptikGets(t, Pred(t), loc[t].pver, "r_lock_pred", "r_lock_curr")
      /\ Optik!RemoveLockCurr(t) => OptikGets(t, Curr(t), loc[t].cver, "r_lock_curr", "r_unlink")
  BY OptikShared DEF Optik!InsertLock, Optik!RemoveLockPred, Optik!RemoveLockCurr
<1>8. Optik!RemoveLockCurrFails(t) => OptikSteps(t)
  BY DEF Optik!RemoveLockCurrFails, Optik!TrylockFails, OptikSteps
<1>9. Optik!RemoveRevert(t) => OptikSteps(t)
  BY OptikShared DEF Optik!RemoveRevert, OptikSteps
<1>10. Optik!InsertLink(t) => OptikSteps(t)
  BY OptikShared DEF Optik!InsertLink, OptikSteps
<1>11. Optik!InsertUnlock(t) => OptikSteps(t)
  BY OptikShared DEF Optik!InsertUnlock, OptikSteps
<1>12. Optik!RemoveUnlink(t) => OptikSteps(t)
  BY OptikShared DEF Optik!RemoveUnlink, OptikSteps
<1>13. Optik!RemoveUnlock(t) => OptikSteps(t)
  BY OptikShared DEF Optik!RemoveUnlock, OptikSteps
<1>14. Optik!insert(t) => OptikSteps(t)
  BY <1>2, <1>3, <1>5, <1>6, <1>7, <1>10, <1>11 DEF Optik!insert, OptikSteps
<1>15. Optik!remove(t) => OptikSteps(t)
  BY <1>2, <1>3, <1>4, <1>5, <1>6, <1>7, <1>8, <1>9, <1>12, <1>13 DEF Optik!remove, OptikSteps
<1>16. QED BY <1>1, <1>14, <1>15 DEF Optik!Step, OptikSteps

LEMMA OptikKeeps ==
  ASSUME NEW L, Core(L), OptikOK(L), NEW t \in Threads, Optik!Step(t)
  PROVE  \E L2 : Good(L2) /\ OptikOK(L2)'
<1>1. OptikSteps(t)
  BY OptikIsSteps
<1>2. QED
  BY <1>1, OptikSearchNext, OptikSearchEnd, OptikInsertVersion, OptikRemoveVersion, OptikNext, OptikRemoveSuccessor,
     OptikFail, OptikRestart, OptikLockPred, OptikLockCurr, OptikGivesUp, OptikRevert, OptikLink, OptikInserted,
     OptikUnlink, OptikRemoved DEF OptikSteps, Goto

LEMMA OptikInit ==
  ASSUME Optik!Init
  PROVE  is("LinkedListOptik") /\ ListInit(ll_optik(0, None, NULL))
BY DEF Optik!Init, Optik!is, is, Optik!ListInit, ListInit, Optik!Nodes, Nodes, Optik!Buckets, Buckets,
       Optik!min, min, Optik!max, max, Optik!MaxKey, MaxKey, Optik!Max, Max, Optik!Sentinels, Sentinels,
       Optik!NoLocals, NoLocals, Optik!NULL, NULL, Optik!None, None, Optik!HistInit, HistInit,
       Optik!Abs!Init, Abs!Init, Optik!Abs!None, Abs!None, Optik!Abs!NoCall, Abs!NoCall,
       Optik!Abs!Pending, Abs!Pending, Optik!ll_optik, ll_optik, Optik!ll_simple, ll_simple,
       Optik!OPTIK_INIT, OPTIK_INIT

LEMMA OptikLength == Optik!length = Cardinality(Reachable)
<1>1. Optik!Reachable = Reachable
  BY DEF Optik!Reachable, Reachable, Optik!From, From, Optik!Buckets, Buckets, Optik!min, min,
         Optik!Sentinels, Sentinels, Optik!NULL, NULL
<1>2. Optik!Cardinality(Reachable) = Cardinality(Reachable)
  BY DEF Optik!Cardinality, Cardinality
<1>3. QED BY <1>1, <1>2 DEF Optik!length, Optik!Length

-----------------------------------------------------------------------------
(* Harris' list, optimized, and its hash table.                            *)

LEMMA HarrisOptShared ==
  ASSUME NEW t
  PROVE  /\ \A r : HarrisOpt!Answer(t, r) => Answer(t, r)
         /\ \A r : HarrisOpt!Return(t, r) => Return(t, r)
         /\ \A p, n : HarrisOpt!Publish(t, p, n) => Publish(t, p, n)
         /\ \A f : HarrisOpt!SetNodes(f) => SetNodes(f)
         /\ \A f, S : HarrisOpt!SetNodesAndRelease(f, S) => SetNodesAndRelease(f, S)
         /\ \A v, r : HarrisOpt!TakesEffect(t, v, r) => TakesEffect(t, v, r)
         /\ \A k, v, n : HarrisOpt!ll_simple(k, v, n) = ll_simple(k, v, n)
         /\ HarrisOpt!Restart(t) => Restart(t)
         /\ \A n, x : HarrisOpt!Holds(n, x) <=> node[n].next = x /\ ~node[n].marked
<1> USE DEF HarrisOpt!heap, heap, HarrisOpt!hist, hist, HarrisOpt!NoCall, NoCall, HarrisOpt!Abs!NoCall, Abs!NoCall,
            HarrisOpt!Abs!None, Abs!None, HarrisOpt!None, None, HarrisOpt!NULL, NULL, HarrisOpt!addr, addr,
            HarrisOpt!hash, hash, HarrisOpt!Key, Key, HarrisOpt!Abs!Pending, Abs!Pending
<1>1. \A r : HarrisOpt!Return(t, r) => Return(t, r)
  BY DEF HarrisOpt!Return, Return, HarrisOpt!NoLocals, NoLocals, HarrisOpt!Returns, Returns
<1>2. \A r : HarrisOpt!Answer(t, r) => Answer(t, r)
  BY <1>1 DEF HarrisOpt!Answer, Answer
<1>3. \A p, n : HarrisOpt!Publish(t, p, n) => Publish(t, p, n)
  BY DEF HarrisOpt!Publish, Publish, HarrisOpt!Fresh, Fresh, HarrisOpt!Nodes, Nodes, HarrisOpt!Min, Min,
         HarrisOpt!TakesEffect, TakesEffect, HarrisOpt!Abs!Observe, Abs!Observe
<1>4. \A f : HarrisOpt!SetNodes(f) => SetNodes(f)
  BY DEF HarrisOpt!SetNodes, SetNodes
<1>5. \A f, S : HarrisOpt!SetNodesAndRelease(f, S) => SetNodesAndRelease(f, S)
  BY DEF HarrisOpt!SetNodesAndRelease, SetNodesAndRelease, HarrisOpt!Nodes, Nodes
<1>6. \A v, r : HarrisOpt!TakesEffect(t, v, r) => TakesEffect(t, v, r)
  BY DEF HarrisOpt!TakesEffect, TakesEffect, HarrisOpt!Abs!Observe, Abs!Observe
<1>7. \A k, v, n : HarrisOpt!ll_simple(k, v, n) = ll_simple(k, v, n)
  BY DEF HarrisOpt!ll_simple, ll_simple
<1>8. HarrisOpt!Restart(t) => Restart(t)
  BY DEF HarrisOpt!Restart, Restart, HarrisOpt!AtHead, AtHead, HarrisOpt!NoLocals, NoLocals,
         HarrisOpt!Sentinels, Sentinels, HarrisOpt!min, min
<1>9. \A n, x : HarrisOpt!Holds(n, x) <=> node[n].next = x /\ ~node[n].marked
  BY DEF HarrisOpt!Holds
<1>10. QED BY <1>1, <1>2, <1>3, <1>4, <1>5, <1>6, <1>7, <1>8, <1>9

\* The CAS of physical_delete_right, or its failure.
HarrisDeletes(t) ==
  \/ /\ node[Pred(t)].next = Curr(t) /\ ~node[Pred(t)].marked
     /\ SetNodesAndRelease([node EXCEPT ![Pred(t)].next = node[Curr(t)].next], {Curr(t)})
  \/ UNCHANGED heap

\* One step of Harris' list, by what it does.
HarrisSteps(t) ==
  \/ SearchNext(t) \/ SearchMark(t)
  \/ HarrisStarts(t) \/ HarrisSees(t) \/ HarrisAdvances(t)
  \/ Goto(t, "delete", "next") /\ UNCHANGED loc /\ UNCHANGED hist /\ HarrisDeletes(t)
  \/ /\ pc[t] = "found"
     /\ \/ call[t].op = "insert" /\ KeyOf(t) = Key(t)
        \/ call[t].op = "remove" /\ KeyOf(t) # Key(t)
     /\ Answer(t, 0)
  \/ pc[t] \in {"found", "r_mark"} /\ Restart(t) /\ UNCHANGED heap /\ UNCHANGED hist
  \/ /\ pc[t] = "found" /\ call[t].op = "insert" /\ KeyOf(t) # Key(t)
     /\ node[Pred(t)].next = Curr(t) /\ ~node[Pred(t)].marked
     /\ Publish(t, Pred(t), ll_simple(Key(t), call[t].val, Curr(t)))
     /\ pc' = [pc EXCEPT ![t] = "i_return"] /\ UNCHANGED loc
  \/ pc[t] = "i_return" /\ Answer(t, 1)
  \/ HarrisReadsNext(t)
  \/ /\ pc[t] = "r_mark" /\ ~node[Curr(t)].marked
     /\ SetNodes([node EXCEPT ![Curr(t)].marked = TRUE])
     /\ TakesEffect(t, None, node[Curr(t)].val)
     /\ pc' = [pc EXCEPT ![t] = "r_delete"] /\ UNCHANGED loc
  \/ pc[t] = "r_delete" /\ Return(t, node[Curr(t)].val) /\ HarrisDeletes(t)

LEMMA HarrisOptIsSteps ==
  ASSUME NEW L, HarrisOptOK(L), NEW t \in Threads, HarrisOpt!Step(t)
  PROVE  HarrisSteps(t)
<1> USE DEF HarrisOpt!KeyOf, KeyOf, HarrisOpt!Curr, Curr, HarrisOpt!Pred, Pred, HarrisOpt!Key, Key,
            HarrisOpt!addr, addr, HarrisOpt!hash, hash, HarrisOpt!heap, heap, HarrisOpt!hist, hist,
            HarrisOpt!Goto, Goto, HarrisOpt!NULL, NULL, HarrisOpt!None, None, HarrisOpt!Abs!None, Abs!None
<1>1. HarrisOpt!search(t) => SearchNext(t) \/ SearchMark(t)
  BY HarrisOptShared DEF HarrisOpt!search, HarrisOpt!SearchNext, SearchNext, HarrisOpt!SearchMark, SearchMark,
     HarrisOpt!Val, Val
<1>2. HarrisOpt!Start(t) => HarrisStarts(t)
  BY DEF HarrisOpt!Start, HarrisStarts
<1>3. HarrisOpt!Mark(t) => HarrisSees(t)
  BY DEF HarrisOpt!Mark, HarrisSees
<1>4. HarrisOpt!Advance(t) => HarrisAdvances(t)
  BY DEF HarrisOpt!Advance, HarrisAdvances
<1>5. HarrisOpt!physical_delete_right(t) => HarrisDeletes(t)
  BY HarrisOptShared DEF HarrisOpt!physical_delete_right, HarrisDeletes
<1>6. HarrisOpt!Cleanup(t) => HarrisSteps(t)
  BY <1>5 DEF HarrisOpt!Cleanup, HarrisSteps
<1>7. HarrisOpt!Fail(t) => HarrisSteps(t)
  <2>1. pc[t] = "found" => call[t].op \in {"insert", "remove"}
    BY HarrisHere DEF HarrisOptThread
  <2>2. HarrisOpt!Fail(t) => /\ pc[t] = "found" /\ Answer(t, 0)
                             /\ KeyOf(t) = Key(t) <=> call[t].op = "insert"
    BY HarrisOptShared DEF HarrisOpt!Fail
  <2>3. QED BY <2>1, <2>2 DEF HarrisSteps
<1>8. HarrisOpt!InsertCas(t) => HarrisSteps(t)
  <2>1. SUFFICES ASSUME HarrisOpt!InsertCas(t) PROVE HarrisSteps(t)
    OBVIOUS
  <2>2. pc[t] = "found" /\ call[t].op = "insert" /\ KeyOf(t) # Key(t)
    BY <2>1 DEF HarrisOpt!InsertCas
  <2>3. CASE HarrisOpt!Holds(Pred(t), Curr(t))
    <3>1. /\ HarrisOpt!Publish(t, Pred(t), HarrisOpt!ll_simple(Key(t), call[t].val, Curr(t)))
          /\ pc' = [pc EXCEPT ![t] = "i_return"] /\ UNCHANGED loc
      BY <2>1, <2>3 DEF HarrisOpt!InsertCas
    <3>2. Publish(t, Pred(t), ll_simple(Key(t), call[t].val, Curr(t)))
      BY <3>1, HarrisOptShared
    <3>3. node[Pred(t)].next = Curr(t) /\ ~node[Pred(t)].marked
      BY <2>3 DEF HarrisOpt!Holds
    <3>4. QED BY <2>2, <3>1, <3>2, <3>3 DEF HarrisSteps
  <2>4. CASE ~HarrisOpt!Holds(Pred(t), Curr(t))
    <3>1. Restart(t) /\ UNCHANGED heap /\ UNCHANGED hist
      BY <2>1, <2>4, HarrisOptShared DEF HarrisOpt!InsertCas
    <3>2. QED BY <2>2, <3>1 DEF HarrisSteps
  <2>5. QED BY <2>3, <2>4
<1>9. HarrisOpt!InsertReturn(t) => HarrisSteps(t)
  BY HarrisOptShared DEF HarrisOpt!InsertReturn, HarrisSteps
<1>10. HarrisOpt!RemoveNext(t) => HarrisReadsNext(t)
  BY DEF HarrisOpt!RemoveNext, HarrisReadsNext
<1>11. HarrisOpt!RemoveMark(t) => HarrisSteps(t)
  BY HarrisOptShared DEF HarrisOpt!RemoveMark, HarrisSteps
<1>12. HarrisOpt!RemoveDelete(t) => HarrisSteps(t)
  BY <1>5, HarrisOptShared DEF HarrisOpt!RemoveDelete, HarrisSteps
<1>13. QED
  BY <1>1, <1>2, <1>3, <1>4, <1>6, <1>7, <1>8, <1>9, <1>10, <1>11, <1>12
  DEF HarrisOpt!Step, HarrisOpt!list_search, HarrisOpt!insert, HarrisOpt!remove, HarrisSteps

LEMMA HarrisOptKeeps ==
  ASSUME NEW L, Core(L), HarrisOptOK(L), NEW t \in Threads, HarrisOpt!Step(t)
  PROVE  \E L2 : Good(L2) /\ HarrisOptOK(L2)'
BY HarrisOptIsSteps, HarrisSearchNext, HarrisSearchMark, HarrisStart, HarrisSee, HarrisAdvance, HarrisCleanup,
   HarrisFail, HarrisRestart, HarrisLink, HarrisReturn, HarrisReadNext, HarrisMark, HarrisRemoved
DEF HarrisSteps, HarrisDeletes

LEMMA HarrisOptInit ==
  ASSUME HarrisOpt!Init
  PROVE  is("LinkedListHarrisOpt") /\ ListInit(ll_simple(0, None, NULL))
BY DEF HarrisOpt!Init, HarrisOpt!is, is, HarrisOpt!ListInit, ListInit, HarrisOpt!Nodes, Nodes, HarrisOpt!Buckets, Buckets,
       HarrisOpt!min, min, HarrisOpt!max, max, HarrisOpt!MaxKey, MaxKey, HarrisOpt!Max, Max, HarrisOpt!Sentinels, Sentinels,
       HarrisOpt!NoLocals, NoLocals, HarrisOpt!NULL, NULL, HarrisOpt!None, None, HarrisOpt!HistInit, HistInit,
       HarrisOpt!Abs!Init, Abs!Init, HarrisOpt!Abs!None, Abs!None, HarrisOpt!Abs!NoCall, Abs!NoCall,
       HarrisOpt!Abs!Pending, Abs!Pending, HarrisOpt!ll_simple, ll_simple

LEMMA HarrisOptLength == HarrisOpt!length = Cardinality({n \in Reachable : ~node[n].marked})
<1>1. HarrisOpt!Reachable = Reachable
  BY DEF HarrisOpt!Reachable, Reachable, HarrisOpt!From, From, HarrisOpt!Buckets, Buckets, HarrisOpt!min, min,
         HarrisOpt!Sentinels, Sentinels, HarrisOpt!NULL, NULL
<1>2. \A S : HarrisOpt!Cardinality(S) = Cardinality(S)
  BY DEF HarrisOpt!Cardinality, Cardinality
<1>3. QED BY <1>1, <1>2 DEF HarrisOpt!length

-----------------------------------------------------------------------------
(* The structures.                                                         *)

LEMMA Structures ==
  ASSUME Init, set.list \in SortedLists
  PROVE  /\ set.buckets \in Nat \ {0} /\ set.nodes \in Nat /\ 2 * set.buckets <= set.nodes
         /\ set.calls \subseteq Ops \X Keys
<1>1. set.list # "HashtableJava"
  BY DEF SortedLists
<1>2. PICK s \in DOMAIN Bound, b \in {1, HtLength} :
        \E l : set = [name |-> s, list |-> l, buckets |-> b, calls |-> Bound[s].calls,
                      nodes |-> Bound[s].nodes + IF l = "HashtableJava" THEN 0 ELSE 2 * b]
  BY DEF Init, Structure
<1>3. /\ set.buckets = b /\ set.calls = Bound[s].calls /\ set.nodes = Bound[s].nodes + 2 * b
  BY <1>1, <1>2
<1>4. b \in Nat \ {0} /\ Bound[s].nodes \in Nat /\ Bound[s].calls \subseteq Ops \X Keys
  BY SortedListAssumption
<1>5. QED BY <1>3, <1>4

\* One step of any of the lists.
LEMMA OneStep ==
  ASSUME NEW L, Inv(L), NEW t \in Threads, Step(t)
  PROVE  \E L2 : Good(L2) /\ Inv(L2)'
<1>1. Core(L) /\ set.list \in SortedLists
  BY DEF Inv, Core, HeapOK
<1>2. CASE is("LinkedListOptikGL")
  <2>1. OptikGL!Step(t) /\ OptikGLOK(L)
    BY <1>2 DEF Step, is, Inv
  <2>2. PICK L2 : Good(L2) /\ OptikGLOK(L2)'
    BY <1>1, <2>1, OptikGLKeeps
  <2>3. Inv(L2)'
    BY <1>2, <2>2 DEF Inv, Good, is
  <2>4. QED BY <2>2, <2>3
<1>3. CASE is("LinkedListSeq")
  <2>1. Single!Step(t) /\ SeqOK(L)
    BY <1>3 DEF Step, is, Inv
  <2>2. PICK L2 : Good(L2) /\ SeqOK(L2)'
    BY <1>1, <2>1, SingleKeeps
  <2>3. Inv(L2)'
    BY <1>3, <2>2 DEF Inv, Good, is
  <2>4. QED BY <2>2, <2>3
<1>4. CASE is("LinkedListLazy")
  <2>1. Lazy!Step(t) /\ LazyOK(L)
    BY <1>4 DEF Step, is, Inv
  <2>2. PICK L2 : Good(L2) /\ LazyOK(L2)'
    BY <1>1, <2>1, LazyKeeps
  <2>3. Inv(L2)'
    BY <1>4, <2>2 DEF Inv, Good, is
  <2>4. QED BY <2>2, <2>3
<1>5. CASE is("LinkedListHarrisOpt")
  <2>1. HarrisOpt!Step(t) /\ HarrisOptOK(L)
    BY <1>5 DEF Step, is, Inv
  <2>2. PICK L2 : Good(L2) /\ HarrisOptOK(L2)'
    BY <1>1, <2>1, HarrisOptKeeps
  <2>3. Inv(L2)'
    BY <1>5, <2>2 DEF Inv, Good, is
  <2>4. QED BY <2>2, <2>3
<1>6. CASE is("LinkedListCoupling")
  <2>1. Coupling!Step(t) /\ CouplingOK(L)
    BY <1>6 DEF Step, is, Inv
  <2>2. PICK L2 : Good(L2) /\ CouplingOK(L2)'
    BY <1>1, <2>1, CouplingKeeps
  <2>3. Inv(L2)'
    BY <1>6, <2>2 DEF Inv, Good, is
  <2>4. QED BY <2>2, <2>3
<1>7. CASE is("LinkedListOptik")
  <2>1. Optik!Step(t) /\ OptikOK(L)
    BY <1>7 DEF Step, is, Inv
  <2>2. PICK L2 : Good(L2) /\ OptikOK(L2)'
    BY <1>1, <2>1, OptikKeeps
  <2>3. Inv(L2)'
    BY <1>7, <2>2 DEF Inv, Good, is
  <2>4. QED BY <2>2, <2>3
<1>8. QED BY <1>1, <1>2, <1>3, <1>4, <1>5, <1>6, <1>7 DEF SortedLists, is

LEMMA OneCall ==
  ASSUME NEW L, Inv(L), NEW t \in Threads, NEW c \in Calls, Invoke(t, c)
  PROVE  \E L2 : Good(L2) /\ Inv(L2)'
<1>1. Core(L) /\ set.list \in SortedLists
  BY DEF Inv, Core, HeapOK
<1>2. CASE is("LinkedListOptikGL")
  <2>1. PICK L2 : Good(L2) /\ OptikGLOK(L2)'
    BY <1>1, <1>2, GLInvoke DEF Inv
  <2>2. QED BY <1>2, <2>1 DEF Inv, Good, is
<1>3. CASE is("LinkedListSeq")
  <2>1. PICK L2 : Good(L2) /\ SeqOK(L2)'
    BY <1>1, <1>3, SeqInvoke DEF Inv
  <2>2. QED BY <1>3, <2>1 DEF Inv, Good, is
<1>4. CASE is("LinkedListLazy")
  <2>1. PICK L2 : Good(L2) /\ LazyOK(L2)'
    BY <1>1, <1>4, LazyInvoke DEF Inv
  <2>2. QED BY <1>4, <2>1 DEF Inv, Good, is
<1>5. CASE is("LinkedListHarrisOpt")
  <2>1. PICK L2 : Good(L2) /\ HarrisOptOK(L2)'
    BY <1>1, <1>5, HarrisInvoke DEF Inv
  <2>2. QED BY <1>5, <2>1 DEF Inv, Good, is
<1>6. CASE is("LinkedListCoupling")
  <2>1. PICK L2 : Good(L2) /\ CouplingOK(L2)'
    BY <1>1, <1>6, CouplingInvoke DEF Inv
  <2>2. QED BY <1>6, <2>1 DEF Inv, Good, is
<1>7. CASE is("LinkedListOptik")
  <2>1. PICK L2 : Good(L2) /\ OptikOK(L2)'
    BY <1>1, <1>7, OptikInvoke DEF Inv
  <2>2. QED BY <1>7, <2>1 DEF Inv, Good, is
<1>8. QED BY <1>1, <1>2, <1>3, <1>4, <1>5, <1>6, <1>7 DEF SortedLists, is

LEMMA NoStep ==
  ASSUME NEW L, Inv(L), UNCHANGED vars
  PROVE  Good(L) /\ Inv(L)'
<1>1. Core(L) /\ set.list \in SortedLists
  BY DEF Inv, Core, HeapOK
<1>2. CASE is("LinkedListOptikGL")
  <2>1. Good(L) /\ OptikGLOK(L)'
    BY <1>1, <1>2, GLStutter DEF Inv
  <2>2. QED BY <1>2, <2>1 DEF Inv, Good, is
<1>3. CASE is("LinkedListSeq")
  <2>1. Good(L) /\ SeqOK(L)'
    BY <1>1, <1>3, SeqStutter DEF Inv
  <2>2. QED BY <1>3, <2>1 DEF Inv, Good, is
<1>4. CASE is("LinkedListLazy")
  <2>1. Good(L) /\ LazyOK(L)'
    BY <1>1, <1>4, LazyStutter DEF Inv
  <2>2. QED BY <1>4, <2>1 DEF Inv, Good, is
<1>5. CASE is("LinkedListHarrisOpt")
  <2>1. Good(L) /\ HarrisOptOK(L)'
    BY <1>1, <1>5, HarrisStutter DEF Inv
  <2>2. QED BY <1>5, <2>1 DEF Inv, Good, is
<1>6. CASE is("LinkedListCoupling")
  <2>1. Good(L) /\ CouplingOK(L)'
    BY <1>1, <1>6, CouplingStutter DEF Inv
  <2>2. QED BY <1>6, <2>1 DEF Inv, Good, is
<1>7. CASE is("LinkedListOptik")
  <2>1. Good(L) /\ OptikOK(L)'
    BY <1>1, <1>7, OptikStutter DEF Inv
  <2>2. QED BY <1>7, <2>1 DEF Inv, Good, is
<1>8. QED BY <1>1, <1>2, <1>3, <1>4, <1>5, <1>6, <1>7 DEF SortedLists, is

-----------------------------------------------------------------------------
(* The theorems.                                                           *)

\* The inductive invariant.
IInv == CountOK /\ \E L : Inv(L)

\* What a step does, for the action properties.
StepOK == Lin /\ Frozen

\* A node as the constructors allocate it.
NewSentinel(new) ==
  new \in NodeSet /\ new.key = 0 /\ new.val = None /\ new.next = NULL /\ ~new.marked

\* The state that the constructors leave.
NoThread(new) ==
  /\ \A n \in Nodes : ~node[n].marked /\ node[n].lock = new.lock
  /\ \A t \in Threads : pc[t] = "idle"
  /\ \A L : \A n \in used : Live(L, n)

LEMMA ListsInit ==
  ASSUME NEW new, NewSentinel(new), ListInit(new), set.list \in SortedLists,
         set.buckets \in Nat \ {0}, set.nodes \in Nat, 2 * set.buckets <= set.nodes,
         set.calls \subseteq Ops \X Keys
  PROVE  \E L : Core(L) /\ NoThread(new) /\ Abs!Init
<1>1. /\ \E L : Core(L)
      /\ \A n \in Nodes : ~node[n].marked
      /\ \A t \in Threads : pc[t] = "idle"
      /\ Abs!Init
  BY InitCore DEF NewSentinel
<1>2. \A n \in Nodes : node[n].lock = new.lock
  BY DEF ListInit, NewSentinel, NodeSet
<1>3. \A L : \A n \in used : Live(L, n)
  BY DEF ListInit, Live
<1>4. QED BY <1>1, <1>2, <1>3 DEF NoThread

LEMMA InitHolds == Init /\ set.list \in SortedLists => IInv /\ Abs!Init
<1>1. SUFFICES ASSUME Init, set.list \in SortedLists PROVE IInv /\ Abs!Init
  OBVIOUS
<1>2. /\ set.buckets \in Nat \ {0} /\ set.nodes \in Nat /\ 2 * set.buckets <= set.nodes
      /\ set.calls \subseteq Ops \X Keys
  BY <1>1, Structures
<1>3. CASE OptikGL!Init
  <2>1. PICK new : new = ll_simple(0, None, NULL)
    OBVIOUS
  <2>2. NewSentinel(new) /\ ListInit(new) /\ is("LinkedListOptikGL")
    BY <1>3, <2>1, OptikGLInit DEF NewSentinel, ll_simple, NodeSet, None, Abs!None
  <2>3. PICK L : Core(L) /\ NoThread(new) /\ Abs!Init
    BY <1>1, <1>2, <2>2, ListsInit
  <2>4. OptikGLOK(L)
    BY <2>3 DEF NoThread, OptikGLOK, Unmarked, OptikGLAlone, OptikGLThread, GLHolds
  <2>5. QED
    BY <2>2, <2>3, <2>4, CountInit DEF IInv, Inv, ListInit, HistInit, is
<1>4. CASE Single!Init
  <2>1. PICK new : new = ll_simple(0, None, NULL)
    OBVIOUS
  <2>2. NewSentinel(new) /\ ListInit(new) /\ is("LinkedListSeq")
    BY <1>4, <2>1, SingleInit DEF NewSentinel, ll_simple, NodeSet, None, Abs!None
  <2>3. PICK L : Core(L) /\ NoThread(new) /\ Abs!Init
    BY <1>1, <1>2, <2>2, ListsInit
  <2>4. SeqOK(L)
    BY <2>3 DEF NoThread, SeqOK, Unmarked, SeqAlone, SeqThread
  <2>5. QED
    BY <2>2, <2>3, <2>4, CountInit DEF IInv, Inv, ListInit, HistInit, is
<1>5. CASE Lazy!Init
  <2>1. PICK new : new = ll_marked(0, None, NULL)
    OBVIOUS
  <2>2. NewSentinel(new) /\ ListInit(new) /\ is("LinkedListLazy") /\ new.lock = TAS_FREE
    BY <1>5, <2>1, LazyInit DEF NewSentinel, ll_marked, ll_simple, NodeSet, None, Abs!None, TAS_FREE
  <2>3. PICK L : Core(L) /\ NoThread(new) /\ Abs!Init
    BY <1>1, <1>2, <2>2, ListsInit
  <2>4. LazyOK(L)
    <3>1. LazyMarks(L) /\ TasLocks
      <4>1. used \subseteq Nodes
        BY <2>3 DEF Core, HeapOK
      <4>2. QED BY <2>2, <2>3, <4>1 DEF NoThread, LazyMarks, TasLocks
    <3>2. \A t \in Threads : LazyOwns(t) = {}
      BY <2>3 DEF NoThread, LazyOwns, Owns, LazyPred, LazyCurr
    <3>3. QED BY <2>3, <3>1, <3>2 DEF NoThread, LazyOK, Exclusive, LazyOwns, LazyThread, LazyPred
  <2>5. QED
    BY <2>2, <2>3, <2>4, CountInit DEF IInv, Inv, ListInit, HistInit, is
<1>6. CASE HarrisOpt!Init
  <2>1. PICK new : new = ll_simple(0, None, NULL)
    OBVIOUS
  <2>2. NewSentinel(new) /\ ListInit(new) /\ is("LinkedListHarrisOpt")
    BY <1>6, <2>1, HarrisOptInit DEF NewSentinel, ll_simple, NodeSet, None, Abs!None
  <2>3. PICK L : Core(L) /\ NoThread(new) /\ Abs!Init
    BY <1>1, <1>2, <2>2, ListsInit
  <2>4. HarrisOptOK(L)
    BY <2>3 DEF NoThread, HarrisOptOK, HarrisMarks, HarrisOptThread
  <2>5. QED
    BY <2>2, <2>3, <2>4, CountInit DEF IInv, Inv, ListInit, HistInit, is
<1>7. CASE Coupling!Init
  <2>1. PICK new : new = ll_marked(0, None, NULL)
    OBVIOUS
  <2>2. NewSentinel(new) /\ ListInit(new) /\ is("LinkedListCoupling") /\ new.lock = TAS_FREE
    BY <1>7, <2>1, CouplingInit DEF NewSentinel, ll_marked, ll_simple, NodeSet, None, Abs!None, TAS_FREE
  <2>3. PICK L : Core(L) /\ NoThread(new) /\ Abs!Init
    BY <1>1, <1>2, <2>2, ListsInit
  <2>4. CouplingOK(L)
    <3>1. Unmarked /\ TasLocks
      BY <2>2, <2>3 DEF NoThread, Unmarked, TasLocks
    <3>2. \A t \in Threads : Owns(t, CouplingPred, CouplingCurr) = {}
      BY <2>3 DEF NoThread, Owns, CouplingPred, CouplingCurr
    <3>3. \A t \in Threads : Pred(t) = NULL
      BY <2>2 DEF ListInit, NoLocals, Pred
    <3>4. QED
      BY <2>3, <3>1, <3>2, <3>3 DEF NoThread, CouplingOK, Exclusive, CouplingThread, CouplingPred, CouplingCurr, Ops
  <2>5. QED
    BY <2>2, <2>3, <2>4, CountInit DEF IInv, Inv, ListInit, HistInit, is
<1>8. CASE Optik!Init
  <2>1. PICK new : new = ll_optik(0, None, NULL)
    OBVIOUS
  <2>2. NewSentinel(new) /\ ListInit(new) /\ is("LinkedListOptik")
    BY <1>8, <2>1, OptikInit DEF NewSentinel, ll_optik, ll_simple, NodeSet, None, Abs!None, OPTIK_INIT
  <2>3. PICK L : Core(L) /\ NoThread(new) /\ Abs!Init
    BY <1>1, <1>2, <2>2, ListsInit
  <2>4. OptikOK(L)
    <3>1. Unmarked /\ OptikFree(L)
      BY <2>3 DEF NoThread, Unmarked, OptikFree
    <3>2. \A t \in Threads : Owns(t, OptikPred, OptikCurr) = {}
      BY <2>3 DEF NoThread, Owns, OptikPred, OptikCurr
    <3>3. QED BY <2>3, <3>1, <3>2 DEF NoThread, OptikOK, Exclusive, OptikThread, OptikPred
  <2>5. QED
    BY <2>2, <2>3, <2>4, CountInit DEF IInv, Inv, ListInit, HistInit, is
<1>9. QED
  BY <1>1, <1>3, <1>4, <1>5, <1>6, <1>7, <1>8 DEF Init, SortedLists, Pugh!Init, Harris!Init,
     Copy!Init, Java!Init, Pugh!is, Harris!is, Copy!is, Java!is

LEMMA NextHolds == IInv /\ [Next]_vars => IInv' /\ StepOK
<1>1. SUFFICES ASSUME IInv, [Next]_vars PROVE IInv' /\ StepOK
  OBVIOUS
<1>2. PICK L : Inv(L)
  BY <1>1 DEF IInv
<1>3. \E L2 : Good(L2) /\ Inv(L2)'
  BY <1>1, <1>2, OneStep, OneCall, NoStep DEF Next
<1>4. PICK L2 : Good(L2) /\ Inv(L2)'
  BY <1>3
<1>5. CountOK'
  BY <1>1, <1>2, <1>4, CountKept DEF IInv, Inv, Good
<1>6. QED BY <1>4, <1>5 DEF IInv, StepOK, Good

LEMMA Invariance == Spec /\ set.list \in SortedLists => []IInv
BY InitHolds, NextHolds, PTL DEF Spec

\* Type correctness of the sorted lists: no thread ever gets hold of a node that nobody
\* has published, and pointers stay inside the heap.
THEOREM SortedListsTyped == Spec /\ set.list \in SortedLists => []TypeOK
<1>1. IInv => TypeOK
  BY CoreTypes DEF IInv, Inv, TypeOK
<1>2. QED BY <1>1, Invariance, PTL

\* A walk through one of the sorted lists, or a bucket of a table over them, finds the
\* keys and values that the calls so far have left there, each once and in order, and
\* no node that has been released.
THEOREM SortedListsHoldMap == Spec /\ set.list \in SortedLists => []MapIsList
<1>1. IInv => MapIsList
  <2>1. SUFFICES ASSUME NEW L, Inv(L) PROVE MapIsList
    BY DEF IInv
  <2>2. Core(L) /\ set.list \in SortedLists
    BY <2>1 DEF Inv, Core, HeapOK
  <2>3. ~is("LinkedListCopy") /\ ~is("HashtableJava")
    BY <2>2 DEF SortedLists, is
  <2>4. Linked = Reachable
    BY <2>3 DEF Linked
  <2>5. ASSUME NEW k \in Keys PROVE Found(Reachable, k) = map[k]
    BY <2>2, <2>3, FoundIsMap DEF Found
  <2>6. ASSUME NEW n \in Reachable
        PROVE  /\ freed[n] = 0 /\ node[n].key < node[node[n].next].key
               /\ \A m \in Reachable : node[n].key = node[m].key => m = n
    BY <2>2, ReachableOrder
  <2>7. QED BY <2>4, <2>5, <2>6 DEF MapIsList
<1>2. QED BY <1>1, Invariance, PTL

\* When no call is running, length() of a sorted list is the number of inserts minus
\* the number of removes that have succeeded.
THEOREM SortedListsCount == Spec /\ set.list \in SortedLists => []LengthMatchesReturns
<1>1. IInv => LengthMatchesReturns
  <2>1. SUFFICES ASSUME NEW L, Inv(L), CountOK, \A t \in Threads : pc[t] = "idle" PROVE length = pr
    BY DEF IInv, LengthMatchesReturns
  <2>2. Core(L) /\ set.list \in SortedLists
    BY <2>1 DEF Inv, Core, HeapOK
  <2>3. Cardinality({n \in Reachable : ~node[n].marked}) = pr
    BY <2>1, <2>2, LengthIsCount
  <2>4. CASE is("LinkedListOptikGL")
    <3>1. Reachable = {n \in Reachable : ~node[n].marked}
      BY <2>1, <2>2, <2>4, ReachableOrder, HeapFacts DEF Inv, OptikGLOK, Unmarked, HeapProps, Core
    <3>2. length = Cardinality(Reachable)
      BY <2>4, OptikGLLength DEF length, is
    <3>3. QED BY <2>3, <3>1, <3>2
  <2>5. CASE is("LinkedListSeq")
    <3>1. Reachable = {n \in Reachable : ~node[n].marked}
      BY <2>1, <2>2, <2>5, ReachableOrder, HeapFacts DEF Inv, SeqOK, Unmarked, HeapProps, Core
    <3>2. length = Cardinality(Reachable)
      BY <2>5, SingleLength DEF length, is
    <3>3. QED BY <2>3, <3>1, <3>2
  <2>6. CASE is("LinkedListLazy")
    <3>1. ASSUME NEW n \in Reachable PROVE ~node[n].marked
      <4>1. n \in used /\ On(L, n)
        BY <2>2, ReachableIsOn
      <4>2. LazyMarks(L)
        BY <2>1, <2>6 DEF Inv, LazyOK
      <4>3. QED BY <2>1, <4>1, <4>2 DEF LazyMarks
    <3>2. Reachable = {n \in Reachable : ~node[n].marked}
      BY <3>1
    <3>3. length = Cardinality(Reachable)
      BY <2>6, LazyLength DEF length, is
    <3>4. QED BY <2>3, <3>2, <3>3
  <2>7. CASE is("LinkedListHarrisOpt")
    BY <2>3, <2>7, HarrisOptLength DEF length, is
  <2>8. CASE is("LinkedListCoupling")
    <3>1. Reachable = {n \in Reachable : ~node[n].marked}
      BY <2>1, <2>2, <2>8, ReachableOrder, HeapFacts DEF Inv, CouplingOK, Unmarked, HeapProps, Core
    <3>2. length = Cardinality(Reachable)
      BY <2>8, CouplingLength DEF length, is
    <3>3. QED BY <2>3, <3>1, <3>2
  <2>9. CASE is("LinkedListOptik")
    <3>1. Reachable = {n \in Reachable : ~node[n].marked}
      BY <2>1, <2>2, <2>9, ReachableOrder, HeapFacts DEF Inv, OptikOK, Unmarked, HeapProps, Core
    <3>2. length = Cardinality(Reachable)
      BY <2>9, OptikLength DEF length, is
    <3>3. QED BY <2>3, <3>1, <3>2
  <2>10. QED BY <2>2, <2>4, <2>5, <2>6, <2>7, <2>8, <2>9 DEF SortedLists, is
<1>2. QED BY <1>1, Invariance, PTL

\* A node of a sorted list is released once, after it has left the list.
THEOREM SortedListsReleaseSafely == Spec /\ set.list \in SortedLists => []ReleaseIsSafe
<1>1. IInv => ReleaseIsSafe
  <2>1. SUFFICES ASSUME NEW L, Inv(L) PROVE ReleaseIsSafe
    BY DEF IInv
  <2>2. Core(L) /\ set.list \in SortedLists
    BY <2>1 DEF Inv, Core, HeapOK
  <2>3. ~is("HashtableJava")
    BY <2>2 DEF SortedLists, is
  <2>4. Linked = Reachable
    BY <2>3 DEF Linked
  <2>5. \A n \in Nodes : freed[n] <= 1 /\ (freed[n] = 1 => n \notin Reachable)
    BY <2>2, ReleasedIsOff
  <2>6. ASSUME NEW n \in Nodes, freed[n] = 1, is("LinkedListCoupling"), NEW t \in Threads
        PROVE  n \notin {Pred(t), Curr(t)}
    <3>1. CouplingOK(L)
      BY <2>1, <2>6 DEF Inv
    <3>2. QED BY <2>2, <2>6, <3>1, CouplingReleased
  <2>7. QED BY <2>4, <2>5, <2>6 DEF ReleaseIsSafe
<1>2. QED BY <1>1, Invariance, PTL

\* No step changes the successor of a node of a sorted list that has been released.
THEOREM SortedListsFreeze == Spec /\ set.list \in SortedLists => RemovedIsFrozen
<1>1. IInv /\ [Next]_vars => [\A n \in Nodes : freed[n] > 0 => node'[n].next = node[n].next]_vars
  BY NextHolds DEF StepOK, Frozen
<1>2. QED BY <1>1, Invariance, PTL DEF RemovedIsFrozen, Spec

\* Every call to one of the sorted lists returns what an atomic map could have returned
\* at some moment of the call: the lists implement SearchSpec.
THEOREM SortedListsLinearizable == Spec /\ set.list \in SortedLists => Linearizable
<1>1. Init /\ set.list \in SortedLists => Abs!Init
  BY InitHolds
<1>2. IInv /\ [Next]_vars =>
        [UNCHANGED Abs!vars \/ Abs!Next \/ \E t \in Threads : Pugh!SpuriousMiss(t)]_<<Abs!vars>>
  BY NextHolds, LinIsAbs DEF StepOK
<1>3. QED BY <1>1, <1>2, Invariance, PTL DEF Linearizable, Spec
=============================================================================
