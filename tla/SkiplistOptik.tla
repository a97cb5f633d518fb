--------------------------- MODULE SkiplistOptik ---------------------------
(***************************************************************************)
(* SkiplistOptik (src/algorithms/skiplist_optik.h): a skip list with an    *)
(* OPTIK lock per node.  The search keeps the version of each predecessor. *)
(* An insert locks the predecessors from the bottom up, if their versions  *)
(* are still the same, and links the node on each level as soon as it has  *)
(* the lock; when it fails on a level it searches again and goes on from   *)
(* that level.  A remove first locks the node for ever (the deleted word), *)
(* then all its predecessors.  linked is state, upto inserted_upto, i the  *)
(* next level, node the new node, next node_found and cver its version.    *)
(***************************************************************************)
EXTENDS SkipList

Init == is("SkiplistOptik") /\ SkipInit

deleted(n) == optik_is_deleted(node[n].lock)

length == Cardinality({n \in OnLevel(0) : ~deleted(n)})

-----------------------------------------------------------------------------
(* sl_optik_search                                                         *)

FindHead(t) ==
  /\ Goto(t, "find", "find_next")
  /\ loc' = [loc EXCEPT ![t].pver = node[head].lock]
  /\ UNCHANGED <<heap, hist>>

\* curr = pred->next[i]
FindNext(t) ==
  /\ Goto(t, "find_next", "find_ver")
  /\ loc' = [loc EXCEPT ![t].curr = node[Pred(t)].next[lvl(t)]]
  /\ UNCHANGED <<heap, hist>>

\* The thread keeps what it has found on this level and goes down.
AtLevel(l, k, ver) ==
  LET hit == key(l.curr) = k
      low == [l EXCEPT !.preds[l.lvl] = l.pred, !.vers[l.lvl] = l.pver,
                       !.next = IF hit THEN l.curr ELSE @, !.cver = IF hit THEN ver ELSE @,
                       !.curr = NULL]
  IN  IF l.lvl = 0 THEN [low EXCEPT !.pred = NULL, !.pver = 0] ELSE [low EXCEPT !.lvl = @ - 1]

\* currv = curr->lock, and a step to the right or down; a predecessor that was
\* deleted makes the search start over.
FindVersion(t) ==
  /\ pc[t] = "find_ver"
  /\ LET ver == node[Curr(t)].lock IN
       \/ /\ key(Curr(t)) < Key(t)
          /\ pc' = [pc EXCEPT ![t] = "find_next"]
          /\ loc' = [loc EXCEPT ![t].pred = Curr(t), ![t].pver = ver]
       \/ /\ key(Curr(t)) >= Key(t)
          /\ optik_is_deleted(loc[t].pver)
          /\ Restart(t)
       \/ /\ key(Curr(t)) >= Key(t)
          /\ ~optik_is_deleted(loc[t].pver)
          /\ pc' = [pc EXCEPT ![t] = IF lvl(t) = 0 THEN "found" ELSE "find_next"]
          /\ loc' = [loc EXCEPT ![t] = AtLevel(loc[t], Key(t), ver)]
  /\ UNCHANGED <<heap, hist>>

sl_optik_search(t) == FindHead(t) \/ FindNext(t) \/ FindVersion(t)

\* The node with the key, as seen on the lowest level that had one, or NULL.
node_found(t) == loc[t].next

-----------------------------------------------------------------------------

\* optik_unlock leaves a version that nobody has read.  A call that fails to lock
\* all levels unlocks as well, and may do so for as long as another thread holds a
\* lock it needs.  Since versions are only compared, the least even one that no
\* thread remembers stands for the next one here, and 1 for the odd word of a held
\* lock, which fails to validate in any case: this keeps them finite.
Held == 1

Remembered ==
  UNION {{loc[u].pver, loc[u].cver} \cup Range(loc[u].vers) : u \in Threads}

FreshVersion ==
  Min({2 * v : v \in 0..((LevelMax + 2) * Cardinality(Threads))} \ Remembered)

\* unlock_levels_down, of the levels from low to high.
unlock_levels_down(t, low, high, f) ==
  [n \in Nodes |-> IF n \in {loc[t].preds[i] : i \in low..high}
                   THEN [f[n] EXCEPT !.lock = FreshVersion] ELSE f[n]]

\* The predecessor of level i has to be locked unless it is that of the level
\* below, which the call has just locked.
Holds(t, i, low) == i > low /\ loc[t].preds[i] = loc[t].preds[i - 1]

\* The locals of a call that goes on to lock the levels from low to below top.
Needs(l, low, top) ==
  [l EXCEPT !.i = low, !.cver = 0,
            !.preds = [i \in Levels |-> IF i \in low..(top - 1) THEN @[i] ELSE NULL],
            !.vers = [i \in Levels |-> IF i \in low..(top - 1) THEN @[i] ELSE 0]]

\* optik_trylock_version for the next level: the lock is taken, or all of them
\* are given back and the search starts over, with an insert on that level.  A
\* version is forgotten, as 0, when the call will not look at it again.
LockLevel(t) ==
  /\ pc[t] = "lock"
  /\ LET i == loc[t].i
         pred == loc[t].preds[i]
         low  == loc[t].upto
     IN  \/ /\ Holds(t, i, low)
            /\ pc' = [pc EXCEPT ![t] = "locked"]
            /\ loc' = [loc EXCEPT ![t].vers[i] = 0]
            /\ UNCHANGED heap
         \/ /\ ~Holds(t, i, low)
            /\ optik_trylock_version(node[pred].lock, loc[t].vers[i])
            /\ SetNodes([node EXCEPT ![pred].lock = Held])
            /\ pc' = [pc EXCEPT ![t] = "locked"]
            /\ loc' = [loc EXCEPT ![t].vers[i] = 0]
         \/ /\ ~Holds(t, i, low)
            /\ ~optik_trylock_version(node[pred].lock, loc[t].vers[i])
            /\ SetNodes(unlock_levels_down(t, low, i - 1, node))
            /\ pc' = [pc EXCEPT ![t] = "find"]
            /\ loc' = [loc EXCEPT ![t] =
                         [AtTop(@) EXCEPT !.upto = IF call[t].op = "insert" THEN i ELSE 0]]
  /\ UNCHANGED hist

-----------------------------------------------------------------------------

SearchDeleted(t) ==
  /\ pc[t] = "s_test"
  /\ Answer(t, IF deleted(Curr(t)) THEN 0 ELSE node[Curr(t)].val)

search(t) == SearchNext(t) \/ SearchDeleted(t)

\* The key is there before anything was linked: nothing to do, or wait until the
\* deleted node is gone.
InsertFound(t) ==
  /\ pc[t] = "found"
  /\ call[t].op = "insert"
  /\ \/ /\ node_found(t) = NULL \/ loc[t].upto > 0
        /\ pc' = [pc EXCEPT ![t] = "lock"]
        /\ loc' = [loc EXCEPT ![t] = Needs(@, loc[t].upto, loc[t].top)]
        /\ UNCHANGED <<heap, hist>>
     \/ /\ node_found(t) # NULL /\ loc[t].upto = 0
        /\ \/ deleted(node_found(t)) /\ Restart(t) /\ UNCHANGED <<heap, hist>>
           \/ ~deleted(node_found(t)) /\ Answer(t, 0)

\* A node that is not yet on any level: not valid, its lock free.
allocate_sl_locked_unlinked(t) == Allocated(t, NoNodes)

\* pred->next[i] = node_new; on level 0 the insert takes effect.
InsertLink(t) ==
  /\ pc[t] = "locked"
  /\ call[t].op = "insert"
  /\ LET i    == loc[t].i
         pred == loc[t].preds[i]
         new  == IF i = 0 THEN Min(Fresh) ELSE loc[t].node
         next == node[pred].next[i]
     IN  /\ node' = [node EXCEPT ![new] = [(IF i = 0 THEN allocate_sl_locked_unlinked(t) ELSE @)
                                          EXCEPT !.next[i] = next],
                                 ![pred].next[i] = new]
         /\ used' = used \cup {new}
         /\ loc' = [loc EXCEPT ![t].node = new, ![t].i = i + 1]
         /\ pc' = [pc EXCEPT ![t] = IF i + 1 < loc[t].top THEN "lock" ELSE "i_state"]
         /\ IF i = 0 THEN TakesEffect(t, call[t].val, 1) ELSE UNCHANGED hist
  /\ UNCHANGED <<set, freed>>

\* node_new->state = 1: from now on it can be removed.
InsertState(t) ==
  /\ Goto(t, "i_state", "i_unlock")
  /\ SetNodes([node EXCEPT ![loc[t].node].linked = TRUE])
  /\ UNCHANGED <<loc, hist>>

InsertUnlock(t) ==
  /\ pc[t] = "i_unlock"
  /\ SetNodes(unlock_levels_down(t, loc[t].upto, loc[t].top - 1, node))
  /\ Return(t, 1)

insert(t) == InsertFound(t) \/ InsertLink(t) \/ InsertState(t) \/ InsertUnlock(t)

-----------------------------------------------------------------------------

RemoveFound(t) ==
  /\ pc[t] = "found"
  /\ call[t].op = "remove"
  /\ \/ node_found(t) = NULL /\ Answer(t, 0)
     \/ /\ node_found(t) # NULL
        /\ \/ /\ loc[t].mine
              /\ Goto(t, "found", "lock")
              /\ loc' = [loc EXCEPT ![t] = Needs(@, 0, node[node_found(t)].top)]
              /\ UNCHANGED <<heap, hist>>
           \/ /\ ~loc[t].mine
              /\ IF deleted(node_found(t)) THEN Answer(t, 0) ELSE Decide(t, "found", "r_state")

\* A node that is still being inserted counts as absent.
RemoveState(t) ==
  /\ pc[t] = "r_state"
  /\ IF node[node_found(t)].linked THEN Decide(t, "r_state", "r_delete") ELSE Answer(t, 0)

\* optik_trylock_vdelete: the remove takes effect.
RemoveDelete(t) ==
  /\ Goto(t, "r_delete", "lock")
  /\ optik_trylock_version(node[node_found(t)].lock, loc[t].cver)
  /\ SetNodes([node EXCEPT ![node_found(t)].lock = OPTIK_DELETED])
  /\ TakesEffect(t, None, node[node_found(t)].val)
  /\ loc' = [loc EXCEPT ![t] = [Needs(@, 0, node[node_found(t)].top) EXCEPT !.mine = TRUE]]

RemoveDeleteFails(t) ==
  /\ Decide(t, "r_delete", "r_failed")
  /\ ~optik_trylock_version(node[node_found(t)].lock, loc[t].cver)

\* Somebody else deleted the node, or changed it.
RemoveFailed(t) ==
  /\ pc[t] = "r_failed"
  /\ \/ deleted(node_found(t)) /\ Answer(t, 0)
     \/ ~deleted(node_found(t)) /\ Restart(t) /\ UNCHANGED <<heap, hist>>

\* All levels are locked before the node is unlinked from the first.
RemoveLocked(t) ==
  /\ pc[t] = "locked"
  /\ call[t].op = "remove"
  /\ LET more == loc[t].i + 1 < node[node_found(t)].top IN
       /\ loc' = [loc EXCEPT ![t].i = IF more THEN @ + 1 ELSE 0]
       /\ pc' = [pc EXCEPT ![t] = IF more THEN "lock" ELSE "r_unlink"]
  /\ UNCHANGED <<heap, hist>>

\* preds[i]->next[i] = node_found->next[i]
RemoveUnlink(t) ==
  /\ pc[t] = "r_unlink"
  /\ LET i == loc[t].i
         n == node_found(t)
     IN  /\ SetNodes([node EXCEPT ![loc[t].preds[i]].next[i] = node[n].next[i]])
         /\ loc' = [loc EXCEPT ![t].i = i + 1]
         /\ pc' = [pc EXCEPT ![t] = IF i + 1 < node[n].top THEN "r_unlink" ELSE "r_unlock"]
  /\ UNCHANGED hist

RemoveUnlock(t) ==
  /\ pc[t] = "r_unlock"
  /\ LET n == node_found(t) IN
       /\ SetNodesAndRelease(unlock_levels_down(t, 0, node[n].top - 1, node), n)
       /\ Return(t, node[n].val)

remove(t) ==
  RemoveFound(t) \/ RemoveState(t) \/ RemoveDelete(t) \/ RemoveDeleteFails(t)
    \/ RemoveFailed(t) \/ RemoveLocked(t) \/ RemoveUnlink(t) \/ RemoveUnlock(t)

Step(t) == search(t) \/ sl_optik_search(t) \/ LockLevel(t) \/ insert(t) \/ remove(t)

\* The deviation from the atomic map: a search reports a node that is still being
\* inserted, and a remove does not.
SpuriousMiss(t) ==
  /\ is("SkiplistOptik")
  /\ pc[t] = "r_state"
  /\ \E u \in Threads \ {t} : call[u].op = "insert" /\ loc[u].node = node_found(t)
  /\ Answer(t, 0)
=============================================================================
