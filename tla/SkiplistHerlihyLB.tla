------------------------- MODULE SkiplistHerlihyLB -------------------------
(***************************************************************************)
(* SkiplistHerlihyLB (src/algorithms/skiplist_herlihy_lb.h): the optimistic *)
(* skip list of Herlihy, Lev, Luchangco and Shavit with a lock per node.   *)
(* An insert locks the predecessors of all its levels, validates them,     *)
(* links the node and sets fullylinked; a remove locks and marks the node  *)
(* first, then locks the predecessors, and starts over with the node still *)
(* locked if they do not validate.  Nodes are locked from the bottom level *)
(* up, so by falling keys.  gone is marked, linked is fullylinked, node the *)
(* node to remove, i the next level to lock, upto the levels locked so far. *)
(***************************************************************************)
EXTENDS SkipList

Init == is("SkiplistHerlihyLB") /\ SkipInit

length == Cardinality({n \in OnLevel(0) : node[n].linked /\ ~node[n].gone})

-----------------------------------------------------------------------------

\* optimistic_search: curr = pred->next[i]
FindNext(t) ==
  /\ pc[t] = "find"
  /\ LET curr == node[Pred(t)].next[lvl(t)] IN
       IF key(curr) < Key(t)
       THEN loc' = [loc EXCEPT ![t].pred = curr] /\ UNCHANGED pc
       ELSE /\ loc' = [loc EXCEPT ![t].curr = curr]
            /\ pc' = [pc EXCEPT ![t] = "find_mark"]
  /\ UNCHANGED <<heap, hist>>

\* A predecessor that is marked makes the search start over.
FindMark(t) ==
  /\ pc[t] = "find_mark"
  /\ \/ node[Pred(t)].gone /\ Restart(t)
     \/ ~node[Pred(t)].gone /\ Record(t, Pred(t), Curr(t), "find")
  /\ UNCHANGED <<heap, hist>>

optimistic_search(t) == FindNext(t) \/ FindMark(t)

\* The highest level on which the search has met the key, or -1.
found(t) == Max({-1} \cup {i \in Levels : key(loc[t].succs[i]) = Key(t)})
NodeFound(t) == loc[t].succs[found(t)]

\* The predecessor of level i is the one that has just been locked.
Holds(t, i) == i > 0 /\ loc[t].preds[i] = loc[t].preds[i - 1]

\* One more predecessor is locked, then the level is validated.
LockLevel(t) ==
  /\ pc[t] = "lock"
  /\ LET i == loc[t].i
         pred == loc[t].preds[i]
     IN  \/ /\ Holds(t, i)
            /\ UNCHANGED heap
         \/ /\ ~Holds(t, i)
            /\ tas_lock_passes(node[pred].lock)
            /\ SetNodes([node EXCEPT ![pred].lock = tas_locked(@)])
  /\ pc' = [pc EXCEPT ![t] = "valid"]
  /\ UNCHANGED <<loc, hist>>

\* unlock_levels, of the levels up to high.
unlock_levels(t, high, f) ==
  [n \in Nodes |-> IF n \in {loc[t].preds[i] : i \in 0..high}
                   THEN [f[n] EXCEPT !.lock = TAS_FREE] ELSE f[n]]

\* Mutated: does not look at the marks.
ValidNext(t, i) == node[loc[t].preds[i]].next[i] = loc[t].succs[i]

\* Only an insert minds a marked successor.
valid(t, i) ==
  /\ ~node[loc[t].preds[i]].gone
  /\ call[t].op = "insert" => ~node[loc[t].succs[i]].gone
  /\ node[loc[t].preds[i]].next[i] = loc[t].succs[i]

Height(t) == IF call[t].op = "insert" THEN loc[t].top ELSE node[loc[t].node].top

Validate(t) ==
  /\ pc[t] = "valid"
  /\ LET i == loc[t].i IN
       \/ /\ ~valid(t, i)
          /\ SetNodes(unlock_levels(t, i, node))
          /\ Restart(t)
       \/ /\ valid(t, i)
          /\ loc' = [loc EXCEPT ![t].i = IF i + 1 < Height(t) THEN i + 1 ELSE 0]
          /\ pc' = [pc EXCEPT ![t] = IF i + 1 < Height(t) THEN "lock" ELSE "change"]
          /\ UNCHANGED heap
  /\ UNCHANGED hist

-----------------------------------------------------------------------------

\* The node may be marked, not yet fully linked, or in the list.
SearchMarked(t) ==
  /\ pc[t] = "s_test"
  /\ \/ node[Curr(t)].gone /\ Answer(t, 0)
     \/ ~node[Curr(t)].gone /\ Decide(t, "s_test", "s_linked")

SearchLinked(t) ==
  /\ pc[t] = "s_linked"
  /\ Answer(t, IF node[Curr(t)].linked THEN node[Curr(t)].val ELSE 0)

search(t) == SearchNext(t) \/ SearchMarked(t) \/ SearchLinked(t)

\* insert finds the key: it starts over if the node is marked, and otherwise
\* waits until the node is fully linked.
InsertFound(t) ==
  /\ pc[t] = "found"
  /\ call[t].op = "insert"
  /\ \/ found(t) = -1 /\ Decide(t, "found", "lock")
     \/ /\ found(t) # -1
        /\ \/ node[NodeFound(t)].gone /\ Restart(t)
           \/ /\ ~node[NodeFound(t)].gone
              /\ pc' = [pc EXCEPT ![t] = "wait"]
              /\ UNCHANGED loc
        /\ UNCHANGED <<heap, hist>>

InsertWait(t) == pc[t] = "wait" /\ node[NodeFound(t)].linked /\ Answer(t, 0)

\* preds[i]->next[i] = new_node, one level after the other.
InsertLink(t) ==
  /\ pc[t] = "change"
  /\ call[t].op = "insert"
  /\ LET i   == loc[t].i
         new == IF i = 0 THEN Min(Fresh) ELSE loc[t].node
     IN  /\ node' = [node EXCEPT ![new] = IF i = 0 THEN Allocated(t, loc[t].succs) ELSE @,
                                 ![loc[t].preds[i]].next[i] = new]
         /\ used' = used \cup {new}
         /\ loc' = [loc EXCEPT ![t].node = new, ![t].i = i + 1]
         /\ pc' = [pc EXCEPT ![t] = IF i + 1 < loc[t].top THEN "change" ELSE "i_linked"]
  /\ UNCHANGED <<set, freed, hist>>

\* new_node->fullylinked = 1: the insert takes effect.
InsertLinked(t) ==
  /\ Goto(t, "i_linked", "i_unlock")
  /\ SetNodes([node EXCEPT ![loc[t].node].linked = TRUE])
  /\ TakesEffect(t, call[t].val, 1)
  /\ UNCHANGED loc

InsertUnlock(t) ==
  /\ pc[t] = "i_unlock"
  /\ SetNodes(unlock_levels(t, loc[t].top - 1, node))
  /\ Return(t, 1)

insert(t) ==
  InsertFound(t) \/ InsertWait(t) \/ InsertLink(t) \/ InsertLinked(t) \/ InsertUnlock(t)

-----------------------------------------------------------------------------

\* ok_to_delete: fully linked, found on its top level, and not marked.
RemoveFound(t) ==
  /\ pc[t] = "found"
  /\ call[t].op = "remove"
  /\ \/ loc[t].mine /\ Decide(t, "found", "lock")
     \/ /\ ~loc[t].mine
        /\ \/ found(t) = -1 /\ Answer(t, 0)
           \/ /\ found(t) # -1
              /\ IF node[NodeFound(t)].linked /\ node[NodeFound(t)].top - 1 = found(t)
                 THEN Decide(t, "found", "r_ok")
                 ELSE Answer(t, 0)

RemoveOk(t) ==
  /\ pc[t] = "r_ok"
  /\ IF node[NodeFound(t)].gone THEN Answer(t, 0) ELSE Decide(t, "r_ok", "r_lock")

RemoveLock(t) ==
  /\ Goto(t, "r_lock", "r_mark")
  /\ tas_lock_passes(node[NodeFound(t)].lock)
  /\ SetNodes([node EXCEPT ![NodeFound(t)].lock = tas_locked(@)])
  /\ loc' = [loc EXCEPT ![t].node = NodeFound(t)]
  /\ UNCHANGED hist

\* node_to_remove->marked = 1: the remove takes effect, unless it comes too late.
RemoveMark(t) ==
  /\ pc[t] = "r_mark"
  /\ LET n == loc[t].node IN
       \/ /\ node[n].gone
          /\ SetNodes([node EXCEPT ![n].lock = TAS_FREE])
          /\ Return(t, 0)
       \/ /\ ~node[n].gone
          /\ SetNodes([node EXCEPT ![n].gone = TRUE])
          /\ TakesEffect(t, None, node[n].val)
          /\ loc' = [loc EXCEPT ![t].mine = TRUE]
          /\ pc' = [pc EXCEPT ![t] = "lock"]

\* preds[i]->next[i] = node_to_remove->next[i], from the top level down.
RemoveUnlink(t) ==
  /\ pc[t] = "change"
  /\ call[t].op = "remove"
  /\ LET n == loc[t].node
         i == node[n].top - 1 - loc[t].i
     IN  /\ SetNodes([node EXCEPT ![loc[t].preds[i]].next[i] = node[n].next[i]])
         /\ loc' = [loc EXCEPT ![t].i = @ + 1]
         /\ pc' = [pc EXCEPT ![t] = IF i = 0 THEN "r_unlock" ELSE "change"]
  /\ UNCHANGED hist

RemoveUnlock(t) ==
  /\ pc[t] = "r_unlock"
  /\ LET n == loc[t].node IN
       /\ SetNodesAndRelease([unlock_levels(t, node[n].top - 1, node) EXCEPT ![n].lock = TAS_FREE], n)
       /\ Return(t, node[n].val)

remove(t) ==
  RemoveFound(t) \/ RemoveOk(t) \/ RemoveLock(t) \/ RemoveMark(t) \/ RemoveUnlink(t)
    \/ RemoveUnlock(t)

Step(t) ==
  search(t) \/ optimistic_search(t) \/ LockLevel(t) \/ Validate(t) \/ insert(t) \/ remove(t)
=============================================================================
