---------------------------- MODULE SkiplistSeq ----------------------------
(***************************************************************************)
(* SkiplistSeq (src/algorithms/skiplist_seq.h): the skip list without any  *)
(* synchronization, for one thread at a time.                              *)
(***************************************************************************)
EXTENDS SkipList

Init == is("SkiplistSeq") /\ SkipInit

length == Cardinality({n \in OnLevel(0) : ~node[n].mark[0]})

\* One turn of the loops that all operations begin with.
Find(t) ==
  /\ pc[t] \in {"search", "find"}
  /\ LET next == node[Pred(t)].next[lvl(t)] IN
       IF key(next) < Key(t)
       THEN loc' = [loc EXCEPT ![t].pred = next] /\ UNCHANGED pc
       ELSE Record(t, Pred(t), next, "find")
  /\ UNCHANGED <<heap, hist>>

Hit(t) == key(loc[t].succs[0]) = Key(t)

search(t) ==
  /\ pc[t] = "found"
  /\ call[t].op = "search"
  /\ Answer(t, IF Hit(t) THEN node[loc[t].succs[0]].val ELSE 0)

insert(t) ==
  \/ pc[t] = "found" /\ call[t].op = "insert" /\ Hit(t) /\ Answer(t, 0)
  \/ /\ Goto(t, "found", "return")
     /\ call[t].op = "insert"
     /\ ~Hit(t)
     /\ LET new == Min(Fresh)
            low == 0..(loc[t].top - 1)
        IN  /\ node' = [n \in Nodes |->
                 CASE n = new -> Allocated(t, [i \in Levels |-> IF i \in low THEN loc[t].succs[i] ELSE NULL])
                   [] n # new -> [node[n] EXCEPT !.next = [i \in Levels |->
                                    IF i \in low /\ n = loc[t].preds[i] THEN new ELSE @[i]]]]
            /\ used' = used \cup {new}
     /\ TakesEffect(t, call[t].val, 1)
     /\ UNCHANGED <<set, freed, loc>>

remove(t) ==
  \/ pc[t] = "found" /\ call[t].op = "remove" /\ ~Hit(t) /\ Answer(t, 0)
  \/ /\ Goto(t, "found", "return")
     /\ call[t].op = "remove"
     /\ Hit(t)
     /\ LET del == loc[t].succs[0] IN
          /\ SetNodesAndRelease(
               [n \in Nodes |-> [node[n] EXCEPT !.next = [i \in Levels |->
                  IF n = loc[t].preds[i] /\ key(loc[t].succs[i]) = Key(t)
                  THEN node[del].next[i] ELSE @[i]]]], del)
          /\ TakesEffect(t, None, node[del].val)
     /\ UNCHANGED loc

Done(t) == pc[t] = "return" /\ Answer(t, lin[t])

Step(t) == Find(t) \/ search(t) \/ insert(t) \/ remove(t) \/ Done(t)
=============================================================================
