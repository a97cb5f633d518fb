------------------------------ MODULE SkipList ------------------------------
(***************************************************************************)
(* What the skip lists (src/algorithms/skiplist_*.h) have in common: nodes *)
(* that are linked on level 0 and, up to a random height, on the levels    *)
(* above, between two sentinels of full height.  An operation walks from   *)
(* the top level down and keeps, for every level, the last node before the *)
(* key and the first one after it (preds and succs).                       *)
(*                                                                         *)
(* Each skip list has a module of its own that extends this one; module    *)
(* SkipLists puts them together.  As with the lists, key, val and top of a *)
(* node do not change once it is published, each read or write of any      *)
(* other field is a step, and giving several locks back is one step with   *)
(* the return or restart that follows.                                     *)
(***************************************************************************)
EXTENDS SearchHistory, Optik, LockIf, FiniteSetsExt, Functions

CONSTANTS
  NumNodes,   \* how many nodes can be published before inserts stop
  LevelMax    \* levelmax

ASSUME SkipListAssumption == NumNodes \in Nat /\ LevelMax \in Nat \ {0}

VARIABLES
  set,     \* the name of the skip list
  node,    \* the nodes
  used,    \* the nodes that have been published
  freed,   \* how often each node has been handed to ssmem_free; none is given out again
  pc,
  loc      \* the local variables of each thread

heap == <<set, node, used, freed>>
vars == <<heap, pc, loc, hist>>

NULL == -1
head == 0
tail == 1
Nodes  == 0..(NumNodes + 1)
Levels == 0..(LevelMax - 1)
MaxKey == Max(Keys) + 1

\* A node as it is allocated: not marked or deleted, not yet valid or fully linked,
\* its lock free.  mark is the lowest bit of each next pointer.
NewNode(k, v, top, next) ==
  [key |-> k, val |-> v, top |-> top, next |-> next, mark |-> [i \in Levels |-> FALSE],
   gone |-> FALSE, linked |-> FALSE, lock |-> OPTIK_INIT]

NoNodes == [i \in Levels |-> NULL]

NoLocals ==
  [lvl |-> 0, pred |-> NULL, curr |-> NULL, next |-> NULL, mark |-> FALSE,
   preds |-> NoNodes, succs |-> NoNodes, vers |-> [i \in Levels |-> 0], pver |-> 0,
   cver |-> 0, node |-> NULL, top |-> 0, i |-> 0, upto |-> 0, mine |-> FALSE]

SkipInit ==
  /\ node = [n \in Nodes |->
               CASE n = head -> [NewNode(0, None, LevelMax, [i \in Levels |-> tail])
                                   EXCEPT !.linked = TRUE]
                 [] n = tail -> [NewNode(MaxKey, None, LevelMax, NoNodes) EXCEPT !.linked = TRUE]
                 [] OTHER -> NewNode(0, None, 0, NoNodes)]
  /\ used = {head, tail}
  /\ freed = [n \in Nodes |-> 0]
  /\ pc = [t \in Threads |-> "idle"]
  /\ loc = [t \in Threads |-> NoLocals]
  /\ HistInit

-----------------------------------------------------------------------------

Pred(t) == loc[t].pred
Curr(t) == loc[t].curr
lvl(t)  == loc[t].lvl
key(n)  == node[n].key
is(s)   == set = s

Goto(t, from, to) == pc[t] = from /\ pc' = [pc EXCEPT ![t] = to]

\* get_rand_level(): each level with probability 1/2, so any number of them.
get_rand_level == 1..LevelMax

\* A walk starts at the head on the top level.
AtTop(l) == [NoLocals EXCEPT !.lvl = LevelMax - 1, !.pred = head,
                             !.top = l.top, !.node = l.node, !.upto = l.upto, !.mine = l.mine]

Fresh == Nodes \ used
Inserting == {t \in Threads : call[t].op = "insert"}

\* The height of the node that an insert may add is drawn at its start; the
\* sequential skip list may be called by one thread at a time.
Invoke(t, c) ==
  /\ c.op = "insert" => Cardinality(Inserting) < Cardinality(Fresh)
  /\ is("SkiplistSeq") => \A u \in Threads : pc[u] = "idle"
  /\ Goto(t, "idle", IF c.op = "search" THEN "search" ELSE "find")
  /\ Begins(t, c)
  /\ \E l \in (IF c.op = "insert" THEN get_rand_level ELSE {0}) :
       loc' = [loc EXCEPT ![t] = AtTop([NoLocals EXCEPT !.top = l])]
  /\ UNCHANGED heap

\* goto restart: what the call has done so far stays done.
Restart(t) ==
  /\ pc' = [pc EXCEPT ![t] = "find"]
  /\ loc' = [loc EXCEPT ![t] = AtTop(loc[t])]

Return(t, r) ==
  /\ pc' = [pc EXCEPT ![t] = "idle"]
  /\ loc' = [loc EXCEPT ![t] = NoLocals]
  /\ Returns(t, r)

Answer(t, r) == Return(t, r) /\ UNCHANGED heap

\* A test whose outcome only decides where the thread goes on.
Decide(t, from, to) == Goto(t, from, to) /\ UNCHANGED <<heap, loc, hist>>

SetNodes(f) == node' = f /\ UNCHANGED <<set, used, freed>>

\* Node n is handed to the allocator while the heap becomes f.
SetNodesAndRelease(f, n) ==
  /\ node' = f
  /\ freed' = [freed EXCEPT ![n] = @ + 1]
  /\ UNCHANGED <<set, used>>

\* The thread keeps left and right for this level and goes to the one below, or
\* on to where its operation continues after the search.
Record(t, left, right, more) ==
  LET l == [loc[t] EXCEPT !.preds[lvl(t)] = left, !.succs[lvl(t)] = right,
                          !.pred = left, !.curr = right]
  IN  IF lvl(t) = 0
      THEN /\ loc' = [loc EXCEPT ![t] = [l EXCEPT !.pred = NULL, !.curr = NULL, !.next = NULL,
                                                  !.mark = FALSE]]
           /\ pc'  = [pc EXCEPT ![t] = "found"]
      ELSE /\ loc' = [loc EXCEPT ![t] = [l EXCEPT !.lvl = @ - 1]]
           /\ pc'  = [pc EXCEPT ![t] = more]

\* The search that only reads: one step to the right, down, or to the end.
\* It stops on the first level where it sees the key.
SearchNext(t) ==
  /\ pc[t] = "search"
  /\ LET curr == node[Pred(t)].next[lvl(t)] IN
       \/ /\ key(curr) < Key(t)
          /\ loc' = [loc EXCEPT ![t].pred = curr]
          /\ UNCHANGED <<heap, pc, hist>>
       \/ /\ key(curr) > Key(t)
          /\ lvl(t) > 0
          /\ loc' = [loc EXCEPT ![t].lvl = @ - 1]
          /\ UNCHANGED <<heap, pc, hist>>
       \/ /\ key(curr) > Key(t)
          /\ lvl(t) = 0
          /\ Answer(t, 0)
       \/ /\ key(curr) = Key(t)
          /\ pc' = [pc EXCEPT ![t] = "s_test"]
          /\ loc' = [loc EXCEPT ![t].curr = curr]
          /\ UNCHANGED <<heap, hist>>

\* The new node, linked on the levels so far only by its own pointers.
Allocated(t, next) == NewNode(Key(t), call[t].val, loc[t].top, next)

-----------------------------------------------------------------------------

\* The nodes on level i.
OnLevel(i) ==
  LET walk[n \in Nodes \cup {NULL}, d \in 0..Cardinality(Nodes)] ==
        IF n = NULL \/ d = 0 THEN {} ELSE {n} \cup walk[node[n].next[i], d - 1]
  IN  walk[head, Cardinality(Nodes)] \ {head, tail}
=============================================================================
