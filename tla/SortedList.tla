----------------------------- MODULE SortedList -----------------------------
(***************************************************************************)
(* What the linked lists (src/algorithms/linkedlist_*.h) have in common: a *)
(* sorted list of nodes between two sentinels, threads that call search,   *)
(* insert and remove, and local pointers into the list.  The hash tables   *)
(* over the lists (hashtable_*.h) are arrays of such lists, so a structure *)
(* has a number of buckets, 1 for a plain list.                            *)
(*                                                                         *)
(* Each list has a module of its own that extends this one; module Lists   *)
(* puts them together.  A behaviour is one of the structure that set is.   *)
(*                                                                         *)
(* Nodes are not reused: the allocator gives a released node out again     *)
(* only when no operation can hold a reference.  A node that an insert     *)
(* allocates and does not publish is free again at once.  key and val of a *)
(* node do not change, so reading them is not a step of its own; every     *)
(* read or write of a next pointer, a mark or a lock word is.  Giving      *)
(* locks back just before the return is one step with it: nothing that     *)
(* another thread does in between could tell.                              *)
(***************************************************************************)
EXTENDS SearchHistory, Optik, LockIf, FiniteSetsExt

CONSTANTS
  Bound,      \* for each structure to look at, the operations and keys of its calls
              \* and how many nodes can be published before inserts stop
  HtLength    \* maxhtlength of the hash tables, a power of two

Ops == {"search", "insert", "remove"}

ASSUME SortedListAssumption ==
  /\ HtLength \in Nat \ {0}
  /\ \A s \in DOMAIN Bound : Bound[s].calls \subseteq Ops \X Keys /\ Bound[s].nodes \in Nat

VARIABLES
  set,     \* the structure: its list, its numbers of buckets and nodes, its calls
  node,    \* the nodes: key, val, next, lock, marked
  used,    \* the nodes that have been published
  freed,   \* how often each node has been released
  lock,    \* the lock of each list, where it has one for all its nodes
  array,   \* cow->array of each copy-on-write list; the segments of HashtableJava
  pc,
  loc      \* the local variables of each thread

heap == <<set, node, used, freed, lock, array>>
vars == <<heap, pc, loc, hist>>

NULL == -1
min(b) == 2 * b          \* head of bucket b, with the smallest key
max(b) == 2 * b + 1      \* its last node, with the largest key
MaxKey == Max(Keys) + 1

Buckets == 0..(set.buckets - 1)
Sentinels == IF set.list = "HashtableJava" THEN {} ELSE 0..(2 * set.buckets - 1)
Nodes == 0..(set.nodes - 1)

\* hash(key): the hash of an integer key is the key.
hash(k) == k

\* The bucket of a key: hash(key) & (num_buckets - 1).
addr(k) == hash(k) % set.buckets

is(list) == set.list = list

\* Mutated: the arguments for key and value are swapped.
ll_simple_swapped(k, v, n) == [key |-> v, val |-> k, next |-> n, lock |-> 0, marked |-> FALSE]

\* The four kinds of nodes: without a lock, with an OPTIK lock, with a lock, and
\* with a lock and a mark.  Fields that a kind does not have stay as they are.
ll_simple(k, v, n) == [key |-> k, val |-> v, next |-> n, lock |-> 0, marked |-> FALSE]
ll_optik(k, v, n)  == [ll_simple(k, v, n) EXCEPT !.lock = OPTIK_INIT]
ll_locked(k, v, n) == [ll_simple(k, v, n) EXCEPT !.lock = TAS_FREE]
ll_marked(k, v, n) == [ll_simple(k, v, n) EXCEPT !.lock = TAS_FREE, !.marked = FALSE]

NoLocals ==
  [pred |-> NULL, curr |-> NULL, next |-> NULL, lnext |-> NULL, pver |-> 0, cver |-> 0,
   mark |-> FALSE, res |-> None, list |-> <<>>, seg |-> 0]

\* The constructors link two sentinels; new is a node as it is allocated.
ListInit(new) ==
  /\ node = [n \in Nodes |->
               CASE \E b \in Buckets : n = min(b) -> [new EXCEPT !.next = n + 1]
                 [] \E b \in Buckets : n = max(b) -> [new EXCEPT !.key = MaxKey]
                 [] OTHER -> new]
  /\ used = Sentinels
  /\ freed = [n \in Nodes |-> 0]
  /\ lock = [b \in Buckets |-> 0]
  /\ array = [b \in Buckets |-> <<>>]
  /\ pc = [t \in Threads |-> "idle"]
  /\ loc = [t \in Threads |-> NoLocals]
  /\ HistInit

-----------------------------------------------------------------------------

Pred(t) == loc[t].pred
Curr(t) == loc[t].curr
KeyOf(t) == node[Curr(t)].key

Goto(t, from, to) == pc[t] = from /\ pc' = [pc EXCEPT ![t] = to]

\* The local variables at the start and at a restart; each of the others is
\* assigned before it is read.
AtHead(k) == IF Sentinels = {} THEN NoLocals ELSE [NoLocals EXCEPT !.curr = min(addr(k))]

Fresh == Nodes \ used

\* There is a node for another insert.  One into HashtableJava may need copies of all
\* but one of the nodes that are in the table when it gets there.
Room ==
  LET inserting == Cardinality({t \in Threads : call[t].op = "insert"})
      live      == Cardinality({n \in used : freed[n] = 0})
  IN  Cardinality(Fresh) >= IF is("HashtableJava") THEN 2 * inserting + Max({1, live})
                            ELSE inserting + 1

\* The sequential list may be called by one thread at a time.
Invoke(t, c) ==
  /\ Goto(t, "idle", c.op)
  /\ <<c.op, c.key>> \in set.calls
  /\ c.op = "insert" => Room
  /\ is("LinkedListSeq") => \A u \in Threads : pc[u] = "idle"
  /\ Begins(t, c)
  /\ loc' = [loc EXCEPT ![t] = AtHead(c.key)]
  /\ UNCHANGED heap

Restart(t) ==
  /\ pc' = [pc EXCEPT ![t] = call[t].op]
  /\ loc' = [loc EXCEPT ![t] = AtHead(Key(t))]

Return(t, r) ==
  /\ pc' = [pc EXCEPT ![t] = "idle"]
  /\ loc' = [loc EXCEPT ![t] = NoLocals]
  /\ Returns(t, r)

\* A call that has changed nothing returns r.
Answer(t, r) == Return(t, r) /\ UNCHANGED heap

SetNodes(f) == node' = f /\ UNCHANGED <<set, used, freed, lock, array>>
SetLock(n, w) == SetNodes([node EXCEPT ![n].lock = w])

\* LOCK(&n->lock): the thread goes on when the lock lets it.
Lock(t, n, from, to) ==
  /\ Goto(t, from, to)
  /\ tas_lock_passes(node[n].lock)
  /\ SetLock(n, tas_locked(node[n].lock))

\* The node array with the locks of S released.
Unlocked(S) == [n \in Nodes |-> IF n \in S THEN [node[n] EXCEPT !.lock = TAS_FREE] ELSE node[n]]

\* The nodes of S are handed to the allocator while the heap becomes f.
SetNodesAndRelease(f, S) ==
  /\ node' = f
  /\ freed' = [n \in Nodes |-> IF n \in S THEN freed[n] + 1 ELSE freed[n]]
  /\ UNCHANGED <<set, used, lock, array>>

\* One turn of the walk: pred = curr; curr = curr->next, until the key is reached.
Walk(t, from, to) ==
  /\ pc[t] = from
  /\ LET next == node[Curr(t)].next IN
       /\ loc' = [loc EXCEPT ![t].pred = Curr(t), ![t].curr = next]
       /\ pc'  = [pc EXCEPT ![t] = IF node[next].key < Key(t) THEN from ELSE to]
  /\ UNCHANGED <<heap, hist>>

\* The value of the key, if the search stands on it.
Val(t) == IF KeyOf(t) = Key(t) THEN node[Curr(t)].val ELSE 0

\* search(key) of the lists that answer from what the walk finds, unvalidated.
SearchNext(t) ==
  /\ pc[t] = "search"
  /\ KeyOf(t) < Key(t)
  /\ loc' = [loc EXCEPT ![t].curr = node[@].next]
  /\ UNCHANGED <<heap, pc, hist>>

SearchEnd(t) ==
  /\ pc[t] = "search"
  /\ KeyOf(t) >= Key(t)
  /\ Answer(t, Val(t))

\* search(key) of the lists that mark removed nodes.
SearchMark(t) ==
  /\ pc[t] = "search"
  /\ KeyOf(t) >= Key(t)
  /\ Answer(t, IF node[Curr(t)].marked THEN 0 ELSE Val(t))

\* p->next = newnode: the insert takes effect.
Publish(t, p, newnode) ==
  /\ LET new == Min(Fresh) IN
       /\ node' = [node EXCEPT ![new] = newnode, ![p].next = new]
       /\ used' = used \cup {new}
  /\ TakesEffect(t, call[t].val, 1)
  /\ UNCHANGED <<set, freed, lock, array>>

\* The nodes from n on: walk[d] are those that d steps reach.
From(n) ==
  LET walk[d \in 0..set.nodes] ==
        IF d = 0 THEN {n} ELSE LET w == walk[d - 1] IN w \cup {node[m].next : m \in w \ {NULL}}
  IN  walk[set.nodes] \ {NULL}

\* The nodes on the way from the heads to the ends, without the sentinels.
Reachable == (UNION {From(min(b)) : b \in Buckets}) \ Sentinels

\* length() of the lists counts the nodes between the sentinels.
Length == Cardinality(Reachable)

ListTypeOK ==
  /\ node \in [Nodes -> [key : Keys \cup {0, MaxKey}, val : Vals \cup {0},
                         next : Nodes \cup {NULL}, lock : Nat, marked : BOOLEAN]]
  /\ used \subseteq Nodes
  /\ lock \in [Buckets -> Nat]
  /\ \A t \in Threads :
       {Pred(t), Curr(t), loc[t].next, loc[t].lnext} \subseteq used \cup {NULL}
  /\ HistTypeOK
=============================================================================
