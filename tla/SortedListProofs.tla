------------------------- MODULE SortedListProofs --------------------------
(***************************************************************************)
(* Proofs about the sorted lists of Lists and the hash tables over them,   *)
(* for every set of threads, keys and values and any number of nodes and   *)
(* buckets: six lists that differ in how they exclude or detect updates    *)
(* that get in each other's way.                                           *)
(***************************************************************************)
EXTENDS SortedList, FiniteSetTheorems, WellFoundedInduction, TLAPS

\* The lists of this module.  (Pugh's list points back from removed nodes, Harris'
\* unlinks whole runs, and the copy list and HashtableJava are not sorted lists.)
SortedLists ==
  {"LinkedListSeq", "LinkedListOptikGL", "LinkedListOptik", "LinkedListLazy", "LinkedListCoupling",
   "LinkedListHarrisOpt"}

-----------------------------------------------------------------------------
(* The chain.  A node leads, through its successors, to a last node with a *)
(* key smaller than k.  The proofs carry the function L of these last      *)
(* nodes along, for nodes in the list and nodes that have left it: a link  *)
(* or an unlinking changes it in a way that can be written down, and so    *)
(* nothing has to be said about paths.                                     *)

\* U are the nodes, key, nx and hm their keys, successors and buckets.
Sorted(U, key, nx, hm) ==
  /\ NULL \notin U
  /\ \A n \in U :
       /\ key[n] \in 0..MaxKey
       /\ nx[n] \in U \cup {NULL}
       /\ key[n] < MaxKey => nx[n] \in U
       /\ nx[n] \in U => key[n] < key[nx[n]] /\ hm[nx[n]] = hm[n]

LastOK(U, key, nx, hm, L) ==
  \A n \in U : \A k \in Keys :
    key[n] < k =>
      /\ L[n][k] \in U /\ nx[L[n][k]] \in U
      /\ key[n] <= key[L[n][k]] /\ key[L[n][k]] < k /\ k <= key[nx[L[n][k]]]
      /\ hm[L[n][k]] = hm[n]
      /\ L[n][k] = IF key[nx[n]] < k THEN L[nx[n]][k] ELSE n

Chain(U, key, nx, hm, L) == Sorted(U, key, nx, hm) /\ LastOK(U, key, nx, hm, L)

-----------------------------------------------------------------------------
(* The heap.                                                               *)

NodeKey  == [n \in Nodes |-> node[n].key]
NodeNext == [n \in Nodes |-> node[n].next]

\* The bucket a node belongs to.
Home == [n \in Nodes |-> IF n \in Sentinels THEN n \div 2 ELSE addr(node[n].key)]

\* Node n is in the list: a walk from the head finds it.
On(L, n) == n \in used \ Sentinels /\ node[L[min(Home[n])][node[n].key]].next = n

Live(L, n) == n \in Sentinels \/ On(L, n)

\* What a search for k that stands on node n finds there, and where it gets to from c.
ValOf(n, k) == IF node[n].key = k /\ ~node[n].marked THEN node[n].val ELSE None
End(L, c, k) == IF node[c].key < k THEN node[L[c][k]].next ELSE c

Result(L, c, k) == ValOf(End(L, c, k), k)

NodeSet ==
  [key : Keys \cup {0, MaxKey}, val : Vals \cup {0}, next : Nodes \cup {NULL}, lock : Nat,
   marked : BOOLEAN]

HeapOK ==
  /\ set.list \in SortedLists /\ set.buckets \in Nat \ {0} /\ set.nodes \in Nat
  /\ set.calls \subseteq Ops \X Keys
  /\ node \in [Nodes -> NodeSet]
  /\ Sentinels \subseteq used /\ used \subseteq Nodes
  /\ freed \in [Nodes -> {0, 1}]
  /\ lock \in [Buckets -> Nat]
  /\ \A b \in Buckets : node[min(b)].key = 0 /\ node[max(b)].key = MaxKey /\ node[max(b)].next = NULL
  /\ \A n \in Sentinels : ~node[n].marked
  /\ \A n \in used \ Sentinels : node[n].key \in Keys /\ node[n].val \in Vals

ChainOK(L) == Chain(used, NodeKey, NodeNext, Home, L)

MapOK(L) == \A k \in Keys : map[k] = Result(L, min(addr(k)), k)

FreedOK(L) == \A n \in Nodes : freed[n] = 1 => n \in used \ Sentinels /\ ~On(L, n)

-----------------------------------------------------------------------------
(* The threads.                                                            *)

InCall(t) == call[t] # NoCall
Before(t) == InCall(t) /\ lin[t] = Abs!Pending
After(t)  == InCall(t) /\ lin[t] # Abs!Pending

\* The local variables that these lists use, and the others.
Locals ==
  [pred : Int, curr : Int, next : Int, lnext : Int, pver : Int, cver : Int,
   mark : {FALSE}, res : {None}, list : {<<>>}, seg : {0}]

LocalsOK == pc = [t \in Threads |-> pc[t]] /\ loc \in [Threads -> Locals]

\* Node n is one that a walk of t may get to.
Mine(t, n) == n \in used /\ Home[n] = addr(Key(t))

ThreadOK(L, t) ==
  /\ pc[t] = "idle" <=> ~InCall(t)
  /\ pc[t] = "idle" => loc[t] = NoLocals /\ lin[t] = Abs!Pending
  /\ Pred(t) \in used \cup {NULL} /\ Curr(t) \in used \cup {NULL}
  /\ loc[t].next \in used \cup {NULL} /\ loc[t].lnext = NULL
  /\ InCall(t) => map[Key(t)] \in seen[t]
  /\ InCall(t) /\ Pred(t) # NULL => Mine(t, Pred(t)) /\ node[Pred(t)].key < Key(t)
  /\ Before(t) => Mine(t, Curr(t)) /\ Result(L, Curr(t), Key(t)) \in seen[t]
  /\ After(t) => \/ call[t].op = "insert" /\ lin[t] = 1
                 \/ /\ call[t].op = "remove" /\ Curr(t) \in used \ Sentinels /\ Home[Curr(t)] = addr(Key(t))
                    /\ lin[t] = node[Curr(t)].val

\* The calls that will need a node, for which there is room.
Needing == {t \in Threads : Before(t) /\ call[t].op = "insert"}

RoomOK ==
  /\ IsFiniteSet({t \in Threads : InCall(t)})
  /\ Cardinality(Needing) <= Cardinality(Fresh)

Core(L) ==
  /\ HeapOK /\ HistTypeOK /\ LocalsOK
  /\ ChainOK(L) /\ MapOK(L) /\ FreedOK(L)
  /\ \A t \in Threads : ThreadOK(L, t)
  /\ RoomOK

-----------------------------------------------------------------------------
(* What is special to each list.                                           *)

\* Thread t is at one of the places P of the program, and in a call of op.
At(t, P) == pc[t] \in P
AtOp(t, P, op) == pc[t] \in P => call[t].op = op

\* It has not taken effect, or has, at the places P.
AllBefore(t, P) == pc[t] \in P => Before(t)
AllAfter(t, P)  == pc[t] \in P => After(t)

\* Thread t has passed the nodes with smaller keys, or stands on one.
Reached(t) == Pred(t) # NULL /\ node[Curr(t)].key >= Key(t)
Walking(t) == node[Curr(t)].key < Key(t)

\* pred and curr are neighbours in the list.
Adjacent(L, t) == Pred(t) # NULL /\ Live(L, Pred(t)) /\ node[Pred(t)].next = Curr(t)

\* curr has left the list and has not been released.
Unlinked(L, t) == After(t) /\ Curr(t) \in used \ Sentinels /\ ~On(L, Curr(t)) /\ freed[Curr(t)] = 0

Unmarked == \A n \in Nodes : ~node[n].marked

\* No thread but t is at one of the places P, in the same bucket.
Alone(t, P) == \A u \in Threads : pc[u] \in P /\ addr(Key(u)) = addr(Key(t)) => u = t

\* One thread at a time.
SeqThread(L, t) ==
  /\ pc[t] \in {"idle", "search", "insert", "remove", "i_test", "i_return", "r_test", "r_return"}
  /\ pc[t] \in {"search", "insert", "remove", "i_test", "r_test"} => Before(t)
  /\ pc[t] \in {"i_return", "r_return"} => After(t)
  /\ pc[t] = "search" => call[t].op = "search"
  /\ pc[t] \in {"insert", "i_test", "i_return"} => call[t].op = "insert"
  /\ pc[t] \in {"remove", "r_test", "r_return"} => call[t].op = "remove"
  /\ pc[t] \in {"insert", "remove"} => Live(L, Curr(t)) /\ Walking(t)
  /\ pc[t] \in {"i_test", "r_test"} => Adjacent(L, t) /\ Reached(t)

SeqAlone == \A t, u \in Threads : pc[t] # "idle" /\ pc[u] # "idle" => t = u

SeqOK(L) == Unmarked /\ SeqAlone /\ \A t \in Threads : SeqThread(L, t)

\* The version of the list's lock that t has read is still that of the lock, and is free.
Current(t) == lock[addr(Key(t))] = loc[t].pver /\ ~optik_is_locked(loc[t].pver)

GLHolds == {"i_link", "r_unlink", "unlock"}

OptikGLThread(L, t) ==
  /\ pc[t] \in {"idle", "search", "insert", "remove", "i_walk", "r_walk", "i_test", "r_test"} \cup GLHolds
  /\ pc[t] \notin {"idle", "unlock"} => Before(t)
  /\ pc[t] = "unlock" => After(t)
  /\ pc[t] = "search" => call[t].op = "search"
  /\ pc[t] \in {"insert", "i_walk", "i_test", "i_link"} => call[t].op = "insert"
  /\ pc[t] \in {"remove", "r_walk", "r_test", "r_unlink"} => call[t].op = "remove"
  /\ pc[t] \in {"insert", "remove"} => Curr(t) = min(addr(Key(t)))
  /\ pc[t] \in {"i_walk", "r_walk", "i_test", "r_test"} =>
       loc[t].pver \in Nat /\ loc[t].pver <= lock[addr(Key(t))]
  /\ pc[t] \in {"i_walk", "r_walk"} => Walking(t) /\ (Current(t) => Live(L, Curr(t)))
  /\ pc[t] \in {"i_test", "r_test"} => Reached(t) /\ (Current(t) => Adjacent(L, t))
  /\ pc[t] \in GLHolds => lock[addr(Key(t))] % 2 = 1
  /\ pc[t] \in {"i_link", "r_unlink"} => Adjacent(L, t)
  /\ pc[t] = "i_link" => node[Curr(t)].key > Key(t)
  /\ pc[t] = "r_unlink" => node[Curr(t)].key = Key(t)
  /\ pc[t] = "unlock" /\ call[t].op = "remove" => Unlinked(L, t)

\* No two threads hold the lock of a list.
OptikGLAlone ==
  \A t, u \in Threads :
    pc[t] \in GLHolds /\ pc[u] \in GLHolds /\ addr(Key(t)) = addr(Key(u)) => t = u

OptikGLOK(L) == Unmarked /\ OptikGLAlone /\ \A t \in Threads : OptikGLThread(L, t)

\* The locks that t holds; what it holds is in nobody else's hands.
Owns(t, P, C) ==
  (IF pc[t] \in P THEN {Pred(t)} ELSE {}) \cup (IF pc[t] \in C THEN {Curr(t)} ELSE {})

Exclusive(P, C) ==
  \A t, u \in Threads : t # u => Owns(t, P, C) \cap Owns(u, P, C) = {}

\* The locks are those of lock_if.h.
TasLocks == \A n \in Nodes : node[n].lock \in {TAS_FREE, TAS_LCKD}

CouplingCurr == {"lock_next", "advance", "found", "unlock", "delete"}
CouplingPred == {"advance", "found", "unlock", "delete"}

CouplingThread(L, t) ==
  /\ pc[t] \in {"idle", "search", "insert", "remove"} \cup CouplingCurr
  /\ pc[t] \in {"search", "insert", "remove", "lock_next", "advance", "found"} => Before(t)
  /\ pc[t] \in {"unlock", "delete"} => After(t)
  /\ pc[t] \in Ops => Curr(t) = min(addr(Key(t)))
  /\ pc[t] = "unlock" => call[t].op = "insert"
  /\ pc[t] = "delete" => call[t].op = "remove"
  /\ pc[t] \in CouplingPred <=> Pred(t) # NULL
  /\ pc[t] \in CouplingCurr => Curr(t) # NULL
  /\ \A n \in Owns(t, CouplingPred, CouplingCurr) : node[n].lock = TAS_LCKD
  /\ pc[t] \in CouplingPred => Live(L, Pred(t))
  /\ pc[t] \in CouplingCurr \ {"delete"} => Live(L, Curr(t))
  /\ pc[t] \in {"lock_next", "advance"} => Walking(t)
  /\ pc[t] \in {"advance", "found"} => Adjacent(L, t)
  /\ pc[t] = "found" => Reached(t)
  /\ pc[t] = "delete" => Unlinked(L, t)

CouplingOK(L) ==
  /\ Unmarked /\ TasLocks
  /\ Exclusive(CouplingPred, CouplingCurr)
  /\ \A t \in Threads : CouplingThread(L, t)

LazyPred == {"i_check", "i_unlock", "r_lock_curr", "r_check", "r_unlink", "r_unlock"}
LazyCurr == {"r_check", "r_unlink", "r_unlock"}

LazyThread(L, t) ==
  /\ pc[t] \in {"idle", "search", "insert", "remove", "i_test", "r_test"} \cup LazyPred
  /\ pc[t] \in {"search", "insert", "i_test", "i_check", "remove", "r_test", "r_lock_curr", "r_check"} =>
       Before(t)
  /\ pc[t] \in {"i_unlock", "r_unlink", "r_unlock"} => After(t)
  /\ pc[t] = "search" => call[t].op = "search"
  /\ pc[t] \in {"insert", "i_test", "i_check", "i_unlock"} => call[t].op = "insert"
  /\ pc[t] \in {"remove", "r_test", "r_lock_curr", "r_check", "r_unlink", "r_unlock"} => call[t].op = "remove"
  /\ pc[t] \in LazyPred => Pred(t) # NULL
  /\ \A n \in Owns(t, LazyPred, LazyCurr) : node[n].lock = TAS_LCKD
  /\ pc[t] \in {"insert", "remove"} => Walking(t)
  /\ pc[t] \in {"i_test", "r_test", "i_check", "r_lock_curr", "r_check"} => Reached(t)
  /\ pc[t] = "i_check" => node[Curr(t)].key # Key(t)
  /\ pc[t] \in {"r_lock_curr", "r_check"} => node[Curr(t)].key = Key(t)
  /\ pc[t] = "r_unlink" =>
       /\ Adjacent(L, t) /\ ~node[Pred(t)].marked /\ node[Curr(t)].marked
       /\ freed[Curr(t)] = 0
  /\ pc[t] = "r_unlock" => Unlinked(L, t) /\ node[Curr(t)].marked

\* A node that is not marked is in the list, and a marked one is about to leave it.
LazyMarks(L) ==
  /\ \A n \in used : ~node[n].marked => Live(L, n)
  /\ \A n \in used : On(L, n) /\ node[n].marked => \E t \in Threads : pc[t] = "r_unlink" /\ Curr(t) = n

LazyOK(L) ==
  /\ LazyMarks(L) /\ TasLocks
  /\ Exclusive(LazyPred, LazyCurr)
  /\ \A t \in Threads : LazyThread(L, t)

HarrisOptThread(t) ==
  /\ pc[t] \in {"idle", "search", "insert", "remove", "mark", "delete", "next", "found",
                "i_return", "r_mark", "r_delete"}
  /\ pc[t] \notin {"idle", "i_return", "r_delete"} => Before(t)
  /\ pc[t] \in {"i_return", "r_delete"} => After(t)
  /\ pc[t] = "search" => call[t].op = "search"
  /\ pc[t] \in {"insert", "i_return"} => call[t].op = "insert"
  /\ pc[t] \in {"remove", "r_mark", "r_delete"} => call[t].op = "remove"
  /\ pc[t] \in {"mark", "delete", "next", "found"} => call[t].op \in {"insert", "remove"}
  /\ pc[t] \in {"insert", "remove"} => Walking(t)
  /\ pc[t] \in {"mark", "delete", "next", "found", "r_mark", "r_delete"} => Pred(t) # NULL
  /\ pc[t] \in {"delete", "r_delete"} => node[Curr(t)].marked
  /\ pc[t] = "next" => node[Curr(t)].marked \/ Walking(t)
  /\ pc[t] \in {"found", "r_mark"} =>
       Reached(t) /\ (node[Curr(t)].key = Key(t) => node[Curr(t)].val \in seen[t])
  /\ pc[t] = "r_mark" => node[Curr(t)].key = Key(t)

\* A node that is not marked is in the list.
HarrisMarks(L) == \A n \in used : ~node[n].marked => Live(L, n)

HarrisOptOK(L) == HarrisMarks(L) /\ \A t \in Threads : HarrisOptThread(t)

OptikPred == {"i_link", "i_unlock", "r_lock_curr", "r_revert", "r_unlink", "r_unlock"}
OptikCurr == {"r_unlink", "r_unlock"}
OptikWrote == {"i_unlock", "r_unlock"}

\* Who holds the lock of node n has written to n.
Written(n) == \E u \in Threads : pc[u] \in OptikWrote /\ Pred(u) = n

\* Node n has not been written to since version v of its lock was read: the version is
\* still there, or who holds the lock has not written.
Same(n, v) == v % 2 = 0 /\ (node[n].lock = v \/ (node[n].lock = v + 1 /\ ~Written(n)))

\* A version that was read while the lock was free is not larger than the lock's.
Old(n, v) == v \in Nat /\ (v % 2 = 0 => v <= node[n].lock)

\* The successor x of n was read after version v of its lock.
Saw(n, v, x) == Old(n, v) /\ (Same(n, v) => node[n].next = x)

OptikThread(L, t) ==
  /\ pc[t] \in {"idle", "search", "insert", "i_next", "i_test", "remove", "r_next", "r_ver", "r_test",
                "r_lock_pred"} \cup OptikPred
  /\ pc[t] \notin {"idle", "i_unlock", "r_unlock"} => Before(t)
  /\ pc[t] \in {"i_unlock", "r_unlock"} => After(t)
  /\ pc[t] = "search" => call[t].op = "search"
  /\ pc[t] \in {"insert", "i_next", "i_test", "i_link", "i_unlock"} => call[t].op = "insert"
  /\ pc[t] \in {"remove", "r_next", "r_ver", "r_test", "r_lock_pred", "r_lock_curr", "r_revert",
                "r_unlink", "r_unlock"} => call[t].op = "remove"
  /\ pc[t] \in OptikPred \cup {"r_ver"} => Pred(t) # NULL
  /\ \A n \in Owns(t, OptikPred, OptikCurr) : node[n].lock % 2 = 1
  /\ pc[t] \in OptikPred => Live(L, Pred(t))
  /\ pc[t] \in {"insert", "remove", "i_next", "r_next"} => Walking(t)
  /\ pc[t] \in {"i_test", "i_link", "r_test", "r_lock_pred", "r_lock_curr", "r_unlink"} => Reached(t)
  /\ pc[t] = "i_next" => Old(Curr(t), loc[t].pver)
  /\ pc[t] \in {"i_test", "r_ver", "r_test", "r_lock_pred"} => Saw(Pred(t), loc[t].pver, Curr(t))
  /\ pc[t] \in {"r_next", "r_test"} => Old(Curr(t), loc[t].cver)
  /\ pc[t] \in {"r_lock_pred", "r_lock_curr"} => Saw(Curr(t), loc[t].cver, loc[t].next)
  /\ pc[t] \in {"r_lock_pred", "r_lock_curr", "r_unlink"} => loc[t].next # NULL /\ node[Curr(t)].key = Key(t)
  /\ pc[t] \in {"i_link", "r_lock_curr", "r_unlink"} => Adjacent(L, t)
  /\ pc[t] = "i_link" => node[Curr(t)].key # Key(t)
  /\ pc[t] = "r_unlink" => On(L, Curr(t)) /\ node[Curr(t)].next = loc[t].next
  /\ pc[t] = "r_unlock" => Unlinked(L, t)

\* A node whose lock is free is in the list.
OptikFree(L) == \A n \in used : node[n].lock % 2 = 0 => Live(L, n)

OptikOK(L) ==
  /\ Unmarked /\ OptikFree(L)
  /\ Exclusive(OptikPred, OptikCurr)
  /\ \A t \in Threads : OptikThread(L, t)

Inv(L) ==
  /\ Core(L)
  /\ is("LinkedListSeq") => SeqOK(L)
  /\ is("LinkedListOptikGL") => OptikGLOK(L)
  /\ is("LinkedListOptik") => OptikOK(L)
  /\ is("LinkedListLazy") => LazyOK(L)
  /\ is("LinkedListCoupling") => CouplingOK(L)
  /\ is("LinkedListHarrisOpt") => HarrisOptOK(L)

-----------------------------------------------------------------------------
(* Numbers.                                                                *)

\* Induction: a set of numbers that is not empty has a smallest one.
LEMMA Smallest ==
  ASSUME NEW S, S \subseteq Nat, S # {}
  PROVE  \E m \in S : \A k \in S : m <= k
<1> DEFINE R == OpToRel(<, Nat)
<1>1. IsWellFoundedOn(R, Nat)
  BY NatLessThanWellFounded
<1>2. \A a, b \in Nat : <<a, b>> \in R <=> a < b
  BY DEF OpToRel
<1> HIDE DEF R
<1>3. \E x \in S : \A y \in S : ~ (<<y, x>> \in R)
  BY <1>1, WFMin
<1>4. PICK m \in S : \A k \in S : ~ (<<k, m>> \in R)
  BY <1>3
<1>5. m \in Nat /\ \A k \in S : k \in Nat /\ ~(k < m)
  BY <1>2, <1>4
<1>6. \A k \in S : m <= k
  BY <1>5
<1>7. QED BY <1>6

\* A finite set of numbers that is not empty has a largest one.
LEMMA Largest ==
  ASSUME NEW S, S \subseteq Nat, IsFiniteSet(S), S # {}
  PROVE  \E m \in S : \A k \in S : k <= m
<1> DEFINE Has(T) == \E m \in T : \A k \in T : k <= m
           Bad == {n \in Nat : \E T \in SUBSET Nat :
                                 IsFiniteSet(T) /\ T # {} /\ Cardinality(T) = n /\ ~Has(T)}
<1>1. SUFFICES ASSUME ~Has(S) PROVE FALSE
  OBVIOUS
<1>2. Cardinality(S) \in Bad
  BY <1>1, FS_CardinalityType
<1>3. PICK n \in Bad : \A k \in Bad : n <= k
  <2>1. Bad \subseteq Nat /\ Bad # {}
    BY <1>2
  <2> HIDE DEF Bad
  <2>2. QED BY <2>1, Smallest
<1>4. PICK T \in SUBSET Nat : IsFiniteSet(T) /\ T # {} /\ Cardinality(T) = n /\ ~Has(T)
  BY <1>3
<1>5. PICK x \in T : TRUE
  BY <1>4
<1>6. IsFiniteSet(T \ {x}) /\ Cardinality(T \ {x}) = n - 1 /\ n - 1 \in Nat
  <2>1. IsFiniteSet(T \ {x}) /\ Cardinality(T \ {x}) = Cardinality(T) - 1
    BY <1>4, <1>5, FS_RemoveElement
  <2>2. Cardinality(T \ {x}) \in Nat
    BY <2>1, FS_CardinalityType
  <2>3. QED BY <1>4, <2>1, <2>2
<1>7. CASE T \ {x} = {}
  <2>1. T = {x} /\ x \in Nat
    BY <1>5, <1>7
  <2>2. Has(T)
    BY <2>1
  <2>3. QED BY <2>2, <1>4
<1>8. CASE T \ {x} # {}
  <2>1. Has(T \ {x})
    <3>1. SUFFICES ASSUME ~Has(T \ {x}) PROVE FALSE
      OBVIOUS
    <3>2. n - 1 \in Bad
      BY <1>6, <1>8, <3>1
    <3>3. n <= n - 1 /\ n \in Nat
      BY <1>3, <3>2
    <3>4. QED BY <3>3
  <2>2. PICK y \in T \ {x} : \A k \in T \ {x} : k <= y
    BY <2>1
  <2>3. x \in Nat /\ y \in Nat /\ \A k \in T : k \in Nat
    BY <1>5, <2>2
  <2>4. CASE x <= y
    BY <2>2, <2>3, <2>4, <1>4
  <2>5. CASE y <= x
    BY <2>2, <2>3, <2>5, <1>4
  <2>6. QED BY <2>3, <2>4, <2>5
<1>9. QED BY <1>7, <1>8

\* The keys are below that of the last node.
LEMMA KeyBounds == MaxKey \in Nat /\ \A k \in Keys : k \in Nat /\ 0 < k /\ k < MaxKey
<1>1. Keys \subseteq Nat /\ IsFiniteSet(Keys) /\ Keys # {} /\ \A k \in Keys : k # 0
  BY KeysAndValsAssumption
<1>2. PICK m \in Keys : \A k \in Keys : k <= m
  BY <1>1, Largest
<1>3. m \in Keys /\ \A k \in Keys : m >= k
  BY <1>1, <1>2
<1>4. Max(Keys) \in Keys /\ \A k \in Keys : Max(Keys) >= k
  BY <1>3 DEF Max
<1> DEFINE M == Max(Keys)
<1>5. MaxKey = M + 1 /\ M \in Keys /\ \A k \in Keys : M >= k
  BY <1>4 DEF MaxKey
<1> HIDE DEF M
<1>6. QED BY <1>1, <1>5

\* The smallest of a set of numbers is one of them.
LEMMA MinIn ==
  ASSUME NEW S, S \subseteq Nat, S # {}
  PROVE  Min(S) \in S
<1>1. PICK m \in S : \A k \in S : m <= k
  BY Smallest
<1>2. m \in S /\ \A k \in S : m =< k
  BY <1>1
<1>3. QED BY <1>2 DEF Min

-----------------------------------------------------------------------------
(* The chain, as long as it does not change.                               *)

\* The way to the keys from k on leads over the node before j, if j is not larger.
LEMMA Through ==
  ASSUME NEW U, NEW key, NEW nx, NEW hm, NEW L, Chain(U, key, nx, hm, L),
         NEW n \in U, NEW j \in Keys, NEW k \in Keys, key[n] < j, j <= k
  PROVE  L[n][k] = IF key[nx[L[n][j]]] < k THEN L[nx[L[n][j]]][k] ELSE L[n][j]
<1> USE DEF Chain, Sorted, LastOK
<1> DEFINE Good(m) == L[m][k] = IF key[nx[L[m][j]]] < k THEN L[nx[L[m][j]]][k] ELSE L[m][j]
           Bad == {d \in Nat : \E m \in U : key[m] < j /\ d = j - key[m] /\ ~Good(m)}
<1>1. j \in Nat /\ k \in Nat /\ MaxKey \in Nat /\ j < MaxKey /\ k < MaxKey
  BY KeyBounds
<1>2. SUFFICES ASSUME ~Good(n) PROVE FALSE
  OBVIOUS
<1>3. key[n] \in Nat /\ j - key[n] \in Nat
  BY <1>1
<1>4. j - key[n] \in Bad
  BY <1>2, <1>3
<1>5. PICK d \in Bad : \A e \in Bad : d <= e
  <2>1. Bad \subseteq Nat /\ Bad # {}
    BY <1>4
  <2> HIDE DEF Bad
  <2>2. QED BY <2>1, Smallest
<1>6. PICK m \in U : key[m] < j /\ d = j - key[m] /\ ~Good(m)
  BY <1>5
<1>7. nx[m] \in U /\ key[m] \in Nat /\ key[nx[m]] \in Nat /\ key[m] < key[nx[m]]
  BY <1>1, <1>6
<1>8. CASE key[nx[m]] < j
  <2>1. L[m][j] = L[nx[m]][j]
    BY <1>6, <1>7, <1>8
  <2>2. L[m][k] = L[nx[m]][k]
    BY <1>1, <1>6, <1>7, <1>8
  <2>3. Good(nx[m])
    <3>1. j - key[nx[m]] \in Nat /\ j - key[nx[m]] < d /\ d \in Nat
      BY <1>1, <1>6, <1>7, <1>8
    <3>2. j - key[nx[m]] \notin Bad
      BY <3>1, <1>5
    <3>3. QED BY <3>1, <3>2, <1>7, <1>8
  <2>4. QED BY <2>1, <2>2, <2>3, <1>6
<1>9. CASE ~(key[nx[m]] < j)
  <2>1. L[m][j] = m
    BY <1>6, <1>9
  <2>2. L[m][k] = IF key[nx[m]] < k THEN L[nx[m]][k] ELSE m
    BY <1>1, <1>6, <1>7
  <2>3. QED BY <2>1, <2>2, <1>6
<1>10. QED BY <1>8, <1>9

-----------------------------------------------------------------------------
(* The chain when a node is linked or unlinked.                            *)

\* L after new, with key j, has been linked behind p.
LinkLast(U, key, nx, L, p, new, j) ==
  [n \in U \cup {new} |-> [k \in Keys |->
     IF n = new THEN IF key[nx[p]] < k THEN L[nx[p]][k] ELSE new
     ELSE IF L[n][k] = p /\ j < k THEN new ELSE L[n][k]]]

\* L after m has been unlinked from p.
UnlinkLast(U, key, L, p, m) ==
  [n \in U |-> [k \in Keys |->
     IF key[n] < key[m] /\ L[n][k] = m /\ L[n][key[m]] = p THEN p ELSE L[n][k]]]

\* A link keeps the chain.
LEMMA ChainLink ==
  ASSUME NEW U, NEW key, NEW nx, NEW hm, NEW L, Chain(U, key, nx, hm, L),
         NEW key2, NEW nx2, NEW hm2, NEW p \in U, NEW new, new \notin U, new # NULL, NEW j \in Keys,
         nx[p] \in U, key[p] < j, j < key[nx[p]],
         key2[new] = j, nx2[new] = nx[p], hm2[new] = hm[p],
         \A n \in U : key2[n] = key[n] /\ hm2[n] = hm[n] /\ nx2[n] = IF n = p THEN new ELSE nx[n]
  PROVE  Chain(U \cup {new}, key2, nx2, hm2, LinkLast(U, key, nx, L, p, new, j))
<1> DEFINE V == U \cup {new}
           M == LinkLast(U, key, nx, L, p, new, j)
           c == nx[p]
<1>1. \A k \in Keys : k \in Nat /\ k < MaxKey
  BY KeyBounds
<1>2. \A n \in U : key[n] \in Nat /\ key[n] <= MaxKey
  BY KeyBounds DEF Chain, Sorted
<1>3. MaxKey \in Nat
  BY KeyBounds
<1>4. Sorted(U, key, nx, hm) /\ LastOK(U, key, nx, hm, L)
  BY DEF Chain
<1>5. /\ \A k \in Keys : M[new][k] = IF key[c] < k THEN L[c][k] ELSE new
      /\ \A n \in U, k \in Keys : M[n][k] = IF L[n][k] = p /\ j < k THEN new ELSE L[n][k]
  BY DEF LinkLast
<1> HIDE DEF M
<1>6. Sorted(V, key2, nx2, hm2)
  <2>1. SUFFICES ASSUME NEW n \in V
                 PROVE  /\ key2[n] \in 0..MaxKey
                        /\ nx2[n] \in V \cup {NULL}
                        /\ key2[n] < MaxKey => nx2[n] \in V
                        /\ nx2[n] \in V => key2[n] < key2[nx2[n]] /\ hm2[nx2[n]] = hm2[n]
    BY <1>4 DEF Sorted
  <2>2. CASE n = new
    BY <1>1, <1>2, <1>3, <1>4, <2>2 DEF Sorted
  <2>3. CASE n = p
    BY <1>1, <1>2, <1>3, <1>4, <2>3 DEF Sorted
  <2>4. CASE n \in U /\ n # p
    BY <1>2, <1>3, <1>4, <2>4 DEF Sorted
  <2>5. QED BY <2>2, <2>3, <2>4
<1>7. LastOK(V, key2, nx2, hm2, M)
  <2> DEFINE Claim(n, k) ==
               /\ M[n][k] \in V /\ nx2[M[n][k]] \in V
               /\ key2[n] <= key2[M[n][k]] /\ key2[M[n][k]] < k /\ k <= key2[nx2[M[n][k]]]
               /\ hm2[M[n][k]] = hm2[n]
               /\ M[n][k] = IF key2[nx2[n]] < k THEN M[nx2[n]][k] ELSE n
  <2>1. SUFFICES ASSUME NEW n \in V, NEW k \in Keys, key2[n] < k PROVE Claim(n, k)
    BY DEF LastOK
  <2>2. c \in U /\ key[c] \in Nat /\ hm[c] = hm[p]
    BY <1>2, <1>4 DEF Sorted
  <2>3. CASE n = new
    <3>1. CASE key[c] < k
      <4>1. /\ L[c][k] \in U /\ nx[L[c][k]] \in U
            /\ key[c] <= key[L[c][k]] /\ key[L[c][k]] < k /\ k <= key[nx[L[c][k]]]
            /\ hm[L[c][k]] = hm[c]
        BY <1>4, <2>2, <3>1 DEF LastOK
      <4>2. L[c][k] # p
        BY <1>1, <1>2, <2>2, <4>1
      <4>3. M[new][k] = L[c][k] /\ M[c][k] = L[c][k]
        BY <1>5, <2>2, <3>1, <4>2
      <4>4. QED BY <1>1, <1>2, <2>2, <2>3, <3>1, <4>1, <4>2, <4>3
    <3>2. CASE ~(key[c] < k)
      <4>1. M[new][k] = new
        BY <1>5, <3>2
      <4>2. QED BY <1>1, <1>2, <2>1, <2>2, <2>3, <3>2, <4>1
    <3>3. QED BY <3>1, <3>2
  <2>4. CASE n \in U
    <3>1. n # new /\ key2[n] = key[n] /\ hm2[n] = hm[n] /\ key[n] < k /\ key[n] \in Nat
      BY <1>2, <2>1, <2>4
    <3>2. /\ L[n][k] \in U /\ nx[L[n][k]] \in U
          /\ key[n] <= key[L[n][k]] /\ key[L[n][k]] < k /\ k <= key[nx[L[n][k]]]
          /\ hm[L[n][k]] = hm[n]
          /\ L[n][k] = IF key[nx[n]] < k THEN L[nx[n]][k] ELSE n
      BY <1>4, <2>4, <3>1 DEF LastOK
    <3>3. nx[n] \in U
      BY <1>1, <1>4, <2>4, <3>1, KeyBounds DEF Sorted
    <3>4. M[n][k] = IF L[n][k] = p /\ j < k THEN new ELSE L[n][k]
      BY <1>5, <2>4
    <3>5. /\ M[n][k] \in V /\ nx2[M[n][k]] \in V
          /\ key2[n] <= key2[M[n][k]] /\ key2[M[n][k]] < k /\ k <= key2[nx2[M[n][k]]]
          /\ hm2[M[n][k]] = hm2[n]
      BY <1>1, <1>2, <2>2, <3>1, <3>2, <3>4
    <3>6. M[n][k] = IF key2[nx2[n]] < k THEN M[nx2[n]][k] ELSE n
      <4>1. CASE n = p
        <5>1. CASE j < k
          <6>1. CASE key[c] < k
            <7>1. L[c][k] # p
              BY <1>1, <1>2, <1>4, <2>2, <6>1 DEF LastOK
            <7>2. QED BY <1>5, <2>2, <3>2, <3>4, <4>1, <5>1, <6>1, <7>1
          <6>2. CASE ~(key[c] < k)
            BY <1>5, <2>2, <3>2, <3>4, <4>1, <5>1, <6>2
          <6>3. QED BY <6>1, <6>2
        <5>2. CASE ~(j < k)
          BY <1>1, <1>2, <2>2, <3>2, <3>4, <4>1, <5>2
        <5>3. QED BY <5>1, <5>2
      <4>2. CASE n # p
        <5>1. nx2[n] = nx[n] /\ key2[nx[n]] = key[nx[n]]
          BY <2>4, <3>3, <4>2
        <5>2. QED BY <1>5, <3>2, <3>3, <3>4, <4>2, <5>1
      <4>3. QED BY <4>1, <4>2
    <3>7. QED BY <3>5, <3>6
  <2>5. QED BY <2>3, <2>4
<1>8. QED BY <1>6, <1>7 DEF Chain, M

\* An unlinking keeps the chain.
LEMMA ChainUnlink ==
  ASSUME NEW U, NEW key, NEW nx, NEW hm, NEW L, Chain(U, key, nx, hm, L),
         NEW nx2, NEW p \in U, NEW m \in U, nx[p] = m, key[m] \in Keys,
         \A n \in U : nx2[n] = IF n = p THEN nx[m] ELSE nx[n]
  PROVE  Chain(U, key, nx2, hm, UnlinkLast(U, key, L, p, m))
<1> DEFINE M == UnlinkLast(U, key, L, p, m)
           s == nx[m]
           j == key[m]
<1>1. \A k \in Keys : k \in Nat /\ k < MaxKey
  BY KeyBounds
<1>2. \A n \in U : key[n] \in Nat /\ key[n] <= MaxKey
  BY KeyBounds DEF Chain, Sorted
<1>3. MaxKey \in Nat
  BY KeyBounds
<1>4. Sorted(U, key, nx, hm) /\ LastOK(U, key, nx, hm, L)
  BY DEF Chain
<1>5. \A n \in U, k \in Keys :
        M[n][k] = IF key[n] < j /\ L[n][k] = m /\ L[n][j] = p THEN p ELSE L[n][k]
  BY DEF UnlinkLast
<1> HIDE DEF M
<1>6. s \in U /\ key[p] < j /\ j < key[s] /\ hm[m] = hm[p] /\ hm[s] = hm[p] /\ p # m
  BY <1>1, <1>2, <1>4 DEF Sorted
<1>7. Sorted(U, key, nx2, hm)
  BY <1>1, <1>2, <1>3, <1>4, <1>6 DEF Sorted
<1>8. LastOK(U, key, nx2, hm, M)
  <2>1. SUFFICES ASSUME NEW n \in U, NEW k \in Keys, key[n] < k
                 PROVE  /\ M[n][k] \in U /\ nx2[M[n][k]] \in U
                        /\ key[n] <= key[M[n][k]] /\ key[M[n][k]] < k /\ k <= key[nx2[M[n][k]]]
                        /\ hm[M[n][k]] = hm[n]
                        /\ M[n][k] = IF key[nx2[n]] < k THEN M[nx2[n]][k] ELSE n
    BY DEF LastOK
  <2>2. /\ L[n][k] \in U /\ nx[L[n][k]] \in U
        /\ key[n] <= key[L[n][k]] /\ key[L[n][k]] < k /\ k <= key[nx[L[n][k]]]
        /\ hm[L[n][k]] = hm[n]
        /\ L[n][k] = IF key[nx[n]] < k THEN L[nx[n]][k] ELSE n
    BY <1>4, <2>1 DEF LastOK
  <2>3. nx[n] \in U /\ key[n] < key[nx[n]]
    BY <1>1, <1>3, <1>2, <1>4, <2>1 DEF Sorted
  <2>4. M[n][k] = IF key[n] < j /\ L[n][k] = m /\ L[n][j] = p THEN p ELSE L[n][k]
    BY <1>5
  <2>5. key[n] < j => key[n] <= key[L[n][j]] /\ hm[L[n][j]] = hm[n]
    BY <1>4 DEF LastOK
  <2>6. /\ M[n][k] \in U /\ nx2[M[n][k]] \in U
        /\ key[n] <= key[M[n][k]] /\ key[M[n][k]] < k /\ k <= key[nx2[M[n][k]]]
        /\ hm[M[n][k]] = hm[n]
    <3>1. CASE key[n] < j /\ L[n][k] = m /\ L[n][j] = p
      BY <1>1, <1>2, <1>6, <2>2, <2>4, <2>5, <3>1
    <3>2. CASE ~(key[n] < j /\ L[n][k] = m /\ L[n][j] = p)
      <4>1. M[n][k] = L[n][k]
        BY <2>4, <3>2
      <4>2. CASE L[n][k] = p
        BY <1>1, <1>2, <1>6, <2>2, <4>1, <4>2
      <4>3. CASE L[n][k] # p
        BY <2>2, <4>1, <4>3
      <4>4. QED BY <4>2, <4>3
    <3>3. QED BY <3>1, <3>2
  <2>7. M[n][k] = IF key[nx2[n]] < k THEN M[nx2[n]][k] ELSE n
    <3>1. CASE n = p
      <4>1. nx2[n] = s
        BY <3>1
      <4>2. L[p][j] = p
        BY <1>1, <1>2, <1>4, <1>6 DEF LastOK
      <4>3. CASE key[s] < k
        <5>1. j < k
          BY <1>1, <1>2, <1>6, <4>3
        <5>2. L[m][k] = L[s][k] /\ key[s] <= key[L[s][k]]
          BY <1>4, <1>6, <4>3, <5>1 DEF LastOK
        <5>3. L[p][k] = L[s][k] /\ L[s][k] # m
          BY <1>1, <1>2, <1>6, <2>2, <3>1, <5>1, <5>2, <4>3
        <5>4. M[p][k] = L[s][k] /\ M[s][k] = L[s][k]
          BY <1>5, <1>6, <5>3
        <5>5. QED BY <3>1, <4>1, <4>3, <5>4
      <4>4. CASE ~(key[s] < k)
        <5>1. CASE j < k
          <6>1. L[m][k] = m
            BY <1>4, <1>6, <4>4, <5>1 DEF LastOK
          <6>2. L[p][k] = m
            BY <2>2, <3>1, <5>1, <6>1
          <6>3. QED BY <1>6, <2>4, <3>1, <4>1, <4>2, <4>4, <6>2
        <5>2. CASE ~(j < k)
          <6>1. L[p][k] = p
            BY <2>2, <3>1, <5>2
          <6>2. QED BY <1>6, <2>4, <3>1, <4>1, <4>4, <6>1
        <5>3. QED BY <5>1, <5>2
      <4>5. QED BY <4>3, <4>4
    <3>2. CASE n # p
      <4>1. nx2[n] = nx[n]
        BY <3>2
      <4>2. CASE key[nx[n]] < k
        <5>1. L[n][k] = L[nx[n]][k]
          BY <2>2, <4>2
        <5>2. CASE key[nx[n]] < j
          <6>1. key[n] < j
            BY <1>1, <1>2, <2>3, <5>2
          <6>2. L[n][j] = L[nx[n]][j]
            BY <1>4, <5>2, <6>1 DEF LastOK
          <6>3. QED BY <1>5, <2>3, <4>1, <4>2, <5>1, <5>2, <6>1, <6>2
        <5>3. CASE ~(key[nx[n]] < j)
          <6>1. key[n] < j => L[n][j] = n
            BY <1>4, <5>3 DEF LastOK
          <6>2. QED BY <1>5, <2>3, <3>2, <4>1, <4>2, <5>1, <5>3, <6>1
        <5>4. QED BY <5>2, <5>3
      <4>3. CASE ~(key[nx[n]] < k)
        <5>1. L[n][k] = n
          BY <2>2, <4>3
        <5>2. QED BY <1>2, <2>4, <4>1, <4>3, <5>1
      <4>4. QED BY <4>2, <4>3
    <3>3. QED BY <3>1, <3>2
  <2>8. QED BY <2>6, <2>7
<1>9. QED BY <1>7, <1>8 DEF Chain, M

-----------------------------------------------------------------------------
(* The heap.  Facts about a state, used before and after a step.           *)

HeapProps ==
  /\ \A k \in Keys : addr(k) \in Buckets
  /\ \A b \in Buckets :
       /\ min(b) \in Sentinels /\ max(b) \in Sentinels
       /\ Home[min(b)] = b /\ Home[max(b)] = b
       /\ node[min(b)].key = 0 /\ node[max(b)].key = MaxKey /\ node[max(b)].next = NULL
  /\ \A n \in Sentinels :
       /\ n \in used /\ ~node[n].marked /\ Home[n] \in Buckets
       /\ n = min(Home[n]) \/ n = max(Home[n])
       /\ node[n].key \in {0, MaxKey}
  /\ \A n \in used : n \notin Sentinels =>
       /\ node[n].key \in Keys /\ node[n].val \in Vals
       /\ Home[n] = addr(node[n].key) /\ Home[n] \in Buckets
  /\ NULL \notin Nodes /\ Nodes \subseteq Nat /\ used \subseteq Nodes /\ NULL \notin used
  /\ \A n \in used : /\ node[n].val \in Vals \cup {0} /\ node[n].lock \in Nat /\ node[n].marked \in BOOLEAN
                     /\ NodeKey[n] = node[n].key /\ NodeNext[n] = node[n].next

LEMMA Halves ==
  ASSUME NEW n \in Nat
  PROVE  \E h \in Nat : h = n \div 2 /\ (n = 2 * h \/ n = 2 * h + 1)
OBVIOUS

LEMMA HeapFacts == HeapOK => HeapProps
<1> SUFFICES ASSUME HeapOK PROVE HeapProps
  OBVIOUS
<1>1. set.buckets \in Nat \ {0} /\ set.nodes \in Nat
  BY DEF HeapOK
<1>2. Sentinels = 0..(2 * set.buckets - 1)
  BY DEF HeapOK, Sentinels, SortedLists
<1>3. \A k \in Keys : addr(k) \in Buckets
  BY <1>1, KeyBounds DEF addr, hash, Buckets
<1>4. Sentinels \subseteq used /\ used \subseteq Nodes
  BY DEF HeapOK
<1>5. NULL \notin Nodes /\ Nodes \subseteq Nat
  BY <1>1 DEF NULL, Nodes
<1>6. \A b \in Buckets : b \in Nat /\ min(b) \in Sentinels /\ max(b) \in Sentinels
  BY <1>1, <1>2 DEF Buckets, min, max
<1>7. \A n \in Sentinels : n \in Nodes /\ Home[n] = n \div 2
  BY <1>4 DEF Home
<1>8. \A b \in Buckets : Home[min(b)] = b /\ Home[max(b)] = b
  BY <1>6, <1>7 DEF min, max
<1>9. /\ \A n \in Sentinels : ~node[n].marked
      /\ \A b \in Buckets : node[min(b)].key = 0 /\ node[max(b)].key = MaxKey /\ node[max(b)].next = NULL
  BY DEF HeapOK
<1>10. ASSUME NEW n \in Sentinels
       PROVE  /\ Home[n] \in Buckets /\ (n = min(Home[n]) \/ n = max(Home[n]))
              /\ node[n].key \in {0, MaxKey}
  <2>1. PICK h \in Nat : h = n \div 2 /\ (n = 2 * h \/ n = 2 * h + 1)
    BY <1>4, <1>5, Halves
  <2>2. n \in 0..(2 * set.buckets - 1) /\ Home[n] = h
    BY <1>2, <1>7, <2>1
  <2>3. h \in Buckets
    BY <1>1, <2>1, <2>2 DEF Buckets
  <2>4. n = min(h) \/ n = max(h)
    BY <2>1 DEF min, max
  <2>5. QED BY <1>9, <2>2, <2>3, <2>4
<1>11. \A n \in used : n \notin Sentinels =>
         /\ node[n].key \in Keys /\ node[n].val \in Vals
         /\ Home[n] = addr(node[n].key) /\ Home[n] \in Buckets
  BY <1>3, <1>4 DEF Home, HeapOK
<1>12. \A n \in used :
         /\ node[n].val \in Vals \cup {0} /\ node[n].lock \in Nat /\ node[n].marked \in BOOLEAN
         /\ NodeKey[n] = node[n].key /\ NodeNext[n] = node[n].next
  <2>1. \A n \in used : n \in Nodes /\ node[n] \in NodeSet
    BY <1>4 DEF HeapOK
  <2>2. QED BY <2>1 DEF NodeKey, NodeNext, NodeSet
<1>13. QED BY <1>3, <1>4, <1>5, <1>6, <1>8, <1>9, <1>10, <1>11, <1>12 DEF HeapProps

LEMMA HeapFactsAfter == HeapOK' => HeapProps'
BY HeapFacts, PTL

ChainProps(L) ==
  /\ \A n \in used :
       /\ node[n].key \in Nat /\ node[n].key <= MaxKey
       /\ node[n].next \in used \cup {NULL}
       /\ node[n].key < MaxKey => node[n].next \in used
       /\ node[n].next \in used =>
            node[n].key < node[node[n].next].key /\ Home[node[n].next] = Home[n]
  /\ \A n \in used : \A k \in Keys :
       node[n].key < k =>
         /\ L[n][k] \in used /\ node[L[n][k]].next \in used
         /\ node[n].key <= node[L[n][k]].key /\ node[L[n][k]].key < k
         /\ k <= node[node[L[n][k]].next].key
         /\ Home[L[n][k]] = Home[n]
         /\ node[n].next \in used
         /\ L[n][k] = IF node[node[n].next].key < k THEN L[node[n].next][k] ELSE n

LEMMA ChainFacts == \A L : HeapOK /\ ChainOK(L) => ChainProps(L)
<1> SUFFICES ASSUME NEW L, HeapOK, ChainOK(L) PROVE ChainProps(L)
  OBVIOUS
<1>1. /\ \A n \in used : NodeKey[n] = node[n].key /\ NodeNext[n] = node[n].next
      /\ NULL \notin used
  BY HeapFacts DEF HeapProps
<1>2. Sorted(used, NodeKey, NodeNext, Home) /\ LastOK(used, NodeKey, NodeNext, Home, L)
  BY DEF ChainOK, Chain
<1>3. \A n \in used :
        /\ node[n].key \in Nat /\ node[n].key <= MaxKey
        /\ node[n].next \in used \cup {NULL}
        /\ node[n].key < MaxKey => node[n].next \in used
        /\ node[n].next \in used =>
             node[n].key < node[node[n].next].key /\ Home[node[n].next] = Home[n]
  BY <1>1, <1>2, KeyBounds DEF Sorted
<1>4. ASSUME NEW n \in used, NEW k \in Keys, node[n].key < k
      PROVE  /\ L[n][k] \in used /\ node[L[n][k]].next \in used
             /\ node[n].key <= node[L[n][k]].key /\ node[L[n][k]].key < k
             /\ k <= node[node[L[n][k]].next].key
             /\ Home[L[n][k]] = Home[n]
             /\ node[n].next \in used
             /\ L[n][k] = IF node[node[n].next].key < k THEN L[node[n].next][k] ELSE n
  <2>1. node[n].next \in used
    BY <1>3, <1>4, KeyBounds
  <2>2. QED BY <1>1, <1>2, <1>4, <2>1 DEF LastOK
<1>5. QED BY <1>3, <1>4 DEF ChainProps

LEMMA ChainFactsAfter == (\A L : HeapOK /\ ChainOK(L) => ChainProps(L))'
BY ChainFacts, PTL

\* A node of the list with a key below k, whose successor is not below k, is what a
\* walk for k from the head finds last.
LEMMA LiveIsLast ==
  ASSUME HeapOK, NEW L, ChainOK(L), NEW p \in used, Live(L, p), NEW k \in Keys,
         node[p].key < k, k <= node[node[p].next].key, Home[p] = addr(k)
  PROVE  L[min(addr(k))][k] = p
<1> DEFINE h == min(addr(k))
<1>0. HeapProps /\ ChainProps(L)
  BY HeapFacts, ChainFacts
<1>1. /\ h \in used /\ Home[h] = addr(k) /\ node[h].key = 0 /\ addr(k) \in Buckets
      /\ k \in Nat /\ 0 < k /\ k < MaxKey /\ node[p].key \in Nat /\ MaxKey \in Nat
      /\ node[p].next \in used /\ node[node[p].next].key \in Nat
  BY <1>0, KeyBounds DEF HeapProps, ChainProps
<1>2. L[p][k] = p
  BY <1>0, <1>1 DEF ChainProps
<1>3. CASE p \in Sentinels
  <2>1. p = h
    BY <1>0, <1>1, <1>3 DEF HeapProps
  <2>2. QED BY <1>2, <2>1
<1>4. CASE p \notin Sentinels
  <2> DEFINE j == node[p].key
  <2>1. j \in Keys /\ node[L[min(Home[p])][j]].next = p /\ 0 < j
    BY <1>0, <1>4, KeyBounds DEF Live, On, HeapProps
  <2>2. node[L[h][j]].next = p /\ L[h][j] \in used
    BY <1>0, <1>1, <2>1 DEF ChainProps
  <2>3. NodeKey[h] = 0 /\ NodeNext[L[h][j]] = p /\ NodeKey[p] = j
    BY <1>0, <1>1, <2>2 DEF HeapProps
  <2>4. Chain(used, NodeKey, NodeNext, Home, L)
    BY DEF ChainOK
  <2>5. L[h][k] = IF NodeKey[NodeNext[L[h][j]]] < k THEN L[NodeNext[L[h][j]]][k] ELSE L[h][j]
    <3>1. j <= k /\ NodeKey[h] < j /\ h \in used /\ j \in Keys
      BY <1>1, <2>1, <2>3
    <3> HIDE DEF h, j
    <3>2. QED BY <2>4, <3>1, Through
  <2>6. QED BY <1>2, <2>3, <2>5
<1>5. QED BY <1>3, <1>4

\* The successor of a node of the list is in the list.
LEMMA NextIsLive ==
  ASSUME HeapOK, NEW L, ChainOK(L), NEW p \in used, Live(L, p), node[p].next # NULL
  PROVE  node[p].next \in used /\ Live(L, node[p].next)
<1> DEFINE n == node[p].next
           k == node[n].key
<1>0. HeapProps /\ ChainProps(L)
  BY HeapFacts, ChainFacts
<1>1. n \in used /\ node[p].key < k /\ Home[n] = Home[p] /\ k \in Nat
  BY <1>0 DEF ChainProps
<1>2. CASE n \in Sentinels
  BY <1>1, <1>2 DEF Live
<1>3. CASE n \notin Sentinels
  <2>1. k \in Keys /\ Home[n] = addr(k)
    BY <1>0, <1>1, <1>3 DEF HeapProps
  <2>2. L[min(addr(k))][k] = p
    <3>1. Home[p] = addr(k) /\ k <= node[node[p].next].key
      BY <1>1, <2>1
    <3> HIDE DEF k
    <3>2. QED BY <1>1, <2>1, <3>1, LiveIsLast
  <2>3. QED BY <1>1, <1>3, <2>1, <2>2 DEF Live, On
<1>4. QED BY <1>2, <1>3

\* What a walk for k from the head finds at its end is in the list.
LEMMA FoundIsLive ==
  ASSUME HeapOK, NEW L, ChainOK(L), NEW k \in Keys
  PROVE  LET h == min(addr(k))
             e == node[L[h][k]].next
         IN  /\ h \in used /\ node[h].key < k /\ L[h][k] \in used
             /\ End(L, h, k) = e /\ e \in used /\ k <= node[e].key /\ Home[e] = addr(k)
             /\ node[e].key = k => On(L, e)
<1> DEFINE h == min(addr(k))
           e == node[L[h][k]].next
<1>0. HeapProps /\ ChainProps(L)
  BY HeapFacts, ChainFacts
<1>1. h \in used /\ node[h].key < k /\ Home[h] = addr(k) /\ k \in Nat /\ 0 < k /\ k < MaxKey
  BY <1>0, KeyBounds DEF HeapProps
<1>2. End(L, h, k) = e
  BY <1>1 DEF End
<1>3. e \in used /\ k <= node[e].key /\ L[h][k] \in used /\ Home[e] = addr(k)
  BY <1>0, <1>1 DEF ChainProps
<1>4. ASSUME node[e].key = k PROVE On(L, e)
  <2>1. e \notin Sentinels
    BY <1>0, <1>1, <1>4, KeyBounds DEF HeapProps
  <2>2. QED BY <1>3, <1>4, <2>1 DEF On
<1>5. QED BY <1>1, <1>2, <1>3, <1>4

\* One turn of a walk does not change where the walk ends.
LEMMA WalkOn ==
  ASSUME HeapOK, NEW L, ChainOK(L), NEW c \in used, NEW k \in Keys, node[c].key < k
  PROVE  /\ node[c].next \in used /\ Home[node[c].next] = Home[c]
         /\ Result(L, node[c].next, k) = Result(L, c, k)
<1>0. HeapProps /\ ChainProps(L)
  BY HeapFacts, ChainFacts
<1>1. node[c].next \in used /\ Home[node[c].next] = Home[c]
  BY <1>0 DEF ChainProps
<1>2. L[c][k] = IF node[node[c].next].key < k THEN L[node[c].next][k] ELSE c
  BY <1>0 DEF ChainProps
<1>3. End(L, node[c].next, k) = End(L, c, k)
  BY <1>2 DEF End
<1>4. QED BY <1>1, <1>3 DEF Result

-----------------------------------------------------------------------------
(* The heap when a step changes it.                                        *)

LEMMA SetSame ==
  ASSUME set' = set
  PROVE  /\ Nodes' = Nodes /\ Sentinels' = Sentinels /\ Buckets' = Buckets
         /\ \A k : addr(k)' = addr(k)
BY DEF Nodes, Sentinels, Buckets, addr, hash

\* The nodes and what is in them but for their locks stay.
SameNodes ==
  /\ set' = set /\ used' = used
  /\ \A n \in Nodes : /\ node'[n].key = node[n].key /\ node'[n].val = node[n].val
                      /\ node'[n].next = node[n].next /\ node'[n].marked = node[n].marked

\* One field of one node changes.
LEMMA NodesLock ==
  ASSUME HeapOK, NEW n \in Nodes, NEW w \in Nat, node' = [node EXCEPT ![n].lock = w]
  PROVE  /\ node' \in [Nodes -> NodeSet]
         /\ \A m \in Nodes :
              /\ node'[m].key = node[m].key /\ node'[m].val = node[m].val
              /\ node'[m].next = node[m].next /\ node'[m].marked = node[m].marked
              /\ node'[m].lock = IF m = n THEN w ELSE node[m].lock
<1>1. node \in [Nodes -> NodeSet]
  BY DEF HeapOK
<1>2. QED BY <1>1 DEF NodeSet

LEMMA NodesUnlocked ==
  ASSUME HeapOK, NEW S,
         node' = [n \in Nodes |-> IF n \in S THEN [node[n] EXCEPT !.lock = TAS_FREE] ELSE node[n]]
  PROVE  /\ node' \in [Nodes -> NodeSet]
         /\ \A m \in Nodes :
              /\ node'[m].key = node[m].key /\ node'[m].val = node[m].val
              /\ node'[m].next = node[m].next /\ node'[m].marked = node[m].marked
              /\ node'[m].lock = IF m \in S THEN TAS_FREE ELSE node[m].lock
<1>1. node \in [Nodes -> NodeSet] /\ TAS_FREE \in Nat
  BY DEF HeapOK, TAS_FREE
<1>2. \A m \in Nodes : node[m] \in NodeSet
  BY <1>1
<1>3. \A m \in Nodes : [node[m] EXCEPT !.lock = TAS_FREE] \in NodeSet
  BY <1>1, <1>2 DEF NodeSet
<1>4. QED BY <1>1, <1>2, <1>3 DEF NodeSet

LEMMA NodesMark ==
  ASSUME HeapOK, NEW n \in Nodes, node' = [node EXCEPT ![n].marked = TRUE]
  PROVE  /\ node' \in [Nodes -> NodeSet]
         /\ \A m \in Nodes :
              /\ node'[m].key = node[m].key /\ node'[m].val = node[m].val
              /\ node'[m].next = node[m].next /\ node'[m].marked = IF m = n THEN TRUE ELSE node[m].marked
              /\ node'[m].lock = node[m].lock
<1>1. node \in [Nodes -> NodeSet]
  BY DEF HeapOK
<1>2. QED BY <1>1 DEF NodeSet

LEMMA NodesNext ==
  ASSUME HeapOK, NEW p \in Nodes, NEW s \in Nodes, node' = [node EXCEPT ![p].next = s]
  PROVE  /\ node' \in [Nodes -> NodeSet]
         /\ \A m \in Nodes :
              /\ node'[m].key = node[m].key /\ node'[m].val = node[m].val
              /\ node'[m].next = IF m = p THEN s ELSE node[m].next
              /\ node'[m].marked = node[m].marked /\ node'[m].lock = node[m].lock
<1>1. node \in [Nodes -> NodeSet]
  BY DEF HeapOK
<1>2. QED BY <1>1 DEF NodeSet

LEMMA NodesLink ==
  ASSUME HeapOK, NEW p \in Nodes, NEW new \in Nodes, p # new, NEW r \in NodeSet,
         node' = [node EXCEPT ![new] = r, ![p].next = new]
  PROVE  /\ node' \in [Nodes -> NodeSet]
         /\ node'[new] = r
         /\ \A m \in Nodes \ {new} :
              /\ node'[m].key = node[m].key /\ node'[m].val = node[m].val
              /\ node'[m].next = IF m = p THEN new ELSE node[m].next
              /\ node'[m].marked = node[m].marked /\ node'[m].lock = node[m].lock
<1>1. node \in [Nodes -> NodeSet]
  BY DEF HeapOK
<1>2. QED BY <1>1 DEF NodeSet

\* The part of HeapOK that a step might break.
LEMMA HeapKept ==
  ASSUME HeapOK, set' = set, node' \in [Nodes -> NodeSet],
         used \subseteq used', used' \subseteq Nodes, freed' \in [Nodes -> {0, 1}],
         lock' \in [Buckets -> Nat],
         \A n \in used : node'[n].key = node[n].key /\ node'[n].val = node[n].val,
         \A n \in Sentinels : node'[n].marked = node[n].marked,
         \A b \in Buckets : node'[max(b)].next = node[max(b)].next,
         \A n \in used' \ used : node'[n].key \in Keys /\ node'[n].val \in Vals
  PROVE  HeapOK'
<1>1. /\ Nodes' = Nodes /\ Sentinels' = Sentinels /\ Buckets' = Buckets /\ NodeSet' = NodeSet
  BY SetSame DEF NodeSet
<1>2. \A b \in Buckets : min(b) \in used /\ max(b) \in used
  BY HeapFacts DEF HeapProps
<1>3. QED BY <1>1, <1>2 DEF HeapOK, min, max

\* The buckets stay.
LEMMA HomeKept ==
  ASSUME HeapOK, set' = set, \A n \in used : node'[n].key = node[n].key
  PROVE  \A n \in used : Home'[n] = Home[n]
<1>1. /\ Nodes' = Nodes /\ Sentinels' = Sentinels
      /\ \A k : addr(k)' = addr(k)
  BY SetSame
<1>2. used \subseteq Nodes
  BY DEF HeapOK
<1>3. SUFFICES ASSUME NEW n \in used PROVE Home'[n] = Home[n]
  OBVIOUS
<1>4. addr(node[n].key)' = addr(node[n].key)
  BY SetSame DEF addr, hash
<1>5. QED BY <1>1, <1>2, <1>4 DEF Home

\* As long as keys and pointers stay, so does the chain.
LEMMA ChainSame ==
  ASSUME HeapOK, NEW L, ChainOK(L), set' = set, used' = used,
         \A n \in Nodes : node'[n].key = node[n].key /\ node'[n].next = node[n].next
  PROVE  /\ ChainOK(L)'
         /\ \A n \in used : On(L, n)' <=> On(L, n)
         /\ \A n \in used : \A k \in Keys : End(L, n, k)' = End(L, n, k)
<1>1. /\ Nodes' = Nodes /\ Sentinels' = Sentinels /\ Buckets' = Buckets /\ used \subseteq Nodes
      /\ \A k : addr(k)' = addr(k)
  BY SetSame DEF HeapOK
<1>2. NodeKey' = NodeKey /\ NodeNext' = NodeNext
  BY <1>1 DEF NodeKey, NodeNext
<1>3. Home' = Home
  <2>1. ASSUME NEW n \in Nodes PROVE addr(node[n].key)' = addr(node[n].key)
    BY DEF addr, hash
  <2>2. QED BY <1>1, <2>1 DEF Home
<1>4. ChainOK(L)'
  BY <1>2, <1>3 DEF ChainOK
<1>5. HeapProps /\ ChainProps(L)
  BY HeapFacts, ChainFacts
<1>6. ASSUME NEW n \in used PROVE On(L, n)' <=> On(L, n)
  <2>1. CASE n \in Sentinels
    BY <1>1, <2>1 DEF On
  <2>2. CASE n \notin Sentinels
    <3>1. min(Home[n]) \in used /\ node[min(Home[n])].key < node[n].key /\ node[n].key \in Keys
      BY <1>5, <2>2, KeyBounds DEF HeapProps
    <3>2. L[min(Home[n])][node[n].key] \in Nodes
      BY <1>1, <1>5, <3>1 DEF ChainProps
    <3>3. min(Home[n])' = min(Home[n])
      BY <1>3 DEF min
    <3>4. QED BY <1>1, <3>2, <3>3 DEF On
  <2>3. QED BY <2>1, <2>2
<1>7. ASSUME NEW n \in used, NEW k \in Keys PROVE End(L, n, k)' = End(L, n, k)
  <2>1. node[n].key < k => L[n][k] \in Nodes
    BY <1>1, <1>5 DEF ChainProps
  <2>2. QED BY <1>1, <2>1 DEF End
<1>8. QED BY <1>4, <1>6, <1>7

\* A search that gets to a used node ends on a used node.
LEMMA EndUsed ==
  ASSUME HeapOK, NEW L, ChainOK(L), NEW n \in used, NEW k \in Keys
  PROVE  End(L, n, k) \in used /\ k <= node[End(L, n, k)].key /\ Home[End(L, n, k)] = Home[n]
<1>1. HeapProps /\ ChainProps(L)
  BY HeapFacts, ChainFacts
<1>2. node[n].key \in Nat /\ k \in Nat
  BY <1>1, KeyBounds DEF ChainProps
<1>3. CASE node[n].key < k
  BY <1>1, <1>3 DEF ChainProps, End
<1>4. CASE ~(node[n].key < k)
  BY <1>2, <1>4 DEF End
<1>5. QED BY <1>3, <1>4

LEMMA HeapSame ==
  ASSUME HeapOK, NEW L, ChainOK(L), SameNodes
  PROVE  /\ ChainOK(L)'
         /\ \A n \in used : On(L, n)' <=> On(L, n)
         /\ \A n \in used : \A k \in Keys : Result(L, n, k)' = Result(L, n, k)
<1>1. /\ ChainOK(L)'
      /\ \A n \in used : On(L, n)' <=> On(L, n)
      /\ \A n \in used : \A k \in Keys : End(L, n, k)' = End(L, n, k)
  BY ChainSame DEF SameNodes
<1>2. ASSUME NEW n \in used, NEW k \in Keys PROVE Result(L, n, k)' = Result(L, n, k)
  <2>1. End(L, n, k) \in Nodes
    BY EndUsed DEF HeapOK
  <2>2. QED BY <1>1, <2>1 DEF Result, ValOf, SameNodes, None, Abs!None
<1>3. QED BY <1>1, <1>2

\* Only the mark of m changes.
Marks(m) ==
  /\ set' = set /\ used' = used
  /\ \A n \in Nodes : /\ node'[n].key = node[n].key /\ node'[n].val = node[n].val
                      /\ node'[n].next = node[n].next
                      /\ node'[n].marked = IF n = m THEN TRUE ELSE node[n].marked

\* m, with key j, is marked: what was found in it is not found any more.
LEMMA HeapMark ==
  ASSUME HeapOK, NEW L, ChainOK(L), NEW m \in used, On(L, m), NEW j, node[m].key = j, Marks(m)
  PROVE  /\ ChainOK(L)'
         /\ \A n \in used : On(L, n)' <=> On(L, n)
         /\ \A n \in used : \A k \in Keys :
              Result(L, n, k)' = Result(L, n, k) \/ (k = j /\ Result(L, n, k)' = None)
         /\ Result(L, min(addr(j)), j)' = None
<1>1. /\ ChainOK(L)'
      /\ \A n \in used : On(L, n)' <=> On(L, n)
      /\ \A n \in used : \A k \in Keys : End(L, n, k)' = End(L, n, k)
  BY ChainSame DEF Marks
<1>2. ASSUME NEW n \in used, NEW k \in Keys
      PROVE  /\ Result(L, n, k)' = Result(L, n, k) \/ (k = j /\ Result(L, n, k)' = None)
             /\ End(L, n, k) = m => Result(L, n, k)' = None
  <2>1. End(L, n, k) \in Nodes
    BY EndUsed DEF HeapOK
  <2>2. QED BY <1>1, <2>1 DEF Result, ValOf, None, Abs!None, Marks
<1>3. /\ j \in Keys /\ Home[m] = addr(j)
      /\ min(addr(j)) \in used /\ node[min(addr(j))].key < j
  BY HeapFacts, KeyBounds DEF HeapProps, On
<1>4. End(L, min(addr(j)), j) = m
  BY <1>3 DEF On, End
<1> DEFINE h == min(addr(j))
<1>5. Result(L, h, j)' = None
  <2>1. h' = h
    BY SetSame DEF min, Marks
  <2>2. \A x \in used : End(L, x, j) = m => Result(L, x, j)' = None
    BY <1>2, <1>3
  <2>3. PICK x \in used : x = h
    BY <1>3
  <2>4. Result(L, x, j)' = None
    BY <1>4, <2>2, <2>3
  <2>5. QED BY <2>1, <2>3, <2>4 DEF Result
<1>6. QED BY <1>1, <1>2, <1>5

\* new, with key j and value v, is linked behind p.
LEMMA HeapLink ==
  ASSUME HeapOK, HeapOK', NEW L, ChainOK(L), NEW j \in Keys, NEW v,
         NEW p \in used, Live(L, p), node[p].key < j, Home[p] = addr(j),
         node[p].next \in used, j < node[node[p].next].key,
         NEW new \in Nodes \ used, set' = set, used' = used \cup {new},
         node'[new].key = j, node'[new].val = v, node'[new].next = node[p].next, ~node'[new].marked,
         \A n \in Nodes \ {new} :
           /\ node'[n].key = node[n].key /\ node'[n].val = node[n].val
           /\ node'[n].next = IF n = p THEN new ELSE node[n].next
           /\ node'[n].marked = node[n].marked
  PROVE  \E L2 :
           /\ ChainOK(L2)'
           /\ \A n \in used : On(L2, n)' <=> On(L, n)
           /\ On(L2, new)' /\ Home'[new] = addr(j)
           /\ \A n \in used : \A k \in Keys :
                Result(L2, n, k)' = Result(L, n, k) \/ (k = j /\ Result(L2, n, k)' = v)
           /\ Result(L2, min(addr(j)), j)' = v
<1> DEFINE c == node[p].next
           h == min(addr(j))
<1>1. /\ Nodes' = Nodes /\ Sentinels' = Sentinels /\ Buckets' = Buckets
      /\ \A k : addr(k)' = addr(k)
  BY SetSame
<1>2. HeapProps /\ ChainProps(L) /\ HeapProps'
  BY HeapFacts, ChainFacts, HeapFactsAfter
<1>3. /\ new \notin used /\ new # NULL /\ new # p /\ used \subseteq Nodes /\ p \in Nodes
      /\ new \notin Sentinels /\ NULL \notin used
  BY <1>2 DEF HeapProps
<1>4. \A n \in used : Home'[n] = Home[n]
  BY <1>3, HomeKept
<1>5. Home'[new] = addr(j)
  BY <1>1, <1>3 DEF Home
<1>6. PICK L2 : L2 = LinkLast(used, NodeKey, NodeNext, L, p, new, j)
  OBVIOUS
<1>7. /\ \A n \in used : NodeKey[n] = node[n].key /\ NodeNext[n] = node[n].next
      /\ \A n \in used' : NodeKey'[n] = node'[n].key /\ NodeNext'[n] = node'[n].next
  BY <1>2 DEF HeapProps
<1>8. Chain(used \cup {new}, NodeKey', NodeNext', Home', LinkLast(used, NodeKey, NodeNext, L, p, new, j))
  <2>1. Chain(used, NodeKey, NodeNext, Home, L)
    BY DEF ChainOK
  <2>2. /\ NodeNext[p] \in used /\ NodeKey[p] < j /\ j < NodeKey[NodeNext[p]]
        /\ NodeKey'[new] = j /\ NodeNext'[new] = NodeNext[p] /\ Home'[new] = Home[p]
    BY <1>5, <1>7
  <2>3. \A n \in used : /\ NodeKey'[n] = NodeKey[n] /\ Home'[n] = Home[n]
                        /\ NodeNext'[n] = IF n = p THEN new ELSE NodeNext[n]
    BY <1>3, <1>4, <1>7
  <2>4. QED BY <1>3, <2>1, <2>2, <2>3, ChainLink
<1>9. ChainOK(L2)'
  BY <1>6, <1>8 DEF ChainOK
<1>10. \A n \in used, k \in Keys : L2[n][k] = IF L[n][k] = p /\ j < k THEN new ELSE L[n][k]
  BY <1>3, <1>6 DEF LinkLast
<1>11. c \in used /\ node[c].key \in Nat /\ j \in Nat /\ j < node[c].key /\ \A k \in Keys : k \in Nat
  BY <1>2, KeyBounds DEF ChainProps
\* Where a walk for k ends, from a node with a smaller key.
<1>12. ASSUME NEW n \in used, NEW k \in Keys, node[n].key < k
       PROVE  /\ node'[n].key < k
              /\ L[n][k] \in used /\ node[L[n][k]].next \in used
              /\ node'[L2[n][k]].next =
                   IF L[n][k] = p /\ k <= j THEN new ELSE node[L[n][k]].next
              /\ L[n][k] = p => node[L[n][k]].next = c
  <2>1. L[n][k] \in used /\ node[L[n][k]].next \in used
    BY <1>2, <1>12 DEF ChainProps
  <2>2. /\ L2[n][k] = IF L[n][k] = p /\ j < k THEN new ELSE L[n][k]
        /\ L[n][k] \in Nodes \ {new} /\ n \in Nodes \ {new} /\ k \in Nat
    BY <1>3, <1>10, <1>11, <2>1
  <2>3. CASE L[n][k] = p
    BY <1>11, <1>12, <2>1, <2>2, <2>3
  <2>4. CASE L[n][k] # p
    BY <1>12, <2>1, <2>2, <2>4
  <2>5. QED BY <2>3, <2>4
<1>13. ASSUME NEW n \in used PROVE On(L2, n)' <=> On(L, n)
  <2>1. CASE n \in Sentinels
    BY <1>1, <2>1 DEF On
  <2>2. CASE n \notin Sentinels
    <3> DEFINE g == min(Home[n])
               k == node[n].key
    <3>1. g \in used /\ node[g].key < k /\ k \in Keys
      BY <1>2, <2>2, KeyBounds DEF HeapProps
    <3>2. g' = g /\ k' = k
      BY <1>3, <1>4 DEF min
    <3>3. On(L, n) <=> node[L[g][k]].next = n
      BY <2>2 DEF On
    <3>4. On(L2, n)' <=> node'[L2[g][k]].next = n
      BY <1>1, <2>2, <3>2 DEF On
    <3>5. node'[L2[g][k]].next = IF L[g][k] = p /\ k <= j THEN new ELSE node[L[g][k]].next
      BY <1>12, <3>1
    <3>6. L[g][k] = p /\ k <= j => node[L[g][k]].next # n
      BY <1>11, <3>1
    <3>7. QED BY <1>3, <3>3, <3>4, <3>5, <3>6
  <2>3. QED BY <2>1, <2>2
<1>14. h \in used /\ node[h].key < j /\ L[h][j] = p /\ h' = h
  <2>1. h \in used /\ node[h].key < j
    BY <1>2, KeyBounds DEF HeapProps
  <2>2. j <= node[node[p].next].key
    BY <1>11
  <2>3. L[h][j] = p
    BY <2>2, LiveIsLast
  <2>4. QED BY <1>1, <2>1, <2>3 DEF min
<1>15. node'[L2[h][j]].next = new
  BY <1>11, <1>12, <1>14
<1>16. On(L2, new)'
  <2>1. min(Home'[new]) = h
    BY <1>5
  <2>2. QED BY <1>1, <1>3, <1>15, <2>1 DEF On, min
<1>17. ASSUME NEW n \in used, NEW k \in Keys
       PROVE  Result(L2, n, k)' = Result(L, n, k) \/ (k = j /\ Result(L2, n, k)' = v)
  <2>1. CASE node[n].key < k
    <3>1. End(L, n, k) = node[L[n][k]].next /\ End(L2, n, k)' = node'[L2[n][k]].next
      BY <1>12, <2>1 DEF End
    <3>2. CASE L[n][k] = p /\ k <= j
      <4>1. End(L, n, k) = c /\ End(L2, n, k)' = new
        BY <1>12, <2>1, <3>1, <3>2
      <4>2. Result(L, n, k) = None
        BY <1>11, <3>2, <4>1 DEF Result, ValOf
      <4>3. Result(L2, n, k)' = IF k = j THEN v ELSE None
        BY <4>1 DEF Result, ValOf, None, Abs!None
      <4>4. QED BY <4>2, <4>3
    <3>3. CASE ~(L[n][k] = p /\ k <= j)
      <4>1. End(L, n, k) \in Nodes \ {new} /\ End(L2, n, k)' = End(L, n, k)
        BY <1>3, <1>12, <2>1, <3>1, <3>3
      <4>2. QED BY <4>1 DEF Result, ValOf, None, Abs!None
    <3>4. QED BY <3>2, <3>3
  <2>2. CASE ~(node[n].key < k)
    <3>1. End(L, n, k) = n /\ End(L2, n, k)' = n
      BY <1>3, <2>2 DEF End
    <3>2. QED BY <1>3, <3>1 DEF Result, ValOf, None, Abs!None
  <2>3. QED BY <2>1, <2>2
<1>18. Result(L2, h, j)' = v
  <2>1. End(L2, h, j)' = new
    BY <1>12, <1>14, <1>15 DEF End
  <2>2. QED BY <2>1 DEF Result, ValOf
<1>19. QED BY <1>5, <1>9, <1>13, <1>16, <1>17, <1>18

\* m, with key j, is unlinked from p.
LEMMA HeapUnlink ==
  ASSUME HeapOK, HeapOK', NEW L, ChainOK(L),
         NEW p \in used, Live(L, p), NEW m \in used \ Sentinels, node[p].next = m, NEW j, node[m].key = j,
         set' = set, used' = used,
         \A n \in Nodes :
           /\ node'[n].key = node[n].key /\ node'[n].val = node[n].val
           /\ node'[n].next = IF n = p THEN node[m].next ELSE node[n].next
           /\ node'[n].marked = node[n].marked
  PROVE  \E L2 :
           /\ ChainOK(L2)' /\ On(L, m)
           /\ \A n \in used : On(L2, n)' <=> On(L, n) /\ n # m
           /\ \A n \in used : \A k \in Keys :
                \/ Result(L2, n, k)' = Result(L, n, k)
                \/ k = j /\ ~node[m].marked /\ Result(L2, n, k)' = None
           /\ Result(L2, min(addr(j)), j)' = None
<1> DEFINE s == node[m].next
           h == min(addr(j))
<1>1. /\ Nodes' = Nodes /\ Sentinels' = Sentinels /\ Buckets' = Buckets
      /\ \A k : addr(k)' = addr(k)
  BY SetSame
<1>2. HeapProps /\ ChainProps(L) /\ HeapProps'
  BY HeapFacts, ChainFacts, HeapFactsAfter
<1>3. used \subseteq Nodes /\ p \in Nodes /\ m \in Nodes /\ NULL \notin used /\ j \in Keys
  BY <1>2 DEF HeapProps
<1>4. \A n \in used : Home'[n] = Home[n]
  BY <1>3, HomeKept
<1>5. /\ s \in used /\ node[s].key \in Nat /\ j < node[s].key /\ node[p].key \in Nat /\ node[p].key < j
      /\ j \in Nat /\ \A k \in Keys : k \in Nat
      /\ p # m /\ s # m /\ Home[p] = addr(j)
  <2>1. /\ j \in Nat /\ MaxKey \in Nat /\ j < MaxKey /\ \A k \in Keys : k \in Nat
        /\ Home[m] = addr(j)
    BY <1>2, <1>3, KeyBounds DEF HeapProps
  <2>2. s \in used /\ node[s].key \in Nat /\ j < node[s].key
    BY <1>2, <2>1 DEF ChainProps
  <2>3. node[p].key \in Nat /\ node[p].key < j /\ Home[p] = Home[m]
    BY <1>2 DEF ChainProps
  <2>4. QED BY <2>1, <2>2, <2>3
<1>6. PICK L2 : L2 = UnlinkLast(used, NodeKey, L, p, m)
  OBVIOUS
<1>7. /\ \A n \in used : NodeKey[n] = node[n].key /\ NodeNext[n] = node[n].next
      /\ \A n \in used : NodeKey'[n] = node'[n].key /\ NodeNext'[n] = node'[n].next
  BY <1>2 DEF HeapProps
<1>8. Chain(used, NodeKey, NodeNext', Home, UnlinkLast(used, NodeKey, L, p, m))
  <2>1. Chain(used, NodeKey, NodeNext, Home, L)
    BY DEF ChainOK
  <2>2. NodeNext[p] = m /\ NodeKey[m] \in Keys
    BY <1>3, <1>7
  <2>3. \A n \in used : NodeNext'[n] = IF n = p THEN NodeNext[m] ELSE NodeNext[n]
    BY <1>3, <1>7
  <2>4. QED BY <2>1, <2>2, <2>3, ChainUnlink
<1>9. ChainOK(L2)'
  <2>1. NodeKey' = NodeKey
    BY <1>1 DEF NodeKey
  <2>2. Home' = Home
    <3>1. ASSUME NEW n \in Nodes PROVE addr(node[n].key)' = addr(node[n].key)
      BY DEF addr, hash
    <3>2. QED BY <1>1, <3>1 DEF Home
  <2>3. QED BY <1>6, <1>8, <2>1, <2>2 DEF ChainOK
<1>10. \A n \in used, k \in Keys :
         L2[n][k] = IF node[n].key < j /\ L[n][k] = m /\ L[n][j] = p THEN p ELSE L[n][k]
  BY <1>6, <1>7 DEF UnlinkLast
<1>11. ASSUME NEW n \in used, NEW k \in Keys, node[n].key < k
       PROVE  /\ node'[n].key < k
              /\ L[n][k] \in used /\ node[L[n][k]].next \in used
              /\ node'[L2[n][k]].next = IF L[n][k] = p THEN s ELSE node[L[n][k]].next
              /\ L[n][k] = p => node[L[n][k]].next = m /\ k <= j
  <2>1. L[n][k] \in used /\ node[L[n][k]].next \in used /\ k <= node[node[L[n][k]].next].key
    BY <1>2, <1>11 DEF ChainProps
  <2>2. /\ L2[n][k] = IF node[n].key < j /\ L[n][k] = m /\ L[n][j] = p THEN p ELSE L[n][k]
        /\ L[n][k] \in Nodes /\ n \in Nodes
    BY <1>3, <1>10, <2>1
  <2>3. CASE L[n][k] = p
    BY <1>5, <1>3, <1>11, <2>1, <2>2, <2>3
  <2>4. CASE L[n][k] # p
    BY <1>3, <1>11, <2>1, <2>2, <2>4
  <2>5. QED BY <2>3, <2>4
<1>12. h \in used /\ node[h].key < j /\ L[h][j] = p /\ h' = h
  <2>1. h \in used /\ node[h].key < j
    BY <1>2, <1>3, KeyBounds DEF HeapProps
  <2>2. j <= node[node[p].next].key /\ j \in Keys
    BY <1>3, <1>5
  <2>3. L[h][j] = p
    BY <1>5, <2>2, LiveIsLast
  <2>4. QED BY <1>1, <2>1, <2>3 DEF min
<1>13. node'[L2[h][j]].next = s /\ node[L[h][j]].next = m
  BY <1>3, <1>11, <1>12
<1>14. On(L, m)
  BY <1>2, <1>13 DEF On, HeapProps
<1>15. ASSUME NEW n \in used PROVE On(L2, n)' <=> On(L, n) /\ n # m
  <2>1. CASE n \in Sentinels
    BY <1>1, <2>1 DEF On
  <2>2. CASE n \notin Sentinels
    <3> DEFINE g == min(Home[n])
               k == node[n].key
    <3>1. g \in used /\ node[g].key < k /\ k \in Keys
      BY <1>2, <2>2, KeyBounds DEF HeapProps
    <3>2. g' = g /\ k' = k
      BY <1>3, <1>4 DEF min
    <3>3. On(L, n) <=> node[L[g][k]].next = n
      BY <2>2 DEF On
    <3>4. On(L2, n)' <=> node'[L2[g][k]].next = n
      BY <1>1, <2>2, <3>2 DEF On
    <3>5. /\ node'[L2[g][k]].next = IF L[g][k] = p THEN s ELSE node[L[g][k]].next
          /\ L[g][k] = p => node[L[g][k]].next = m /\ k <= j
      BY <1>11, <3>1
    <3>6. CASE n = m
      <4>1. g = h /\ k = j
        BY <1>2, <3>6 DEF HeapProps
      <4>2. QED BY <1>5, <1>13, <3>4, <3>6, <4>1
    <3>7. CASE n # m
      BY <1>5, <3>1, <3>3, <3>4, <3>5, <3>7
    <3>8. QED BY <3>6, <3>7
  <2>3. QED BY <2>1, <2>2
<1>16. ASSUME NEW n \in used, NEW k \in Keys
       PROVE  \/ Result(L2, n, k)' = Result(L, n, k)
              \/ k = j /\ ~node[m].marked /\ Result(L2, n, k)' = None
  <2>1. CASE node[n].key < k
    <3>1. End(L, n, k) = node[L[n][k]].next /\ End(L2, n, k)' = node'[L2[n][k]].next
      BY <1>11, <2>1 DEF End
    <3>2. CASE L[n][k] = p
      <4>1. End(L, n, k) = m /\ End(L2, n, k)' = s /\ k <= j
        BY <1>11, <2>1, <3>1, <3>2
      <4>2. Result(L, n, k) = IF k = j /\ ~node[m].marked THEN node[m].val ELSE None
        BY <4>1 DEF Result, ValOf
      <4>3. Result(L2, n, k)' = None
        BY <1>3, <1>5, <4>1 DEF Result, ValOf, None, Abs!None
      <4>4. QED BY <4>2, <4>3
    <3>3. CASE L[n][k] # p
      <4>1. End(L, n, k) \in Nodes /\ End(L2, n, k)' = End(L, n, k)
        BY <1>3, <1>11, <2>1, <3>1, <3>3
      <4>2. QED BY <4>1 DEF Result, ValOf, None, Abs!None
    <3>4. QED BY <3>2, <3>3
  <2>2. CASE ~(node[n].key < k)
    <3>1. End(L, n, k) = n /\ End(L2, n, k)' = n
      BY <1>3, <2>2 DEF End
    <3>2. QED BY <1>3, <3>1 DEF Result, ValOf, None, Abs!None
  <2>3. QED BY <2>1, <2>2
<1>17. Result(L2, h, j)' = None
  <2>1. End(L2, h, j)' = s
    BY <1>3, <1>11, <1>12, <1>13 DEF End
  <2>2. QED BY <1>3, <1>5, <2>1 DEF Result, ValOf, None, Abs!None
<1>18. QED BY <1>9, <1>14, <1>15, <1>16, <1>17

-----------------------------------------------------------------------------
(* What a step leaves to the threads.                                      *)

\* The step keeps the nodes, but for those in gone the list, and a walk that now ends
\* elsewhere finds what the map now holds.
Kept(L, L2, gone) ==
  /\ set' = set /\ used \subseteq used'
  /\ \A n \in used : node'[n].key = node[n].key /\ node'[n].val = node[n].val /\ Home'[n] = Home[n]
  /\ \A n \in used : On(L2, n)' <=> On(L, n) /\ n \notin gone
  /\ \A n \in used : \A k \in Keys : Result(L2, n, k)' \in {Result(L, n, k), map'[k]}

\* Thread u keeps its variables, and sees what the map holds.
Waits(u) ==
  /\ loc'[u] = loc[u] /\ call'[u] = call[u] /\ lin'[u] = lin[u]
  /\ pc'[u] = "idle" <=> pc[u] = "idle"
  /\ InCall(u) => seen[u] \subseteq seen'[u] /\ map'[Key(u)] \in seen'[u]

\* No thread but t changes its variables.
Still(u) == pc'[u] = pc[u] /\ loc'[u] = loc[u] /\ call'[u] = call[u] /\ lin'[u] = lin[u]

Others(t) == \A u \in Threads \ {t} : Still(u)

LEMMA CallKey ==
  ASSUME HistTypeOK, NEW t \in Threads, InCall(t)
  PROVE  call[t] \in Calls /\ Key(t) \in Keys /\ call[t].op \in Ops
BY DEF HistTypeOK, InCall, Key, Ops, Calls, Abs!Calls

LEMMA ThreadKept ==
  ASSUME HeapOK, HistTypeOK, NEW L, NEW L2, NEW gone, Kept(L, L2, gone),
         NEW u \in Threads, ThreadOK(L, u), Waits(u)
  PROVE  ThreadOK(L2, u)'
<1>1. /\ Sentinels' = Sentinels /\ \A k : addr(k)' = addr(k)
  BY SetSame DEF Kept
<1>2. /\ Pred(u)' = Pred(u) /\ Curr(u)' = Curr(u) /\ Key(u)' = Key(u)
      /\ InCall(u)' <=> InCall(u)
      /\ Before(u)' <=> Before(u)
      /\ After(u)' <=> After(u)
  BY DEF Waits, Pred, Curr, Key, InCall, Before, After, NoCall, Abs!NoCall, Abs!Pending
<1>3. addr(Key(u))' = addr(Key(u))
  BY <1>1, <1>2 DEF addr, hash, Kept
<1>4. \A n \in used : Mine(u, n) => Mine(u, n)'
  BY <1>3 DEF Mine, Kept
<1>5. /\ pc'[u] = "idle" <=> ~InCall(u)'
      /\ pc'[u] = "idle" => loc'[u] = NoLocals /\ lin'[u] = Abs!Pending
  BY <1>2 DEF ThreadOK, Waits
<1>6. /\ Pred(u)' \in used' \cup {NULL} /\ Curr(u)' \in used' \cup {NULL}
      /\ loc'[u].next \in used' \cup {NULL} /\ loc'[u].lnext = NULL
  BY <1>2 DEF ThreadOK, Waits, Kept
<1>7. InCall(u)' => map'[Key(u)'] \in seen'[u]
  BY <1>2 DEF Waits
<1>8. (InCall(u) /\ Pred(u) # NULL => Mine(u, Pred(u)) /\ node[Pred(u)].key < Key(u))'
  BY <1>2, <1>4 DEF ThreadOK, Kept, NULL
<1>9. (Before(u) => Mine(u, Curr(u)) /\ Result(L2, Curr(u), Key(u)) \in seen[u])'
  <2>1. SUFFICES ASSUME Before(u) PROVE (Mine(u, Curr(u)) /\ Result(L2, Curr(u), Key(u)) \in seen[u])'
    BY <1>2
  <2>2. Mine(u, Curr(u)) /\ Result(L, Curr(u), Key(u)) \in seen[u] /\ InCall(u)
    BY <2>1 DEF ThreadOK, Before
  <2>3. PICK n \in used, k \in Keys : n = Curr(u) /\ k = Key(u)
    BY <2>2, CallKey DEF Mine
  <2>4. Result(L2, n, k)' \in {Result(L, n, k), map'[k]}
    BY DEF Kept
  <2>5. Result(L2, n, k)' \in seen'[u]
    BY <2>2, <2>3, <2>4 DEF Waits
  <2>6. Result(L2, Curr(u), Key(u))' = Result(L2, n, k)'
    BY <1>2, <2>3 DEF Result
  <2>7. QED BY <1>2, <1>4, <2>2, <2>3, <2>5, <2>6
<1>10. (After(u) => \/ call[u].op = "insert" /\ lin[u] = 1
                    \/ /\ call[u].op = "remove" /\ Curr(u) \in used \ Sentinels
                       /\ Home[Curr(u)] = addr(Key(u)) /\ lin[u] = node[Curr(u)].val)'
  BY <1>1, <1>2, <1>3 DEF ThreadOK, Kept, Waits
<1>11. QED BY <1>5, <1>6, <1>7, <1>8, <1>9, <1>10 DEF ThreadOK

\* Where a call that has not taken effect may stand, with locals l.
Stands(L, t, l) ==
  /\ l.pred \in used \cup {NULL} /\ l.next \in used \cup {NULL} /\ l.lnext = NULL
  /\ l.pred # NULL => Mine(t, l.pred) /\ node[l.pred].key < Key(t)
  /\ Mine(t, l.curr) /\ Result(L, l.curr, Key(t)) \in seen[t]

\* There is still room when no call begins.
LEMMA RoomKept ==
  ASSUME HeapOK, RoomOK, set' = set, used' = used,
         \A u \in Threads : InCall(u)' => InCall(u),
         \A u \in Threads : Before(u)' => Before(u) /\ call'[u] = call[u]
  PROVE  RoomOK'
<1> DEFINE I == {u \in Threads : InCall(u)}
           N == Needing
<1>1. I' \subseteq I /\ N' \subseteq N /\ N \subseteq I /\ Fresh' = Fresh
  BY SetSame DEF Needing, Before, Fresh
<1>2. IsFiniteSet(I) /\ Cardinality(N) <= Cardinality(Fresh)
  BY DEF RoomOK
<1>3. IsFiniteSet(I') /\ IsFiniteSet(N)
  BY <1>1, <1>2, FS_Subset
<1>4. Cardinality(N') <= Cardinality(N) /\ IsFiniteSet(N')
  BY <1>1, <1>3, FS_Subset
<1>5. IsFiniteSet(Nodes)
  BY FS_Interval DEF HeapOK, Nodes
<1>6. IsFiniteSet(Fresh)
  BY <1>5, FS_Subset DEF Fresh
<1>7. Cardinality(N) \in Nat /\ Cardinality(N') \in Nat /\ Cardinality(Fresh) \in Nat
  BY <1>3, <1>4, <1>6, FS_CardinalityType
<1>8. Cardinality(N') <= Cardinality(Fresh')
  BY <1>1, <1>2, <1>4, <1>7
<1>9. QED BY <1>3, <1>8 DEF RoomOK

\* A step that leaves the history alone.
LEMMA HistQuiet ==
  ASSUME HistTypeOK, UNCHANGED hist
  PROVE  /\ HistTypeOK'
         /\ call' = call /\ lin' = lin /\ map' = map /\ seen' = seen
         /\ \A u \in Threads : \A L :
              /\ ThreadOK(L, u) /\ loc'[u] = loc[u]
              /\ pc'[u] = "idle" <=> pc[u] = "idle"
              => Waits(u)
<1>1. call' = call /\ ret' = ret /\ map' = map /\ lin' = lin /\ seen' = seen /\ pr' = pr
  BY DEF hist
<1>2. HistTypeOK'
  BY <1>1 DEF HistTypeOK, Calls, Abs!Calls, NoCall, Abs!NoCall, Abs!Pending
<1>3. QED BY <1>1, <1>2 DEF ThreadOK, Waits

\* A step at which the call of t returns.
LEMMA HistReturns ==
  ASSUME HistTypeOK, NEW t \in Threads, NEW r \in Vals \cup {0, 1}, Returns(t, r)
  PROVE  /\ HistTypeOK'
         /\ map' = map /\ ~InCall(t)' /\ lin'[t] = Abs!Pending
         /\ \A u \in Threads \ {t} : call'[u] = call[u] /\ lin'[u] = lin[u] /\ seen'[u] = seen[u]
         /\ \A u \in Threads \ {t} : \A L :
              ThreadOK(L, u) /\ loc'[u] = loc[u] /\ pc'[u] = pc[u] => Waits(u)
<1>1. /\ call' = [call EXCEPT ![t] = NoCall] /\ ret' = [ret EXCEPT ![t] = r]
      /\ lin' = [lin EXCEPT ![t] = Abs!Pending] /\ seen' = [seen EXCEPT ![t] = {}] /\ map' = map
  BY DEF Returns
<1>2. pr' \in Int
  <2>1. pr \in Int /\ r \in Int
    BY KeysAndValsAssumption DEF HistTypeOK
  <2>2. pr' = CASE call[t].op = "insert" -> pr + r
               [] call[t].op = "remove" /\ r # 0 -> pr - 1
               [] OTHER -> pr
    BY DEF Returns
  <2>3. QED BY <2>1, <2>2
<1>3. HistTypeOK'
  <2>1. /\ call' \in [Threads -> Calls \cup {NoCall}] /\ ret' \in [Threads -> Vals \cup {0, 1}]
        /\ map' \in [Keys -> Vals \cup {0}] /\ lin' \in [Threads -> Vals \cup {0, 1, Abs!Pending}]
        /\ seen' \in [Threads -> SUBSET (Vals \cup {0})]
    BY <1>1 DEF HistTypeOK
  <2>2. QED BY <1>2, <2>1 DEF HistTypeOK, Calls, Abs!Calls, NoCall, Abs!NoCall, Abs!Pending
<1>4. ~InCall(t)' /\ lin'[t] = Abs!Pending
  BY <1>1 DEF HistTypeOK, InCall, NoCall, Abs!NoCall
<1>5. \A u \in Threads \ {t} : call'[u] = call[u] /\ lin'[u] = lin[u] /\ seen'[u] = seen[u]
  BY <1>1 DEF HistTypeOK
<1>6. QED BY <1>1, <1>3, <1>4, <1>5 DEF ThreadOK, Waits

\* A step at which the call of t takes effect.
LEMMA HistEffect ==
  ASSUME HistTypeOK, NEW t \in Threads, Before(t), NEW v \in Vals \cup {0}, NEW r \in Vals \cup {0, 1},
         TakesEffect(t, v, r)
  PROVE  /\ HistTypeOK'
         /\ call' = call /\ lin'[t] = r /\ InCall(t)' /\ After(t)' /\ seen[t] \subseteq seen'[t]
         /\ map'[Key(t)] = v /\ v \in seen'[t]
         /\ \A k \in Keys : k # Key(t) => map'[k] = map[k]
         /\ \A u \in Threads \ {t} : call'[u] = call[u] /\ lin'[u] = lin[u]
         /\ \A u \in Threads \ {t} : \A L :
              /\ ThreadOK(L, u) /\ loc'[u] = loc[u] /\ pc'[u] = pc[u]
              => Waits(u)
<1>1. /\ map' = [map EXCEPT ![Key(t)] = v] /\ lin' = [lin EXCEPT ![t] = r] /\ call' = call
      /\ ret' = ret /\ pr' = pr
      /\ seen' = [u \in Threads |->
           IF call[u] # Abs!NoCall /\ call[u].key = Key(t) THEN seen[u] \cup {v} ELSE seen[u]]
  BY DEF TakesEffect, Abs!Observe
<1>2. InCall(t) /\ Key(t) \in Keys
  BY CallKey DEF Before
<1>3. HistTypeOK'
  <2>1. /\ map' \in [Keys -> Vals \cup {0}] /\ lin' \in [Threads -> Vals \cup {0, 1, Abs!Pending}]
    BY <1>1 DEF HistTypeOK
  <2>2. seen' \in [Threads -> SUBSET (Vals \cup {0})]
    BY <1>1 DEF HistTypeOK
  <2>3. QED BY <1>1, <2>1, <2>2 DEF HistTypeOK, Calls, Abs!Calls, NoCall, Abs!NoCall, Abs!Pending
<1>4. call' = call /\ lin'[t] = r /\ InCall(t)' /\ After(t)'
  <2>1. r # Abs!Pending
    BY KeysAndValsAssumption DEF Abs!Pending
  <2>2. QED BY <1>1, <1>2, <2>1 DEF HistTypeOK, InCall, After, NoCall, Abs!NoCall, Abs!Pending
<1>5. map'[Key(t)] = v /\ \A k \in Keys : k # Key(t) => map'[k] = map[k]
  BY <1>1, <1>2 DEF HistTypeOK
<1>6. /\ seen[t] \subseteq seen'[t] /\ v \in seen'[t]
      /\ \A u \in Threads : InCall(u) => /\ seen[u] \subseteq seen'[u]
                                         /\ Key(u) = Key(t) => v \in seen'[u]
  BY <1>1, <1>2 DEF InCall, NoCall, Key
<1>7. \A u \in Threads \ {t} : call'[u] = call[u] /\ lin'[u] = lin[u]
  BY <1>1 DEF HistTypeOK
<1>8. ASSUME NEW u \in Threads \ {t}, NEW L, ThreadOK(L, u), loc'[u] = loc[u], pc'[u] = pc[u]
      PROVE  Waits(u)
  <2>1. ASSUME InCall(u) PROVE map'[Key(u)] \in seen'[u]
    <3>1. map[Key(u)] \in seen[u] /\ Key(u) \in Keys
      BY <1>8, <2>1, CallKey DEF ThreadOK
    <3>2. QED BY <1>5, <1>6, <2>1, <3>1
  <2>2. QED BY <1>6, <1>7, <1>8, <2>1 DEF Waits
<1>9. QED BY <1>3, <1>4, <1>5, <1>6, <1>7, <1>8

\* A step at which a call of t begins.
LEMMA HistBegins ==
  ASSUME HistTypeOK, NEW t \in Threads, NEW c \in Calls, Begins(t, c)
  PROVE  /\ HistTypeOK'
         /\ call'[t] = c /\ call[t] = NoCall /\ c # NoCall /\ lin' = lin /\ map' = map
         /\ seen'[t] = {map[c.key]}
         /\ \A u \in Threads \ {t} : call'[u] = call[u] /\ lin'[u] = lin[u]
         /\ \A u \in Threads \ {t} : \A L :
              /\ ThreadOK(L, u) /\ loc'[u] = loc[u] /\ pc'[u] = pc[u]
              => Waits(u)
<1>1. /\ call[t] = NoCall /\ call' = [call EXCEPT ![t] = c] /\ seen' = [seen EXCEPT ![t] = {map[c.key]}]
      /\ ret' = [ret EXCEPT ![t] = Abs!None] /\ map' = map /\ lin' = lin /\ pr' = pr
  BY DEF Begins, Abs!Invoke, NoCall
<1>2. c.key \in Keys /\ c # NoCall
  BY DEF Calls, Abs!Calls, NoCall, Abs!NoCall
<1>3. HistTypeOK'
  <2>1. call' \in [Threads -> Calls \cup {NoCall}] /\ ret' \in [Threads -> Vals \cup {0, 1}]
    BY <1>1 DEF HistTypeOK, Abs!None
  <2>2. seen' \in [Threads -> SUBSET (Vals \cup {0})]
    BY <1>1, <1>2 DEF HistTypeOK
  <2>3. QED BY <1>1, <2>1, <2>2 DEF HistTypeOK, Calls, Abs!Calls, NoCall, Abs!NoCall, Abs!Pending
<1>4. call'[t] = c /\ seen'[t] = {map[c.key]}
  BY <1>1 DEF HistTypeOK
<1>5. \A u \in Threads \ {t} : call'[u] = call[u] /\ lin'[u] = lin[u] /\ seen'[u] = seen[u]
  BY <1>1 DEF HistTypeOK
<1>6. QED BY <1>1, <1>2, <1>3, <1>4, <1>5 DEF ThreadOK, Waits

-----------------------------------------------------------------------------
(* What all lists keep, by the kinds of steps that they take.              *)

\* The step is one of thread t, which goes on at q with local variables l.
Goes(t, q, l) ==
  /\ pc' = [pc EXCEPT ![t] = q] /\ loc' = [loc EXCEPT ![t] = l]

LEMMA GoesTo ==
  ASSUME LocalsOK, NEW t \in Threads, NEW q, NEW l \in Locals, Goes(t, q, l)
  PROVE  /\ LocalsOK' /\ pc'[t] = q /\ loc'[t] = l
         /\ \A u \in Threads \ {t} : pc'[u] = pc[u] /\ loc'[u] = loc[u]
<1>1. loc' \in [Threads -> Locals] /\ loc'[t] = l /\ \A u \in Threads \ {t} : loc'[u] = loc[u]
  BY DEF LocalsOK, Goes
<1>2. pc' = [pc EXCEPT ![t] = q] /\ pc = [u \in Threads |-> pc[u]]
  BY DEF LocalsOK, Goes
<1>3. pc' = [u \in Threads |-> IF u = t THEN q ELSE pc[u]]
  BY <1>2
<1>4. /\ pc'[t] = q /\ \A u \in Threads \ {t} : pc'[u] = pc[u]
      /\ pc' = [u \in Threads |-> pc'[u]]
  BY <1>3
<1>5. Locals' = Locals
  BY DEF Locals
<1>6. QED BY <1>1, <1>4, <1>5 DEF LocalsOK

\* A step that changes nothing but locks, and the locals of t.
LEMMA CoreMove ==
  ASSUME NEW L, Core(L), NEW t \in Threads, Before(t), SameNodes,
         node' \in [Nodes -> NodeSet], lock' \in [Buckets -> Nat], freed' = freed, UNCHANGED hist,
         NEW q, q # "idle", NEW l \in Locals, Goes(t, q, l), Stands(L, t, l)
  PROVE  Core(L)' /\ Kept(L, L, {}) /\ Others(t)
<1>1. /\ HeapOK /\ HistTypeOK /\ LocalsOK /\ ChainOK(L) /\ MapOK(L) /\ FreedOK(L) /\ RoomOK
      /\ \A u \in Threads : ThreadOK(L, u)
  BY DEF Core
<1>2. LocalsOK' /\ pc'[t] = q /\ loc'[t] = l /\ \A u \in Threads \ {t} : pc'[u] = pc[u] /\ loc'[u] = loc[u]
  BY <1>1, GoesTo
<1>3. used \subseteq Nodes /\ \A b \in Buckets : max(b) \in Nodes /\ min(b) \in used
  BY <1>1, HeapFacts DEF HeapProps
<1>4. HeapOK'
  BY <1>1, <1>3, HeapKept DEF SameNodes, HeapOK
<1>5. /\ ChainOK(L)'
      /\ \A n \in used : On(L, n)' <=> On(L, n)
      /\ \A n \in used : \A k \in Keys : Result(L, n, k)' = Result(L, n, k)
  BY <1>1, HeapSame
<1>6. HistTypeOK' /\ call' = call /\ lin' = lin /\ map' = map /\ seen' = seen
  BY <1>1, HistQuiet
<1>7. Kept(L, L, {})
  BY <1>1, <1>3, <1>5, HomeKept DEF Kept, SameNodes
<1>8. MapOK(L)'
  <2>1. ASSUME NEW k \in Keys PROVE map'[k] = Result(L, min(addr(k)), k)'
    <3>1. min(addr(k))' = min(addr(k)) /\ min(addr(k)) \in used
      BY <1>1, <1>3, SetSame, HeapFacts DEF min, SameNodes, HeapProps
    <3>2. PICK h \in used : h = min(addr(k))
      BY <3>1
    <3>3. map[k] = Result(L, h, k)
      BY <1>1, <3>2 DEF MapOK
    <3>4. QED BY <1>5, <1>6, <3>1, <3>2, <3>3 DEF Result
  <2>2. QED BY <2>1 DEF MapOK
<1>9. FreedOK(L)'
  BY <1>1, <1>5, SetSame DEF FreedOK, SameNodes
<1>10. ASSUME NEW u \in Threads PROVE ThreadOK(L, u)'
  <2>1. CASE u # t
    BY <1>1, <1>2, <1>7, <2>1, HistQuiet, ThreadKept
  <2>2. CASE u = t
    <3>1. /\ InCall(t) /\ Before(t) /\ call'[t] = call[t] /\ lin'[t] = lin[t]
          /\ InCall(t)' /\ Before(t)' /\ ~After(t)' /\ Key(t)' = Key(t) /\ addr(Key(t))' = addr(Key(t))
          /\ Pred(t)' = l.pred /\ Curr(t)' = l.curr /\ pc'[t] # "idle"
      BY <1>2, <1>6, SetSame DEF Before, InCall, After, Key, Pred, Curr, NoCall, Abs!NoCall, Abs!Pending,
                              addr, hash, SameNodes
    <3>2. \A n \in used : Mine(t, n) => Mine(t, n)'
      BY <1>7, <3>1 DEF Mine, Kept
    <3>3. Mine(t, l.curr) /\ Result(L, l.curr, Key(t)) \in seen[t]
      BY DEF Stands
    <3>4. PICK n \in used, k \in Keys : n = l.curr /\ k = Key(t)
      BY <1>1, <3>1, <3>3, CallKey DEF Mine
    <3>5. Result(L, Curr(t), Key(t))' \in seen'[t] /\ Mine(t, Curr(t))'
      <4>1. Result(L, Curr(t), Key(t))' = Result(L, n, k)'
        BY <3>1, <3>4 DEF Result
      <4>2. QED BY <1>5, <1>6, <3>1, <3>2, <3>3, <3>4, <4>1
    <3>6. (InCall(t) => map[Key(t)] \in seen[t])'
      BY <1>1, <1>6, <3>1 DEF ThreadOK
    <3>7. (InCall(t) /\ Pred(t) # NULL => Mine(t, Pred(t)) /\ node[Pred(t)].key < Key(t))'
      BY <1>3, <3>1, <3>2 DEF Stands, SameNodes, NULL
    <3>8. /\ Pred(t)' \in used' \cup {NULL} /\ Curr(t)' \in used' \cup {NULL}
          /\ loc'[t].next \in used' \cup {NULL} /\ loc'[t].lnext = NULL
      BY <1>2, <3>1, <3>3 DEF Stands, SameNodes, Mine
    <3>9. QED BY <2>2, <3>1, <3>5, <3>6, <3>7, <3>8 DEF ThreadOK
  <2>3. QED BY <2>1, <2>2
<1>11. RoomOK'
  BY <1>1, <1>6, RoomKept DEF InCall, Before, SameNodes, NoCall, Abs!NoCall, Abs!Pending
<1>12. Others(t)
  BY <1>2, <1>6 DEF Others, Still
<1>13. QED BY <1>12, <1>2, <1>4, <1>5, <1>6, <1>7, <1>8, <1>9, <1>10, <1>11 DEF Core

LEMMA MapKept ==
  ASSUME HeapOK, NEW L, MapOK(L), NEW L2, set' = set,
         \A k \in Keys : \/ map'[k] = map[k] /\ \A n \in used : Result(L2, n, k)' = Result(L, n, k)
                         \/ map'[k] = Result(L2, min(addr(k)), k)'
  PROVE  MapOK(L2)'
<1>1. SUFFICES ASSUME NEW k \in Keys, map'[k] = map[k],
                      \A n \in used : Result(L2, n, k)' = Result(L, n, k)
               PROVE  map'[k] = Result(L2, min(addr(k)), k)'
  BY DEF MapOK
<1>2. min(addr(k))' = min(addr(k)) /\ min(addr(k)) \in used
  BY SetSame, HeapFacts DEF min, HeapProps
<1>3. PICK h \in used : h = min(addr(k))
  BY <1>2
<1>4. map[k] = Result(L, h, k)
  BY <1>3 DEF MapOK
<1>5. QED BY <1>1, <1>2, <1>3, <1>4 DEF Result

\* A thread without a call.
LEMMA IdleThread ==
  ASSUME NEW L, NEW t \in Threads, pc'[t] = "idle", loc'[t] = NoLocals, ~InCall(t)', lin'[t] = Abs!Pending
  PROVE  ThreadOK(L, t)'
BY DEF ThreadOK, Pred, Curr, NoLocals, Before, After, InCall

LEMMA NoLocalsType == NoLocals \in Locals
BY DEF NoLocals, Locals, NULL

\* A call returns.
LEMMA CoreReturn ==
  ASSUME NEW L, Core(L), NEW t \in Threads, InCall(t), SameNodes,
         node' \in [Nodes -> NodeSet], lock' \in [Buckets -> Nat], freed' \in [Nodes -> {0, 1}],
         \A n \in Nodes : freed'[n] = 1 => freed[n] = 1 \/ (n \in used \ Sentinels /\ ~On(L, n)),
         NEW r \in Vals \cup {0, 1}, Returns(t, r), Goes(t, "idle", NoLocals)
  PROVE  Core(L)' /\ Kept(L, L, {}) /\ Others(t)
<1>1. /\ HeapOK /\ HistTypeOK /\ LocalsOK /\ ChainOK(L) /\ MapOK(L) /\ FreedOK(L) /\ RoomOK
      /\ \A u \in Threads : ThreadOK(L, u)
  BY DEF Core
<1>2. /\ LocalsOK' /\ pc'[t] = "idle" /\ loc'[t] = NoLocals
      /\ \A u \in Threads \ {t} : pc'[u] = pc[u] /\ loc'[u] = loc[u]
  BY <1>1, GoesTo, NoLocalsType
<1>3. used \subseteq Nodes /\ \A b \in Buckets : max(b) \in Nodes /\ min(b) \in used
  BY <1>1, HeapFacts DEF HeapProps
<1>4. HeapOK'
  BY <1>1, <1>3, HeapKept DEF SameNodes, HeapOK
<1>5. /\ ChainOK(L)'
      /\ \A n \in used : On(L, n)' <=> On(L, n)
      /\ \A n \in used : \A k \in Keys : Result(L, n, k)' = Result(L, n, k)
  BY <1>1, HeapSame
<1>6. /\ HistTypeOK' /\ map' = map /\ ~InCall(t)' /\ lin'[t] = Abs!Pending
      /\ \A u \in Threads \ {t} : call'[u] = call[u] /\ lin'[u] = lin[u] /\ seen'[u] = seen[u]
      /\ \A u \in Threads \ {t} : Waits(u)
  BY <1>1, <1>2, HistReturns
<1>7. Kept(L, L, {})
  BY <1>1, <1>3, <1>5, HomeKept DEF Kept, SameNodes
<1>8. MapOK(L)'
  BY <1>1, <1>5, <1>6, MapKept DEF SameNodes
<1>9. FreedOK(L)'
  BY <1>1, <1>3, <1>5, SetSame DEF FreedOK, SameNodes
<1>10. ASSUME NEW u \in Threads PROVE ThreadOK(L, u)'
  <2>1. CASE u # t
    BY <1>1, <1>6, <1>7, <2>1, ThreadKept
  <2>2. CASE u = t
    BY <1>2, <1>6, <2>2, IdleThread
  <2>3. QED BY <2>1, <2>2
<1>11. RoomOK'
  BY <1>1, <1>6, RoomKept DEF InCall, Before, SameNodes, NoCall, Abs!NoCall, Abs!Pending
<1>12. Others(t)
  BY <1>2, <1>6 DEF Others, Still
<1>13. QED BY <1>12, <1>2, <1>4, <1>5, <1>6, <1>7, <1>8, <1>9, <1>10, <1>11 DEF Core

\* A call begins.
LEMMA CoreInvoke ==
  ASSUME NEW L, Core(L), NEW t \in Threads, NEW c \in Calls, Invoke(t, c)
  PROVE  /\ Core(L)' /\ Kept(L, L, {}) /\ Others(t) /\ Before(t)' /\ pc[t] = "idle"
         /\ Goes(t, c.op, [NoLocals EXCEPT !.curr = min(addr(c.key))])
         /\ call'[t] = c /\ Curr(t)' = min(addr(c.key)) /\ pc'[t] = c.op /\ Pred(t)' = NULL
         /\ c.op \in Ops /\ c.key \in Keys
<1>1. /\ HeapOK /\ HistTypeOK /\ LocalsOK /\ ChainOK(L) /\ MapOK(L) /\ FreedOK(L) /\ RoomOK
      /\ \A u \in Threads : ThreadOK(L, u)
  BY DEF Core
<1> DEFINE h == min(addr(c.key))
           l == [NoLocals EXCEPT !.curr = h]
<1>2. c.op \in Ops /\ c.key \in Keys /\ c.op # "idle"
  BY DEF Calls, Abs!Calls, Ops
<1>3. h \in Sentinels /\ h \in used /\ Home[h] = addr(c.key) /\ addr(c.key) \in Buckets
  BY <1>1, <1>2, HeapFacts DEF HeapProps
<1>4. Goes(t, c.op, l)
  <2>1. Sentinels # {}
    BY <1>3
  <2>2. AtHead(c.key) = l
    BY <2>1 DEF AtHead
  <2>3. QED BY <2>2 DEF Invoke, Goto, Goes
<1>5. l \in Locals /\ l.curr = h /\ l.pred = NULL /\ l.next = NULL /\ l.lnext = NULL
  <2>1. h \in Int
    BY <1>1, <1>3, HeapFacts DEF HeapProps
  <2> HIDE DEF h
  <2>2. l \in Locals
    BY <2>1, NoLocalsType DEF Locals
  <2>3. QED BY <2>2 DEF NoLocals
<1> HIDE DEF l
<1>6. LocalsOK' /\ pc'[t] = c.op /\ loc'[t] = l /\ \A u \in Threads \ {t} : pc'[u] = pc[u] /\ loc'[u] = loc[u]
  BY <1>1, <1>4, <1>5, GoesTo
<1>7. set' = set /\ node' = node /\ used' = used /\ freed' = freed /\ lock' = lock
  BY DEF Invoke, heap
<1>8. used \subseteq Nodes /\ \A b \in Buckets : max(b) \in Nodes /\ min(b) \in used
  BY <1>1, HeapFacts DEF HeapProps
<1>9. HeapOK'
  BY <1>1, <1>7, <1>8, HeapKept DEF HeapOK
<1>10. SameNodes
  BY <1>7 DEF SameNodes
<1>11. /\ ChainOK(L)'
       /\ \A n \in used : On(L, n)' <=> On(L, n)
       /\ \A n \in used : \A k \in Keys : Result(L, n, k)' = Result(L, n, k)
  BY <1>1, <1>10, HeapSame
<1>12. Begins(t, c) /\ pc[t] = "idle" /\ (c.op = "insert" => Room)
  BY DEF Invoke, Goto
<1>13. /\ HistTypeOK' /\ call'[t] = c /\ call[t] = NoCall /\ c # NoCall /\ lin' = lin /\ map' = map
       /\ seen'[t] = {map[c.key]}
       /\ \A u \in Threads \ {t} : call'[u] = call[u] /\ lin'[u] = lin[u]
       /\ \A u \in Threads \ {t} : Waits(u)
  BY <1>1, <1>6, <1>12, HistBegins
<1>14. Kept(L, L, {})
  BY <1>1, <1>7, <1>11, HomeKept DEF Kept
<1>15. MapOK(L)'
  BY <1>1, <1>7, <1>11, <1>13, MapKept
<1>16. FreedOK(L)'
  BY <1>1, <1>7, <1>8, <1>11, SetSame DEF FreedOK
<1>17. /\ InCall(t)' /\ Before(t)' /\ ~After(t)' /\ Key(t)' = c.key /\ Pred(t)' = NULL /\ Curr(t)' = h
       /\ ~InCall(t) /\ lin[t] = Abs!Pending
  <2>1. lin[t] = Abs!Pending
    BY <1>1, <1>12 DEF ThreadOK
  <2>2. QED BY <1>5, <1>6, <1>13, <2>1
              DEF InCall, Before, After, Key, Pred, Curr, NoCall, Abs!NoCall, Abs!Pending
<1>18. ThreadOK(L, t)'
  <2>1. Mine(t, Curr(t))'
    <3>1. addr(c.key)' = addr(c.key)
      BY <1>7, SetSame
    <3>2. addr(Key(t))' = addr(c.key)
      BY <1>17, <3>1 DEF addr, hash
    <3>3. QED BY <1>3, <1>7, <1>14, <1>17, <3>2 DEF Mine, Kept
  <2>2. Result(L, Curr(t), Key(t))' \in seen'[t]
    <3>1. PICK n \in used, k \in Keys : n = h /\ k = c.key
      BY <1>2, <1>3
    <3>2. Result(L, Curr(t), Key(t))' = Result(L, n, k)'
      BY <1>17, <3>1 DEF Result
    <3>3. map[k] = Result(L, n, k)
      BY <1>1, <3>1 DEF MapOK
    <3>4. QED BY <1>11, <1>13, <3>1, <3>2, <3>3
  <2>3. map'[Key(t)'] \in seen'[t]
    BY <1>13, <1>17
  <2>4. Curr(t)' \in used' /\ loc'[t].next = NULL /\ loc'[t].lnext = NULL /\ pc'[t] # "idle"
    BY <1>2, <1>3, <1>5, <1>6, <1>7, <1>17
  <2>5. QED BY <1>17, <2>1, <2>2, <2>3, <2>4 DEF ThreadOK
<1>19. \A u \in Threads : ThreadOK(L, u)'
  BY <1>1, <1>13, <1>14, <1>18, ThreadKept
<1>20. RoomOK'
  <2> DEFINE I == {u \in Threads : InCall(u)}
             N == Needing
             C == {u \in Threads : call[u].op = "insert"}
  <2>1. IsFiniteSet(I) /\ Cardinality(N) <= Cardinality(Fresh) /\ Fresh' = Fresh
    BY <1>1, <1>7, SetSame DEF RoomOK, Fresh
  <2>2. I' \subseteq I \cup {t}
    BY <1>13 DEF InCall, NoCall, Abs!NoCall
  <2>3. IsFiniteSet(I \cup {t})
    BY <2>1, FS_AddElement
  <2>4. IsFiniteSet(I')
    BY <2>2, <2>3, FS_Subset
  <2>5. C \subseteq I /\ N \subseteq C /\ t \notin C
    BY <1>17 DEF InCall, NoCall, Abs!NoCall, Needing, Before
  <2>6. IsFiniteSet(C) /\ IsFiniteSet(N) /\ Cardinality(N) <= Cardinality(C)
    <3>1. IsFiniteSet(C)
      BY <2>1, <2>5, FS_Subset
    <3>2. QED BY <2>5, <3>1, FS_Subset
  <2>7. IsFiniteSet(C \cup {t}) /\ Cardinality(C \cup {t}) = Cardinality(C) + 1
    BY <2>5, <2>6, FS_AddElement
  <2>8. Cardinality(C) \in Nat /\ Cardinality(N) \in Nat
    BY <2>6, FS_CardinalityType
  <2>9. IsFiniteSet(Nodes)
    BY <1>1, FS_Interval DEF HeapOK, Nodes
  <2>10. IsFiniteSet(Fresh)
    BY <2>9, FS_Subset DEF Fresh
  <2>11. Cardinality(Fresh) \in Nat
    BY <2>10, FS_CardinalityType
  <2>12. CASE c.op = "insert"
    <3>1. Cardinality(Fresh) >= Cardinality(C) + 1
      <4>1. ~is("HashtableJava")
        BY <1>1 DEF HeapOK, is, SortedLists
      <4>2. QED BY <1>12, <2>12, <4>1 DEF Room
    <3>2. N' \subseteq C \cup {t}
      BY <1>13, <2>5 DEF Needing, Before, InCall, NoCall, Abs!NoCall
    <3>3. Cardinality(N') <= Cardinality(C \cup {t}) /\ IsFiniteSet(N')
      BY <2>7, <3>2, FS_Subset
    <3>4. Cardinality(N') \in Nat
      BY <3>3, FS_CardinalityType
    <3>5. Cardinality(N') <= Cardinality(Fresh')
      BY <2>1, <2>7, <2>8, <2>11, <3>1, <3>3, <3>4
    <3>6. QED BY <2>4, <3>5 DEF RoomOK
  <2>13. CASE c.op # "insert"
    <3>1. N' \subseteq N
      BY <1>13, <2>13 DEF Needing, Before, InCall, NoCall, Abs!NoCall, Abs!Pending
    <3>2. Cardinality(N') <= Cardinality(N) /\ IsFiniteSet(N')
      BY <2>6, <3>1, FS_Subset
    <3>3. Cardinality(N') \in Nat
      BY <3>2, FS_CardinalityType
    <3>4. Cardinality(N') <= Cardinality(Fresh')
      BY <2>1, <2>8, <2>11, <3>2, <3>3
    <3>5. QED BY <2>4, <3>4 DEF RoomOK
  <2>14. QED BY <2>12, <2>13
<1>21. Others(t)
  BY <1>6, <1>13 DEF Others, Still
<1>22. QED
  BY <1>21, <1>2, <1>4, <1>6, <1>9, <1>11, <1>12, <1>13, <1>14, <1>15, <1>16, <1>17, <1>19, <1>20 DEF Core, l

\* The heap changes as it should when key j gets the value v.
Changes(L, L2, j, v, gone) ==
  /\ HeapOK' /\ ChainOK(L2)' /\ set' = set /\ used \subseteq used'
  /\ \A n \in used : node'[n].key = node[n].key /\ node'[n].val = node[n].val
  /\ \A n \in used : On(L2, n)' <=> On(L, n) /\ n \notin gone
  /\ \A n \in used : \A k \in Keys :
       Result(L2, n, k)' = Result(L, n, k) \/ (k = j /\ Result(L2, n, k)' = v)
  /\ Result(L2, min(addr(j)), j)' = v
  /\ \A n \in Nodes : freed'[n] = 1 => freed[n] = 1 \/ n \in gone \cap (used \ Sentinels)

\* The result that an effect of t fixes.
Fixes(t, r) ==
  \/ call[t].op = "insert" /\ r = 1
  \/ /\ call[t].op = "remove" /\ Curr(t) \in used \ Sentinels /\ Home[Curr(t)] = addr(Key(t))
     /\ r = node[Curr(t)].val

\* A call takes effect: it gives its key j the value v, and its result will be r.
LEMMA CoreEffect ==
  ASSUME NEW L, Core(L), NEW L2, NEW t \in Threads, Before(t), NEW j, j = Key(t),
         NEW v \in Vals \cup {0}, NEW r \in Vals \cup {0, 1}, TakesEffect(t, v, r), Fixes(t, r),
         NEW gone, Changes(L, L2, j, v, gone), RoomOK',
         NEW q, q # "idle", pc' = [pc EXCEPT ![t] = q], loc' = loc
  PROVE  Core(L2)' /\ Kept(L, L2, gone) /\ Others(t) /\ After(t)'
<1>1. /\ HeapOK /\ HistTypeOK /\ LocalsOK /\ ChainOK(L) /\ MapOK(L) /\ FreedOK(L)
      /\ \A u \in Threads : ThreadOK(L, u)
  BY DEF Core
<1>2. LocalsOK' /\ pc'[t] = q /\ \A u \in Threads \ {t} : pc'[u] = pc[u] /\ loc'[u] = loc[u]
  <2>1. loc[t] \in Locals /\ Goes(t, q, loc[t])
    BY <1>1 DEF LocalsOK, Goes
  <2>2. QED BY <1>1, <2>1, GoesTo
<1>3. /\ HistTypeOK' /\ call' = call /\ lin'[t] = r /\ InCall(t)' /\ After(t)' /\ seen[t] \subseteq seen'[t]
      /\ map'[j] = v /\ v \in seen'[t]
      /\ \A k \in Keys : k # j => map'[k] = map[k]
      /\ \A u \in Threads \ {t} : call'[u] = call[u] /\ lin'[u] = lin[u]
      /\ \A u \in Threads \ {t} : Waits(u)
  BY <1>1, <1>2, HistEffect
<1>4. j \in Keys /\ InCall(t)
  BY <1>1, CallKey DEF Before
<1>5. Kept(L, L2, gone)
  BY <1>1, <1>3, HomeKept DEF Kept, Changes
<1>6. MapOK(L2)'
  <2>1. ASSUME NEW k \in Keys
        PROVE  \/ map'[k] = map[k] /\ \A n \in used : Result(L2, n, k)' = Result(L, n, k)
               \/ map'[k] = Result(L2, min(addr(k)), k)'
    BY <1>3 DEF Changes
  <2>2. QED BY <1>1, <2>1, MapKept DEF Changes
<1>7. FreedOK(L2)'
  <2>1. Nodes' = Nodes /\ Sentinels' = Sentinels /\ used \subseteq Nodes
    BY <1>1, SetSame DEF HeapOK, Changes
  <2>2. ASSUME NEW n \in Nodes, freed'[n] = 1 PROVE n \in used \ Sentinels /\ ~On(L2, n)'
    BY <1>1, <2>2 DEF FreedOK, Changes
  <2>3. QED BY <2>1, <2>2 DEF FreedOK, Changes
<1>8. ThreadOK(L2, t)'
  <2>1. /\ Pred(t)' = Pred(t) /\ Curr(t)' = Curr(t) /\ Key(t)' = j /\ addr(Key(t))' = addr(j)
        /\ Sentinels' = Sentinels
    BY <1>3, SetSame DEF Pred, Curr, Key, addr, hash, Changes
  <2>2. ThreadOK(L, t)
    BY <1>1
  <2>3. \A n \in used : Mine(t, n) => Mine(t, n)'
    BY <1>5, <2>1 DEF Mine, Kept
  <2>4. (InCall(t) /\ Pred(t) # NULL => Mine(t, Pred(t)) /\ node[Pred(t)].key < Key(t))'
    BY <1>4, <2>1, <2>2, <2>3 DEF ThreadOK, NULL, Changes
  <2>5. /\ Pred(t)' \in used' \cup {NULL} /\ Curr(t)' \in used' \cup {NULL}
        /\ loc'[t].next \in used' \cup {NULL} /\ loc'[t].lnext = NULL
    BY <2>1, <2>2 DEF ThreadOK, Changes
  <2>6. (After(t) => \/ call[t].op = "insert" /\ lin[t] = 1
                     \/ /\ call[t].op = "remove" /\ Curr(t) \in used \ Sentinels
                        /\ Home[Curr(t)] = addr(Key(t)) /\ lin[t] = node[Curr(t)].val)'
    BY <1>3, <1>5, <2>1 DEF Kept, Fixes
  <2>7. ~Before(t)' /\ InCall(t)' /\ pc'[t] # "idle" /\ map'[Key(t)'] \in seen'[t]
    BY <1>2, <1>3, <2>1 DEF After, Before
  <2>8. QED BY <2>4, <2>5, <2>6, <2>7 DEF ThreadOK
<1>9. \A u \in Threads : ThreadOK(L2, u)'
  BY <1>1, <1>3, <1>5, <1>8, ThreadKept
<1>10. Others(t)
  BY <1>2, <1>3 DEF Others, Still
<1>11. QED BY <1>10, <1>2, <1>3, <1>5, <1>6, <1>7, <1>9 DEF Core, Changes

LEMMA NodesFinite ==
  ASSUME HeapOK
  PROVE  IsFiniteSet(Nodes)
<1>1. set.nodes \in Nat
  BY DEF HeapOK
<1>2. QED BY <1>1, FS_Interval DEF Nodes

\* Thread t goes on at q, with the same local variables.
Onward(t, q) == q # "idle" /\ pc' = [pc EXCEPT ![t] = q] /\ loc' = loc

\* The key of t belongs right behind p.
Gap(L, t, p) ==
  /\ Live(L, p) /\ node[p].key < Key(t) /\ Home[p] = addr(Key(t))
  /\ node[p].next \in used /\ Key(t) < node[node[p].next].key

\* r is the node to put there.
NewNode(t, p, r) ==
  /\ r.key = Key(t) /\ r.val = call[t].val /\ r.next = node[p].next /\ ~r.marked
  /\ r \in NodeSet

\* A node is linked.
LEMMA CoreLink ==
  ASSUME NEW L, Core(L), NEW t \in Threads, Before(t), call[t].op = "insert",
         NEW p \in used, Gap(L, t, p), NEW r, NewNode(t, p, r), Publish(t, p, r),
         NEW q, Onward(t, q)
  PROVE  \E L2 : \E new \in Nodes \ used :
           /\ Core(L2)' /\ Kept(L, L2, {}) /\ Others(t) /\ After(t)' /\ On(L2, new)' /\ Home'[new] = addr(Key(t))
           /\ used' = used \cup {new} /\ freed' = freed /\ lock' = lock
           /\ node'[new] = r
           /\ \A m \in Nodes \ {new} :
                /\ node'[m].key = node[m].key /\ node'[m].val = node[m].val
                /\ node'[m].next = IF m = p THEN new ELSE node[m].next
                /\ node'[m].marked = node[m].marked /\ node'[m].lock = node[m].lock
<1>0. /\ Live(L, p) /\ node[p].key < Key(t) /\ Home[p] = addr(Key(t))
      /\ node[p].next \in used /\ Key(t) < node[node[p].next].key
      /\ r.key = Key(t) /\ r.val = call[t].val /\ r.next = node[p].next /\ ~r.marked /\ r \in NodeSet
      /\ q # "idle" /\ pc' = [pc EXCEPT ![t] = q] /\ loc' = loc
  BY DEF Gap, NewNode, Onward
<1> USE <1>0
<1>1. HeapOK /\ HistTypeOK /\ ChainOK(L) /\ RoomOK
  BY DEF Core
<1>2. PICK j \in Keys : j = Key(t)
  BY <1>1, CallKey DEF Before
<1>3. used \subseteq Nodes /\ Nodes \subseteq Nat /\ Sentinels \subseteq used
      /\ \A b \in Buckets : max(b) \in used
  BY <1>1, HeapFacts DEF HeapProps
<1> DEFINE I == {u \in Threads : InCall(u)}
           N == Needing
<1>4. IsFiniteSet(I) /\ Cardinality(N) <= Cardinality(Fresh) /\ t \in N /\ N \subseteq I
  BY <1>1 DEF RoomOK, Needing, Before
<1>5. IsFiniteSet(N) /\ IsFiniteSet(Fresh)
  <2>1. IsFiniteSet(Nodes)
    BY <1>1, NodesFinite
  <2>2. QED BY <1>4, <2>1, FS_Subset DEF Fresh
<1>6. IsFiniteSet(N \ {t}) /\ Cardinality(N \ {t}) = Cardinality(N) - 1 /\ Cardinality(N \ {t}) \in Nat
  <2>1. IsFiniteSet(N \ {t}) /\ Cardinality(N \ {t}) = Cardinality(N) - 1
    BY <1>4, <1>5, FS_RemoveElement
  <2>2. QED BY <2>1, FS_CardinalityType
<1>7. Cardinality(N) \in Nat /\ Cardinality(Fresh) \in Nat
  BY <1>5, FS_CardinalityType
<1>8. Fresh # {}
  <2>1. Cardinality(Fresh) # 0
    BY <1>4, <1>6, <1>7
  <2>2. QED BY <2>1, FS_EmptySet
<1>9. Min(Fresh) \in Fresh
  BY <1>3, <1>8, MinIn DEF Fresh
<1>10. PICK new \in Nodes \ used : new = Min(Fresh)
  BY <1>9 DEF Fresh
<1>11. /\ node' = [node EXCEPT ![new] = r, ![p].next = new]
       /\ used' = used \cup {new}
       /\ TakesEffect(t, call[t].val, 1) /\ set' = set /\ freed' = freed /\ lock' = lock
  BY <1>10 DEF Publish
<1>12. /\ node' \in [Nodes -> NodeSet] /\ node'[new] = r
       /\ \A m \in Nodes \ {new} :
            /\ node'[m].key = node[m].key /\ node'[m].val = node[m].val
            /\ node'[m].next = IF m = p THEN new ELSE node[m].next
            /\ node'[m].marked = node[m].marked /\ node'[m].lock = node[m].lock
  <2>1. p \in Nodes /\ p # new
    BY <1>3
  <2>2. QED BY <1>1, <1>11, <2>1, NodesLink
<1>13. call[t].val \in Vals
  BY <1>1, CallKey DEF Before, Calls, Abs!Calls
<1>14. HeapOK'
  <2>1. freed' \in [Nodes -> {0, 1}] /\ lock' \in [Buckets -> Nat] /\ used' \subseteq Nodes
    BY <1>1, <1>3, <1>11 DEF HeapOK
  <2>2. \A b \in Buckets : node'[max(b)].next = node[max(b)].next
    <3>1. \A b \in Buckets : max(b) # p /\ max(b) # new
      BY <1>1, <1>3, HeapFacts DEF HeapProps
    <3>2. QED BY <1>3, <1>12, <3>1
  <2>3. /\ \A n \in used : node'[n].key = node[n].key /\ node'[n].val = node[n].val
        /\ \A n \in Sentinels : node'[n].marked = node[n].marked
        /\ \A n \in used' \ used : node'[n].key \in Keys /\ node'[n].val \in Vals
    BY <1>2, <1>3, <1>11, <1>12, <1>13
  <2>4. QED BY <1>1, <1>11, <1>12, <2>1, <2>2, <2>3, HeapKept
<1>15. PICK L2 :
         /\ ChainOK(L2)'
         /\ \A n \in used : On(L2, n)' <=> On(L, n)
         /\ On(L2, new)' /\ Home'[new] = addr(j)
         /\ \A n \in used : \A k \in Keys :
              Result(L2, n, k)' = Result(L, n, k) \/ (k = j /\ Result(L2, n, k)' = call[t].val)
         /\ Result(L2, min(addr(j)), j)' = call[t].val
  <2>1. PICK v : v = call[t].val
    OBVIOUS
  <2>2. \E L2 :
         /\ ChainOK(L2)'
         /\ \A n \in used : On(L2, n)' <=> On(L, n)
         /\ On(L2, new)' /\ Home'[new] = addr(j)
         /\ \A n \in used : \A k \in Keys :
              Result(L2, n, k)' = Result(L, n, k) \/ (k = j /\ Result(L2, n, k)' = v)
         /\ Result(L2, min(addr(j)), j)' = v
    <3>1. /\ node[p].key < j /\ Home[p] = addr(j) /\ node[p].next \in used /\ j < node[node[p].next].key
          /\ set' = set /\ used' = used \cup {new}
          /\ node'[new].key = j /\ node'[new].val = v /\ node'[new].next = node[p].next /\ ~node'[new].marked
      BY <1>2, <1>11, <1>12, <2>1
    <3>2. \A n \in Nodes \ {new} :
            /\ node'[n].key = node[n].key /\ node'[n].val = node[n].val
            /\ node'[n].next = IF n = p THEN new ELSE node[n].next
            /\ node'[n].marked = node[n].marked
      BY <1>12
    <3>3. HeapOK /\ HeapOK' /\ ChainOK(L)
      BY <1>1, <1>14
    <3>4. QED BY <3>1, <3>2, <3>3, HeapLink
  <2>3. QED BY <2>1, <2>2
<1>16. /\ HistTypeOK' /\ call' = call /\ lin'[t] = 1 /\ After(t)'
       /\ \A u \in Threads \ {t} : call'[u] = call[u] /\ lin'[u] = lin[u]
  BY <1>1, <1>11, <1>13, HistEffect
<1>17. RoomOK'
  <2>1. I' = I
    BY <1>16 DEF InCall, NoCall, Abs!NoCall
  <2>2. N' = N \ {t}
    BY <1>16 DEF Needing, Before, After, InCall, NoCall, Abs!NoCall, Abs!Pending
  <2>3. Fresh' = Fresh \ {new}
    BY <1>11, SetSame DEF Fresh
  <2>4. Cardinality(Fresh') = Cardinality(Fresh) - 1
    BY <1>5, <1>9, <1>10, <2>3, FS_RemoveElement
  <2>5. Cardinality(N') <= Cardinality(Fresh')
    BY <1>4, <1>6, <1>7, <2>2, <2>4
  <2>6. QED BY <1>4, <2>1, <2>5 DEF RoomOK
<1>18. Core(L2)' /\ Kept(L, L2, {}) /\ Others(t) /\ After(t)'
  <2>0. PICK gone : gone = {}
    OBVIOUS
  <2>1. PICK v \in Vals \cup {0}, res \in Vals \cup {0, 1} : v = call[t].val /\ res = 1 /\ gone = {}
    BY <1>13, <2>0
  <2>2. Changes(L, L2, j, v, gone)
    BY <1>3, <1>11, <1>12, <1>14, <1>15, <2>1 DEF Changes
  <2>3. TakesEffect(t, v, res) /\ Fixes(t, res)
    BY <1>11, <2>1 DEF Fixes
  <2>4. Core(L2)' /\ Kept(L, L2, gone) /\ Others(t) /\ After(t)'
    BY <1>2, <1>17, <2>2, <2>3, CoreEffect
  <2>5. QED BY <2>1, <2>4
<1>19. QED BY <1>2, <1>11, <1>12, <1>15, <1>18

\* The node that t stands on is marked, and that is the effect.
MarksCurr(t) ==
  /\ node' = [node EXCEPT ![Curr(t)].marked = TRUE]
  /\ set' = set /\ used' = used /\ freed' = freed /\ lock' = lock
  /\ TakesEffect(t, None, node[Curr(t)].val)

LEMMA CoreMark ==
  ASSUME NEW L, Core(L), NEW t \in Threads, Before(t), call[t].op = "remove",
         On(L, Curr(t)), node[Curr(t)].key = Key(t), MarksCurr(t), NEW q, Onward(t, q)
  PROVE  /\ Core(L)' /\ Kept(L, L, {}) /\ Others(t) /\ After(t)'
         /\ \A n \in Nodes :
              /\ node'[n].key = node[n].key /\ node'[n].val = node[n].val
              /\ node'[n].next = node[n].next /\ node'[n].marked = IF n = Curr(t) THEN TRUE ELSE node[n].marked
              /\ node'[n].lock = node[n].lock
<1>0. /\ node' = [node EXCEPT ![Curr(t)].marked = TRUE]
      /\ set' = set /\ used' = used /\ freed' = freed /\ lock' = lock
      /\ TakesEffect(t, None, node[Curr(t)].val)
      /\ q # "idle" /\ pc' = [pc EXCEPT ![t] = q] /\ loc' = loc
  BY DEF MarksCurr, Onward
<1> USE <1>0
<1>1. HeapOK /\ HistTypeOK /\ ChainOK(L) /\ RoomOK
  BY DEF Core
<1>2. PICK j \in Keys, m \in used : j = Key(t) /\ m = Curr(t)
  BY <1>1, CallKey DEF Before, On
<1>3. /\ used \subseteq Nodes /\ m \in used \ Sentinels /\ Home[m] = addr(j) /\ node[m].val \in Vals
      /\ \A b \in Buckets : max(b) \in used
  BY <1>1, <1>2, HeapFacts DEF HeapProps, On
<1>4. /\ node' \in [Nodes -> NodeSet]
      /\ \A n \in Nodes :
           /\ node'[n].key = node[n].key /\ node'[n].val = node[n].val
           /\ node'[n].next = node[n].next /\ node'[n].marked = IF n = m THEN TRUE ELSE node[n].marked
           /\ node'[n].lock = node[n].lock
  <2>1. node' = [node EXCEPT ![m].marked = TRUE] /\ m \in Nodes
    BY <1>2, <1>3
  <2>2. QED BY <1>1, <2>1, NodesMark
<1>5. HeapOK'
  <2>1. freed' \in [Nodes -> {0, 1}] /\ lock' \in [Buckets -> Nat] /\ Sentinels \subseteq used
    BY <1>1 DEF HeapOK
  <2>2. \A n \in Sentinels : node'[n].marked = node[n].marked
    BY <1>1, <1>3, <1>4, <2>1 DEF HeapOK, NodeSet
  <2>3. QED BY <1>1, <1>3, <1>4, <2>1, <2>2, HeapKept
<1>6. /\ ChainOK(L)'
      /\ \A n \in used : On(L, n)' <=> On(L, n)
      /\ \A n \in used : \A k \in Keys :
           Result(L, n, k)' = Result(L, n, k) \/ (k = j /\ Result(L, n, k)' = None)
      /\ Result(L, min(addr(j)), j)' = None
  <2>1. On(L, m) /\ node[m].key = j
    BY <1>2
  <2>2. Marks(m)
    BY <1>4 DEF Marks
  <2>3. QED BY <1>1, <2>1, <2>2, HeapMark
<1>7. PICK v \in Vals \cup {0}, res \in Vals \cup {0, 1}, gone \in {{}} : v = None /\ res = node[m].val /\ gone = {}
  BY <1>3 DEF None, Abs!None
<1>8. Changes(L, L, j, v, gone)
  BY <1>3, <1>4, <1>5, <1>6, <1>7 DEF Changes, None, Abs!None
<1>9. TakesEffect(t, v, res) /\ Fixes(t, res)
  BY <1>2, <1>3, <1>7 DEF Fixes
<1>10. RoomOK'
  <2>1. call' = call /\ \A u \in Threads \ {t} : lin'[u] = lin[u]
    BY <1>1, <1>7, <1>9, HistEffect
  <2>2. QED BY <1>1, <2>1, RoomKept DEF InCall, Before, NoCall, Abs!NoCall, Abs!Pending
<1>11. Core(L)' /\ Kept(L, L, gone) /\ Others(t) /\ After(t)'
  BY <1>2, <1>8, <1>9, <1>10, CoreEffect
<1>12. QED BY <1>2, <1>4, <1>7, <1>11

\* The pointers and releases when m is unlinked from p.
Unlinks(p, m) ==
  /\ node' = [node EXCEPT ![p].next = node[m].next]
  /\ freed' \in [Nodes -> {0, 1}]
  /\ \A n \in Nodes : freed'[n] = 1 => freed[n] = 1 \/ n = m
  /\ set' = set /\ used' = used /\ lock' = lock

UnlinkedNodes(p, m) ==
  \A n \in Nodes :
    /\ node'[n].key = node[n].key /\ node'[n].val = node[n].val
    /\ node'[n].next = IF n = p THEN node[m].next ELSE node[n].next
    /\ node'[n].marked = node[n].marked /\ node'[n].lock = node[n].lock

\* The heap when m is unlinked from p and perhaps released.
LEMMA UnlinkHeap ==
  ASSUME NEW L, Core(L), NEW p \in used, Live(L, p), NEW m \in used \ Sentinels, node[p].next = m,
         Unlinks(p, m)
  PROVE  /\ UnlinkedNodes(p, m) /\ On(L, m)
         /\ \E L2 : /\ Changes(L, L2, node[m].key, None, {m})
                    /\ node[m].marked =>
                         \A n \in used : \A k \in Keys : Result(L2, n, k)' = Result(L, n, k)
<1>1. HeapOK /\ ChainOK(L)
  BY DEF Core
<1>2. HeapProps /\ ChainProps(L)
  BY <1>1, HeapFacts, ChainFacts
<1>3. /\ used \subseteq Nodes /\ Sentinels \subseteq used /\ p \in Nodes /\ m \in Nodes
      /\ \A b \in Buckets : max(b) \in used /\ max(b) # p
  BY <1>2 DEF HeapProps
<1>4. PICK j \in Keys, s \in Nodes : j = node[m].key /\ s = node[m].next
  <2>1. node[m].key \in Keys
    BY <1>2 DEF HeapProps
  <2>2. node[m].next \in used
    BY <1>2, <2>1, KeyBounds DEF ChainProps
  <2>3. QED BY <1>3, <2>1, <2>2
<1>5. /\ node' \in [Nodes -> NodeSet]
      /\ \A n \in Nodes :
           /\ node'[n].key = node[n].key /\ node'[n].val = node[n].val
           /\ node'[n].next = IF n = p THEN node[m].next ELSE node[n].next
           /\ node'[n].marked = node[n].marked /\ node'[n].lock = node[n].lock
  <2>1. node' = [node EXCEPT ![p].next = s]
    BY <1>4 DEF Unlinks
  <2>2. QED BY <1>1, <1>3, <1>4, <2>1, NodesNext
<1>6. HeapOK'
  <2>1. lock' \in [Buckets -> Nat]
    BY <1>1 DEF HeapOK, Unlinks
  <2>2. /\ \A b \in Buckets : node'[max(b)].next = node[max(b)].next
        /\ \A n \in used : node'[n].key = node[n].key /\ node'[n].val = node[n].val
        /\ \A n \in Sentinels : node'[n].marked = node[n].marked
    BY <1>3, <1>5
  <2>3. QED BY <1>1, <1>3, <1>5, <2>1, <2>2, HeapKept DEF Unlinks
<1>7. PICK L2 :
        /\ ChainOK(L2)' /\ On(L, m)
        /\ \A n \in used : On(L2, n)' <=> On(L, n) /\ n # m
        /\ \A n \in used : \A k \in Keys :
             \/ Result(L2, n, k)' = Result(L, n, k)
             \/ k = j /\ ~node[m].marked /\ Result(L2, n, k)' = None
        /\ Result(L2, min(addr(j)), j)' = None
  <2>1. \A n \in Nodes :
           /\ node'[n].key = node[n].key /\ node'[n].val = node[n].val
           /\ node'[n].next = IF n = p THEN node[m].next ELSE node[n].next
           /\ node'[n].marked = node[n].marked
    BY <1>5
  <2>2. node[m].key = j
    BY <1>4
  <2>3. set' = set /\ used' = used
    BY DEF Unlinks
  <2>4. QED BY <1>1, <1>6, <2>1, <2>2, <2>3, HeapUnlink
<1>8. Changes(L, L2, j, None, {m})
  BY <1>3, <1>5, <1>6, <1>7 DEF Changes, None, Abs!None, Unlinks
<1>9. QED BY <1>4, <1>5, <1>7, <1>8 DEF UnlinkedNodes

\* A remove unlinks the node that it stands on, and that is its effect.
LEMMA CoreUnlink ==
  ASSUME NEW L, Core(L), NEW t \in Threads, Before(t), call[t].op = "remove",
         NEW p \in used, Live(L, p), node[p].next = Curr(t), node[Curr(t)].key = Key(t),
         Unlinks(p, Curr(t)), TakesEffect(t, None, node[Curr(t)].val), NEW q, Onward(t, q)
  PROVE  /\ On(L, Curr(t)) /\ UnlinkedNodes(p, Curr(t))
         /\ \E L2 : Core(L2)' /\ Kept(L, L2, {Curr(t)}) /\ Others(t) /\ After(t)'
<1>0. q # "idle" /\ pc' = [pc EXCEPT ![t] = q] /\ loc' = loc
  BY DEF Onward
<1> USE <1>0
<1>1. HeapOK /\ HistTypeOK /\ ChainOK(L) /\ RoomOK /\ ThreadOK(L, t)
  BY DEF Core
<1>2. PICK j \in Keys : j = Key(t)
  BY <1>1, CallKey DEF Before
<1>3. PICK m \in used \ Sentinels : m = Curr(t)
  <2>1. Curr(t) \in used
    BY <1>1 DEF ThreadOK, Mine
  <2>2. Curr(t) \notin Sentinels
    BY <1>1, <1>2, HeapFacts, KeyBounds DEF HeapProps
  <2>3. QED BY <2>1, <2>2
<1>4. Home[m] = addr(j) /\ node[m].val \in Vals /\ node[m].key = j
  BY <1>1, <1>2, <1>3, HeapFacts DEF HeapProps
<1>5. /\ On(L, m) /\ UnlinkedNodes(p, m)
      /\ \E L2 : Changes(L, L2, node[m].key, None, {m})
  <2>1. node[p].next = m /\ Unlinks(p, m)
    BY <1>3
  <2>2. QED BY <2>1, UnlinkHeap
<1>6. PICK L2 : Changes(L, L2, node[m].key, None, {m})
  BY <1>5
<1>7. PICK v \in Vals \cup {0}, res \in Vals \cup {0, 1}, gone \in {{m}} : v = None /\ res = node[m].val /\ gone = {m}
  BY <1>4 DEF None, Abs!None
<1>8. Changes(L, L2, j, v, gone)
  BY <1>4, <1>6, <1>7
<1>9. TakesEffect(t, v, res) /\ Fixes(t, res)
  BY <1>2, <1>3, <1>4, <1>7 DEF Fixes
<1>10. RoomOK'
  <2>1. call' = call /\ \A u \in Threads \ {t} : lin'[u] = lin[u]
    BY <1>1, <1>7, <1>9, HistEffect
  <2>2. set' = set /\ used' = used
    BY DEF Unlinks
  <2>3. QED BY <1>1, <2>1, <2>2, RoomKept DEF InCall, Before, NoCall, Abs!NoCall, Abs!Pending
<1>11. Core(L2)' /\ Kept(L, L2, gone) /\ Others(t) /\ After(t)'
  BY <1>2, <1>8, <1>9, <1>10, CoreEffect
<1>12. QED BY <1>3, <1>5, <1>7, <1>11

\* A marked node is unlinked.
LEMMA CoreUnlinkMarked ==
  ASSUME NEW L, Core(L), NEW t \in Threads, InCall(t),
         NEW p \in used, Live(L, p), NEW m \in used, node[p].next = m, node[m].marked, Unlinks(p, m),
         NEW q, Goes(t, q, IF q = "idle" THEN NoLocals ELSE loc[t]),
         \/ q # "idle" /\ UNCHANGED hist
         \/ q = "idle" /\ \E r \in Vals \cup {0, 1} : Returns(t, r)
  PROVE  /\ On(L, m) /\ UnlinkedNodes(p, m)
         /\ \E L2 : Core(L2)' /\ Kept(L, L2, {m}) /\ Others(t)
<1>1. /\ HeapOK /\ HistTypeOK /\ LocalsOK /\ ChainOK(L) /\ MapOK(L) /\ FreedOK(L) /\ RoomOK
      /\ \A u \in Threads : ThreadOK(L, u)
  BY DEF Core
<1>2. m \in used \ Sentinels
  BY <1>1, HeapFacts DEF HeapProps
<1>3. /\ On(L, m) /\ UnlinkedNodes(p, m)
      /\ \E L2 : /\ Changes(L, L2, node[m].key, None, {m})
                 /\ \A n \in used : \A k \in Keys : Result(L2, n, k)' = Result(L, n, k)
  BY <1>2, UnlinkHeap
<1>4. PICK L2 : /\ Changes(L, L2, node[m].key, None, {m})
                /\ \A n \in used : \A k \in Keys : Result(L2, n, k)' = Result(L, n, k)
  BY <1>3
<1> DEFINE l == IF q = "idle" THEN NoLocals ELSE loc[t]
<1>5. l \in Locals
  BY <1>1, NoLocalsType DEF LocalsOK
<1>6. LocalsOK' /\ pc'[t] = q /\ loc'[t] = l /\ \A u \in Threads \ {t} : pc'[u] = pc[u] /\ loc'[u] = loc[u]
  <2> HIDE DEF l
  <2>1. Goes(t, q, l)
    BY DEF l
  <2>2. QED BY <1>1, <1>5, <2>1, GoesTo
<1>7. /\ HistTypeOK' /\ map' = map
      /\ \A u \in Threads \ {t} : call'[u] = call[u] /\ lin'[u] = lin[u] /\ Waits(u)
      /\ IF q = "idle" THEN ~InCall(t)' /\ lin'[t] = Abs!Pending
         ELSE call'[t] = call[t] /\ lin'[t] = lin[t] /\ Waits(t)
  <2>1. CASE q # "idle" /\ UNCHANGED hist
    <3>1. pc[t] # "idle"
      BY <1>1 DEF ThreadOK
    <3>2. QED BY <1>1, <1>6, <2>1, <3>1, HistQuiet
  <2>2. CASE q = "idle" /\ \E r \in Vals \cup {0, 1} : Returns(t, r)
    BY <1>1, <1>6, <2>2, HistReturns
  <2>3. QED BY <2>1, <2>2
<1>8. Kept(L, L2, {m})
  BY <1>1, <1>4, HomeKept DEF Kept, Changes
<1>9. MapOK(L2)'
  BY <1>1, <1>4, <1>7, MapKept DEF Changes
<1>10. FreedOK(L2)'
  <2>1. Nodes' = Nodes /\ Sentinels' = Sentinels /\ used \subseteq Nodes
    BY <1>1, SetSame DEF HeapOK, Unlinks
  <2>2. ASSUME NEW n \in Nodes, freed'[n] = 1 PROVE n \in used \ Sentinels /\ ~On(L2, n)'
    BY <1>1, <1>4, <2>2 DEF FreedOK, Changes
  <2>3. QED BY <2>1, <2>2 DEF FreedOK, Unlinks
<1>11. \A u \in Threads : ThreadOK(L2, u)'
  <2>1. \A u \in Threads \ {t} : ThreadOK(L2, u)'
    BY <1>1, <1>7, <1>8, ThreadKept
  <2>2. ThreadOK(L2, t)'
    <3>1. CASE q = "idle"
      BY <1>6, <1>7, <3>1, IdleThread
    <3>2. CASE q # "idle"
      BY <1>1, <1>7, <1>8, <3>2, ThreadKept
    <3>3. QED BY <3>1, <3>2
  <2>3. QED BY <2>1, <2>2
<1>12. RoomOK'
  <2>1. set' = set /\ used' = used
    BY DEF Unlinks
  <2>2. \A u \in Threads : (InCall(u)' => InCall(u)) /\ (Before(u)' => Before(u) /\ call'[u] = call[u])
    BY <1>7 DEF InCall, Before, NoCall, Abs!NoCall, Abs!Pending
  <2>3. QED BY <1>1, <2>1, <2>2, RoomKept
<1>13. Others(t)
  BY <1>6, <1>7 DEF Others, Still
<1>14. QED BY <1>13, <1>3, <1>4, <1>6, <1>7, <1>8, <1>9, <1>10, <1>11, <1>12 DEF Core, Changes

-----------------------------------------------------------------------------
(* The atomic map takes the same step, and released nodes are not written. *)

\* The call of t may return r.
Rightful(t, r) == IF Before(t) THEN Abs!Justified(t, r) ELSE r = lin[t]

Inserts(t) ==
  Before(t) /\ call[t].op = "insert" /\ map[Key(t)] = None /\ TakesEffect(t, call[t].val, 1)

Removes(t) ==
  /\ Before(t) /\ call[t].op = "remove" /\ map[Key(t)] \in Vals
  /\ TakesEffect(t, None, map[Key(t)])

Ends(t) == InCall(t) /\ \E r \in Vals \cup {0, 1} : Rightful(t, r) /\ Returns(t, r)

Lin ==
  \/ UNCHANGED hist
  \/ \E t \in Threads : (\E c \in Calls : Begins(t, c)) \/ Inserts(t) \/ Removes(t) \/ Ends(t)

Frozen == \A n \in Nodes : freed[n] > 0 => node'[n].next = node[n].next

Does(L, L2, gone, t) ==
  Core(L2)' /\ Kept(L, L2, gone) /\ Others(t) /\ Lin /\ Frozen

LEMMA LinReturn ==
  ASSUME NEW t \in Threads, InCall(t), NEW r \in Vals \cup {0, 1}, Returns(t, r), Rightful(t, r)
  PROVE  Lin
BY DEF Lin, Ends

LEMMA LinInsert ==
  ASSUME NEW t \in Threads, Before(t), call[t].op = "insert", map[Key(t)] = None,
         TakesEffect(t, call[t].val, 1)
  PROVE  Lin
BY DEF Lin, Inserts

LEMMA LinRemove ==
  ASSUME NEW t \in Threads, Before(t), call[t].op = "remove", NEW v \in Vals, map[Key(t)] = v,
         TakesEffect(t, None, v)
  PROVE  Lin
BY DEF Lin, Removes

LEMMA LinQuiet ==
  ASSUME UNCHANGED hist
  PROVE  Lin
BY DEF Lin

LEMMA AbsCardinality == \A S : Abs!Cardinality(S) = Cardinality(S)
BY DEF Abs!Cardinality, Cardinality

\* The present keys are fewer than the atomic map has room for.
LEMMA PresentFinite ==
  /\ Abs!Present \subseteq Keys /\ IsFiniteSet(Abs!Present)
  /\ Cardinality(Abs!Present) \in Nat /\ Cardinality(Abs!Present) < Cardinality(Keys) + 1
<1>1. Abs!Present \subseteq Keys /\ IsFiniteSet(Keys)
  BY KeysAndValsAssumption DEF Abs!Present
<1>2. Cardinality(Abs!Present) <= Cardinality(Keys) /\ IsFiniteSet(Abs!Present)
  BY <1>1, FS_Subset
<1>3. Cardinality(Abs!Present) \in Nat /\ Cardinality(Keys) \in Nat
  BY <1>1, <1>2, FS_CardinalityType
<1>4. QED BY <1>1, <1>2, <1>3

\* Every such step is one of the atomic map of SearchSpec.
LEMMA LinIsAbs ==
  ASSUME Lin
  PROVE  UNCHANGED Abs!vars \/ Abs!Next
<1>1. CASE UNCHANGED hist
  BY <1>1 DEF hist, Abs!vars
<1>2. ASSUME NEW t \in Threads, NEW c \in Calls, Begins(t, c) PROVE Abs!Next
  <2>1. Abs!Invoke(t, c)
    BY <1>2 DEF Begins
  <2>2. QED BY <2>1 DEF Abs!Next, Calls
<1>3. ASSUME NEW t \in Threads, Inserts(t) PROVE Abs!Next
  <2>1. Abs!Cardinality(Abs!Present) < Cardinality(Keys) + 1
    BY PresentFinite, AbsCardinality
  <2>2. Abs!Insert(t)
    BY <1>3, <2>1 DEF Inserts, Abs!Insert, Abs!Effect, TakesEffect, Before, InCall, NoCall, Key, None
  <2>3. QED BY <2>2 DEF Abs!Next
<1>4. ASSUME NEW t \in Threads, Removes(t) PROVE Abs!Next
  <2>1. map[Key(t)] # 0
    BY <1>4, KeysAndValsAssumption DEF Removes
  <2>2. Abs!Remove(t)
    BY <1>4, <2>1 DEF Removes, Abs!Remove, Abs!Effect, TakesEffect, Before, InCall, NoCall, Key, None, Abs!None
  <2>3. QED BY <2>2 DEF Abs!Next
<1>5. ASSUME NEW t \in Threads, Ends(t) PROVE Abs!Next
  <2>1. PICK r \in Vals \cup {0, 1} : InCall(t) /\ Rightful(t, r) /\ Returns(t, r)
    BY <1>5 DEF Ends
  <2>2. Abs!Return(t, r)
    BY <2>1 DEF InCall, Rightful, Before, Returns, Abs!Return, NoCall
  <2>3. QED BY <2>2 DEF Abs!Next
<1>6. QED BY <1>1, <1>2, <1>3, <1>4, <1>5 DEF Lin

\* A released node is not in the list, so writing to a node of the list is no harm.
LEMMA FrozenBut ==
  ASSUME NEW L, Core(L), NEW p \in used, Live(L, p), \A n \in used \ {p} : node'[n].next = node[n].next
  PROVE  Frozen
<1>1. FreedOK(L) /\ freed \in [Nodes -> {0, 1}]
  BY DEF Core, HeapOK
<1>2. SUFFICES ASSUME NEW n \in Nodes, freed[n] > 0 PROVE node'[n].next = node[n].next
  BY DEF Frozen
<1>3. freed[n] = 1
  BY <1>1, <1>2
<1>4. n \in used \ Sentinels /\ ~On(L, n)
  BY <1>1, <1>3 DEF FreedOK
<1>5. QED BY <1>4 DEF Live

\* What the map holds under the key after p, if p is a node of the list before it.
LEMMA MapAfter ==
  ASSUME NEW L, Core(L), NEW p \in used, Live(L, p), NEW k \in Keys, node[p].key < k,
         Home[p] = addr(k), node[p].next \in used, k <= node[node[p].next].key
  PROVE  map[k] = ValOf(node[p].next, k)
<1>1. HeapOK /\ ChainOK(L) /\ MapOK(L)
  BY DEF Core
<1>2. L[min(addr(k))][k] = p
  BY <1>1, LiveIsLast
<1>3. End(L, min(addr(k)), k) = node[p].next
  BY <1>1, <1>2, FoundIsLive
<1>4. QED BY <1>1, <1>3 DEF MapOK, Result

\* What the map holds under the key of a node of the list.
LEMMA MapOn ==
  ASSUME NEW L, Core(L), NEW m \in used, On(L, m)
  PROVE  node[m].key \in Keys /\ map[node[m].key] = ValOf(m, node[m].key)
<1>1. HeapOK /\ ChainOK(L) /\ MapOK(L)
  BY DEF Core
<1>2. PICK k \in Keys : k = node[m].key /\ Home[m] = addr(k)
  BY <1>1, HeapFacts DEF HeapProps, On
<1>3. node[L[min(addr(k))][k]].next = m
  BY <1>2 DEF On
<1>4. End(L, min(addr(k)), k) = m
  BY <1>1, <1>3, FoundIsLive
<1>5. QED BY <1>1, <1>2, <1>4 DEF MapOK, Result

-----------------------------------------------------------------------------
(* The steps of a thread, by their kind.                                   *)

LEMMA DoMove ==
  ASSUME NEW L, Core(L), NEW t \in Threads, Before(t), SameNodes,
         node' \in [Nodes -> NodeSet], lock' \in [Buckets -> Nat], freed' = freed, UNCHANGED hist,
         NEW q, q # "idle", NEW l \in Locals, Goes(t, q, l), Stands(L, t, l)
  PROVE  /\ Does(L, L, {}, t) /\ pc'[t] = q /\ loc'[t] = l /\ call'[t] = call[t] /\ Before(t)'
         /\ seen'[t] = seen[t]
<1>1. Core(L)' /\ Kept(L, L, {}) /\ Others(t)
  BY CoreMove
<1>2. pc'[t] = q /\ loc'[t] = l
  BY GoesTo DEF Core
<1>3. call' = call /\ lin' = lin /\ seen' = seen
  BY DEF hist
<1>4. Before(t)' /\ Lin
  BY <1>3, LinQuiet DEF Before, InCall, NoCall, Abs!NoCall, Abs!Pending
<1>5. Frozen
  BY DEF Frozen, SameNodes
<1>6. QED BY <1>1, <1>2, <1>3, <1>4, <1>5 DEF Does

LEMMA DoReturn ==
  ASSUME NEW L, Core(L), NEW t \in Threads, InCall(t), SameNodes,
         node' \in [Nodes -> NodeSet], lock' \in [Buckets -> Nat], freed' \in [Nodes -> {0, 1}],
         \A n \in Nodes : freed'[n] = 1 => freed[n] = 1 \/ (n \in used \ Sentinels /\ ~On(L, n)),
         NEW r \in Vals \cup {0, 1}, Return(t, r), Rightful(t, r)
  PROVE  Does(L, L, {}, t) /\ pc'[t] = "idle" /\ loc'[t] = NoLocals
<1>1. Returns(t, r) /\ Goes(t, "idle", NoLocals)
  BY DEF Return, Goes
<1>2. Core(L)' /\ Kept(L, L, {}) /\ Others(t)
  BY <1>1, CoreReturn
<1>3. pc'[t] = "idle" /\ loc'[t] = NoLocals
  BY <1>1, GoesTo, NoLocalsType DEF Core
<1>4. Lin
  BY <1>1, LinReturn
<1>5. Frozen
  BY DEF Frozen, SameNodes
<1>6. QED BY <1>2, <1>3, <1>4, <1>5 DEF Does

\* The node that t publishes is behind p, and new.
Publishes(t, p, r, new) ==
  /\ used' = used \cup {new} /\ freed' = freed /\ lock' = lock /\ set' = set
  /\ node'[new] = r
  /\ \A m \in Nodes \ {new} :
       /\ node'[m].key = node[m].key /\ node'[m].val = node[m].val
       /\ node'[m].next = IF m = p THEN new ELSE node[m].next
       /\ node'[m].marked = node[m].marked /\ node'[m].lock = node[m].lock

LEMMA DoLink ==
  ASSUME NEW L, Core(L), NEW t \in Threads, Before(t), call[t].op = "insert",
         Adjacent(L, t), node[Curr(t)].key > Key(t),
         NEW r, NewNode(t, Pred(t), r), Publish(t, Pred(t), r), NEW q, Onward(t, q)
  PROVE  \E L2 : \E new \in Nodes \ used :
           /\ Does(L, L2, {}, t) /\ After(t)' /\ On(L2, new)' /\ Home'[new] = addr(Key(t))
           /\ Publishes(t, Pred(t), r, new) /\ pc'[t] = q /\ call'[t] = call[t]
<1>1. HeapOK /\ HistTypeOK /\ ChainOK(L) /\ ThreadOK(L, t) /\ LocalsOK
  BY DEF Core
<1>2. PICK j \in Keys : j = Key(t)
  BY <1>1, CallKey DEF Before
<1>3. PICK p \in used : p = Pred(t)
  BY <1>1 DEF ThreadOK, Adjacent
<1>4. /\ Live(L, p) /\ node[p].key < j /\ Home[p] = addr(j) /\ node[p].next = Curr(t) /\ Curr(t) \in used
  BY <1>1, <1>2, <1>3 DEF ThreadOK, Adjacent, Mine, Before
<1>5. node[node[p].next].key \in Nat /\ j \in Nat /\ j < node[node[p].next].key
  BY <1>1, <1>2, <1>4, ChainFacts, KeyBounds DEF ChainProps
<1>6. PICK L2 : \E new \in Nodes \ used :
           /\ Core(L2)' /\ Kept(L, L2, {}) /\ Others(t) /\ After(t)' /\ On(L2, new)' /\ Home'[new] = addr(Key(t))
           /\ used' = used \cup {new} /\ freed' = freed /\ lock' = lock
           /\ node'[new] = r
           /\ \A m \in Nodes \ {new} :
                /\ node'[m].key = node[m].key /\ node'[m].val = node[m].val
                /\ node'[m].next = IF m = p THEN new ELSE node[m].next
                /\ node'[m].marked = node[m].marked /\ node'[m].lock = node[m].lock
  <2>1. Gap(L, t, p)
    BY <1>2, <1>4, <1>5 DEF Gap
  <2>2. NewNode(t, p, r) /\ Publish(t, p, r)
    BY <1>3
  <2>3. QED BY <1>4, <2>1, <2>2, CoreLink
<1>7. PICK new \in Nodes \ used :
           /\ Core(L2)' /\ Kept(L, L2, {}) /\ Others(t) /\ After(t)' /\ On(L2, new)' /\ Home'[new] = addr(Key(t))
           /\ used' = used \cup {new} /\ freed' = freed /\ lock' = lock
           /\ node'[new] = r
           /\ \A m \in Nodes \ {new} :
                /\ node'[m].key = node[m].key /\ node'[m].val = node[m].val
                /\ node'[m].next = IF m = p THEN new ELSE node[m].next
                /\ node'[m].marked = node[m].marked /\ node'[m].lock = node[m].lock
  BY <1>6
<1>8. TakesEffect(t, call[t].val, 1) /\ set' = set
  BY DEF Publish
<1>9. Lin
  <2>1. map[j] = ValOf(node[p].next, j)
    BY <1>4, <1>5, MapAfter
  <2>2. map[Key(t)] = None
    BY <1>2, <1>5, <2>1 DEF ValOf
  <2>3. QED BY <1>1, <1>8, <2>2, LinInsert
<1>10. Frozen
  <2>1. \A n \in used \ {p} : node'[n].next = node[n].next
    BY <1>1, <1>7 DEF HeapOK
  <2>2. QED BY <1>4, <2>1, FrozenBut
<1>11. pc'[t] = q /\ call'[t] = call[t]
  <2>1. pc'[t] = q
    BY <1>1 DEF LocalsOK, Onward
  <2>2. QED BY <1>8, <2>1 DEF TakesEffect
<1>12. QED BY <1>3, <1>7, <1>8, <1>9, <1>10, <1>11 DEF Does, Publishes

\* Node m is marked, and nothing else.
Marked(m) ==
  /\ set' = set /\ used' = used /\ freed' = freed /\ lock' = lock
  /\ \A n \in Nodes :
       /\ node'[n].key = node[n].key /\ node'[n].val = node[n].val
       /\ node'[n].next = node[n].next /\ node'[n].marked = IF n = m THEN TRUE ELSE node[n].marked
       /\ node'[n].lock = node[n].lock

LEMMA DoMark ==
  ASSUME NEW L, Core(L), NEW t \in Threads, Before(t), call[t].op = "remove",
         On(L, Curr(t)), node[Curr(t)].key = Key(t), ~node[Curr(t)].marked,
         SetNodes([node EXCEPT ![Curr(t)].marked = TRUE]),
         TakesEffect(t, None, node[Curr(t)].val),
         NEW q, Onward(t, q)
  PROVE  Does(L, L, {}, t) /\ After(t)' /\ Marked(Curr(t)) /\ pc'[t] = q /\ call'[t] = call[t]
<1>1. HeapOK /\ HistTypeOK /\ LocalsOK
  BY DEF Core
<1>2. /\ node' = [node EXCEPT ![Curr(t)].marked = TRUE]
      /\ set' = set /\ used' = used /\ freed' = freed /\ lock' = lock
  BY DEF SetNodes
<1>3. /\ Core(L)' /\ Kept(L, L, {}) /\ Others(t) /\ After(t)'
      /\ \A n \in Nodes :
           /\ node'[n].key = node[n].key /\ node'[n].val = node[n].val
           /\ node'[n].next = node[n].next /\ node'[n].marked = IF n = Curr(t) THEN TRUE ELSE node[n].marked
           /\ node'[n].lock = node[n].lock
  <2>1. MarksCurr(t)
    BY <1>2 DEF MarksCurr
  <2>2. QED BY <2>1, CoreMark
<1>4. Lin
  <2>1. PICK m \in used, v \in Vals : m = Curr(t) /\ v = node[m].val
    BY <1>1, HeapFacts DEF On, HeapProps
  <2>2. map[node[m].key] = ValOf(m, node[m].key)
    BY <2>1, MapOn
  <2>3. map[Key(t)] = v /\ TakesEffect(t, None, v)
    BY <2>1, <2>2 DEF ValOf
  <2>4. QED BY <2>3, LinRemove
<1>5. Frozen
  BY <1>3 DEF Frozen
<1>6. pc'[t] = q /\ call'[t] = call[t]
  BY <1>1 DEF LocalsOK, TakesEffect, Onward
<1>7. QED BY <1>2, <1>3, <1>4, <1>5, <1>6 DEF Does, Marked

LEMMA DoUnlink ==
  ASSUME NEW L, Core(L), NEW t \in Threads, Before(t), call[t].op = "remove",
         Adjacent(L, t), node[Curr(t)].key = Key(t), ~node[Curr(t)].marked,
         Unlinks(Pred(t), Curr(t)), TakesEffect(t, None, node[Curr(t)].val),
         NEW q, Onward(t, q)
  PROVE  /\ On(L, Curr(t)) /\ UnlinkedNodes(Pred(t), Curr(t)) /\ pc'[t] = q /\ call'[t] = call[t]
         /\ \E L2 : Does(L, L2, {Curr(t)}, t) /\ After(t)'
<1>1. HeapOK /\ HistTypeOK /\ LocalsOK /\ ThreadOK(L, t)
  BY DEF Core
<1>2. PICK p \in used : p = Pred(t) /\ Live(L, p) /\ node[p].next = Curr(t)
  BY <1>1 DEF ThreadOK, Adjacent
<1>3. /\ On(L, Curr(t)) /\ UnlinkedNodes(p, Curr(t))
      /\ \E L2 : Core(L2)' /\ Kept(L, L2, {Curr(t)}) /\ Others(t) /\ After(t)'
  <2>1. Unlinks(p, Curr(t))
    BY <1>2
  <2>2. QED BY <1>2, <2>1, CoreUnlink
<1>4. Lin
  <2>1. PICK m \in used, v \in Vals : m = Curr(t) /\ v = node[m].val
    BY <1>1, <1>3, HeapFacts DEF On, HeapProps
  <2>2. map[node[m].key] = ValOf(m, node[m].key)
    BY <1>3, <2>1, MapOn
  <2>3. map[Key(t)] = v /\ TakesEffect(t, None, v)
    BY <2>1, <2>2 DEF ValOf
  <2>4. QED BY <2>3, LinRemove
<1>5. Frozen
  <2>1. \A n \in used \ {p} : node'[n].next = node[n].next
    BY <1>1, <1>3 DEF HeapOK, UnlinkedNodes
  <2>2. QED BY <1>2, <2>1, FrozenBut
<1>6. pc'[t] = q /\ call'[t] = call[t]
  BY <1>1 DEF LocalsOK, TakesEffect, Onward
<1>7. QED BY <1>2, <1>3, <1>4, <1>5, <1>6 DEF Does

LEMMA DoUnlinkMarked ==
  ASSUME NEW L, Core(L), NEW t \in Threads, InCall(t),
         Adjacent(L, t), Curr(t) \in used, node[Curr(t)].marked, Unlinks(Pred(t), Curr(t)),
         \/ \E q : q # "idle" /\ UNCHANGED hist /\ pc' = [pc EXCEPT ![t] = q] /\ loc' = loc
         \/ \E r \in Vals \cup {0, 1} : Return(t, r) /\ Rightful(t, r)
  PROVE  /\ On(L, Curr(t)) /\ UnlinkedNodes(Pred(t), Curr(t))
         /\ \E L2 : Does(L, L2, {Curr(t)}, t)
<1>1. HeapOK /\ HistTypeOK /\ LocalsOK /\ ThreadOK(L, t)
  BY DEF Core
<1>2. PICK p \in used : p = Pred(t) /\ Live(L, p) /\ node[p].next = Curr(t)
  BY <1>1 DEF ThreadOK, Adjacent
<1>3. PICK m \in used : m = Curr(t) /\ node[p].next = m /\ node[m].marked /\ Unlinks(p, m)
  BY <1>2
<1>4. PICK q : /\ Goes(t, q, IF q = "idle" THEN NoLocals ELSE loc[t])
               /\ \/ q # "idle" /\ UNCHANGED hist
                  \/ q = "idle" /\ \E r \in Vals \cup {0, 1} : Returns(t, r)
  <2>1. CASE \E q : q # "idle" /\ UNCHANGED hist /\ pc' = [pc EXCEPT ![t] = q] /\ loc' = loc
    <3>1. PICK q : q # "idle" /\ UNCHANGED hist /\ pc' = [pc EXCEPT ![t] = q] /\ loc' = loc
      BY <2>1
    <3>2. loc' = [loc EXCEPT ![t] = loc[t]]
      BY <1>1, <3>1 DEF LocalsOK
    <3>3. QED BY <3>1, <3>2 DEF Goes
  <2>2. CASE \E r \in Vals \cup {0, 1} : Return(t, r) /\ Rightful(t, r)
    BY <2>2 DEF Return, Goes
  <2>3. QED BY <2>1, <2>2
<1>5. /\ On(L, m) /\ UnlinkedNodes(p, m)
      /\ \E L2 : Core(L2)' /\ Kept(L, L2, {m}) /\ Others(t)
  BY <1>2, <1>3, <1>4, CoreUnlinkMarked
<1>6. Lin
  BY LinQuiet, LinReturn DEF Return
<1>7. Frozen
  <2>1. \A n \in used \ {p} : node'[n].next = node[n].next
    BY <1>1, <1>5 DEF HeapOK, UnlinkedNodes
  <2>2. QED BY <1>2, <2>1, FrozenBut
<1>8. QED BY <1>2, <1>3, <1>5, <1>6, <1>7 DEF Does

\* A step that touches nothing shared.
Alike == set' = set /\ node' = node /\ used' = used /\ freed' = freed /\ lock' = lock

LEMMA HeapAlike ==
  ASSUME HeapOK, Alike
  PROVE  SameNodes /\ node' \in [Nodes -> NodeSet] /\ lock' \in [Buckets -> Nat] /\ freed' \in [Nodes -> {0, 1}]
BY DEF HeapOK, Alike, SameNodes

LEMMA DoLocal ==
  ASSUME NEW L, Core(L), NEW t \in Threads, Before(t), UNCHANGED heap, UNCHANGED hist,
         NEW q, q # "idle", NEW l \in Locals, Goes(t, q, l), Stands(L, t, l)
  PROVE  /\ Does(L, L, {}, t) /\ pc'[t] = q /\ loc'[t] = l /\ call'[t] = call[t] /\ Before(t)'
         /\ seen'[t] = seen[t] /\ Alike
<1>1. Alike
  BY DEF Alike, heap
<1>2. SameNodes /\ node' \in [Nodes -> NodeSet] /\ lock' \in [Buckets -> Nat] /\ freed' = freed
  BY <1>1, HeapAlike DEF Core, Alike
<1>3. QED BY <1>1, <1>2, DoMove

\* curr = curr->next, where curr has a smaller key; pred as it was, or curr.
LEMMA StandsNext ==
  ASSUME NEW L, Core(L), NEW t \in Threads, Before(t), node[Curr(t)].key < Key(t),
         NEW l, l.curr = node[Curr(t)].next, l.pred \in {NULL, Pred(t), Curr(t)},
         l.next = loc[t].next, l.lnext = loc[t].lnext
  PROVE  Stands(L, t, l) /\ node[Curr(t)].next \in used /\ Curr(t) \in used
<1>1. HeapOK /\ HistTypeOK /\ ChainOK(L) /\ ThreadOK(L, t)
  BY DEF Core
<1>2. PICK c \in used, k \in Keys : c = Curr(t) /\ k = Key(t)
  BY <1>1, CallKey DEF ThreadOK, Mine, Before
<1>3. Home[c] = addr(k) /\ Result(L, c, k) \in seen[t] /\ node[c].key < k
  BY <1>1, <1>2 DEF ThreadOK, Mine
<1>4. node[c].next \in used /\ Home[node[c].next] = Home[c] /\ Result(L, node[c].next, k) = Result(L, c, k)
  BY <1>1, <1>3, WalkOn
<1>5. l.pred # NULL => Mine(t, l.pred) /\ node[l.pred].key < Key(t)
  BY <1>1, <1>2, <1>3 DEF ThreadOK, Before, Mine
<1>6. l.pred \in used \cup {NULL} /\ l.next \in used \cup {NULL} /\ l.lnext = NULL
  BY <1>1, <1>2 DEF ThreadOK
<1>7. QED BY <1>2, <1>3, <1>4, <1>5, <1>6 DEF Stands, Mine

\* The pointers of t stay.
LEMMA StandsSame ==
  ASSUME NEW L, Core(L), NEW t \in Threads, Before(t),
         NEW l, l.curr = Curr(t), l.pred \in {NULL, Pred(t)}, l.next \in used \cup {NULL}, l.lnext = loc[t].lnext
  PROVE  Stands(L, t, l) /\ Curr(t) \in used
BY DEF Stands, Core, ThreadOK, Mine, Before

LEMMA LocalTypes ==
  ASSUME NEW L, Core(L), NEW t \in Threads
  PROVE  loc[t] \in Locals /\ used \subseteq Int /\ \A l \in Locals :
           /\ \A x \in Int : /\ [l EXCEPT !.curr = x] \in Locals /\ [l EXCEPT !.pred = x] \in Locals
                             /\ [l EXCEPT !.next = x] \in Locals /\ [l EXCEPT !.pver = x] \in Locals
                             /\ [l EXCEPT !.cver = x] \in Locals
<1>1. loc[t] \in Locals
  BY DEF Core, LocalsOK
<1>2. used \subseteq Int
  BY HeapFacts DEF HeapProps, Core
<1>3. QED BY <1>1, <1>2 DEF Locals

\* The local variables with another pver.
LEMMA PverTo ==
  ASSUME NEW r \in Locals, NEW v \in Int
  PROVE  LET l == [r EXCEPT !.pver = v]
         IN  /\ l \in Locals /\ l.curr = r.curr /\ l.pred = r.pred /\ l.next = r.next /\ l.lnext = r.lnext
             /\ l.cver = r.cver /\ l.pver = v
<1> DEFINE l == [r EXCEPT !.pver = v]
<1>1. l \in Locals
  BY DEF Locals
<1>2. QED BY <1>1 DEF Locals

LEMMA DoSearchNext ==
  ASSUME NEW L, Core(L), NEW t \in Threads, Before(t), SearchNext(t)
  PROVE  /\ Does(L, L, {}, t) /\ pc'[t] = "search" /\ call'[t] = call[t] /\ Before(t)' /\ Alike
         /\ Curr(t)' = node[Curr(t)].next /\ Pred(t)' = Pred(t)
<1> DEFINE l == [loc[t] EXCEPT !.curr = node[Curr(t)].next]
<1>1. pc[t] = "search" /\ node[Curr(t)].key < Key(t) /\ UNCHANGED heap /\ UNCHANGED hist /\ pc' = pc
  BY DEF SearchNext, KeyOf
<1>2. loc' = [loc EXCEPT ![t] = l]
  BY DEF SearchNext, Curr
<1>3. loc[t] \in Locals
  BY LocalTypes
<1>4. l.curr = node[Curr(t)].next /\ l.pred = Pred(t) /\ l.next = loc[t].next /\ l.lnext = loc[t].lnext
  BY <1>3 DEF Locals, Pred
<1>5. Stands(L, t, l) /\ node[Curr(t)].next \in used
  <2> HIDE DEF l
  <2>1. QED BY <1>1, <1>4, StandsNext
<1>6. l \in Locals
  BY <1>3, <1>5, LocalTypes
<1>7. Goes(t, "search", l)
  <2>1. pc' = [pc EXCEPT ![t] = "search"]
    BY <1>1 DEF Core, LocalsOK
  <2>2. QED BY <1>2, <2>1 DEF Goes
<1> HIDE DEF l
<1>8. PICK q : q = "search"
  OBVIOUS
<1>9. /\ Does(L, L, {}, t) /\ pc'[t] = q /\ loc'[t] = l /\ call'[t] = call[t] /\ Before(t)' /\ Alike
  BY <1>1, <1>5, <1>6, <1>7, <1>8, DoLocal
<1>10. QED BY <1>4, <1>8, <1>9 DEF Curr, Pred

LEMMA DoWalk ==
  ASSUME NEW L, Core(L), NEW t \in Threads, Before(t), node[Curr(t)].key < Key(t),
         NEW from, NEW to, from # "idle", to # "idle", Walk(t, from, to)
  PROVE  /\ Does(L, L, {}, t) /\ call'[t] = call[t] /\ Before(t)' /\ Alike /\ pc[t] = from
         /\ Pred(t)' = Curr(t) /\ Curr(t)' = node[Curr(t)].next /\ Curr(t) \in used /\ Curr(t)' \in used
         /\ loc'[t].pver = loc[t].pver
         /\ \/ pc'[t] = from /\ node[Curr(t)'].key < Key(t)
            \/ pc'[t] = to /\ node[Curr(t)'].key >= Key(t)
<1> DEFINE next == node[Curr(t)].next
           l == [loc[t] EXCEPT !.pred = Curr(t), !.curr = next]
<1>1. /\ UNCHANGED heap /\ UNCHANGED hist /\ loc' = [loc EXCEPT ![t] = l] /\ pc[t] = from
  BY DEF Walk
<1>2. PICK q : q = (IF node[next].key < Key(t) THEN from ELSE to) /\ pc' = [pc EXCEPT ![t] = q] /\ q # "idle"
  BY DEF Walk
<1>3. loc[t] \in Locals
  BY LocalTypes
<1>4. l.curr = next /\ l.pred = Curr(t) /\ l.next = loc[t].next /\ l.lnext = loc[t].lnext /\ l.pver = loc[t].pver
  BY <1>3 DEF Locals
<1>5. Stands(L, t, l) /\ next \in used /\ Curr(t) \in used
  <2> HIDE DEF l
  <2>1. QED BY <1>4, StandsNext
<1>6. l \in Locals
  BY <1>3, <1>5, LocalTypes
<1>7. Goes(t, q, l)
  BY <1>1, <1>2 DEF Goes
<1> HIDE DEF l
<1>8. /\ Does(L, L, {}, t) /\ pc'[t] = q /\ loc'[t] = l /\ call'[t] = call[t] /\ Before(t)' /\ Alike
  BY <1>1, <1>2, <1>5, <1>6, <1>7, DoLocal
<1>9. node[next].key \in Int /\ Key(t) \in Int
  <2>1. Key(t) \in Keys /\ HeapOK /\ ChainOK(L)
    BY CallKey DEF Core, Before
  <2>2. QED BY <1>5, <2>1, ChainFacts, KeyBounds DEF ChainProps
<1>10. QED BY <1>1, <1>2, <1>4, <1>5, <1>8, <1>9 DEF Curr, Pred

\* Locks may change, and nothing else that is shared.
LocksOnly ==
  SameNodes /\ node' \in [Nodes -> NodeSet] /\ lock' \in [Buckets -> Nat] /\ freed' = freed

LEMMA AlikeLocks ==
  ASSUME HeapOK, Alike
  PROVE  LocksOnly
BY HeapAlike DEF LocksOnly, Alike

LEMMA DoRestart ==
  ASSUME NEW L, Core(L), NEW t \in Threads, Before(t), LocksOnly, UNCHANGED hist, Restart(t)
  PROVE  /\ Does(L, L, {}, t) /\ call'[t] = call[t] /\ Before(t)'
         /\ pc'[t] = call[t].op /\ call[t].op \in Ops
         /\ Curr(t)' = min(addr(Key(t))) /\ Pred(t)' = NULL /\ Curr(t)' \in Sentinels
         /\ node[Curr(t)'].key = 0 /\ 0 < Key(t)
<1>1. HeapOK /\ HistTypeOK /\ MapOK(L) /\ ThreadOK(L, t)
  BY DEF Core
<1>2. Key(t) \in Keys /\ call[t].op \in Ops
  BY <1>1, CallKey DEF Before
<1> DEFINE h == min(addr(Key(t)))
           l == [NoLocals EXCEPT !.curr = h]
<1>3. h \in Sentinels /\ h \in used /\ Home[h] = addr(Key(t)) /\ node[h].key = 0
  BY <1>1, <1>2, HeapFacts DEF HeapProps
<1>4. h \in Int
  BY <1>1, <1>3, HeapFacts DEF HeapProps
<1>5. l \in Locals /\ l.curr = h /\ l.pred = NULL /\ l.next = NULL /\ l.lnext = NULL
  <2> HIDE DEF h
  <2>1. l \in Locals
    BY <1>4, NoLocalsType DEF Locals
  <2>2. QED BY <2>1 DEF NoLocals
<1>6. AtHead(Key(t)) = l
  BY <1>3 DEF AtHead
<1>7. Stands(L, t, l)
  <2>1. Result(L, h, Key(t)) \in seen[t]
    BY <1>1, <1>2 DEF MapOK, ThreadOK, Before
  <2>2. QED BY <1>3, <1>5, <2>1 DEF Stands, Mine
<1>8. PICK q : q = call[t].op /\ q # "idle"
  BY <1>2 DEF Ops
<1>9. Goes(t, q, l)
  BY <1>6, <1>8 DEF Restart, Goes
<1> HIDE DEF l
<1>10. Does(L, L, {}, t) /\ pc'[t] = q /\ loc'[t] = l /\ call'[t] = call[t] /\ Before(t)'
  BY <1>5, <1>7, <1>8, <1>9, DoMove DEF LocksOnly
<1>11. QED BY <1>2, <1>3, <1>5, <1>8, <1>10, KeyBounds DEF Curr, Pred

\* A call returns, with nothing changed but locks.
LEMMA DoAnswer ==
  ASSUME NEW L, Core(L), NEW t \in Threads, InCall(t), LocksOnly,
         NEW r \in Vals \cup {0, 1}, Return(t, r), Rightful(t, r)
  PROVE  Does(L, L, {}, t) /\ pc'[t] = "idle" /\ loc'[t] = NoLocals
<1>1. freed' \in [Nodes -> {0, 1}] /\ \A n \in Nodes : freed'[n] = 1 => freed[n] = 1 \/ (n \in used \ Sentinels /\ ~On(L, n))
  BY DEF Core, HeapOK, LocksOnly
<1>2. QED BY <1>1, DoReturn DEF LocksOnly

\* What a call that stands at its key, or past it, may answer.
LEMMA Answers ==
  ASSUME NEW L, Core(L), NEW t \in Threads, Before(t), node[Curr(t)].key >= Key(t)
  PROVE  /\ Curr(t) \in used /\ ValOf(Curr(t), Key(t)) \in Vals \cup {0, 1}
         /\ call[t].op = "search" => Rightful(t, ValOf(Curr(t), Key(t)))
         /\ call[t].op = "insert" /\ node[Curr(t)].key = Key(t) /\ ~node[Curr(t)].marked => Rightful(t, 0)
         /\ call[t].op = "remove" /\ node[Curr(t)].key # Key(t) => Rightful(t, 0)
<1>1. HeapOK /\ HistTypeOK /\ ChainOK(L) /\ ThreadOK(L, t)
  BY DEF Core
<1>2. Curr(t) \in used /\ Result(L, Curr(t), Key(t)) \in seen[t] /\ Key(t) \in Keys
  BY <1>1, CallKey DEF ThreadOK, Mine, Before
<1>3. node[Curr(t)].key \in Int /\ Key(t) \in Int
  BY <1>1, <1>2, ChainFacts, KeyBounds DEF ChainProps
<1>4. Result(L, Curr(t), Key(t)) = ValOf(Curr(t), Key(t))
  BY <1>3 DEF Result, End
<1>5. ValOf(Curr(t), Key(t)) \in Vals \cup {0, 1}
  <2>1. node[Curr(t)].val \in Vals \cup {0}
    BY <1>1, <1>2, HeapFacts DEF HeapProps
  <2>2. QED BY <2>1 DEF ValOf, None, Abs!None
<1>6. call[t].op = "insert" /\ node[Curr(t)].key = Key(t) /\ ~node[Curr(t)].marked => Rightful(t, 0)
  <2>1. SUFFICES ASSUME call[t].op = "insert", node[Curr(t)].key = Key(t), ~node[Curr(t)].marked
                 PROVE  Rightful(t, 0)
    OBVIOUS
  <2>2. Curr(t) \notin Sentinels
    BY <1>1, <1>2, <2>1, HeapFacts, KeyBounds DEF HeapProps
  <2>3. node[Curr(t)].val \in Vals
    BY <1>1, <1>2, <2>2, HeapFacts DEF HeapProps
  <2>4. node[Curr(t)].val # 0 /\ node[Curr(t)].val \in seen[t]
    BY <1>2, <1>4, <2>1, <2>3, KeysAndValsAssumption DEF ValOf
  <2>5. QED BY <2>1, <2>4 DEF Rightful, Abs!Justified, Abs!None
<1>7. QED BY <1>2, <1>4, <1>5, <1>6 DEF Rightful, Abs!Justified, ValOf, None

\* A call that has taken effect returns what the effect has fixed.
LEMMA AnswersAfter ==
  ASSUME NEW L, Core(L), NEW t \in Threads, After(t)
  PROVE  /\ InCall(t)
         /\ call[t].op = "insert" => Rightful(t, 1)
         /\ call[t].op = "remove" =>
              /\ Curr(t) \in used \ Sentinels /\ node[Curr(t)].val \in Vals
              /\ Rightful(t, node[Curr(t)].val)
<1>1. HeapOK /\ ThreadOK(L, t)
  BY DEF Core
<1>2. ~Before(t) /\ InCall(t)
  BY DEF Before, After
<1>3. CASE call[t].op = "insert"
  BY <1>1, <1>2, <1>3 DEF ThreadOK, Rightful
<1>4. CASE call[t].op = "remove"
  BY <1>1, <1>2, <1>4, HeapFacts DEF ThreadOK, Rightful, HeapProps
<1>5. QED BY <1>2, <1>3, <1>4

\* What the other threads keep.
LEMMA StillSame ==
  ASSUME set' = set, NEW u, Still(u)
  PROVE  /\ pc'[u] = pc[u] /\ Pred(u)' = Pred(u) /\ Curr(u)' = Curr(u) /\ Key(u)' = Key(u)
         /\ addr(Key(u))' = addr(Key(u)) /\ loc'[u] = loc[u] /\ call'[u] = call[u]
         /\ Before(u)' <=> Before(u)
         /\ After(u)' <=> After(u)
         /\ InCall(u)' <=> InCall(u)
BY DEF Still, Pred, Curr, Key, addr, hash, Before, After, InCall, NoCall, Abs!NoCall, Abs!Pending

LEMMA LiveKept ==
  ASSUME NEW L, NEW L2, NEW gone, Kept(L, L2, gone)
  PROVE  /\ \A n \in used : n \notin gone => (Live(L2, n)' <=> Live(L, n))
         /\ \A n \in used : n \notin gone => (On(L2, n)' <=> On(L, n))
         /\ \A n \in used : n \in gone => ~On(L2, n)'
         /\ \A n \in used : ~On(L, n) => ~On(L2, n)'
         /\ \A n \in used : Live(L2, n)' => Live(L, n)
         /\ \A n \in used : n \in Sentinels => Live(L2, n)'
<1>1. Sentinels' = Sentinels
  BY SetSame DEF Kept
<1>2. QED BY <1>1 DEF Kept, Live

-----------------------------------------------------------------------------
(* The list with one OPTIK lock.                                           *)

\* What a step has to establish, besides what is special to a list.
Good(L2) == Core(L2)' /\ Lin /\ Frozen /\ set' = set

\* For thread u nothing has changed in its bucket, or its version is out of date.
GLSees(u, gone) ==
  LET b == addr(Key(u)) IN
  \/ /\ lock'[b] = lock[b]
     /\ \A n \in used : Home[n] = b =>
          node'[n].next = node[n].next /\ n \notin gone /\ freed'[n] = freed[n]
  \/ /\ pc[u] \notin GLHolds /\ lock[b] \in Nat /\ lock'[b] \in Nat /\ lock'[b] >= lock[b]
     /\ lock'[b] = lock[b] => lock[b] % 2 = 1

LEMMA GLFrame ==
  ASSUME NEW L, Core(L), NEW L2, NEW gone, Kept(L, L2, gone), NEW u \in Threads, Still(u),
         OptikGLThread(L, u), InCall(u), GLSees(u, gone)
  PROVE  OptikGLThread(L2, u)'
<1>1. HeapOK /\ HistTypeOK /\ ThreadOK(L, u)
  BY DEF Core
<1>2. /\ pc'[u] = pc[u] /\ Pred(u)' = Pred(u) /\ Curr(u)' = Curr(u) /\ Key(u)' = Key(u)
      /\ addr(Key(u))' = addr(Key(u)) /\ loc'[u] = loc[u] /\ call'[u] = call[u]
      /\ Before(u)' <=> Before(u)
      /\ After(u)' <=> After(u)
  BY StillSame DEF Kept
<1>3. Sentinels' = Sentinels /\ used \subseteq used'
  BY SetSame DEF Kept
<1>4. \A n \in used : node'[n].key = node[n].key /\ (n \notin gone => (Live(L2, n)' <=> Live(L, n)))
                      /\ (~On(L, n) => ~On(L2, n)')
  BY LiveKept DEF Kept
<1>5. Before(u) => Curr(u) \in used /\ Home[Curr(u)] = addr(Key(u))
  BY <1>1 DEF ThreadOK, Mine
<1>6. Pred(u) # NULL => Pred(u) \in used /\ Home[Pred(u)] = addr(Key(u))
  BY <1>1 DEF ThreadOK, Mine
<1>7. pc[u] = "unlock" /\ call[u].op = "remove" => Curr(u) \in used /\ Home[Curr(u)] = addr(Key(u))
  BY <1>1 DEF ThreadOK, OptikGLThread
<1>8. pc[u] \in {"i_walk", "r_walk"} => Walking(u)'
  BY <1>2, <1>4, <1>5 DEF Walking, OptikGLThread
<1>9. pc[u] \in {"i_test", "r_test"} => Reached(u)'
  BY <1>2, <1>4, <1>5 DEF Reached, OptikGLThread
<1>10. (pc[u] \in {"insert", "remove"} => Curr(u) = min(addr(Key(u))))'
  BY <1>2 DEF OptikGLThread, min
<1>11. CASE /\ lock'[addr(Key(u))] = lock[addr(Key(u))]
            /\ \A n \in used : Home[n] = addr(Key(u)) =>
                 node'[n].next = node[n].next /\ n \notin gone /\ freed'[n] = freed[n]
  <2>1. Current(u)' => Current(u)
    BY <1>2, <1>11 DEF Current
  <2>2. Before(u) /\ Live(L, Curr(u)) => Live(L2, Curr(u))'
    BY <1>2, <1>4, <1>5, <1>11 DEF Live, On
  <2>3. Adjacent(L, u) => Adjacent(L2, u)'
    <3>1. SUFFICES ASSUME Adjacent(L, u) PROVE Adjacent(L2, u)'
      OBVIOUS
    <3>2. PICK p \in used : p = Pred(u) /\ Home[p] = addr(Key(u)) /\ Live(L, p) /\ node[p].next = Curr(u)
      BY <1>6, <3>1 DEF Adjacent
    <3>3. Live(L2, p)' /\ node'[p].next = Curr(u)
      BY <1>4, <1>11, <3>2
    <3>4. Live(L2, Pred(u))'
      BY <1>2, <3>2, <3>3 DEF Live, On
    <3>5. QED BY <1>2, <3>1, <3>2, <3>3, <3>4 DEF Adjacent, NULL
  <2>4. pc[u] = "unlock" /\ call[u].op = "remove" => Unlinked(L2, u)'
    <3>1. SUFFICES ASSUME pc[u] = "unlock", call[u].op = "remove" PROVE Unlinked(L2, u)'
      OBVIOUS
    <3>2. PICK m \in used \ Sentinels : m = Curr(u) /\ Home[m] = addr(Key(u)) /\ ~On(L, m) /\ freed[m] = 0 /\ After(u)
      BY <1>7, <3>1 DEF OptikGLThread, Unlinked
    <3>3. ~On(L2, m)' /\ freed'[m] = 0
      BY <1>4, <1>11, <3>2
    <3>4. ~On(L2, Curr(u))'
      BY <1>2, <3>2, <3>3 DEF On
    <3>5. QED BY <1>2, <1>3, <3>2, <3>3, <3>4 DEF Unlinked
  <2>5. pc[u] \in {"i_link", "r_unlink"} => node'[Curr(u)].key = node[Curr(u)].key
    BY <1>4, <1>5 DEF OptikGLThread
  <2>6. Before(u) => (pc[u] \in {"i_walk", "r_walk"} => (Current(u)' => Live(L2, Curr(u))'))
    BY <2>1, <2>2 DEF OptikGLThread
  <2>7. pc[u] \in {"i_test", "r_test"} => (Current(u)' => Adjacent(L2, u)')
    BY <2>1, <2>3 DEF OptikGLThread
  <2>8. QED
    BY <1>2, <1>8, <1>9, <1>10, <1>11, <2>3, <2>4, <2>5, <2>6, <2>7 DEF OptikGLThread, GLHolds
<1>12. CASE /\ pc[u] \notin GLHolds /\ lock[addr(Key(u))] \in Nat /\ lock'[addr(Key(u))] \in Nat
            /\ lock'[addr(Key(u))] >= lock[addr(Key(u))]
            /\ lock'[addr(Key(u))] = lock[addr(Key(u))] => lock[addr(Key(u))] % 2 = 1
  <2>1. pc[u] \in {"i_walk", "r_walk", "i_test", "r_test"} =>
          loc[u].pver \in Nat /\ loc[u].pver <= lock'[addr(Key(u))] /\ ~Current(u)'
    BY <1>2, <1>12 DEF Current, optik_is_locked, OptikGLThread
  <2>2. QED BY <1>2, <1>8, <1>9, <1>10, <1>12, <2>1 DEF OptikGLThread, GLHolds
<1>13. QED BY <1>11, <1>12 DEF GLSees

\* All but what is to be shown for the thread that takes the step.
LEMMA GLStep ==
  ASSUME NEW L, Core(L), OptikGLOK(L), NEW t \in Threads, NEW L2, NEW gone, Does(L, L2, gone, t), Unmarked',
         \A u \in Threads \ {t} : InCall(u) => GLSees(u, gone),
         pc'[t] \in GLHolds =>
           \A u \in Threads \ {t} : pc[u] \in GLHolds => addr(Key(u)) # addr(Key(t)) /\ Key(t)' = Key(t),
         OptikGLThread(L2, t)'
  PROVE  Good(L2) /\ OptikGLOK(L2)'
<1>1. /\ Kept(L, L2, gone) /\ set' = set /\ \A u \in Threads \ {t} : Still(u)
      /\ \A u \in Threads : ThreadOK(L, u) /\ OptikGLThread(L, u)
  BY DEF Does, Others, Kept, Core, OptikGLOK
<1>2. \A u \in Threads \ {t} : pc'[u] = pc[u] /\ addr(Key(u))' = addr(Key(u))
  BY <1>1, StillSame
<1>3. ASSUME NEW u \in Threads \ {t} PROVE OptikGLThread(L2, u)'
  <2>1. CASE InCall(u)
    BY <1>1, <2>1, GLFrame
  <2>2. CASE ~InCall(u)
    <3>1. pc'[u] = "idle"
      BY <1>1, <1>2, <2>2 DEF ThreadOK
    <3>2. QED BY <3>1 DEF OptikGLThread, GLHolds
  <2>3. QED BY <2>1, <2>2
<1>4. pc'[t] \in GLHolds => \A u \in Threads \ {t} : pc[u] \in GLHolds => addr(Key(t))' = addr(Key(t))
  BY <1>1 DEF addr, hash
<1>5. OptikGLAlone'
  BY <1>2, <1>4 DEF OptikGLAlone, OptikGLOK, GLHolds
<1>6. QED BY <1>1, <1>3, <1>5 DEF OptikGLOK, Good, Does

\* A step that changes nothing shared.
LEMMA GLLocal ==
  ASSUME NEW L, Core(L), OptikGLOK(L), NEW t \in Threads, Does(L, L, {}, t), Alike, pc'[t] \notin GLHolds,
         OptikGLThread(L, t)'
  PROVE  Good(L) /\ OptikGLOK(L)'
<1>1. Unmarked'
  BY SetSame DEF OptikGLOK, Unmarked, Alike
<1>2. PICK gone : gone = {}
  OBVIOUS
<1>3. \A u \in Threads \ {t} : GLSees(u, gone)
  BY <1>2 DEF GLSees, Alike
<1>4. QED BY <1>1, <1>2, <1>3, GLStep

LEMMA GLIdle ==
  ASSUME NEW L, NEW t, pc'[t] = "idle"
  PROVE  OptikGLThread(L, t)' /\ pc'[t] \notin GLHolds
BY DEF OptikGLThread, GLHolds

\* What holds of a thread when its step begins.
LEMMA GLHere ==
  ASSUME NEW L, Core(L), OptikGLOK(L), NEW t \in Threads
  PROVE  /\ HeapOK /\ HistTypeOK /\ LocalsOK /\ ChainOK(L) /\ ThreadOK(L, t) /\ OptikGLThread(L, t)
         /\ pc[t] # "idle" => InCall(t) /\ Key(t) \in Keys /\ addr(Key(t)) \in Buckets
         /\ \A n \in Nodes : ~node[n].marked
         /\ lock \in [Buckets -> Nat] /\ freed \in [Nodes -> {0, 1}] /\ used \subseteq Nodes
<1>1. /\ HeapOK /\ HistTypeOK /\ LocalsOK /\ ChainOK(L) /\ ThreadOK(L, t) /\ OptikGLThread(L, t)
      /\ \A n \in Nodes : ~node[n].marked
  BY DEF Core, OptikGLOK, Unmarked
<1>2. pc[t] # "idle" => InCall(t) /\ Key(t) \in Keys
  BY <1>1, CallKey DEF ThreadOK
<1>3. pc[t] # "idle" => addr(Key(t)) \in Buckets
  BY <1>1, <1>2, HeapFacts DEF HeapProps
<1>4. QED BY <1>1, <1>2, <1>3 DEF HeapOK

LEMMA GLInvoke ==
  ASSUME NEW L, Core(L), OptikGLOK(L), NEW t \in Threads, NEW c \in Calls, Invoke(t, c)
  PROVE  \E L2 : Good(L2) /\ OptikGLOK(L2)'
<1>1. /\ Core(L)' /\ Kept(L, L, {}) /\ Others(t) /\ Before(t)'
      /\ call'[t] = c /\ Curr(t)' = min(addr(c.key)) /\ pc'[t] = c.op /\ c.op \in Ops
  BY CoreInvoke
<1>2. Alike
  BY DEF Invoke, heap, Alike
<1>3. Begins(t, c)
  BY DEF Invoke
<1>4. Lin
  BY <1>3 DEF Lin
<1>5. Does(L, L, {}, t)
  BY <1>1, <1>2, <1>4 DEF Does, Frozen, Alike
<1>6. OptikGLThread(L, t)'
  <2>1. Curr(t)' = min(addr(Key(t)))'
    BY <1>1, <1>2, SetSame DEF Key, addr, hash, min, Alike
  <2>2. QED BY <1>1, <2>1 DEF OptikGLThread, GLHolds, Ops
<1>7. QED BY <1>1, <1>2, <1>5, <1>6, GLLocal DEF GLHolds, Ops

LEMMA GLSearchNext ==
  ASSUME NEW L, Core(L), OptikGLOK(L), NEW t \in Threads, SearchNext(t)
  PROVE  \E L2 : Good(L2) /\ OptikGLOK(L2)'
<1>1. Before(t) /\ call[t].op = "search"
  BY GLHere DEF SearchNext, OptikGLThread, GLHolds
<1>2. Does(L, L, {}, t) /\ pc'[t] = "search" /\ call'[t] = call[t] /\ Before(t)' /\ Alike
  BY <1>1, DoSearchNext
<1>3. OptikGLThread(L, t)' /\ pc'[t] \notin GLHolds
  BY <1>1, <1>2 DEF OptikGLThread, GLHolds
<1>4. QED BY <1>2, <1>3, GLLocal

\* search, or an update that changes nothing, returns.
LEMMA GLAnswer ==
  ASSUME NEW L, Core(L), OptikGLOK(L), NEW t \in Threads,
         NEW r, (r = ValOf(Curr(t), Key(t)) /\ call[t].op = "search") \/ r = 0,
         Before(t), Rightful(t, r), node[Curr(t)].key >= Key(t), Answer(t, r)
  PROVE  \E L2 : Good(L2) /\ OptikGLOK(L2)'
<1>1. Alike /\ Return(t, r)
  BY DEF Answer, Alike, heap
<1>2. LocksOnly /\ r \in Vals \cup {0, 1} /\ InCall(t)
  BY <1>1, GLHere, AlikeLocks, Answers DEF Before
<1>3. Does(L, L, {}, t) /\ pc'[t] = "idle"
  BY <1>1, <1>2, DoAnswer
<1>4. QED BY <1>1, <1>3, GLLocal, GLIdle

LEMMA GLSearchEnd ==
  ASSUME NEW L, Core(L), OptikGLOK(L), NEW t \in Threads, SearchEnd(t)
  PROVE  \E L2 : Good(L2) /\ OptikGLOK(L2)'
<1>1. Before(t) /\ call[t].op = "search" /\ node[Curr(t)].key >= Key(t)
  BY GLHere DEF SearchEnd, OptikGLThread, KeyOf, GLHolds
<1>2. Curr(t) \in used /\ Rightful(t, ValOf(Curr(t), Key(t)))
  BY <1>1, Answers
<1>3. Val(t) = ValOf(Curr(t), Key(t))
  BY <1>2, GLHere DEF Val, ValOf, KeyOf, None, Abs!None
<1>4. Answer(t, ValOf(Curr(t), Key(t)))
  BY <1>3 DEF SearchEnd
<1>5. QED BY <1>1, <1>2, <1>4, GLAnswer

LEMMA GLFail ==
  ASSUME NEW L, Core(L), OptikGLOK(L), NEW t \in Threads,
         \/ pc[t] = "i_test" /\ KeyOf(t) = Key(t)
         \/ pc[t] = "r_test" /\ KeyOf(t) # Key(t),
         Answer(t, 0)
  PROVE  \E L2 : Good(L2) /\ OptikGLOK(L2)'
<1>1. /\ Before(t) /\ node[Curr(t)].key >= Key(t)
      /\ \/ call[t].op = "insert" /\ node[Curr(t)].key = Key(t)
         \/ call[t].op = "remove" /\ node[Curr(t)].key # Key(t)
  BY GLHere DEF OptikGLThread, Reached, KeyOf, GLHolds
<1>2. Curr(t) \in used
  BY <1>1, Answers
<1>3. ~node[Curr(t)].marked
  BY <1>2, GLHere
<1>4. Rightful(t, 0)
  BY <1>1, <1>3, Answers
<1>5. QED BY <1>1, <1>4, GLAnswer

LEMMA GLVersion ==
  ASSUME NEW L, Core(L), OptikGLOK(L), NEW t \in Threads,
         Goto(t, "insert", "i_walk") \/ Goto(t, "remove", "r_walk"),
         loc' = [loc EXCEPT ![t].pver = lock[addr(Key(t))]], UNCHANGED heap, UNCHANGED hist
  PROVE  \E L2 : Good(L2) /\ OptikGLOK(L2)'
<1>1. /\ HeapOK /\ OptikGLThread(L, t) /\ Key(t) \in Keys /\ lock[addr(Key(t))] \in Nat /\ addr(Key(t)) \in Buckets
      /\ loc[t] \in Locals
  BY GLHere, LocalTypes DEF Goto
<1>0. PICK v \in Nat, r \in Locals : v = lock[addr(Key(t))] /\ r = loc[t]
  BY <1>1
<1> DEFINE l == [r EXCEPT !.pver = v]
<1>2. /\ l \in Locals /\ l.curr = Curr(t) /\ l.pred = Pred(t) /\ l.next = loc[t].next /\ l.lnext = loc[t].lnext
      /\ l.pver = v
  <2>1. v \in Int
    OBVIOUS
  <2>2. QED BY <1>0, <2>1, PverTo DEF Curr, Pred
<1>3. PICK q : /\ Goes(t, q, l)
               /\ \/ pc[t] = "insert" /\ q = "i_walk"
                  \/ pc[t] = "remove" /\ q = "r_walk"
  BY <1>0 DEF Goto, Goes
<1>4. Before(t) /\ Curr(t) = min(addr(Key(t))) /\ (pc[t] = "insert" => call[t].op = "insert")
      /\ (pc[t] = "remove" => call[t].op = "remove")
  BY <1>1, <1>3 DEF OptikGLThread, GLHolds
<1>5. Stands(L, t, l)
  <2> HIDE DEF l
  <2>1. loc[t].next \in used \cup {NULL}
    BY GLHere DEF ThreadOK
  <2>2. QED BY <1>2, <1>4, <2>1, StandsSame
<1>6. Curr(t) \in Sentinels /\ node[Curr(t)].key < Key(t)
  BY <1>1, <1>4, HeapFacts, KeyBounds DEF HeapProps
<1> HIDE DEF l
<1>7. /\ Does(L, L, {}, t) /\ pc'[t] = q /\ loc'[t] = l /\ call'[t] = call[t] /\ Before(t)' /\ Alike
  BY <1>2, <1>3, <1>4, <1>5, DoLocal
<1>8. Curr(t)' = Curr(t) /\ Key(t)' = Key(t) /\ addr(Key(t))' = addr(Key(t)) /\ Sentinels' = Sentinels
  BY <1>2, <1>7, SetSame DEF Curr, Key, addr, hash, Alike
<1>9. Walking(t)' /\ Live(L, Curr(t))' /\ loc'[t].pver \in Nat /\ loc'[t].pver <= lock'[addr(Key(t))']
  BY <1>0, <1>1, <1>2, <1>6, <1>7, <1>8 DEF Walking, Live, Alike
<1>10. OptikGLThread(L, t)' /\ pc'[t] \notin GLHolds
  BY <1>3, <1>4, <1>7, <1>9 DEF OptikGLThread, GLHolds
<1>11. QED BY <1>7, <1>10, GLLocal

LEMMA GLWalk ==
  ASSUME NEW L, Core(L), OptikGLOK(L), NEW t \in Threads,
         Walk(t, "i_walk", "i_test") \/ Walk(t, "r_walk", "r_test")
  PROVE  \E L2 : Good(L2) /\ OptikGLOK(L2)'
<1>1. /\ HeapOK /\ HistTypeOK /\ ChainOK(L) /\ OptikGLThread(L, t) /\ Key(t) \in Keys
      /\ NULL \notin used
  BY GLHere, HeapFacts DEF Walk, HeapProps
<1>2. PICK from, to : /\ Walk(t, from, to)
                      /\ \/ from = "i_walk" /\ to = "i_test"
                         \/ from = "r_walk" /\ to = "r_test"
  OBVIOUS
<1>3. /\ Before(t) /\ node[Curr(t)].key < Key(t) /\ from = pc[t]
      /\ (from = "i_walk" => call[t].op = "insert") /\ (from = "r_walk" => call[t].op = "remove")
      /\ loc[t].pver \in Nat /\ loc[t].pver <= lock[addr(Key(t))]
      /\ Current(t) => Live(L, Curr(t))
  BY <1>1, <1>2 DEF OptikGLThread, Walk, Walking, GLHolds
<1>4. /\ Does(L, L, {}, t) /\ call'[t] = call[t] /\ Before(t)' /\ Alike
      /\ Pred(t)' = Curr(t) /\ Curr(t)' = node[Curr(t)].next /\ Curr(t) \in used /\ Curr(t)' \in used
      /\ loc'[t].pver = loc[t].pver
      /\ \/ pc'[t] = from /\ node[Curr(t)'].key < Key(t)
         \/ pc'[t] = to /\ node[Curr(t)'].key >= Key(t)
  BY <1>2, <1>3, DoWalk
<1>5. PICK p \in used : p = Curr(t)
  BY <1>4
<1>6. Key(t)' = Key(t) /\ addr(Key(t))' = addr(Key(t)) /\ node' = node /\ lock' = lock
  BY <1>4, SetSame DEF Key, addr, hash, Alike
<1>7. Current(t)' <=> Current(t)
  BY <1>4, <1>6 DEF Current
<1>8. Current(t) => Live(L, Pred(t))' /\ Live(L, Curr(t))'
  <2>1. ASSUME Live(L, p) PROVE Live(L, node[p].next)
    BY <1>1, <1>4, <1>5, <2>1, NextIsLive
  <2>2. Kept(L, L, {})
    BY <1>4 DEF Does
  <2>3. PICK n \in used : n = node[p].next
    BY <1>4, <1>5
  <2>4. (Live(L, n)' <=> Live(L, n)) /\ (Live(L, p)' <=> Live(L, p))
    BY <2>2, LiveKept
  <2>5. SUFFICES ASSUME Current(t) PROVE Live(L, Pred(t))' /\ Live(L, Curr(t))'
    OBVIOUS
  <2>6. Live(L, p)' /\ Live(L, n)'
    BY <1>3, <1>5, <2>1, <2>3, <2>4, <2>5
  <2>7. QED BY <1>4, <1>5, <2>3, <2>6 DEF Live, On
<1>9. pc'[t] = from => Walking(t)' /\ (Current(t)' => Live(L, Curr(t))')
  BY <1>2, <1>4, <1>6, <1>7, <1>8 DEF Walking
<1>10. pc'[t] = to => Reached(t)' /\ (Current(t)' => Adjacent(L, t)')
  <2>1. Pred(t)' # NULL
    BY <1>1, <1>4
  <2>2. SUFFICES ASSUME pc'[t] = to PROVE Reached(t)' /\ (Current(t)' => Adjacent(L, t)')
    OBVIOUS
  <2>3. Reached(t)'
    BY <1>2, <1>4, <1>6, <2>1, <2>2 DEF Reached, NULL
  <2>4. QED BY <1>4, <1>6, <1>7, <1>8, <2>1, <2>3 DEF Adjacent, NULL
<1>11. OptikGLThread(L, t)' /\ pc'[t] \notin GLHolds
  BY <1>2, <1>3, <1>4, <1>6, <1>9, <1>10 DEF OptikGLThread, GLHolds
<1>12. QED BY <1>4, <1>11, GLLocal

LEMMA GLLockFails ==
  ASSUME NEW L, Core(L), OptikGLOK(L), NEW t \in Threads, pc[t] \in {"i_test", "r_test"},
         Restart(t), UNCHANGED heap, UNCHANGED hist
  PROVE  \E L2 : Good(L2) /\ OptikGLOK(L2)'
<1>1. Before(t) /\ call[t].op \in {"insert", "remove"} /\ HeapOK
  BY GLHere DEF OptikGLThread, GLHolds
<1>2. Alike
  BY DEF Alike, heap
<1>3. /\ Does(L, L, {}, t) /\ call'[t] = call[t] /\ Before(t)'
      /\ pc'[t] = call[t].op /\ Curr(t)' = min(addr(Key(t)))
  BY <1>1, <1>2, AlikeLocks, DoRestart
<1>4. Curr(t)' = min(addr(Key(t)))'
  BY <1>2, <1>3, SetSame DEF Key, addr, hash, min, Alike
<1>5. OptikGLThread(L, t)' /\ pc'[t] \notin GLHolds
  BY <1>1, <1>3, <1>4 DEF OptikGLThread, GLHolds
<1>6. QED BY <1>2, <1>3, <1>5, GLLocal

\* The version is the one that was read: nobody has changed the list since.
LEMMA GLValidate ==
  ASSUME NEW L, Core(L), OptikGLOK(L), NEW t \in Threads,
         \/ pc[t] = "i_test" /\ KeyOf(t) # Key(t)
         \/ pc[t] = "r_test" /\ KeyOf(t) = Key(t),
         optik_trylock_version(lock[addr(Key(t))], loc[t].pver),
         lock' = [lock EXCEPT ![addr(Key(t))] = optik_locked(@)],
         pc' = [pc EXCEPT ![t] = IF @ = "i_test" THEN "i_link" ELSE "r_unlink"],
         UNCHANGED <<set, node, used, freed>>, UNCHANGED loc, UNCHANGED hist
  PROVE  \E L2 : Good(L2) /\ OptikGLOK(L2)'
<1>1. /\ HeapOK /\ LocalsOK /\ ThreadOK(L, t) /\ OptikGLThread(L, t) /\ ChainOK(L)
      /\ Key(t) \in Keys /\ addr(Key(t)) \in Buckets /\ lock \in [Buckets -> Nat]
  BY GLHere
<1>2. PICK b \in Buckets, w \in Nat : b = addr(Key(t)) /\ w = lock[b]
  BY <1>1
<1>3. w % 2 # 1 /\ Current(t)
  BY <1>2 DEF optik_trylock_version, optik_is_locked, Current
<1>4. /\ Before(t) /\ Reached(t) /\ Adjacent(L, t)
      /\ pc[t] = "i_test" => call[t].op = "insert"
      /\ pc[t] = "r_test" => call[t].op = "remove"
  BY <1>1, <1>3 DEF OptikGLThread, GLHolds
<1>5. /\ lock' \in [Buckets -> Nat] /\ lock'[b] = w + 1 /\ \A c \in Buckets \ {b} : lock'[c] = lock[c]
  BY <1>1, <1>2 DEF optik_locked
<1>6. set' = set /\ node' = node /\ used' = used /\ freed' = freed /\ SameNodes /\ node' \in [Nodes -> NodeSet]
  BY <1>1 DEF SameNodes, HeapOK
<1>7. PICK q : /\ pc' = [pc EXCEPT ![t] = q]
               /\ \/ pc[t] = "i_test" /\ q = "i_link"
                  \/ pc[t] = "r_test" /\ q = "r_unlink"
  BY DEF Locals
<1>8. PICK l \in Locals : l = loc[t]
  BY LocalTypes
<1>9. Goes(t, q, l)
  BY <1>1, <1>7, <1>8 DEF Goes, LocalsOK
<1>10. Stands(L, t, l)
  BY <1>1, <1>4, <1>8, StandsSame DEF Curr, Pred, ThreadOK
<1>11. /\ Does(L, L, {}, t) /\ pc'[t] = q /\ loc'[t] = l /\ call'[t] = call[t] /\ Before(t)'
  BY <1>4, <1>5, <1>6, <1>7, <1>9, <1>10, DoMove
<1>12. Key(t)' = Key(t) /\ Curr(t)' = Curr(t) /\ Pred(t)' = Pred(t) /\ addr(Key(t))' = b
  BY <1>2, <1>6, <1>8, <1>11, SetSame DEF Key, Curr, Pred, addr, hash
<1>13. PICK gone : gone = {}
  OBVIOUS
<1>14. ASSUME NEW u \in Threads \ {t}, InCall(u)
       PROVE  GLSees(u, gone) /\ (pc[u] \in GLHolds => addr(Key(u)) # b)
  <2>1. OptikGLThread(L, u) /\ addr(Key(u)) \in Buckets
    <3>1. OptikGLThread(L, u) /\ HistTypeOK
      BY GLHere
    <3>2. QED BY <1>1, <1>14, <3>1, CallKey, HeapFacts DEF HeapProps
  <2>2. CASE addr(Key(u)) # b
    BY <1>5, <1>6, <1>13, <2>1, <2>2 DEF GLSees
  <2>3. CASE addr(Key(u)) = b
    <3>1. pc[u] \notin GLHolds
      BY <1>2, <1>3, <2>1, <2>3 DEF OptikGLThread
    <3>2. w + 1 \in Nat /\ w + 1 >= w /\ w + 1 # w
      OBVIOUS
    <3>3. QED BY <1>2, <1>5, <2>3, <3>1, <3>2 DEF GLSees
  <2>4. QED BY <2>2, <2>3
<1>15. \A u \in Threads \ {t} : pc[u] \in GLHolds => addr(Key(u)) # b
  <2>1. \A u \in Threads : pc[u] \in GLHolds => InCall(u)
    BY GLHere DEF GLHolds
  <2>2. QED BY <1>14, <2>1
<1>16. Adjacent(L, t)' /\ node'[Curr(t)'].key = node[Curr(t)].key
  <2>1. PICK p \in used : p = Pred(t) /\ Live(L, p)
    BY <1>1, <1>4 DEF Adjacent, ThreadOK
  <2>2. Live(L, p)'
    BY <1>11, <2>1, LiveKept DEF Does
  <2>3. Live(L, Pred(t))'
    BY <1>12, <2>1, <2>2 DEF Live, On
  <2>4. QED BY <1>4, <1>6, <1>12, <2>3 DEF Adjacent, NULL
<1>17. node[Curr(t)].key > Key(t) \/ node[Curr(t)].key = Key(t)
  <2>1. Curr(t) \in used
    BY <1>1, <1>4 DEF ThreadOK, Mine
  <2>2. node[Curr(t)].key \in Int /\ Key(t) \in Int
    BY <1>1, <2>1, ChainFacts, KeyBounds DEF ChainProps
  <2>3. QED BY <1>4, <2>2 DEF Reached
<1>18. (w + 1) % 2 = 1
  BY <1>3
<1>19. OptikGLThread(L, t)'
  BY <1>4, <1>5, <1>7, <1>11, <1>12, <1>16, <1>17, <1>18 DEF OptikGLThread, GLHolds, KeyOf
<1>20. Unmarked'
  BY <1>6, SetSame DEF OptikGLOK, Unmarked
<1>21. QED BY <1>2, <1>11, <1>12, <1>13, <1>14, <1>15, <1>19, <1>20, GLStep

\* What the holder of a lock does in its bucket, the others do not see.
LEMMA GLHeld ==
  ASSUME NEW L, Core(L), OptikGLOK(L), NEW t \in Threads, pc[t] \in GLHolds, NEW gone,
         lock' \in [Buckets -> Nat], lock'[addr(Key(t))] >= lock[addr(Key(t))],
         \A b \in Buckets : b # addr(Key(t)) => lock'[b] = lock[b],
         \A n \in used : Home[n] # addr(Key(t)) =>
           node'[n].next = node[n].next /\ n \notin gone /\ freed'[n] = freed[n]
  PROVE  /\ \A u \in Threads \ {t} : InCall(u) => GLSees(u, gone)
         /\ \A u \in Threads \ {t} : pc[u] \in GLHolds => addr(Key(u)) # addr(Key(t))
<1>1. \A u \in Threads \ {t} : pc[u] \in GLHolds => addr(Key(u)) # addr(Key(t))
  BY DEF OptikGLOK, OptikGLAlone
<1>2. /\ HeapOK /\ HistTypeOK /\ addr(Key(t)) \in Buckets /\ lock \in [Buckets -> Nat]
      /\ lock[addr(Key(t))] % 2 = 1
  BY GLHere DEF OptikGLThread, GLHolds
<1>3. ASSUME NEW u \in Threads \ {t}, InCall(u) PROVE GLSees(u, gone)
  <2>1. addr(Key(u)) \in Buckets
    BY <1>2, <1>3, CallKey, HeapFacts DEF HeapProps
  <2>2. CASE addr(Key(u)) # addr(Key(t))
    BY <2>1, <2>2 DEF GLSees
  <2>3. CASE addr(Key(u)) = addr(Key(t))
    BY <1>1, <1>2, <1>3, <2>3 DEF GLSees
  <2>4. QED BY <2>2, <2>3
<1>4. QED BY <1>1, <1>3

LEMMA GLLink ==
  ASSUME NEW L, Core(L), OptikGLOK(L), NEW t \in Threads, Goto(t, "i_link", "unlock"),
         Publish(t, Pred(t), ll_simple(Key(t), call[t].val, Curr(t))), UNCHANGED loc
  PROVE  \E L2 : Good(L2) /\ OptikGLOK(L2)'
<1>1. /\ HeapOK /\ HistTypeOK /\ ThreadOK(L, t) /\ OptikGLThread(L, t) /\ Key(t) \in Keys /\ InCall(t)
      /\ pc[t] = "i_link" /\ \A n \in Nodes : ~node[n].marked
      /\ used \subseteq Nodes /\ lock \in [Buckets -> Nat] /\ addr(Key(t)) \in Buckets
  BY GLHere DEF Goto
<1>2. Before(t) /\ call[t].op = "insert" /\ Adjacent(L, t) /\ node[Curr(t)].key > Key(t)
      /\ lock[addr(Key(t))] % 2 = 1
  BY <1>1 DEF OptikGLThread, GLHolds
<1> DEFINE r == ll_simple(Key(t), call[t].val, Curr(t))
<1>3. NewNode(t, Pred(t), r)
  <2>1. Curr(t) \in Nodes /\ call[t].val \in Vals /\ node[Pred(t)].next = Curr(t)
    BY <1>1, <1>2, CallKey DEF ThreadOK, Mine, Calls, Abs!Calls, Adjacent
  <2>2. QED BY <1>1, <2>1 DEF NewNode, ll_simple, NodeSet
<1>4. Publish(t, Pred(t), r) /\ ~r.marked
  BY DEF ll_simple
<1> HIDE DEF r
<1>5. PICK q : q = "unlock" /\ Onward(t, q)
  BY DEF Goto, Onward
<1>6. PICK L2 : \E new \in Nodes \ used :
           /\ Does(L, L2, {}, t) /\ After(t)' /\ On(L2, new)' /\ Home'[new] = addr(Key(t))
           /\ Publishes(t, Pred(t), r, new) /\ pc'[t] = q /\ call'[t] = call[t]
  BY <1>2, <1>3, <1>4, <1>5, DoLink
<1>7. PICK new \in Nodes \ used :
           /\ Does(L, L2, {}, t) /\ After(t)' /\ On(L2, new)' /\ Home'[new] = addr(Key(t))
           /\ Publishes(t, Pred(t), r, new) /\ pc'[t] = q /\ call'[t] = call[t]
  BY <1>6
<1>8. PICK gone : gone = {}
  OBVIOUS
<1>9. /\ set' = set /\ lock' = lock /\ freed' = freed
      /\ \A n \in Nodes : ~node'[n].marked
      /\ \A n \in used : n # Pred(t) => node'[n].next = node[n].next
  BY <1>1, <1>4, <1>7 DEF Publishes
<1>10. Home[Pred(t)] = addr(Key(t))
  BY <1>1, <1>2 DEF ThreadOK, Adjacent, Mine
<1>11. /\ \A u \in Threads \ {t} : InCall(u) => GLSees(u, gone)
       /\ \A u \in Threads \ {t} : pc[u] \in GLHolds => addr(Key(u)) # addr(Key(t))
  <2>1. pc[t] \in GLHolds
    BY <1>1 DEF GLHolds
  <2>2. lock'[addr(Key(t))] >= lock[addr(Key(t))]
    BY <1>1, <1>9
  <2>3. \A n \in used : Home[n] # addr(Key(t)) =>
           node'[n].next = node[n].next /\ n \notin gone /\ freed'[n] = freed[n]
    BY <1>8, <1>9, <1>10
  <2>4. QED BY <1>1, <1>9, <2>1, <2>2, <2>3, GLHeld
<1>12. Unmarked'
  BY <1>9, SetSame DEF Unmarked
<1>13. Key(t)' = Key(t) /\ addr(Key(t))' = addr(Key(t))
  BY <1>7, <1>9, SetSame DEF Key, addr, hash
<1>14. OptikGLThread(L2, t)'
  BY <1>2, <1>5, <1>7, <1>9, <1>13 DEF OptikGLThread, GLHolds
<1>15. QED BY <1>7, <1>8, <1>11, <1>12, <1>13, <1>14, GLStep

LEMMA GLUnlink ==
  ASSUME NEW L, Core(L), OptikGLOK(L), NEW t \in Threads, Goto(t, "r_unlink", "unlock"),
         SetNodes([node EXCEPT ![Pred(t)].next = node[Curr(t)].next]),
         TakesEffect(t, None, node[Curr(t)].val), UNCHANGED loc
  PROVE  \E L2 : Good(L2) /\ OptikGLOK(L2)'
<1>1. /\ HeapOK /\ HistTypeOK /\ ThreadOK(L, t) /\ OptikGLThread(L, t) /\ Key(t) \in Keys /\ InCall(t)
      /\ pc[t] = "r_unlink" /\ \A n \in Nodes : ~node[n].marked
      /\ used \subseteq Nodes /\ lock \in [Buckets -> Nat] /\ addr(Key(t)) \in Buckets
      /\ freed \in [Nodes -> {0, 1}] /\ FreedOK(L)
  BY GLHere DEF Goto, Core
<1>2. Before(t) /\ call[t].op = "remove" /\ Adjacent(L, t) /\ node[Curr(t)].key = Key(t)
      /\ lock[addr(Key(t))] % 2 = 1
  BY <1>1 DEF OptikGLThread, GLHolds
<1>3. Curr(t) \in used /\ ~node[Curr(t)].marked
  BY <1>1, <1>2 DEF ThreadOK, Mine
<1>4. /\ Unlinks(Pred(t), Curr(t)) /\ set' = set /\ lock' = lock /\ freed' = freed
  BY <1>1 DEF SetNodes, Unlinks
<1>5. PICK q : q = "unlock" /\ Onward(t, q)
  BY DEF Goto, Onward
<1>6. /\ On(L, Curr(t)) /\ UnlinkedNodes(Pred(t), Curr(t)) /\ pc'[t] = q /\ call'[t] = call[t]
      /\ \E L2 : Does(L, L2, {Curr(t)}, t) /\ After(t)'
  BY <1>2, <1>3, <1>4, <1>5, DoUnlink
<1>7. PICK L2, gone : gone = {Curr(t)} /\ Does(L, L2, gone, t) /\ After(t)'
  BY <1>6
<1>8. /\ \A n \in Nodes : ~node'[n].marked
      /\ \A n \in used : n # Pred(t) => node'[n].next = node[n].next
  BY <1>1, <1>6 DEF UnlinkedNodes
<1>9. Home[Pred(t)] = addr(Key(t)) /\ Home[Curr(t)] = addr(Key(t))
  BY <1>1, <1>2 DEF ThreadOK, Adjacent, Mine
<1>10. /\ \A u \in Threads \ {t} : InCall(u) => GLSees(u, gone)
       /\ \A u \in Threads \ {t} : pc[u] \in GLHolds => addr(Key(u)) # addr(Key(t))
  <2>1. pc[t] \in GLHolds
    BY <1>1 DEF GLHolds
  <2>2. lock'[addr(Key(t))] >= lock[addr(Key(t))]
    BY <1>1, <1>4
  <2>3. \A n \in used : Home[n] # addr(Key(t)) =>
           node'[n].next = node[n].next /\ n \notin gone /\ freed'[n] = freed[n]
    BY <1>4, <1>7, <1>8, <1>9
  <2>4. QED BY <1>1, <1>4, <2>1, <2>2, <2>3, GLHeld
<1>11. Unmarked'
  BY <1>4, <1>8, SetSame DEF Unmarked
<1>12. Key(t)' = Key(t) /\ addr(Key(t))' = addr(Key(t)) /\ Curr(t)' = Curr(t) /\ Sentinels' = Sentinels
  BY <1>4, <1>6, SetSame DEF Key, addr, hash, Curr
<1>13. Unlinked(L2, t)'
  <2>1. PICK m \in used : m = Curr(t)
    BY <1>3
  <2>2. On(L, m)
    BY <1>6, <2>1 DEF On
  <2>3. ~On(L2, m)' /\ used' = used
    BY <1>4, <1>7, <2>1, LiveKept DEF Does, Unlinks
  <2>4. freed[m] = 0 /\ m \notin Sentinels
    BY <1>1, <2>1, <2>2 DEF FreedOK, On
  <2>5. ~On(L2, Curr(t))'
    BY <1>12, <2>1, <2>3 DEF On
  <2>6. QED BY <1>4, <1>7, <1>12, <2>1, <2>3, <2>4, <2>5 DEF Unlinked
<1>14. OptikGLThread(L2, t)'
  BY <1>2, <1>4, <1>5, <1>6, <1>7, <1>12, <1>13 DEF OptikGLThread, GLHolds
<1>15. QED BY <1>7, <1>10, <1>11, <1>12, <1>14, GLStep

LEMMA GLUnlock ==
  ASSUME NEW L, Core(L), OptikGLOK(L), NEW t \in Threads, pc[t] = "unlock",
         lock' = [lock EXCEPT ![addr(Key(t))] = optik_unlocked(@)],
         Return(t, IF call[t].op = "insert" THEN 1 ELSE node[Curr(t)].val),
         freed' = [freed EXCEPT ![Curr(t)] = @ + IF call[t].op = "remove" THEN 1 ELSE 0],
         UNCHANGED <<set, node, used>>
  PROVE  \E L2 : Good(L2) /\ OptikGLOK(L2)'
<1>1. /\ HeapOK /\ HistTypeOK /\ ThreadOK(L, t) /\ OptikGLThread(L, t) /\ Key(t) \in Keys /\ InCall(t)
      /\ \A n \in Nodes : ~node[n].marked
      /\ used \subseteq Nodes /\ lock \in [Buckets -> Nat] /\ addr(Key(t)) \in Buckets
      /\ freed \in [Nodes -> {0, 1}]
  BY GLHere
<1>2. After(t)
  BY <1>1 DEF OptikGLThread, GLHolds
<1>3. call[t].op = "insert" \/ (call[t].op = "remove" /\ Unlinked(L, t) /\ Home[Curr(t)] = addr(Key(t)))
  BY <1>1, <1>2 DEF OptikGLThread, GLHolds, ThreadOK
<1>4. PICK r \in Vals \cup {0, 1} :
        /\ r = IF call[t].op = "insert" THEN 1 ELSE node[Curr(t)].val
        /\ Rightful(t, r)
  BY <1>2, <1>3, AnswersAfter
<1>5. Return(t, r)
  BY <1>4
<1>6. set' = set /\ node' = node /\ used' = used /\ SameNodes /\ node' \in [Nodes -> NodeSet]
  BY <1>1 DEF SameNodes, HeapOK
<1>7. PICK b \in Buckets, w \in Nat : b = addr(Key(t)) /\ w = lock[b]
  BY <1>1
<1>8. /\ lock' \in [Buckets -> Nat] /\ lock'[b] = w + 1 /\ \A c \in Buckets \ {b} : lock'[c] = lock[c]
  BY <1>1, <1>7 DEF optik_unlocked
<1>9. /\ freed' \in [Nodes -> {0, 1}]
      /\ \A n \in Nodes : freed'[n] = 1 => freed[n] = 1 \/ (n \in used \ Sentinels /\ ~On(L, n))
      /\ \A n \in used : Home[n] # b => freed'[n] = freed[n]
  <2>1. CASE call[t].op = "insert"
    <3>1. freed' = [freed EXCEPT ![Curr(t)] = @ + 0]
      BY <2>1
    <3>2. freed' = freed
      BY <1>1, <3>1
    <3>3. QED BY <1>1, <3>2
  <2>2. CASE call[t].op = "remove" /\ Unlinked(L, t) /\ Home[Curr(t)] = addr(Key(t))
    <3>1. PICK m \in used \ Sentinels : m = Curr(t) /\ ~On(L, m) /\ freed[m] = 0 /\ Home[m] = b
      BY <1>7, <2>2 DEF Unlinked, On
    <3>2. freed' = [freed EXCEPT ![m] = 1]
      BY <1>1, <2>2, <3>1
    <3>3. QED BY <1>1, <3>1, <3>2
  <2>3. QED BY <1>3, <2>1, <2>2
<1>10. Does(L, L, {}, t) /\ pc'[t] = "idle"
  BY <1>1, <1>4, <1>5, <1>6, <1>8, <1>9, DoReturn
<1>11. PICK gone : gone = {}
  OBVIOUS
<1>12. \A u \in Threads \ {t} : InCall(u) => GLSees(u, gone)
  <2>1. pc[t] \in GLHolds
    BY DEF GLHolds
  <2>2. lock'[addr(Key(t))] >= lock[addr(Key(t))]
    BY <1>7, <1>8
  <2>3. \A n \in used : Home[n] # addr(Key(t)) =>
           node'[n].next = node[n].next /\ n \notin gone /\ freed'[n] = freed[n]
    BY <1>6, <1>7, <1>9, <1>11
  <2>4. \A c \in Buckets : c # addr(Key(t)) => lock'[c] = lock[c]
    BY <1>7, <1>8
  <2>5. QED BY <1>8, <2>1, <2>2, <2>3, <2>4, GLHeld
<1>13. Unmarked'
  BY <1>1, <1>6, SetSame DEF Unmarked
<1>14. QED BY <1>10, <1>11, <1>12, <1>13, GLIdle, GLStep

-----------------------------------------------------------------------------
(* The empty list.                                                         *)

LEMMA InitCore ==
  ASSUME set.list \in SortedLists, set.buckets \in Nat \ {0}, set.nodes \in Nat, 2 * set.buckets <= set.nodes,
         set.calls \subseteq Ops \X Keys,
         NEW new \in NodeSet, new.key = 0, new.val = None, new.next = NULL, ~new.marked, ListInit(new)
  PROVE  /\ \E L : Core(L)
         /\ \A n \in Nodes : ~node[n].marked /\ node[n].lock = new.lock
         /\ \A t \in Threads : pc[t] = "idle"
         /\ used = Sentinels /\ Abs!Init
<1>1. /\ Sentinels = 0..(2 * set.buckets - 1) /\ Nodes = 0..(set.nodes - 1) /\ Buckets = 0..(set.buckets - 1)
      /\ \A b \in Buckets : min(b) = 2 * b /\ max(b) = 2 * b + 1
  BY DEF Sentinels, SortedLists, Nodes, Buckets, min, max
<1>2. /\ used = Sentinels /\ freed = [n \in Nodes |-> 0] /\ lock = [b \in Buckets |-> 0]
      /\ pc = [t \in Threads |-> "idle"] /\ loc = [t \in Threads |-> NoLocals] /\ HistInit
      /\ node = [n \in Nodes |->
               CASE \E b \in Buckets : n = min(b) -> [new EXCEPT !.next = n + 1]
                 [] \E b \in Buckets : n = max(b) -> [new EXCEPT !.key = MaxKey]
                 [] OTHER -> new]
  BY DEF ListInit
<1>3. /\ Sentinels \subseteq Nodes /\ NULL \notin Nodes /\ Nodes \subseteq Nat
      /\ \A b \in Buckets : b \in Nat /\ min(b) \in Sentinels /\ max(b) \in Sentinels /\ max(b) = min(b) + 1
                            /\ \A c \in Buckets : min(b) # max(c)
  <2>1. Sentinels \subseteq Nodes /\ NULL \notin Nodes /\ Nodes \subseteq Nat
    BY <1>1 DEF NULL
  <2>2. ASSUME NEW b \in Buckets
        PROVE  b \in Nat /\ min(b) \in Sentinels /\ max(b) \in Sentinels /\ max(b) = min(b) + 1
    BY <1>1
  <2>3. ASSUME NEW b \in Buckets, NEW c \in Buckets PROVE min(b) # max(c)
    BY <1>1
  <2>4. QED BY <2>1, <2>2, <2>3
<1>4. ASSUME NEW n \in Sentinels
      PROVE  \E b \in Buckets : n \div 2 = b /\ (n = min(b) \/ n = max(b))
  <2>1. PICK h \in Nat : h = n \div 2 /\ (n = 2 * h \/ n = 2 * h + 1)
    BY <1>3, Halves
  <2>2. h \in Buckets
    BY <1>1, <2>1
  <2>3. QED BY <1>1, <2>1, <2>2
<1>5. /\ new.key \in Keys \cup {0, MaxKey} /\ new.val \in Vals \cup {0} /\ new.next \in Nodes \cup {NULL}
      /\ new.lock \in Nat /\ new.marked \in BOOLEAN
  BY DEF NodeSet
<1>6. \A n \in Nodes :
        /\ node[n] \in NodeSet /\ ~node[n].marked /\ node[n].lock = new.lock
        /\ \A b \in Buckets : n = min(b) => node[n].key = 0 /\ node[n].next = n + 1
        /\ \A b \in Buckets : n = max(b) => node[n].key = MaxKey /\ node[n].next = NULL
  <2>1. SUFFICES ASSUME NEW n \in Nodes
                 PROVE  /\ node[n] \in NodeSet /\ ~node[n].marked /\ node[n].lock = new.lock
                        /\ \A b \in Buckets : n = min(b) => node[n].key = 0 /\ node[n].next = n + 1
                        /\ \A b \in Buckets : n = max(b) => node[n].key = MaxKey /\ node[n].next = NULL
    OBVIOUS
  <2>2. CASE \E b \in Buckets : n = min(b)
    <3>1. n + 1 \in Nodes /\ \A b \in Buckets : n # max(b)
      BY <1>3, <2>2
    <3>2. node[n] = [new EXCEPT !.next = n + 1]
      BY <1>2, <2>2, <3>1
    <3>3. QED BY <3>1, <3>2 DEF NodeSet
  <2>3. CASE \E b \in Buckets : n = max(b)
    <3>1. \A b \in Buckets : n # min(b)
      BY <1>3, <2>3
    <3>2. node[n] = [new EXCEPT !.key = MaxKey]
      BY <1>2, <2>3, <3>1
    <3>3. QED BY <3>1, <3>2 DEF NodeSet
  <2>4. CASE ~(\E b \in Buckets : n = min(b)) /\ ~(\E b \in Buckets : n = max(b))
    <3>1. node[n] = new
      BY <1>2, <2>4
    <3>2. QED BY <2>4, <3>1
  <2>5. QED BY <2>2, <2>3, <2>4
<1>7. HeapOK
  <2>1. node \in [Nodes -> NodeSet]
    BY <1>2, <1>6
  <2>2. freed \in [Nodes -> {0, 1}] /\ lock \in [Buckets -> Nat]
    BY <1>2
  <2>3. \A b \in Buckets : node[min(b)].key = 0 /\ node[max(b)].key = MaxKey /\ node[max(b)].next = NULL
    BY <1>3, <1>6
  <2>4. \A n \in Sentinels : ~node[n].marked
    BY <1>3, <1>6
  <2>5. QED BY <1>2, <1>3, <2>1, <2>2, <2>3, <2>4 DEF HeapOK
<1>8. HeapProps
  BY <1>7, HeapFacts
<1> DEFINE L == [n \in Nodes |-> [k \in Keys |-> n]]
<1>9. ASSUME NEW n \in used
      PROVE  \E b \in Buckets :
               /\ Home[n] = b
               /\ \/ n = min(b) /\ node[n].key = 0 /\ node[n].next = max(b) /\ node[max(b)].key = MaxKey /\ Home[max(b)] = b
                  \/ n = max(b) /\ node[n].key = MaxKey /\ node[n].next = NULL
  <2>1. PICK b \in Buckets : n = min(b) \/ n = max(b)
    BY <1>2, <1>4
  <2>2. Home[min(b)] = b /\ Home[max(b)] = b
    BY <1>8 DEF HeapProps
  <2>3. QED BY <1>3, <1>6, <2>1, <2>2
<1>10. ChainOK(L)
  <2>1. \A n \in used : n \in Nodes /\ NodeKey[n] = node[n].key /\ NodeNext[n] = node[n].next /\ n # NULL
    BY <1>8 DEF HeapProps
  <2>2. \A b \in Buckets : max(b) \in used /\ min(b) \in used
    BY <1>2, <1>3
  <2>3. Sorted(used, NodeKey, NodeNext, Home)
    <3>1. NULL \notin used /\ 0 < MaxKey /\ MaxKey \in Nat
      <4>1. \E k : k \in Keys
        BY KeysAndValsAssumption
      <4>2. MaxKey \in Nat /\ 0 < MaxKey
        BY <4>1, KeyBounds
      <4>3. QED BY <2>1, <4>2
    <3>2. ASSUME NEW n \in used
          PROVE  /\ NodeKey[n] \in 0..MaxKey
                 /\ NodeNext[n] \in used \cup {NULL}
                 /\ NodeKey[n] < MaxKey => NodeNext[n] \in used
                 /\ NodeNext[n] \in used => NodeKey[n] < NodeKey[NodeNext[n]] /\ Home[NodeNext[n]] = Home[n]
      <4>1. PICK b \in Buckets :
               /\ Home[n] = b
               /\ \/ n = min(b) /\ node[n].key = 0 /\ node[n].next = max(b) /\ node[max(b)].key = MaxKey /\ Home[max(b)] = b
                  \/ n = max(b) /\ node[n].key = MaxKey /\ node[n].next = NULL
        BY <1>9
      <4>2. QED BY <2>1, <2>2, <3>1, <4>1
    <3>3. QED BY <3>1, <3>2 DEF Sorted
  <2>4. ASSUME NEW n \in used, NEW k \in Keys, NodeKey[n] < k
        PROVE  /\ L[n][k] \in used /\ NodeNext[L[n][k]] \in used
               /\ NodeKey[n] <= NodeKey[L[n][k]] /\ NodeKey[L[n][k]] < k /\ k <= NodeKey[NodeNext[L[n][k]]]
               /\ Home[L[n][k]] = Home[n]
               /\ L[n][k] = IF NodeKey[NodeNext[n]] < k THEN L[NodeNext[n]][k] ELSE n
    <3>1. L[n][k] = n /\ k \in Nat /\ k < MaxKey /\ MaxKey \in Nat
      BY <2>1, KeyBounds
    <3>2. PICK b \in Buckets :
             /\ Home[n] = b
             /\ \/ n = min(b) /\ node[n].key = 0 /\ node[n].next = max(b) /\ node[max(b)].key = MaxKey /\ Home[max(b)] = b
                \/ n = max(b) /\ node[n].key = MaxKey /\ node[n].next = NULL
      BY <1>9
    <3>3. NodeKey[n] = 0 /\ NodeNext[n] = max(b) /\ NodeKey[max(b)] = MaxKey
      BY <2>1, <2>2, <2>4, <3>1, <3>2
    <3> HIDE DEF L
    <3>4. QED BY <2>2, <2>4, <3>1, <3>2, <3>3
  <2> HIDE DEF L
  <2>5. QED BY <2>3, <2>4 DEF ChainOK, Chain, LastOK
<1>11. /\ map = [k \in Keys |-> None] /\ call = [t \in Threads |-> NoCall] /\ lin = [t \in Threads |-> Abs!Pending]
       /\ seen = [t \in Threads |-> {}] /\ ret = [t \in Threads |-> None] /\ pr = 0 /\ Abs!Init
  BY <1>2 DEF HistInit, Abs!Init, None, NoCall
<1>12. HistTypeOK
  BY <1>11 DEF HistTypeOK, None, Abs!None
<1>13. LocalsOK
  BY <1>2, NoLocalsType DEF LocalsOK
<1>14. MapOK(L)
  <2>1. ASSUME NEW k \in Keys PROVE map[k] = Result(L, min(addr(k)), k)
    <3>1. /\ node[L[min(addr(k))][k]].next \in used
          /\ End(L, min(addr(k)), k) = node[L[min(addr(k))][k]].next
          /\ k <= node[node[L[min(addr(k))][k]].next].key
      <4> HIDE DEF L
      <4>1. QED BY <1>7, <1>10, FoundIsLive
    <3>2. L[min(addr(k))][k] = min(addr(k)) /\ addr(k) \in Buckets
      BY <1>3, <1>8 DEF HeapProps
    <3>3. End(L, min(addr(k)), k) = max(addr(k)) /\ node[max(addr(k))].key = MaxKey
      BY <1>3, <1>6, <3>1, <3>2
    <3>4. MaxKey # k
      BY KeyBounds
    <3> HIDE DEF L
    <3>5. QED BY <1>11, <3>3, <3>4 DEF Result, ValOf
  <2> HIDE DEF L
  <2>2. QED BY <2>1 DEF MapOK
<1>15. FreedOK(L)
  BY <1>2 DEF FreedOK
<1>16. \A t \in Threads : ThreadOK(L, t)
  <2>1. ASSUME NEW t \in Threads PROVE ThreadOK(L, t)
    <3>1. /\ pc[t] = "idle" /\ loc[t] = NoLocals /\ ~InCall(t) /\ lin[t] = Abs!Pending
          /\ ~Before(t) /\ ~After(t)
      BY <1>2, <1>11 DEF InCall, Before, After
    <3>2. QED BY <3>1 DEF ThreadOK, Pred, Curr, NoLocals
  <2>2. QED BY <2>1
<1>17. RoomOK
  <2>1. {t \in Threads : InCall(t)} = {} /\ Needing = {}
    BY <1>11 DEF InCall, Needing, Before
  <2>2. IsFiniteSet(Fresh)
    BY <1>7, NodesFinite, FS_Subset DEF Fresh
  <2>3. Cardinality(Fresh) \in Nat /\ Cardinality({}) = 0 /\ IsFiniteSet({})
    BY <2>2, FS_EmptySet, FS_CardinalityType
  <2>4. Cardinality(Needing) <= Cardinality(Fresh)
    BY <2>1, <2>3
  <2>5. QED BY <2>1, <2>3, <2>4 DEF RoomOK
<1>18. Core(L)
  BY <1>7, <1>10, <1>12, <1>13, <1>14, <1>15, <1>16, <1>17 DEF Core
<1>19. QED BY <1>2, <1>6, <1>11, <1>18

-----------------------------------------------------------------------------
(* Counting.  pr counts what has returned; the map also what has not.      *)

Added == {t \in Threads : After(t) /\ call[t].op = "insert"}
Taken == {t \in Threads : After(t) /\ call[t].op = "remove"}

CountOK == pr = Cardinality(Abs!Present) - Cardinality(Added) + Cardinality(Taken)

LEMMA AddedFinite ==
  RoomOK => /\ IsFiniteSet(Added) /\ Cardinality(Added) \in Nat
            /\ IsFiniteSet(Taken) /\ Cardinality(Taken) \in Nat
<1>1. SUFFICES ASSUME RoomOK
               PROVE  /\ IsFiniteSet(Added) /\ Cardinality(Added) \in Nat
                      /\ IsFiniteSet(Taken) /\ Cardinality(Taken) \in Nat
  OBVIOUS
<1> DEFINE I == {t \in Threads : InCall(t)}
<1>2. IsFiniteSet(I) /\ Added \subseteq I /\ Taken \subseteq I
  BY <1>1 DEF RoomOK, Added, Taken, After
<1>3. IsFiniteSet(Added) /\ IsFiniteSet(Taken)
  BY <1>2, FS_Subset
<1>4. QED BY <1>3, FS_CardinalityType

\* Every step keeps the count.
LEMMA CountKept ==
  ASSUME NEW L, Core(L), CountOK, Lin
  PROVE  CountOK'
<1> DEFINE P == Abs!Present
<1>1. HistTypeOK /\ RoomOK /\ \A t \in Threads : ThreadOK(L, t)
  BY DEF Core
<1>2. /\ IsFiniteSet(P) /\ Cardinality(P) \in Nat
      /\ IsFiniteSet(Added) /\ Cardinality(Added) \in Nat
      /\ IsFiniteSet(Taken) /\ Cardinality(Taken) \in Nat
  BY <1>1, PresentFinite, AddedFinite
<1>3. pr = Cardinality(P) - Cardinality(Added) + Cardinality(Taken)
  BY DEF CountOK
<1>4. CASE UNCHANGED hist
  <2>1. call' = call /\ lin' = lin /\ map' = map /\ pr' = pr
    BY <1>4 DEF hist
  <2>2. P' = P /\ Added' = Added /\ Taken' = Taken
    BY <2>1 DEF Added, Taken, After, InCall, NoCall, Abs!NoCall, Abs!Pending, Abs!Present, Abs!None
  <2>3. QED BY <1>3, <2>1, <2>2 DEF CountOK
<1>5. ASSUME NEW t \in Threads, NEW c \in Calls, Begins(t, c) PROVE CountOK'
  <2>1. /\ call[t] = NoCall /\ call' = [call EXCEPT ![t] = c] /\ lin' = lin /\ map' = map /\ pr' = pr
    BY <1>5 DEF Begins, Abs!Invoke, NoCall
  <2>2. lin[t] = Abs!Pending /\ ~InCall(t)
    BY <1>1, <2>1 DEF ThreadOK, InCall
  <2>3. \A u \in Threads \ {t} : call'[u] = call[u]
    BY <1>1, <2>1 DEF HistTypeOK
  <2>4. ~After(t) /\ ~After(t)'
    BY <2>1, <2>2 DEF After, Abs!Pending
  <2>5. \A u \in Threads \ {t} : After(u)' <=> After(u)
    BY <2>1, <2>3 DEF After, InCall, NoCall, Abs!NoCall, Abs!Pending
  <2>6. Added' = Added /\ Taken' = Taken
    BY <2>3, <2>4, <2>5 DEF Added, Taken
  <2>7. P' = P
    BY <2>1 DEF Abs!Present, Abs!None
  <2>8. QED BY <1>3, <2>1, <2>6, <2>7 DEF CountOK
<1>6. ASSUME NEW t \in Threads, Inserts(t) PROVE CountOK'
  <2>1. /\ Before(t) /\ call[t].op = "insert" /\ map[Key(t)] = None
        /\ call' = call /\ lin' = [lin EXCEPT ![t] = 1] /\ map' = [map EXCEPT ![Key(t)] = call[t].val] /\ pr' = pr
    BY <1>6 DEF Inserts, TakesEffect
  <2>2. Key(t) \in Keys /\ call[t].val \in Vals
    BY <1>1, <2>1, CallKey DEF Before, Calls, Abs!Calls
  <2>3. call[t].val # 0
    BY <2>2, KeysAndValsAssumption
  <2>4. P' = P \cup {Key(t)} /\ Key(t) \notin P
    BY <1>1, <2>1, <2>2, <2>3 DEF Abs!Present, Abs!None, None, HistTypeOK
  <2>5. lin'[t] = 1 /\ \A u \in Threads \ {t} : lin'[u] = lin[u]
    BY <1>1, <2>1 DEF HistTypeOK
  <2>6. /\ ~After(t) /\ After(t)'
        /\ \A u \in Threads \ {t} : After(u)' <=> After(u)
    BY <2>1, <2>5 DEF Before, After, InCall, NoCall, Abs!NoCall, Abs!Pending
  <2>7. Added' = Added \cup {t} /\ t \notin Added /\ Taken' = Taken
    BY <2>1, <2>6 DEF Added, Taken
  <2>8. Cardinality(P') = Cardinality(P) + 1 /\ Cardinality(Added') = Cardinality(Added) + 1
    BY <1>2, <2>4, <2>7, FS_AddElement
  <2>9. QED BY <1>2, <1>3, <2>1, <2>7, <2>8 DEF CountOK
<1>7. ASSUME NEW t \in Threads, Removes(t) PROVE CountOK'
  <2>1. /\ Before(t) /\ call[t].op = "remove" /\ map[Key(t)] \in Vals
        /\ call' = call /\ lin' = [lin EXCEPT ![t] = map[Key(t)]] /\ map' = [map EXCEPT ![Key(t)] = None] /\ pr' = pr
    BY <1>7 DEF Removes, TakesEffect
  <2>2. Key(t) \in Keys
    BY <1>1, <2>1, CallKey DEF Before
  <2>3. map[Key(t)] # 0 /\ map[Key(t)] # Abs!Pending
    BY <2>1, KeysAndValsAssumption DEF Abs!Pending
  <2>4. P' = P \ {Key(t)} /\ Key(t) \in P
    BY <1>1, <2>1, <2>2, <2>3 DEF Abs!Present, Abs!None, None, HistTypeOK
  <2>5. lin'[t] = map[Key(t)] /\ \A u \in Threads \ {t} : lin'[u] = lin[u]
    BY <1>1, <2>1 DEF HistTypeOK
  <2>6. /\ ~After(t) /\ After(t)'
        /\ \A u \in Threads \ {t} : After(u)' <=> After(u)
    BY <2>1, <2>3, <2>5 DEF Before, After, InCall, NoCall, Abs!NoCall, Abs!Pending
  <2>7. Taken' = Taken \cup {t} /\ t \notin Taken /\ Added' = Added
    BY <2>1, <2>6 DEF Added, Taken
  <2>8. Cardinality(P') = Cardinality(P) - 1 /\ Cardinality(Taken') = Cardinality(Taken) + 1
    BY <1>2, <2>4, <2>7, FS_AddElement, FS_RemoveElement
  <2>9. QED BY <1>2, <1>3, <2>1, <2>7, <2>8 DEF CountOK
<1>8. ASSUME NEW t \in Threads, Ends(t) PROVE CountOK'
  <2>1. PICK r \in Vals \cup {0, 1} : InCall(t) /\ Rightful(t, r) /\ Returns(t, r)
    BY <1>8 DEF Ends
  <2>2. /\ call' = [call EXCEPT ![t] = NoCall] /\ lin' = [lin EXCEPT ![t] = Abs!Pending] /\ map' = map
        /\ pr' = CASE call[t].op = "insert" -> pr + r
                   [] call[t].op = "remove" /\ r # 0 -> pr - 1
                   [] OTHER -> pr
    BY <2>1 DEF Returns
  <2>3. call[t].op \in Ops /\ pr \in Int
    BY <1>1, <2>1, CallKey DEF HistTypeOK
  <2>4. P' = P
    BY <2>2 DEF Abs!Present, Abs!None
  <2>5. /\ call'[t] = NoCall
        /\ \A u \in Threads \ {t} : call'[u] = call[u] /\ lin'[u] = lin[u]
    BY <1>1, <2>2 DEF HistTypeOK
  <2>6. ~After(t)' /\ \A u \in Threads \ {t} : After(u)' <=> After(u)
    BY <2>5 DEF After, InCall, NoCall, Abs!NoCall, Abs!Pending
  <2>7. Added' = Added \ {t} /\ Taken' = Taken \ {t}
    BY <2>5, <2>6 DEF Added, Taken
  <2>8. /\ Cardinality(Added') = IF t \in Added THEN Cardinality(Added) - 1 ELSE Cardinality(Added)
        /\ Cardinality(Taken') = IF t \in Taken THEN Cardinality(Taken) - 1 ELSE Cardinality(Taken)
    BY <1>2, <2>7, FS_RemoveElement
  <2>9. After(t) => \/ call[t].op = "insert" /\ lin[t] = 1 /\ r = 1
                    \/ call[t].op = "remove" /\ lin[t] \in Vals /\ r = lin[t]
    <3>1. After(t) => r = lin[t]
      BY <2>1 DEF Rightful, Before, After
    <3>2. After(t) => \/ call[t].op = "insert" /\ lin[t] = 1
                      \/ call[t].op = "remove" /\ lin[t] \in Vals
      BY <1>1, HeapFacts DEF ThreadOK, Core, HeapProps
    <3>3. QED BY <3>1, <3>2
  <2>10. ~After(t) => \/ call[t].op = "search"
                      \/ call[t].op \in {"insert", "remove"} /\ r = 0
    BY <2>1 DEF Rightful, Before, After, Abs!Justified
  <2>11. /\ t \in Added <=> (After(t) /\ call[t].op = "insert")
         /\ t \in Taken <=> (After(t) /\ call[t].op = "remove")
    BY DEF Added, Taken
  <2>12. CASE After(t) /\ call[t].op = "insert"
    <3>1. pr' = pr + 1
      BY <2>2, <2>9, <2>12
    <3>2. QED BY <1>2, <1>3, <2>4, <2>8, <2>11, <2>12, <3>1 DEF CountOK
  <2>13. CASE After(t) /\ call[t].op = "remove"
    <3>1. r # 0
      BY <2>9, <2>13, KeysAndValsAssumption
    <3>2. pr' = pr - 1
      BY <2>2, <2>13, <3>1
    <3>3. QED BY <1>2, <1>3, <2>4, <2>8, <2>11, <2>13, <3>2 DEF CountOK
  <2>14. CASE ~After(t)
    <3>1. pr' = pr
      BY <2>2, <2>3, <2>10, <2>14
    <3>2. QED BY <1>2, <1>3, <2>4, <2>8, <2>11, <2>14, <3>1 DEF CountOK
  <2>15. QED BY <2>9, <2>12, <2>13, <2>14
<1>9. QED BY <1>4, <1>5, <1>6, <1>7, <1>8 DEF Lin

-----------------------------------------------------------------------------
(* What a walk from the heads to the ends finds.                           *)

\* The nodes of S and their successors.
Nexts(S) == S \cup {node[m].next : m \in S \ {NULL}}

\* Function w gives the nodes that up to N steps reach from n.
IsWalk(w, n, N) == w = [d \in 0..N |-> IF d = 0 THEN {n} ELSE Nexts(w[d - 1])]

LEMMA WalkExists ==
  ASSUME NEW n, NEW N \in Nat
  PROVE  \E w : IsWalk(w, n, N)
<1> DEFINE Bad == {d \in Nat : ~\E w : IsWalk(w, n, d)}
<1>1. SUFFICES ASSUME N \in Bad PROVE FALSE
  OBVIOUS
<1>2. PICK d \in Bad : \A e \in Bad : d <= e
  <2>1. Bad \subseteq Nat /\ Bad # {}
    BY <1>1
  <2> HIDE DEF Bad
  <2>2. QED BY <2>1, Smallest
<1>0. d \in Nat
  BY <1>2
<1>3. CASE d = 0
  <2>1. IsWalk([i \in 0..0 |-> {n}], n, 0)
    BY DEF IsWalk
  <2>2. QED BY <1>2, <1>3, <2>1
<1>4. CASE d # 0
  <2>1. PICK w : IsWalk(w, n, d - 1)
    <3>1. d - 1 \in Nat /\ d - 1 \notin Bad
      BY <1>2, <1>4
    <3>2. QED BY <3>1
  <2> DEFINE v == [i \in 0..d |-> IF i = d THEN Nexts(w[d - 1]) ELSE w[i]]
  <2>2. \A i \in 0..(d - 1) : v[i] = w[i] /\ w[i] = IF i = 0 THEN {n} ELSE Nexts(w[i - 1])
    <3>1. \A i \in 0..(d - 1) : w[i] = IF i = 0 THEN {n} ELSE Nexts(w[i - 1])
      BY <1>0, <2>1 DEF IsWalk
    <3>2. \A i \in 0..(d - 1) : v[i] = w[i]
      BY <1>0
    <3>3. QED BY <3>1, <3>2
  <2>3. \A i \in 0..d : v[i] = IF i = 0 THEN {n} ELSE Nexts(v[i - 1])
    <3>1. v[d] = Nexts(w[d - 1]) /\ d - 1 \in 0..(d - 1)
      BY <1>0, <1>4
    <3>2. ASSUME NEW i \in 0..d, i # 0 PROVE i - 1 \in 0..(d - 1) /\ v[i - 1] = w[i - 1]
      BY <1>0, <2>2, <3>2
    <3> HIDE DEF v
    <3>3. ASSUME NEW i \in 0..d PROVE i = d \/ i \in 0..(d - 1)
      BY <1>0
    <3>4. QED BY <1>4, <2>2, <3>1, <3>2, <3>3
  <2>4. IsWalk(v, n, d)
    <3>1. v = [i \in 0..d |-> v[i]]
      OBVIOUS
    <3> HIDE DEF v
    <3>2. QED BY <2>3, <3>1 DEF IsWalk
  <2>5. QED BY <1>2, <2>4
<1>5. QED BY <1>3, <1>4

\* Function w leads to the nodes of From(n).
Walked(w, n) ==
  /\ From(n) = w[set.nodes] \ {NULL} /\ w[0] = {n}
  /\ \A d \in 1..set.nodes : w[d] = Nexts(w[d - 1])

LEMMA FromWalk ==
  ASSUME set.nodes \in Nat, NEW n
  PROVE  \E w : Walked(w, n)
<1>0. PICK N \in Nat : N = set.nodes
  OBVIOUS
<1>1. \A w : w = [d \in 0..N |-> IF d = 0 THEN {n} ELSE w[d - 1] \cup {node[m].next : m \in w[d - 1] \ {NULL}}]
          <=> IsWalk(w, n, N)
  BY Zenon DEF IsWalk, Nexts
<1>2. \E w : w = [d \in 0..N |-> IF d = 0 THEN {n} ELSE w[d - 1] \cup {node[m].next : m \in w[d - 1] \ {NULL}}]
  BY <1>1, WalkExists
<1>3. \E w : w = [d \in 0..N |-> IF d = 0 THEN {n} ELSE w[d - 1] \cup {node[m].next : m \in w[d - 1] \ {NULL}}]
             /\ From(n) = w[N] \ {NULL}
  BY <1>0, <1>2, Zenon DEF From
<1>4. PICK w : IsWalk(w, n, N) /\ From(n) = w[N] \ {NULL}
  BY <1>1, <1>3
<1>5. \A d \in 0..N : w[d] = IF d = 0 THEN {n} ELSE Nexts(w[d - 1])
  BY <1>4 DEF IsWalk
<1>6. Walked(w, n)
  BY <1>0, <1>4, <1>5 DEF Walked
<1>7. QED BY <1>6

\* A walk from the head of a bucket finds nodes of its list, and all of them.
LEMMA FromSound ==
  ASSUME NEW L, Core(L), NEW b \in Buckets
  PROVE  \A n \in From(min(b)) : n \in used /\ Live(L, n)
<1>0. HeapOK /\ ChainOK(L) /\ HeapProps /\ ChainProps(L) /\ set.nodes \in Nat
  BY HeapFacts, ChainFacts DEF Core, HeapOK
<1>11. PICK N \in Nat : N = set.nodes
  BY <1>0
<1>12. PICK h \in used : h = min(b)
  BY <1>0 DEF HeapProps
<1>1. PICK w : Walked(w, h)
  BY <1>0, FromWalk
<1>13. From(h) = w[N] \ {NULL} /\ w[0] = {h} /\ \A i \in 1..N : w[i] = Nexts(w[i - 1])
  BY <1>11, <1>1 DEF Walked
<1> DEFINE Fine(S) == \A n \in S : n = NULL \/ (n \in used /\ Live(L, n))
           Bad == {d \in Nat : d <= N /\ ~Fine(w[d])}
<1>2. SUFFICES ASSUME N \in Bad PROVE FALSE
  BY <1>12, <1>13
<1>3. PICK d \in Bad : \A e \in Bad : d <= e
  <2>1. Bad \subseteq Nat /\ Bad # {}
    BY <1>2
  <2> HIDE DEF Bad
  <2>2. QED BY <2>1, Smallest
<1>9. d \in Nat /\ d <= N
  BY <1>3
<1>4. CASE d = 0
  <2>1. w[0] = {min(b)}
    BY <1>12, <1>13
  <2>2. min(b) \in used /\ Live(L, min(b))
    BY <1>0 DEF HeapProps, Live
  <2>3. QED BY <1>3, <1>4, <2>1, <2>2
<1>5. CASE d # 0
  <2>1. d - 1 \in Nat /\ d - 1 <= N /\ d - 1 \notin Bad
    BY <1>3, <1>5
  <2>2. Fine(w[d - 1])
    BY <2>1
  <2>3. w[d] = Nexts(w[d - 1])
    <3>1. d \in 1..N
      BY <1>5, <1>9
    <3>2. QED BY <1>13, <3>1
  <2>4. ASSUME NEW m \in w[d - 1] \ {NULL} PROVE node[m].next = NULL \/ (node[m].next \in used /\ Live(L, node[m].next))
    BY <1>0, <2>2, NextIsLive
  <2>5. Fine(w[d])
    BY <2>2, <2>3, <2>4 DEF Nexts
  <2>6. QED BY <1>3, <2>5
<1>6. QED BY <1>4, <1>5

LEMMA FromComplete ==
  ASSUME NEW L, Core(L), NEW n \in used, On(L, n)
  PROVE  n \in From(min(Home[n]))
<1>0. HeapOK /\ ChainOK(L) /\ HeapProps /\ ChainProps(L) /\ set.nodes \in Nat
  BY HeapFacts, ChainFacts DEF Core, HeapOK
<1>1. PICK b \in Buckets, k \in Keys : b = Home[n] /\ k = node[n].key
  BY <1>0 DEF HeapProps, On
<1>11. PICK N \in Nat : N = set.nodes
  BY <1>0
<1>12. PICK h \in used : h = min(b)
  BY <1>0 DEF HeapProps
<1>2. PICK w : Walked(w, h)
  BY <1>0, FromWalk
<1>13. From(h) = w[N] \ {NULL} /\ w[0] = {h} /\ \A i \in 1..N : w[i] = Nexts(w[i - 1])
  BY <1>11, <1>2 DEF Walked
<1> DEFINE Beyond(m) == {x \in used : node[m].key < node[x].key}
           Near(m, d) == /\ m \in used /\ node[m].key < k /\ node[L[m][k]].next = n
                         /\ Cardinality(Beyond(m)) < N - d
           Fine(d) == n \in w[d] \/ \E m \in w[d] : Near(m, d)
           Bad == {d \in Nat : d <= N /\ ~Fine(d)}
<1>3. IsFiniteSet(used) /\ Cardinality(used) <= N /\ Cardinality(used) \in Nat
  <2>1. IsFiniteSet(Nodes) /\ Cardinality(Nodes) = N
    <3>1. IsFiniteSet(0..(N - 1)) /\ Cardinality(0..(N - 1)) = N
      BY FS_Interval
    <3>2. QED BY <1>11, <3>1 DEF Nodes
  <2>2. QED BY <1>0, <2>1, FS_Subset, FS_CardinalityType DEF HeapProps
<1>4. \A m : IsFiniteSet(Beyond(m)) /\ Cardinality(Beyond(m)) \in Nat
  BY <1>3, FS_Subset, FS_CardinalityType
<1>5. N \notin Bad
  <2>1. SUFFICES ASSUME N \in Bad PROVE FALSE
    OBVIOUS
  <2>2. PICK d \in Bad : \A e \in Bad : d <= e
    <3>1. Bad \subseteq Nat /\ Bad # {}
      BY <2>1
    <3> HIDE DEF Bad
    <3>2. QED BY <3>1, Smallest
  <2>3. CASE d = 0
    <3>1. w[0] = {h}
      BY <1>13
    <3>2. h \in used /\ node[h].key = 0
      BY <1>0, <1>12 DEF HeapProps
    <3>3. 0 < k /\ node[L[h][k]].next = n
      BY <1>1, <1>12, KeyBounds DEF On
    <3>4. Cardinality(Beyond(h)) < N
      <4>1. Beyond(h) \subseteq used \ {h} /\ IsFiniteSet(used \ {h}) /\ Cardinality(used \ {h}) = Cardinality(used) - 1
        BY <1>3, <3>2, FS_RemoveElement
      <4>2. Cardinality(Beyond(h)) <= Cardinality(used \ {h})
        BY <4>1, FS_Subset
      <4> HIDE DEF Beyond
      <4>3. QED BY <1>3, <1>4, <4>1, <4>2
    <3>5. Near(h, 0) /\ h \in w[0]
      BY <3>1, <3>2, <3>3, <3>4
    <3>6. Fine(0)
      BY <3>5
    <3>7. QED BY <2>2, <2>3, <3>6
  <2>4. CASE d # 0
    <3>1. d - 1 \in Nat /\ d - 1 <= N /\ d - 1 \notin Bad
      <4>1. d \in Nat /\ d <= N
        BY <2>2
      <4> HIDE DEF Bad
      <4>2. QED BY <2>2, <2>4, <4>1
    <3>2. Fine(d - 1)
      <4> HIDE DEF Fine
      <4>1. QED BY <3>1
    <3>3. w[d] = Nexts(w[d - 1])
      <4>1. d \in Nat /\ d <= N
        BY <2>2
      <4>2. d \in 1..N
        BY <2>4, <4>1
      <4>3. QED BY <1>13, <4>2
    <3>4. CASE n \in w[d - 1]
      BY <2>2, <3>3, <3>4 DEF Nexts
    <3>5. CASE \E m \in w[d - 1] : Near(m, d - 1)
      <4>1. PICK m \in w[d - 1] : Near(m, d - 1)
        BY <3>5
      <4>2. PICK j \in used : j = node[m].next /\ node[m].key < node[j].key
        BY <1>0, <4>1 DEF ChainProps
      <4>3. j \in w[d]
        BY <1>0, <3>3, <4>1, <4>2 DEF Nexts, HeapProps
      <4>4. CASE node[j].key < k
        <5>1. L[m][k] = L[j][k]
          BY <1>0, <4>1, <4>2, <4>4 DEF ChainProps
        <5>2. Cardinality(Beyond(j)) < N - d
          <6>1. node[m].key \in Nat /\ node[j].key \in Nat /\ \A x \in used : node[x].key \in Nat
            BY <1>0, <4>1 DEF ChainProps
          <6>2. Beyond(j) \subseteq Beyond(m) \ {j} /\ j \in Beyond(m)
            BY <4>2, <6>1
          <6>3. IsFiniteSet(Beyond(m) \ {j}) /\ Cardinality(Beyond(m) \ {j}) = Cardinality(Beyond(m)) - 1
            <7> HIDE DEF Beyond
            <7>1. QED BY <1>4, <6>2, FS_RemoveElement
          <6>4. Cardinality(Beyond(j)) <= Cardinality(Beyond(m) \ {j})
            BY <6>2, <6>3, FS_Subset
          <6>5. Cardinality(Beyond(m)) < N - (d - 1)
            BY <4>1
          <6> HIDE DEF Beyond
          <6>6. QED BY <1>4, <2>2, <6>3, <6>4, <6>5
        <5>3. Near(j, d)
          BY <4>1, <4>2, <4>4, <5>1, <5>2
        <5>4. Fine(d)
          BY <4>3, <5>3
        <5>5. QED BY <2>2, <5>4
      <4>5. CASE ~(node[j].key < k)
        <5>1. L[m][k] = m
          BY <1>0, <4>1, <4>2, <4>5 DEF ChainProps
        <5>2. n \in w[d]
          BY <4>1, <4>2, <4>3, <5>1
        <5>3. QED BY <2>2, <5>2
      <4>6. QED BY <4>4, <4>5
    <3>6. QED BY <3>2, <3>4, <3>5
  <2>5. QED BY <2>3, <2>4
<1>6. Fine(N)
  <2>1. N \in Nat /\ N <= N
    OBVIOUS
  <2> HIDE DEF Fine
  <2>2. QED BY <1>5, <2>1
<1>7. \A m : ~Near(m, N)
  <2> HIDE DEF Beyond
  <2>1. QED BY <1>4
<1>8. n \in w[N] /\ n # NULL
  BY <1>0, <1>6, <1>7 DEF HeapProps
<1>9. QED BY <1>1, <1>12, <1>13, <1>8

LEMMA ReachableIsOn ==
  ASSUME NEW L, Core(L)
  PROVE  Reachable = {n \in used : On(L, n)}
<1>1. HeapProps
  BY HeapFacts DEF Core
<1>2. ASSUME NEW n \in Reachable PROVE n \in used /\ On(L, n)
  <2>1. PICK b \in Buckets : n \in From(min(b)) /\ n \notin Sentinels
    BY <1>2 DEF Reachable
  <2>2. QED BY <2>1, FromSound DEF Live
<1>3. ASSUME NEW n \in used, On(L, n) PROVE n \in Reachable
  <2>1. Home[n] \in Buckets /\ n \notin Sentinels
    BY <1>1, <1>3 DEF HeapProps, On
  <2>2. n \in From(min(Home[n]))
    BY <1>3, FromComplete
  <2>3. QED BY <2>1, <2>2 DEF Reachable
<1>4. QED BY <1>2, <1>3

\* The list has one node with a given key, at most: the one that a walk for it finds.
LEMMA OnIsFound ==
  ASSUME NEW L, Core(L), NEW k \in Keys
  PROVE  LET e == End(L, min(addr(k)), k)
         IN  /\ e \in used /\ map[k] = ValOf(e, k)
             /\ \A n \in used : On(L, n) /\ node[n].key = k <=> n = e /\ node[e].key = k
<1> DEFINE e == End(L, min(addr(k)), k)
<1>1. HeapOK /\ ChainOK(L) /\ MapOK(L) /\ HeapProps
  BY HeapFacts DEF Core
<1>2. e = node[L[min(addr(k))][k]].next /\ e \in used /\ (node[e].key = k => On(L, e))
  BY <1>1, FoundIsLive
<1>3. map[k] = ValOf(e, k)
  BY <1>1 DEF MapOK, Result
<1>4. ASSUME NEW n \in used, On(L, n), node[n].key = k PROVE n = e
  <2>1. Home[n] = addr(k)
    BY <1>1, <1>4 DEF HeapProps, On
  <2>2. QED BY <1>2, <1>4, <2>1 DEF On
<1>5. QED BY <1>2, <1>3, <1>4

LEMMA MaxOfOne ==
  ASSUME NEW e \in Nat
  PROVE  Max({e}) = e
<1>1. e \in {e} /\ \A y \in {e} : e >= y
  OBVIOUS
<1>2. Max({e}) \in {e}
  BY <1>1 DEF Max
<1>3. QED BY <1>2

\* What is found under a key is what the map holds.
LEMMA FoundIsMap ==
  ASSUME NEW L, Core(L), NEW k \in Keys
  PROVE  map[k] = LET hits == {n \in Reachable : node[n].key = k /\ ~node[n].marked}
                  IN  IF hits = {} THEN 0 ELSE node[Max(hits)].val
<1> DEFINE hits == {n \in Reachable : node[n].key = k /\ ~node[n].marked}
<1>1. PICK e \in used : /\ map[k] = ValOf(e, k)
                        /\ \A n \in used : On(L, n) /\ node[n].key = k <=> n = e /\ node[e].key = k
  BY OnIsFound
<1>2. Reachable = {n \in used : On(L, n)}
  BY ReachableIsOn
<1>3. CASE node[e].key = k /\ ~node[e].marked
  <2>1. hits = {e}
    BY <1>1, <1>2, <1>3
  <2>2. e \in Nat
    BY HeapFacts DEF HeapProps, Core
  <2>3. Max(hits) = e
    BY <2>1, <2>2, MaxOfOne
  <2>4. hits # {} /\ map[k] = node[e].val
    BY <1>1, <1>3, <2>1 DEF ValOf
  <2> HIDE DEF hits
  <2>5. QED BY <2>3, <2>4 DEF hits
<1>4. CASE ~(node[e].key = k /\ ~node[e].marked)
  <2>1. hits = {}
    BY <1>1, <1>2, <1>4
  <2>2. map[k] = 0
    BY <1>1, <1>4 DEF ValOf, None, Abs!None
  <2>3. QED BY <2>1, <2>2
<1>5. QED BY <1>3, <1>4

\* The nodes of the list: not released, in order, no key twice.
LEMMA ReachableOrder ==
  ASSUME NEW L, Core(L)
  PROVE  \A n \in Reachable :
           /\ n \in used \ Sentinels /\ node[n].key \in Keys /\ freed[n] = 0
           /\ node[n].key < node[node[n].next].key
           /\ \A m \in Reachable : node[n].key = node[m].key => m = n
<1>1. Reachable = {n \in used : On(L, n)}
  BY ReachableIsOn
<1>2. HeapOK /\ HeapProps /\ ChainProps(L) /\ FreedOK(L)
  BY HeapFacts, ChainFacts DEF Core
<1>3. SUFFICES ASSUME NEW n \in used, On(L, n)
               PROVE  /\ n \in used \ Sentinels /\ node[n].key \in Keys /\ freed[n] = 0
                      /\ node[n].key < node[node[n].next].key
                      /\ \A m \in used : On(L, m) /\ node[n].key = node[m].key => m = n
  BY <1>1
<1>4. n \in used \ Sentinels /\ node[n].key \in Keys
  BY <1>2, <1>3 DEF On, HeapProps
<1>5. freed[n] = 0
  <2>1. freed[n] \in {0, 1} /\ freed[n] # 1
    BY <1>2, <1>3 DEF FreedOK, HeapOK, HeapProps
  <2>2. QED BY <2>1
<1>6. node[n].key < node[node[n].next].key
  BY <1>2, <1>4, KeyBounds DEF ChainProps
<1>7. \A m \in used : On(L, m) /\ node[n].key = node[m].key => m = n
  BY <1>3, <1>4, OnIsFound
<1>8. QED BY <1>4, <1>5, <1>6, <1>7

\* A node is released once, after it has left the list.
LEMMA ReleasedIsOff ==
  ASSUME NEW L, Core(L)
  PROVE  \A n \in Nodes : freed[n] <= 1 /\ (freed[n] = 1 => n \notin Reachable)
<1>1. freed \in [Nodes -> {0, 1}]
  BY DEF Core, HeapOK
<1>2. QED BY <1>1, ReachableOrder

LEMMA CoreTypes ==
  ASSUME NEW L, Core(L)
  PROVE  ListTypeOK
<1>1. HeapOK /\ HistTypeOK /\ \A t \in Threads : ThreadOK(L, t)
  BY DEF Core
<1>2. /\ node \in [Nodes -> [key : Keys \cup {0, MaxKey}, val : Vals \cup {0},
                             next : Nodes \cup {NULL}, lock : Nat, marked : BOOLEAN]]
      /\ used \subseteq Nodes /\ lock \in [Buckets -> Nat]
  BY <1>1 DEF HeapOK, NodeSet
<1>3. \A t \in Threads : {Pred(t), Curr(t), loc[t].next, loc[t].lnext} \subseteq used \cup {NULL}
  BY <1>1 DEF ThreadOK
<1>4. QED BY <1>1, <1>2, <1>3 DEF ListTypeOK

\* When no call is running, the unmarked nodes of the list are as many as the count says.
LEMMA LengthIsCount ==
  ASSUME NEW L, Core(L), CountOK, \A t \in Threads : pc[t] = "idle"
  PROVE  Cardinality({n \in Reachable : ~node[n].marked}) = pr
<1> DEFINE S == {n \in Reachable : ~node[n].marked}
           P == Abs!Present
           f == [n \in S |-> node[n].key]
<1>1. \A t \in Threads : ~InCall(t)
  BY DEF Core, ThreadOK
<1>2. Added = {} /\ Taken = {}
  BY <1>1 DEF Added, Taken, After
<1>3. Cardinality(P) \in Nat /\ pr = Cardinality(P)
  <2>1. Cardinality(Added) = 0 /\ Cardinality(Taken) = 0
    BY <1>2, FS_EmptySet
  <2>2. Cardinality(P) \in Nat
    BY PresentFinite
  <2> HIDE DEF P
  <2>3. QED BY <2>1, <2>2 DEF CountOK, P
<1>4. IsFiniteSet(S)
  <2>1. IsFiniteSet(Nodes) /\ S \subseteq Nodes
    BY NodesFinite, ReachableOrder, HeapFacts DEF Core, HeapProps
  <2>2. QED BY <2>1, FS_Subset
<1>5. \A n \in S : /\ node[n].key \in Keys /\ map[node[n].key] # 0
                   /\ \A m \in S : node[n].key = node[m].key => m = n
  <2>1. SUFFICES ASSUME NEW n \in S PROVE map[node[n].key] # 0
    BY ReachableOrder
  <2>2. PICK k \in Keys : k = node[n].key /\ n \in used \ Sentinels /\ On(L, n)
    BY ReachableOrder, ReachableIsOn
  <2>3. map[k] = ValOf(n, k)
    BY <2>2, OnIsFound
  <2>4. node[n].val \in Vals
    BY <2>2, HeapFacts DEF Core, HeapProps
  <2>5. QED BY <2>2, <2>3, <2>4, KeysAndValsAssumption DEF ValOf
<1>6. \A k \in P : \E n \in S : node[n].key = k
  <2>1. SUFFICES ASSUME NEW k \in Keys, map[k] # 0 PROVE \E n \in S : node[n].key = k
    BY DEF Abs!Present, Abs!None
  <2>2. PICK e \in used : /\ map[k] = ValOf(e, k)
                          /\ \A n \in used : On(L, n) /\ node[n].key = k <=> n = e /\ node[e].key = k
    BY OnIsFound
  <2>3. node[e].key = k /\ ~node[e].marked
    BY <2>1, <2>2 DEF ValOf, None, Abs!None
  <2>4. QED BY <2>2, <2>3, ReachableIsOn
<1>7. \A n \in S : node[n].key \in P
  BY <1>5 DEF Abs!Present, Abs!None
<1> HIDE DEF S, P
<1>8. f \in [S -> P]
  BY <1>7
<1>9. f \in Injection(S, P)
  BY <1>5, <1>8 DEF Injection, IsInjective
<1>10. f \in Surjection(S, P)
  BY <1>6, <1>8 DEF Surjection
<1>11. Cardinality(S) = Cardinality(P)
  BY <1>4, <1>9, <1>10, FS_Bijection DEF Bijection, ExistsBijection
<1>12. QED BY <1>3, <1>11 DEF S

-----------------------------------------------------------------------------
(* A step that changes nothing.                                            *)

LEMMA CoreStutter ==
  ASSUME NEW L, Core(L), UNCHANGED vars
  PROVE  Core(L)' /\ Kept(L, L, {}) /\ Alike /\ Lin /\ Frozen /\ (\A u \in Threads : Still(u)) /\ pr' = pr
<1>1. /\ HeapOK /\ HistTypeOK /\ LocalsOK /\ ChainOK(L) /\ MapOK(L) /\ FreedOK(L) /\ RoomOK
      /\ \A u \in Threads : ThreadOK(L, u)
  BY DEF Core
<1>2. pc' = pc /\ loc' = loc /\ UNCHANGED hist /\ Alike /\ UNCHANGED heap
  BY DEF vars, heap, Alike
<1>3. SameNodes /\ node' \in [Nodes -> NodeSet] /\ lock' \in [Buckets -> Nat] /\ freed' = freed
  BY <1>1, <1>2, HeapAlike DEF Alike
<1>17. used \subseteq Nodes /\ \A b \in Buckets : max(b) \in Nodes /\ min(b) \in used
  BY <1>1, HeapFacts DEF HeapProps
<1>4. HeapOK'
  BY <1>1, <1>3, <1>17, HeapKept DEF SameNodes, HeapOK
<1>5. /\ ChainOK(L)'
      /\ \A n \in used : On(L, n)' <=> On(L, n)
      /\ \A n \in used : \A k \in Keys : Result(L, n, k)' = Result(L, n, k)
  BY <1>1, <1>3, HeapSame
<1>6. HistTypeOK' /\ call' = call /\ lin' = lin /\ map' = map /\ seen' = seen /\ pr' = pr
  BY <1>1, <1>2, HistQuiet DEF hist
<1>7. Kept(L, L, {})
  BY <1>1, <1>3, <1>5, HomeKept, HeapFacts DEF Kept, SameNodes, HeapProps
<1>8. MapOK(L)'
  BY <1>1, <1>3, <1>5, <1>6, MapKept DEF SameNodes
<1>9. FreedOK(L)'
  BY <1>1, <1>3, <1>5, SetSame DEF FreedOK, SameNodes
<1>10. \A u \in Threads : ThreadOK(L, u)'
  BY <1>1, <1>2, <1>7, HistQuiet, ThreadKept
<1>11. RoomOK'
  BY <1>1, <1>3, <1>6, RoomKept DEF InCall, Before, SameNodes, NoCall, Abs!NoCall, Abs!Pending
<1>12. LocalsOK'
  BY <1>1, <1>2 DEF LocalsOK, Locals
<1>13. \A u \in Threads : Still(u)
  BY <1>2, <1>6 DEF Still
<1>14. Core(L)'
  BY <1>4, <1>5, <1>6, <1>8, <1>9, <1>10, <1>11, <1>12 DEF Core
<1>15. Lin /\ Frozen
  BY <1>2 DEF Lin, Frozen, Alike
<1>16. QED BY <1>2, <1>6, <1>7, <1>13, <1>14, <1>15

LEMMA GLStutter ==
  ASSUME NEW L, Core(L), OptikGLOK(L), UNCHANGED vars
  PROVE  Good(L) /\ OptikGLOK(L)'
<1>1. /\ Core(L)' /\ Kept(L, L, {}) /\ Alike /\ Lin /\ Frozen /\ \A u \in Threads : Still(u)
  BY CoreStutter
<1>2. \A u \in Threads : ThreadOK(L, u) /\ OptikGLThread(L, u)
  BY DEF Core, OptikGLOK
<1>3. PICK gone : gone = {}
  OBVIOUS
<1>4. \A u \in Threads : pc'[u] = pc[u] /\ addr(Key(u))' = addr(Key(u))
  BY <1>1, StillSame DEF Alike
<1>5. ASSUME NEW u \in Threads PROVE OptikGLThread(L, u)'
  <2>1. CASE InCall(u)
    <3>1. GLSees(u, gone)
      BY <1>1, <1>3 DEF GLSees, Alike
    <3>2. Kept(L, L, gone) /\ Still(u)
      BY <1>1, <1>3
    <3>3. QED BY <1>2, <2>1, <3>1, <3>2, GLFrame
  <2>2. CASE ~InCall(u)
    BY <1>2, <1>4, <2>2, GLIdle DEF ThreadOK
  <2>3. QED BY <2>1, <2>2
<1>6. Unmarked' /\ OptikGLAlone'
  BY <1>1, <1>4, SetSame DEF OptikGLOK, Unmarked, Alike, OptikGLAlone
<1>7. QED BY <1>1, <1>5, <1>6 DEF Good, OptikGLOK, Alike

LEMMA CountInit ==
  ASSUME Abs!Init, pr = 0
  PROVE  CountOK
<1>1. Abs!Present = {} /\ Added = {} /\ Taken = {}
  BY DEF Abs!Init, Abs!Present, Added, Taken, After, InCall, NoCall
<1>2. QED BY <1>1, FS_EmptySet DEF CountOK

-----------------------------------------------------------------------------
(* What is true of a thread, for the lists that follow.                    *)

LEMMA Here ==
  ASSUME NEW L, Core(L), NEW t \in Threads
  PROVE  /\ HeapOK /\ HistTypeOK /\ LocalsOK /\ ChainOK(L) /\ ThreadOK(L, t) /\ FreedOK(L)
         /\ pc[t] # "idle" => InCall(t) /\ Key(t) \in Keys /\ addr(Key(t)) \in Buckets
         /\ node \in [Nodes -> NodeSet] /\ lock \in [Buckets -> Nat] /\ freed \in [Nodes -> {0, 1}]
         /\ used \subseteq Nodes /\ NULL \notin used
<1>1. HeapOK /\ HistTypeOK /\ LocalsOK /\ ChainOK(L) /\ ThreadOK(L, t) /\ FreedOK(L)
  BY DEF Core
<1>2. pc[t] # "idle" => InCall(t) /\ Key(t) \in Keys
  BY <1>1, CallKey DEF ThreadOK
<1>3. pc[t] # "idle" => addr(Key(t)) \in Buckets
  BY <1>1, <1>2, HeapFacts DEF HeapProps
<1>4. QED BY <1>1, <1>2, <1>3, HeapFacts DEF HeapOK, HeapProps

\* Where a thread stands does not change when others take steps.
LEMMA StandsStill ==
  ASSUME NEW L, Core(L), NEW L2, NEW gone, Kept(L, L2, gone), NEW u \in Threads, Still(u), Before(u)
  PROVE  /\ Curr(u) \in used /\ node'[Curr(u)].key = node[Curr(u)].key
         /\ Walking(u)' <=> Walking(u)
         /\ Reached(u)' <=> Reached(u)
<1>1. Curr(u) \in used /\ Curr(u)' = Curr(u) /\ Pred(u)' = Pred(u) /\ Key(u)' = Key(u)
  BY StillSame DEF Core, ThreadOK, Mine, Kept
<1>2. node'[Curr(u)].key = node[Curr(u)].key
  BY <1>1 DEF Kept
<1>3. QED BY <1>1, <1>2 DEF Walking, Reached, NULL

LEMMA AdjacentStill ==
  ASSUME NEW L, Core(L), NEW L2, NEW gone, Kept(L, L2, gone), NEW u \in Threads, Still(u),
         Adjacent(L, u), Pred(u) \notin gone, node'[Pred(u)].next = node[Pred(u)].next
  PROVE  Adjacent(L2, u)'
<1>1. PICK p \in used : p = Pred(u) /\ Live(L, p) /\ p \notin gone /\ p # NULL
  BY DEF Core, ThreadOK, Adjacent
<1>2. Live(L2, p)'
  BY <1>1, LiveKept
<1>3. Pred(u)' = p /\ Curr(u)' = Curr(u)
  BY <1>1, StillSame DEF Kept
<1>4. Live(L2, Pred(u))'
  BY <1>2, <1>3 DEF Live, On
<1>5. QED BY <1>1, <1>3, <1>4 DEF Adjacent, NULL

LEMMA UnlinkedStill ==
  ASSUME NEW L, NEW L2, NEW gone, Kept(L, L2, gone), NEW u \in Threads, Still(u),
         Unlinked(L, u), freed'[Curr(u)] = freed[Curr(u)]
  PROVE  Unlinked(L2, u)'
<1>1. PICK m \in used \ Sentinels : m = Curr(u) /\ ~On(L, m) /\ freed[m] = 0 /\ After(u)
  BY DEF Unlinked
<1>2. ~On(L2, m)' /\ m \in used' \ Sentinels'
  BY <1>1, LiveKept, SetSame DEF Kept
<1>3. Curr(u)' = m /\ After(u)'
  BY <1>1, StillSame DEF Kept
<1>4. ~On(L2, Curr(u))'
  BY <1>2, <1>3 DEF On
<1>5. QED BY <1>1, <1>2, <1>3, <1>4 DEF Unlinked

\* A walk that stands on a node of the list gets to the next one.
LEMMA WalkLive ==
  ASSUME NEW L, Core(L), NEW t \in Threads, Before(t), node[Curr(t)].key < Key(t), Live(L, Curr(t)),
         NEW from, NEW to, from # "idle", to # "idle", Walk(t, from, to)
  PROVE  Live(L, Pred(t))' /\ Live(L, Curr(t))' /\ Adjacent(L, t)'
<1>1. HeapOK /\ ChainOK(L) /\ NULL \notin used
  BY Here
<1>2. /\ Does(L, L, {}, t) /\ Alike
      /\ Pred(t)' = Curr(t) /\ Curr(t)' = node[Curr(t)].next /\ Curr(t) \in used /\ Curr(t)' \in used
  BY DoWalk
<1>3. PICK p \in used, n \in used : p = Curr(t) /\ n = node[p].next /\ p # NULL
  BY <1>1, <1>2
<1>4. Live(L, p) /\ Live(L, n)
  BY <1>1, <1>3, NextIsLive
<1>5. Live(L, p)' /\ Live(L, n)'
  BY <1>2, <1>4, LiveKept DEF Does
<1>6. Live(L, Pred(t))' /\ Live(L, Curr(t))'
  BY <1>2, <1>3, <1>5 DEF Live, On
<1>7. node'[Pred(t)'].next = Curr(t)'
  BY <1>2 DEF Alike
<1>8. QED BY <1>2, <1>3, <1>6, <1>7 DEF Adjacent, NULL

\* t itself, after a step that keeps its pointers and the nodes' keys.
LEMMA SameSpot ==
  ASSUME NEW L, NEW L2, NEW gone, Kept(L, L2, gone), NEW t, loc'[t] = loc[t], call'[t] = call[t]
  PROVE  /\ Pred(t)' = Pred(t) /\ Curr(t)' = Curr(t) /\ Key(t)' = Key(t) /\ addr(Key(t))' = addr(Key(t))
         /\ Sentinels' = Sentinels /\ Nodes' = Nodes /\ Buckets' = Buckets
BY SetSame DEF Kept, Pred, Curr, Key, addr, hash

\* A version of Unlinked for the thread that unlinks.
LEMMA NowUnlinked ==
  ASSUME NEW L, Core(L), NEW t \in Threads, NEW L2, NEW gone, Kept(L, L2, gone), Curr(t) \in gone, On(L, Curr(t)),
         loc'[t] = loc[t], call'[t] = call[t]
  PROVE  /\ Curr(t)' \in used' \ Sentinels' /\ ~On(L2, Curr(t))'
         /\ Curr(t)' = Curr(t) /\ freed[Curr(t)] = 0
<1>1. PICK m \in used : m = Curr(t) /\ m \notin Sentinels /\ On(L, m) /\ m \in Nodes
  BY Here DEF On
<1>2. ~On(L2, m)'
  BY <1>1, LiveKept
<1>3. Curr(t)' = m /\ Sentinels' = Sentinels /\ used \subseteq used'
  BY <1>1, SameSpot DEF Kept
<1>4. ~On(L2, Curr(t))'
  BY <1>2, <1>3 DEF On
<1>5. freed[m] = 0
  BY <1>1, Here DEF FreedOK
<1>6. QED BY <1>1, <1>3, <1>4, <1>5

-----------------------------------------------------------------------------
(* The sequential list.                                                    *)

LEMMA SeqHere ==
  ASSUME NEW L, SeqOK(L), NEW t \in Threads
  PROVE  /\ SeqThread(L, t) /\ \A n \in Nodes : ~node[n].marked
         /\ pc[t] # "idle" => \A u \in Threads \ {t} : pc[u] = "idle"
BY DEF SeqOK, Unmarked, SeqAlone

LEMMA SeqStep ==
  ASSUME NEW L, Core(L), SeqOK(L), NEW t \in Threads, NEW L2, NEW gone, Does(L, L2, gone, t),
         \A n \in Nodes : ~node'[n].marked, \A u \in Threads \ {t} : pc[u] = "idle", SeqThread(L2, t)'
  PROVE  Good(L2) /\ SeqOK(L2)'
<1>1. set' = set /\ Nodes' = Nodes
  BY SetSame DEF Does, Kept
<1>2. \A u \in Threads \ {t} : pc'[u] = "idle"
  BY DEF Does, Others, Still
<1>3. \A u \in Threads : SeqThread(L2, u)'
  BY <1>2 DEF SeqThread
<1>4. Unmarked' /\ SeqAlone'
  BY <1>1, <1>2 DEF Unmarked, SeqAlone
<1>5. QED BY <1>1, <1>3, <1>4 DEF Good, Does, SeqOK

LEMMA SeqInvoke ==
  ASSUME NEW L, Core(L), SeqOK(L), is("LinkedListSeq"), NEW t \in Threads, NEW c \in Calls, Invoke(t, c)
  PROVE  \E L2 : Good(L2) /\ SeqOK(L2)'
<1>1. /\ Core(L)' /\ Kept(L, L, {}) /\ Others(t) /\ Before(t)'
      /\ call'[t] = c /\ Curr(t)' = min(addr(c.key)) /\ pc'[t] = c.op /\ c.op \in Ops
      /\ c.key \in Keys
  BY CoreInvoke
<1>2. Alike /\ \A u \in Threads : pc[u] = "idle"
  BY DEF Invoke, heap, Alike
<1>3. Lin
  BY DEF Invoke, Lin
<1>4. Does(L, L, {}, t)
  BY <1>1, <1>2, <1>3 DEF Does, Frozen, Alike
<1>5. Walking(t)' /\ Live(L, Curr(t))'
  <2>1. min(addr(c.key)) \in Sentinels /\ node[min(addr(c.key))].key = 0 /\ 0 < c.key
    BY <1>1, Here, HeapFacts, KeyBounds DEF HeapProps
  <2>2. Key(t)' = c.key /\ node' = node /\ Sentinels' = Sentinels
    BY <1>1, <1>2, SetSame DEF Key, Alike
  <2>3. QED BY <1>1, <2>1, <2>2 DEF Walking, Live
<1>6. SeqThread(L, t)'
  BY <1>1, <1>5 DEF SeqThread, Ops
<1>7. \A n \in Nodes : ~node'[n].marked
  BY <1>2, SeqHere DEF Alike
<1>8. QED BY <1>2, <1>4, <1>6, <1>7, SeqStep

LEMMA SeqSearchNext ==
  ASSUME NEW L, Core(L), SeqOK(L), NEW t \in Threads, SearchNext(t)
  PROVE  \E L2 : Good(L2) /\ SeqOK(L2)'
<1>1. Before(t) /\ call[t].op = "search" /\ \A u \in Threads \ {t} : pc[u] = "idle"
  BY SeqHere DEF SearchNext, SeqThread
<1>2. Does(L, L, {}, t) /\ pc'[t] = "search" /\ call'[t] = call[t] /\ Before(t)' /\ Alike
  BY <1>1, DoSearchNext
<1>3. SeqThread(L, t)' /\ \A n \in Nodes : ~node'[n].marked
  BY <1>1, <1>2, SeqHere DEF SeqThread, Alike
<1>4. QED BY <1>1, <1>2, <1>3, SeqStep

\* A call returns.
LEMMA SeqAnswer ==
  ASSUME NEW L, Core(L), SeqOK(L), NEW t \in Threads, pc[t] # "idle",
         NEW r \in Vals \cup {0, 1}, Rightful(t, r), Answer(t, r)
  PROVE  \E L2 : Good(L2) /\ SeqOK(L2)'
<1>1. Alike /\ Return(t, r)
  BY DEF Answer, Alike, heap
<1>2. LocksOnly /\ InCall(t) /\ \A u \in Threads \ {t} : pc[u] = "idle"
  BY <1>1, Here, SeqHere, AlikeLocks
<1>3. Does(L, L, {}, t) /\ pc'[t] = "idle"
  BY <1>1, <1>2, DoAnswer
<1>4. SeqThread(L, t)' /\ \A n \in Nodes : ~node'[n].marked
  BY <1>1, <1>3, SeqHere DEF SeqThread, Alike
<1>5. QED BY <1>2, <1>3, <1>4, SeqStep

LEMMA SeqSearchEnd ==
  ASSUME NEW L, Core(L), SeqOK(L), NEW t \in Threads, SearchEnd(t)
  PROVE  \E L2 : Good(L2) /\ SeqOK(L2)'
<1>1. Before(t) /\ call[t].op = "search" /\ node[Curr(t)].key >= Key(t) /\ pc[t] # "idle"
  BY SeqHere DEF SearchEnd, SeqThread, KeyOf
<1>2. /\ Curr(t) \in used /\ Rightful(t, ValOf(Curr(t), Key(t)))
      /\ ValOf(Curr(t), Key(t)) \in Vals \cup {0, 1}
  BY <1>1, Answers
<1>3. Val(t) = ValOf(Curr(t), Key(t))
  BY <1>2, Here, SeqHere DEF Val, ValOf, KeyOf, None, Abs!None
<1>4. Answer(t, ValOf(Curr(t), Key(t)))
  BY <1>3 DEF SearchEnd
<1>5. QED BY <1>1, <1>2, <1>4, SeqAnswer

LEMMA SeqFail ==
  ASSUME NEW L, Core(L), SeqOK(L), NEW t \in Threads,
         \/ pc[t] = "i_test" /\ KeyOf(t) = Key(t)
         \/ pc[t] = "r_test" /\ KeyOf(t) # Key(t),
         Answer(t, 0)
  PROVE  \E L2 : Good(L2) /\ SeqOK(L2)'
<1>1. /\ Before(t) /\ node[Curr(t)].key >= Key(t)
      /\ \/ call[t].op = "insert" /\ node[Curr(t)].key = Key(t)
         \/ call[t].op = "remove" /\ node[Curr(t)].key # Key(t)
  BY SeqHere DEF SeqThread, Reached, KeyOf
<1>2. Curr(t) \in used
  BY <1>1, Answers
<1>3. ~node[Curr(t)].marked
  BY <1>2, Here, SeqHere
<1>4. Rightful(t, 0)
  BY <1>1, <1>3, Answers
<1>5. QED BY <1>4, SeqAnswer

LEMMA SeqWalk ==
  ASSUME NEW L, Core(L), SeqOK(L), NEW t \in Threads,
         Walk(t, "insert", "i_test") \/ Walk(t, "remove", "r_test")
  PROVE  \E L2 : Good(L2) /\ SeqOK(L2)'
<1>1. PICK from, to : /\ Walk(t, from, to)
                      /\ \/ from = "insert" /\ to = "i_test"
                         \/ from = "remove" /\ to = "r_test"
  OBVIOUS
<1>2. /\ Before(t) /\ node[Curr(t)].key < Key(t) /\ from = pc[t] /\ Live(L, Curr(t))
      /\ (from = "insert" => call[t].op = "insert") /\ (from = "remove" => call[t].op = "remove")
      /\ \A u \in Threads \ {t} : pc[u] = "idle"
  BY <1>1, SeqHere DEF SeqThread, Walk, Walking
<1>3. /\ Does(L, L, {}, t) /\ call'[t] = call[t] /\ Before(t)' /\ Alike
      /\ \/ pc'[t] = from /\ node[Curr(t)'].key < Key(t)
         \/ pc'[t] = to /\ node[Curr(t)'].key >= Key(t)
  BY <1>1, <1>2, DoWalk
<1>4. Live(L, Curr(t))' /\ Adjacent(L, t)'
  BY <1>1, <1>2, WalkLive
<1>5. Key(t)' = Key(t) /\ node' = node
  BY <1>3 DEF Key, Alike
<1>6. SeqThread(L, t)'
  BY <1>1, <1>2, <1>3, <1>4, <1>5 DEF SeqThread, Walking, Reached, Adjacent
<1>7. \A n \in Nodes : ~node'[n].marked
  BY <1>5, SeqHere
<1>8. QED BY <1>2, <1>3, <1>6, <1>7, SeqStep

LEMMA SeqLink ==
  ASSUME NEW L, Core(L), SeqOK(L), NEW t \in Threads, Goto(t, "i_test", "i_return"), KeyOf(t) # Key(t),
         Publish(t, Pred(t), ll_simple(Key(t), call[t].val, Curr(t))), UNCHANGED loc
  PROVE  \E L2 : Good(L2) /\ SeqOK(L2)'
<1>1. /\ Before(t) /\ call[t].op = "insert" /\ Adjacent(L, t) /\ Reached(t) /\ InCall(t) /\ Key(t) \in Keys
      /\ \A u \in Threads \ {t} : pc[u] = "idle"
      /\ HeapOK /\ HistTypeOK /\ ChainOK(L) /\ ThreadOK(L, t) /\ used \subseteq Nodes
      /\ \A n \in Nodes : ~node[n].marked
  BY Here, SeqHere DEF SeqThread, Goto
<1>2. Curr(t) \in used /\ node[Curr(t)].key > Key(t)
  <2>1. Curr(t) \in used
    BY <1>1 DEF ThreadOK, Mine
  <2>2. node[Curr(t)].key \in Int /\ Key(t) \in Int
    BY <1>1, <2>1, ChainFacts, KeyBounds DEF ChainProps
  <2>3. QED BY <1>1, <2>1, <2>2 DEF Reached, KeyOf
<1> DEFINE r == ll_simple(Key(t), call[t].val, Curr(t))
<1>3. NewNode(t, Pred(t), r)
  <2>1. Curr(t) \in Nodes /\ call[t].val \in Vals /\ node[Pred(t)].next = Curr(t)
    BY <1>1, <1>2, CallKey DEF Calls, Abs!Calls, Adjacent
  <2>2. QED BY <1>1, <2>1 DEF NewNode, ll_simple, NodeSet
<1>4. Publish(t, Pred(t), r) /\ ~r.marked
  BY DEF ll_simple
<1> HIDE DEF r
<1>5. PICK q : q = "i_return" /\ Onward(t, q)
  BY DEF Goto, Onward
<1>6. PICK L2 : \E new \in Nodes \ used :
           /\ Does(L, L2, {}, t) /\ After(t)' /\ On(L2, new)' /\ Home'[new] = addr(Key(t))
           /\ Publishes(t, Pred(t), r, new) /\ pc'[t] = q /\ call'[t] = call[t]
  BY <1>1, <1>2, <1>3, <1>4, <1>5, DoLink
<1>7. /\ Does(L, L2, {}, t) /\ After(t)' /\ \A n \in Nodes : ~node'[n].marked
  BY <1>1, <1>4, <1>6 DEF Publishes
<1>8. SeqThread(L2, t)'
  BY <1>1, <1>5, <1>6, <1>7 DEF SeqThread
<1>9. QED BY <1>1, <1>7, <1>8, SeqStep

LEMMA SeqUnlink ==
  ASSUME NEW L, Core(L), SeqOK(L), NEW t \in Threads, Goto(t, "r_test", "r_return"), KeyOf(t) = Key(t),
         SetNodesAndRelease([node EXCEPT ![Pred(t)].next = node[Curr(t)].next], {Curr(t)}),
         TakesEffect(t, None, node[Curr(t)].val), UNCHANGED loc
  PROVE  \E L2 : Good(L2) /\ SeqOK(L2)'
<1>1. /\ Before(t) /\ call[t].op = "remove" /\ Adjacent(L, t) /\ InCall(t) /\ Key(t) \in Keys
      /\ \A u \in Threads \ {t} : pc[u] = "idle"
      /\ HeapOK /\ HistTypeOK /\ ChainOK(L) /\ ThreadOK(L, t) /\ used \subseteq Nodes /\ FreedOK(L)
      /\ \A n \in Nodes : ~node[n].marked
      /\ freed \in [Nodes -> {0, 1}]
  BY Here, SeqHere DEF SeqThread, Goto
<1>2. PICK p \in used, m \in used : /\ p = Pred(t) /\ m = Curr(t) /\ Live(L, p) /\ node[p].next = m /\ node[m].key = Key(t)
                                    /\ ~node[m].marked /\ m \notin Sentinels
  <2>1. Curr(t) \in used /\ node[Curr(t)].key = Key(t)
    BY <1>1 DEF ThreadOK, Mine, KeyOf
  <2>2. Curr(t) \notin Sentinels
    BY <1>1, <2>1, HeapFacts, KeyBounds DEF HeapProps
  <2>3. QED BY <1>1, <2>1, <2>2 DEF ThreadOK, Adjacent
<1>3. On(L, m) /\ freed[m] = 0
  <2>1. Live(L, m)
    BY <1>1, <1>2, Here, NextIsLive
  <2>2. On(L, m)
    BY <1>2, <2>1 DEF Live
  <2>3. QED BY <1>1, <1>2, <2>2 DEF FreedOK
<1>4. /\ Unlinks(Pred(t), Curr(t)) /\ set' = set
  <2>1. freed' = [n \in Nodes |-> IF n \in {m} THEN freed[n] + 1 ELSE freed[n]]
    BY <1>2 DEF SetNodesAndRelease
  <2>2. freed' \in [Nodes -> {0, 1}] /\ \A n \in Nodes : freed'[n] = 1 => freed[n] = 1 \/ n = m
    BY <1>1, <1>3, <2>1
  <2>3. QED BY <1>2, <2>2 DEF SetNodesAndRelease, Unlinks
<1>5. PICK q : q = "r_return" /\ Onward(t, q)
  BY DEF Goto, Onward
<1>6. /\ UnlinkedNodes(Pred(t), Curr(t)) /\ pc'[t] = q /\ call'[t] = call[t]
      /\ \E L2 : Does(L, L2, {Curr(t)}, t) /\ After(t)'
  BY <1>1, <1>2, <1>4, <1>5, DoUnlink
<1>7. PICK L2, gone : gone = {Curr(t)} /\ Does(L, L2, gone, t) /\ After(t)'
  BY <1>6
<1>8. \A n \in Nodes : ~node'[n].marked
  BY <1>1, <1>6 DEF UnlinkedNodes
<1>9. SeqThread(L2, t)'
  BY <1>1, <1>5, <1>6, <1>7 DEF SeqThread
<1>10. QED BY <1>1, <1>7, <1>8, <1>9, SeqStep

LEMMA SeqReturn ==
  ASSUME NEW L, Core(L), SeqOK(L), NEW t \in Threads,
         \/ pc[t] = "i_return" /\ Answer(t, 1)
         \/ pc[t] = "r_return" /\ Answer(t, node[Curr(t)].val)
  PROVE  \E L2 : Good(L2) /\ SeqOK(L2)'
<1>1. /\ After(t) /\ pc[t] # "idle"
      /\ pc[t] = "i_return" => call[t].op = "insert"
      /\ pc[t] = "r_return" => call[t].op = "remove"
  BY SeqHere DEF SeqThread
<1>2. PICK r \in Vals \cup {0, 1} : Rightful(t, r) /\ Answer(t, r)
  BY <1>1, AnswersAfter
<1>3. QED BY <1>1, <1>2, SeqAnswer

LEMMA SeqStutter ==
  ASSUME NEW L, Core(L), SeqOK(L), UNCHANGED vars
  PROVE  Good(L) /\ SeqOK(L)'
<1>1. /\ Core(L)' /\ Kept(L, L, {}) /\ Alike /\ Lin /\ Frozen /\ \A u \in Threads : Still(u)
  BY CoreStutter
<1>2. PICK gone : gone = {}
  OBVIOUS
<1>3. Kept(L, L, gone) /\ \A u \in Threads : pc'[u] = pc[u] /\ call'[u] = call[u]
  BY <1>1, <1>2 DEF Still
<1>4. ASSUME NEW u \in Threads PROVE SeqThread(L, u)'
  <2>1. SeqThread(L, u) /\ Still(u) /\ ThreadOK(L, u)
    BY <1>1, SeqHere, Here
  <2>2. Before(u) => (Walking(u)' <=> Walking(u)) /\ (Reached(u)' <=> Reached(u)) /\ Curr(u) \in used
    BY <1>3, <2>1, StandsStill
  <2>3. Adjacent(L, u) => Adjacent(L, u)'
    BY <1>1, <1>2, <1>3, <2>1, AdjacentStill DEF Alike
  <2>4. Before(u) /\ Live(L, Curr(u)) => Live(L, Curr(u))'
    <3>1. SUFFICES ASSUME Before(u), Live(L, Curr(u)) PROVE Live(L, Curr(u))'
      OBVIOUS
    <3>2. PICK c \in used : c = Curr(u) /\ Live(L, c)
      BY <2>2, <3>1
    <3>3. Live(L, c)'
      BY <1>2, <1>3, <3>2, LiveKept
    <3>5. Curr(u)' = c
      BY <1>1, <2>1, <3>2, StillSame DEF Kept
    <3>4. QED BY <3>3, <3>5 DEF Live, On
  <2>5. /\ Before(u)' <=> Before(u)
        /\ After(u)' <=> After(u)
    BY <1>1, <2>1, StillSame DEF Kept
  <2>6. QED BY <1>3, <2>1, <2>2, <2>3, <2>4, <2>5 DEF SeqThread
<1>5. Unmarked' /\ SeqAlone'
  BY <1>1, <1>3, SetSame DEF SeqOK, Unmarked, SeqAlone, Alike
<1>6. QED BY <1>1, <1>4, <1>5 DEF Good, SeqOK, Alike

-----------------------------------------------------------------------------
(* Locks of nodes.                                                         *)

\* Nothing happens to node n.
Untouched(n, gone) ==
  /\ node'[n].lock = node[n].lock /\ node'[n].next = node[n].next /\ node'[n].marked = node[n].marked
  /\ n \notin gone /\ freed'[n] = freed[n]

\* A step of t that touches only the nodes of T leaves alone what others have locked.
Spares(t, T, gone, P, C) ==
  /\ \A n \in used : n \notin T => Untouched(n, gone)
  /\ \A u \in Threads \ {t} : Owns(u, P, C) \cap T = {}

\* What a thread has locked is used.
LEMMA OwnsUsed ==
  ASSUME NEW L, Core(L), NEW u \in Threads, NEW P, NEW C,
         pc[u] \in P => Pred(u) # NULL,
         pc[u] \in C => Before(u) \/ call[u].op = "remove", "idle" \notin C
  PROVE  Owns(u, P, C) \subseteq used
<1>1. ThreadOK(L, u)
  BY DEF Core
<1>2. pc[u] \in P => Pred(u) \in used
  BY <1>1 DEF ThreadOK
<1>3. pc[u] \in C => InCall(u)
  BY <1>1 DEF ThreadOK
<1>4. pc[u] \in C => Curr(u) \in used
  BY <1>1, <1>3 DEF ThreadOK, Mine, Before, After
<1>5. QED BY <1>2, <1>4 DEF Owns

LEMMA OwnsStill ==
  ASSUME set' = set, NEW u, Still(u), NEW P, NEW C
  PROVE  Owns(u, P, C)' = Owns(u, P, C)
<1>1. pc'[u] = pc[u] /\ Pred(u)' = Pred(u) /\ Curr(u)' = Curr(u)
  BY StillSame
<1>2. QED BY <1>1 DEF Owns

\* Locks stay with one thread each.
LEMMA ExclusiveKept ==
  ASSUME NEW t \in Threads, NEW P, NEW C, Exclusive(P, C), set' = set, Others(t), NEW T,
         \A u \in Threads \ {t} : Owns(u, P, C) \cap T = {},
         Owns(t, P, C)' \subseteq Owns(t, P, C) \cup T
  PROVE  Exclusive(P, C)'
<1>1. \A u \in Threads \ {t} : Owns(u, P, C)' = Owns(u, P, C)
  BY OwnsStill DEF Others
<1> DEFINE O(u) == Owns(u, P, C)
<1>2. \A u, w \in Threads : u # w => O(u) \cap O(w) = {}
  BY DEF Exclusive
<1>3. \A u \in Threads \ {t} : O(u)' = O(u) /\ O(u) \cap T = {}
  BY <1>1
<1>4. O(t)' \subseteq O(t) \cup T
  OBVIOUS
<1> HIDE DEF O
<1>5. \A u, w \in Threads : u # w => O(u)' \cap O(w)' = {}
  BY <1>2, <1>3, <1>4
<1>6. QED BY <1>5 DEF Exclusive, O

\* The lock of n becomes w, and nothing else happens to the nodes.
LockSet(n, w) ==
  /\ set' = set /\ used' = used /\ freed' = freed /\ lock' = lock
  /\ \A m \in Nodes :
       /\ node'[m].key = node[m].key /\ node'[m].val = node[m].val /\ node'[m].next = node[m].next
       /\ node'[m].marked = node[m].marked /\ node'[m].lock = IF m = n THEN w ELSE node[m].lock

\* A thread locks a node and goes on.
LEMMA DoLock ==
  ASSUME NEW L, Core(L), NEW t \in Threads, Before(t), NEW n \in used, NEW w \in Nat, SetLock(n, w),
         NEW q, Onward(t, q), UNCHANGED hist
  PROVE  /\ Does(L, L, {}, t) /\ pc'[t] = q /\ loc'[t] = loc[t] /\ call'[t] = call[t] /\ Before(t)'
         /\ LockSet(n, w)
<1>1. HeapOK /\ LocalsOK /\ ThreadOK(L, t) /\ n \in Nodes
  BY Here
<1>2. node' = [node EXCEPT ![n].lock = w] /\ UNCHANGED <<set, used, freed, lock, array>>
  BY DEF SetLock, SetNodes
<1>3. LockSet(n, w) /\ node' \in [Nodes -> NodeSet]
  BY <1>1, <1>2, NodesLock DEF LockSet
<1>4. SameNodes /\ lock' \in [Buckets -> Nat] /\ freed' = freed
  BY <1>1, <1>2, <1>3 DEF SameNodes, LockSet, HeapOK
<1>5. PICK l \in Locals : l = loc[t]
  BY LocalTypes
<1>6. Goes(t, q, l) /\ q # "idle"
  BY <1>1, <1>5 DEF Goes, Onward, LocalsOK
<1>7. Stands(L, t, l)
  BY <1>1, <1>5, StandsSame DEF Curr, Pred, ThreadOK
<1>8. QED BY <1>3, <1>4, <1>5, <1>6, <1>7, DoMove

\* A thread gives back the locks of S.
Unlocks(S) ==
  /\ set' = set /\ used' = used /\ lock' = lock
  /\ \A m \in Nodes :
       /\ node'[m].key = node[m].key /\ node'[m].val = node[m].val /\ node'[m].next = node[m].next
       /\ node'[m].marked = node[m].marked /\ node'[m].lock = IF m \in S THEN TAS_FREE ELSE node[m].lock

LEMMA UnlockedNodes ==
  ASSUME HeapOK, NEW S, node' = Unlocked(S), UNCHANGED <<set, used, lock>>
  PROVE  /\ Unlocks(S) /\ SameNodes /\ node' \in [Nodes -> NodeSet] /\ lock' \in [Buckets -> Nat]
         /\ freed' = freed => LocksOnly
<1>1. Unlocks(S) /\ node' \in [Nodes -> NodeSet]
  BY NodesUnlocked DEF Unlocked, Unlocks
<1>2. SameNodes
  BY <1>1 DEF SameNodes, Unlocks
<1>3. lock' \in [Buckets -> Nat]
  BY DEF HeapOK
<1>4. QED BY <1>1, <1>2, <1>3 DEF LocksOnly

LEMMA TasUnlocked ==
  ASSUME TasLocks, NEW S, Unlocks(S)
  PROVE  TasLocks'
BY SetSame DEF TasLocks, Unlocks

\* A lock that lets a thread pass is free, and then taken.
LEMMA TasPassed ==
  ASSUME TasLocks, NEW n \in Nodes, tas_lock_passes(node[n].lock)
  PROVE  node[n].lock # TAS_LCKD /\ tas_locked(node[n].lock) = TAS_LCKD
BY DEF TasLocks, tas_lock_passes, tas_locked

LEMMA TasLocked ==
  ASSUME TasLocks, NEW n, LockSet(n, TAS_LCKD)
  PROVE  TasLocks'
BY SetSame DEF TasLocks, LockSet

\* A link, a mark or an unlinking leaves the locks alone.
LEMMA TasKept ==
  ASSUME TasLocks, set' = set, \A n \in Nodes : node'[n].lock \in {TAS_FREE, TAS_LCKD, node[n].lock}
  PROVE  TasLocks'
BY SetSame DEF TasLocks

-----------------------------------------------------------------------------
(* The lazy list.                                                          *)

LazyOwns(t) == Owns(t, LazyPred, LazyCurr)

LEMMA LazyHere ==
  ASSUME NEW L, Core(L), LazyOK(L), NEW t \in Threads
  PROVE  /\ LazyThread(L, t) /\ LazyMarks(L) /\ TasLocks
         /\ LazyOwns(t) \subseteq used /\ LazyOwns(t) \subseteq Nodes
         /\ \A u \in Threads \ {t} : LazyOwns(u) \cap LazyOwns(t) = {}
<1>1. LazyThread(L, t) /\ LazyMarks(L) /\ TasLocks
  BY DEF LazyOK
<1>2. /\ pc[t] \in LazyPred => Pred(t) # NULL
      /\ pc[t] \in LazyCurr => Before(t) \/ call[t].op = "remove"
      /\ "idle" \notin LazyCurr
  BY <1>1 DEF LazyThread, LazyCurr
<1>3. LazyOwns(t) \subseteq used
  BY <1>2, OwnsUsed DEF LazyOwns
<1>4. QED BY <1>1, <1>3, Here DEF LazyOK, Exclusive, LazyOwns

LEMMA LazyFrame ==
  ASSUME NEW L, Core(L), NEW L2, NEW gone, Kept(L, L2, gone), NEW u \in Threads, Still(u),
         LazyThread(L, u), \A n \in LazyOwns(u) : Untouched(n, gone)
  PROVE  LazyThread(L2, u)'
<1>1. /\ pc'[u] = pc[u] /\ Pred(u)' = Pred(u) /\ Curr(u)' = Curr(u) /\ Key(u)' = Key(u)
      /\ call'[u] = call[u]
      /\ Before(u)' <=> Before(u)
      /\ After(u)' <=> After(u)
  BY StillSame DEF Kept
<1>2. Before(u) => /\ node'[Curr(u)].key = node[Curr(u)].key
                   /\ Walking(u)' <=> Walking(u)
                   /\ Reached(u)' <=> Reached(u)
  BY StandsStill
<1>3. LazyOwns(u)' = LazyOwns(u)
  BY <1>1 DEF LazyOwns, Owns
<1>4. \A n \in LazyOwns(u)' : node'[n].lock = TAS_LCKD
  BY <1>3 DEF LazyThread, LazyOwns, Untouched
<1>5. /\ pc[u] \in LazyPred => Untouched(Pred(u), gone)
      /\ pc[u] \in LazyCurr => Untouched(Curr(u), gone)
  BY DEF LazyOwns, Owns
<1>6. pc[u] = "r_unlink" => /\ Adjacent(L2, u)' /\ ~node'[Pred(u)].marked /\ node'[Curr(u)].marked
                            /\ freed'[Curr(u)] = 0
  <2>1. SUFFICES ASSUME pc[u] = "r_unlink"
                 PROVE  /\ Adjacent(L2, u)' /\ ~node'[Pred(u)].marked /\ node'[Curr(u)].marked
                        /\ freed'[Curr(u)] = 0
    OBVIOUS
  <2>2. Untouched(Pred(u), gone) /\ Untouched(Curr(u), gone)
    BY <1>5, <2>1 DEF LazyPred, LazyCurr
  <2>3. Adjacent(L, u) /\ ~node[Pred(u)].marked /\ node[Curr(u)].marked /\ freed[Curr(u)] = 0
    BY <2>1 DEF LazyThread
  <2>4. Adjacent(L2, u)'
    BY <2>2, <2>3, AdjacentStill DEF Untouched
  <2>5. QED BY <2>2, <2>3, <2>4 DEF Untouched
<1>7. pc[u] = "r_unlock" => Unlinked(L2, u)' /\ node'[Curr(u)].marked
  <2>1. SUFFICES ASSUME pc[u] = "r_unlock" PROVE Unlinked(L2, u)' /\ node'[Curr(u)].marked
    OBVIOUS
  <2>2. Untouched(Curr(u), gone)
    BY <1>5, <2>1 DEF LazyCurr
  <2>3. Unlinked(L, u) /\ node[Curr(u)].marked
    BY <2>1 DEF LazyThread
  <2>4. Unlinked(L2, u)'
    BY <2>2, <2>3, UnlinkedStill DEF Untouched
  <2>5. QED BY <2>2, <2>3, <2>4 DEF Untouched
<1>8. QED
  BY <1>1, <1>2, <1>4, <1>6, <1>7 DEF LazyThread, LazyPred, LazyOwns, NULL

\* All but what is to be shown for the thread that takes the step.
LEMMA LazyStep ==
  ASSUME NEW L, Core(L), LazyOK(L), NEW t \in Threads, NEW L2, NEW gone, Does(L, L2, gone, t),
         NEW T, Spares(t, T, gone, LazyPred, LazyCurr), LazyOwns(t)' \subseteq LazyOwns(t) \cup T,
         LazyMarks(L2)', TasLocks', LazyThread(L2, t)'
  PROVE  Good(L2) /\ LazyOK(L2)'
<1>1. Kept(L, L2, gone) /\ set' = set /\ Others(t)
  BY DEF Does, Kept
<1>2. ASSUME NEW u \in Threads \ {t} PROVE LazyThread(L2, u)'
  <2>1. LazyThread(L, u) /\ LazyOwns(u) \subseteq used
    BY LazyHere
  <2>2. \A n \in LazyOwns(u) : Untouched(n, gone)
    BY <2>1 DEF Spares, LazyOwns
  <2>3. Still(u)
    BY <1>1 DEF Others
  <2>4. QED BY <1>1, <2>1, <2>2, <2>3, LazyFrame
<1>3. Exclusive(LazyPred, LazyCurr)'
  BY <1>1, ExclusiveKept DEF LazyOK, Spares, LazyOwns
<1>4. QED BY <1>1, <1>2, <1>3 DEF Good, Does, LazyOK

\* The marks and pointers stay, and no thread leaves "r_unlink".
LEMMA LazyMarksSame ==
  ASSUME NEW L, Core(L), LazyMarks(L), NEW t \in Threads, Does(L, L, {}, t), SameNodes, pc[t] # "r_unlink"
  PROVE  LazyMarks(L)'
<1>1. used' = used /\ used \subseteq Nodes /\ \A n \in used : node'[n].marked = node[n].marked
  BY Here DEF SameNodes
<1>2. \A n \in used : (Live(L, n)' <=> Live(L, n)) /\ (On(L, n)' <=> On(L, n))
  BY LiveKept DEF Does
<1>3. \A u \in Threads : pc[u] = "r_unlink" => pc'[u] = "r_unlink" /\ Curr(u)' = Curr(u)
  BY DEF Does, Others, Still, Curr
<1>4. ASSUME NEW n \in used', On(L, n)', node'[n].marked PROVE \E u \in Threads : pc'[u] = "r_unlink" /\ Curr(u)' = n
  BY <1>1, <1>2, <1>3, <1>4 DEF LazyMarks
<1>5. QED BY <1>1, <1>2, <1>4 DEF LazyMarks

\* A step that changes nothing shared.
LEMMA LazyLocal ==
  ASSUME NEW L, Core(L), LazyOK(L), NEW t \in Threads, Does(L, L, {}, t), Alike, pc[t] # "r_unlink",
         pc'[t] \notin LazyPred, LazyThread(L, t)'
  PROVE  Good(L) /\ LazyOK(L)'
<1>1. PICK gone, T : gone = {} /\ T = {}
  OBVIOUS
<1>2. Spares(t, T, gone, LazyPred, LazyCurr)
  BY <1>1 DEF Spares, Untouched, Alike
<1>3. LazyOwns(t)' = {}
  BY DEF LazyOwns, Owns, LazyPred, LazyCurr
<1>4. SameNodes
  BY DEF SameNodes, Alike
<1>5. LazyMarks(L)' /\ TasLocks'
  BY <1>4, LazyHere, LazyMarksSame, TasKept DEF Alike
<1>6. QED BY <1>1, <1>2, <1>3, <1>5, LazyStep

\* A step that gives back all that t has locked.
LEMMA LazyGiveBack ==
  ASSUME NEW L, Core(L), LazyOK(L), NEW t \in Threads, Does(L, L, {}, t), pc[t] # "r_unlink",
         Unlocks(LazyOwns(t)), \A n \in Nodes : freed'[n] # freed[n] => n \in LazyOwns(t),
         pc'[t] \notin LazyPred, LazyThread(L, t)'
  PROVE  Good(L) /\ LazyOK(L)'
<1>1. PICK gone, T : gone = {} /\ T = LazyOwns(t)
  OBVIOUS
<1>2. Spares(t, T, gone, LazyPred, LazyCurr)
  <2>1. \A n \in used : n \notin T => Untouched(n, gone)
    BY <1>1, Here DEF Untouched, Unlocks
  <2>2. \A u \in Threads \ {t} : LazyOwns(u) \cap T = {}
    BY <1>1, LazyHere
  <2>3. QED BY <2>1, <2>2 DEF Spares, LazyOwns
<1>3. LazyOwns(t)' = {}
  BY DEF LazyOwns, Owns, LazyPred, LazyCurr
<1>4. SameNodes
  BY DEF SameNodes, Unlocks
<1>5. LazyMarks(L)' /\ TasLocks'
  BY <1>4, LazyHere, LazyMarksSame, TasUnlocked
<1>6. QED BY <1>1, <1>2, <1>3, <1>5, LazyStep

LEMMA LazyInvoke ==
  ASSUME NEW L, Core(L), LazyOK(L), NEW t \in Threads, NEW c \in Calls, Invoke(t, c)
  PROVE  \E L2 : Good(L2) /\ LazyOK(L2)'
<1>1. /\ Core(L)' /\ Kept(L, L, {}) /\ Others(t) /\ Before(t)' /\ pc[t] = "idle"
      /\ call'[t] = c /\ Curr(t)' = min(addr(c.key)) /\ pc'[t] = c.op /\ c.op \in Ops
      /\ c.key \in Keys
  BY CoreInvoke
<1>2. Alike
  BY DEF Invoke, heap, Alike
<1>3. Lin
  BY DEF Invoke, Lin
<1>4. Does(L, L, {}, t)
  BY <1>1, <1>2, <1>3 DEF Does, Frozen, Alike
<1>5. Walking(t)'
  <2>1. node[min(addr(c.key))].key = 0 /\ 0 < c.key
    BY <1>1, Here, HeapFacts, KeyBounds DEF HeapProps
  <2>2. Key(t)' = c.key /\ node' = node
    BY <1>1, <1>2 DEF Key, Alike
  <2>3. QED BY <1>1, <2>1, <2>2 DEF Walking
<1>6. LazyThread(L, t)' /\ pc'[t] \notin LazyPred
  BY <1>1, <1>5 DEF LazyThread, Ops, Owns, LazyPred, LazyCurr
<1>7. QED BY <1>1, <1>2, <1>4, <1>6, LazyLocal

LEMMA LazySearchNext ==
  ASSUME NEW L, Core(L), LazyOK(L), NEW t \in Threads, SearchNext(t)
  PROVE  \E L2 : Good(L2) /\ LazyOK(L2)'
<1>1. Before(t) /\ call[t].op = "search" /\ pc[t] = "search"
  BY LazyHere DEF SearchNext, LazyThread
<1>2. Does(L, L, {}, t) /\ pc'[t] = "search" /\ call'[t] = call[t] /\ Before(t)' /\ Alike
  BY <1>1, DoSearchNext
<1>3. LazyThread(L, t)' /\ pc'[t] \notin LazyPred
  BY <1>1, <1>2 DEF LazyThread, Owns, LazyPred, LazyCurr
<1>4. QED BY <1>1, <1>2, <1>3, LazyLocal

LEMMA LazyIdle ==
  ASSUME NEW L, NEW t, pc'[t] = "idle"
  PROVE  LazyThread(L, t)' /\ pc'[t] \notin LazyPred
BY DEF LazyThread, LazyPred, LazyCurr, Owns

\* A call that has changed nothing returns.
LEMMA LazyAnswer ==
  ASSUME NEW L, Core(L), LazyOK(L), NEW t \in Threads, pc[t] \in {"search", "i_test", "r_test"},
         NEW r \in Vals \cup {0, 1}, Rightful(t, r), Answer(t, r)
  PROVE  \E L2 : Good(L2) /\ LazyOK(L2)'
<1>1. Alike /\ Return(t, r)
  BY DEF Answer, Alike, heap
<1>2. LocksOnly /\ InCall(t)
  BY <1>1, Here, AlikeLocks
<1>3. Does(L, L, {}, t) /\ pc'[t] = "idle"
  BY <1>1, <1>2, DoAnswer
<1>4. QED BY <1>1, <1>3, LazyIdle, LazyLocal

LEMMA LazySearchMark ==
  ASSUME NEW L, Core(L), LazyOK(L), NEW t \in Threads, SearchMark(t)
  PROVE  \E L2 : Good(L2) /\ LazyOK(L2)'
<1>1. Before(t) /\ call[t].op = "search" /\ node[Curr(t)].key >= Key(t) /\ pc[t] = "search"
  BY LazyHere DEF SearchMark, LazyThread, KeyOf
<1>2. /\ Curr(t) \in used /\ Rightful(t, ValOf(Curr(t), Key(t)))
      /\ ValOf(Curr(t), Key(t)) \in Vals \cup {0, 1}
  BY <1>1, Answers
<1>3. (IF node[Curr(t)].marked THEN 0 ELSE Val(t)) = ValOf(Curr(t), Key(t))
  BY <1>2 DEF Val, ValOf, KeyOf, None, Abs!None
<1>4. Answer(t, ValOf(Curr(t), Key(t)))
  BY <1>3 DEF SearchMark
<1>5. QED BY <1>1, <1>2, <1>4, LazyAnswer

LEMMA LazyFail ==
  ASSUME NEW L, Core(L), LazyOK(L), NEW t \in Threads,
         \/ pc[t] = "i_test" /\ KeyOf(t) = Key(t) /\ ~node[Curr(t)].marked
         \/ pc[t] = "r_test" /\ KeyOf(t) # Key(t),
         Answer(t, 0)
  PROVE  \E L2 : Good(L2) /\ LazyOK(L2)'
<1>1. /\ Before(t) /\ node[Curr(t)].key >= Key(t)
      /\ \/ call[t].op = "insert" /\ node[Curr(t)].key = Key(t) /\ ~node[Curr(t)].marked
         \/ call[t].op = "remove" /\ node[Curr(t)].key # Key(t)
  BY LazyHere DEF LazyThread, Reached, KeyOf
<1>2. Rightful(t, 0)
  BY <1>1, Answers
<1>3. QED BY <1>2, LazyAnswer

LEMMA LazyWalk ==
  ASSUME NEW L, Core(L), LazyOK(L), NEW t \in Threads,
         Walk(t, "insert", "i_test") \/ Walk(t, "remove", "r_test")
  PROVE  \E L2 : Good(L2) /\ LazyOK(L2)'
<1>1. PICK from, to : /\ Walk(t, from, to)
                      /\ \/ from = "insert" /\ to = "i_test"
                         \/ from = "remove" /\ to = "r_test"
  OBVIOUS
<1>2. /\ Before(t) /\ node[Curr(t)].key < Key(t) /\ from = pc[t]
      /\ (from = "insert" => call[t].op = "insert") /\ (from = "remove" => call[t].op = "remove")
  BY <1>1, LazyHere DEF LazyThread, Walk, Walking
<1>3. /\ Does(L, L, {}, t) /\ call'[t] = call[t] /\ Before(t)' /\ Alike
      /\ Pred(t)' = Curr(t) /\ Curr(t) \in used
      /\ \/ pc'[t] = from /\ node[Curr(t)'].key < Key(t)
         \/ pc'[t] = to /\ node[Curr(t)'].key >= Key(t)
  BY <1>1, <1>2, DoWalk
<1>4. Key(t)' = Key(t) /\ node' = node /\ Pred(t)' # NULL
  BY <1>3, Here DEF Key, Alike
<1>5. (pc'[t] = from => Walking(t)') /\ (pc'[t] = to => Reached(t)')
  BY <1>1, <1>3, <1>4 DEF Walking, Reached, NULL
<1>6. LazyThread(L, t)' /\ pc'[t] \notin LazyPred
  BY <1>1, <1>2, <1>3, <1>5 DEF LazyThread, LazyPred, LazyCurr, Owns
<1>7. QED BY <1>1, <1>2, <1>3, <1>6, LazyLocal

\* t starts over, after a step that changed nothing or gave its locks back.
LEMMA LazyRestarted ==
  ASSUME NEW L, Core(L), NEW t \in Threads, Before(t), LocksOnly, UNCHANGED hist, Restart(t),
         call[t].op \in {"insert", "remove"}
  PROVE  Does(L, L, {}, t) /\ LazyThread(L, t)' /\ pc'[t] \notin LazyPred
<1>1. /\ Does(L, L, {}, t) /\ call'[t] = call[t] /\ Before(t)'
      /\ pc'[t] = call[t].op /\ Curr(t)' \in Sentinels
      /\ node[Curr(t)'].key = 0 /\ 0 < Key(t)
  BY DoRestart
<1>2. Curr(t)' \in Nodes
  BY <1>1, Here, HeapFacts DEF HeapProps
<1>3. Walking(t)'
  BY <1>1, <1>2 DEF Walking, Key, LocksOnly, SameNodes
<1>4. QED BY <1>1, <1>3 DEF LazyThread, LazyPred, LazyCurr, Owns

LEMMA LazyFoundMarked ==
  ASSUME NEW L, Core(L), LazyOK(L), NEW t \in Threads, pc[t] = "i_test", Restart(t), UNCHANGED heap, UNCHANGED hist
  PROVE  \E L2 : Good(L2) /\ LazyOK(L2)'
<1>1. Before(t) /\ call[t].op = "insert" /\ HeapOK
  BY LazyHere, Here DEF LazyThread
<1>2. Alike
  BY DEF Alike, heap
<1>3. Does(L, L, {}, t) /\ LazyThread(L, t)' /\ pc'[t] \notin LazyPred
  BY <1>1, <1>2, AlikeLocks, LazyRestarted
<1>4. QED BY <1>2, <1>3, LazyLocal

\* parse_validate failed: the locks are given back.
LEMMA LazyInvalid ==
  ASSUME NEW L, Core(L), LazyOK(L), NEW t \in Threads,
         \/ pc[t] = "i_check" /\ SetNodes(Unlocked({Pred(t)}))
         \/ pc[t] = "r_check" /\ SetNodes(Unlocked({Pred(t), Curr(t)})),
         Restart(t), UNCHANGED hist
  PROVE  \E L2 : Good(L2) /\ LazyOK(L2)'
<1>1. Before(t) /\ call[t].op \in {"insert", "remove"} /\ HeapOK
  BY LazyHere, Here DEF LazyThread
<1>2. SetNodes(Unlocked(LazyOwns(t)))
  <2>1. pc[t] = "i_check" => LazyOwns(t) = {Pred(t)}
    BY DEF LazyOwns, Owns, LazyPred, LazyCurr
  <2>2. pc[t] = "r_check" => LazyOwns(t) = {Pred(t), Curr(t)}
    BY DEF LazyOwns, Owns, LazyPred, LazyCurr
  <2>3. QED BY <2>1, <2>2
<1>3. Unlocks(LazyOwns(t)) /\ LocksOnly /\ freed' = freed
  BY <1>1, <1>2, UnlockedNodes DEF SetNodes
<1>4. Does(L, L, {}, t) /\ LazyThread(L, t)' /\ pc'[t] \notin LazyPred
  BY <1>1, <1>3, LazyRestarted
<1>5. QED BY <1>3, <1>4, LazyGiveBack

LEMMA LazyLock ==
  ASSUME NEW L, Core(L), LazyOK(L), NEW t \in Threads, NEW n, NEW to,
         \/ pc[t] = "i_test" /\ to = "i_check" /\ n = Pred(t) /\ KeyOf(t) # Key(t)
         \/ pc[t] = "r_test" /\ to = "r_lock_curr" /\ n = Pred(t) /\ KeyOf(t) = Key(t)
         \/ pc[t] = "r_lock_curr" /\ to = "r_check" /\ n = Curr(t),
         pc' = [pc EXCEPT ![t] = to], tas_lock_passes(node[n].lock), SetLock(n, tas_locked(node[n].lock)),
         UNCHANGED loc, UNCHANGED hist
  PROVE  \E L2 : Good(L2) /\ LazyOK(L2)'
<1>1. /\ LazyThread(L, t) /\ LazyMarks(L) /\ TasLocks /\ Before(t) /\ Reached(t)
      /\ call[t].op = "insert" \/ call[t].op = "remove"
      /\ ThreadOK(L, t) /\ NULL \notin used /\ used \subseteq Nodes
  BY LazyHere, Here DEF LazyThread
<1>2. Pred(t) \in used /\ Curr(t) \in used /\ n \in used /\ n \in Nodes
  BY <1>1 DEF ThreadOK, Reached, Mine
<1>3. node[n].lock # TAS_LCKD /\ tas_locked(node[n].lock) = TAS_LCKD
  BY <1>1, <1>2, TasPassed
<1>4. PICK w \in Nat, q \in {to} : w = TAS_LCKD /\ SetLock(n, w) /\ q = to /\ Onward(t, q)
  BY <1>3 DEF TAS_LCKD, Onward
<1>5. /\ Does(L, L, {}, t) /\ pc'[t] = q /\ loc'[t] = loc[t] /\ call'[t] = call[t] /\ Before(t)'
      /\ LockSet(n, w)
  BY <1>1, <1>2, <1>4, DoLock
<1>6. PICK gone, T : gone = {} /\ T = {n}
  OBVIOUS
<1>7. Spares(t, T, gone, LazyPred, LazyCurr)
  <2>1. \A m \in used : m \notin T => Untouched(m, gone)
    BY <1>1, <1>5, <1>6 DEF Untouched, LockSet
  <2>2. ASSUME NEW u \in Threads \ {t} PROVE n \notin LazyOwns(u)
    <3>1. LazyThread(L, u)
      BY LazyHere
    <3>2. QED BY <1>3, <3>1 DEF LazyThread, LazyOwns
  <2>3. QED BY <1>6, <2>1, <2>2 DEF Spares, LazyOwns
<1>8. Pred(t)' = Pred(t) /\ Curr(t)' = Curr(t) /\ Key(t)' = Key(t)
  BY <1>5 DEF Pred, Curr, Key
<1>9. LazyOwns(t)' \subseteq LazyOwns(t) \cup T /\ LazyOwns(t)' \subseteq Nodes
  <2>1. LazyOwns(t)' = IF pc[t] = "r_lock_curr" THEN {Pred(t), Curr(t)} ELSE {Pred(t)}
    BY <1>4, <1>5, <1>8 DEF LazyOwns, Owns, LazyPred, LazyCurr
  <2>2. pc[t] = "r_lock_curr" => Pred(t) \in LazyOwns(t)
    BY DEF LazyOwns, Owns, LazyPred
  <2>3. QED BY <1>1, <1>2, <1>6, <2>1, <2>2
<1>10. LazyMarks(L)' /\ TasLocks'
  <2>1. SameNodes /\ pc[t] # "r_unlink" /\ LockSet(n, TAS_LCKD)
    BY <1>4, <1>5 DEF SameNodes, LockSet
  <2>2. QED BY <1>1, <1>5, <2>1, LazyMarksSame, TasLocked
<1>11. \A m \in LazyOwns(t)' : node'[m].lock = TAS_LCKD
  BY <1>1, <1>4, <1>5, <1>6, <1>9 DEF LazyThread, LazyOwns, LockSet
<1>12. Reached(t)' /\ node'[Curr(t)].key = node[Curr(t)].key
  BY <1>1, <1>2, <1>5, <1>8 DEF Reached, LockSet, NULL
<1>13. LazyThread(L, t)'
  BY <1>1, <1>4, <1>5, <1>8, <1>11, <1>12 DEF LazyThread, LazyOwns, KeyOf, LazyPred, Reached, NULL
<1>14. QED BY <1>5, <1>6, <1>7, <1>9, <1>10, <1>13, LazyStep

\* parse_validate succeeded: pred and curr are neighbours in the list.
LEMMA LazyValid ==
  ASSUME NEW L, Core(L), LazyOK(L), NEW t \in Threads, pc[t] \in {"i_check", "r_check"},
         ~node[Pred(t)].marked, ~node[Curr(t)].marked, node[Pred(t)].next = Curr(t)
  PROVE  /\ Adjacent(L, t) /\ Live(L, Curr(t)) /\ Pred(t) \in used /\ Curr(t) \in used
         /\ pc[t] = "i_check" => node[Curr(t)].key > Key(t)
         /\ pc[t] = "r_check" => On(L, Curr(t)) /\ node[Curr(t)].key = Key(t)
<1>1. /\ LazyThread(L, t) /\ LazyMarks(L) /\ HeapOK /\ ChainOK(L) /\ ThreadOK(L, t) /\ Key(t) \in Keys
      /\ Before(t) /\ Reached(t)
  BY LazyHere, Here DEF LazyThread
<1>2. Pred(t) \in used /\ Curr(t) \in used
  BY <1>1 DEF ThreadOK, Reached, Mine
<1>3. Live(L, Pred(t)) /\ Live(L, Curr(t))
  BY <1>1, <1>2 DEF LazyMarks
<1>4. node[Curr(t)].key \in Int /\ Key(t) \in Int
  BY <1>1, <1>2, ChainFacts, KeyBounds DEF ChainProps
<1>5. pc[t] = "r_check" => On(L, Curr(t)) /\ node[Curr(t)].key = Key(t)
  <2>1. SUFFICES ASSUME pc[t] = "r_check" PROVE On(L, Curr(t)) /\ node[Curr(t)].key = Key(t)
    OBVIOUS
  <2>2. node[Curr(t)].key = Key(t)
    BY <1>1, <2>1 DEF LazyThread
  <2>3. Curr(t) \notin Sentinels
    BY <1>1, <2>2, HeapFacts, KeyBounds DEF HeapProps
  <2>4. QED BY <1>3, <2>2, <2>3 DEF Live
<1>6. QED BY <1>1, <1>2, <1>3, <1>4, <1>5 DEF Adjacent, LazyThread, Reached

LEMMA LazyLink ==
  ASSUME NEW L, Core(L), LazyOK(L), NEW t \in Threads, pc[t] = "i_check",
         ~node[Pred(t)].marked, ~node[Curr(t)].marked, node[Pred(t)].next = Curr(t),
         Publish(t, Pred(t), ll_marked(Key(t), call[t].val, Curr(t))),
         pc' = [pc EXCEPT ![t] = "i_unlock"], UNCHANGED loc
  PROVE  \E L2 : Good(L2) /\ LazyOK(L2)'
<1>1. /\ LazyThread(L, t) /\ LazyMarks(L) /\ TasLocks /\ HeapOK /\ HistTypeOK /\ Key(t) \in Keys /\ InCall(t)
      /\ Before(t) /\ call[t].op = "insert" /\ used \subseteq Nodes
  BY LazyHere, Here DEF LazyThread
<1>2. Adjacent(L, t) /\ node[Curr(t)].key > Key(t) /\ Pred(t) \in used /\ Curr(t) \in used
  BY LazyValid
<1> DEFINE r == ll_marked(Key(t), call[t].val, Curr(t))
<1>3. NewNode(t, Pred(t), r) /\ ~r.marked /\ r.lock = TAS_FREE
  <2>1. Curr(t) \in Nodes /\ call[t].val \in Vals /\ node[Pred(t)].next = Curr(t)
    BY <1>1, <1>2, CallKey DEF Calls, Abs!Calls, Adjacent
  <2>2. QED BY <1>1, <2>1 DEF NewNode, ll_marked, ll_simple, NodeSet, TAS_FREE
<1>4. Publish(t, Pred(t), r)
  OBVIOUS
<1> HIDE DEF r
<1>5. PICK q : q = "i_unlock" /\ Onward(t, q)
  BY DEF Onward
<1>6. PICK L2 : \E new \in Nodes \ used :
           /\ Does(L, L2, {}, t) /\ After(t)' /\ On(L2, new)' /\ Home'[new] = addr(Key(t))
           /\ Publishes(t, Pred(t), r, new) /\ pc'[t] = q /\ call'[t] = call[t]
  BY <1>1, <1>2, <1>3, <1>4, <1>5, DoLink
<1>7. PICK new \in Nodes \ used :
           /\ Does(L, L2, {}, t) /\ After(t)' /\ On(L2, new)' /\ Home'[new] = addr(Key(t))
           /\ Publishes(t, Pred(t), r, new) /\ pc'[t] = q /\ call'[t] = call[t]
  BY <1>6
<1>8. PICK gone, T : gone = {} /\ T = {Pred(t)} /\ Kept(L, L2, gone)
  BY <1>7 DEF Does
<1>9. LazyOwns(t) = {Pred(t)} /\ LazyOwns(t)' = {Pred(t)}
  BY <1>5, <1>7 DEF LazyOwns, Owns, LazyPred, LazyCurr, Onward, Pred
<1>10. /\ \A n \in used : /\ node'[n].lock = node[n].lock /\ node'[n].marked = node[n].marked
                          /\ n # Pred(t) => node'[n].next = node[n].next
       /\ freed' = freed /\ used' = used \cup {new} /\ ~node'[new].marked /\ node'[new].lock = TAS_FREE
  BY <1>1, <1>3, <1>7 DEF Publishes
<1>11. Spares(t, T, gone, LazyPred, LazyCurr)
  <2>1. \A m \in used : m \notin T => Untouched(m, gone)
    BY <1>8, <1>10 DEF Untouched
  <2>2. \A u \in Threads \ {t} : LazyOwns(u) \cap T = {}
    BY <1>8, <1>9, LazyHere
  <2>3. QED BY <2>1, <2>2 DEF Spares, LazyOwns
<1>12. LazyMarks(L2)'
  <2>1. \A n \in used : (Live(L2, n)' <=> Live(L, n)) /\ (On(L2, n)' <=> On(L, n))
    BY <1>8, LiveKept
  <2>2. Live(L2, new)'
    BY <1>7 DEF Live
  <2>3. \A u \in Threads : pc[u] = "r_unlink" => pc'[u] = "r_unlink" /\ Curr(u)' = Curr(u)
    BY <1>7 DEF Does, Others, Still, Curr
  <2>4. ASSUME NEW n \in used', On(L2, n)', node'[n].marked PROVE \E u \in Threads : pc'[u] = "r_unlink" /\ Curr(u)' = n
    BY <1>1, <1>10, <2>1, <2>3, <2>4 DEF LazyMarks
  <2>5. ASSUME NEW n \in used', ~node'[n].marked PROVE Live(L2, n)'
    <3>1. CASE n = new
      BY <2>2, <3>1 DEF Live, On
    <3>2. CASE n \in used
      BY <1>1, <1>10, <2>1, <2>5, <3>2 DEF LazyMarks
    <3>3. QED BY <1>10, <3>1, <3>2
  <2>6. QED BY <2>4, <2>5 DEF LazyMarks
<1>13. TasLocks'
  <2>1. \A n \in Nodes : node'[n].lock \in {TAS_FREE, TAS_LCKD, node[n].lock}
    BY <1>7, <1>10 DEF Publishes
  <2>2. QED BY <1>1, <1>7, <2>1, TasKept DEF Publishes
<1>14. LazyThread(L2, t)'
  <2>1. \A n \in LazyOwns(t)' : node'[n].lock = TAS_LCKD
    BY <1>1, <1>2, <1>9, <1>10 DEF LazyThread, LazyOwns
  <2>2. Pred(t)' = Pred(t) /\ Pred(t) # NULL
    BY <1>2 DEF Pred, Adjacent
  <2>3. QED BY <1>1, <1>5, <1>7, <2>1, <2>2 DEF LazyThread, LazyOwns, LazyPred, NULL
<1>15. QED BY <1>7, <1>8, <1>9, <1>11, <1>12, <1>13, <1>14, LazyStep

\* curr->marked = 1.
LEMMA LazyMark ==
  ASSUME NEW L, Core(L), LazyOK(L), NEW t \in Threads, pc[t] = "r_check",
         ~node[Pred(t)].marked, ~node[Curr(t)].marked, node[Pred(t)].next = Curr(t),
         SetNodes([node EXCEPT ![Curr(t)].marked = TRUE]),
         TakesEffect(t, None, node[Curr(t)].val),
         pc' = [pc EXCEPT ![t] = "r_unlink"], UNCHANGED loc
  PROVE  \E L2 : Good(L2) /\ LazyOK(L2)'
<1>1. /\ LazyThread(L, t) /\ LazyMarks(L) /\ TasLocks /\ HeapOK /\ FreedOK(L) /\ freed \in [Nodes -> {0, 1}]
      /\ Before(t) /\ call[t].op = "remove" /\ used \subseteq Nodes
      /\ \A n \in LazyOwns(t) : node[n].lock = TAS_LCKD
  BY LazyHere, Here DEF LazyThread, LazyOwns
<1>2. Adjacent(L, t) /\ On(L, Curr(t)) /\ node[Curr(t)].key = Key(t) /\ Pred(t) \in used /\ Curr(t) \in used
  BY LazyValid
<1>3. PICK q : q = "r_unlink" /\ Onward(t, q)
  BY DEF Onward
<1>4. Does(L, L, {}, t) /\ After(t)' /\ Marked(Curr(t)) /\ pc'[t] = q /\ call'[t] = call[t]
  BY <1>1, <1>2, <1>3, DoMark
<1>5. PICK gone, T : gone = {} /\ T = {Pred(t), Curr(t)} /\ Kept(L, L, gone)
  BY <1>4 DEF Does
<1>6. LazyOwns(t) = T /\ LazyOwns(t)' = T /\ Pred(t)' = Pred(t) /\ Curr(t)' = Curr(t) /\ T \subseteq used
  BY <1>2, <1>3, <1>4, <1>5 DEF LazyOwns, Owns, LazyPred, LazyCurr, Onward, Pred, Curr
<1>7. /\ \A n \in used : /\ node'[n].lock = node[n].lock /\ node'[n].next = node[n].next
                         /\ node'[n].marked = IF n = Curr(t) THEN TRUE ELSE node[n].marked
      /\ freed' = freed /\ used' = used /\ set' = set
      /\ \A n \in Nodes : node'[n].lock = node[n].lock
  BY <1>1, <1>4 DEF Marked
<1>8. Spares(t, T, gone, LazyPred, LazyCurr)
  <2>1. \A m \in used : m \notin T => Untouched(m, gone)
    BY <1>5, <1>7 DEF Untouched
  <2>2. \A u \in Threads \ {t} : LazyOwns(u) \cap T = {}
    BY <1>6, LazyHere
  <2>3. QED BY <2>1, <2>2 DEF Spares, LazyOwns
<1>9. LazyMarks(L)'
  <2>1. \A n \in used : (Live(L, n)' <=> Live(L, n)) /\ (On(L, n)' <=> On(L, n))
    BY <1>5, LiveKept
  <2>2. \A u \in Threads : pc[u] = "r_unlink" => pc'[u] = "r_unlink" /\ Curr(u)' = Curr(u)
    BY <1>4 DEF Does, Others, Still, Curr
  <2>3. ASSUME NEW n \in used', On(L, n)', node'[n].marked PROVE \E u \in Threads : pc'[u] = "r_unlink" /\ Curr(u)' = n
    <3>1. CASE n = Curr(t)
      BY <1>3, <1>4, <1>6, <3>1
    <3>2. CASE n # Curr(t)
      <4>1. n \in used /\ On(L, n) /\ node[n].marked
        BY <1>7, <2>1, <2>3, <3>2
      <4>2. PICK u \in Threads : pc[u] = "r_unlink" /\ Curr(u) = n
        BY <1>1, <4>1 DEF LazyMarks
      <4>3. QED BY <2>2, <4>2
    <3>3. QED BY <3>1, <3>2
  <2>4. \A n \in used' : ~node'[n].marked => Live(L, n)'
    BY <1>1, <1>7, <2>1 DEF LazyMarks
  <2>5. QED BY <2>3, <2>4 DEF LazyMarks
<1>10. TasLocks'
  BY <1>1, <1>7, TasKept
<1>11. LazyThread(L, t)'
  <2>1. \A n \in LazyOwns(t)' : node'[n].lock = TAS_LCKD
    BY <1>1, <1>6, <1>7
  <2>2. PICK p \in used : p = Pred(t) /\ p # NULL /\ Live(L, p) /\ node[p].next = Curr(t) /\ p # Curr(t)
    <3>1. node[Pred(t)].key < Key(t) /\ Key(t) \in Nat
      BY <1>1, <1>2, Here, KeyBounds DEF ThreadOK, Before, Adjacent
    <3>2. node[Pred(t)].key # node[Curr(t)].key
      BY <1>2, <3>1, Here DEF NodeSet
    <3>3. QED BY <1>2, <3>2 DEF Adjacent, Live, On
  <2>3. Live(L, p)'
    BY <1>5, <2>2, LiveKept
  <2>4. Live(L, Pred(t))'
    BY <1>6, <2>2, <2>3 DEF Live, On
  <2>5. Adjacent(L, t)'
    BY <1>6, <1>7, <2>2, <2>4 DEF Adjacent, NULL
  <2>6. ~node'[Pred(t)].marked /\ node'[Curr(t)].marked /\ freed'[Curr(t)] = 0
    BY <1>1, <1>2, <1>7, <2>2 DEF FreedOK
  <2>7. QED BY <1>1, <1>3, <1>4, <1>6, <2>1, <2>2, <2>5, <2>6 DEF LazyThread, LazyOwns, LazyPred, NULL
<1>12. QED BY <1>4, <1>5, <1>6, <1>8, <1>9, <1>10, <1>11, LazyStep

\* pred->next = curr->next.
LEMMA LazyUnlink ==
  ASSUME NEW L, Core(L), LazyOK(L), NEW t \in Threads, Goto(t, "r_unlink", "r_unlock"),
         SetNodes([node EXCEPT ![Pred(t)].next = node[Curr(t)].next]), UNCHANGED loc, UNCHANGED hist
  PROVE  \E L2 : Good(L2) /\ LazyOK(L2)'
<1>1. /\ LazyThread(L, t) /\ LazyMarks(L) /\ TasLocks /\ HeapOK /\ freed \in [Nodes -> {0, 1}]
      /\ After(t) /\ InCall(t) /\ call[t].op = "remove" /\ used \subseteq Nodes /\ ThreadOK(L, t)
      /\ \A n \in LazyOwns(t) : node[n].lock = TAS_LCKD
      /\ Adjacent(L, t) /\ ~node[Pred(t)].marked /\ node[Curr(t)].marked /\ freed[Curr(t)] = 0
  BY LazyHere, Here DEF LazyThread, LazyOwns, Goto
<1>2. Pred(t) \in used /\ Curr(t) \in used /\ Pred(t) # NULL
  BY <1>1 DEF ThreadOK, Adjacent
<1>3. PICK q : q = "r_unlock" /\ q # "idle" /\ pc' = [pc EXCEPT ![t] = q] /\ pc'[t] = q
  BY Here DEF Goto, LocalsOK
<1>4. Unlinks(Pred(t), Curr(t)) /\ set' = set /\ used' = used /\ freed' = freed
  BY <1>1 DEF SetNodes, Unlinks
<1>5. /\ On(L, Curr(t)) /\ UnlinkedNodes(Pred(t), Curr(t))
      /\ \E L2 : Does(L, L2, {Curr(t)}, t)
  BY <1>1, <1>2, <1>3, <1>4, DoUnlinkMarked
<1>6. PICK L2, gone, T : gone = {Curr(t)} /\ T = {Pred(t), Curr(t)} /\ Does(L, L2, gone, t) /\ Kept(L, L2, gone)
  BY <1>5 DEF Does
<1>7. /\ loc'[t] = loc[t] /\ call'[t] = call[t] /\ lin'[t] = lin[t] /\ Pred(t)' = Pred(t) /\ Curr(t)' = Curr(t)
      /\ LazyOwns(t) = T /\ LazyOwns(t)' = T /\ T \subseteq used
  BY <1>2, <1>3, <1>6 DEF LazyOwns, Owns, LazyPred, LazyCurr, Goto, Pred, Curr, hist
<1>8. /\ \A n \in used : /\ node'[n].lock = node[n].lock /\ node'[n].marked = node[n].marked
                         /\ n # Pred(t) => node'[n].next = node[n].next
      /\ \A n \in Nodes : node'[n].lock = node[n].lock
  BY <1>1, <1>5 DEF UnlinkedNodes
<1>9. Spares(t, T, gone, LazyPred, LazyCurr)
  <2>1. \A m \in used : m \notin T => Untouched(m, gone)
    BY <1>4, <1>6, <1>8 DEF Untouched
  <2>2. \A u \in Threads \ {t} : LazyOwns(u) \cap T = {}
    BY <1>7, LazyHere
  <2>3. QED BY <2>1, <2>2 DEF Spares, LazyOwns
<1>10. LazyMarks(L2)'
  <2>1. \A n \in used : /\ n # Curr(t) => (Live(L2, n)' <=> Live(L, n)) /\ (On(L2, n)' <=> On(L, n))
                        /\ n = Curr(t) => ~On(L2, n)'
    BY <1>6, LiveKept
  <2>2. \A u \in Threads \ {t} : pc[u] = "r_unlink" => pc'[u] = "r_unlink" /\ Curr(u)' = Curr(u)
    BY <1>6 DEF Does, Others, Still, Curr
  <2>3. ASSUME NEW n \in used', On(L2, n)', node'[n].marked PROVE \E u \in Threads : pc'[u] = "r_unlink" /\ Curr(u)' = n
    <3>1. n \in used /\ n # Curr(t) /\ On(L, n) /\ node[n].marked
      BY <1>4, <1>8, <2>1, <2>3
    <3>2. PICK u \in Threads : pc[u] = "r_unlink" /\ Curr(u) = n
      BY <1>1, <3>1 DEF LazyMarks
    <3>3. QED BY <2>2, <3>1, <3>2
  <2>4. \A n \in used' : ~node'[n].marked => Live(L2, n)'
    BY <1>1, <1>4, <1>8, <2>1 DEF LazyMarks
  <2>5. QED BY <2>3, <2>4 DEF LazyMarks
<1>11. TasLocks'
  BY <1>1, <1>4, <1>8, TasKept
<1>12. Unlinked(L2, t)' /\ After(t)'
  <2>1. After(t)'
    BY <1>1, <1>7 DEF After, InCall, NoCall, Abs!NoCall, Abs!Pending
  <2>2. QED BY <1>4, <1>5, <1>6, <1>7, <2>1, NowUnlinked DEF Unlinked
<1>13. LazyThread(L2, t)'
  BY <1>1, <1>2, <1>3, <1>7, <1>8, <1>12 DEF LazyThread, LazyOwns, LazyPred, NULL
<1>14. QED BY <1>6, <1>7, <1>9, <1>10, <1>11, <1>13, LazyStep

\* The locks are given back, and the call returns.
LEMMA LazyReturn ==
  ASSUME NEW L, Core(L), LazyOK(L), NEW t \in Threads,
         \/ pc[t] = "i_unlock" /\ SetNodes(Unlocked({Pred(t)})) /\ Return(t, 1)
         \/ /\ pc[t] = "r_unlock" /\ SetNodesAndRelease(Unlocked({Pred(t), Curr(t)}), {Curr(t)})
            /\ Return(t, node[Curr(t)].val)
  PROVE  \E L2 : Good(L2) /\ LazyOK(L2)'
<1>1. /\ LazyThread(L, t) /\ HeapOK /\ freed \in [Nodes -> {0, 1}] /\ After(t) /\ InCall(t) /\ used \subseteq Nodes
      /\ pc[t] = "i_unlock" => call[t].op = "insert" /\ LazyOwns(t) = {Pred(t)}
      /\ pc[t] = "r_unlock" => /\ call[t].op = "remove" /\ LazyOwns(t) = {Pred(t), Curr(t)}
                               /\ Unlinked(L, t)
  BY LazyHere, Here DEF LazyThread, LazyOwns, Owns, LazyPred, LazyCurr
<1>2. PICK r \in Vals \cup {0, 1} : Rightful(t, r) /\ Return(t, r)
  BY <1>1, AnswersAfter
<1>3. node' = Unlocked(LazyOwns(t)) /\ UNCHANGED <<set, used, lock>>
  BY <1>1 DEF SetNodes, SetNodesAndRelease
<1>4. Unlocks(LazyOwns(t)) /\ SameNodes /\ node' \in [Nodes -> NodeSet] /\ lock' \in [Buckets -> Nat]
  BY <1>1, <1>3, UnlockedNodes
<1>5. /\ freed' \in [Nodes -> {0, 1}]
      /\ \A n \in Nodes : freed'[n] = 1 => freed[n] = 1 \/ (n \in used \ Sentinels /\ ~On(L, n))
      /\ \A n \in Nodes : freed'[n] # freed[n] => n \in LazyOwns(t)
  <2>1. CASE pc[t] = "i_unlock"
    BY <1>1, <2>1 DEF SetNodes
  <2>2. CASE pc[t] = "r_unlock"
    <3>1. PICK m \in used \ Sentinels : m = Curr(t) /\ ~On(L, m) /\ freed[m] = 0 /\ m \in LazyOwns(t)
      BY <1>1, <2>2 DEF Unlinked, On
    <3>2. freed' = [n \in Nodes |-> IF n \in {m} THEN freed[n] + 1 ELSE freed[n]]
      BY <2>2, <3>1 DEF SetNodesAndRelease
    <3>3. QED BY <1>1, <3>1, <3>2
  <2>3. QED BY <2>1, <2>2
<1>6. Does(L, L, {}, t) /\ pc'[t] = "idle"
  BY <1>1, <1>2, <1>4, <1>5, DoReturn
<1>7. QED BY <1>4, <1>5, <1>6, LazyIdle, LazyGiveBack

LEMMA LazyStutter ==
  ASSUME NEW L, Core(L), LazyOK(L), UNCHANGED vars
  PROVE  Good(L) /\ LazyOK(L)'
<1>1. /\ Core(L)' /\ Kept(L, L, {}) /\ Alike /\ Lin /\ Frozen /\ \A u \in Threads : Still(u)
  BY CoreStutter
<1>2. PICK gone : gone = {} /\ Kept(L, L, gone)
  BY <1>1
<1>3. ASSUME NEW u \in Threads PROVE LazyThread(L, u)' /\ LazyOwns(u)' = LazyOwns(u)
  <2>1. \A n \in LazyOwns(u) : Untouched(n, gone)
    BY <1>1, <1>2 DEF Untouched, Alike
  <2>2. Still(u) /\ LazyThread(L, u)
    BY <1>1, LazyHere
  <2>3. QED BY <1>1, <1>2, <2>1, <2>2, LazyFrame, OwnsStill DEF LazyOwns, Alike
<1>4. TasLocks'
  BY <1>1, TasKept DEF LazyOK, Alike
<1>5. Exclusive(LazyPred, LazyCurr)'
  <2>1. \A u, w \in Threads : u # w => LazyOwns(u) \cap LazyOwns(w) = {}
    BY LazyHere
  <2>2. \A u, w \in Threads : u # w => LazyOwns(u)' \cap LazyOwns(w)' = {}
    BY <1>3, <2>1
  <2>3. QED BY <2>2 DEF Exclusive, LazyOwns
<1>6. LazyMarks(L)'
  <2>1. \A n \in used : (Live(L, n)' <=> Live(L, n)) /\ (On(L, n)' <=> On(L, n))
    BY <1>2, LiveKept
  <2>2. \A u \in Threads : pc'[u] = pc[u] /\ Curr(u)' = Curr(u)
    BY <1>1 DEF Still, Curr
  <2>3. used' = used /\ node' = node
    BY <1>1 DEF Alike
  <2>4. QED BY <2>1, <2>2, <2>3 DEF LazyMarks, LazyOK
<1>7. QED BY <1>1, <1>3, <1>4, <1>5, <1>6 DEF Good, LazyOK, Alike

-----------------------------------------------------------------------------
(* Steps that move the local pointers, for the lists that follow.          *)

\* The local variables with other pointers.
LEMMA CurrTo ==
  ASSUME NEW r \in Locals, NEW c \in Int
  PROVE  LET l == [r EXCEPT !.curr = c]
         IN  /\ l \in Locals /\ l.curr = c /\ l.pred = r.pred /\ l.next = r.next /\ l.lnext = r.lnext
             /\ l.cver = r.cver /\ l.pver = r.pver
<1> DEFINE l == [r EXCEPT !.curr = c]
<1>1. l \in Locals
  BY DEF Locals
<1>2. QED BY <1>1 DEF Locals

LEMMA PredTo ==
  ASSUME NEW r \in Locals, NEW p \in Int
  PROVE  LET l == [r EXCEPT !.pred = p]
         IN  /\ l \in Locals /\ l.pred = p /\ l.curr = r.curr /\ l.next = r.next /\ l.lnext = r.lnext
             /\ l.cver = r.cver /\ l.pver = r.pver
<1> DEFINE l == [r EXCEPT !.pred = p]
<1>1. l \in Locals
  BY DEF Locals
<1>2. QED BY <1>1 DEF Locals

LEMMA NextTo ==
  ASSUME NEW r \in Locals, NEW x \in Int
  PROVE  LET l == [r EXCEPT !.next = x]
         IN  /\ l \in Locals /\ l.next = x /\ l.curr = r.curr /\ l.pred = r.pred /\ l.lnext = r.lnext
             /\ l.cver = r.cver /\ l.pver = r.pver
<1> DEFINE l == [r EXCEPT !.next = x]
<1>1. l \in Locals
  BY DEF Locals
<1>2. QED BY <1>1 DEF Locals

\* A thread moves its pointers, and nothing shared changes.
LEMMA LocalStep ==
  ASSUME NEW L, Core(L), NEW t \in Threads, Before(t), UNCHANGED heap, UNCHANGED hist,
         NEW q, q # "idle", NEW l \in Locals, Goes(t, q, l), Stands(L, t, l)
  PROVE  /\ Does(L, L, {}, t) /\ pc'[t] = q /\ loc'[t] = l /\ call'[t] = call[t] /\ Before(t)'
         /\ seen'[t] = seen[t] /\ Alike
         /\ Pred(t)' = l.pred /\ Curr(t)' = l.curr /\ Key(t)' = Key(t) /\ node' = node /\ freed' = freed
<1>1. /\ Does(L, L, {}, t) /\ pc'[t] = q /\ loc'[t] = l /\ call'[t] = call[t] /\ Before(t)'
      /\ seen'[t] = seen[t] /\ Alike
  BY DoLocal
<1>2. QED BY <1>1 DEF Pred, Curr, Key, Alike

\* A thread goes on, and nothing else changes.
LEMMA StayStep ==
  ASSUME NEW L, Core(L), NEW t \in Threads, Before(t), UNCHANGED heap, UNCHANGED hist, UNCHANGED loc,
         NEW q, q # "idle", pc' = [pc EXCEPT ![t] = q]
  PROVE  /\ Does(L, L, {}, t) /\ pc'[t] = q /\ loc'[t] = loc[t] /\ call'[t] = call[t] /\ Before(t)'
         /\ seen'[t] = seen[t] /\ Alike
         /\ Pred(t)' = Pred(t) /\ Curr(t)' = Curr(t) /\ Key(t)' = Key(t) /\ node' = node /\ freed' = freed
<1>1. PICK l \in Locals : l = loc[t]
  BY LocalTypes
<1>2. Goes(t, q, l)
  BY <1>1 DEF Goes, Core, LocalsOK
<1>3. l.curr = Curr(t) /\ l.pred = Pred(t) /\ l.next \in used \cup {NULL} /\ l.lnext = loc[t].lnext
  BY <1>1 DEF Core, ThreadOK, Curr, Pred
<1>4. Stands(L, t, l)
  BY <1>3, StandsSame
<1>5. /\ Does(L, L, {}, t) /\ pc'[t] = q /\ loc'[t] = l /\ call'[t] = call[t] /\ Before(t)'
      /\ seen'[t] = seen[t] /\ Alike
      /\ Pred(t)' = l.pred /\ Curr(t)' = l.curr /\ Key(t)' = Key(t) /\ node' = node /\ freed' = freed
  BY <1>2, <1>4, LocalStep
<1>6. QED BY <1>1, <1>3, <1>5

\* pred = curr, where curr has a smaller key.
LEMMA StandsHere ==
  ASSUME NEW L, Core(L), NEW t \in Threads, Before(t), node[Curr(t)].key < Key(t),
         NEW l, l.curr = Curr(t), l.pred = Curr(t), l.next = loc[t].next, l.lnext = loc[t].lnext
  PROVE  Stands(L, t, l) /\ Curr(t) \in used
BY DEF Stands, Core, ThreadOK, Mine, Before

\* curr = curr->next, where curr has a smaller key or is marked.
LEMMA StandsPast ==
  ASSUME NEW L, Core(L), NEW t \in Threads, Before(t), node[Curr(t)].key < Key(t) \/ node[Curr(t)].marked,
         NEW l, l.curr = node[Curr(t)].next, l.pred \in {NULL, Pred(t)},
         l.next = loc[t].next, l.lnext = loc[t].lnext
  PROVE  Stands(L, t, l) /\ node[Curr(t)].next \in used /\ Curr(t) \in used
<1>1. HeapOK /\ HistTypeOK /\ ChainOK(L) /\ ThreadOK(L, t) /\ HeapProps /\ ChainProps(L)
  BY HeapFacts, ChainFacts DEF Core
<1>2. PICK c \in used, k \in Keys : c = Curr(t) /\ k = Key(t) /\ Home[c] = addr(k) /\ Result(L, c, k) \in seen[t]
  BY <1>1, CallKey DEF ThreadOK, Mine, Before
<1>3. CASE node[c].key < k
  BY <1>2, <1>3, StandsNext
<1>4. CASE node[c].marked /\ ~(node[c].key < k)
  <2>1. c \notin Sentinels /\ node[c].key \in Keys
    BY <1>1, <1>2, <1>4 DEF HeapProps
  <2>2. node[c].next \in used /\ Home[node[c].next] = Home[c] /\ node[c].key < node[node[c].next].key
    BY <1>1, <1>2, <2>1, KeyBounds DEF ChainProps
  <2>3. node[c].key \in Nat /\ k \in Nat /\ node[node[c].next].key \in Nat
    BY <1>1, <1>2, <2>2, KeyBounds DEF ChainProps
  <2>4. Result(L, c, k) = None
    BY <1>2, <1>4 DEF Result, End, ValOf
  <2>5. Result(L, node[c].next, k) = None
    <3>1. ~(node[node[c].next].key < k) /\ node[node[c].next].key # k
      BY <1>4, <2>2, <2>3
    <3>2. QED BY <3>1 DEF Result, End, ValOf
  <2>6. l.pred # NULL => Mine(t, l.pred) /\ node[l.pred].key < Key(t)
    BY <1>1 DEF ThreadOK, Before
  <2>7. l.pred \in used \cup {NULL} /\ l.next \in used \cup {NULL} /\ l.lnext = NULL
    BY <1>1 DEF ThreadOK
  <2>8. QED BY <1>2, <2>2, <2>4, <2>5, <2>6, <2>7 DEF Stands, Mine
<1>5. QED BY <1>2, <1>3, <1>4

\* What the call of a thread may return is not forgotten.
LEMMA SeenGrows ==
  ASSUME HistTypeOK, Lin, NEW u \in Threads, InCall(u), call'[u] = call[u], lin'[u] = lin[u]
  PROVE  seen[u] \subseteq seen'[u]
<1>1. CASE UNCHANGED hist
  BY <1>1 DEF hist
<1>2. CASE \E t \in Threads, c \in Calls : Begins(t, c)
  BY <1>2 DEF Begins, Abs!Invoke, HistTypeOK, InCall, NoCall
<1>3. CASE \E t \in Threads : \E v \in Vals \cup {0}, r \in Vals \cup {0, 1} : Before(t) /\ TakesEffect(t, v, r)
  <2>1. PICK t \in Threads, v \in Vals \cup {0}, r \in Vals \cup {0, 1} : Before(t) /\ TakesEffect(t, v, r)
    BY <1>3
  <2>2. CASE t = u
    BY <2>1, <2>2, HistEffect
  <2>3. CASE t # u
    BY <2>1, <2>3 DEF TakesEffect, Abs!Observe, HistTypeOK
  <2>4. QED BY <2>2, <2>3
<1>4. CASE \E t \in Threads : Ends(t)
  BY <1>4 DEF Ends, Returns, HistTypeOK, InCall
<1>5. ASSUME NEW t \in Threads, Inserts(t) \/ Removes(t)
      PROVE  \E v \in Vals \cup {0}, r \in Vals \cup {0, 1} : Before(t) /\ TakesEffect(t, v, r)
  <2>1. CASE Inserts(t)
    <3>1. call[t].val \in Vals
      BY <2>1, CallKey DEF Inserts, Before, Calls, Abs!Calls
    <3>2. QED BY <2>1, <3>1 DEF Inserts
  <2>2. CASE Removes(t)
    BY <2>2 DEF Removes, None, Abs!None
  <2>3. QED BY <1>5, <2>1, <2>2
<1>6. QED BY <1>1, <1>2, <1>3, <1>4, <1>5 DEF Lin

-----------------------------------------------------------------------------
(* Harris' list, optimized.                                                *)

LEMMA HarrisHere ==
  ASSUME NEW L, HarrisOptOK(L), NEW t \in Threads
  PROVE  HarrisOptThread(t) /\ HarrisMarks(L)
BY DEF HarrisOptOK

\* No mark is ever taken off.
MarksStay == \A n \in used : node[n].marked => node'[n].marked

LEMMA HarrisFrame ==
  ASSUME NEW L, Core(L), NEW L2, NEW gone, Kept(L, L2, gone), Lin, MarksStay, NEW u \in Threads, Still(u),
         HarrisOptThread(u)
  PROVE  HarrisOptThread(u)'
<1>1. /\ pc'[u] = pc[u] /\ Pred(u)' = Pred(u) /\ Curr(u)' = Curr(u) /\ Key(u)' = Key(u)
      /\ call'[u] = call[u] /\ lin'[u] = lin[u]
      /\ Before(u)' <=> Before(u)
      /\ After(u)' <=> After(u)
  BY StillSame DEF Kept, Still
<1>2. Before(u) => /\ Curr(u) \in used
                   /\ Walking(u)' <=> Walking(u)
                   /\ Reached(u)' <=> Reached(u)
  BY StandsStill
<1>3. pc[u] = "r_delete" => Curr(u) \in used
  BY Here DEF HarrisOptThread, ThreadOK
<1>4. pc[u] \in {"delete", "next", "r_delete"} /\ node[Curr(u)].marked => node'[Curr(u)'].marked
  BY <1>1, <1>2, <1>3 DEF HarrisOptThread, MarksStay
<1>5. pc[u] \in {"found", "r_mark"} =>
        /\ node'[Curr(u)'].key = node[Curr(u)].key /\ node'[Curr(u)'].val = node[Curr(u)].val
        /\ seen[u] \subseteq seen'[u]
  BY <1>1, <1>2, Here, SeenGrows DEF HarrisOptThread, Kept, Before
<1>6. QED
  BY <1>1, <1>2, <1>4, <1>5 DEF HarrisOptThread, NULL

LEMMA HarrisStep ==
  ASSUME NEW L, Core(L), HarrisOptOK(L), NEW t \in Threads, NEW L2, NEW gone, Does(L, L2, gone, t),
         MarksStay, HarrisMarks(L2)', HarrisOptThread(t)'
  PROVE  Good(L2) /\ HarrisOptOK(L2)'
<1>1. ASSUME NEW u \in Threads \ {t} PROVE HarrisOptThread(u)'
  BY HarrisHere, HarrisFrame DEF Does, Others
<1>2. QED BY <1>1 DEF Does, Good, Kept, HarrisOptOK

\* A step that unlinks no node but marked ones.
LEMMA HarrisMarksKept ==
  ASSUME NEW L, HarrisMarks(L), NEW L2, NEW gone, Kept(L, L2, gone), used' = used, MarksStay,
         \A n \in gone : node[n].marked
  PROVE  HarrisMarks(L2)'
<1>1. \A n \in used : n \notin gone => (Live(L2, n)' <=> Live(L, n))
  BY LiveKept
<1>2. QED BY <1>1 DEF HarrisMarks, MarksStay

\* A step that changes nothing shared.
LEMMA HarrisLocal ==
  ASSUME NEW L, Core(L), HarrisOptOK(L), NEW t \in Threads, Does(L, L, {}, t), Alike, HarrisOptThread(t)'
  PROVE  Good(L) /\ HarrisOptOK(L)'
<1>1. PICK gone : gone = {} /\ Does(L, L, gone, t) /\ Kept(L, L, gone)
  BY DEF Does
<1>2. MarksStay /\ used' = used
  BY DEF MarksStay, Alike
<1>3. HarrisMarks(L)'
  BY <1>1, <1>2, HarrisHere, HarrisMarksKept
<1>4. QED BY <1>1, <1>2, <1>3, HarrisStep

LEMMA HarrisInvoke ==
  ASSUME NEW L, Core(L), HarrisOptOK(L), NEW t \in Threads, NEW c \in Calls, Invoke(t, c)
  PROVE  \E L2 : Good(L2) /\ HarrisOptOK(L2)'
<1>1. /\ Core(L)' /\ Kept(L, L, {}) /\ Others(t) /\ Before(t)' /\ pc[t] = "idle"
      /\ call'[t] = c /\ Curr(t)' = min(addr(c.key)) /\ pc'[t] = c.op /\ c.op \in Ops
      /\ c.key \in Keys
  BY CoreInvoke
<1>2. Alike
  BY DEF Invoke, heap, Alike
<1>3. Lin
  BY DEF Invoke, Lin
<1>4. Does(L, L, {}, t)
  BY <1>1, <1>2, <1>3 DEF Does, Frozen, Alike
<1>5. Walking(t)'
  <2>1. node[min(addr(c.key))].key = 0 /\ 0 < c.key
    BY <1>1, Here, HeapFacts, KeyBounds DEF HeapProps
  <2>2. Key(t)' = c.key /\ node' = node
    BY <1>1, <1>2 DEF Key, Alike
  <2>3. QED BY <1>1, <2>1, <2>2 DEF Walking
<1>6. HarrisOptThread(t)'
  BY <1>1, <1>5 DEF HarrisOptThread, Ops
<1>7. QED BY <1>2, <1>4, <1>6, HarrisLocal

LEMMA HarrisSearchNext ==
  ASSUME NEW L, Core(L), HarrisOptOK(L), NEW t \in Threads, SearchNext(t)
  PROVE  \E L2 : Good(L2) /\ HarrisOptOK(L2)'
<1>1. Before(t) /\ call[t].op = "search" /\ pc[t] = "search"
  BY HarrisHere DEF SearchNext, HarrisOptThread
<1>2. Does(L, L, {}, t) /\ pc'[t] = "search" /\ call'[t] = call[t] /\ Before(t)' /\ Alike
  BY <1>1, DoSearchNext
<1>3. HarrisOptThread(t)'
  BY <1>1, <1>2 DEF HarrisOptThread
<1>4. QED BY <1>2, <1>3, HarrisLocal

\* A call that has changed nothing shared returns.
LEMMA HarrisAnswer ==
  ASSUME NEW L, Core(L), HarrisOptOK(L), NEW t \in Threads, pc[t] # "idle",
         NEW r \in Vals \cup {0, 1}, Rightful(t, r), Answer(t, r)
  PROVE  \E L2 : Good(L2) /\ HarrisOptOK(L2)'
<1>1. Alike /\ Return(t, r)
  BY DEF Answer, Alike, heap
<1>2. LocksOnly /\ InCall(t)
  BY <1>1, Here, AlikeLocks
<1>3. Does(L, L, {}, t) /\ pc'[t] = "idle"
  BY <1>1, <1>2, DoAnswer
<1>4. HarrisOptThread(t)'
  BY <1>3 DEF HarrisOptThread
<1>5. QED BY <1>1, <1>3, <1>4, HarrisLocal

LEMMA HarrisSearchMark ==
  ASSUME NEW L, Core(L), HarrisOptOK(L), NEW t \in Threads, SearchMark(t)
  PROVE  \E L2 : Good(L2) /\ HarrisOptOK(L2)'
<1>1. Before(t) /\ call[t].op = "search" /\ node[Curr(t)].key >= Key(t) /\ pc[t] = "search"
  BY HarrisHere DEF SearchMark, HarrisOptThread, KeyOf
<1>2. /\ Curr(t) \in used /\ Rightful(t, ValOf(Curr(t), Key(t)))
      /\ ValOf(Curr(t), Key(t)) \in Vals \cup {0, 1}
  BY <1>1, Answers
<1>3. (IF node[Curr(t)].marked THEN 0 ELSE Val(t)) = ValOf(Curr(t), Key(t))
  BY <1>2 DEF Val, ValOf, KeyOf, None, Abs!None
<1>4. Answer(t, ValOf(Curr(t), Key(t)))
  BY <1>3 DEF SearchMark
<1>5. QED BY <1>1, <1>2, <1>4, HarrisAnswer

\* left_node = head; right_node = head->next
HarrisStarts(t) ==
  /\ pc[t] \in {"insert", "remove"} /\ pc' = [pc EXCEPT ![t] = "mark"]
  /\ loc' = [loc EXCEPT ![t].pred = Curr(t), ![t].curr = node[Curr(t)].next]
  /\ UNCHANGED heap /\ UNCHANGED hist

LEMMA HarrisStart ==
  ASSUME NEW L, Core(L), HarrisOptOK(L), NEW t \in Threads, HarrisStarts(t)
  PROVE  \E L2 : Good(L2) /\ HarrisOptOK(L2)'
<1>1. Before(t) /\ call[t].op \in {"insert", "remove"} /\ node[Curr(t)].key < Key(t)
  BY HarrisHere DEF HarrisOptThread, Walking, HarrisStarts
<1> DEFINE l == [loc[t] EXCEPT !.pred = Curr(t), !.curr = node[Curr(t)].next]
<1>2. loc[t] \in Locals /\ loc' = [loc EXCEPT ![t] = l] /\ UNCHANGED heap /\ UNCHANGED hist
  BY LocalTypes DEF HarrisStarts
<1>3. l.curr = node[Curr(t)].next /\ l.pred = Curr(t) /\ l.next = loc[t].next /\ l.lnext = loc[t].lnext
  BY <1>2 DEF Locals
<1>4. Stands(L, t, l) /\ node[Curr(t)].next \in used /\ Curr(t) \in used
  <2> HIDE DEF l
  <2>1. QED BY <1>1, <1>3, StandsNext
<1>5. l \in Locals
  BY <1>2, <1>4, LocalTypes
<1> HIDE DEF l
<1>6. PICK q : q = "mark" /\ q # "idle" /\ Goes(t, q, l)
  BY <1>2 DEF Goes, HarrisStarts
<1>7. /\ Does(L, L, {}, t) /\ pc'[t] = q /\ call'[t] = call[t] /\ Before(t)' /\ Alike /\ Pred(t)' = l.pred
  BY <1>1, <1>2, <1>4, <1>5, <1>6, LocalStep
<1>8. Pred(t)' # NULL
  BY <1>3, <1>4, <1>7, Here
<1>9. HarrisOptThread(t)'
  BY <1>1, <1>6, <1>7, <1>8 DEF HarrisOptThread, NULL
<1>10. QED BY <1>7, <1>9, HarrisLocal

\* Is right_node marked?
HarrisSees(t) ==
  /\ pc[t] = "mark"
  /\ \/ node[Curr(t)].marked /\ pc' = [pc EXCEPT ![t] = "delete"] /\ UNCHANGED loc
     \/ /\ ~node[Curr(t)].marked /\ node[Curr(t)].key >= Key(t)
        /\ pc' = [pc EXCEPT ![t] = "found"] /\ UNCHANGED loc
     \/ /\ node[Curr(t)].key < Key(t)
        /\ pc' = [pc EXCEPT ![t] = "next"] /\ loc' = [loc EXCEPT ![t].pred = Curr(t)]
  /\ UNCHANGED heap /\ UNCHANGED hist

LEMMA HarrisSee ==
  ASSUME NEW L, Core(L), HarrisOptOK(L), NEW t \in Threads, HarrisSees(t)
  PROVE  \E L2 : Good(L2) /\ HarrisOptOK(L2)'
<1>1. Before(t) /\ call[t].op \in {"insert", "remove"} /\ Pred(t) # NULL
  BY HarrisHere DEF HarrisOptThread, HarrisSees
<1>2. UNCHANGED heap /\ UNCHANGED hist
  BY DEF HarrisSees
<1>3. CASE node[Curr(t)].marked /\ pc' = [pc EXCEPT ![t] = "delete"] /\ UNCHANGED loc
  <2>1. PICK q : q = "delete" /\ q # "idle" /\ pc' = [pc EXCEPT ![t] = q]
    BY <1>3
  <2>2. /\ Does(L, L, {}, t) /\ pc'[t] = q /\ call'[t] = call[t] /\ Before(t)' /\ Alike
        /\ Pred(t)' = Pred(t) /\ Curr(t)' = Curr(t) /\ node' = node
    BY <1>1, <1>2, <1>3, <2>1, StayStep
  <2>3. HarrisOptThread(t)'
    BY <1>1, <1>3, <2>1, <2>2 DEF HarrisOptThread, NULL
  <2>4. QED BY <2>2, <2>3, HarrisLocal
<1>4. CASE /\ ~node[Curr(t)].marked /\ node[Curr(t)].key >= Key(t)
           /\ pc' = [pc EXCEPT ![t] = "found"] /\ UNCHANGED loc
  <2>1. PICK q : q = "found" /\ q # "idle" /\ pc' = [pc EXCEPT ![t] = q]
    BY <1>4
  <2>2. /\ Does(L, L, {}, t) /\ pc'[t] = q /\ call'[t] = call[t] /\ Before(t)' /\ Alike
        /\ Pred(t)' = Pred(t) /\ Curr(t)' = Curr(t) /\ node' = node /\ Key(t)' = Key(t) /\ seen'[t] = seen[t]
    BY <1>1, <1>2, <1>4, <2>1, StayStep
  <2>3. node[Curr(t)].key = Key(t) => node[Curr(t)].val \in seen[t]
    <3>1. SUFFICES ASSUME node[Curr(t)].key = Key(t) PROVE node[Curr(t)].val \in seen[t]
      OBVIOUS
    <3>2. Result(L, Curr(t), Key(t)) \in seen[t] /\ Key(t) \in Nat
      BY <1>1, Here, CallKey, KeyBounds DEF ThreadOK, Before
    <3>3. Result(L, Curr(t), Key(t)) = node[Curr(t)].val
      BY <1>4, <3>1, <3>2 DEF Result, End, ValOf
    <3>4. QED BY <3>2, <3>3
  <2>4. HarrisOptThread(t)'
    BY <1>1, <1>4, <2>1, <2>2, <2>3 DEF HarrisOptThread, NULL, Reached
  <2>5. QED BY <2>2, <2>4, HarrisLocal
<1>5. CASE node[Curr(t)].key < Key(t) /\ pc' = [pc EXCEPT ![t] = "next"] /\ loc' = [loc EXCEPT ![t].pred = Curr(t)]
  <2>1. Curr(t) \in used /\ Curr(t) \in Int /\ Curr(t) # NULL
    BY <1>1, Here, LocalTypes DEF ThreadOK, Mine
  <2>2. PICK l \in Locals : /\ l = [loc[t] EXCEPT !.pred = Curr(t)] /\ l.curr = Curr(t) /\ l.pred = Curr(t)
                            /\ l.next = loc[t].next /\ l.lnext = loc[t].lnext
    BY <2>1, LocalTypes, PredTo DEF Curr
  <2>3. PICK q : q = "next" /\ q # "idle" /\ Goes(t, q, l)
    BY <1>5, <2>2 DEF Goes
  <2>4. Stands(L, t, l)
    BY <1>1, <1>5, <2>2, StandsHere
  <2>5. /\ Does(L, L, {}, t) /\ pc'[t] = q /\ call'[t] = call[t] /\ Before(t)' /\ Alike
        /\ Pred(t)' = l.pred /\ Curr(t)' = l.curr /\ Key(t)' = Key(t) /\ node' = node
    BY <1>1, <1>2, <2>3, <2>4, LocalStep
  <2>6. HarrisOptThread(t)'
    BY <1>1, <1>5, <2>1, <2>2, <2>3, <2>5 DEF HarrisOptThread, NULL, Walking
  <2>7. QED BY <2>5, <2>6, HarrisLocal
<1>6. QED BY <1>3, <1>4, <1>5 DEF HarrisSees

\* right_node = the unmarked right_node->next
HarrisAdvances(t) ==
  /\ pc[t] = "next" /\ pc' = [pc EXCEPT ![t] = "mark"]
  /\ loc' = [loc EXCEPT ![t].curr = node[Curr(t)].next]
  /\ UNCHANGED heap /\ UNCHANGED hist

LEMMA HarrisAdvance ==
  ASSUME NEW L, Core(L), HarrisOptOK(L), NEW t \in Threads, HarrisAdvances(t)
  PROVE  \E L2 : Good(L2) /\ HarrisOptOK(L2)'
<1>1. /\ Before(t) /\ call[t].op \in {"insert", "remove"} /\ Pred(t) # NULL
      /\ node[Curr(t)].key < Key(t) \/ node[Curr(t)].marked
  BY HarrisHere DEF HarrisOptThread, HarrisAdvances, Walking
<1>2. node[Curr(t)].next \in used /\ node[Curr(t)].next \in Int
  <2>1. PICK l : l = [curr |-> node[Curr(t)].next, pred |-> NULL, next |-> loc[t].next, lnext |-> loc[t].lnext]
    OBVIOUS
  <2>2. l.curr = node[Curr(t)].next /\ l.pred = NULL /\ l.next = loc[t].next /\ l.lnext = loc[t].lnext
    BY <2>1
  <2>3. QED BY <1>1, <2>2, StandsPast, LocalTypes
<1>3. PICK l \in Locals : /\ l = [loc[t] EXCEPT !.curr = node[Curr(t)].next] /\ l.curr = node[Curr(t)].next
                          /\ l.pred = Pred(t) /\ l.next = loc[t].next /\ l.lnext = loc[t].lnext
  BY <1>2, LocalTypes, CurrTo DEF Pred
<1>4. PICK q : q = "mark" /\ q # "idle" /\ Goes(t, q, l)
  BY <1>3 DEF Goes, HarrisAdvances
<1>5. Stands(L, t, l)
  BY <1>1, <1>3, StandsPast
<1>6. UNCHANGED heap /\ UNCHANGED hist
  BY DEF HarrisAdvances
<1>7. /\ Does(L, L, {}, t) /\ pc'[t] = q /\ call'[t] = call[t] /\ Before(t)' /\ Alike /\ Pred(t)' = l.pred
  BY <1>1, <1>4, <1>5, <1>6, LocalStep
<1>8. HarrisOptThread(t)'
  BY <1>1, <1>3, <1>4, <1>7 DEF HarrisOptThread, NULL
<1>9. QED BY <1>7, <1>8, HarrisLocal

\* What a thread has found at its key.
LEMMA HarrisFound ==
  ASSUME NEW L, Core(L), HarrisOptOK(L), NEW t \in Threads, pc[t] \in {"found", "r_mark"}
  PROVE  /\ Before(t) /\ Pred(t) \in used /\ Pred(t) # NULL /\ Curr(t) \in used /\ Key(t) \in Keys
         /\ node[Curr(t)].key \in Nat /\ Key(t) \in Nat /\ node[Curr(t)].key >= Key(t)
         /\ node[Curr(t)].key = Key(t) =>
              /\ Curr(t) \notin Sentinels /\ node[Curr(t)].val \in Vals \ {0}
              /\ node[Curr(t)].val \in seen[t]
<1>1. /\ HarrisOptThread(t) /\ HeapOK /\ ChainOK(L) /\ ThreadOK(L, t) /\ Key(t) \in Keys
  BY HarrisHere, Here
<1>2. Before(t) /\ Pred(t) # NULL /\ Reached(t) /\ (node[Curr(t)].key = Key(t) => node[Curr(t)].val \in seen[t])
  BY <1>1 DEF HarrisOptThread
<1>3. Pred(t) \in used /\ Curr(t) \in used
  BY <1>1, <1>2 DEF ThreadOK, Mine
<1>4. node[Curr(t)].key \in Nat /\ Key(t) \in Nat
  BY <1>1, <1>3, ChainFacts, KeyBounds DEF ChainProps
<1>5. node[Curr(t)].key = Key(t) => Curr(t) \notin Sentinels
  BY <1>1, <1>3, HeapFacts, KeyBounds DEF HeapProps
<1>6. Curr(t) \notin Sentinels => node[Curr(t)].val \in Vals \ {0}
  BY <1>1, <1>3, HeapFacts, KeysAndValsAssumption DEF HeapProps
<1>7. QED BY <1>1, <1>2, <1>3, <1>4, <1>5, <1>6 DEF Reached

\* An insert finds the key, or a remove does not.
LEMMA HarrisFail ==
  ASSUME NEW L, Core(L), HarrisOptOK(L), NEW t \in Threads, pc[t] = "found",
         \/ call[t].op = "insert" /\ KeyOf(t) = Key(t)
         \/ call[t].op = "remove" /\ KeyOf(t) # Key(t),
         Answer(t, 0)
  PROVE  \E L2 : Good(L2) /\ HarrisOptOK(L2)'
<1>1. /\ Before(t) /\ node[Curr(t)].key >= Key(t)
      /\ node[Curr(t)].key = Key(t) => node[Curr(t)].val # 0 /\ node[Curr(t)].val \in seen[t]
  BY HarrisFound
<1>2. Rightful(t, 0)
  <2>1. CASE call[t].op = "insert" /\ KeyOf(t) = Key(t)
    BY <1>1, <2>1 DEF KeyOf, Rightful, Abs!Justified, Abs!None
  <2>2. CASE call[t].op = "remove" /\ KeyOf(t) # Key(t)
    BY <1>1, <2>2, Answers DEF KeyOf
  <2>3. QED BY <2>1, <2>2
<1>3. QED BY <1>2, HarrisAnswer

\* A CAS that finds another word: the call starts over.
LEMMA HarrisRestart ==
  ASSUME NEW L, Core(L), HarrisOptOK(L), NEW t \in Threads, pc[t] \in {"found", "r_mark"},
         Restart(t), UNCHANGED heap, UNCHANGED hist
  PROVE  \E L2 : Good(L2) /\ HarrisOptOK(L2)'
<1>1. Before(t) /\ call[t].op \in {"insert", "remove"} /\ HeapOK
  BY HarrisHere, Here DEF HarrisOptThread
<1>2. Alike
  BY DEF Alike, heap
<1>3. /\ Does(L, L, {}, t) /\ call'[t] = call[t] /\ Before(t)'
      /\ pc'[t] = call[t].op /\ node[Curr(t)'].key = 0 /\ 0 < Key(t)
  BY <1>1, <1>2, AlikeLocks, DoRestart
<1>4. Walking(t)'
  BY <1>2, <1>3 DEF Walking, Key, Alike
<1>5. HarrisOptThread(t)'
  BY <1>1, <1>3, <1>4 DEF HarrisOptThread
<1>6. QED BY <1>2, <1>3, <1>5, HarrisLocal

\* CAS(&left_node->next, right_node, node_to_add).
LEMMA HarrisLink ==
  ASSUME NEW L, Core(L), HarrisOptOK(L), NEW t \in Threads, pc[t] = "found", call[t].op = "insert",
         KeyOf(t) # Key(t), node[Pred(t)].next = Curr(t), ~node[Pred(t)].marked,
         Publish(t, Pred(t), ll_simple(Key(t), call[t].val, Curr(t))),
         pc' = [pc EXCEPT ![t] = "i_return"], UNCHANGED loc
  PROVE  \E L2 : Good(L2) /\ HarrisOptOK(L2)'
<1>1. /\ HarrisMarks(L) /\ HeapOK /\ HistTypeOK /\ InCall(t) /\ used \subseteq Nodes
      /\ Before(t) /\ Pred(t) \in used /\ Pred(t) # NULL /\ Curr(t) \in used /\ Key(t) \in Keys
      /\ node[Curr(t)].key > Key(t)
  BY HarrisHere, HarrisFound, Here DEF KeyOf
<1>2. Adjacent(L, t)
  BY <1>1 DEF Adjacent, HarrisMarks
<1> DEFINE r == ll_simple(Key(t), call[t].val, Curr(t))
<1>3. NewNode(t, Pred(t), r)
  <2>1. Curr(t) \in Nodes /\ call[t].val \in Vals
    BY <1>1, CallKey DEF Calls, Abs!Calls
  <2>2. QED BY <1>1, <2>1 DEF NewNode, ll_simple, NodeSet
<1>4. Publish(t, Pred(t), r) /\ ~r.marked
  BY DEF ll_simple
<1> HIDE DEF r
<1>5. PICK q : q = "i_return" /\ Onward(t, q)
  BY DEF Onward
<1>6. PICK L2 : \E new \in Nodes \ used :
           /\ Does(L, L2, {}, t) /\ After(t)' /\ On(L2, new)' /\ Home'[new] = addr(Key(t))
           /\ Publishes(t, Pred(t), r, new) /\ pc'[t] = q /\ call'[t] = call[t]
  BY <1>1, <1>2, <1>3, <1>4, <1>5, DoLink
<1>7. PICK new \in Nodes \ used :
           /\ Does(L, L2, {}, t) /\ After(t)' /\ On(L2, new)' /\ Home'[new] = addr(Key(t))
           /\ Publishes(t, Pred(t), r, new) /\ pc'[t] = q /\ call'[t] = call[t]
  BY <1>6
<1>8. PICK gone : gone = {} /\ Does(L, L2, gone, t) /\ Kept(L, L2, gone)
  BY <1>7 DEF Does
<1>9. /\ \A n \in used : node'[n].marked = node[n].marked
      /\ used' = used \cup {new}
  BY <1>1, <1>7 DEF Publishes
<1>10. HarrisMarks(L2)'
  <2>1. \A n \in used : Live(L2, n)' <=> Live(L, n)
    BY <1>8, LiveKept
  <2>2. Live(L2, new)'
    BY <1>7 DEF Live
  <2>3. ASSUME NEW n \in used', ~node'[n].marked PROVE Live(L2, n)'
    <3>1. CASE n = new
      BY <2>2, <3>1 DEF Live, On
    <3>2. CASE n \in used
      BY <1>1, <1>9, <2>1, <2>3, <3>2 DEF HarrisMarks
    <3>3. QED BY <1>9, <3>1, <3>2
  <2>4. QED BY <2>3 DEF HarrisMarks
<1>11. MarksStay
  BY <1>9 DEF MarksStay
<1>12. HarrisOptThread(t)'
  BY <1>5, <1>7 DEF HarrisOptThread
<1>13. QED BY <1>8, <1>10, <1>11, <1>12, HarrisStep

\* The insert returns.
LEMMA HarrisReturn ==
  ASSUME NEW L, Core(L), HarrisOptOK(L), NEW t \in Threads, pc[t] = "i_return", Answer(t, 1)
  PROVE  \E L2 : Good(L2) /\ HarrisOptOK(L2)'
<1>1. After(t) /\ call[t].op = "insert"
  BY HarrisHere DEF HarrisOptThread
<1>2. PICK r \in Vals \cup {0, 1} : r = 1
  OBVIOUS
<1>3. QED BY <1>1, <1>2, AnswersAfter, HarrisAnswer

\* unmarked_ref: the next pointer of right_node, without its mark.
HarrisReadsNext(t) ==
  /\ pc[t] = "found" /\ pc' = [pc EXCEPT ![t] = "r_mark"] /\ call[t].op = "remove" /\ KeyOf(t) = Key(t)
  /\ loc' = [loc EXCEPT ![t].next = node[Curr(t)].next]
  /\ UNCHANGED heap /\ UNCHANGED hist

LEMMA HarrisReadNext ==
  ASSUME NEW L, Core(L), HarrisOptOK(L), NEW t \in Threads, HarrisReadsNext(t)
  PROVE  \E L2 : Good(L2) /\ HarrisOptOK(L2)'
<1>1. /\ Before(t) /\ Pred(t) # NULL /\ Curr(t) \in used /\ call[t].op = "remove" /\ node[Curr(t)].key = Key(t)
      /\ node[Curr(t)].key >= Key(t) /\ node[Curr(t)].val \in seen[t]
  BY HarrisFound DEF HarrisReadsNext, KeyOf
<1>2. node[Curr(t)].next \in used \cup {NULL}
  BY <1>1, Here, ChainFacts DEF ChainProps
<1>3. node[Curr(t)].next \in Int
  BY <1>2, LocalTypes DEF NULL
<1>4. PICK l \in Locals : /\ l = [loc[t] EXCEPT !.next = node[Curr(t)].next] /\ l.next = node[Curr(t)].next
                          /\ l.pred = Pred(t) /\ l.curr = Curr(t) /\ l.lnext = loc[t].lnext
  BY <1>3, LocalTypes, NextTo DEF Pred, Curr
<1>5. PICK q : q = "r_mark" /\ q # "idle" /\ Goes(t, q, l)
  BY <1>4 DEF Goes, HarrisReadsNext
<1>6. Stands(L, t, l)
  BY <1>1, <1>2, <1>4, StandsSame
<1>7. UNCHANGED heap /\ UNCHANGED hist
  BY DEF HarrisReadsNext
<1>8. /\ Does(L, L, {}, t) /\ pc'[t] = q /\ call'[t] = call[t] /\ Before(t)' /\ Alike /\ seen'[t] = seen[t]
      /\ Pred(t)' = l.pred /\ Curr(t)' = l.curr /\ Key(t)' = Key(t) /\ node' = node
  BY <1>1, <1>5, <1>6, <1>7, LocalStep
<1>9. HarrisOptThread(t)'
  BY <1>1, <1>4, <1>5, <1>8 DEF HarrisOptThread, NULL, Reached
<1>10. QED BY <1>8, <1>9, HarrisLocal

\* CAS of the mark into right_node->next.
LEMMA HarrisMark ==
  ASSUME NEW L, Core(L), HarrisOptOK(L), NEW t \in Threads, pc[t] = "r_mark", ~node[Curr(t)].marked,
         SetNodes([node EXCEPT ![Curr(t)].marked = TRUE]),
         TakesEffect(t, None, node[Curr(t)].val),
         pc' = [pc EXCEPT ![t] = "r_delete"], UNCHANGED loc
  PROVE  \E L2 : Good(L2) /\ HarrisOptOK(L2)'
<1>1. /\ Before(t) /\ call[t].op = "remove" /\ node[Curr(t)].key = Key(t) /\ Curr(t) \in used \ Sentinels
      /\ HarrisMarks(L) /\ Pred(t) # NULL /\ used \subseteq Nodes
  BY HarrisHere, HarrisFound, Here DEF HarrisOptThread
<1>2. On(L, Curr(t))
  BY <1>1 DEF HarrisMarks, Live
<1>3. PICK q : q = "r_delete" /\ Onward(t, q)
  BY DEF Onward
<1>4. Does(L, L, {}, t) /\ After(t)' /\ Marked(Curr(t)) /\ pc'[t] = q /\ call'[t] = call[t]
  BY <1>1, <1>2, <1>3, DoMark
<1>5. PICK gone : gone = {} /\ Does(L, L, gone, t) /\ Kept(L, L, gone)
  BY <1>4 DEF Does
<1>6. MarksStay /\ used' = used
  BY <1>1, <1>4 DEF Marked, MarksStay
<1>7. HarrisMarks(L)'
  BY <1>1, <1>5, <1>6, HarrisMarksKept
<1>8. HarrisOptThread(t)'
  <2>1. Pred(t)' = Pred(t) /\ Curr(t)' = Curr(t)
    BY DEF Pred, Curr
  <2>2. node'[Curr(t)].marked
    BY <1>1, <1>4 DEF Marked
  <2>3. QED BY <1>1, <1>3, <1>4, <2>1, <2>2 DEF HarrisOptThread, NULL
<1>9. QED BY <1>5, <1>6, <1>7, <1>8, HarrisStep

\* physical_delete_right: the CAS unlinks right_node and hands it to the allocator.
LEMMA HarrisUnlinks ==
  ASSUME NEW L, Core(L), HarrisMarks(L), NEW t \in Threads, Pred(t) \in used, Curr(t) \in used,
         node[Pred(t)].next = Curr(t), ~node[Pred(t)].marked, node[Curr(t)].marked,
         SetNodesAndRelease([node EXCEPT ![Pred(t)].next = node[Curr(t)].next], {Curr(t)})
  PROVE  Adjacent(L, t) /\ Unlinks(Pred(t), Curr(t)) /\ used' = used
<1>1. /\ HeapOK /\ ChainOK(L) /\ FreedOK(L) /\ used \subseteq Nodes /\ freed \in [Nodes -> {0, 1}] /\ NULL \notin used
  BY Here
<1>2. PICK p \in used, m \in used : /\ p = Pred(t) /\ m = Curr(t) /\ Live(L, p) /\ node[p].next = m
                                    /\ node[m].marked /\ p # NULL
  BY <1>1 DEF HarrisMarks
<1>3. m \notin Sentinels
  BY <1>1, <1>2, HeapFacts DEF HeapProps
<1>4. On(L, m) /\ freed[m] = 0
  <2>1. Live(L, m)
    BY <1>1, <1>2, NextIsLive
  <2>2. On(L, m)
    BY <1>3, <2>1 DEF Live
  <2>3. QED BY <1>1, <1>2, <2>2 DEF FreedOK
<1>5. freed' = [n \in Nodes |-> IF n \in {m} THEN freed[n] + 1 ELSE freed[n]]
  BY <1>2 DEF SetNodesAndRelease
<1>6. freed' \in [Nodes -> {0, 1}] /\ \A n \in Nodes : freed'[n] = 1 => freed[n] = 1 \/ n = m
  BY <1>1, <1>4, <1>5
<1>7. Unlinks(Pred(t), Curr(t)) /\ used' = used
  BY <1>2, <1>6 DEF SetNodesAndRelease, Unlinks
<1>8. QED BY <1>2, <1>7 DEF Adjacent

\* The walk unlinks a marked node, or does not succeed, and goes on.
LEMMA HarrisCleanup ==
  ASSUME NEW L, Core(L), HarrisOptOK(L), NEW t \in Threads, Goto(t, "delete", "next"), UNCHANGED loc, UNCHANGED hist,
         \/ /\ node[Pred(t)].next = Curr(t) /\ ~node[Pred(t)].marked
            /\ SetNodesAndRelease([node EXCEPT ![Pred(t)].next = node[Curr(t)].next], {Curr(t)})
         \/ UNCHANGED heap
  PROVE  \E L2 : Good(L2) /\ HarrisOptOK(L2)'
<1>1. /\ Before(t) /\ InCall(t) /\ Pred(t) # NULL /\ node[Curr(t)].marked /\ call[t].op \in {"insert", "remove"}
      /\ HarrisMarks(L)
  BY HarrisHere DEF HarrisOptThread, Goto, Before
<1>2. Pred(t) \in used /\ Curr(t) \in used /\ used \subseteq Nodes /\ LocalsOK
  BY <1>1, Here DEF ThreadOK, Mine
<1>3. PICK q : q = "next" /\ q # "idle" /\ pc' = [pc EXCEPT ![t] = q]
  BY DEF Goto
<1>4. CASE UNCHANGED heap
  <2>1. /\ Does(L, L, {}, t) /\ pc'[t] = q /\ call'[t] = call[t] /\ Before(t)' /\ Alike
        /\ Pred(t)' = Pred(t) /\ Curr(t)' = Curr(t) /\ node' = node
    BY <1>1, <1>3, <1>4, StayStep
  <2>2. HarrisOptThread(t)'
    BY <1>1, <1>3, <2>1 DEF HarrisOptThread, NULL
  <2>3. QED BY <2>1, <2>2, HarrisLocal
<1>5. CASE /\ node[Pred(t)].next = Curr(t) /\ ~node[Pred(t)].marked
           /\ SetNodesAndRelease([node EXCEPT ![Pred(t)].next = node[Curr(t)].next], {Curr(t)})
  <2>1. Adjacent(L, t) /\ Unlinks(Pred(t), Curr(t)) /\ used' = used
    BY <1>1, <1>2, <1>5, HarrisUnlinks
  <2>2. /\ UnlinkedNodes(Pred(t), Curr(t))
        /\ \E L2 : Does(L, L2, {Curr(t)}, t)
    BY <1>1, <1>2, <1>3, <2>1, DoUnlinkMarked
  <2>3. PICK L2, gone : gone = {Curr(t)} /\ Does(L, L2, gone, t) /\ Kept(L, L2, gone)
    BY <2>2 DEF Does
  <2>4. MarksStay
    BY <1>2, <2>2 DEF UnlinkedNodes, MarksStay
  <2>5. HarrisMarks(L2)'
    BY <1>1, <2>1, <2>3, <2>4, HarrisMarksKept
  <2>6. HarrisOptThread(t)'
    <3>1. pc'[t] = q /\ Pred(t)' = Pred(t) /\ Curr(t)' = Curr(t) /\ call' = call /\ lin' = lin
      BY <1>2, <1>3 DEF LocalsOK, Pred, Curr, hist
    <3>2. Before(t)' /\ node'[Curr(t)].marked
      BY <1>1, <1>2, <2>4, <3>1 DEF Before, InCall, MarksStay, NoCall, Abs!NoCall, Abs!Pending
    <3>3. QED BY <1>1, <1>3, <3>1, <3>2 DEF HarrisOptThread, NULL
  <2>7. QED BY <2>3, <2>4, <2>5, <2>6, HarrisStep
<1>6. QED BY <1>4, <1>5

\* The remove unlinks its node, or leaves it to others, and returns.
LEMMA HarrisRemoved ==
  ASSUME NEW L, Core(L), HarrisOptOK(L), NEW t \in Threads, pc[t] = "r_delete", Return(t, node[Curr(t)].val),
         \/ /\ node[Pred(t)].next = Curr(t) /\ ~node[Pred(t)].marked
            /\ SetNodesAndRelease([node EXCEPT ![Pred(t)].next = node[Curr(t)].next], {Curr(t)})
         \/ UNCHANGED heap
  PROVE  \E L2 : Good(L2) /\ HarrisOptOK(L2)'
<1>1. /\ After(t) /\ call[t].op = "remove" /\ Pred(t) # NULL /\ node[Curr(t)].marked /\ HarrisMarks(L)
  BY HarrisHere DEF HarrisOptThread
<1>2. /\ InCall(t) /\ Pred(t) \in used /\ Curr(t) \in used /\ used \subseteq Nodes /\ LocalsOK
  BY <1>1, Here, AnswersAfter DEF ThreadOK
<1>3. PICK r \in Vals \cup {0, 1} : Rightful(t, r) /\ Return(t, r)
  BY <1>1, AnswersAfter
<1>4. CASE UNCHANGED heap
  BY <1>3, <1>4, HarrisAnswer DEF Answer
<1>5. CASE /\ node[Pred(t)].next = Curr(t) /\ ~node[Pred(t)].marked
           /\ SetNodesAndRelease([node EXCEPT ![Pred(t)].next = node[Curr(t)].next], {Curr(t)})
  <2>1. Adjacent(L, t) /\ Unlinks(Pred(t), Curr(t)) /\ used' = used
    BY <1>1, <1>2, <1>5, HarrisUnlinks
  <2>2. /\ UnlinkedNodes(Pred(t), Curr(t))
        /\ \E L2 : Does(L, L2, {Curr(t)}, t)
    BY <1>1, <1>2, <1>3, <2>1, DoUnlinkMarked
  <2>3. PICK L2, gone : gone = {Curr(t)} /\ Does(L, L2, gone, t) /\ Kept(L, L2, gone)
    BY <2>2 DEF Does
  <2>4. MarksStay
    BY <1>2, <2>2 DEF UnlinkedNodes, MarksStay
  <2>5. HarrisMarks(L2)'
    BY <1>1, <2>1, <2>3, <2>4, HarrisMarksKept
  <2>6. HarrisOptThread(t)'
    <3>1. pc'[t] = "idle"
      BY <1>2, <1>3 DEF LocalsOK, Return
    <3>2. QED BY <3>1 DEF HarrisOptThread
  <2>7. QED BY <2>3, <2>4, <2>5, <2>6, HarrisStep
<1>6. QED BY <1>4, <1>5

LEMMA HarrisStutter ==
  ASSUME NEW L, Core(L), HarrisOptOK(L), UNCHANGED vars
  PROVE  Good(L) /\ HarrisOptOK(L)'
<1>1. /\ Core(L)' /\ Kept(L, L, {}) /\ Alike /\ Lin /\ Frozen /\ \A u \in Threads : Still(u)
  BY CoreStutter
<1>2. PICK gone : gone = {} /\ Kept(L, L, gone)
  BY <1>1
<1>3. MarksStay /\ used' = used
  BY <1>1 DEF MarksStay, Alike
<1>4. \A u \in Threads : HarrisOptThread(u)'
  BY <1>1, <1>2, <1>3, HarrisHere, HarrisFrame
<1>5. HarrisMarks(L)'
  BY <1>2, <1>3, HarrisMarksKept DEF HarrisOptOK
<1>6. QED BY <1>1, <1>4, <1>5 DEF Good, HarrisOptOK, Alike

-----------------------------------------------------------------------------
(* Lock coupling.                                                          *)

CouplingOwns(t) == Owns(t, CouplingPred, CouplingCurr)

LEMMA CouplingHere ==
  ASSUME NEW L, Core(L), CouplingOK(L), NEW t \in Threads
  PROVE  /\ CouplingThread(L, t) /\ TasLocks /\ \A n \in Nodes : ~node[n].marked
         /\ CouplingOwns(t) \subseteq used /\ CouplingOwns(t) \subseteq Nodes
         /\ pc[t] \in CouplingPred => Pred(t) \in used
         /\ pc[t] \in CouplingCurr => Curr(t) \in used
         /\ \A u \in Threads \ {t} : CouplingOwns(u) \cap CouplingOwns(t) = {}
<1>1. CouplingThread(L, t) /\ TasLocks /\ \A n \in Nodes : ~node[n].marked
  BY DEF CouplingOK, Unmarked
<1>2. /\ pc[t] \in CouplingPred => Pred(t) \in used
      /\ pc[t] \in CouplingCurr => Curr(t) \in used
  BY <1>1, Here DEF CouplingThread, ThreadOK
<1>3. CouplingOwns(t) \subseteq used
  BY <1>2 DEF CouplingOwns, Owns
<1>4. QED BY <1>1, <1>2, <1>3, Here DEF CouplingOK, Exclusive, CouplingOwns

LEMMA CouplingFrame ==
  ASSUME NEW L, Core(L), CouplingOK(L), NEW L2, NEW gone, Kept(L, L2, gone), NEW u \in Threads, Still(u),
         \A n \in CouplingOwns(u) : Untouched(n, gone)
  PROVE  CouplingThread(L2, u)'
<1>1. /\ pc'[u] = pc[u] /\ Pred(u)' = Pred(u) /\ Curr(u)' = Curr(u) /\ Key(u)' = Key(u)
      /\ call'[u] = call[u] /\ addr(Key(u))' = addr(Key(u))
      /\ Before(u)' <=> Before(u)
      /\ After(u)' <=> After(u)
  BY StillSame DEF Kept
<1>2. Before(u) => /\ Walking(u)' <=> Walking(u)
                   /\ Reached(u)' <=> Reached(u)
  BY StandsStill
<1>3. CouplingThread(L, u)
  BY CouplingHere
<1>4. CouplingOwns(u)' = CouplingOwns(u)
  BY <1>1 DEF CouplingOwns, Owns
<1>5. \A n \in CouplingOwns(u)' : node'[n].lock = TAS_LCKD
  BY <1>3, <1>4 DEF CouplingThread, CouplingOwns, Untouched
<1>6. /\ pc[u] \in CouplingPred => Untouched(Pred(u), gone)
      /\ pc[u] \in CouplingCurr => Untouched(Curr(u), gone)
  BY DEF CouplingOwns, Owns
<1>7. \A n \in used : n \notin gone => (Live(L2, n)' <=> Live(L, n))
  BY LiveKept
<1>8. pc[u] \in CouplingPred => Live(L2, Pred(u))'
  <2>1. SUFFICES ASSUME pc[u] \in CouplingPred PROVE Live(L2, Pred(u))'
    OBVIOUS
  <2>2. PICK p \in used : p = Pred(u) /\ Live(L, p) /\ p \notin gone
    BY <1>3, <1>6, <2>1, CouplingHere DEF CouplingThread, Untouched
  <2>3. Live(L2, p)' /\ Pred(u)' = p
    BY <1>1, <1>7, <2>2
  <2>4. QED BY <2>3 DEF Live, On
<1>9. pc[u] \in CouplingCurr \ {"delete"} => Live(L2, Curr(u))'
  <2>1. SUFFICES ASSUME pc[u] \in CouplingCurr \ {"delete"} PROVE Live(L2, Curr(u))'
    OBVIOUS
  <2>2. PICK c \in used : c = Curr(u) /\ Live(L, c) /\ c \notin gone
    BY <1>3, <1>6, <2>1, CouplingHere DEF CouplingThread, Untouched
  <2>3. Live(L2, c)' /\ Curr(u)' = c
    BY <1>1, <1>7, <2>2
  <2>4. QED BY <2>3 DEF Live, On
<1>10. pc[u] \in {"advance", "found"} => Adjacent(L2, u)'
  BY <1>3, <1>6, AdjacentStill DEF CouplingThread, Untouched, CouplingPred
<1>11. pc[u] = "delete" => Unlinked(L2, u)'
  BY <1>3, <1>6, UnlinkedStill DEF CouplingThread, Untouched, CouplingCurr
<1>12. pc'[u] \in Ops => Curr(u)' = min(addr(Key(u)))'
  BY <1>1, <1>3 DEF CouplingThread, min
<1>13. QED
  BY <1>1, <1>2, <1>3, <1>5, <1>8, <1>9, <1>10, <1>11, <1>12 DEF CouplingThread, CouplingOwns, NULL

\* All but what is to be shown for the thread that takes the step.
LEMMA CouplingStep ==
  ASSUME NEW L, Core(L), CouplingOK(L), NEW t \in Threads, NEW L2, NEW gone, Does(L, L2, gone, t),
         NEW T, Spares(t, T, gone, CouplingPred, CouplingCurr), CouplingOwns(t)' \subseteq CouplingOwns(t) \cup T,
         \A n \in Nodes : ~node'[n].marked, TasLocks', CouplingThread(L2, t)'
  PROVE  Good(L2) /\ CouplingOK(L2)'
<1>1. Kept(L, L2, gone) /\ set' = set /\ Others(t) /\ Nodes' = Nodes
  BY SetSame DEF Does, Kept
<1>2. ASSUME NEW u \in Threads \ {t} PROVE CouplingThread(L2, u)'
  <2>1. CouplingOwns(u) \subseteq used
    BY CouplingHere
  <2>2. \A n \in CouplingOwns(u) : Untouched(n, gone)
    BY <2>1 DEF Spares, CouplingOwns
  <2>3. Still(u)
    BY <1>1 DEF Others
  <2>4. QED BY <1>1, <2>2, <2>3, CouplingFrame
<1>3. Exclusive(CouplingPred, CouplingCurr)'
  BY <1>1, ExclusiveKept DEF CouplingOK, Spares, CouplingOwns
<1>4. QED BY <1>1, <1>2, <1>3 DEF Good, Does, CouplingOK, Unmarked

LEMMA CouplingInvoke ==
  ASSUME NEW L, Core(L), CouplingOK(L), NEW t \in Threads, NEW c \in Calls, Invoke(t, c)
  PROVE  \E L2 : Good(L2) /\ CouplingOK(L2)'
<1>1. /\ Core(L)' /\ Kept(L, L, {}) /\ Others(t) /\ Before(t)' /\ pc[t] = "idle"
      /\ call'[t] = c /\ Curr(t)' = min(addr(c.key)) /\ pc'[t] = c.op /\ c.op \in Ops
      /\ c.key \in Keys
  BY CoreInvoke
<1>2. Alike
  BY DEF Invoke, heap, Alike
<1>3. Lin
  BY DEF Invoke, Lin
<1>4. PICK gone, T : gone = {} /\ T = {} /\ Does(L, L, gone, t)
  BY <1>1, <1>2, <1>3 DEF Does, Frozen, Alike
<1>5. Spares(t, T, gone, CouplingPred, CouplingCurr)
  BY <1>2, <1>4 DEF Spares, Untouched, Alike
<1>6. Key(t)' = c.key /\ addr(c.key)' = addr(c.key)
  BY <1>1, <1>2, SetSame DEF Key, Alike
<1>7. Pred(t)' = NULL
  <2>1. loc' = [loc EXCEPT ![t] = AtHead(c.key)] /\ t \in DOMAIN loc
    BY Here DEF Invoke, LocalsOK
  <2>2. AtHead(c.key).pred = NULL
    BY DEF AtHead, NoLocals
  <2>3. QED BY <2>1, <2>2 DEF Pred
<1>8. CouplingOwns(t)' = {}
  BY <1>1 DEF CouplingOwns, Owns, CouplingPred, CouplingCurr, Ops
<1>9. CouplingThread(L, t)'
  BY <1>1, <1>6, <1>7, <1>8 DEF CouplingThread, CouplingOwns, CouplingPred, CouplingCurr, Ops, min, NULL
<1>10. TasLocks' /\ \A n \in Nodes : ~node'[n].marked
  BY <1>2, CouplingHere, TasKept DEF Alike
<1>11. QED BY <1>4, <1>5, <1>8, <1>9, <1>10, CouplingStep

\* A step of t on nodes that nobody else has locked.
LEMMA CouplingSpares ==
  ASSUME NEW L, Core(L), CouplingOK(L), NEW t \in Threads, NEW T, NEW gone,
         \A n \in used : n \notin T => Untouched(n, gone),
         \A n \in T : n \in CouplingOwns(t) \/ node[n].lock # TAS_LCKD
  PROVE  Spares(t, T, gone, CouplingPred, CouplingCurr)
<1>1. ASSUME NEW u \in Threads \ {t} PROVE CouplingOwns(u) \cap T = {}
  <2>1. CouplingThread(L, u) /\ CouplingOwns(u) \cap CouplingOwns(t) = {}
    BY CouplingHere
  <2>2. \A n \in CouplingOwns(u) : node[n].lock = TAS_LCKD
    BY <2>1 DEF CouplingThread, CouplingOwns
  <2>3. QED BY <2>1, <2>2
<1>2. QED BY <1>1 DEF Spares, CouplingOwns

\* LOCK(head).
LEMMA CouplingLockHead ==
  ASSUME NEW L, Core(L), CouplingOK(L), NEW t \in Threads, pc[t] \in Ops, pc' = [pc EXCEPT ![t] = "lock_next"],
         tas_lock_passes(node[Curr(t)].lock), SetLock(Curr(t), tas_locked(node[Curr(t)].lock)),
         UNCHANGED loc, UNCHANGED hist
  PROVE  \E L2 : Good(L2) /\ CouplingOK(L2)'
<1>1. /\ CouplingThread(L, t) /\ TasLocks /\ Before(t) /\ HeapOK /\ ThreadOK(L, t) /\ Key(t) \in Keys
      /\ Curr(t) = min(addr(Key(t))) /\ Pred(t) = NULL /\ used \subseteq Nodes /\ NULL \notin used
      /\ \A n \in Nodes : ~node[n].marked
  BY CouplingHere, Here DEF CouplingThread, Ops, CouplingPred
<1>2. PICK n \in used : n = Curr(t) /\ n \in Nodes /\ n \in Sentinels /\ node[n].key < Key(t) /\ n # NULL
  BY <1>1, HeapFacts, KeyBounds DEF HeapProps
<1>3. node[n].lock # TAS_LCKD /\ tas_locked(node[n].lock) = TAS_LCKD
  BY <1>1, <1>2, TasPassed
<1>4. PICK w \in Nat, q \in {"lock_next"} : w = TAS_LCKD /\ SetLock(n, w) /\ q = "lock_next" /\ Onward(t, q)
  BY <1>2, <1>3 DEF TAS_LCKD, Onward
<1>5. /\ Does(L, L, {}, t) /\ pc'[t] = q /\ loc'[t] = loc[t] /\ call'[t] = call[t] /\ Before(t)'
      /\ LockSet(n, w)
  BY <1>1, <1>4, DoLock
<1>6. PICK gone, T : gone = {} /\ T = {n} /\ Does(L, L, gone, t) /\ Kept(L, L, gone)
  BY <1>5 DEF Does
<1>7. Spares(t, T, gone, CouplingPred, CouplingCurr)
  <2>1. \A m \in used : m \notin T => Untouched(m, gone)
    BY <1>1, <1>5, <1>6 DEF Untouched, LockSet
  <2>2. QED BY <1>3, <1>6, <2>1, CouplingSpares
<1>8. Pred(t)' = Pred(t) /\ Curr(t)' = n /\ Key(t)' = Key(t) /\ Sentinels' = Sentinels
  BY <1>2, <1>5, SetSame DEF Pred, Curr, Key, LockSet
<1>9. CouplingOwns(t)' = {n}
  BY <1>4, <1>5, <1>8 DEF CouplingOwns, Owns, CouplingPred, CouplingCurr
<1>10. TasLocks' /\ \A m \in Nodes : ~node'[m].marked
  <2>1. LockSet(n, TAS_LCKD)
    BY <1>4, <1>5
  <2>2. QED BY <1>1, <2>1, TasLocked DEF LockSet
<1>11. Live(L, Curr(t))'
  BY <1>2, <1>8 DEF Live
<1>12. Walking(t)' /\ node'[n].lock = TAS_LCKD
  BY <1>2, <1>4, <1>5, <1>8 DEF Walking, LockSet
<1>13. CouplingThread(L, t)'
  BY <1>1, <1>2, <1>4, <1>5, <1>8, <1>9, <1>11, <1>12
  DEF CouplingThread, CouplingOwns, CouplingPred, CouplingCurr, Ops, NULL
<1>14. QED BY <1>6, <1>7, <1>9, <1>10, <1>13, CouplingStep

\* LOCK(curr->next); next = curr->next
CouplingLocks(t, n, to) ==
  /\ pc[t] = "lock_next" /\ n = node[Curr(t)].next
  /\ \/ node[n].key < Key(t) /\ to = "advance"
     \/ ~(node[n].key < Key(t)) /\ to = "found"
  /\ pc' = [pc EXCEPT ![t] = to]
  /\ tas_lock_passes(node[n].lock) /\ SetLock(n, tas_locked(node[n].lock))
  /\ loc' = [loc EXCEPT ![t].pred = Curr(t), ![t].curr = n] /\ UNCHANGED hist

LEMMA CouplingLockNext ==
  ASSUME NEW L, Core(L), CouplingOK(L), NEW t \in Threads, NEW x, NEW to, CouplingLocks(t, x, to)
  PROVE  \E L2 : Good(L2) /\ CouplingOK(L2)'
<1>1. /\ CouplingThread(L, t) /\ TasLocks /\ Before(t) /\ HeapOK /\ ChainOK(L) /\ ThreadOK(L, t) /\ Key(t) \in Keys
      /\ used \subseteq Nodes /\ NULL \notin used /\ \A n \in Nodes : ~node[n].marked
      /\ Curr(t) \in used /\ Live(L, Curr(t)) /\ node[Curr(t)].key < Key(t)
      /\ freed \in [Nodes -> {0, 1}] /\ lock \in [Buckets -> Nat] /\ node \in [Nodes -> NodeSet]
  BY CouplingHere, Here DEF CouplingThread, CouplingCurr, CouplingLocks, Walking
<1>2. PICK p \in used : p = Curr(t) /\ p \in Nodes /\ p # NULL /\ Live(L, p) /\ node[p].key < Key(t)
  BY <1>1
<1> DEFINE l == [loc[t] EXCEPT !.pred = p, !.curr = x]
<1>3. loc[t] \in Locals /\ loc' = [loc EXCEPT ![t] = l] /\ x = node[p].next
  BY <1>2, LocalTypes DEF CouplingLocks
<1>4. l.curr = x /\ l.pred = p /\ l.next = loc[t].next /\ l.lnext = loc[t].lnext
  BY <1>3 DEF Locals
<1>5. Stands(L, t, l) /\ x \in used
  <2> HIDE DEF l
  <2>1. QED BY <1>1, <1>2, <1>3, <1>4, StandsNext
<1>6. l \in Locals
  BY <1>2, <1>3, <1>5, LocalTypes
<1> HIDE DEF l
<1>7. PICK n \in used : n = x /\ n \in Nodes /\ n # NULL /\ node[p].next = n /\ Live(L, n)
  <2>1. Live(L, x)
    BY <1>1, <1>2, <1>3, <1>5, NextIsLive
  <2>2. QED BY <1>1, <1>3, <1>5, <2>1
<1>8. node[n].lock # TAS_LCKD /\ tas_locked(node[n].lock) = TAS_LCKD
  BY <1>1, <1>7, TasPassed DEF CouplingLocks
<1>9. PICK q : q = to /\ q # "idle" /\ Goes(t, q, l)
  BY <1>3 DEF Goes, CouplingLocks
<1>10. PICK w \in Nat : w = TAS_LCKD /\ SetLock(n, w)
  BY <1>7, <1>8 DEF TAS_LCKD, CouplingLocks
<1>11. LockSet(n, w) /\ node' \in [Nodes -> NodeSet]
  <2>1. HeapOK /\ n \in Nodes
    BY <1>1, <1>7
  <2>2. node' = [node EXCEPT ![n].lock = w]
    BY <1>10 DEF SetLock, SetNodes
  <2>3. set' = set /\ used' = used /\ freed' = freed /\ lock' = lock
    BY <1>10 DEF SetLock, SetNodes
  <2>4. QED BY <2>1, <2>2, <2>3, NodesLock DEF LockSet
<1>12. SameNodes /\ lock' \in [Buckets -> Nat] /\ freed' = freed
  BY <1>1, <1>11 DEF SameNodes, LockSet
<1>13. UNCHANGED hist
  BY DEF CouplingLocks
<1>14. /\ Does(L, L, {}, t) /\ pc'[t] = q /\ loc'[t] = l /\ call'[t] = call[t] /\ Before(t)'
  BY <1>1, <1>5, <1>6, <1>9, <1>11, <1>12, <1>13, DoMove
<1>15. PICK gone, T : gone = {} /\ T = {n} /\ Does(L, L, gone, t) /\ Kept(L, L, gone)
  BY <1>14 DEF Does
<1>16. Spares(t, T, gone, CouplingPred, CouplingCurr)
  <2>1. \A m \in used : m \notin T => Untouched(m, gone)
    BY <1>1, <1>11, <1>15 DEF Untouched, LockSet
  <2>2. QED BY <1>8, <1>15, <2>1, CouplingSpares
<1>17. Pred(t)' = p /\ Curr(t)' = n /\ Key(t)' = Key(t)
  BY <1>4, <1>7, <1>14 DEF Pred, Curr, Key
<1>18. CouplingOwns(t)' = {p, n} /\ p \in CouplingOwns(t) /\ pc'[t] \in {"advance", "found"}
  <2>1. pc'[t] \in {"advance", "found"} /\ pc[t] = "lock_next"
    BY <1>9, <1>14 DEF CouplingLocks
  <2>2. QED BY <1>2, <1>17, <2>1 DEF CouplingOwns, Owns, CouplingPred, CouplingCurr
<1>19. TasLocks' /\ \A m \in Nodes : ~node'[m].marked
  <2>1. LockSet(n, TAS_LCKD)
    BY <1>10, <1>11
  <2>2. QED BY <1>1, <2>1, TasLocked DEF LockSet
<1>20. Live(L, Pred(t))' /\ Live(L, Curr(t))' /\ Adjacent(L, t)'
  <2>1. Live(L, p)' /\ Live(L, n)'
    BY <1>2, <1>7, <1>15, LiveKept
  <2>2. Live(L, Pred(t))' /\ Live(L, Curr(t))'
    BY <1>17, <2>1 DEF Live, On
  <2>3. node'[p].next = n
    BY <1>2, <1>7, <1>11 DEF LockSet
  <2>4. QED BY <1>2, <1>17, <2>2, <2>3 DEF Adjacent, NULL
<1>21. node'[p].lock = TAS_LCKD /\ node'[n].lock = TAS_LCKD
  <2>1. node[p].lock = TAS_LCKD
    BY <1>1, <1>18 DEF CouplingThread, CouplingOwns
  <2>2. QED BY <1>2, <1>7, <1>10, <1>11, <2>1 DEF LockSet
<1>22. /\ pc'[t] = "advance" => Walking(t)'
       /\ pc'[t] = "found" => Reached(t)'
  <2>1. node'[n].key = node[n].key /\ node[n].key \in Int /\ Key(t) \in Int
    BY <1>1, <1>7, <1>11, ChainFacts, KeyBounds DEF ChainProps, LockSet
  <2>2. /\ pc'[t] = "advance" => node[n].key < Key(t)
        /\ pc'[t] = "found" => ~(node[n].key < Key(t))
    BY <1>7, <1>9, <1>14 DEF CouplingLocks
  <2>3. QED BY <1>2, <1>17, <2>1, <2>2 DEF Walking, Reached, NULL
<1>23. CouplingThread(L, t)'
  BY <1>2, <1>7, <1>14, <1>17, <1>18, <1>20, <1>21, <1>22
  DEF CouplingThread, CouplingOwns, CouplingPred, CouplingCurr, Ops, NULL
<1>24. QED BY <1>15, <1>16, <1>18, <1>19, <1>23, CouplingStep

\* UNLOCK(curr); curr = next.
CouplingAdvances(t) ==
  /\ pc[t] = "advance" /\ pc' = [pc EXCEPT ![t] = "lock_next"]
  /\ node' = Unlocked({Pred(t)}) /\ UNCHANGED <<set, used, freed, lock>>
  /\ loc' = [loc EXCEPT ![t].pred = NULL] /\ UNCHANGED hist

LEMMA CouplingAdvance ==
  ASSUME NEW L, Core(L), CouplingOK(L), NEW t \in Threads, CouplingAdvances(t)
  PROVE  \E L2 : Good(L2) /\ CouplingOK(L2)'
<1>1. /\ CouplingThread(L, t) /\ TasLocks /\ Before(t) /\ HeapOK /\ ChainOK(L) /\ used \subseteq Nodes /\ NULL \notin used
      /\ \A n \in Nodes : ~node[n].marked
      /\ Pred(t) \in used /\ Curr(t) \in used /\ Live(L, Curr(t)) /\ Adjacent(L, t) /\ node[Curr(t)].key < Key(t)
      /\ CouplingOwns(t) = {Pred(t), Curr(t)}
  BY CouplingHere, Here
  DEF CouplingThread, CouplingPred, CouplingCurr, CouplingAdvances, Walking, CouplingOwns, Owns
<1>2. PICK p \in used, c \in used : /\ p = Pred(t) /\ c = Curr(t) /\ c # NULL /\ Live(L, c) /\ node[c].key < Key(t)
                                    /\ p \in Nodes /\ c \in Nodes /\ node[p].next = c
  BY <1>1 DEF Adjacent
<1>3. p # c
  BY <1>1, <1>2, ChainFacts DEF ChainProps
<1>4. NULL \in Int
  BY DEF NULL
<1>5. PICK l \in Locals : /\ l = [loc[t] EXCEPT !.pred = NULL] /\ l.pred = NULL /\ l.curr = c
                          /\ l.next = loc[t].next /\ l.lnext = loc[t].lnext
  <2>1. loc[t] \in Locals /\ loc[t].curr = c
    BY <1>2, LocalTypes DEF Curr
  <2>2. PICK x \in Int : x = NULL
    BY <1>4
  <2>3. QED BY <2>1, <2>2, PredTo
<1>6. PICK q : q = "lock_next" /\ q # "idle" /\ Goes(t, q, l)
  BY <1>5 DEF Goes, CouplingAdvances
<1>7. Stands(L, t, l)
  <2>1. l.next \in used \cup {NULL} /\ l.curr = Curr(t)
    BY <1>2, <1>5, Here DEF ThreadOK
  <2>2. QED BY <1>1, <1>5, <2>1, StandsSame
<1>8. Unlocks({p}) /\ LocksOnly
  <2>1. node' = Unlocked({p}) /\ UNCHANGED <<set, used, lock>> /\ freed' = freed
    BY <1>2 DEF CouplingAdvances
  <2>2. QED BY <1>1, <2>1, UnlockedNodes
<1>9. UNCHANGED hist
  BY DEF CouplingAdvances
<1>10. /\ Does(L, L, {}, t) /\ pc'[t] = q /\ loc'[t] = l /\ call'[t] = call[t] /\ Before(t)'
  BY <1>1, <1>6, <1>7, <1>8, <1>9, DoMove DEF LocksOnly
<1>11. PICK gone, T : gone = {} /\ T = {p} /\ Does(L, L, gone, t) /\ Kept(L, L, gone)
  BY <1>10 DEF Does
<1>12. Spares(t, T, gone, CouplingPred, CouplingCurr)
  <2>1. \A m \in used : m \notin T => Untouched(m, gone)
    BY <1>1, <1>8, <1>11 DEF Untouched, Unlocks, LocksOnly
  <2>2. QED BY <1>1, <1>2, <1>11, <2>1, CouplingSpares
<1>13. Pred(t)' = NULL /\ Curr(t)' = c /\ Key(t)' = Key(t)
  BY <1>5, <1>10, SetSame DEF Pred, Curr, Key, NULL
<1>14. CouplingOwns(t)' = {c}
  BY <1>6, <1>10, <1>13 DEF CouplingOwns, Owns, CouplingPred, CouplingCurr
<1>15. TasLocks' /\ \A m \in Nodes : ~node'[m].marked
  BY <1>1, <1>8, TasUnlocked DEF Unlocks
<1>16. Live(L, Curr(t))'
  <2>1. Live(L, c)'
    BY <1>2, <1>11, LiveKept
  <2>2. QED BY <1>13, <2>1 DEF Live, On
<1>17. Walking(t)' /\ node'[c].lock = TAS_LCKD
  <2>1. node[c].lock = TAS_LCKD
    BY <1>1, <1>2 DEF CouplingThread, CouplingOwns
  <2>2. QED BY <1>2, <1>3, <1>8, <1>13, <2>1 DEF Walking, Unlocks
<1>18. CouplingThread(L, t)'
  BY <1>2, <1>6, <1>10, <1>13, <1>14, <1>16, <1>17
  DEF CouplingThread, CouplingOwns, CouplingPred, CouplingCurr, Ops, NULL
<1>19. QED BY <1>1, <1>2, <1>11, <1>12, <1>14, <1>15, <1>18, CouplingStep

\* A call gives its locks back and returns.
LEMMA CouplingFinish ==
  ASSUME NEW L, Core(L), CouplingOK(L), NEW t \in Threads, pc[t] \in {"found", "unlock"},
         NEW r \in Vals \cup {0, 1}, Rightful(t, r), Return(t, r),
         node' = Unlocked({Pred(t), Curr(t)}), UNCHANGED <<set, used, freed, lock>>
  PROVE  \E L2 : Good(L2) /\ CouplingOK(L2)'
<1>1. /\ TasLocks /\ HeapOK /\ InCall(t) /\ used \subseteq Nodes /\ \A n \in Nodes : ~node[n].marked
      /\ CouplingOwns(t) = {Pred(t), Curr(t)}
  BY CouplingHere, Here DEF CouplingPred, CouplingCurr, CouplingOwns, Owns
<1>2. Unlocks({Pred(t), Curr(t)}) /\ LocksOnly
  BY <1>1, UnlockedNodes
<1>3. Does(L, L, {}, t) /\ pc'[t] = "idle" /\ loc'[t] = NoLocals
  BY <1>1, <1>2, DoAnswer
<1>4. PICK gone, T : gone = {} /\ T = {Pred(t), Curr(t)} /\ Does(L, L, gone, t)
  BY <1>3
<1>5. Spares(t, T, gone, CouplingPred, CouplingCurr)
  <2>1. \A m \in used : m \notin T => Untouched(m, gone)
    BY <1>1, <1>2, <1>4 DEF Untouched, Unlocks, LocksOnly
  <2>2. QED BY <1>1, <1>4, <2>1, CouplingSpares
<1>6. CouplingOwns(t)' = {}
  BY <1>3 DEF CouplingOwns, Owns, CouplingPred, CouplingCurr
<1>7. TasLocks' /\ \A m \in Nodes : ~node'[m].marked
  BY <1>1, <1>2, TasUnlocked DEF Unlocks
<1>8. CouplingThread(L, t)'
  BY <1>3, <1>6 DEF CouplingThread, CouplingOwns, CouplingPred, CouplingCurr, Ops, Pred, NoLocals, NULL
<1>9. QED BY <1>4, <1>5, <1>6, <1>7, <1>8, CouplingStep

\* What a thread has found, that holds the locks of two neighbours.
LEMMA CouplingFound ==
  ASSUME NEW L, Core(L), CouplingOK(L), NEW t \in Threads, pc[t] = "found"
  PROVE  /\ Before(t) /\ node[Curr(t)].key >= Key(t) /\ Adjacent(L, t) /\ Key(t) \in Keys
         /\ Pred(t) \in used /\ Curr(t) \in used /\ Live(L, Pred(t)) /\ Live(L, Curr(t))
         /\ node[Curr(t)].key \in Int /\ Key(t) \in Int /\ ~node[Curr(t)].marked
         /\ CouplingOwns(t) = {Pred(t), Curr(t)}
<1>1. /\ CouplingThread(L, t) /\ HeapOK /\ ChainOK(L) /\ Key(t) \in Keys /\ used \subseteq Nodes
      /\ Pred(t) \in used /\ Curr(t) \in used /\ \A n \in Nodes : ~node[n].marked
  BY CouplingHere, Here DEF CouplingPred, CouplingCurr
<1>2. node[Curr(t)].key \in Int /\ Key(t) \in Int
  BY <1>1, ChainFacts, KeyBounds DEF ChainProps
<1>3. QED BY <1>1, <1>2 DEF CouplingThread, CouplingPred, CouplingCurr, Reached, CouplingOwns, Owns

LEMMA CouplingAnswer ==
  ASSUME NEW L, Core(L), CouplingOK(L), NEW t \in Threads, pc[t] = "found",
         NEW r, \/ call[t].op = "search" /\ r = Val(t)
                \/ call[t].op = "insert" /\ KeyOf(t) = Key(t) /\ r = 0
                \/ call[t].op = "remove" /\ KeyOf(t) # Key(t) /\ r = 0,
         Return(t, r), node' = Unlocked({Pred(t), Curr(t)}), UNCHANGED <<set, used, freed, lock>>
  PROVE  \E L2 : Good(L2) /\ CouplingOK(L2)'
<1>1. Before(t) /\ node[Curr(t)].key >= Key(t) /\ ~node[Curr(t)].marked
  BY CouplingFound
<1>2. Val(t) = ValOf(Curr(t), Key(t))
  BY <1>1 DEF Val, ValOf, KeyOf, None, Abs!None
<1>3. r \in Vals \cup {0, 1} /\ Rightful(t, r)
  BY <1>1, <1>2, Answers DEF KeyOf
<1>4. QED BY <1>3, CouplingFinish

LEMMA CouplingInserted ==
  ASSUME NEW L, Core(L), CouplingOK(L), NEW t \in Threads, pc[t] = "unlock",
         Return(t, 1), node' = Unlocked({Pred(t), Curr(t)}), UNCHANGED <<set, used, freed, lock>>
  PROVE  \E L2 : Good(L2) /\ CouplingOK(L2)'
<1>1. After(t) /\ call[t].op = "insert"
  BY CouplingHere DEF CouplingThread
<1>2. PICK r \in Vals \cup {0, 1} : r = 1
  OBVIOUS
<1>3. QED BY <1>1, <1>2, AnswersAfter, CouplingFinish

\* newnode is linked between the two nodes that t has locked.
LEMMA CouplingLink ==
  ASSUME NEW L, Core(L), CouplingOK(L), NEW t \in Threads, pc[t] = "found", call[t].op = "insert",
         KeyOf(t) # Key(t), Publish(t, Pred(t), ll_marked(Key(t), call[t].val, Curr(t))),
         pc' = [pc EXCEPT ![t] = "unlock"], UNCHANGED loc
  PROVE  \E L2 : Good(L2) /\ CouplingOK(L2)'
<1>1. /\ Before(t) /\ Adjacent(L, t) /\ Key(t) \in Keys /\ Pred(t) \in used /\ Curr(t) \in used
      /\ Live(L, Pred(t)) /\ Live(L, Curr(t)) /\ CouplingOwns(t) = {Pred(t), Curr(t)}
      /\ node[Curr(t)].key > Key(t)
  BY CouplingFound DEF KeyOf
<1>2. /\ CouplingThread(L, t) /\ TasLocks /\ HeapOK /\ HistTypeOK /\ InCall(t) /\ used \subseteq Nodes
      /\ NULL \notin used /\ \A n \in Nodes : ~node[n].marked
  BY CouplingHere, Here
<1> DEFINE r == ll_marked(Key(t), call[t].val, Curr(t))
<1>3. NewNode(t, Pred(t), r) /\ ~r.marked /\ r.lock = TAS_FREE
  <2>1. Curr(t) \in Nodes /\ call[t].val \in Vals /\ node[Pred(t)].next = Curr(t)
    BY <1>1, <1>2, CallKey DEF Calls, Abs!Calls, Adjacent
  <2>2. QED BY <1>1, <2>1 DEF NewNode, ll_marked, ll_simple, NodeSet, TAS_FREE
<1>4. Publish(t, Pred(t), r)
  OBVIOUS
<1> HIDE DEF r
<1>5. PICK q : q = "unlock" /\ Onward(t, q)
  BY DEF Onward
<1>6. PICK L2 : \E new \in Nodes \ used :
           /\ Does(L, L2, {}, t) /\ After(t)' /\ On(L2, new)' /\ Home'[new] = addr(Key(t))
           /\ Publishes(t, Pred(t), r, new) /\ pc'[t] = q /\ call'[t] = call[t]
  BY <1>1, <1>3, <1>4, <1>5, DoLink
<1>7. PICK new \in Nodes \ used :
           /\ Does(L, L2, {}, t) /\ After(t)' /\ On(L2, new)' /\ Home'[new] = addr(Key(t))
           /\ Publishes(t, Pred(t), r, new) /\ pc'[t] = q /\ call'[t] = call[t]
  BY <1>6
<1>8. PICK gone, T : gone = {} /\ T = {Pred(t)} /\ Does(L, L2, gone, t) /\ Kept(L, L2, gone)
  BY <1>7 DEF Does
<1>9. PICK p \in used, c \in used : p = Pred(t) /\ c = Curr(t) /\ p \in Nodes /\ c \in Nodes /\ p # NULL /\ c # NULL
  BY <1>1, <1>2
<1>10. Pred(t)' = p /\ Curr(t)' = c
  BY <1>9 DEF Pred, Curr
<1>11. CouplingOwns(t)' = {p, c} /\ pc'[t] = "unlock"
  BY <1>5, <1>7, <1>10 DEF CouplingOwns, Owns, CouplingPred, CouplingCurr
<1>12. /\ \A n \in used : /\ node'[n].lock = node[n].lock /\ node'[n].marked = node[n].marked
                          /\ n # Pred(t) => node'[n].next = node[n].next
       /\ freed' = freed /\ ~node'[new].marked /\ node'[new].lock = TAS_FREE
       /\ \A n \in Nodes : n # new => node'[n].marked = node[n].marked /\ node'[n].lock = node[n].lock
  BY <1>2, <1>3, <1>7 DEF Publishes
<1>13. Spares(t, T, gone, CouplingPred, CouplingCurr)
  <2>1. \A m \in used : m \notin T => Untouched(m, gone)
    BY <1>8, <1>12 DEF Untouched
  <2>2. QED BY <1>1, <1>8, <2>1, CouplingSpares
<1>14. TasLocks' /\ \A m \in Nodes : ~node'[m].marked
  <2>1. \A n \in Nodes : node'[n].lock \in {TAS_FREE, TAS_LCKD, node[n].lock}
    BY <1>12
  <2>2. QED BY <1>2, <1>7, <1>12, <2>1, TasKept DEF Publishes
<1>15. Live(L2, Pred(t))' /\ Live(L2, Curr(t))'
  <2>1. Live(L2, p)' /\ Live(L2, c)'
    BY <1>1, <1>8, <1>9, LiveKept
  <2>2. QED BY <1>10, <2>1 DEF Live, On
<1>16. node'[p].lock = TAS_LCKD /\ node'[c].lock = TAS_LCKD
  BY <1>1, <1>2, <1>9, <1>12 DEF CouplingThread, CouplingOwns
<1>17. CouplingThread(L2, t)'
  BY <1>7, <1>9, <1>10, <1>11, <1>15, <1>16
  DEF CouplingThread, CouplingOwns, CouplingPred, CouplingCurr, Ops, NULL
<1>18. QED BY <1>1, <1>8, <1>9, <1>11, <1>13, <1>14, <1>17, CouplingStep

\* curr->next = next->next
LEMMA CouplingUnlink ==
  ASSUME NEW L, Core(L), CouplingOK(L), NEW t \in Threads, pc[t] = "found", call[t].op = "remove",
         KeyOf(t) = Key(t), SetNodes([node EXCEPT ![Pred(t)].next = node[Curr(t)].next]),
         TakesEffect(t, None, node[Curr(t)].val),
         pc' = [pc EXCEPT ![t] = "delete"], UNCHANGED loc
  PROVE  \E L2 : Good(L2) /\ CouplingOK(L2)'
<1>1. /\ Before(t) /\ Adjacent(L, t) /\ Key(t) \in Keys /\ Pred(t) \in used /\ Curr(t) \in used
      /\ Live(L, Pred(t)) /\ CouplingOwns(t) = {Pred(t), Curr(t)}
      /\ node[Curr(t)].key = Key(t) /\ ~node[Curr(t)].marked
  BY CouplingFound DEF KeyOf
<1>2. /\ CouplingThread(L, t) /\ TasLocks /\ HeapOK /\ ChainOK(L) /\ FreedOK(L) /\ used \subseteq Nodes /\ NULL \notin used
      /\ \A n \in Nodes : ~node[n].marked /\ freed \in [Nodes -> {0, 1}]
  BY CouplingHere, Here
<1>3. PICK p \in used, c \in used : /\ p = Pred(t) /\ c = Curr(t) /\ p \in Nodes /\ c \in Nodes /\ p # NULL /\ c # NULL
                                    /\ node[p].next = c /\ p # c
  BY <1>1, <1>2, ChainFacts DEF ChainProps, Adjacent
<1>4. /\ Unlinks(Pred(t), Curr(t)) /\ freed' = freed
  BY <1>2 DEF SetNodes, Unlinks
<1>5. PICK q : q = "delete" /\ Onward(t, q)
  BY DEF Onward
<1>6. /\ On(L, Curr(t)) /\ UnlinkedNodes(Pred(t), Curr(t)) /\ pc'[t] = q /\ call'[t] = call[t]
      /\ \E L2 : Does(L, L2, {Curr(t)}, t) /\ After(t)'
  BY <1>1, <1>4, <1>5, DoUnlink
<1>7. PICK L2, gone : gone = {c} /\ Does(L, L2, gone, t) /\ After(t)' /\ Kept(L, L2, gone)
  BY <1>3, <1>6 DEF Does
<1>8. PICK T : T = {Pred(t), Curr(t)}
  OBVIOUS
<1>9. Pred(t)' = p /\ Curr(t)' = c
  BY <1>3 DEF Pred, Curr
<1>10. CouplingOwns(t)' = {p, c} /\ pc'[t] = "delete"
  BY <1>5, <1>6, <1>9 DEF CouplingOwns, Owns, CouplingPred, CouplingCurr
<1>11. Spares(t, T, gone, CouplingPred, CouplingCurr)
  <2>1. \A m \in used : m \notin T => Untouched(m, gone)
    BY <1>2, <1>3, <1>4, <1>6, <1>7, <1>8 DEF Untouched, UnlinkedNodes
  <2>2. QED BY <1>1, <1>8, <2>1, CouplingSpares
<1>12. TasLocks' /\ \A m \in Nodes : ~node'[m].marked
  <2>1. \A n \in Nodes : node'[n].lock \in {TAS_FREE, TAS_LCKD, node[n].lock}
    BY <1>6 DEF UnlinkedNodes
  <2>2. QED BY <1>2, <1>4, <1>6, <2>1, TasKept DEF UnlinkedNodes, Unlinks
<1>13. Live(L2, Pred(t))'
  <2>1. Live(L2, p)'
    BY <1>1, <1>3, <1>7, LiveKept
  <2>2. QED BY <1>9, <2>1 DEF Live, On
<1>14. Unlinked(L2, t)'
  <2>1. Curr(t)' \in used' \ Sentinels' /\ ~On(L2, Curr(t))' /\ freed[Curr(t)] = 0
    <3>1. loc'[t] = loc[t] /\ Curr(t) \in gone
      BY <1>3, <1>7
    <3>2. QED BY <1>6, <1>7, <3>1, NowUnlinked
  <2>2. freed'[Curr(t)'] = 0
    BY <1>3, <1>4, <1>9, <2>1
  <2>3. QED BY <1>7, <2>1, <2>2 DEF Unlinked
<1>15. node'[p].lock = TAS_LCKD /\ node'[c].lock = TAS_LCKD
  BY <1>1, <1>2, <1>3, <1>6 DEF CouplingThread, CouplingOwns, UnlinkedNodes
<1>16. CouplingThread(L2, t)'
  BY <1>3, <1>6, <1>7, <1>9, <1>10, <1>13, <1>14, <1>15
  DEF CouplingThread, CouplingOwns, CouplingPred, CouplingCurr, Ops, NULL
<1>17. QED BY <1>1, <1>3, <1>7, <1>8, <1>10, <1>11, <1>12, <1>16, CouplingStep

\* UNLOCK(next); ll_marked_delete(next); UNLOCK(curr)
LEMMA CouplingDelete ==
  ASSUME NEW L, Core(L), CouplingOK(L), NEW t \in Threads, pc[t] = "delete",
         SetNodesAndRelease(Unlocked({Pred(t), Curr(t)}), {Curr(t)}), Return(t, node[Curr(t)].val)
  PROVE  \E L2 : Good(L2) /\ CouplingOK(L2)'
<1>1. /\ CouplingThread(L, t) /\ TasLocks /\ HeapOK /\ freed \in [Nodes -> {0, 1}] /\ After(t) /\ InCall(t)
      /\ used \subseteq Nodes /\ call[t].op = "remove" /\ CouplingOwns(t) = {Pred(t), Curr(t)} /\ Unlinked(L, t)
      /\ \A n \in Nodes : ~node[n].marked
  BY CouplingHere, Here DEF CouplingThread, CouplingOwns, Owns, CouplingPred, CouplingCurr
<1>2. PICK r \in Vals \cup {0, 1} : Rightful(t, r) /\ Return(t, r)
  BY <1>1, AnswersAfter
<1>3. node' = Unlocked({Pred(t), Curr(t)}) /\ UNCHANGED <<set, used, lock>>
  BY DEF SetNodesAndRelease
<1>4. Unlocks({Pred(t), Curr(t)}) /\ SameNodes /\ node' \in [Nodes -> NodeSet] /\ lock' \in [Buckets -> Nat]
  BY <1>1, <1>3, UnlockedNodes
<1>5. /\ freed' \in [Nodes -> {0, 1}]
      /\ \A n \in Nodes : freed'[n] = 1 => freed[n] = 1 \/ (n \in used \ Sentinels /\ ~On(L, n))
      /\ \A n \in Nodes : freed'[n] # freed[n] => n = Curr(t)
  <2>1. PICK m \in used \ Sentinels : m = Curr(t) /\ ~On(L, m) /\ freed[m] = 0
    BY <1>1 DEF Unlinked, On
  <2>2. freed' = [n \in Nodes |-> IF n \in {m} THEN freed[n] + 1 ELSE freed[n]]
    BY <2>1 DEF SetNodesAndRelease
  <2>3. QED BY <1>1, <2>1, <2>2
<1>6. Does(L, L, {}, t) /\ pc'[t] = "idle" /\ loc'[t] = NoLocals
  BY <1>1, <1>2, <1>4, <1>5, DoReturn
<1>7. PICK gone, T : gone = {} /\ T = {Pred(t), Curr(t)} /\ Does(L, L, gone, t)
  BY <1>6
<1>8. Spares(t, T, gone, CouplingPred, CouplingCurr)
  <2>1. \A m \in used : m \notin T => Untouched(m, gone)
    BY <1>1, <1>4, <1>5, <1>7 DEF Untouched, Unlocks
  <2>2. QED BY <1>1, <1>7, <2>1, CouplingSpares
<1>9. CouplingOwns(t)' = {}
  BY <1>6 DEF CouplingOwns, Owns, CouplingPred, CouplingCurr
<1>10. TasLocks' /\ \A m \in Nodes : ~node'[m].marked
  BY <1>1, <1>4, TasUnlocked DEF Unlocks
<1>11. CouplingThread(L, t)'
  BY <1>6, <1>9 DEF CouplingThread, CouplingOwns, CouplingPred, CouplingCurr, Ops, Pred, NoLocals, NULL
<1>12. QED BY <1>7, <1>8, <1>9, <1>10, <1>11, CouplingStep

LEMMA CouplingStutter ==
  ASSUME NEW L, Core(L), CouplingOK(L), UNCHANGED vars
  PROVE  Good(L) /\ CouplingOK(L)'
<1>1. /\ Core(L)' /\ Kept(L, L, {}) /\ Alike /\ Lin /\ Frozen /\ \A u \in Threads : Still(u)
  BY CoreStutter
<1>2. PICK gone : gone = {} /\ Kept(L, L, gone)
  BY <1>1
<1>3. ASSUME NEW u \in Threads PROVE CouplingThread(L, u)' /\ CouplingOwns(u)' = CouplingOwns(u)
  <2>1. \A n \in CouplingOwns(u) : Untouched(n, gone)
    BY <1>1, <1>2 DEF Untouched, Alike
  <2>2. Still(u)
    BY <1>1
  <2>3. QED BY <1>1, <1>2, <2>1, <2>2, CouplingFrame, OwnsStill DEF CouplingOwns, Alike
<1>4. TasLocks' /\ Unmarked'
  BY <1>1, TasKept, SetSame DEF CouplingOK, Unmarked, Alike
<1>5. Exclusive(CouplingPred, CouplingCurr)'
  <2>1. \A u, w \in Threads : u # w => CouplingOwns(u) \cap CouplingOwns(w) = {}
    BY CouplingHere
  <2>2. \A u, w \in Threads : u # w => CouplingOwns(u)' \cap CouplingOwns(w)' = {}
    BY <1>3, <2>1
  <2>3. QED BY <2>2 DEF Exclusive, CouplingOwns
<1>6. QED BY <1>1, <1>3, <1>4, <1>5 DEF Good, CouplingOK, Alike

\* A node that has been released is in nobody's hands.
LEMMA CouplingReleased ==
  ASSUME NEW L, Core(L), CouplingOK(L), NEW n \in Nodes, freed[n] = 1, NEW t \in Threads
  PROVE  n # Pred(t) /\ n # Curr(t)
<1>1. CouplingThread(L, t) /\ HeapOK /\ ThreadOK(L, t) /\ n \in used \ Sentinels /\ ~Live(L, n) /\ NULL \notin used
  BY CouplingHere, Here DEF FreedOK, Live
<1>2. n # Pred(t)
  BY <1>1 DEF CouplingThread
<1>3. CASE pc[t] = "idle"
  <2>1. Curr(t) = NULL
    BY <1>1, <1>3 DEF ThreadOK, Curr, NoLocals
  <2>2. QED BY <1>1, <1>2, <2>1
<1>4. CASE pc[t] \in Ops
  <2>1. Curr(t) \in Sentinels
    BY <1>1, <1>4, Here, HeapFacts DEF CouplingThread, HeapProps, Ops
  <2>2. QED BY <1>1, <1>2, <2>1
<1>5. CASE pc[t] = "delete"
  BY <1>1, <1>2, <1>5 DEF CouplingThread, Unlinked
<1>6. CASE pc[t] \in CouplingCurr \ {"delete"}
  BY <1>1, <1>2, <1>6 DEF CouplingThread
<1>7. QED BY <1>1, <1>3, <1>4, <1>5, <1>6 DEF CouplingThread, CouplingCurr, Ops

-----------------------------------------------------------------------------
(* The list with an OPTIK lock in each node.                               *)

OptikOwns(t) == Owns(t, OptikPred, OptikCurr)

LEMMA OptikHere ==
  ASSUME NEW L, Core(L), OptikOK(L), NEW t \in Threads
  PROVE  /\ OptikThread(L, t) /\ \A n \in Nodes : ~node[n].marked
         /\ OptikOwns(t) \subseteq used
         /\ Pred(t) # NULL => Pred(t) \in used
         /\ pc[t] # "idle" /\ call[t].op # "insert" => Curr(t) \in used
         /\ Before(t) => Curr(t) \in used
         /\ \A n \in OptikOwns(t) : node[n].lock % 2 = 1
         /\ \A u \in Threads \ {t} : OptikOwns(u) \cap OptikOwns(t) = {}
<1>1. OptikThread(L, t) /\ \A n \in Nodes : ~node[n].marked
  BY DEF OptikOK, Unmarked
<1>2. /\ Pred(t) # NULL => Pred(t) \in used
      /\ Before(t) => Curr(t) \in used
  BY Here DEF ThreadOK, Mine
<1>3. pc[t] # "idle" /\ call[t].op # "insert" => Curr(t) \in used
  BY Here DEF ThreadOK, Mine, Before, After
<1>4. OptikOwns(t) \subseteq used
  BY <1>1, <1>2, <1>3 DEF OptikThread, OptikOwns, Owns, OptikPred, OptikCurr
<1>5. \A n \in OptikOwns(t) : node[n].lock % 2 = 1
  BY <1>1 DEF OptikThread, OptikOwns
<1>6. QED BY <1>1, <1>2, <1>3, <1>4, <1>5 DEF OptikOK, Exclusive, OptikOwns

\* What a step may do to a node, its lock and its successor.
OptikChange(n) ==
  LET l == node[n].lock   m == node'[n].lock IN
  /\ l \in Nat /\ m \in Nat
  /\ \/ /\ m = l /\ node'[n].next = node[n].next
        /\ Written(n)' <=> Written(n)
     \/ l % 2 = 0 /\ m = l + 1 /\ node'[n].next = node[n].next
     \/ l % 2 = 1 /\ m = l + 1
     \/ l % 2 = 1 /\ m = l - 1 /\ node'[n].next = node[n].next /\ ~Written(n)
     \/ l % 2 = 1 /\ m = l /\ Written(n)'

\* A version that was right stays right only if the node stays as it is.
OptikSame(n) ==
  \A v \in Nat : Old(n, v) => /\ Old(n, v)'
                              /\ Same(n, v)' => Same(n, v) /\ node'[n].next = node[n].next

LEMMA OptikVersions ==
  ASSUME NEW n, OptikChange(n)
  PROVE  OptikSame(n)
<1>1. SUFFICES ASSUME NEW v \in Nat, Old(n, v)
               PROVE  /\ Old(n, v)'
                      /\ Same(n, v)' => Same(n, v) /\ node'[n].next = node[n].next
  BY DEF OptikSame
<1>2. PICK l \in Nat, m \in Nat : l = node[n].lock /\ m = node'[n].lock
  BY DEF OptikChange
<1>3. v % 2 = 0 => v <= l
  BY <1>1, <1>2 DEF Old
<1>4. /\ Old(n, v)' <=> (v % 2 = 0 => v <= m)
      /\ Same(n, v) <=> v % 2 = 0 /\ (l = v \/ (l = v + 1 /\ ~Written(n)))
      /\ Same(n, v)' <=> v % 2 = 0 /\ (m = v \/ (m = v + 1 /\ ~Written(n)'))
  BY <1>2 DEF Old, Same
<1>5. CASE m = l /\ node'[n].next = node[n].next /\ (Written(n)' <=> Written(n))
  BY <1>3, <1>4, <1>5
<1>6. CASE l % 2 = 0 /\ m = l + 1 /\ node'[n].next = node[n].next
  BY <1>3, <1>4, <1>6
<1>7. CASE l % 2 = 1 /\ m = l + 1
  BY <1>3, <1>4, <1>7
<1>8. CASE l % 2 = 1 /\ m = l - 1 /\ node'[n].next = node[n].next /\ ~Written(n)
  BY <1>3, <1>4, <1>8
<1>9. CASE l % 2 = 1 /\ m = l /\ Written(n)'
  BY <1>3, <1>4, <1>9
<1>10. QED BY <1>2, <1>5, <1>6, <1>7, <1>8, <1>9 DEF OptikChange

\* The writer of a node is known by where it is.
LEMMA WrittenKept ==
  ASSUME NEW t \in Threads, set' = set, Others(t), NEW n,
         ~(pc[t] \in OptikWrote /\ Pred(t) = n), ~(pc'[t] \in OptikWrote /\ Pred(t)' = n)
  PROVE  Written(n)' <=> Written(n)
<1>1. \A u \in Threads \ {t} : pc'[u] = pc[u] /\ Pred(u)' = Pred(u)
  BY StillSame DEF Others
<1>2. QED BY <1>1 DEF Written

\* What a thread has seen stays true of what it goes by.
LEMMA SawStill ==
  ASSUME NEW n, OptikSame(n), NEW v, NEW x, Saw(n, v, x)
  PROVE  Saw(n, v, x)'
BY DEF OptikSame, Saw, Old

LEMMA OptikFrame ==
  ASSUME NEW L, Core(L), OptikOK(L), NEW L2, NEW gone, Kept(L, L2, gone), NEW u \in Threads, Still(u),
         \A n \in OptikOwns(u) : Untouched(n, gone), \A n \in used : OptikSame(n)
  PROVE  OptikThread(L2, u)'
<1>1. /\ pc'[u] = pc[u] /\ Pred(u)' = Pred(u) /\ Curr(u)' = Curr(u) /\ Key(u)' = Key(u)
      /\ call'[u] = call[u] /\ loc'[u] = loc[u]
      /\ Before(u)' <=> Before(u)
      /\ After(u)' <=> After(u)
  BY StillSame DEF Kept
<1>2. Before(u) => /\ Walking(u)' <=> Walking(u)
                   /\ Reached(u)' <=> Reached(u)
                   /\ Curr(u) \in used /\ node'[Curr(u)].key = node[Curr(u)].key
  BY StandsStill
<1>3. OptikThread(L, u)
  BY OptikHere
<1>4. OptikOwns(u)' = OptikOwns(u)
  BY <1>1 DEF OptikOwns, Owns
<1>5. \A n \in OptikOwns(u)' : node'[n].lock % 2 = 1
  BY <1>4, OptikHere DEF Untouched
<1>6. /\ pc[u] \in OptikPred => Untouched(Pred(u), gone)
      /\ pc[u] \in OptikCurr => Untouched(Curr(u), gone)
  BY DEF OptikOwns, Owns
<1>7. \A n \in used : n \notin gone => /\ Live(L2, n)' <=> Live(L, n)
                                       /\ On(L2, n)' <=> On(L, n)
  BY LiveKept
<1>8. pc[u] \in OptikPred => Live(L2, Pred(u))'
  <2>1. SUFFICES ASSUME pc[u] \in OptikPred PROVE Live(L2, Pred(u))'
    OBVIOUS
  <2>2. PICK p \in used : p = Pred(u) /\ Live(L, p) /\ p \notin gone
    BY <1>3, <1>6, <2>1, OptikHere DEF OptikThread, Untouched
  <2>3. Live(L2, p)' /\ Pred(u)' = p
    BY <1>1, <1>7, <2>2
  <2>4. QED BY <2>3 DEF Live, On
<1>9. pc[u] \in {"i_link", "r_lock_curr", "r_unlink"} => Adjacent(L2, u)'
  BY <1>3, <1>6, AdjacentStill DEF OptikThread, Untouched, OptikPred
<1>10. pc[u] = "r_unlock" => Unlinked(L2, u)'
  BY <1>3, <1>6, UnlinkedStill DEF OptikThread, Untouched, OptikCurr
<1>11. pc[u] = "i_next" => Old(Curr(u), loc[u].pver)'
  BY <1>1, <1>2, <1>3 DEF OptikThread, OptikSame, Old
<1>12. pc[u] \in {"r_next", "r_test"} => Old(Curr(u), loc[u].cver)'
  BY <1>1, <1>2, <1>3 DEF OptikThread, OptikSame, Old
<1>13. pc[u] \in {"i_test", "r_ver", "r_test", "r_lock_pred"} => Saw(Pred(u), loc[u].pver, Curr(u))'
  <2>1. SUFFICES ASSUME pc[u] \in {"i_test", "r_ver", "r_test", "r_lock_pred"}
                 PROVE  Saw(Pred(u), loc[u].pver, Curr(u))'
    OBVIOUS
  <2>2. PICK p, v, x : p = Pred(u) /\ v = loc[u].pver /\ x = Curr(u)
    OBVIOUS
  <2>3. p \in used /\ Saw(p, v, x)
    BY <1>3, <2>1, <2>2, OptikHere DEF OptikThread, Reached
  <2>4. Saw(p, v, x)'
    BY <2>3, SawStill
  <2>5. QED BY <1>1, <2>2, <2>4 DEF Saw, Same, Old, Written
<1>14. pc[u] \in {"r_lock_pred", "r_lock_curr"} => Saw(Curr(u), loc[u].cver, loc[u].next)'
  <2>1. SUFFICES ASSUME pc[u] \in {"r_lock_pred", "r_lock_curr"}
                 PROVE  Saw(Curr(u), loc[u].cver, loc[u].next)'
    OBVIOUS
  <2>2. PICK c, v, x : c = Curr(u) /\ v = loc[u].cver /\ x = loc[u].next
    OBVIOUS
  <2>3. c \in used /\ Saw(c, v, x)
    BY <1>2, <1>3, <2>1, <2>2 DEF OptikThread
  <2>4. Saw(c, v, x)'
    BY <2>3, SawStill
  <2>5. QED BY <1>1, <2>2, <2>4 DEF Saw, Same, Old, Written
<1>15. pc[u] = "r_unlink" => On(L2, Curr(u))' /\ node'[Curr(u)'].next = loc'[u].next
  <2>1. SUFFICES ASSUME pc[u] = "r_unlink" PROVE On(L2, Curr(u))' /\ node'[Curr(u)'].next = loc'[u].next
    OBVIOUS
  <2>2. PICK c \in used : c = Curr(u) /\ On(L, c) /\ c \notin gone /\ node'[c].next = loc[u].next
    BY <1>3, <1>6, <2>1 DEF OptikThread, Untouched, OptikCurr, On
  <2>3. On(L2, c)' /\ Curr(u)' = c
    BY <1>1, <1>7, <2>2
  <2>4. QED BY <1>1, <2>2, <2>3 DEF On
<1>16. QED
  BY <1>1, <1>2, <1>3, <1>5, <1>8, <1>9, <1>10, <1>11, <1>12, <1>13, <1>14, <1>15
  DEF OptikThread, OptikOwns, NULL

\* All but what is to be shown for the thread that takes the step.
LEMMA OptikStep ==
  ASSUME NEW L, Core(L), OptikOK(L), NEW t \in Threads, NEW L2, NEW gone, Does(L, L2, gone, t),
         NEW T, Spares(t, T, gone, OptikPred, OptikCurr), OptikOwns(t)' \subseteq OptikOwns(t) \cup T,
         \A n \in Nodes : ~node'[n].marked, \A n \in used : OptikChange(n), OptikFree(L2)', OptikThread(L2, t)'
  PROVE  Good(L2) /\ OptikOK(L2)'
<1>1. Kept(L, L2, gone) /\ set' = set /\ Others(t) /\ Nodes' = Nodes
  BY SetSame DEF Does, Kept
<1>2. \A n \in used : OptikSame(n)
  BY OptikVersions
<1>3. ASSUME NEW u \in Threads \ {t} PROVE OptikThread(L2, u)'
  <2>1. OptikOwns(u) \subseteq used
    BY OptikHere
  <2>2. \A n \in OptikOwns(u) : Untouched(n, gone)
    BY <2>1 DEF Spares, OptikOwns
  <2>3. Still(u)
    BY <1>1 DEF Others
  <2>4. QED BY <1>1, <1>2, <2>2, <2>3, OptikFrame
<1>4. Exclusive(OptikPred, OptikCurr)'
  BY <1>1, ExclusiveKept DEF OptikOK, Spares, OptikOwns
<1>5. QED BY <1>1, <1>3, <1>4 DEF Good, Does, OptikOK, Unmarked

\* A step of t on nodes that nobody else has locked.
LEMMA OptikSpares ==
  ASSUME NEW L, Core(L), OptikOK(L), NEW t \in Threads, NEW T, NEW gone,
         \A n \in used : n \notin T => Untouched(n, gone),
         \A n \in T : n \in OptikOwns(t) \/ node[n].lock % 2 = 0
  PROVE  Spares(t, T, gone, OptikPred, OptikCurr)
<1>1. ASSUME NEW u \in Threads \ {t} PROVE OptikOwns(u) \cap T = {}
  <2>1. OptikOwns(u) \cap OptikOwns(t) = {}
    BY OptikHere
  <2>2. \A n \in OptikOwns(u) : node[n].lock % 2 = 1
    BY OptikHere
  <2>3. QED BY <2>1, <2>2
<1>2. QED BY <1>1 DEF Spares, OptikOwns

\* A thread that has written to no node, and does not now.
LEMMA OptikQuiet ==
  ASSUME NEW L, Core(L), NEW t \in Threads, set' = set, Others(t),
         pc[t] \notin OptikWrote, pc'[t] \notin OptikWrote,
         NEW n \in used, node'[n].lock = node[n].lock, node'[n].next = node[n].next
  PROVE  OptikChange(n)
<1>1. Written(n)' <=> Written(n)
  BY WrittenKept
<1>2. node[n].lock \in Nat
  BY Here DEF NodeSet
<1>3. QED BY <1>1, <1>2 DEF OptikChange

\* The lists of free nodes, when no lock is given back.
LEMMA OptikFreeKept ==
  ASSUME NEW L, Core(L), OptikOK(L), NEW L2, NEW gone, Kept(L, L2, gone), used' = used,
         \A n \in used : node'[n].lock % 2 = 0 => n \notin gone /\ Live(L, n)
  PROVE  OptikFree(L2)'
<1>1. \A n \in used : n \notin gone => (Live(L2, n)' <=> Live(L, n))
  BY LiveKept
<1>2. QED BY <1>1 DEF OptikFree

\* A step of t that changes nothing that is shared.
LEMMA OptikLocal ==
  ASSUME NEW L, Core(L), OptikOK(L), NEW t \in Threads, Does(L, L, {}, t), Alike,
         pc[t] \notin OptikPred, pc'[t] \notin OptikPred, OptikThread(L, t)'
  PROVE  \E L2 : Good(L2) /\ OptikOK(L2)'
<1>1. PICK gone, T : gone = {} /\ T = {} /\ Does(L, L, gone, t) /\ Kept(L, L, gone)
  BY DEF Does
<1>2. Spares(t, T, gone, OptikPred, OptikCurr)
  BY <1>1 DEF Spares, Untouched, Alike
<1>3. OptikOwns(t)' = {}
  BY DEF OptikOwns, Owns, OptikPred, OptikCurr
<1>4. \A n \in Nodes : ~node'[n].marked
  BY OptikHere DEF Alike
<1>5. \A n \in used : OptikChange(n)
  BY OptikQuiet DEF Does, Alike, OptikPred, OptikWrote
<1>6. OptikFree(L)'
  BY <1>1, OptikFreeKept DEF Alike, OptikOK, OptikFree
<1>7. QED BY <1>1, <1>2, <1>3, <1>4, <1>5, <1>6, OptikStep

LEMMA OptikIdle ==
  ASSUME NEW L, NEW t, pc'[t] = "idle"
  PROVE  OptikThread(L, t)'
BY DEF OptikThread, Owns, OptikPred, OptikCurr

\* At the start of a call, and when it starts again.
LEMMA OptikStarts ==
  ASSUME NEW L, NEW t, Before(t)', pc'[t] = call'[t].op, call'[t].op \in Ops, Walking(t)'
  PROVE  OptikThread(L, t)' /\ pc'[t] \notin OptikPred
BY DEF OptikThread, Owns, OptikPred, OptikCurr, Ops

LEMMA OptikInvoke ==
  ASSUME NEW L, Core(L), OptikOK(L), NEW t \in Threads, NEW c \in Calls, Invoke(t, c)
  PROVE  \E L2 : Good(L2) /\ OptikOK(L2)'
<1>1. /\ Core(L)' /\ Kept(L, L, {}) /\ Others(t) /\ Before(t)' /\ pc[t] = "idle"
      /\ call'[t] = c /\ Curr(t)' = min(addr(c.key)) /\ pc'[t] = c.op /\ c.op \in Ops
      /\ c.key \in Keys
  BY CoreInvoke
<1>2. Alike
  BY DEF Invoke, heap, Alike
<1>3. Lin
  BY DEF Invoke, Lin
<1>4. Does(L, L, {}, t)
  BY <1>1, <1>2, <1>3 DEF Does, Frozen, Alike
<1>5. Walking(t)'
  <2>1. Key(t)' = c.key
    BY <1>1 DEF Key
  <2>2. node[min(addr(c.key))].key = 0 /\ 0 < c.key
    BY <1>1, Here, HeapFacts, KeyBounds DEF HeapProps
  <2>3. QED BY <1>1, <1>2, <2>1, <2>2 DEF Walking, Alike
<1>6. OptikThread(L, t)' /\ pc'[t] \notin OptikPred
  BY <1>1, <1>5, OptikStarts
<1>7. QED BY <1>1, <1>2, <1>4, <1>6, OptikLocal DEF OptikPred

LEMMA OptikSearchNext ==
  ASSUME NEW L, Core(L), OptikOK(L), NEW t \in Threads, SearchNext(t)
  PROVE  \E L2 : Good(L2) /\ OptikOK(L2)'
<1>1. OptikThread(L, t) /\ pc[t] = "search" /\ Before(t)
  BY OptikHere DEF SearchNext, OptikThread, OptikPred
<1>2. Does(L, L, {}, t) /\ pc'[t] = "search" /\ call'[t] = call[t] /\ Before(t)' /\ Alike
  BY <1>1, DoSearchNext
<1>3. OptikThread(L, t)' /\ pc'[t] \notin OptikPred
  BY <1>1, <1>2 DEF OptikThread, Owns, OptikPred, OptikCurr
<1>4. QED BY <1>1, <1>2, <1>3, OptikLocal DEF OptikPred

\* search, or an update that changes nothing, returns.
LEMMA OptikAnswer ==
  ASSUME NEW L, Core(L), OptikOK(L), NEW t \in Threads, Before(t), pc[t] \notin OptikPred,
         NEW r, Rightful(t, r), r \in Vals \cup {0, 1}, Answer(t, r)
  PROVE  \E L2 : Good(L2) /\ OptikOK(L2)'
<1>1. Alike /\ Return(t, r)
  BY DEF Answer, Alike, heap
<1>2. LocksOnly /\ InCall(t)
  BY <1>1, AlikeLocks DEF Core, Before
<1>3. Does(L, L, {}, t) /\ pc'[t] = "idle"
  BY <1>1, <1>2, DoAnswer
<1>4. OptikThread(L, t)' /\ pc'[t] \notin OptikPred
  BY <1>3, OptikIdle DEF OptikPred
<1>5. QED BY <1>1, <1>3, <1>4, OptikLocal

LEMMA OptikSearchEnd ==
  ASSUME NEW L, Core(L), OptikOK(L), NEW t \in Threads, SearchEnd(t)
  PROVE  \E L2 : Good(L2) /\ OptikOK(L2)'
<1>1. pc[t] = "search" /\ node[Curr(t)].key >= Key(t) /\ Answer(t, Val(t))
  BY DEF SearchEnd, KeyOf
<1>2. OptikThread(L, t) /\ Before(t) /\ call[t].op = "search" /\ Curr(t) \in used /\ used \subseteq Nodes
  BY <1>1, OptikHere, Here DEF OptikThread, OptikPred
<1>3. ~node[Curr(t)].marked
  BY <1>2, OptikHere
<1>4. Val(t) = ValOf(Curr(t), Key(t))
  BY <1>3 DEF Val, ValOf, KeyOf, None, Abs!None
<1>5. Rightful(t, Val(t)) /\ Val(t) \in Vals \cup {0, 1}
  BY <1>1, <1>2, <1>4, Answers
<1>6. QED BY <1>1, <1>2, <1>5, OptikAnswer DEF OptikPred

LEMMA OptikFail ==
  ASSUME NEW L, Core(L), OptikOK(L), NEW t \in Threads, Answer(t, 0),
         \/ pc[t] = "i_test" /\ KeyOf(t) = Key(t)
         \/ pc[t] = "r_test" /\ KeyOf(t) # Key(t)
  PROVE  \E L2 : Good(L2) /\ OptikOK(L2)'
<1>1. /\ OptikThread(L, t) /\ Before(t) /\ Reached(t) /\ Curr(t) \in used /\ used \subseteq Nodes
      /\ pc[t] = "i_test" => call[t].op = "insert"
      /\ pc[t] = "r_test" => call[t].op = "remove"
  BY OptikHere, Here DEF OptikThread, OptikPred
<1>2. ~node[Curr(t)].marked
  BY <1>1, OptikHere
<1>3. node[Curr(t)].key >= Key(t)
  BY <1>1 DEF Reached
<1>4. Rightful(t, 0)
  BY <1>1, <1>2, <1>3, Answers DEF KeyOf
<1>5. PICK r \in Vals \cup {0, 1} : r = 0
  OBVIOUS
<1>6. QED BY <1>1, <1>4, <1>5, OptikAnswer DEF OptikPred

\* A call starts again, from the head.
LEMMA OptikRestart ==
  ASSUME NEW L, Core(L), OptikOK(L), NEW t \in Threads, pc[t] \in {"i_test", "r_lock_pred"},
         Restart(t), UNCHANGED heap, UNCHANGED hist
  PROVE  \E L2 : Good(L2) /\ OptikOK(L2)'
<1>1. Before(t) /\ pc[t] \notin OptikPred
  BY OptikHere DEF OptikThread, OptikPred
<1>2. Alike
  BY DEF Alike, heap
<1>3. LocksOnly
  BY <1>2, AlikeLocks DEF Core
<1>4. /\ Does(L, L, {}, t) /\ call'[t] = call[t] /\ Before(t)'
      /\ pc'[t] = call[t].op /\ call[t].op \in Ops
      /\ node[Curr(t)'].key = 0 /\ 0 < Key(t)
  BY <1>1, <1>3, DoRestart
<1>5. Walking(t)'
  BY <1>2, <1>4 DEF Walking, Key, Alike
<1>6. OptikThread(L, t)' /\ pc'[t] \notin OptikPred
  BY <1>4, <1>5, OptikStarts
<1>7. QED BY <1>1, <1>2, <1>4, <1>6, OptikLocal

LEMMA CverTo ==
  ASSUME NEW r \in Locals, NEW v \in Int
  PROVE  LET l == [r EXCEPT !.cver = v]
         IN  /\ l \in Locals /\ l.curr = r.curr /\ l.pred = r.pred /\ l.next = r.next /\ l.lnext = r.lnext
             /\ l.pver = r.pver /\ l.cver = v
<1> DEFINE l == [r EXCEPT !.cver = v]
<1>1. l \in Locals
  BY DEF Locals
<1>2. QED BY <1>1 DEF Locals

\* Where a call of this list stands.
LEMMA OptikAt ==
  ASSUME NEW L, Core(L), OptikOK(L), NEW t \in Threads, Before(t)
  PROVE  /\ OptikThread(L, t) /\ Curr(t) \in used /\ Key(t) \in Keys /\ Key(t) \in Int
         /\ node[Curr(t)].key \in Int /\ node[Curr(t)].lock \in Nat /\ node[Curr(t)].lock \in Int
         /\ loc[t] \in Locals /\ loc[t].next \in used \cup {NULL} /\ loc[t].lnext = NULL
         /\ Pred(t) \in used \cup {NULL}
<1>1. /\ OptikThread(L, t) /\ Curr(t) \in used /\ HeapOK /\ ChainOK(L) /\ ThreadOK(L, t) /\ used \subseteq Nodes
      /\ node \in [Nodes -> NodeSet]
  BY OptikHere, Here
<1>2. Key(t) \in Keys
  BY Here, CallKey DEF Before
<1>3. node[Curr(t)].key \in Int /\ Key(t) \in Int
  BY <1>1, <1>2, ChainFacts, KeyBounds DEF ChainProps
<1>4. node[Curr(t)].lock \in Nat
  BY <1>1 DEF NodeSet
<1>5. QED BY <1>1, <1>2, <1>3, <1>4, LocalTypes DEF ThreadOK

\* insert reads the version of the node it stands on.
OptikReadsPver(t) ==
  /\ pc[t] = "insert" /\ pc' = [pc EXCEPT ![t] = "i_next"]
  /\ loc' = [loc EXCEPT ![t].pver = node[Curr(t)].lock] /\ UNCHANGED heap /\ UNCHANGED hist

LEMMA OptikInsertVersion ==
  ASSUME NEW L, Core(L), OptikOK(L), NEW t \in Threads, OptikReadsPver(t)
  PROVE  \E L2 : Good(L2) /\ OptikOK(L2)'
<1>1. Before(t) /\ pc[t] = "insert"
  BY OptikHere DEF OptikThread, OptikReadsPver, OptikPred
<1>2. /\ OptikThread(L, t) /\ Walking(t) /\ call[t].op = "insert"
      /\ Curr(t) \in used /\ loc[t] \in Locals /\ loc[t].next \in used \cup {NULL}
  BY <1>1, OptikAt DEF OptikThread
<1>3. PICK w \in Int : w = node[Curr(t)].lock /\ w \in Nat
  BY <1>1, OptikAt
<1>4. PICK l \in Locals : /\ l = [loc[t] EXCEPT !.pver = w] /\ l.curr = Curr(t) /\ l.pred = Pred(t)
                          /\ l.next = loc[t].next /\ l.lnext = loc[t].lnext /\ l.pver = w
  BY <1>2, PverTo DEF Curr, Pred
<1>5. PICK q : q = "i_next" /\ q # "idle" /\ Goes(t, q, l)
  BY <1>3, <1>4 DEF Goes, OptikReadsPver
<1>6. Stands(L, t, l) /\ UNCHANGED heap /\ UNCHANGED hist
  BY <1>1, <1>2, <1>4, StandsSame DEF OptikReadsPver
<1>7. /\ Does(L, L, {}, t) /\ pc'[t] = q /\ loc'[t] = l /\ call'[t] = call[t] /\ Before(t)' /\ Alike
      /\ Pred(t)' = l.pred /\ Curr(t)' = l.curr /\ Key(t)' = Key(t) /\ node' = node
  BY <1>1, <1>5, <1>6, LocalStep
<1>8. Old(Curr(t), loc[t].pver)' /\ Walking(t)'
  BY <1>2, <1>3, <1>4, <1>7 DEF Old, Walking
<1>9. OptikThread(L, t)' /\ pc'[t] \notin OptikPred
  BY <1>2, <1>5, <1>7, <1>8 DEF OptikThread, Owns, OptikPred, OptikCurr
<1>10. QED BY <1>1, <1>7, <1>9, OptikLocal DEF OptikPred

\* remove reads the version of the node it stands on: the head, or the next one.
OptikReadsCver(t) ==
  /\ \/ pc[t] = "remove" /\ pc' = [pc EXCEPT ![t] = "r_next"]
     \/ /\ pc[t] = "r_ver"
        /\ pc' = [pc EXCEPT ![t] = IF node[Curr(t)].key < Key(t) THEN "r_next" ELSE "r_test"]
  /\ loc' = [loc EXCEPT ![t].cver = node[Curr(t)].lock] /\ UNCHANGED heap /\ UNCHANGED hist

LEMMA OptikRemoveVersion ==
  ASSUME NEW L, Core(L), OptikOK(L), NEW t \in Threads, OptikReadsCver(t)
  PROVE  \E L2 : Good(L2) /\ OptikOK(L2)'
<1>1. Before(t) /\ pc[t] \in {"remove", "r_ver"}
  BY OptikHere DEF OptikThread, OptikReadsCver, OptikPred
<1>2. /\ OptikThread(L, t) /\ call[t].op = "remove"
      /\ pc[t] = "remove" => Walking(t)
      /\ pc[t] = "r_ver" => Pred(t) # NULL /\ Saw(Pred(t), loc[t].pver, Curr(t))
      /\ Curr(t) \in used /\ loc[t] \in Locals /\ loc[t].next \in used \cup {NULL}
      /\ node[Curr(t)].key \in Int /\ Key(t) \in Int
  BY <1>1, OptikAt DEF OptikThread, OptikPred
<1>3. PICK w \in Int : w = node[Curr(t)].lock /\ w \in Nat
  BY <1>1, OptikAt
<1>4. PICK l \in Locals : /\ l = [loc[t] EXCEPT !.cver = w] /\ l.curr = Curr(t) /\ l.pred = Pred(t)
                          /\ l.next = loc[t].next /\ l.lnext = loc[t].lnext /\ l.cver = w /\ l.pver = loc[t].pver
  BY <1>2, CverTo DEF Curr, Pred
<1>5. PICK q : /\ q # "idle" /\ Goes(t, q, l)
               /\ \/ q = "r_next" /\ Walking(t)
                  \/ q = "r_test" /\ pc[t] = "r_ver" /\ node[Curr(t)].key >= Key(t)
  <2>1. PICK q : /\ pc' = [pc EXCEPT ![t] = q]
                 /\ \/ q = "r_next" /\ Walking(t)
                    \/ q = "r_test" /\ pc[t] = "r_ver" /\ node[Curr(t)].key >= Key(t)
    <3>1. CASE pc[t] = "remove"
      BY <1>2, <3>1 DEF OptikReadsCver
    <3>2. CASE pc[t] = "r_ver" /\ node[Curr(t)].key < Key(t)
      BY <3>2 DEF OptikReadsCver, Walking
    <3>3. CASE pc[t] = "r_ver" /\ node[Curr(t)].key >= Key(t)
      BY <1>2, <3>3 DEF OptikReadsCver
    <3>4. QED BY <1>1, <1>2, <3>1, <3>2, <3>3
  <2>2. loc' = [loc EXCEPT ![t] = l]
    BY <1>3, <1>4 DEF OptikReadsCver
  <2>3. QED BY <2>1, <2>2 DEF Goes
<1>6. Stands(L, t, l) /\ UNCHANGED heap /\ UNCHANGED hist
  BY <1>1, <1>2, <1>4, StandsSame DEF OptikReadsCver
<1>7. /\ Does(L, L, {}, t) /\ pc'[t] = q /\ loc'[t] = l /\ call'[t] = call[t] /\ Before(t)' /\ Alike
      /\ Pred(t)' = Pred(t) /\ Curr(t)' = Curr(t) /\ Key(t)' = Key(t) /\ node' = node
  <2>1. q # "idle" /\ Goes(t, q, l)
    BY <1>5
  <2>2. /\ Does(L, L, {}, t) /\ pc'[t] = q /\ loc'[t] = l /\ call'[t] = call[t] /\ Before(t)' /\ Alike
        /\ Pred(t)' = l.pred /\ Curr(t)' = l.curr /\ Key(t)' = Key(t) /\ node' = node
    BY <1>1, <1>6, <2>1, LocalStep
  <2>3. QED BY <1>4, <2>2
<1>8. Old(Curr(t), loc[t].cver)'
  BY <1>3, <1>4, <1>7 DEF Old
<1>9. /\ q = "r_next" => Walking(t)'
      /\ q = "r_test" => Reached(t)' /\ Pred(t)' # NULL
  BY <1>2, <1>5, <1>7 DEF Walking, Reached, NULL
<1>10. q = "r_test" => Saw(Pred(t), loc[t].pver, Curr(t))'
  <2>1. SUFFICES ASSUME q = "r_test" PROVE Saw(Pred(t), loc[t].pver, Curr(t))'
    OBVIOUS
  <2>2. PICK p, v, x : p = Pred(t) /\ v = loc[t].pver /\ x = Curr(t)
    OBVIOUS
  <2>3. Saw(p, v, x) /\ p \in used
    BY <1>1, <1>2, <1>5, <2>1, <2>2, OptikAt
  <2>4. OptikSame(p)
    <3>1. pc[t] \notin OptikWrote /\ pc'[t] \notin OptikWrote
      BY <1>1, <1>5, <1>7 DEF OptikWrote
    <3>2. OptikChange(p)
      BY <1>7, <2>3, <3>1, OptikQuiet DEF Does, Alike
    <3>3. QED BY <3>2, OptikVersions
  <2>5. Saw(p, v, x)'
    BY <2>3, <2>4, SawStill
  <2>6. QED BY <1>4, <1>7, <2>2, <2>5 DEF Saw, Same, Old, Written
<1>11. OptikThread(L, t)' /\ pc'[t] \notin OptikPred
  BY <1>2, <1>5, <1>7, <1>8, <1>9, <1>10 DEF OptikThread, Owns, OptikPred, OptikCurr
<1>12. QED BY <1>1, <1>7, <1>11, OptikLocal DEF OptikPred

\* A call goes on to the next node, and remembers the version of the one it leaves.
OptikWalks(t) ==
  /\ \/ /\ pc[t] = "i_next"
        /\ loc' = [loc EXCEPT ![t].pred = Curr(t), ![t].curr = node[Curr(t)].next]
        /\ pc' = [pc EXCEPT ![t] = IF node[node[Curr(t)].next].key < Key(t) THEN "insert" ELSE "i_test"]
     \/ /\ pc[t] = "r_next" /\ pc' = [pc EXCEPT ![t] = "r_ver"]
        /\ loc' = [loc EXCEPT ![t].pred = Curr(t), ![t].pver = loc[t].cver,
                              ![t].curr = node[Curr(t)].next]
  /\ UNCHANGED heap /\ UNCHANGED hist

LEMMA OptikNext ==
  ASSUME NEW L, Core(L), OptikOK(L), NEW t \in Threads, OptikWalks(t)
  PROVE  \E L2 : Good(L2) /\ OptikOK(L2)'
<1>1. Before(t) /\ pc[t] \in {"i_next", "r_next"}
  BY OptikHere DEF OptikThread, OptikWalks, OptikPred
<1>2. PICK ver \in Int : /\ pc[t] = "i_next" => ver = loc[t].pver
                         /\ pc[t] = "r_next" => ver = loc[t].cver
  BY <1>1, OptikAt DEF Locals
<1>3. /\ OptikThread(L, t) /\ Walking(t) /\ Old(Curr(t), ver) /\ Key(t) \in Int
      /\ pc[t] = "i_next" => call[t].op = "insert"
      /\ pc[t] = "r_next" => call[t].op = "remove"
      /\ Curr(t) \in used /\ loc[t] \in Locals /\ used \subseteq Int /\ NULL \notin used
      /\ ChainOK(L) /\ HeapOK
  BY <1>1, <1>2, OptikAt, LocalTypes, Here DEF OptikThread
<1>4. PICK c \in used, k \in Int : c = Curr(t) /\ k = node[c].key /\ node[c].key < Key(t) /\ c # NULL
  BY <1>1, <1>3, OptikAt DEF Walking
<1>5. PICK x \in Int : x = node[c].next
  <2> DEFINE r == [curr |-> node[c].next, pred |-> NULL, next |-> loc[t].next, lnext |-> loc[t].lnext]
  <2>1. r.curr = node[Curr(t)].next /\ r.pred = NULL /\ r.next = loc[t].next /\ r.lnext = loc[t].lnext
    BY <1>4
  <2> HIDE DEF r
  <2>2. node[Curr(t)].next \in used
    BY <1>1, <1>4, <2>1, StandsNext
  <2>3. QED BY <1>3, <1>4, <2>2
<1>6. PICK l \in Locals : /\ l.curr = x /\ l.pred = c /\ l.next = loc[t].next /\ l.lnext = loc[t].lnext
                          /\ l.pver = ver
                          /\ pc[t] = "i_next" => l = [loc[t] EXCEPT !.pred = c, !.curr = x]
                          /\ pc[t] = "r_next" => l = [loc[t] EXCEPT !.pred = c, !.pver = ver, !.curr = x]
  <2>1. c \in Int
    BY <1>3, <1>4
  <2>2. PICK r \in Locals : r = loc[t]
    BY <1>3
  <2>3. PICK l, m : l = [r EXCEPT !.pred = c, !.curr = x] /\ m = [r EXCEPT !.pred = c, !.pver = ver, !.curr = x]
    OBVIOUS
  <2>4. /\ l \in Locals /\ l.pred = c /\ l.curr = x /\ l.next = r.next /\ l.lnext = r.lnext
        /\ l.pver = r.pver
    <3>1. l \in Locals
      BY <2>1, <2>3 DEF Locals
    <3>2. QED BY <2>3, <3>1 DEF Locals
  <2>5. /\ m \in Locals /\ m.pred = c /\ m.curr = x /\ m.next = r.next /\ m.lnext = r.lnext
        /\ m.pver = ver
    <3>1. m \in Locals
      BY <2>1, <2>3 DEF Locals
    <3>2. QED BY <2>3, <3>1 DEF Locals
  <2>6. CASE pc[t] = "i_next"
    BY <1>2, <2>2, <2>3, <2>4, <2>6
  <2>7. CASE pc[t] = "r_next"
    BY <1>2, <2>2, <2>3, <2>5, <2>7
  <2>8. QED BY <1>1, <2>6, <2>7
<1>7. Stands(L, t, l) /\ x \in used
  BY <1>1, <1>4, <1>5, <1>6, StandsNext
<1>8. loc' = [loc EXCEPT ![t] = l]
  <2>1. CASE pc[t] = "i_next"
    BY <1>4, <1>5, <1>6, <2>1 DEF OptikWalks
  <2>2. CASE pc[t] = "r_next"
    BY <1>2, <1>4, <1>5, <1>6, <2>2 DEF OptikWalks
  <2>3. QED BY <1>1, <2>1, <2>2
<1>9. PICK q : /\ pc' = [pc EXCEPT ![t] = q]
               /\ \/ pc[t] = "i_next" /\ q = "insert" /\ node[x].key < Key(t)
                  \/ pc[t] = "i_next" /\ q = "i_test" /\ ~(node[x].key < Key(t))
                  \/ pc[t] = "r_next" /\ q = "r_ver"
  BY <1>1, <1>4, <1>5 DEF OptikWalks
<1>10. q # "idle" /\ Goes(t, q, l) /\ UNCHANGED heap /\ UNCHANGED hist
  BY <1>8, <1>9 DEF Goes, OptikWalks
<1>11. /\ Does(L, L, {}, t) /\ pc'[t] = q /\ loc'[t] = l /\ call'[t] = call[t] /\ Before(t)' /\ Alike
       /\ Pred(t)' = l.pred /\ Curr(t)' = l.curr /\ Key(t)' = Key(t) /\ node' = node
  BY <1>1, <1>7, <1>10, LocalStep
<1>12. Pred(t)' = c /\ Curr(t)' = x /\ loc'[t].pver = ver /\ c # NULL
  BY <1>4, <1>6, <1>11
<1>13. /\ q = "insert" => Walking(t)'
       /\ q = "i_test" => Reached(t)'
  <2>1. node[x].key \in Int
    BY <1>3, <1>7, ChainFacts DEF ChainProps
  <2>2. QED BY <1>3, <1>9, <1>11, <1>12, <2>1 DEF Walking, Reached, NULL
<1>14. Saw(Pred(t), loc[t].pver, Curr(t))'
  <2>1. Old(c, ver)
    BY <1>3, <1>4
  <2>2. QED BY <1>5, <1>11, <1>12, <2>1 DEF Saw, Old
<1>15. OptikThread(L, t)' /\ pc'[t] \notin OptikPred
  BY <1>3, <1>4, <1>9, <1>11, <1>12, <1>13, <1>14 DEF OptikThread, Owns, OptikPred, OptikCurr, NULL
<1>16. QED BY <1>1, <1>11, <1>15, OptikLocal DEF OptikPred

\* remove reads the successor of the node it is to remove.
OptikReadsNext(t) ==
  /\ pc[t] = "r_test" /\ pc' = [pc EXCEPT ![t] = "r_lock_pred"] /\ node[Curr(t)].key = Key(t)
  /\ loc' = [loc EXCEPT ![t].next = node[Curr(t)].next] /\ UNCHANGED heap /\ UNCHANGED hist

LEMMA OptikRemoveSuccessor ==
  ASSUME NEW L, Core(L), OptikOK(L), NEW t \in Threads, OptikReadsNext(t)
  PROVE  \E L2 : Good(L2) /\ OptikOK(L2)'
<1>1. Before(t) /\ pc[t] = "r_test"
  BY OptikHere DEF OptikThread, OptikReadsNext, OptikPred
<1>2. /\ OptikThread(L, t) /\ call[t].op = "remove" /\ Reached(t) /\ Key(t) \in Keys
      /\ Saw(Pred(t), loc[t].pver, Curr(t)) /\ Old(Curr(t), loc[t].cver)
      /\ Curr(t) \in used /\ loc[t] \in Locals /\ used \subseteq Int /\ NULL \notin used
      /\ HeapOK /\ ChainOK(L) /\ ThreadOK(L, t) /\ Pred(t) \in used
  BY <1>1, OptikAt, LocalTypes, Here DEF OptikThread, Reached
<1>3. PICK x \in Int : x = node[Curr(t)].next /\ x \in used
  <2>1. PICK c \in used, k \in Keys : c = Curr(t) /\ k = Key(t) /\ node[c].key = k
    BY <1>2 DEF OptikReadsNext
  <2>2. node[c].next \in used
    BY <1>2, <2>1, ChainFacts, KeyBounds DEF ChainProps
  <2>3. QED BY <1>2, <2>1, <2>2
<1>4. PICK l \in Locals : /\ l = [loc[t] EXCEPT !.next = x] /\ l.curr = Curr(t) /\ l.pred = Pred(t)
                          /\ l.next = x /\ l.lnext = loc[t].lnext /\ l.cver = loc[t].cver /\ l.pver = loc[t].pver
  BY <1>2, NextTo DEF Curr, Pred
<1>5. PICK q : q = "r_lock_pred" /\ q # "idle" /\ Goes(t, q, l)
  BY <1>3, <1>4 DEF Goes, OptikReadsNext
<1>6. Stands(L, t, l) /\ UNCHANGED heap /\ UNCHANGED hist
  BY <1>1, <1>2, <1>3, <1>4, StandsSame DEF OptikReadsNext
<1>7. /\ Does(L, L, {}, t) /\ pc'[t] = q /\ loc'[t] = l /\ call'[t] = call[t] /\ Before(t)' /\ Alike
      /\ Pred(t)' = l.pred /\ Curr(t)' = l.curr /\ Key(t)' = Key(t) /\ node' = node
  BY <1>1, <1>5, <1>6, LocalStep
<1>8. Saw(Curr(t), loc[t].cver, loc[t].next)'
  BY <1>2, <1>3, <1>4, <1>7 DEF Saw, Old
<1>9. Saw(Pred(t), loc[t].pver, Curr(t))'
  <2>1. PICK p, v, c : p = Pred(t) /\ v = loc[t].pver /\ c = Curr(t)
    OBVIOUS
  <2>2. Saw(p, v, c) /\ p \in used
    BY <1>2, <2>1
  <2>3. OptikSame(p)
    <3>1. pc[t] \notin OptikWrote /\ pc'[t] \notin OptikWrote
      BY <1>1, <1>5, <1>7 DEF OptikWrote
    <3>2. OptikChange(p)
      BY <1>7, <2>2, <3>1, OptikQuiet DEF Does, Alike
    <3>3. QED BY <3>2, OptikVersions
  <2>4. Saw(p, v, c)'
    BY <2>2, <2>3, SawStill
  <2>5. QED BY <1>4, <1>7, <2>1, <2>4 DEF Saw, Same, Old, Written
<1>10. OptikThread(L, t)' /\ pc'[t] \notin OptikPred
  <2>1. loc'[t].next # NULL /\ node'[Curr(t)'].key = Key(t)' /\ Reached(t)'
    <3>1. Pred(t)' = Pred(t) /\ Curr(t)' = Curr(t) /\ Key(t)' = Key(t) /\ node' = node
      BY <1>4, <1>7
    <3>2. loc'[t].next # NULL
      BY <1>2, <1>3, <1>4, <1>7
    <3>3. node'[Curr(t)'].key = Key(t)'
      BY <3>1 DEF OptikReadsNext
    <3>4. QED BY <1>2, <3>1, <3>2, <3>3 DEF Reached
  <2>2. QED BY <1>2, <1>5, <1>7, <1>8, <1>9, <2>1 DEF OptikThread, Owns, OptikPred, OptikCurr, Reached
<1>11. QED BY <1>1, <1>7, <1>10, OptikLocal DEF OptikPred

\* optik_trylock_version gets the lock of node n, whose version v is even.
OptikTakes(t, n, v, q) ==
  /\ v \in Nat /\ v % 2 = 0 /\ node[n].lock = v /\ SetLock(n, v + 1)
  /\ q # "idle" /\ q \notin OptikWrote /\ pc[t] \notin OptikWrote
  /\ pc' = [pc EXCEPT ![t] = q] /\ UNCHANGED loc /\ UNCHANGED hist

LEMMA OptikTaken ==
  ASSUME NEW L, Core(L), OptikOK(L), NEW t \in Threads, Before(t), NEW n \in used, NEW v, NEW q,
         OptikTakes(t, n, v, q)
  PROVE  /\ Does(L, L, {}, t) /\ pc'[t] = q /\ loc'[t] = loc[t] /\ call'[t] = call[t] /\ Before(t)'
         /\ Pred(t)' = Pred(t) /\ Curr(t)' = Curr(t) /\ Key(t)' = Key(t)
         /\ Live(L, n) /\ Live(L, n)' /\ LockSet(n, v + 1)
         /\ \A m \in used : OptikSame(m)
         /\ OptikThread(L, t)' /\ OptikOwns(t)' \subseteq OptikOwns(t) \cup {n} =>
              \E L2 : Good(L2) /\ OptikOK(L2)'
<1>1. /\ used \subseteq Nodes /\ n \in Nodes /\ HeapOK /\ \A m \in Nodes : ~node[m].marked
      /\ node \in [Nodes -> NodeSet]
  BY OptikHere, Here
<1>2. PICK w \in Nat : w = v + 1 /\ SetLock(n, w)
  BY DEF OptikTakes
<1>3. Onward(t, q) /\ UNCHANGED hist
  BY DEF Onward, OptikTakes
<1>4. /\ Does(L, L, {}, t) /\ pc'[t] = q /\ loc'[t] = loc[t] /\ call'[t] = call[t] /\ Before(t)'
      /\ LockSet(n, w)
  BY <1>2, <1>3, DoLock
<1>5. PICK gone, T : gone = {} /\ T = {n} /\ Does(L, L, gone, t) /\ Kept(L, L, gone)
  BY <1>4 DEF Does
<1>6. Pred(t)' = Pred(t) /\ Curr(t)' = Curr(t) /\ Key(t)' = Key(t)
  BY <1>4 DEF Pred, Curr, Key
<1>7. Live(L, n) /\ Live(L, n)'
  <2>1. Live(L, n)
    BY DEF OptikTakes, OptikOK, OptikFree
  <2>2. QED BY <1>5, <2>1, LiveKept
<1>8. Spares(t, T, gone, OptikPred, OptikCurr)
  <2>1. \A m \in used : m \notin T => Untouched(m, gone)
    BY <1>1, <1>4, <1>5 DEF Untouched, LockSet
  <2>2. \A m \in T : node[m].lock % 2 = 0
    BY <1>5 DEF OptikTakes
  <2>3. QED BY <2>1, <2>2, OptikSpares
<1>9. ASSUME NEW m \in used PROVE OptikChange(m)
  <2>1. CASE m = n
    <3>1. node'[m].lock = node[m].lock + 1 /\ node'[m].next = node[m].next /\ node[m].lock % 2 = 0
          /\ node[m].lock \in Nat /\ node'[m].lock \in Nat
      BY <1>1, <1>2, <1>4, <2>1 DEF LockSet, OptikTakes
    <3>2. QED BY <3>1 DEF OptikChange
  <2>2. CASE m # n
    <3>1. node'[m].lock = node[m].lock /\ node'[m].next = node[m].next
      BY <1>1, <1>4, <2>2 DEF LockSet
    <3>2. set' = set /\ Others(t)
      BY <1>4 DEF LockSet, Does
    <3>3. pc[t] \notin OptikWrote /\ pc'[t] \notin OptikWrote
      BY <1>4 DEF OptikTakes
    <3>4. QED BY <3>1, <3>2, <3>3, OptikQuiet
  <2>3. QED BY <2>1, <2>2
<1>10. OptikFree(L)'
  <2>1. ASSUME NEW m \in used, node'[m].lock % 2 = 0 PROVE m \notin gone /\ Live(L, m)
    <3>1. m # n
      <4>1. w % 2 = 1
        BY <1>2 DEF OptikTakes
      <4>2. node'[n].lock = w
        BY <1>1, <1>4 DEF LockSet
      <4>3. QED BY <2>1, <4>1, <4>2
    <3>2. node[m].lock % 2 = 0
      BY <1>1, <1>4, <2>1, <3>1 DEF LockSet
    <3>3. QED BY <1>5, <3>2 DEF OptikOK, OptikFree
  <2>2. used' = used
    BY <1>4 DEF LockSet
  <2>3. QED BY <1>5, <2>1, <2>2, OptikFreeKept
<1>11. \A m \in Nodes : ~node'[m].marked
  BY <1>1, <1>4 DEF LockSet
<1>12. \A m \in used : OptikSame(m)
  BY <1>9, OptikVersions
<1>13. OptikThread(L, t)' /\ OptikOwns(t)' \subseteq OptikOwns(t) \cup {n} => \E L2 : Good(L2) /\ OptikOK(L2)'
  <2>1. SUFFICES ASSUME OptikThread(L, t)', OptikOwns(t)' \subseteq OptikOwns(t) \cup {n}
                 PROVE  \E L2 : Good(L2) /\ OptikOK(L2)'
    OBVIOUS
  <2>2. QED BY <1>5, <1>8, <1>9, <1>10, <1>11, <2>1, OptikStep
<1>14. QED BY <1>2, <1>4, <1>6, <1>7, <1>12, <1>13

\* A call gets the lock of node n, that still has version v.
OptikGets(t, n, v, from, to) ==
  /\ pc[t] = from /\ optik_trylock_version(node[n].lock, v) /\ SetLock(n, optik_locked(v))
  /\ pc' = [pc EXCEPT ![t] = to] /\ UNCHANGED loc /\ UNCHANGED hist

LEMMA OptikGetsTakes ==
  ASSUME NEW L, Core(L), OptikOK(L), NEW t \in Threads, NEW n \in used, NEW v, NEW from, NEW to,
         OptikGets(t, n, v, from, to), from \notin OptikWrote, to \notin OptikWrote, to # "idle"
  PROVE  OptikTakes(t, n, v, to)
<1>1. node[n].lock \in Nat
  BY Here DEF NodeSet
<1>2. PICK w \in Nat : w = node[n].lock /\ w = v
  BY <1>1 DEF OptikGets, optik_trylock_version
<1>3. v % 2 = 0
  BY <1>2 DEF OptikGets, optik_trylock_version, optik_is_locked
<1>4. QED BY <1>2, <1>3 DEF OptikGets, OptikTakes, optik_locked

\* The predecessor is locked, and still the neighbour of the node t stands on.
LEMMA OptikLockPred ==
  ASSUME NEW L, Core(L), OptikOK(L), NEW t \in Threads,
         NEW from, NEW to, OptikGets(t, Pred(t), loc[t].pver, from, to),
         \/ from = "i_test" /\ to = "i_link" /\ KeyOf(t) # Key(t)
         \/ from = "r_lock_pred" /\ to = "r_lock_curr"
  PROVE  \E L2 : Good(L2) /\ OptikOK(L2)'
<1>1. Before(t) /\ pc[t] \in {"i_test", "r_lock_pred"} /\ pc[t] = from
  BY OptikHere DEF OptikThread, OptikGets, OptikPred
<1>2. /\ OptikThread(L, t) /\ Reached(t) /\ Saw(Pred(t), loc[t].pver, Curr(t)) /\ Curr(t) \in used /\ Pred(t) \in used
      /\ used \subseteq Nodes
      /\ from = "i_test" => call[t].op = "insert"
      /\ from = "r_lock_pred" => /\ call[t].op = "remove" /\ Saw(Curr(t), loc[t].cver, loc[t].next)
                                 /\ loc[t].next # NULL /\ node[Curr(t)].key = Key(t)
  BY <1>1, OptikAt, Here DEF OptikThread, Reached
<1>3. PICK p \in used, c \in used : p = Pred(t) /\ c = Curr(t) /\ p \in Nodes /\ c \in Nodes /\ p # NULL
  BY <1>2 DEF Reached
<1>4. PICK v, x : v = loc[t].pver /\ x = loc[t].next
  OBVIOUS
<1>5. OptikTakes(t, p, v, to)
  <2>1. OptikGets(t, p, v, from, to)
    BY <1>3, <1>4
  <2>2. from \notin OptikWrote /\ to \notin OptikWrote /\ to # "idle"
    BY <1>1 DEF OptikWrote
  <2>3. QED BY <2>1, <2>2, OptikGetsTakes
<1>6. /\ Does(L, L, {}, t) /\ pc'[t] = to /\ loc'[t] = loc[t] /\ call'[t] = call[t] /\ Before(t)'
      /\ Pred(t)' = Pred(t) /\ Curr(t)' = Curr(t) /\ Key(t)' = Key(t)
      /\ Live(L, p) /\ Live(L, p)' /\ LockSet(p, v + 1)
      /\ \A m \in used : OptikSame(m)
      /\ OptikThread(L, t)' /\ OptikOwns(t)' \subseteq OptikOwns(t) \cup {p} =>
              \E L2 : Good(L2) /\ OptikOK(L2)'
  BY <1>1, <1>5, OptikTaken
<1>7. OptikOwns(t)' = {p} /\ to \in OptikPred /\ to \notin OptikCurr
  <2>1. to \in OptikPred /\ to \notin OptikCurr
    BY DEF OptikPred, OptikCurr
  <2>2. QED BY <1>3, <1>6, <2>1 DEF OptikOwns, Owns
<1>8. node'[p].next = c /\ node'[c].key = node[c].key /\ node'[p].lock % 2 = 1
  <2>1. v \in Nat /\ v % 2 = 0 /\ node[p].lock = v
    BY <1>5 DEF OptikTakes
  <2>2. node[p].next = c
    BY <1>2, <1>3, <1>4, <2>1 DEF Saw, Same
  <2>3. node'[p].next = node[p].next /\ node'[p].lock = v + 1 /\ node'[c].key = node[c].key
    BY <1>3, <1>6 DEF LockSet
  <2>4. QED BY <2>1, <2>2, <2>3
<1>9. Live(L, Pred(t))'
  BY <1>3, <1>6 DEF Live, On
<1>10. Adjacent(L, t)' /\ Reached(t)'
  BY <1>2, <1>3, <1>6, <1>8, <1>9 DEF Adjacent, Reached, NULL
<1>11. to = "i_link" => node'[Curr(t)'].key # Key(t)'
  BY <1>1, <1>3, <1>6, <1>8 DEF KeyOf
<1>12. to = "r_lock_curr" => /\ Saw(Curr(t), loc[t].cver, loc[t].next)'
                             /\ loc'[t].next # NULL /\ node'[Curr(t)'].key = Key(t)'
  <2>1. SUFFICES ASSUME to = "r_lock_curr"
                 PROVE  /\ Saw(Curr(t), loc[t].cver, loc[t].next)'
                        /\ loc'[t].next # NULL /\ node'[Curr(t)'].key = Key(t)'
    OBVIOUS
  <2>2. PICK cv : cv = loc[t].cver
    OBVIOUS
  <2>3. Saw(c, cv, x) /\ loc[t].next # NULL /\ node[c].key = Key(t)
    BY <1>1, <1>2, <1>3, <1>4, <2>1, <2>2
  <2>4. Saw(c, cv, x)'
    BY <1>6, <2>3, SawStill
  <2>5. Saw(Curr(t), loc[t].cver, loc[t].next)'
    BY <1>3, <1>4, <1>6, <2>2, <2>4 DEF Saw, Same, Old, Written
  <2>6. QED BY <1>3, <1>6, <1>8, <2>3, <2>5
<1>13. OptikThread(L, t)'
  <2>1. \A n \in Owns(t, OptikPred, OptikCurr)' : node'[n].lock % 2 = 1
    BY <1>7, <1>8 DEF OptikOwns
  <2>2. CASE to = "i_link"
    BY <1>1, <1>2, <1>3, <1>6, <1>7, <1>9, <1>10, <1>11, <2>1, <2>2 DEF OptikThread, OptikPred, OptikCurr
  <2>3. CASE to = "r_lock_curr"
    BY <1>1, <1>2, <1>3, <1>6, <1>7, <1>9, <1>10, <1>12, <2>1, <2>3 DEF OptikThread, OptikPred, OptikCurr
  <2>4. QED BY <2>2, <2>3
<1>14. QED BY <1>6, <1>7, <1>13

\* The node to remove is locked too, and its successor is the one that was read.
LEMMA OptikLockCurr ==
  ASSUME NEW L, Core(L), OptikOK(L), NEW t \in Threads,
         OptikGets(t, Curr(t), loc[t].cver, "r_lock_curr", "r_unlink")
  PROVE  \E L2 : Good(L2) /\ OptikOK(L2)'
<1>1. Before(t) /\ pc[t] = "r_lock_curr"
  BY OptikHere DEF OptikThread, OptikGets
<1>2. /\ OptikThread(L, t) /\ Reached(t) /\ Saw(Curr(t), loc[t].cver, loc[t].next) /\ Curr(t) \in used
      /\ Pred(t) \in used /\ used \subseteq Nodes /\ Adjacent(L, t) /\ HeapOK /\ Key(t) \in Keys
      /\ call[t].op = "remove" /\ loc[t].next # NULL /\ node[Curr(t)].key = Key(t)
  BY <1>1, OptikAt, Here DEF OptikThread, Reached
<1>3. PICK p \in used, c \in used : /\ p = Pred(t) /\ c = Curr(t) /\ p \in Nodes /\ c \in Nodes /\ p # NULL
                                    /\ node[p].next = c /\ node[c].key = Key(t)
  BY <1>2 DEF Adjacent
<1>4. PICK v, x : v = loc[t].cver /\ x = loc[t].next
  OBVIOUS
<1>5. OptikTakes(t, c, v, "r_unlink")
  <2>1. OptikGets(t, c, v, "r_lock_curr", "r_unlink")
    BY <1>3, <1>4
  <2>2. QED BY <2>1, OptikGetsTakes DEF OptikWrote
<1>6. /\ Does(L, L, {}, t) /\ pc'[t] = "r_unlink" /\ loc'[t] = loc[t] /\ call'[t] = call[t] /\ Before(t)'
      /\ Pred(t)' = Pred(t) /\ Curr(t)' = Curr(t) /\ Key(t)' = Key(t)
      /\ Live(L, c) /\ Live(L, c)' /\ LockSet(c, v + 1)
      /\ OptikThread(L, t)' /\ OptikOwns(t)' \subseteq OptikOwns(t) \cup {c} =>
              \E L2 : Good(L2) /\ OptikOK(L2)'
  BY <1>1, <1>5, OptikTaken
<1>7. OptikOwns(t)' = {p, c} /\ OptikOwns(t) = {p}
  BY <1>1, <1>3, <1>6 DEF OptikOwns, Owns, OptikPred, OptikCurr
<1>8. v \in Nat /\ v % 2 = 0 /\ node[c].lock = v /\ node[p].lock % 2 = 1 /\ node[c].next = x
  <2>1. v \in Nat /\ v % 2 = 0 /\ node[c].lock = v
    BY <1>5 DEF OptikTakes
  <2>2. node[c].next = x
    BY <1>2, <1>3, <1>4, <2>1 DEF Saw, Same
  <2>3. node[p].lock % 2 = 1
    BY <1>7, OptikHere
  <2>4. QED BY <2>1, <2>2, <2>3
<1>9. p # c
  BY <1>8
<1>10. /\ node'[p].next = c /\ node'[c].next = x /\ node'[c].key = node[c].key
       /\ node'[p].lock % 2 = 1 /\ node'[c].lock % 2 = 1
  <2>1. /\ node'[p].next = node[p].next /\ node'[c].next = node[c].next /\ node'[c].key = node[c].key
        /\ node'[p].lock = node[p].lock /\ node'[c].lock = v + 1
    BY <1>3, <1>6, <1>9 DEF LockSet
  <2>2. QED BY <1>3, <1>8, <2>1
<1>11. Live(L, Pred(t))' /\ Adjacent(L, t)' /\ Reached(t)'
  <2>1. Live(L, p) /\ Kept(L, L, {})
    BY <1>2, <1>3, <1>6 DEF Adjacent, Does
  <2>2. Live(L, p)'
    BY <2>1, LiveKept
  <2>3. Live(L, Pred(t))'
    BY <1>3, <1>6, <2>2 DEF Live, On
  <2>4. QED BY <1>2, <1>3, <1>6, <1>10, <2>3 DEF Adjacent, Reached, NULL
<1>12. On(L, Curr(t))' /\ node'[Curr(t)'].next = loc'[t].next
  <2>1. On(L, c)
    <3>1. c \notin Sentinels
      BY <1>2, <1>3, HeapFacts, KeyBounds DEF HeapProps
    <3>2. QED BY <1>6, <3>1 DEF Live
  <2>2. On(L, c)'
    <3>1. Kept(L, L, {}) /\ c \notin {}
      BY <1>6 DEF Does
    <3>2. QED BY <2>1, <3>1, LiveKept
  <2>3. QED BY <1>3, <1>4, <1>6, <1>10, <2>2 DEF On
<1>13. \A n \in Owns(t, OptikPred, OptikCurr)' : node'[n].lock % 2 = 1
  BY <1>7, <1>10 DEF OptikOwns
<1>14. OptikThread(L, t)'
  BY <1>2, <1>3, <1>4, <1>6, <1>10, <1>11, <1>12, <1>13 DEF OptikThread, OptikPred, OptikCurr
<1>15. QED BY <1>6, <1>7, <1>14

\* The second lock is not to be had: the first one is to be reverted.
LEMMA OptikGivesUp ==
  ASSUME NEW L, Core(L), OptikOK(L), NEW t \in Threads, pc[t] = "r_lock_curr",
         pc' = [pc EXCEPT ![t] = "r_revert"], UNCHANGED heap, UNCHANGED hist, UNCHANGED loc
  PROVE  \E L2 : Good(L2) /\ OptikOK(L2)'
<1>1. /\ OptikThread(L, t) /\ Before(t) /\ call[t].op = "remove" /\ Pred(t) # NULL /\ Live(L, Pred(t))
      /\ Pred(t) \in used /\ \A n \in Nodes : ~node[n].marked
      /\ \A n \in Owns(t, OptikPred, OptikCurr) : node[n].lock % 2 = 1
  BY OptikHere DEF OptikThread, OptikPred
<1>2. PICK q : q = "r_revert" /\ q # "idle" /\ pc' = [pc EXCEPT ![t] = q]
  OBVIOUS
<1>3. /\ Does(L, L, {}, t) /\ pc'[t] = q /\ loc'[t] = loc[t] /\ call'[t] = call[t] /\ Before(t)' /\ Alike
      /\ Pred(t)' = Pred(t) /\ Curr(t)' = Curr(t) /\ Key(t)' = Key(t) /\ node' = node
  BY <1>1, <1>2, StayStep
<1>4. PICK gone, T : gone = {} /\ T = {} /\ Does(L, L, gone, t) /\ Kept(L, L, gone)
  BY <1>3 DEF Does
<1>5. Spares(t, T, gone, OptikPred, OptikCurr)
  BY <1>3, <1>4 DEF Spares, Untouched, Alike
<1>6. Owns(t, OptikPred, OptikCurr)' = Owns(t, OptikPred, OptikCurr) /\ OptikOwns(t)' = OptikOwns(t)
  BY <1>2, <1>3 DEF OptikOwns, Owns, OptikPred, OptikCurr
<1>7. \A n \in Nodes : ~node'[n].marked
  BY <1>1, <1>3
<1>8. \A n \in used : OptikChange(n)
  BY <1>2, <1>3, OptikQuiet DEF Does, Alike, OptikWrote
<1>9. OptikFree(L)'
  BY <1>3, <1>4, OptikFreeKept DEF Alike, OptikOK, OptikFree
<1>10. Live(L, Pred(t))'
  <2>1. PICK p \in used : p = Pred(t) /\ Live(L, p) /\ p \notin gone
    BY <1>1, <1>4
  <2>2. Live(L, p)'
    BY <1>4, <2>1, LiveKept
  <2>3. QED BY <1>3, <2>1, <2>2 DEF Live, On
<1>11. OptikThread(L, t)'
  BY <1>1, <1>2, <1>3, <1>6, <1>10 DEF OptikThread, OptikPred, OptikCurr, NULL
<1>12. QED BY <1>4, <1>5, <1>6, <1>7, <1>8, <1>9, <1>11, OptikStep

\* What writing the lock of a node does.
LEMMA SetLockOnly ==
  ASSUME NEW L, Core(L), NEW n \in Nodes, NEW w \in Nat, SetLock(n, w)
  PROVE  LockSet(n, w) /\ LocksOnly
<1>1. HeapOK /\ lock \in [Buckets -> Nat]
  BY DEF Core, HeapOK
<1>2. node' = [node EXCEPT ![n].lock = w] /\ UNCHANGED <<set, used, freed, lock>>
  BY DEF SetLock, SetNodes
<1>3. LockSet(n, w) /\ node' \in [Nodes -> NodeSet]
  BY <1>1, <1>2, NodesLock DEF LockSet
<1>4. QED BY <1>1, <1>2, <1>3 DEF LocksOnly, SameNodes, LockSet

\* optik_revert, and the call starts again.
LEMMA OptikRevert ==
  ASSUME NEW L, Core(L), OptikOK(L), NEW t \in Threads, pc[t] = "r_revert",
         SetLock(Pred(t), optik_reverted(node[Pred(t)].lock)), Restart(t), UNCHANGED hist
  PROVE  \E L2 : Good(L2) /\ OptikOK(L2)'
<1>1. /\ OptikThread(L, t) /\ Before(t) /\ Pred(t) \in used /\ Live(L, Pred(t)) /\ HeapOK
      /\ (\A n \in Nodes : ~node[n].marked) /\ used \subseteq Nodes /\ node \in [Nodes -> NodeSet]
      /\ lock \in [Buckets -> Nat] /\ OptikOwns(t) = {Pred(t)}
      /\ \A n \in OptikOwns(t) : node[n].lock % 2 = 1
  BY OptikHere, Here DEF OptikThread, OptikPred, OptikCurr, OptikOwns, Owns
<1>2. PICK p \in used, v \in Nat : p = Pred(t) /\ p \in Nodes /\ v = node[p].lock /\ v % 2 = 1 /\ Live(L, p)
  BY <1>1 DEF NodeSet
<1>3. PICK w \in Nat : w = v - 1 /\ SetLock(p, w) /\ w % 2 = 0
  BY <1>2 DEF optik_reverted
<1>4. LockSet(p, w)
  BY <1>2, <1>3, SetLockOnly
<1>5. LocksOnly
  BY <1>2, <1>3, SetLockOnly
<1>6. /\ Does(L, L, {}, t) /\ call'[t] = call[t] /\ Before(t)'
      /\ pc'[t] = call[t].op /\ call[t].op \in Ops
      /\ node[Curr(t)'].key = 0 /\ 0 < Key(t) /\ Curr(t)' \in Sentinels
  BY <1>1, <1>5, DoRestart
<1>7. PICK gone, T : gone = {} /\ T = {p} /\ Does(L, L, gone, t) /\ Kept(L, L, gone)
  BY <1>6 DEF Does
<1>8. Spares(t, T, gone, OptikPred, OptikCurr)
  <2>1. \A m \in used : m \notin T => Untouched(m, gone)
    BY <1>1, <1>4, <1>7 DEF Untouched, LockSet
  <2>2. QED BY <1>1, <1>2, <1>7, <2>1, OptikSpares
<1>9. Walking(t)'
  <2>1. node'[Curr(t)'].key = node[Curr(t)'].key
    BY <1>1, <1>4, <1>6 DEF LockSet, HeapOK
  <2>2. QED BY <1>6, <2>1 DEF Walking, Key
<1>10. OptikThread(L, t)' /\ pc'[t] \notin OptikPred
  BY <1>6, <1>9, OptikStarts
<1>11. OptikOwns(t)' = {} /\ pc'[t] \notin OptikWrote
  BY <1>6 DEF OptikOwns, Owns, OptikPred, OptikCurr, OptikWrote, Ops
<1>12. ~Written(p)
  <2>1. SUFFICES ASSUME NEW u \in Threads, pc[u] \in OptikWrote, Pred(u) = p PROVE FALSE
    BY DEF Written
  <2>2. u # t
    BY <2>1 DEF OptikWrote
  <2>3. p \in OptikOwns(u) /\ p \in OptikOwns(t)
    BY <1>1, <1>2, <2>1 DEF OptikOwns, Owns, OptikPred, OptikWrote
  <2>4. QED BY <2>2, <2>3, OptikHere
<1>13. ASSUME NEW m \in used PROVE OptikChange(m)
  <2>1. CASE m = p
    <3>1. node'[m].lock = w /\ node'[m].next = node[m].next
      BY <1>2, <1>4, <2>1 DEF LockSet
    <3>2. QED BY <1>2, <1>3, <1>12, <2>1, <3>1 DEF OptikChange
  <2>2. CASE m # p
    <3>1. node'[m].lock = node[m].lock /\ node'[m].next = node[m].next /\ set' = set
      BY <1>1, <1>4, <2>2 DEF LockSet
    <3>2. Others(t) /\ pc[t] \notin OptikWrote
      BY <1>6 DEF Does, OptikWrote
    <3>3. QED BY <1>11, <3>1, <3>2, OptikQuiet
  <2>3. QED BY <2>1, <2>2
<1>14. OptikFree(L)'
  <2>1. ASSUME NEW m \in used, node'[m].lock % 2 = 0 PROVE m \notin gone /\ Live(L, m)
    <3>1. CASE m = p
      BY <1>2, <1>7, <3>1
    <3>2. CASE m # p
      <4>1. node[m].lock % 2 = 0
        BY <1>1, <1>4, <2>1, <3>2 DEF LockSet
      <4>2. QED BY <1>7, <4>1 DEF OptikOK, OptikFree
    <3>3. QED BY <3>1, <3>2
  <2>2. used' = used
    BY <1>4 DEF LockSet
  <2>3. QED BY <1>7, <2>1, <2>2, OptikFreeKept
<1>15. \A m \in Nodes : ~node'[m].marked
  BY <1>1, <1>4 DEF LockSet
<1>16. QED BY <1>7, <1>8, <1>10, <1>11, <1>13, <1>14, <1>15, OptikStep

\* A node that the step of t leaves alone, and where t writes neither before nor after it.
LEMMA OptikAside ==
  ASSUME NEW L, Core(L), NEW t \in Threads, set' = set, Others(t), NEW n \in used,
         ~(pc[t] \in OptikWrote /\ Pred(t) = n), ~(pc'[t] \in OptikWrote /\ Pred(t)' = n),
         node'[n].lock = node[n].lock, node'[n].next = node[n].next
  PROVE  OptikChange(n)
<1>1. Written(n)' <=> Written(n)
  BY WrittenKept
<1>2. node[n].lock \in Nat
  BY Here DEF NodeSet
<1>3. QED BY <1>1, <1>2 DEF OptikChange

\* pred->next = newnode
LEMMA OptikLink ==
  ASSUME NEW L, Core(L), OptikOK(L), NEW t \in Threads, pc[t] = "i_link",
         Publish(t, Pred(t), ll_optik(Key(t), call[t].val, Curr(t))),
         pc' = [pc EXCEPT ![t] = "i_unlock"], UNCHANGED loc
  PROVE  \E L2 : Good(L2) /\ OptikOK(L2)'
<1>1. /\ OptikThread(L, t) /\ Before(t) /\ call[t].op = "insert" /\ Adjacent(L, t) /\ Reached(t)
      /\ node[Curr(t)].key # Key(t) /\ Pred(t) \in used /\ Live(L, Pred(t))
  BY OptikHere DEF OptikThread, OptikPred
<1>2. /\ HeapOK /\ HistTypeOK /\ InCall(t) /\ used \subseteq Nodes /\ NULL \notin used /\ Curr(t) \in used
      /\ (\A n \in Nodes : ~node[n].marked) /\ Key(t) \in Keys /\ node[Curr(t)].key \in Int /\ Key(t) \in Int
      /\ node \in [Nodes -> NodeSet]
  BY <1>1, OptikHere, Here, OptikAt
<1>3. node[Curr(t)].key > Key(t)
  BY <1>1, <1>2 DEF Reached
<1> DEFINE r == ll_optik(Key(t), call[t].val, Curr(t))
<1>4. NewNode(t, Pred(t), r) /\ ~r.marked /\ r.lock % 2 = 0
  <2>1. Curr(t) \in Nodes /\ call[t].val \in Vals /\ node[Pred(t)].next = Curr(t)
    BY <1>1, <1>2, CallKey DEF Calls, Abs!Calls, Adjacent
  <2>2. r.lock = 0 /\ 0 % 2 = 0
    BY DEF ll_optik, ll_simple, OPTIK_INIT
  <2>3. QED BY <1>2, <2>1, <2>2 DEF NewNode, ll_optik, ll_simple, NodeSet, OPTIK_INIT
<1>5. Publish(t, Pred(t), r)
  OBVIOUS
<1> HIDE DEF r
<1>6. PICK q : q = "i_unlock" /\ Onward(t, q)
  BY DEF Onward
<1>7. PICK L2 : \E new \in Nodes \ used :
           /\ Does(L, L2, {}, t) /\ After(t)' /\ On(L2, new)' /\ Home'[new] = addr(Key(t))
           /\ Publishes(t, Pred(t), r, new) /\ pc'[t] = q /\ call'[t] = call[t]
  BY <1>1, <1>3, <1>4, <1>5, <1>6, DoLink
<1>8. PICK new \in Nodes \ used :
           /\ Does(L, L2, {}, t) /\ After(t)' /\ On(L2, new)' /\ Home'[new] = addr(Key(t))
           /\ Publishes(t, Pred(t), r, new) /\ pc'[t] = q /\ call'[t] = call[t]
  BY <1>7
<1>9. PICK gone, T : gone = {} /\ T = {Pred(t)} /\ Does(L, L2, gone, t) /\ Kept(L, L2, gone)
  BY <1>8 DEF Does
<1>10. PICK p \in used, v \in Nat : p = Pred(t) /\ p \in Nodes /\ p # NULL /\ v = node[p].lock /\ v % 2 = 1
  <2>1. Pred(t) \in OptikOwns(t)
    BY DEF OptikOwns, Owns, OptikPred
  <2>2. node[Pred(t)].lock % 2 = 1 /\ node[Pred(t)].lock \in Nat
    BY <1>1, <1>2, <2>1, OptikHere DEF NodeSet
  <2>3. QED BY <1>1, <1>2, <2>2
<1>11. Pred(t)' = p
  BY <1>10 DEF Pred
<1>12. OptikOwns(t)' = {p} /\ OptikOwns(t) = {p} /\ pc'[t] = "i_unlock"
  BY <1>6, <1>8, <1>10, <1>11 DEF OptikOwns, Owns, OptikPred, OptikCurr
<1>13. /\ \A n \in used : /\ node'[n].lock = node[n].lock /\ node'[n].marked = node[n].marked
                          /\ n # p => node'[n].next = node[n].next
       /\ freed' = freed /\ set' = set /\ used' = used \cup {new}
       /\ \A n \in Nodes : ~node'[n].marked
  BY <1>2, <1>4, <1>8, <1>10 DEF Publishes
<1>14. Spares(t, T, gone, OptikPred, OptikCurr)
  <2>1. \A m \in used : m \notin T => Untouched(m, gone)
    BY <1>9, <1>10, <1>13 DEF Untouched
  <2>2. QED BY <1>9, <1>10, <1>12, <2>1, OptikSpares
<1>15. ASSUME NEW n \in used PROVE OptikChange(n)
  <2>1. CASE n = p
    <3>1. Written(n)'
      BY <1>11, <1>12, <2>1 DEF Written, OptikWrote
    <3>2. node'[n].lock = node[n].lock
      BY <1>13
    <3>3. QED BY <1>10, <2>1, <3>1, <3>2 DEF OptikChange
  <2>2. CASE n # p
    <3>1. ~(pc[t] \in OptikWrote /\ Pred(t) = n) /\ ~(pc'[t] \in OptikWrote /\ Pred(t)' = n)
      BY <1>10, <1>11, <2>2
    <3>2. QED BY <1>9, <1>13, <2>2, <3>1, OptikAside DEF Does
  <2>3. QED BY <2>1, <2>2
<1>16. OptikFree(L2)'
  <2>1. ASSUME NEW n \in used', node'[n].lock % 2 = 0 PROVE Live(L2, n)'
    <3>1. CASE n = new
      BY <1>8, <3>1 DEF Live
    <3>2. CASE n \in used
      <4>1. node[n].lock % 2 = 0
        BY <1>13, <2>1, <3>2
      <4>2. Live(L, n) /\ n \notin gone
        BY <1>9, <3>2, <4>1 DEF OptikOK, OptikFree
      <4>3. QED BY <1>9, <3>2, <4>2, LiveKept
    <3>3. QED BY <1>13, <2>1, <3>1, <3>2
  <2>2. QED BY <2>1 DEF OptikFree
<1>17. Live(L2, Pred(t))'
  <2>1. Live(L2, p)'
    BY <1>1, <1>9, <1>10, LiveKept
  <2>2. QED BY <1>11, <2>1 DEF Live, On
<1>18. \A n \in Owns(t, OptikPred, OptikCurr)' : node'[n].lock % 2 = 1
  BY <1>10, <1>12, <1>13 DEF OptikOwns
<1>19. OptikThread(L2, t)'
  BY <1>1, <1>8, <1>10, <1>11, <1>12, <1>17, <1>18 DEF OptikThread, OptikPred, OptikCurr, NULL
<1>20. QED BY <1>9, <1>12, <1>13, <1>14, <1>15, <1>16, <1>19, OptikStep

\* A call that has written unlocks the predecessor, and returns.
LEMMA OptikEnds ==
  ASSUME NEW L, Core(L), OptikOK(L), NEW t \in Threads, pc[t] \in OptikWrote, Does(L, L, {}, t),
         pc'[t] = "idle", loc'[t] = NoLocals, set' = set, used' = used,
         \A m \in Nodes : /\ node'[m].next = node[m].next /\ node'[m].marked = node[m].marked
                          /\ node'[m].lock = IF m = Pred(t) THEN node[m].lock + 1 ELSE node[m].lock,
         \A m \in used : m \notin OptikOwns(t) => freed'[m] = freed[m]
  PROVE  \E L2 : Good(L2) /\ OptikOK(L2)'
<1>1. /\ OptikThread(L, t) /\ Pred(t) \in used /\ Live(L, Pred(t)) /\ used \subseteq Nodes /\ NULL \notin used
      /\ \A n \in OptikOwns(t) : node[n].lock % 2 = 1
      /\ Pred(t) \in OptikOwns(t)
      /\ node \in [Nodes -> NodeSet]
  BY OptikHere, Here DEF OptikThread, OptikWrote, OptikPred, OptikOwns, Owns
<1>2. PICK p \in used, v \in Nat : p = Pred(t) /\ p \in Nodes /\ v = node[p].lock /\ v % 2 = 1 /\ Live(L, p)
  BY <1>1 DEF NodeSet
<1>3. PICK gone, T : gone = {} /\ T = OptikOwns(t) /\ Does(L, L, gone, t) /\ Kept(L, L, gone)
  BY DEF Does
<1>4. Spares(t, T, gone, OptikPred, OptikCurr)
  <2>1. \A m \in used : m \notin T => Untouched(m, gone)
    BY <1>1, <1>3 DEF Untouched
  <2>2. QED BY <1>3, <2>1, OptikSpares
<1>5. Pred(t)' = NULL /\ OptikOwns(t)' = {} /\ p # NULL
  BY <1>1, <1>2 DEF Pred, NoLocals, OptikOwns, Owns, OptikPred, OptikCurr, NULL
<1>6. ASSUME NEW m \in used PROVE OptikChange(m)
  <2>1. CASE m = p
    <3>1. node'[m].lock = v + 1 /\ node[m].lock = v
      BY <1>2, <2>1
    <3>2. QED BY <1>2, <3>1 DEF OptikChange
  <2>2. CASE m # p
    <3>1. node'[m].lock = node[m].lock /\ node'[m].next = node[m].next
      BY <1>1, <1>2, <2>2
    <3>2. ~(pc[t] \in OptikWrote /\ Pred(t) = m) /\ ~(pc'[t] \in OptikWrote /\ Pred(t)' = m)
      BY <1>2, <2>2 DEF OptikWrote
    <3>3. QED BY <1>3, <3>1, <3>2, OptikAside DEF Does
  <2>3. QED BY <2>1, <2>2
<1>7. OptikFree(L)'
  <2>1. ASSUME NEW m \in used, node'[m].lock % 2 = 0 PROVE m \notin gone /\ Live(L, m)
    <3>1. CASE m = p
      BY <1>2, <1>3, <3>1
    <3>2. CASE m # p
      <4>1. node[m].lock % 2 = 0
        BY <1>1, <1>2, <2>1, <3>2
      <4>2. QED BY <1>3, <4>1 DEF OptikOK, OptikFree
    <3>3. QED BY <3>1, <3>2
  <2>2. QED BY <1>3, <2>1, OptikFreeKept
<1>8. \A m \in Nodes : ~node'[m].marked
  BY OptikHere
<1>9. OptikThread(L, t)'
  BY OptikIdle
<1>10. QED BY <1>3, <1>4, <1>5, <1>6, <1>7, <1>8, <1>9, OptikStep

LEMMA OptikInserted ==
  ASSUME NEW L, Core(L), OptikOK(L), NEW t \in Threads, pc[t] = "i_unlock",
         SetLock(Pred(t), optik_unlocked(node[Pred(t)].lock)), Return(t, 1)
  PROVE  \E L2 : Good(L2) /\ OptikOK(L2)'
<1>1. /\ OptikThread(L, t) /\ After(t) /\ call[t].op = "insert" /\ Pred(t) \in used /\ used \subseteq Nodes
      /\ node \in [Nodes -> NodeSet]
  BY OptikHere, Here DEF OptikThread, OptikPred
<1>2. PICK p \in Nodes, w \in Nat : p = Pred(t) /\ w = node[p].lock + 1 /\ SetLock(p, w)
  BY <1>1 DEF optik_unlocked, NodeSet
<1>3. LockSet(p, w) /\ LocksOnly
  BY <1>2, SetLockOnly
<1>4. PICK r \in Vals \cup {0, 1} : r = 1
  OBVIOUS
<1>5. Rightful(t, r) /\ Return(t, r) /\ InCall(t)
  BY <1>1, <1>4, AnswersAfter, Here
<1>6. Does(L, L, {}, t) /\ pc'[t] = "idle" /\ loc'[t] = NoLocals
  BY <1>3, <1>5, DoAnswer
<1>7. /\ \A m \in Nodes : /\ node'[m].next = node[m].next /\ node'[m].marked = node[m].marked
                          /\ node'[m].lock = IF m = Pred(t) THEN node[m].lock + 1 ELSE node[m].lock
      /\ \A m \in used : m \notin OptikOwns(t) => freed'[m] = freed[m]
      /\ set' = set /\ used' = used
  BY <1>2, <1>3 DEF LockSet
<1>8. QED BY <1>6, <1>7, OptikEnds DEF OptikWrote

\* pred->next = cnxt
LEMMA OptikUnlink ==
  ASSUME NEW L, Core(L), OptikOK(L), NEW t \in Threads, pc[t] = "r_unlink",
         SetNodes([node EXCEPT ![Pred(t)].next = loc[t].next]),
         TakesEffect(t, None, node[Curr(t)].val),
         pc' = [pc EXCEPT ![t] = "r_unlock"], UNCHANGED loc
  PROVE  \E L2 : Good(L2) /\ OptikOK(L2)'
<1>1. /\ OptikThread(L, t) /\ Before(t) /\ call[t].op = "remove" /\ Adjacent(L, t)
      /\ node[Curr(t)].key = Key(t) /\ Pred(t) \in used /\ Curr(t) \in used /\ Live(L, Pred(t))
      /\ node[Curr(t)].next = loc[t].next
      /\ OptikOwns(t) = {Pred(t), Curr(t)} /\ \A n \in OptikOwns(t) : node[n].lock % 2 = 1
  BY OptikHere DEF OptikThread, OptikPred, OptikCurr, OptikOwns, Owns
<1>2. /\ HeapOK /\ ChainOK(L) /\ FreedOK(L) /\ used \subseteq Nodes /\ NULL \notin used
      /\ (\A n \in Nodes : ~node[n].marked) /\ freed \in [Nodes -> {0, 1}]
      /\ node \in [Nodes -> NodeSet]
  BY OptikHere, Here
<1>3. PICK p \in used, c \in used : /\ p = Pred(t) /\ c = Curr(t) /\ p \in Nodes /\ c \in Nodes /\ p # NULL /\ c # NULL
                                    /\ node[p].next = c /\ p # c
  BY <1>1, <1>2, ChainFacts DEF ChainProps, Adjacent
<1>4. PICK v \in Nat : v = node[p].lock /\ v % 2 = 1 /\ node[c].lock % 2 = 1
  BY <1>1, <1>2, <1>3 DEF NodeSet
<1>5. /\ Unlinks(Pred(t), Curr(t)) /\ freed' = freed /\ ~node[Curr(t)].marked
  BY <1>1, <1>2 DEF SetNodes, Unlinks
<1>6. PICK q : q = "r_unlock" /\ Onward(t, q)
  BY DEF Onward
<1>7. /\ On(L, Curr(t)) /\ UnlinkedNodes(Pred(t), Curr(t)) /\ pc'[t] = q /\ call'[t] = call[t]
      /\ \E L2 : Does(L, L2, {Curr(t)}, t) /\ After(t)'
  BY <1>1, <1>5, <1>6, DoUnlink
<1>8. PICK L2, gone : gone = {c} /\ Does(L, L2, gone, t) /\ After(t)' /\ Kept(L, L2, gone)
  BY <1>3, <1>7 DEF Does
<1>9. PICK T : T = {Pred(t), Curr(t)}
  OBVIOUS
<1>10. Pred(t)' = p /\ Curr(t)' = c
  BY <1>3 DEF Pred, Curr
<1>11. OptikOwns(t)' = {p, c} /\ pc'[t] = "r_unlock"
  BY <1>6, <1>7, <1>10 DEF OptikOwns, Owns, OptikPred, OptikCurr
<1>12. /\ \A n \in Nodes : /\ node'[n].lock = node[n].lock /\ ~node'[n].marked
                           /\ n # p => node'[n].next = node[n].next
       /\ used' = used /\ set' = set
  BY <1>2, <1>3, <1>5, <1>7 DEF UnlinkedNodes, Unlinks
<1>13. Spares(t, T, gone, OptikPred, OptikCurr)
  <2>1. \A m \in used : m \notin T => Untouched(m, gone)
    BY <1>2, <1>3, <1>5, <1>7, <1>8, <1>9 DEF Untouched, UnlinkedNodes
  <2>2. QED BY <1>1, <1>9, <2>1, OptikSpares
<1>14. ASSUME NEW n \in used PROVE OptikChange(n)
  <2>1. CASE n = p
    <3>1. Written(n)'
      BY <1>10, <1>11, <2>1 DEF Written, OptikWrote
    <3>2. node'[n].lock = node[n].lock
      BY <1>3, <1>12, <2>1
    <3>3. QED BY <1>4, <2>1, <3>1, <3>2 DEF OptikChange
  <2>2. CASE n # p
    <3>1. ~(pc[t] \in OptikWrote /\ Pred(t) = n) /\ ~(pc'[t] \in OptikWrote /\ Pred(t)' = n)
      BY <1>3, <1>10, <2>2
    <3>2. node'[n].lock = node[n].lock /\ node'[n].next = node[n].next /\ set' = set
      BY <1>2, <1>12, <2>2
    <3>3. QED BY <1>8, <3>1, <3>2, OptikAside DEF Does
  <2>3. QED BY <2>1, <2>2
<1>15. OptikFree(L2)'
  <2>1. ASSUME NEW n \in used, node'[n].lock % 2 = 0 PROVE n \notin gone /\ Live(L, n)
    <3>1. node[n].lock % 2 = 0
      BY <1>2, <1>12, <2>1
    <3>2. QED BY <1>4, <1>8, <3>1 DEF OptikOK, OptikFree
  <2>2. QED BY <1>8, <1>12, <2>1, OptikFreeKept
<1>16. Live(L2, Pred(t))'
  <2>1. Live(L2, p)'
    BY <1>1, <1>3, <1>8, LiveKept
  <2>2. QED BY <1>10, <2>1 DEF Live, On
<1>17. Unlinked(L2, t)'
  <2>1. Curr(t)' \in used' \ Sentinels' /\ ~On(L2, Curr(t))' /\ freed[Curr(t)] = 0
    <3>1. loc'[t] = loc[t] /\ Curr(t) \in gone
      BY <1>3, <1>8
    <3>2. QED BY <1>7, <1>8, <3>1, NowUnlinked
  <2>2. freed'[Curr(t)'] = 0
    BY <1>3, <1>5, <1>10, <2>1
  <2>3. QED BY <1>8, <2>1, <2>2 DEF Unlinked
<1>18. \A n \in Owns(t, OptikPred, OptikCurr)' : node'[n].lock % 2 = 1
  BY <1>3, <1>4, <1>11, <1>12 DEF OptikOwns
<1>19. OptikThread(L2, t)'
  BY <1>1, <1>3, <1>7, <1>8, <1>10, <1>11, <1>16, <1>17, <1>18 DEF OptikThread, OptikPred, OptikCurr, NULL
<1>20. QED BY <1>1, <1>3, <1>8, <1>9, <1>11, <1>12, <1>13, <1>14, <1>15, <1>19, OptikStep

\* optik_unlock(&pred->lock), and the node is released.
LEMMA OptikRemoved ==
  ASSUME NEW L, Core(L), OptikOK(L), NEW t \in Threads, pc[t] = "r_unlock",
         SetNodesAndRelease([node EXCEPT ![Pred(t)].lock = optik_unlocked(node[Pred(t)].lock)], {Curr(t)}),
         Return(t, node[Curr(t)].val)
  PROVE  \E L2 : Good(L2) /\ OptikOK(L2)'
<1>1. /\ OptikThread(L, t) /\ HeapOK /\ freed \in [Nodes -> {0, 1}] /\ After(t) /\ InCall(t)
      /\ used \subseteq Nodes /\ call[t].op = "remove" /\ OptikOwns(t) = {Pred(t), Curr(t)} /\ Unlinked(L, t)
      /\ Pred(t) \in used /\ node \in [Nodes -> NodeSet] /\ lock \in [Buckets -> Nat]
  BY OptikHere, Here DEF OptikThread, OptikOwns, Owns, OptikPred, OptikCurr
<1>2. PICK r \in Vals \cup {0, 1} : Rightful(t, r) /\ Return(t, r)
  BY <1>1, AnswersAfter
<1>3. PICK p \in Nodes, w \in Nat : p = Pred(t) /\ w = node[p].lock + 1 /\ node' = [node EXCEPT ![p].lock = w]
  <2>1. PICK p \in Nodes : p = Pred(t) /\ node[p].lock \in Nat
    BY <1>1 DEF NodeSet
  <2>2. PICK w \in Nat : w = node[p].lock + 1
    BY <2>1
  <2>3. node' = [node EXCEPT ![p].lock = w]
    BY <2>1, <2>2 DEF optik_unlocked, SetNodesAndRelease
  <2>4. QED BY <2>1, <2>2, <2>3
<1>4. set' = set /\ used' = used /\ lock' = lock
  BY DEF SetNodesAndRelease
<1>5. /\ node' \in [Nodes -> NodeSet]
      /\ \A m \in Nodes :
           /\ node'[m].key = node[m].key /\ node'[m].val = node[m].val
           /\ node'[m].next = node[m].next /\ node'[m].marked = node[m].marked
           /\ node'[m].lock = IF m = p THEN w ELSE node[m].lock
  <2>1. HeapOK /\ node' = [node EXCEPT ![p].lock = w]
    BY <1>1, <1>3
  <2>2. QED BY <2>1, NodesLock
<1>6. SameNodes /\ lock' \in [Buckets -> Nat]
  BY <1>1, <1>4, <1>5 DEF SameNodes
<1>7. /\ freed' \in [Nodes -> {0, 1}]
      /\ \A n \in Nodes : freed'[n] = 1 => freed[n] = 1 \/ (n \in used \ Sentinels /\ ~On(L, n))
      /\ \A n \in Nodes : freed'[n] # freed[n] => n = Curr(t)
  <2>1. PICK m \in used \ Sentinels : m = Curr(t) /\ ~On(L, m) /\ freed[m] = 0
    BY <1>1 DEF Unlinked, On
  <2>2. freed' = [n \in Nodes |-> IF n \in {m} THEN freed[n] + 1 ELSE freed[n]]
    BY <2>1 DEF SetNodesAndRelease
  <2>3. QED BY <1>1, <2>1, <2>2
<1>8. Does(L, L, {}, t) /\ pc'[t] = "idle" /\ loc'[t] = NoLocals
  BY <1>1, <1>2, <1>5, <1>6, <1>7, DoReturn
<1>9. /\ \A m \in Nodes : /\ node'[m].next = node[m].next /\ node'[m].marked = node[m].marked
                          /\ node'[m].lock = IF m = Pred(t) THEN node[m].lock + 1 ELSE node[m].lock
      /\ \A m \in used : m \notin OptikOwns(t) => freed'[m] = freed[m]
  BY <1>1, <1>3, <1>5, <1>7
<1>10. QED BY <1>4, <1>8, <1>9, OptikEnds DEF OptikWrote

LEMMA OptikStutter ==
  ASSUME NEW L, Core(L), OptikOK(L), UNCHANGED vars
  PROVE  Good(L) /\ OptikOK(L)'
<1>1. /\ Core(L)' /\ Kept(L, L, {}) /\ Alike /\ Lin /\ Frozen /\ \A u \in Threads : Still(u)
  BY CoreStutter
<1>2. PICK gone : gone = {} /\ Kept(L, L, gone)
  BY <1>1
<1>3. \A n \in used : OptikSame(n)
  <2>1. ASSUME NEW n \in used PROVE OptikChange(n)
    <3>1. \A u \in Threads : pc'[u] = pc[u] /\ Pred(u)' = Pred(u)
      BY <1>1, StillSame DEF Alike
    <3>2. Written(n)' <=> Written(n)
      BY <3>1 DEF Written
    <3>3. node[n].lock \in Nat /\ node'[n] = node[n]
      BY <1>1, Here DEF Alike, NodeSet, Core, HeapOK
    <3>4. QED BY <3>2, <3>3 DEF OptikChange
  <2>2. QED BY <2>1, OptikVersions
<1>4. ASSUME NEW u \in Threads PROVE OptikThread(L, u)' /\ OptikOwns(u)' = OptikOwns(u)
  <2>1. OptikOwns(u) \subseteq used /\ Still(u)
    BY <1>1, OptikHere
  <2>2. \A n \in OptikOwns(u) : Untouched(n, gone)
    BY <1>1, <1>2 DEF Untouched, Alike
  <2>3. QED BY <1>1, <1>2, <1>3, <2>1, <2>2, OptikFrame, OwnsStill DEF OptikOwns, Alike
<1>5. Unmarked'
  BY <1>1, SetSame DEF OptikOK, Unmarked, Alike
<1>6. OptikFree(L)'
  BY <1>1, <1>2, OptikFreeKept DEF Alike, OptikOK, OptikFree
<1>7. Exclusive(OptikPred, OptikCurr)'
  <2>1. \A u, w \in Threads : u # w => OptikOwns(u) \cap OptikOwns(w) = {}
    BY DEF OptikOK, Exclusive, OptikOwns
  <2>2. \A u, w \in Threads : u # w => OptikOwns(u)' \cap OptikOwns(w)' = {}
    BY <1>4, <2>1
  <2>3. QED BY <2>2 DEF Exclusive, OptikOwns
<1>8. QED BY <1>1, <1>4, <1>5, <1>6, <1>7 DEF Good, OptikOK, Alike
=============================================================================
