--------------------------- MODULE HashtableJava ---------------------------
(***************************************************************************)
(* HashtableJavaCHM (src/algorithms/hashtable_java.h): a table of segments *)
(* (aux/conc_hashmap_segment.h), each a small hash table with a lock of    *)
(* its own.  Calls look without a lock first (RO_FAIL, which the build     *)
(* sets); updates then lock the segment.  An insert that fills the segment *)
(* replaces it by one twice as large, into which it takes over the end of  *)
(* each chain and copies of the other nodes.  It never unlocks the old     *)
(* segment, so that a thread that waits for the old lock can only find the *)
(* new segment.                                                            *)
(*                                                                         *)
(* array[s] holds all the segments that slot s has had, the last of them   *)
(* the one chm->segments[s] points to.  Only the holder of the lock writes *)
(* to a segment and its chains, so its own walk is one step.               *)
(***************************************************************************)
EXTENDS SortedList, Sequences, SequencesExt

\* CHM_LOAD_FACTOR is 3 when the code is compiled for Tile and 1 otherwise.
CHM_LOAD_FACTOR == {1, 3}

allocate_conc_hashmap_segment(capacity, load_factor) ==
  [num_buckets |-> capacity, load_factor |-> load_factor, size |-> 0, lock |-> TAS_FREE,
   size_limit |-> Max({1, load_factor * capacity}), table |-> [i \in 0..(capacity - 1) |-> NULL]]

\* The smallest table that the constructor makes: one bucket for each segment.
Init ==
  /\ is("HashtableJava")
  /\ node = [n \in Nodes |-> ll_simple(0, None, NULL)]
  /\ used = {}
  /\ freed = [n \in Nodes |-> 0]
  /\ lock = [s \in Buckets |-> 0]
  /\ \E load \in CHM_LOAD_FACTOR :
       array = [s \in Buckets |-> <<allocate_conc_hashmap_segment(1, load)>>]
  /\ pc = [t \in Threads |-> "idle"]
  /\ loc = [t \in Threads |-> NoLocals]
  /\ HistInit

floor_log_2(n) == Max({e \in 0..n : 2^e <= n})
hash_seed == floor_log_2(set.buckets)
chm_hash(k) == k \div 2^hash_seed

segments(s) == Last(array[s])
seg_num(t) == addr(Key(t))
seg(t) == array[seg_num(t)][loc[t].seg]
bucket(sg, k) == chm_hash(k) % sg.num_buckets

\* The nodes from n on, in order.
Chain(n) ==
  LET from[m \in Nodes \cup {NULL}, d \in 0..set.nodes] ==
        IF m = NULL \/ d = 0 THEN <<>> ELSE <<m>> \o from[node[m].next, d - 1]
  IN  from[n, set.nodes]

Chains(sg) == {Chain(sg.table[i]) : i \in DOMAIN sg.table}

\* The nodes that a walk through the table finds now, and what it says of key k.
Linked == UNION {UNION {From(segments(s).table[i]) : i \in DOMAIN segments(s).table} : s \in Buckets}

chm_value(k) ==
  LET sg   == segments(addr(k))
      hits == {n \in From(sg.table[bucket(sg, k)]) : node[n].key = k}
  IN  IF hits = {} THEN 0 ELSE node[Max(hits)].val

length ==
  FoldFunction(LAMBDA x, y : x + y, 0,
    [s \in Buckets |-> FoldFunction(LAMBDA n, l : Len(Chain(n)) + l, 0, segments(s).table)])

-----------------------------------------------------------------------------
(* search, and chm_contains before an update.                              *)

\* seg = chm->segments[seg_num]; curr = *bucket.  The table of a segment that has been
\* replaced does not change any more, so the two reads are one step.
ReadBucket(t) ==
  /\ pc[t] \in {"search", "insert", "remove"}
  /\ pc' = [pc EXCEPT ![t] = "walk"]
  /\ LET sg == segments(seg_num(t)) IN
       loc' = [loc EXCEPT ![t].curr = sg.table[bucket(sg, Key(t))]]
  /\ UNCHANGED <<heap, hist>>

AtEnd(t) == Curr(t) # NULL => KeyOf(t) = Key(t)

WalkNext(t) ==
  /\ pc[t] = "walk"
  /\ ~AtEnd(t)
  /\ loc' = [loc EXCEPT ![t].curr = node[@].next]
  /\ UNCHANGED <<heap, pc, hist>>

WalkEnd(t) ==
  /\ pc[t] = "walk"
  /\ AtEnd(t)
  /\ LET found == IF Curr(t) = NULL THEN 0 ELSE node[Curr(t)].val IN
       \/ call[t].op = "search" /\ Answer(t, found)
       \/ call[t].op # "search" /\ (found # 0) = (call[t].op = "insert") /\ Answer(t, 0)
       \/ /\ call[t].op # "search"
          /\ (found # 0) # (call[t].op = "insert")
          /\ pc' = [pc EXCEPT ![t] = "segment"]
          /\ loc' = [loc EXCEPT ![t].curr = NULL]
          /\ UNCHANGED <<heap, hist>>

-----------------------------------------------------------------------------
(* insert and remove.                                                      *)

SetSegment(t, sg) == array' = [array EXCEPT ![seg_num(t)][loc[t].seg] = sg]

\* seg = chm->segments[seg_num], in each turn of the loop.
ReadSegment(t) ==
  /\ Goto(t, "segment", "trylock")
  /\ loc' = [loc EXCEPT ![t].seg = Len(array[seg_num(t)])]
  /\ UNCHANGED <<heap, hist>>

\* Mutated: keeps trying the lock of the segment it has read first.
TrylockSame(t) ==
  /\ Goto(t, "trylock", IF seg(t).lock = TAS_FREE THEN "locked" ELSE "trylock")
  /\ SetSegment(t, [seg(t) EXCEPT !.lock = tas_locked(@)])
  /\ UNCHANGED <<set, node, used, freed, lock, loc, hist>>

\* TRYLOCK_A(seg_lock); the loop reads the segment again before it tries again.
Trylock(t) ==
  /\ Goto(t, "trylock", IF seg(t).lock = TAS_FREE THEN "locked" ELSE "segment")
  /\ SetSegment(t, [seg(t) EXCEPT !.lock = tas_locked(@)])
  /\ UNCHANGED <<set, node, used, freed, lock, loc, hist>>

Unlock(t, r) ==
  /\ SetSegment(t, [seg(t) EXCEPT !.lock = TAS_FREE])
  /\ Return(t, r)
  /\ UNCHANGED <<set, node, used, freed, lock>>

\* The chain of the key, and where in it the key is (0 if it is not).
MyChain(t) == Chain(seg(t).table[bucket(seg(t), Key(t))])
Position(t) == Max({0} \cup {i \in DOMAIN MyChain(t) : node[MyChain(t)[i]].key = Key(t)})

\* UNLOCK_A, and return 0: the update has been overtaken.
InVain(t) ==
  /\ pc[t] = "locked"
  /\ (Position(t) # 0) = (call[t].op = "insert")
  /\ Unlock(t, 0)

\* The node array and segment sg after link i of the key's chain has been set to n.
SetLink(t, i, f, n) == IF i = 1 THEN f ELSE [f EXCEPT ![MyChain(t)[i - 1]].next = n]
SetHead(t, i, sg, n) == IF i = 1 THEN [sg EXCEPT !.table[bucket(sg, Key(t))] = n] ELSE sg

Inserts(t) == pc[t] = "locked" /\ call[t].op = "insert" /\ Position(t) = 0

\* pred->next = n or *bucket = n, at the end of the chain.
InsertLink(t) ==
  /\ Inserts(t)
  /\ seg(t).size + 1 < seg(t).size_limit
  /\ LET i == Len(MyChain(t)) + 1
         n == Min(Fresh)
     IN  /\ node' = SetLink(t, i, [node EXCEPT ![n] = ll_simple(Key(t), call[t].val, NULL)], n)
         /\ used' = used \cup {n}
         /\ SetSegment(t, [SetHead(t, i, seg(t), n) EXCEPT !.size = @ + 1])
  /\ TakesEffect(t, call[t].val, 1)
  /\ pc' = [pc EXCEPT ![t] = "unlock"]
  /\ loc' = [loc EXCEPT ![t].res = 1]
  /\ UNCHANGED <<set, freed, lock>>

\* chm_segment_rehash up to the publication: for each chain of the old segment, its
\* last run of nodes that stay together (last_run) becomes the end of a new chain,
\* and copies of the nodes before it are pushed in front of the new chains.
chm_segment_rehash(t) ==
  /\ Inserts(t)
  /\ seg(t).size + 1 >= seg(t).size_limit
  /\ LET seg_old == segments(seg_num(t))
         empty   == allocate_conc_hashmap_segment(2 * seg_old.num_buckets, seg_old.load_factor)
         idx(n)  == bucket(empty, node[n].key)
         cut(c)  == Min({i \in DOMAIN c : \A j \in i..Len(c) : idx(c[j]) = idx(Last(c))})
         chains  == {c \in Chains(seg_old) : c # <<>>}
         copied  == UNION {{c[i] : i \in 1..(cut(c) - 1)} : c \in chains}
         n       == Min(Fresh)
         copy    == CHOOSE f \in [copied -> Fresh \ {n}] : IsInjective(f)
         \* seg_new->table[k] when the loop over c has come to c[i]
         pushed(c, i, k) ==
           LET before == {j \in 1..(i - 1) : idx(c[j]) = k}
           IN  IF before # {} THEN copy[c[Max(before)]]
               ELSE IF idx(Last(c)) = k THEN c[cut(c)] ELSE NULL
         table   == [k \in DOMAIN empty.table |->
                       LET old == {c \in chains : idx(c[1]) % seg_old.num_buckets = k % seg_old.num_buckets}
                       IN  IF old = {} THEN NULL
                           ELSE LET c == CHOOSE c \in old : TRUE IN pushed(c, cut(c), k)]
         newidx  == bucket(empty, Key(t))
     IN  /\ node' = [m \in Nodes |->
                IF m = n THEN ll_simple(Key(t), call[t].val, table[newidx])
                ELSE IF \E p \in copied : copy[p] = m
                THEN LET p == CHOOSE p \in copied : copy[p] = m
                         c == CHOOSE c \in chains : p \in ToSet(c)
                         i == CHOOSE i \in DOMAIN c : c[i] = p
                     IN  ll_simple(node[p].key, node[p].val, pushed(c, i, idx(p)))
                ELSE node[m]]
         /\ used' = used \cup {n} \cup {copy[p] : p \in copied}
         /\ freed' = [m \in Nodes |-> IF m \in copied THEN freed[m] + 1 ELSE freed[m]]
         /\ loc' = [loc EXCEPT ![t].list = [empty EXCEPT !.table = [table EXCEPT ![newidx] = n],
                                                          !.size = seg_old.size + 1]]
  /\ pc' = [pc EXCEPT ![t] = "publish"]
  /\ UNCHANGED <<set, lock, array, hist>>

\* chm->segments[seg_num] = seg_new
PublishSegment(t) ==
  /\ Goto(t, "publish", "done")
  /\ array' = [array EXCEPT ![seg_num(t)] = Append(@, loc[t].list)]
  /\ TakesEffect(t, call[t].val, 1)
  /\ UNCHANGED <<set, node, used, freed, lock, loc>>

\* The insert returns with the old segment still locked.
RehashReturn(t) == pc[t] = "done" /\ Answer(t, 1)

\* pred->next = curr->next or *bucket = curr->next; the node is released.
RemoveUnlink(t) ==
  /\ pc[t] = "locked"
  /\ call[t].op = "remove"
  /\ Position(t) # 0
  /\ LET i == Position(t)
         n == MyChain(t)[i]
     IN  /\ node' = SetLink(t, i, node, node[n].next)
         /\ freed' = [freed EXCEPT ![n] = @ + 1]
         /\ SetSegment(t, [SetHead(t, i, seg(t), node[n].next) EXCEPT !.size = @ - 1])
         /\ TakesEffect(t, None, node[n].val)
         /\ loc' = [loc EXCEPT ![t].res = node[n].val]
  /\ pc' = [pc EXCEPT ![t] = "unlock"]
  /\ UNCHANGED <<set, used, lock>>

UnlockReturn(t) == pc[t] = "unlock" /\ Unlock(t, loc[t].res)

Step(t) ==
  \/ ReadBucket(t) \/ WalkNext(t) \/ WalkEnd(t)
  \/ ReadSegment(t) \/ Trylock(t) \/ InVain(t)
  \/ InsertLink(t) \/ chm_segment_rehash(t) \/ PublishSegment(t) \/ RehashReturn(t)
  \/ RemoveUnlink(t) \/ UnlockReturn(t)
=============================================================================
