--------------------------- MODULE LinkedListCopy ---------------------------
(***************************************************************************)
(* LinkedListCopy (src/algorithms/linkedlist_copy.h): a list kept in an    *)
(* array that is never written to.  An update builds a changed copy of the *)
(* array under a lock and then replaces cow->array; a search works on the  *)
(* array it found.  Updates look before they lock (RO_FAIL, which the      *)
(* build sets).  An array is a sequence of keys and values here.           *)
(***************************************************************************)
EXTENDS SortedList, Sequences, SequencesExt

Init == is("LinkedListCopy") /\ ListInit(ll_simple(0, None, NULL))

Bucket(t) == addr(Key(t))

\* What a scan of array a returns for key k.
Scan(a, k) ==
  LET hits == {i \in DOMAIN a : a[i].key = k}
  IN  IF hits = {} THEN 0 ELSE a[Min(hits)].val

length == FoldFunction(LAMBDA x, y : x + y, 0, [b \in Buckets |-> Len(array[b])])

\* current_list = cow->array
Snapshot(t) ==
  /\ pc[t] \in {"search", "insert", "remove"}
  /\ pc' = [pc EXCEPT ![t] = "scan"]
  /\ loc' = [loc EXCEPT ![t].list = array[Bucket(t)]]
  /\ UNCHANGED <<heap, hist>>

\* The search answers; an update in vain returns 0; the others go for the lock.
search(t) ==
  /\ pc[t] = "scan"
  /\ LET found == Scan(loc[t].list, Key(t)) IN
       \/ call[t].op = "search" /\ Answer(t, found)
       \/ call[t].op # "search" /\ (found # 0) = (call[t].op = "insert") /\ Answer(t, 0)
       \/ /\ call[t].op # "search"
          /\ (found # 0) # (call[t].op = "insert")
          /\ pc' = [pc EXCEPT ![t] = "lock"]
          /\ UNCHANGED <<heap, loc, hist>>

SetArray(t, l, a) ==
  /\ lock' = [lock EXCEPT ![Bucket(t)] = l]
  /\ array' = [array EXCEPT ![Bucket(t)] = a]
  /\ UNCHANGED <<set, node, used, freed>>

\* LOCK_A(cow->lock)
LockA(t) ==
  /\ Goto(t, "lock", "copy")
  /\ tas_lock_passes(lock[Bucket(t)])
  /\ SetArray(t, tas_locked(lock[Bucket(t)]), array[Bucket(t)])
  /\ UNCHANGED <<loc, hist>>

\* all_old = cow->array
Copy(t) ==
  /\ Goto(t, "copy", "publish")
  /\ loc' = [loc EXCEPT ![t].list = array[Bucket(t)]]
  /\ UNCHANGED <<heap, hist>>

UnlockReturn(t, r) ==
  /\ SetArray(t, TAS_FREE, array[Bucket(t)])
  /\ Return(t, r)

\* cow->array = all_new with the key at the end, or nothing if the key is there.
insert(t) ==
  /\ pc[t] = "publish"
  /\ call[t].op = "insert"
  /\ \/ /\ Scan(loc[t].list, Key(t)) # 0
        /\ UnlockReturn(t, 0)
     \/ /\ Scan(loc[t].list, Key(t)) = 0
        /\ pc' = [pc EXCEPT ![t] = "unlock"]
        /\ SetArray(t, TAS_LCKD, Append(loc[t].list, [key |-> Key(t), val |-> call[t].val]))
        /\ TakesEffect(t, call[t].val, 1)
        /\ loc' = [loc EXCEPT ![t].res = 1]

\* cow->array = all_new without the key, or nothing if the key is not there.
remove(t) ==
  /\ pc[t] = "publish"
  /\ call[t].op = "remove"
  /\ LET removed == Scan(loc[t].list, Key(t)) IN
       \/ /\ removed = 0
          /\ UnlockReturn(t, 0)
       \/ /\ removed # 0
          /\ pc' = [pc EXCEPT ![t] = "unlock"]
          /\ SetArray(t, TAS_LCKD, SelectSeq(loc[t].list, LAMBDA n : n.key # Key(t)))
          /\ TakesEffect(t, None, removed)
          /\ loc' = [loc EXCEPT ![t].res = removed]

UnlockA(t) == pc[t] = "unlock" /\ UnlockReturn(t, loc[t].res)

Step(t) ==
  Snapshot(t) \/ search(t) \/ LockA(t) \/ Copy(t) \/ insert(t) \/ remove(t) \/ UnlockA(t)
=============================================================================
