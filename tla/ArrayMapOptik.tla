--------------------------- MODULE ArrayMapOptik ---------------------------
(***************************************************************************)
(* ArrayMapOptik (src/algorithms/array_map_optik.h): a map in an array of  *)
(* key/value pairs under one OPTIK lock.  All operations scan the array    *)
(* without the lock.  A search validates the lock's version only when it   *)
(* found the key, a failing insert or remove never does, and an update     *)
(* takes the lock only if its version is still the one read before the     *)
(* scan.  Key 0 marks a free slot.                                         *)
(*                                                                         *)
(* Every read or write of the lock word and of a key or a value in the     *)
(* array is a step; optik_trylock_version, a test followed by a CAS, is    *)
(* one step, since each of its outcomes is that of the CAS alone at one    *)
(* of the two moments.                                                     *)
(*                                                                         *)
(* map, lin and seen are history variables: the abstract map and what each *)
(* call may still answer, for the refinement of SearchSpec.                *)
(***************************************************************************)
EXTENDS Optik, Integers, FiniteSets

CONSTANTS
  Threads, Keys, Vals,
  Size,        \* map->size, the number of slots
  MaxVersion   \* no update starts once the lock word is this large

ASSUME ConstantsAssumption ==
  /\ Keys \subseteq Nat \ {0}
  /\ Vals \subseteq Nat \ {0}
  /\ Size \in Nat
  /\ MaxVersion \in Nat

VARIABLES
  lock,      \* *map->lock
  array,     \* map->array
  pc, call,  \* where each thread is, and its call with its arguments
  ver,       \* local variables of each thread: version,
  i,         \*   i,
  free_idx,  \*   free_idx,
  val,       \*   val
  ret,       \* the result of each thread's last call
  map, lin, seen,
  pr         \* successful inserts minus successful removes that have returned

locals == <<ver, i, free_idx, val>>
vars == <<lock, array, pc, call, locals, ret, map, lin, seen, pr>>

Abs == INSTANCE SearchSpec WITH Capacity <- Size

None   == Abs!None
NoCall == Abs!NoCall
Slots  == 0..(Size - 1)

PCs == {"idle", "search", "s_scan", "s_val", "s_check",
        "insert", "i_scan", "i_key", "i_val", "i_unlock",
        "remove", "r_scan", "r_lock", "r_val", "r_key", "r_unlock"}

\* The program counters at which a thread holds the lock.
Critical == {"i_key", "i_val", "i_unlock", "r_val", "r_key", "r_unlock"}

Init ==
  /\ lock     = OPTIK_INIT
  /\ array    = [j \in Slots |-> [key |-> 0, val |-> 0]]
  /\ pc       = [t \in Threads |-> "idle"]
  /\ ver      = [t \in Threads |-> OPTIK_INIT]
  /\ i        = [t \in Threads |-> 0]
  /\ free_idx = [t \in Threads |-> -1]
  /\ val      = [t \in Threads |-> 0]
  /\ pr       = 0
  /\ Abs!Init

-----------------------------------------------------------------------------
(* Common parts of the operations.                                         *)

Goto(t, from, to) == pc[t] = from /\ pc' = [pc EXCEPT ![t] = to]

Invoke(t, c) ==
  /\ c.op # "search" => lock < MaxVersion
  /\ Goto(t, "idle", c.op)
  /\ Abs!Invoke(t, c)
  /\ UNCHANGED <<lock, array, locals, pr>>

\* Leave the operation with result r; its local variables are gone.
Return(t, r) ==
  /\ pc'       = [pc EXCEPT ![t] = "idle"]
  /\ call'     = [call EXCEPT ![t] = NoCall]
  /\ ver'      = [ver EXCEPT ![t] = OPTIK_INIT]
  /\ i'        = [i EXCEPT ![t] = 0]
  /\ free_idx' = [free_idx EXCEPT ![t] = -1]
  /\ val'      = [val EXCEPT ![t] = 0]
  /\ ret'      = [ret EXCEPT ![t] = r]
  /\ lin'      = [lin EXCEPT ![t] = Abs!Pending]
  /\ seen'     = [seen EXCEPT ![t] = {}]
  /\ pr'       = CASE call[t].op = "insert" -> pr + r
                   [] call[t].op = "remove" /\ r # 0 -> pr - 1
                   [] OTHER -> pr
  /\ UNCHANGED map

\* restart: read the version and begin a scan.
BeginScan(t, from, to) ==
  /\ Goto(t, from, to)
  /\ ver'      = [ver EXCEPT ![t] = lock]
  /\ i'        = [i EXCEPT ![t] = 0]
  /\ free_idx' = [free_idx EXCEPT ![t] = -1]
  /\ UNCHANGED <<lock, array, call, val, ret, map, lin, seen, pr>>

Key(t) == call[t].key
AtEnd(t) == i[t] = Size
KeyAt(t) == array[i[t]].key

\* One turn of a scan loop: t read a key that is not the one it looks for.
NextSlot(t) ==
  /\ i' = [i EXCEPT ![t] = @ + 1]
  /\ UNCHANGED <<lock, array, pc, call, ver, val, ret, map, lin, seen, pr>>

\* t read its key in the scan.
Found(t, to) ==
  /\ pc' = [pc EXCEPT ![t] = to]
  /\ UNCHANGED <<lock, array, call, locals, ret, map, lin, seen, pr>>

\* Mutated: takes the lock whenever it is free, whatever the version.
TrylockUnversioned(t, to, restart) ==
  /\ IF ~optik_is_locked(lock)
       THEN /\ lock' = optik_locked(lock)
            /\ pc'   = [pc EXCEPT ![t] = to]
       ELSE /\ pc'   = [pc EXCEPT ![t] = restart]
            /\ UNCHANGED lock
  /\ UNCHANGED <<array, call, locals, ret, map, seen, pr>>

\* optik_trylock_version, with a restart when it fails.
Trylock(t, to, restart) ==
  /\ IF optik_trylock_version(lock, ver[t])
       THEN /\ lock' = optik_locked(lock)
            /\ pc'   = [pc EXCEPT ![t] = to]
       ELSE /\ pc'   = [pc EXCEPT ![t] = restart]
            /\ UNCHANGED lock
  /\ UNCHANGED <<array, call, locals, ret, map, seen, pr>>

Unlock(t, r) ==
  /\ lock' = optik_unlocked(lock)
  /\ Return(t, r)
  /\ UNCHANGED array

-----------------------------------------------------------------------------
(* search(key)                                                             *)

SearchVersion(t) ==
  /\ ~optik_is_locked(lock)
  /\ BeginScan(t, "search", "s_scan")

SearchScan(t) ==
  /\ pc[t] = "s_scan" /\ ~AtEnd(t)
  /\ \/ KeyAt(t) = Key(t) /\ Found(t, "s_val")
     \/ KeyAt(t) # Key(t) /\ NextSlot(t) /\ UNCHANGED free_idx

SearchMiss(t) ==
  /\ pc[t] = "s_scan" /\ AtEnd(t)
  /\ Return(t, 0)
  /\ UNCHANGED <<lock, array>>

SearchVal(t) ==
  /\ Goto(t, "s_val", "s_check")
  /\ val' = [val EXCEPT ![t] = array[i[t]].val]
  /\ UNCHANGED <<lock, array, call, ver, i, free_idx, ret, map, lin, seen, pr>>

\* Mutated: returns the value without validating the version.
SearchNoCheck(t) ==
  /\ pc[t] = "s_check"
  /\ Return(t, val[t])
  /\ UNCHANGED <<lock, array>>

SearchCheck(t) ==
  /\ pc[t] = "s_check"
  /\ \/ /\ optik_is_same_version(ver[t], lock)
        /\ Return(t, val[t])
        /\ UNCHANGED <<lock, array>>
     \/ /\ ~optik_is_same_version(ver[t], lock)
        /\ Found(t, "search")

-----------------------------------------------------------------------------
(* insert(key, val)                                                        *)

InsertVersion(t) == BeginScan(t, "insert", "i_scan")

InsertScan(t) ==
  /\ pc[t] = "i_scan" /\ ~AtEnd(t)
  /\ \/ KeyAt(t) = Key(t) /\ Return(t, 0) /\ UNCHANGED <<lock, array>>
     \/ /\ KeyAt(t) # Key(t)
        /\ NextSlot(t)
        /\ free_idx' = [free_idx EXCEPT ![t] = IF KeyAt(t) = 0 THEN i[t] ELSE @]

\* A full array is locked and unlocked without a change: the insert is refused.
InsertLock(t) ==
  /\ pc[t] = "i_scan" /\ AtEnd(t)
  /\ Trylock(t, IF free_idx[t] >= 0 THEN "i_key" ELSE "i_unlock", "insert")
  /\ lin' = IF optik_trylock_version(lock, ver[t]) /\ free_idx[t] < 0
              THEN [lin EXCEPT ![t] = 0] ELSE lin

\* The key becomes visible before its value: the slot's old value is still
\* there.  The insert takes effect here.
InsertKey(t) ==
  /\ Goto(t, "i_key", "i_val")
  /\ array' = [array EXCEPT ![free_idx[t]].key = Key(t)]
  /\ map'   = [map EXCEPT ![Key(t)] = call[t].val]
  /\ lin'   = [lin EXCEPT ![t] = 1]
  /\ seen'  = Abs!Observe(Key(t), call[t].val)
  /\ UNCHANGED <<lock, call, locals, ret, pr>>

\* Mutated: stores the key where the value belongs.
InsertValSwapped(t) ==
  /\ Goto(t, "i_val", "i_unlock")
  /\ array' = [array EXCEPT ![free_idx[t]].val = Key(t)]
  /\ UNCHANGED <<lock, call, locals, ret, map, lin, seen, pr>>

InsertVal(t) ==
  /\ Goto(t, "i_val", "i_unlock")
  /\ array' = [array EXCEPT ![free_idx[t]].val = call[t].val]
  /\ UNCHANGED <<lock, call, locals, ret, map, lin, seen, pr>>

\* Mutated: reports success whether or not there was a free slot.
InsertAlwaysSucceeds(t) ==
  /\ pc[t] = "i_unlock"
  /\ Unlock(t, 1)

\* Mutated: a refused insert leaves early and keeps the lock.
InsertRefusedKeepsLock(t) ==
  /\ pc[t] = "i_unlock"
  /\ \/ free_idx[t] >= 0 /\ Unlock(t, 1)
     \/ free_idx[t] < 0 /\ Return(t, 0) /\ UNCHANGED <<lock, array>>

InsertUnlock(t) ==
  /\ pc[t] = "i_unlock"
  /\ Unlock(t, IF free_idx[t] >= 0 THEN 1 ELSE 0)

-----------------------------------------------------------------------------
(* remove(key)                                                             *)

RemoveVersion(t) == BeginScan(t, "remove", "r_scan")

RemoveScan(t) ==
  /\ pc[t] = "r_scan" /\ ~AtEnd(t)
  /\ \/ KeyAt(t) = Key(t) /\ Found(t, "r_lock")
     \/ KeyAt(t) # Key(t) /\ NextSlot(t) /\ UNCHANGED free_idx

RemoveMiss(t) ==
  /\ pc[t] = "r_scan" /\ AtEnd(t)
  /\ Return(t, 0)
  /\ UNCHANGED <<lock, array>>

RemoveLock(t) ==
  /\ pc[t] = "r_lock"
  /\ Trylock(t, "r_val", "remove")
  /\ UNCHANGED lin

RemoveVal(t) ==
  /\ Goto(t, "r_val", "r_key")
  /\ val' = [val EXCEPT ![t] = array[i[t]].val]
  /\ UNCHANGED <<lock, array, call, ver, i, free_idx, ret, map, lin, seen, pr>>

\* The slot is freed; its value stays behind.  The remove takes effect here.
RemoveKey(t) ==
  /\ Goto(t, "r_key", "r_unlock")
  /\ array' = [array EXCEPT ![i[t]].key = 0]
  /\ map'   = [map EXCEPT ![Key(t)] = None]
  /\ lin'   = [lin EXCEPT ![t] = val[t]]
  /\ seen'  = Abs!Observe(Key(t), None)
  /\ UNCHANGED <<lock, call, locals, ret, pr>>

RemoveUnlock(t) ==
  /\ pc[t] = "r_unlock"
  /\ Unlock(t, val[t])

-----------------------------------------------------------------------------

search(t) == SearchVersion(t) \/ SearchScan(t) \/ SearchMiss(t) \/ SearchVal(t) \/ SearchCheck(t)

insert(t) ==
  InsertVersion(t) \/ InsertScan(t) \/ InsertLock(t) \/ InsertKey(t) \/ InsertVal(t) \/ InsertUnlock(t)

remove(t) ==
  RemoveVersion(t) \/ RemoveScan(t) \/ RemoveMiss(t) \/ RemoveLock(t) \/ RemoveVal(t)
    \/ RemoveKey(t) \/ RemoveUnlock(t)

Step(t) == search(t) \/ insert(t) \/ remove(t)

Next == \E t \in Threads : Step(t) \/ \E c \in Abs!Calls : Invoke(t, c)

Spec == Init /\ [][Next]_vars

\* A thread inside an operation keeps running.
FairSpec == Spec /\ \A t \in Threads : WF_vars(Step(t))

\* length(): the occupied slots.
length == Cardinality({j \in Slots : array[j].key # 0})

-----------------------------------------------------------------------------

TypeOK ==
  /\ lock     \in Nat
  /\ array    \in [Slots -> [key : Keys \cup {0}, val : Vals \cup {0}]]
  /\ pc       \in [Threads -> PCs]
  /\ call     \in [Threads -> Abs!Calls \cup {NoCall}]
  /\ ver      \in [Threads -> Nat]
  /\ i        \in [Threads -> 0..Size]
  /\ free_idx \in [Threads -> Slots \cup {-1}]
  /\ val      \in [Threads -> Vals \cup {0}]
  /\ ret      \in [Threads -> Vals \cup {0, 1}]
  /\ map      \in [Keys -> Vals \cup {0}]
  /\ lin      \in [Threads -> Vals \cup {0, 1, Abs!Pending}]
  /\ seen     \in [Threads -> SUBSET (Vals \cup {0})]
  /\ pr       \in Int

\* No key is ever in two slots, although inserts look for the key, and for a
\* free slot, before they hold the lock.
NoDuplicateKeys ==
  \A j, k \in Slots : array[j].key = array[k].key /\ array[j].key # 0 => j = k

\* An update writes only where its scan said it would: an insert into a slot
\* that is still free, a remove from a slot that still holds its key.
UpdatesHitTheirSlot ==
  \A t \in Threads :
    /\ pc[t] = "i_key" => array[free_idx[t]].key = 0
    /\ pc[t] \in {"r_val", "r_key"} => array[i[t]].key = Key(t)

\* Every call returns what an atomic map could have returned at some moment of
\* the call: searches that did not validate, failing inserts and removes, and
\* inserts refused by a full array included.
Linearizable == Abs!Spec

\* Between calls, length() is the number of inserts minus the number of removes
\* that reported success (the size assertion at the end of test_search.cc).
LengthMatchesReturns ==
  (\A t \in Threads : pc[t] = "idle") => length = pr

\* Every call returns once updates stop (MaxVersion makes their number finite):
\* an operation restarts only because another one changed the array.
EveryCallReturns == \A t \in Threads : pc[t] # "idle" ~> pc[t] = "idle"
=============================================================================
