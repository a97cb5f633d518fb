------------------------ MODULE ArrayMapOptikProofs ------------------------
(***************************************************************************)
(* Proofs about ArrayMapOptik, for every set of threads, keys and values,  *)
(* every array size and every bound on the lock word: its invariants, and  *)
(* that it implements the atomic map of SearchSpec.                        *)
(***************************************************************************)
EXTENDS ArrayMapOptik, FiniteSetTheorems, TLAPS

-----------------------------------------------------------------------------
(* The inductive invariant.                                                *)

SearchPCs == {"search", "s_scan", "s_val", "s_check"}
InsertPCs == {"insert", "i_scan", "i_key", "i_val", "i_unlock"}
RemovePCs == {"remove", "r_scan", "r_lock", "r_val", "r_key", "r_unlock"}

\* The lock word is odd exactly while a thread is in its critical section, and
\* no two threads are.
Exclusive ==
  /\ optik_is_locked(lock) <=> \E t \in Threads : pc[t] \in Critical
  /\ \A t, u \in Threads : pc[t] \in Critical /\ pc[u] \in Critical => t = u

\* A thread is at a program counter of the operation it was called for.
CallOK(t) ==
  /\ pc[t] = "idle" <=> call[t] = NoCall
  /\ pc[t] # "idle" => call[t] \in Abs!Calls
  /\ pc[t] \in SearchPCs => call[t].op = "search"
  /\ pc[t] \in InsertPCs => call[t].op = "insert"
  /\ pc[t] \in RemovePCs => call[t].op = "remove"

\* The slot a thread is about to use exists.
SlotOK(t) ==
  /\ pc[t] \in {"s_val", "s_check", "r_lock", "r_val", "r_key", "r_unlock"} => i[t] \in Slots
  /\ pc[t] \in {"i_key", "i_val"} => free_idx[t] \in Slots

\* Versions are never from the future; a search only uses a free one.
VersionOK(t) ==
  /\ ver[t] <= lock
  /\ pc[t] \in {"s_scan", "s_val", "s_check"} => ~optik_is_locked(ver[t])

\* What t learnt from its reads since it read the version, as long as that
\* version was free and is unchanged.
Learnt(t) ==
  /\ pc[t] = "i_scan" =>
       \A j \in Slots : j < i[t] => /\ array[j].key # Key(t)
                                    /\ free_idx[t] = -1 => array[j].key # 0
  /\ pc[t] = "i_scan" /\ free_idx[t] # -1 => array[free_idx[t]].key = 0
  /\ pc[t] \in {"s_val", "s_check", "r_lock"} => array[i[t]].key = Key(t)
  /\ pc[t] = "s_check" => array[i[t]].val = val[t]

Fresh(t) == ~optik_is_locked(ver[t]) /\ lock = ver[t] => Learnt(t)

\* What a thread that holds the lock knows of the array.
HolderOK(t) ==
  /\ pc[t] = "i_key" => /\ array[free_idx[t]].key = 0
                        /\ \A j \in Slots : array[j].key # Key(t)
  /\ pc[t] = "i_val" => array[free_idx[t]].key = Key(t)
  /\ pc[t] = "i_unlock" /\ free_idx[t] = -1 => \A j \in Slots : array[j].key # 0
  /\ pc[t] \in {"r_val", "r_key"} => array[i[t]].key = Key(t)
  /\ pc[t] = "r_key" => array[i[t]].val = val[t]

ThreadOK(t) == CallOK(t) /\ SlotOK(t) /\ VersionOK(t) /\ Fresh(t) /\ HolderOK(t)

IInv ==
  /\ TypeOK
  /\ Exclusive
  /\ \A t \in Threads : ThreadOK(t)
  /\ NoDuplicateKeys

-----------------------------------------------------------------------------
(* Facts about the constants and the lock word.                            *)

\* The words before and after a lock or unlock differ in parity.
LEMMA Parity ==
  /\ \A v \in Nat : optik_is_locked(v + 1) <=> ~optik_is_locked(v)
  /\ ~optik_is_locked(0)
BY DEF optik_is_locked, OPTIK_DELETED

\* The fields of a call of each kind.
LEMMA CallFacts ==
  /\ NoCall \notin Abs!Calls
  /\ \A c \in Abs!Calls : /\ c.key \in Keys
                          /\ c.val \in Vals \cup {0}
                          /\ c.op = "insert" => c.val \in Vals
                          /\ c.op \in {"search", "insert", "remove"}
BY DEF NoCall, Abs!NoCall, Abs!Calls, Abs!None

-----------------------------------------------------------------------------
(* A step of t leaves the local variables of the others alone.             *)

Others(t) ==
  \A u \in Threads \ {t} :
    /\ pc'[u] = pc[u] /\ call'[u] = call[u] /\ ver'[u] = ver[u]
    /\ i'[u] = i[u] /\ free_idx'[u] = free_idx[u] /\ val'[u] = val[u]

\* The invariant of the other threads survives a step that changes the array
\* only under the lock and the lock word only upwards.
LEMMA OthersOK ==
  ASSUME IInv, NEW t \in Threads, Others(t),
         lock' = lock \/ lock' = lock + 1,
         array' = array \/ (pc[t] \in Critical /\ lock' = lock)
  PROVE  \A u \in Threads \ {t} : ThreadOK(u)'
<1> SUFFICES ASSUME NEW u \in Threads \ {t} PROVE ThreadOK(u)'
  OBVIOUS
<1>1. ThreadOK(u) /\ lock \in Nat /\ ver[u] \in Nat
  BY DEF IInv, TypeOK
<1>2. /\ pc'[u] = pc[u] /\ call'[u] = call[u] /\ ver'[u] = ver[u]
      /\ i'[u] = i[u] /\ free_idx'[u] = free_idx[u] /\ val'[u] = val[u]
  BY DEF Others
<1>3. CallOK(u)'
  BY <1>1, <1>2 DEF ThreadOK, CallOK
<1>4. SlotOK(u)'
  BY <1>1, <1>2 DEF ThreadOK, SlotOK
<1>5. VersionOK(u)'
  BY <1>1, <1>2 DEF ThreadOK, VersionOK
<1>6. Fresh(u)'
  <2>1. SUFFICES ASSUME ~optik_is_locked(ver[u]), lock' = ver[u] PROVE Learnt(u)'
    BY <1>2 DEF Fresh
  <2>2. lock' = lock
    BY <1>1, <2>1 DEF ThreadOK, VersionOK
  <2>3. array' = array
    BY <2>1, <2>2 DEF IInv, Exclusive
  <2>4. Learnt(u)
    BY <1>1, <2>1, <2>2 DEF ThreadOK, Fresh
  <2>5. QED BY <1>2, <2>3, <2>4 DEF Learnt, Key
<1>7. HolderOK(u)'
  <2>1. CASE array' = array
    BY <1>1, <1>2, <2>1 DEF ThreadOK, HolderOK, Key
  <2>2. CASE pc[t] \in Critical
    <3>1. pc[u] \notin Critical
      BY <2>2 DEF IInv, Exclusive
    <3>2. QED BY <1>2, <3>1 DEF HolderOK, Critical
  <2>3. QED BY <2>1, <2>2
<1>8. QED BY <1>3, <1>4, <1>5, <1>6, <1>7 DEF ThreadOK

\* A step of t outside the critical section that leaves the lock word and the
\* array alone.
LEMMA OutsideStep ==
  ASSUME IInv, NEW t \in Threads, Others(t), UNCHANGED <<lock, array>>,
         pc[t] \notin Critical, pc'[t] \notin Critical, TypeOK', ThreadOK(t)'
  PROVE  IInv'
<1>1. \A u \in Threads : ThreadOK(u)'
  BY OthersOK
<1>2. \A u \in Threads : pc'[u] \in Critical <=> pc[u] \in Critical
  BY DEF Others
<1>3. Exclusive'
  BY <1>2 DEF IInv, Exclusive
<1>4. NoDuplicateKeys'
  BY DEF IInv, NoDuplicateKeys
<1>5. QED BY <1>1, <1>3, <1>4 DEF IInv

-----------------------------------------------------------------------------
(* One lemma per kind of step.                                             *)

\* Leaving an operation: types, the leaving thread, and what the others rely on.
LEMMA ReturnStep ==
  ASSUME IInv, NEW t \in Threads, NEW r \in Vals \cup {0, 1}, pc[t] # "idle",
         Return(t, r), lock' \in Nat, lock <= lock', UNCHANGED array
  PROVE  TypeOK' /\ Others(t) /\ ThreadOK(t)' /\ pc'[t] = "idle"
<1>1. TypeOK
  BY DEF IInv
<1>2. pc'[t] = "idle" /\ call'[t] = NoCall /\ ver'[t] = 0
  BY <1>1 DEF Return, TypeOK, OPTIK_INIT
<1>3. pr' \in Int
  <2>1. r \in Int /\ pr \in Int
    BY <1>1, ConstantsAssumption DEF TypeOK
  <2>2. QED BY <2>1 DEF Return
<1>4. TypeOK'
  BY <1>1, <1>3, ConstantsAssumption DEF Return, TypeOK, PCs, OPTIK_INIT
<1>5. Others(t)
  BY <1>1 DEF Return, TypeOK, Others
<1>6. ThreadOK(t)'
  BY <1>2, <1>4 DEF ThreadOK, CallOK, SlotOK, VersionOK, Fresh, Learnt, HolderOK,
                    SearchPCs, InsertPCs, RemovePCs, TypeOK
<1>7. QED BY <1>2, <1>4, <1>5, <1>6

\* Starting a call preserves the invariant.
LEMMA InvokeStep ==
  ASSUME IInv, NEW t \in Threads, NEW c \in Abs!Calls, Invoke(t, c)
  PROVE  IInv'
<1>1. TypeOK /\ ThreadOK(t)
  BY DEF IInv
<1>2. /\ pc[t] = "idle" /\ pc'[t] = c.op /\ call'[t] = c
      /\ UNCHANGED <<lock, array, locals>>
  BY <1>1 DEF Invoke, Goto, TypeOK, Abs!Invoke
<1>3. TypeOK'
  BY <1>1, CallFacts DEF Invoke, Goto, TypeOK, PCs, locals, Abs!Invoke, Abs!None
<1>4. Others(t)
  BY <1>1 DEF Others, Invoke, Goto, TypeOK, locals, Abs!Invoke
<1>5. ThreadOK(t)'
  BY <1>1, <1>2, CallFacts
     DEF ThreadOK, CallOK, SlotOK, VersionOK, Fresh, Learnt, HolderOK, SearchPCs,
         InsertPCs, RemovePCs, locals
<1>6. pc[t] \notin Critical /\ pc'[t] \notin Critical
  BY <1>2, CallFacts DEF Critical
<1>7. QED BY <1>2, <1>3, <1>4, <1>5, <1>6, OutsideStep

\* Reading the version and starting a scan preserves the invariant.
LEMMA BeginScanStep ==
  ASSUME IInv, NEW t \in Threads,
         \/ SearchVersion(t)
         \/ InsertVersion(t)
         \/ RemoveVersion(t)
  PROVE  IInv'
<1> USE DEF SearchVersion, InsertVersion, RemoveVersion, BeginScan, Goto
<1>1. TypeOK /\ ThreadOK(t)
  BY DEF IInv
<1>2. /\ ver'[t] = lock /\ i'[t] = 0 /\ free_idx'[t] = -1 /\ call'[t] = call[t]
      /\ UNCHANGED <<lock, array>>
      /\ \/ pc[t] = "search" /\ pc'[t] = "s_scan" /\ ~optik_is_locked(lock)
         \/ pc[t] = "insert" /\ pc'[t] = "i_scan"
         \/ pc[t] = "remove" /\ pc'[t] = "r_scan"
  BY <1>1 DEF TypeOK
<1>3. TypeOK'
  BY <1>1, ConstantsAssumption DEF TypeOK, PCs
<1>4. Others(t)
  BY <1>1 DEF Others, TypeOK
<1>5. ThreadOK(t)'
  BY <1>1, <1>2, <1>3
     DEF ThreadOK, CallOK, SlotOK, VersionOK, Fresh, Learnt, HolderOK, SearchPCs,
         InsertPCs, RemovePCs, TypeOK, Slots
<1>6. pc[t] \notin Critical /\ pc'[t] \notin Critical
  BY <1>2 DEF Critical
<1>7. QED BY <1>2, <1>3, <1>4, <1>5, <1>6, OutsideStep

\* An operation that returns without holding the lock.
LEMMA PlainReturnStep ==
  ASSUME IInv, NEW t \in Threads, NEW r \in Vals \cup {0, 1},
         pc[t] \in {"s_scan", "s_check", "i_scan", "r_scan"},
         Return(t, r), UNCHANGED <<lock, array>>
  PROVE  IInv'
<1>1. lock' \in Nat /\ lock <= lock'
  BY DEF IInv, TypeOK
<1>2. TypeOK' /\ Others(t) /\ ThreadOK(t)' /\ pc'[t] = "idle"
  BY <1>1, ReturnStep
<1>3. pc[t] \notin Critical /\ pc'[t] \notin Critical
  BY <1>2 DEF Critical
<1>4. QED BY <1>2, <1>3, OutsideStep

\* t goes on to the next slot of a search or a remove.
LEMMA NextSlotStep ==
  ASSUME IInv, NEW t \in Threads, pc[t] \in {"s_scan", "r_scan"}, ~AtEnd(t),
         NextSlot(t), UNCHANGED free_idx
  PROVE  IInv'
<1> USE DEF NextSlot, AtEnd
<1>1. TypeOK /\ ThreadOK(t)
  BY DEF IInv
<1>2. TypeOK'
  <2>1. i[t] \in 0..Size /\ i[t] # Size
    BY <1>1 DEF TypeOK
  <2>2. i[t] + 1 \in 0..Size
    BY <2>1, ConstantsAssumption
  <2>3. QED BY <1>1, <2>2 DEF TypeOK
<1>3. Others(t)
  BY <1>1 DEF Others, TypeOK
<1>4. ThreadOK(t)'
  BY <1>1
     DEF ThreadOK, CallOK, SlotOK, VersionOK, Fresh, Learnt, HolderOK
<1>5. pc[t] \notin Critical /\ pc'[t] \notin Critical
  BY DEF Critical
<1>6. QED BY <1>2, <1>3, <1>4, <1>5, OutsideStep

\* t found its key in the slot it just read.
LEMMA FoundStep ==
  ASSUME IInv, NEW t \in Threads, ~AtEnd(t), KeyAt(t) = Key(t),
         \/ pc[t] = "s_scan" /\ Found(t, "s_val")
         \/ pc[t] = "r_scan" /\ Found(t, "r_lock")
  PROVE  IInv'
<1> USE DEF Found, locals
<1>1. TypeOK /\ ThreadOK(t)
  BY DEF IInv
<1>2. TypeOK'
  BY <1>1 DEF TypeOK, PCs
<1>3. Others(t)
  BY <1>1 DEF Others, TypeOK
<1>4. i[t] \in Slots
  BY <1>1, ConstantsAssumption DEF TypeOK, AtEnd, Slots
<1>5. /\ pc'[t] = IF pc[t] = "s_scan" THEN "s_val" ELSE "r_lock"
      /\ UNCHANGED <<lock, array, call, ver, i, free_idx, val>>
  BY <1>1 DEF TypeOK
<1>6. ThreadOK(t)'
  BY <1>1, <1>4, <1>5
     DEF ThreadOK, CallOK, SlotOK, VersionOK, Fresh, Learnt, HolderOK, SearchPCs,
         InsertPCs, RemovePCs, KeyAt, Key
<1>7. pc[t] \notin Critical /\ pc'[t] \notin Critical
  BY <1>5 DEF Critical
<1>8. QED BY <1>2, <1>3, <1>5, <1>6, <1>7, OutsideStep

\* An insert reads a slot that does not hold its key.
LEMMA InsertScanStep ==
  ASSUME IInv, NEW t \in Threads, pc[t] = "i_scan", ~AtEnd(t), KeyAt(t) # Key(t),
         NextSlot(t),
         free_idx' = [free_idx EXCEPT ![t] = IF KeyAt(t) = 0 THEN i[t] ELSE @]
  PROVE  IInv'
<1> USE DEF NextSlot
<1>1. TypeOK /\ ThreadOK(t)
  BY DEF IInv
<1>2. i[t] \in Slots /\ i'[t] = i[t] + 1 /\ i'[t] \in 0..Size
  BY <1>1, ConstantsAssumption DEF TypeOK, AtEnd, Slots
<1>3. free_idx'[t] = IF array[i[t]].key = 0 THEN i[t] ELSE free_idx[t]
  BY <1>1 DEF TypeOK, KeyAt
<1>4. TypeOK'
  BY <1>1, <1>2 DEF TypeOK
<1>5. Others(t)
  BY <1>1 DEF Others, TypeOK
<1>6. Fresh(t)'
  <2>1. SUFFICES ASSUME ~optik_is_locked(ver[t]), lock = ver[t] PROVE Learnt(t)'
    BY DEF Fresh
  <2>2. Learnt(t)
    BY <1>1, <2>1 DEF ThreadOK, Fresh
  <2>3. ASSUME NEW j \in Slots, j < i'[t]
        PROVE  array[j].key # Key(t) /\ (free_idx'[t] = -1 => array[j].key # 0)
    <3>1. CASE j = i[t]
      BY <1>2, <1>3, <3>1 DEF KeyAt, Slots
    <3>2. CASE j < i[t]
      BY <1>2, <1>3, <2>2, <3>2 DEF Learnt, Slots
    <3>3. QED BY <1>2, <2>3, <3>1, <3>2 DEF Slots
  <2>4. free_idx'[t] # -1 => array[free_idx'[t]].key = 0
    BY <1>3, <2>2 DEF Learnt
  <2>5. QED BY <2>3, <2>4 DEF Learnt, Key
<1>7. ThreadOK(t)'
  BY <1>1, <1>6 DEF ThreadOK, CallOK, SlotOK, VersionOK, HolderOK
<1>8. pc[t] \notin Critical /\ pc'[t] \notin Critical
  BY DEF Critical
<1>9. QED BY <1>4, <1>5, <1>7, <1>8, OutsideStep

\* A search reads the value next to its key.
LEMMA SearchValStep ==
  ASSUME IInv, NEW t \in Threads, SearchVal(t)
  PROVE  IInv'
<1> USE DEF SearchVal, Goto
<1>1. TypeOK /\ ThreadOK(t)
  BY DEF IInv
<1>2. /\ pc[t] = "s_val" /\ pc'[t] = "s_check" /\ val'[t] = array[i[t]].val
      /\ i[t] \in Slots
  BY <1>1 DEF TypeOK, ThreadOK, SlotOK
<1>3. TypeOK'
  BY <1>1, <1>2 DEF TypeOK, PCs
<1>4. Others(t)
  BY <1>1 DEF Others, TypeOK
<1>5. ThreadOK(t)'
  BY <1>1, <1>2
     DEF ThreadOK, CallOK, SlotOK, VersionOK, Fresh, Learnt, HolderOK, SearchPCs,
         InsertPCs, RemovePCs, Key
<1>6. pc[t] \notin Critical /\ pc'[t] \notin Critical
  BY <1>2 DEF Critical
<1>7. QED BY <1>3, <1>4, <1>5, <1>6, OutsideStep

\* A failed validation or a failed trylock sends t back to restart.
LEMMA RestartStep ==
  ASSUME IInv, NEW t \in Threads,
         \/ pc[t] = "s_check" /\ pc' = [pc EXCEPT ![t] = "search"]
         \/ pc[t] = "i_scan" /\ pc' = [pc EXCEPT ![t] = "insert"]
         \/ pc[t] = "r_lock" /\ pc' = [pc EXCEPT ![t] = "remove"],
         UNCHANGED <<lock, array, call, locals, ret, map, lin, seen, pr>>
  PROVE  IInv'
<1> USE DEF locals
<1>1. TypeOK /\ ThreadOK(t)
  BY DEF IInv
<1>2. TypeOK'
  BY <1>1 DEF TypeOK, PCs
<1>3. Others(t)
  BY <1>1 DEF Others, TypeOK
<1>4. pc'[t] = CASE pc[t] = "s_check" -> "search"
                 [] pc[t] = "i_scan" -> "insert"
                 [] pc[t] = "r_lock" -> "remove"
  BY <1>1 DEF TypeOK
<1>5. ThreadOK(t)'
  BY <1>1, <1>4
     DEF ThreadOK, CallOK, SlotOK, VersionOK, Fresh, Learnt, HolderOK, SearchPCs,
         InsertPCs, RemovePCs
<1>6. pc[t] \notin Critical /\ pc'[t] \notin Critical
  BY <1>4 DEF Critical
<1>7. QED BY <1>2, <1>3, <1>5, <1>6, OutsideStep

\* A successful trylock: the version is unchanged, so what the scan learnt is
\* what the holder knows.
LEMMA AcquireStep ==
  ASSUME IInv, NEW t \in Threads, NEW p,
         \/ /\ pc[t] = "i_scan" /\ AtEnd(t)
            /\ p = IF free_idx[t] >= 0 THEN "i_key" ELSE "i_unlock"
         \/ pc[t] = "r_lock" /\ p = "r_val",
         ~optik_is_locked(ver[t]), lock = ver[t],
         lock' = optik_locked(lock), pc' = [pc EXCEPT ![t] = p],
         UNCHANGED <<array, call, locals, ret, map, seen, pr>>,
         lin' \in [Threads -> Vals \cup {0, 1, Abs!Pending}]
  PROVE  IInv'
<1> USE DEF locals
<1>1. TypeOK /\ ThreadOK(t)
  BY DEF IInv
<1>2. lock' = lock + 1 /\ lock \in Nat /\ optik_is_locked(lock')
  BY <1>1, Parity DEF TypeOK, optik_locked
<1>3. p \in {"i_key", "i_unlock", "r_val"} /\ pc'[t] = p
  BY <1>1 DEF TypeOK
<1>4. TypeOK'
  BY <1>1, <1>2, <1>3 DEF TypeOK, PCs
<1>5. Others(t)
  BY <1>1 DEF Others, TypeOK
<1>6. \A u \in Threads : pc[u] \notin Critical
  BY DEF IInv, Exclusive
<1>7. Exclusive'
  BY <1>2, <1>3, <1>5, <1>6 DEF Exclusive, Others, Critical
<1>8. Learnt(t)
  BY <1>1 DEF ThreadOK, Fresh
<1>9. SlotOK(t)' /\ HolderOK(t)'
  <2>1. CASE pc[t] = "r_lock"
    BY <1>1, <1>3, <1>8, <2>1 DEF ThreadOK, SlotOK, HolderOK, Learnt, Key
  <2>2. CASE pc[t] = "i_scan" /\ AtEnd(t)
    <3>1. /\ pc'[t] = IF free_idx[t] >= 0 THEN "i_key" ELSE "i_unlock"
          /\ free_idx[t] \in Slots \cup {-1}
      BY <1>1, <1>3, <2>2 DEF TypeOK
    <3>2. free_idx[t] >= 0 <=> free_idx[t] \in Slots
      BY <3>1, ConstantsAssumption DEF Slots
    <3>3. \A j \in Slots : j < i[t]
      BY <2>2, ConstantsAssumption DEF AtEnd, Slots
    <3>4. \A j \in Slots : /\ array[j].key # Key(t)
                           /\ free_idx[t] = -1 => array[j].key # 0
      BY <1>8, <2>2, <3>3 DEF Learnt
    <3>5. free_idx[t] # -1 => array[free_idx[t]].key = 0
      BY <1>8, <2>2 DEF Learnt
    <3>6. SlotOK(t)'
      BY <3>1, <3>2 DEF SlotOK
    <3>7. HolderOK(t)'
      BY <3>1, <3>2, <3>4, <3>5 DEF HolderOK, Key, Slots
    <3>8. QED BY <3>6, <3>7
  <2>3. QED BY <2>1, <2>2
<1>10. CallOK(t)'
  BY <1>1, <1>3 DEF ThreadOK, CallOK, SearchPCs, InsertPCs, RemovePCs
<1>11. VersionOK(t)' /\ Fresh(t)'
  BY <1>2, <1>3 DEF VersionOK, Fresh
<1>12. \A u \in Threads : ThreadOK(u)'
  BY <1>2, <1>5, <1>9, <1>10, <1>11, OthersOK DEF ThreadOK
<1>13. QED BY <1>4, <1>7, <1>12 DEF IInv, NoDuplicateKeys

\* A step of the lock holder that keeps the lock.
LEMMA HolderStep ==
  ASSUME IInv, NEW t \in Threads, Others(t), UNCHANGED lock,
         pc[t] \in Critical, pc'[t] \in Critical,
         TypeOK', ThreadOK(t)', NoDuplicateKeys'
  PROVE  IInv'
<1>1. \A u \in Threads : ThreadOK(u)'
  BY OthersOK
<1>2. \A u \in Threads : pc'[u] \in Critical <=> pc[u] \in Critical
  BY DEF Others
<1>3. Exclusive'
  BY <1>2 DEF IInv, Exclusive
<1>4. QED BY <1>1, <1>3 DEF IInv

\* The holder's version is behind the lock word, so Fresh says nothing of it.
LEMMA HolderVersion ==
  ASSUME IInv, NEW t \in Threads, pc[t] \in Critical
  PROVE  /\ optik_is_locked(lock) /\ lock \in Nat /\ ~optik_is_locked(lock + 1)
         /\ VersionOK(t) /\ CallOK(t)
BY Parity DEF IInv, Exclusive, TypeOK, ThreadOK

\* insert writes its key: the slot was free and no slot holds the key.
LEMMA InsertKeyStep ==
  ASSUME IInv, NEW t \in Threads, InsertKey(t)
  PROVE  IInv'
<1> USE DEF InsertKey, Goto
<1>1. TypeOK /\ ThreadOK(t)
  BY DEF IInv
<1>2. /\ pc[t] = "i_key" /\ pc'[t] = "i_val"
      /\ free_idx[t] \in Slots /\ call[t] \in Abs!Calls /\ call[t].op = "insert"
      /\ UNCHANGED <<lock, call, ver, i, free_idx, val>>
  BY <1>1 DEF TypeOK, ThreadOK, SlotOK, CallOK, InsertPCs, locals
<1>3. Key(t) \in Keys /\ call[t].val \in Vals
  BY <1>2, CallFacts DEF Key
<1>4. pc[t] \in Critical /\ pc'[t] \in Critical
  BY <1>2 DEF Critical
<1>5. /\ array' \in [Slots -> [key : Keys \cup {0}, val : Vals \cup {0}]]
      /\ \A j \in Slots : /\ array'[j].key = IF j = free_idx[t] THEN Key(t) ELSE array[j].key
                          /\ array'[j].val = array[j].val
  BY <1>1, <1>2, <1>3 DEF TypeOK
<1>6. seen' \in [Threads -> SUBSET (Vals \cup {0})]
  BY <1>1, <1>3 DEF TypeOK, Abs!Observe
<1>7. TypeOK'
  BY <1>1, <1>2, <1>3, <1>5, <1>6 DEF TypeOK, PCs
<1>8. Others(t)
  BY <1>1, <1>2 DEF Others, TypeOK
<1>9. NoDuplicateKeys'
  BY <1>1, <1>2, <1>3, <1>5 DEF IInv, NoDuplicateKeys, ThreadOK, HolderOK
<1>10. CallOK(t)' /\ SlotOK(t)' /\ VersionOK(t)'
  BY <1>1, <1>2 DEF ThreadOK, CallOK, SlotOK, VersionOK, SearchPCs, InsertPCs, RemovePCs
<1>11. Fresh(t)' /\ HolderOK(t)'
  BY <1>2, <1>5 DEF Fresh, Learnt, HolderOK, Key
<1>12. QED BY <1>2, <1>4, <1>7, <1>8, <1>9, <1>10, <1>11, HolderStep DEF ThreadOK

\* insert writes its value: no key changes.
LEMMA InsertValStep ==
  ASSUME IInv, NEW t \in Threads, InsertVal(t)
  PROVE  IInv'
<1> USE DEF InsertVal, Goto
<1>1. TypeOK /\ ThreadOK(t)
  BY DEF IInv
<1>2. /\ pc[t] = "i_val" /\ pc'[t] = "i_unlock"
      /\ free_idx[t] \in Slots /\ call[t] \in Abs!Calls /\ call[t].op = "insert"
      /\ UNCHANGED <<lock, call, ver, i, free_idx, val>>
  BY <1>1 DEF TypeOK, ThreadOK, SlotOK, CallOK, InsertPCs, locals
<1>3. call[t].val \in Vals
  BY <1>2, CallFacts
<1>4. pc[t] \in Critical /\ pc'[t] \in Critical
  BY <1>2 DEF Critical
<1>5. /\ array' \in [Slots -> [key : Keys \cup {0}, val : Vals \cup {0}]]
      /\ \A j \in Slots : array'[j].key = array[j].key
  BY <1>1, <1>2, <1>3 DEF TypeOK
<1>6. TypeOK'
  BY <1>1, <1>2, <1>5 DEF TypeOK, PCs
<1>7. Others(t)
  BY <1>1, <1>2 DEF Others, TypeOK
<1>8. NoDuplicateKeys'
  BY <1>5 DEF IInv, NoDuplicateKeys
<1>9. free_idx[t] # -1
  BY <1>2 DEF Slots
<1>10. ThreadOK(t)'
  BY <1>1, <1>2, <1>9
     DEF ThreadOK, CallOK, SlotOK, VersionOK, Fresh, Learnt, HolderOK, SearchPCs,
         InsertPCs, RemovePCs
<1>11. QED BY <1>2, <1>4, <1>6, <1>7, <1>8, <1>10, HolderStep

\* remove reads the value it will return.
LEMMA RemoveValStep ==
  ASSUME IInv, NEW t \in Threads, RemoveVal(t)
  PROVE  IInv'
<1> USE DEF RemoveVal, Goto
<1>1. TypeOK /\ ThreadOK(t)
  BY DEF IInv
<1>2. /\ pc[t] = "r_val" /\ pc'[t] = "r_key" /\ i[t] \in Slots
      /\ val'[t] = array[i[t]].val
  BY <1>1 DEF TypeOK, ThreadOK, SlotOK
<1>3. TypeOK'
  BY <1>1, <1>2 DEF TypeOK, PCs
<1>4. Others(t)
  BY <1>1 DEF Others, TypeOK
<1>5. NoDuplicateKeys'
  BY DEF IInv, NoDuplicateKeys
<1>6. ThreadOK(t)'
  BY <1>1, <1>2
     DEF ThreadOK, CallOK, SlotOK, VersionOK, Fresh, Learnt, HolderOK, SearchPCs,
         InsertPCs, RemovePCs, Key
<1>7. pc[t] \in Critical /\ pc'[t] \in Critical
  BY <1>2 DEF Critical
<1>8. QED BY <1>3, <1>4, <1>5, <1>6, <1>7, HolderStep

\* remove clears its slot.
LEMMA RemoveKeyStep ==
  ASSUME IInv, NEW t \in Threads, RemoveKey(t)
  PROVE  IInv'
<1> USE DEF RemoveKey, Goto
<1>1. TypeOK /\ ThreadOK(t)
  BY DEF IInv
<1>2. /\ pc[t] = "r_key" /\ pc'[t] = "r_unlock" /\ i[t] \in Slots
      /\ call[t] \in Abs!Calls
      /\ UNCHANGED <<lock, call, ver, i, free_idx, val>>
  BY <1>1 DEF TypeOK, ThreadOK, SlotOK, CallOK, locals
<1>3. Key(t) \in Keys
  BY <1>2, CallFacts DEF Key
<1>4. /\ array' \in [Slots -> [key : Keys \cup {0}, val : Vals \cup {0}]]
      /\ \A j \in Slots : array'[j].key = IF j = i[t] THEN 0 ELSE array[j].key
  BY <1>1, <1>2 DEF TypeOK
<1>5. seen' \in [Threads -> SUBSET (Vals \cup {0})]
  BY <1>1 DEF TypeOK, Abs!Observe, None, Abs!None
<1>6. TypeOK'
  BY <1>1, <1>2, <1>3, <1>4, <1>5 DEF TypeOK, PCs, None, Abs!None
<1>7. Others(t)
  BY <1>1, <1>2 DEF Others, TypeOK
<1>8. NoDuplicateKeys'
  BY <1>4 DEF IInv, NoDuplicateKeys
<1>9. ThreadOK(t)'
  BY <1>1, <1>2
     DEF ThreadOK, CallOK, SlotOK, VersionOK, Fresh, Learnt, HolderOK, SearchPCs,
         InsertPCs, RemovePCs
<1>10. pc[t] \in Critical /\ pc'[t] \in Critical
  BY <1>2 DEF Critical
<1>11. QED BY <1>2, <1>6, <1>7, <1>8, <1>9, <1>10, HolderStep

\* Unlocking and returning.
LEMMA UnlockStep ==
  ASSUME IInv, NEW t \in Threads, NEW r \in Vals \cup {0, 1},
         pc[t] \in {"i_unlock", "r_unlock"}, Unlock(t, r)
  PROVE  IInv'
<1>1. pc[t] \in Critical
  BY DEF Critical
<1>2. lock \in Nat /\ lock' = lock + 1 /\ ~optik_is_locked(lock')
  BY <1>1, HolderVersion DEF Unlock, optik_unlocked
<1>3. TypeOK' /\ Others(t) /\ ThreadOK(t)' /\ pc'[t] = "idle"
  BY <1>2, ReturnStep DEF Unlock
<1>4. \A u \in Threads : ThreadOK(u)'
  BY <1>2, <1>3, OthersOK DEF Unlock
<1>5. \A u \in Threads : pc'[u] \notin Critical
  BY <1>1, <1>3 DEF IInv, Exclusive, Others, Critical
<1>6. Exclusive'
  BY <1>2, <1>5 DEF Exclusive
<1>7. QED BY <1>3, <1>4, <1>6 DEF IInv, NoDuplicateKeys, Unlock

-----------------------------------------------------------------------------
(* The theorems.                                                           *)

\* Every step of search preserves the invariant.
LEMMA SearchStep ==
  ASSUME IInv, NEW t \in Threads, search(t)
  PROVE  IInv'
<1>1. CASE SearchVersion(t)
  BY <1>1, BeginScanStep
<1>2. CASE SearchScan(t)
  BY <1>2, FoundStep, NextSlotStep DEF SearchScan
<1>3. CASE SearchMiss(t)
  BY <1>3, PlainReturnStep DEF SearchMiss
<1>4. CASE SearchVal(t)
  BY <1>4, SearchValStep
<1>5. CASE SearchCheck(t)
  <2>1. val[t] \in Vals \cup {0, 1}
    BY DEF IInv, TypeOK
  <2>2. QED BY <1>5, <2>1, PlainReturnStep, RestartStep DEF SearchCheck, Found
<1>6. QED BY <1>1, <1>2, <1>3, <1>4, <1>5 DEF search

\* Every step of insert preserves the invariant.
LEMMA InsertStep ==
  ASSUME IInv, NEW t \in Threads, insert(t)
  PROVE  IInv'
<1>1. CASE InsertVersion(t)
  BY <1>1, BeginScanStep
<1>2. CASE InsertScan(t)
  BY <1>2, PlainReturnStep, InsertScanStep DEF InsertScan
<1>3. CASE InsertLock(t)
  <2>1. CASE optik_trylock_version(lock, ver[t])
    <3>1. lin' \in [Threads -> Vals \cup {0, 1, Abs!Pending}]
      BY <1>3 DEF InsertLock, IInv, TypeOK
    <3>2. QED
      BY <1>3, <2>1, <3>1, AcquireStep DEF InsertLock, Trylock, optik_trylock_version
  <2>2. CASE ~optik_trylock_version(lock, ver[t])
    BY <1>3, <2>2, RestartStep DEF InsertLock, Trylock
  <2>3. QED BY <2>1, <2>2
<1>4. CASE InsertKey(t)
  BY <1>4, InsertKeyStep
<1>5. CASE InsertVal(t)
  BY <1>5, InsertValStep
<1>6. CASE InsertUnlock(t)
  BY <1>6, UnlockStep DEF InsertUnlock
<1>7. QED BY <1>1, <1>2, <1>3, <1>4, <1>5, <1>6 DEF insert

\* Every step of remove preserves the invariant.
LEMMA RemoveStep ==
  ASSUME IInv, NEW t \in Threads, remove(t)
  PROVE  IInv'
<1>1. CASE RemoveVersion(t)
  BY <1>1, BeginScanStep
<1>2. CASE RemoveScan(t)
  BY <1>2, FoundStep, NextSlotStep DEF RemoveScan
<1>3. CASE RemoveMiss(t)
  BY <1>3, PlainReturnStep DEF RemoveMiss
<1>4. CASE RemoveLock(t)
  <2>1. CASE optik_trylock_version(lock, ver[t])
    <3>1. lin' \in [Threads -> Vals \cup {0, 1, Abs!Pending}]
      BY <1>4 DEF RemoveLock, IInv, TypeOK
    <3>2. QED
      BY <1>4, <2>1, <3>1, AcquireStep DEF RemoveLock, Trylock, optik_trylock_version
  <2>2. CASE ~optik_trylock_version(lock, ver[t])
    BY <1>4, <2>2, RestartStep DEF RemoveLock, Trylock
  <2>3. QED BY <2>1, <2>2
<1>5. CASE RemoveVal(t)
  BY <1>5, RemoveValStep
<1>6. CASE RemoveKey(t)
  BY <1>6, RemoveKeyStep
<1>7. CASE RemoveUnlock(t)
  <2>1. val[t] \in Vals \cup {0, 1}
    BY DEF IInv, TypeOK
  <2>2. QED BY <1>7, <2>1, UnlockStep DEF RemoveUnlock
<1>8. QED BY <1>1, <1>2, <1>3, <1>4, <1>5, <1>6, <1>7 DEF remove

\* The invariant is inductive.
LEMMA Inductive == IInv /\ [Next]_vars => IInv'
<1> SUFFICES ASSUME IInv, [Next]_vars PROVE IInv'
  OBVIOUS
<1>1. CASE UNCHANGED vars
  <2> USE <1>1 DEF vars, locals
  <2>1. TypeOK' /\ Exclusive' /\ NoDuplicateKeys'
    BY DEF IInv, TypeOK, Exclusive, NoDuplicateKeys
  <2>2. \A t \in Threads : ThreadOK(t)'
    BY DEF IInv, ThreadOK, CallOK, SlotOK, VersionOK, Fresh, Learnt, HolderOK, Key
  <2>3. QED BY <2>1, <2>2 DEF IInv
<1>2. CASE Next
  BY <1>2, InvokeStep, SearchStep, InsertStep, RemoveStep DEF Next, Step
<1>3. QED BY <1>1, <1>2

\* The invariant holds when the map has been constructed.
LEMMA Initially == Init => IInv
<1> SUFFICES ASSUME Init PROVE IInv
  OBVIOUS
<1> USE DEF Init, Abs!Init
<1>1. TypeOK
  BY ConstantsAssumption DEF TypeOK, PCs, OPTIK_INIT, None, NoCall, Abs!None
<1>2. \A t \in Threads : pc[t] = "idle" /\ ver[t] = 0 /\ call[t] = NoCall
  BY DEF OPTIK_INIT, NoCall
<1>3. Exclusive
  BY <1>2, Parity DEF Exclusive, Critical, OPTIK_INIT
<1>4. \A t \in Threads : ThreadOK(t)
  BY <1>2 DEF ThreadOK, CallOK, SlotOK, VersionOK, Fresh, Learnt, HolderOK, SearchPCs,
              InsertPCs, RemovePCs, OPTIK_INIT
<1>5. NoDuplicateKeys
  BY DEF NoDuplicateKeys
<1>6. QED BY <1>1, <1>3, <1>4, <1>5 DEF IInv

\* The invariant of the array map holds in every reachable state; with it, type
\* correctness.
THEOREM Invariance == Spec => []IInv
BY Initially, Inductive, PTL DEF Spec

\* No step stores a value outside its type.
THEOREM TypeCorrect == Spec => []TypeOK
<1>1. IInv => TypeOK BY DEF IInv
<1>2. QED BY <1>1, Invariance, PTL

\* A key occupies at most one slot, for any number of threads and slots.
THEOREM KeysAreUnique == Spec => []NoDuplicateKeys
<1>1. IInv => NoDuplicateKeys BY DEF IInv
<1>2. QED BY <1>1, Invariance, PTL

\* The slot that an update found before it had the lock is still the right one
\* when it writes.
THEOREM UpdatesAreSafe == Spec => []UpdatesHitTheirSlot
<1>1. IInv => UpdatesHitTheirSlot
  BY DEF IInv, ThreadOK, HolderOK, UpdatesHitTheirSlot
<1>2. QED BY <1>1, Invariance, PTL

-----------------------------------------------------------------------------
(* The invariant that relates the array to the history variables.          *)

\* The abstract map is what the array holds; a key whose value is not written
\* yet has the value of the insert that wrote it.
Unwritten(j) == \E t \in Threads : pc[t] = "i_val" /\ free_idx[t] = j

MapOK ==
  /\ \A k \in Keys : map[k] = None <=> \A j \in Slots : array[j].key # k
  /\ \A j \in Slots : array[j].key # 0 /\ ~Unwritten(j) => map[array[j].key] = array[j].val
  /\ \A t \in Threads : pc[t] = "i_val" => map[Key(t)] = call[t].val

\* The result an operation has fixed.
LinOK(t) ==
  lin[t] = CASE pc[t] = "i_val" -> 1
             [] pc[t] = "i_unlock" -> IF free_idx[t] >= 0 THEN 1 ELSE 0
             [] pc[t] = "r_unlock" -> val[t]
             [] OTHER -> Abs!Pending

\* The present value has been seen.  A scan that has not met its key either has
\* it still ahead or the key was absent at some moment of the call.
SeenOK(t) ==
  /\ pc[t] # "idle" => map[Key(t)] \in seen[t]
  /\ pc[t] \in {"s_scan", "r_scan"} =>
       None \in seen[t] \/ \E j \in Slots : j >= i[t] /\ array[j].key = Key(t)

HInv == MapOK /\ \A t \in Threads : LinOK(t) /\ SeenOK(t)

-----------------------------------------------------------------------------
(* Counting: the keys present and the slots occupied.                      *)

\* Cardinality as the abstract module uses it is Cardinality.
LEMMA AbsCardinality == \A S : Abs!Cardinality(S) = Cardinality(S)
BY DEF Abs!Cardinality, Cardinality

Occupied == {j \in Slots : array[j].key # 0}

\* The number of keys in the abstract map is the number of occupied slots.
LEMMA PresentCardinality ==
  ASSUME IInv, MapOK
  PROVE  /\ IsFiniteSet(Occupied) /\ Cardinality(Occupied) \in Nat
         /\ Cardinality(Abs!Present) = Cardinality(Occupied)
         /\ Occupied = Slots => Cardinality(Abs!Present) = Size
         /\ Occupied # Slots => Cardinality(Abs!Present) < Size
<1> DEFINE f == [j \in Occupied |-> array[j].key]
<1>1. IsFiniteSet(Slots) /\ Cardinality(Slots) = Size
  BY FS_Interval, ConstantsAssumption DEF Slots
<1>2. Occupied \in SUBSET Slots
  BY DEF Occupied
<1>3. /\ IsFiniteSet(Occupied)
      /\ Cardinality(Occupied) <= Cardinality(Slots)
      /\ Cardinality(Slots) = Cardinality(Occupied) => Slots = Occupied
  BY <1>1, <1>2, FS_Subset
<1>4. Cardinality(Occupied) \in Nat
  BY <1>3, FS_CardinalityType
<1>5. \A j \in Occupied : array[j].key \in Abs!Present
  BY DEF Occupied, IInv, TypeOK, MapOK, Abs!Present, None
<1>6. \A k \in Abs!Present : \E j \in Occupied : array[j].key = k
  BY ConstantsAssumption DEF Occupied, MapOK, Abs!Present, None
<1>7. f \in Surjection(Occupied, Abs!Present)
  BY <1>5, <1>6 DEF Surjection
<1>8. f \in Injection(Occupied, Abs!Present)
  <2>1. f \in [Occupied -> Abs!Present]
    BY <1>5
  <2>2. \A j, k \in Occupied : f[j] = f[k] => j = k
    BY DEF Occupied, IInv, NoDuplicateKeys
  <2>3. QED BY <2>1, <2>2 DEF Injection, IsInjective
<1>9. Cardinality(Abs!Present) = Cardinality(Occupied)
  BY <1>3, <1>7, <1>8, FS_Surjection
<1>10. QED BY <1>1, <1>3, <1>4, <1>9, ConstantsAssumption

-----------------------------------------------------------------------------
(* Steps that leave the array and the map alone.                           *)

\* The history of the others, and the map, survive such a step.
LEMMA QuietStep ==
  ASSUME IInv, HInv, NEW t \in Threads, Others(t), UNCHANGED <<array, map>>,
         pc[t] # "i_val", pc'[t] # "i_val",
         \A u \in Threads \ {t} : lin'[u] = lin[u] /\ seen'[u] = seen[u],
         LinOK(t)', SeenOK(t)'
  PROVE  HInv'
<1>1. ASSUME NEW u \in Threads \ {t}
      PROVE  LinOK(u)' /\ SeenOK(u)'
  <2>1. /\ pc'[u] = pc[u] /\ call'[u] = call[u] /\ ver'[u] = ver[u]
        /\ i'[u] = i[u] /\ free_idx'[u] = free_idx[u] /\ val'[u] = val[u]
    BY <1>1 DEF Others
  <2>2. LinOK(u) /\ SeenOK(u)
    BY DEF HInv
  <2>3. LinOK(u)'
    BY <2>1, <2>2 DEF LinOK
  <2>4. SeenOK(u)'
    BY <2>1, <2>2 DEF SeenOK, Key
  <2>5. QED BY <2>3, <2>4
<1>2. \A u \in Threads : (pc'[u] = "i_val") <=> (pc[u] = "i_val")
  BY DEF Others
<1>3. \A u \in Threads : pc[u] = "i_val" =>
         free_idx'[u] = free_idx[u] /\ call'[u] = call[u]
  BY DEF Others
<1>4. \A j : Unwritten(j)' <=> Unwritten(j)
  BY <1>2, <1>3 DEF Unwritten
<1>5. MapOK'
  BY <1>2, <1>3, <1>4 DEF HInv, MapOK, Key
<1>6. QED BY <1>1, <1>5 DEF HInv

\* The abstract variables as the refinement mapping sees them.
LEMMA AbsVars ==
  UNCHANGED <<map, call, lin, seen, ret>> => UNCHANGED Abs!vars
BY DEF Abs!vars

\* Starting a call is a step of the atomic map.
LEMMA InvokeSim ==
  ASSUME IInv, HInv, NEW t \in Threads, NEW c \in Abs!Calls, Invoke(t, c)
  PROVE  HInv' /\ Abs!Next
<1>1. TypeOK
  BY DEF IInv
<1>2. Abs!Next
  BY DEF Invoke, Abs!Next
<1>3. /\ Others(t) /\ pc[t] = "idle" /\ pc'[t] = c.op /\ call'[t] = c
      /\ UNCHANGED <<array, map, lin>>
      /\ seen' = [seen EXCEPT ![t] = {map[c.key]}]
  BY <1>1 DEF Invoke, Goto, Abs!Invoke, TypeOK, Others, locals
<1>4. c.op \in {"search", "insert", "remove"} /\ c.key \in Keys
  BY CallFacts
<1>5. LinOK(t)'
  BY <1>3, <1>4 DEF HInv, LinOK
<1>6. SeenOK(t)'
  BY <1>1, <1>3, <1>4 DEF SeenOK, Key, TypeOK
<1>7. \A u \in Threads \ {t} : lin'[u] = lin[u] /\ seen'[u] = seen[u]
  BY <1>1, <1>3 DEF TypeOK
<1>8. HInv'
  BY <1>3, <1>4, <1>5, <1>6, <1>7, QuietStep
<1>9. QED BY <1>2, <1>8

\* A step that changes no variable of the abstract map.
LEMMA StutterSim ==
  ASSUME IInv, HInv, NEW t \in Threads, Others(t),
         UNCHANGED <<array, map, call, lin, seen, ret>>,
         pc[t] \notin {"idle", "i_val", "i_unlock", "r_unlock"},
         pc'[t] \notin {"i_val", "i_unlock", "r_unlock"}, SeenOK(t)'
  PROVE  HInv' /\ UNCHANGED Abs!vars
<1>1. LinOK(t)'
  BY DEF HInv, LinOK
<1>2. HInv'
  BY <1>1, QuietStep
<1>3. QED BY <1>2, AbsVars

\* Starting a scan is invisible to the atomic map.
LEMMA BeginScanSim ==
  ASSUME IInv, HInv, NEW t \in Threads,
         SearchVersion(t) \/ InsertVersion(t) \/ RemoveVersion(t)
  PROVE  HInv' /\ UNCHANGED Abs!vars
<1> USE DEF SearchVersion, InsertVersion, RemoveVersion, BeginScan, Goto
<1>1. TypeOK /\ CallOK(t)
  BY DEF IInv, ThreadOK
<1>2. /\ Others(t) /\ i'[t] = 0
      /\ pc[t] \in {"search", "insert", "remove"}
      /\ pc'[t] \in {"s_scan", "i_scan", "r_scan"}
  BY <1>1 DEF TypeOK, Others
<1>3. Key(t) \in Keys
  BY <1>1, <1>2, CallFacts DEF CallOK, Key
<1>4. map[Key(t)] \in seen[t]
  BY <1>2 DEF HInv, SeenOK
<1>5. None \in seen[t] \/ \E j \in Slots : array[j].key = Key(t)
  BY <1>3, <1>4 DEF HInv, MapOK
<1>6. SeenOK(t)'
  BY <1>2, <1>4, <1>5 DEF SeenOK, Key, Slots
<1>7. QED BY <1>2, <1>6, StutterSim

\* A scan leaves behind a slot that does not hold its key.
LEMMA NextSlotSim ==
  ASSUME IInv, HInv, NEW t \in Threads, pc[t] \in {"s_scan", "i_scan", "r_scan"},
         ~AtEnd(t), KeyAt(t) # Key(t), NextSlot(t),
         \A u \in Threads \ {t} : free_idx'[u] = free_idx[u]
  PROVE  HInv' /\ UNCHANGED Abs!vars
<1> USE DEF NextSlot
<1>1. TypeOK
  BY DEF IInv
<1>2. Others(t) /\ i[t] \in 0..Size /\ i'[t] = i[t] + 1
  BY <1>1 DEF TypeOK, Others
<1>3. SeenOK(t)
  BY DEF HInv
<1>4. ASSUME NEW j \in Slots, j >= i[t], array[j].key = Key(t)
      PROVE  j >= i[t] + 1
  BY <1>2, <1>4, ConstantsAssumption DEF KeyAt, Slots
<1>5. SeenOK(t)'
  BY <1>2, <1>3, <1>4 DEF SeenOK, Key
<1>6. QED BY <1>2, <1>5, StutterSim

\* Any other step that only moves the program counter, a local variable or the
\* lock word.
LEMMA MoveSim ==
  ASSUME IInv, HInv, NEW t \in Threads, Others(t),
         UNCHANGED <<array, map, call, lin, seen, ret>>,
         pc[t] \notin {"idle", "i_val", "i_unlock", "r_unlock"},
         pc'[t] \notin {"s_scan", "r_scan", "i_val", "i_unlock", "r_unlock"}
  PROVE  HInv' /\ UNCHANGED Abs!vars
<1>1. SeenOK(t)'
  BY DEF HInv, SeenOK, Key
<1>2. QED BY <1>1, StutterSim

-----------------------------------------------------------------------------
(* Returns.                                                                *)

\* A return with a result the abstract map allows.
LEMMA ReturnSim ==
  ASSUME IInv, HInv, NEW t \in Threads, NEW r \in Vals \cup {0, 1},
         pc[t] \notin {"idle", "i_val"}, Return(t, r), UNCHANGED array,
         IF lin[t] = Abs!Pending THEN Abs!Justified(t, r) ELSE r = lin[t]
  PROVE  HInv' /\ Abs!Next
<1>1. TypeOK /\ CallOK(t)
  BY DEF IInv, ThreadOK
<1>2. call[t] # NoCall
  BY <1>1 DEF CallOK
<1>3. Abs!Return(t, r)
  BY <1>2 DEF Return, Abs!Return, NoCall
<1>4. Abs!Next
  BY <1>3 DEF Abs!Next
<1>5. Others(t) /\ pc'[t] = "idle" /\ lin'[t] = Abs!Pending
  BY <1>1 DEF Return, TypeOK, Others
<1>6. \A u \in Threads \ {t} : lin'[u] = lin[u] /\ seen'[u] = seen[u]
  BY <1>1 DEF Return, TypeOK
<1>7. LinOK(t)' /\ SeenOK(t)'
  BY <1>5 DEF LinOK, SeenOK
<1>8. map' = map
  BY DEF Return
<1>9. HInv'
  BY <1>5, <1>6, <1>7, <1>8, QuietStep
<1>10. QED BY <1>4, <1>9

\* A scan that met the end of the array: its key was absent at some moment.
LEMMA MissSim ==
  ASSUME IInv, HInv, NEW t \in Threads, SearchMiss(t) \/ RemoveMiss(t)
  PROVE  HInv' /\ Abs!Next
<1> USE DEF SearchMiss, RemoveMiss
<1>1. pc[t] \in {"s_scan", "r_scan"} /\ i[t] = Size
  BY DEF AtEnd
<1>2. None \in seen[t]
  BY <1>1, ConstantsAssumption DEF HInv, SeenOK, Slots
<1>3. lin[t] = Abs!Pending
  BY <1>1 DEF HInv, LinOK
<1>4. call[t].op \in {"search", "remove"}
  BY <1>1 DEF IInv, ThreadOK, CallOK, SearchPCs, RemovePCs
<1>5. Abs!Justified(t, 0)
  BY <1>2, <1>4 DEF Abs!Justified, None, Abs!None
<1>6. QED BY <1>1, <1>3, <1>5, ReturnSim

\* A search that found its key and validated: the value is the present one.
LEMMA HitSim ==
  ASSUME IInv, HInv, NEW t \in Threads, pc[t] = "s_check", ver[t] = lock,
         Return(t, val[t]), UNCHANGED array
  PROVE  HInv' /\ Abs!Next
<1>1. /\ TypeOK /\ ~optik_is_locked(lock) /\ Learnt(t) /\ i[t] \in Slots
      /\ call[t] \in Abs!Calls /\ call[t].op = "search"
  BY DEF IInv, ThreadOK, VersionOK, Fresh, SlotOK, CallOK, SearchPCs
<1>2. ~Unwritten(i[t])
  BY <1>1 DEF IInv, Exclusive, Unwritten, Critical
<1>3. array[i[t]].key = Key(t) /\ array[i[t]].val = val[t]
  BY <1>1 DEF Learnt
<1>4. Key(t) # 0
  BY <1>1, CallFacts, ConstantsAssumption DEF Key
<1>5. map[Key(t)] = val[t]
  BY <1>1, <1>2, <1>3, <1>4 DEF HInv, MapOK
<1>6. val[t] \in seen[t] /\ lin[t] = Abs!Pending
  BY <1>5 DEF HInv, SeenOK, LinOK
<1>7. Abs!Justified(t, val[t])
  BY <1>1, <1>6 DEF Abs!Justified
<1>8. val[t] \in Vals \cup {0, 1}
  BY <1>1 DEF TypeOK
<1>9. QED BY <1>6, <1>7, <1>8, ReturnSim

\* An insert that met its key: the key is present.
LEMMA DuplicateSim ==
  ASSUME IInv, HInv, NEW t \in Threads, pc[t] = "i_scan", ~AtEnd(t),
         KeyAt(t) = Key(t), Return(t, 0), UNCHANGED array
  PROVE  HInv' /\ Abs!Next
<1>1. /\ TypeOK /\ call[t] \in Abs!Calls /\ call[t].op = "insert"
  BY DEF IInv, ThreadOK, CallOK, InsertPCs
<1>2. i[t] \in Slots /\ array[i[t]].key = Key(t)
  BY <1>1, ConstantsAssumption DEF TypeOK, AtEnd, Slots, KeyAt
<1>3. map[Key(t)] # None
  BY <1>1, <1>2, CallFacts DEF HInv, MapOK, Key
<1>4. map[Key(t)] \in seen[t] /\ lin[t] = Abs!Pending
  BY DEF HInv, SeenOK, LinOK
<1>5. Abs!Justified(t, 0)
  BY <1>1, <1>3, <1>4 DEF Abs!Justified, None
<1>6. QED BY <1>4, <1>5, ReturnSim

\* Unlocking returns the result that the effect fixed.
LEMMA UnlockSim ==
  ASSUME IInv, HInv, NEW t \in Threads, InsertUnlock(t) \/ RemoveUnlock(t)
  PROVE  HInv' /\ Abs!Next
<1> USE DEF InsertUnlock, RemoveUnlock, Unlock
<1>1. TypeOK /\ LinOK(t)
  BY DEF IInv, HInv
<1>2. CASE InsertUnlock(t)
  <2>1. lin[t] = IF free_idx[t] >= 0 THEN 1 ELSE 0
    BY <1>1, <1>2 DEF LinOK
  <2>2. lin[t] \in {0, 1} /\ lin[t] # Abs!Pending
    BY <2>1 DEF Abs!Pending
  <2>3. QED BY <1>2, <2>1, <2>2, ReturnSim
<1>3. CASE RemoveUnlock(t)
  <2>1. lin[t] = val[t]
    BY <1>1, <1>3 DEF LinOK
  <2>2. val[t] \in Vals \cup {0, 1} /\ val[t] # Abs!Pending
    BY <1>1, ConstantsAssumption DEF TypeOK, Abs!Pending
  <2>3. QED BY <1>3, <2>1, <2>2, ReturnSim
<1>4. QED BY <1>2, <1>3

-----------------------------------------------------------------------------
(* Effects.                                                                *)

\* A trylock that succeeds with no free slot: the array is full.
LEMMA RefuseSim ==
  ASSUME IInv, HInv, NEW t \in Threads, pc[t] = "i_scan", AtEnd(t),
         ~optik_is_locked(ver[t]), lock = ver[t], free_idx[t] < 0,
         pc' = [pc EXCEPT ![t] = "i_unlock"], lin' = [lin EXCEPT ![t] = 0],
         UNCHANGED <<array, call, locals, ret, map, seen>>
  PROVE  HInv' /\ Abs!Next
<1> USE DEF locals
<1>1. TypeOK /\ Learnt(t) /\ call[t].op = "insert"
  BY DEF IInv, ThreadOK, Fresh, CallOK, InsertPCs
<1>2. free_idx[t] = -1
  BY <1>1, ConstantsAssumption DEF TypeOK, Slots
<1>3. \A j \in Slots : j < i[t]
  BY ConstantsAssumption DEF AtEnd, Slots
<1>4. Occupied = Slots
  BY <1>1, <1>2, <1>3 DEF Learnt, Occupied
<1>5. Cardinality(Abs!Present) >= Size
  BY <1>4, PresentCardinality, ConstantsAssumption DEF HInv
<1>6. lin[t] = Abs!Pending
  BY DEF HInv, LinOK
<1>7. Abs!Refuse(t)
  BY <1>1, <1>5, <1>6, AbsCardinality DEF Abs!Refuse
<1>8. Abs!Next
  BY <1>7 DEF Abs!Next
<1>9. Others(t) /\ pc'[t] = "i_unlock" /\ lin'[t] = 0
  BY <1>1 DEF TypeOK, Others
<1>10. LinOK(t)' /\ SeenOK(t)'
  <2>1. ~(free_idx'[t] >= 0)
    BY <1>2
  <2>2. LinOK(t)'
    BY <1>9, <2>1 DEF LinOK
  <2>3. SeenOK(t)'
    BY <1>9 DEF SeenOK, HInv, Key
  <2>4. QED BY <2>2, <2>3
<1>11. \A u \in Threads \ {t} : lin'[u] = lin[u] /\ seen'[u] = seen[u]
  BY <1>1 DEF TypeOK
<1>12. HInv'
  BY <1>9, <1>10, <1>11, QuietStep
<1>13. QED BY <1>8, <1>12

\* The history of the other threads when t gives its key the value v.
LEMMA EffectSeen ==
  ASSUME IInv, HInv, NEW t \in Threads, NEW v, call[t] \in Abs!Calls, Others(t),
         map' = [map EXCEPT ![Key(t)] = v], seen' = Abs!Observe(Key(t), v),
         UNCHANGED call, NEW r, lin' = [lin EXCEPT ![t] = r],
         v = None \/ \A j \in Slots : array[j].key # 0 => array'[j].key = array[j].key,
         \A j \in Slots : array[j].key \notin {0, Key(t)} => array'[j].key = array[j].key
  PROVE  /\ \A u \in Threads \ {t} : LinOK(u)' /\ SeenOK(u)'
         /\ v \in seen'[t]
<1>1. TypeOK /\ Key(t) \in Keys
  BY CallFacts DEF IInv, Key
<1>2. \A u \in Threads : seen'[u] =
         IF call[u] # NoCall /\ Key(u) = Key(t) THEN seen[u] \cup {v} ELSE seen[u]
  BY DEF Abs!Observe, Key, NoCall
<1>3. v \in seen'[t]
  BY <1>2, CallFacts
<1>4. ASSUME NEW u \in Threads \ {t}
      PROVE  LinOK(u)' /\ SeenOK(u)'
  <2>1. /\ pc'[u] = pc[u] /\ call'[u] = call[u] /\ i'[u] = i[u]
        /\ free_idx'[u] = free_idx[u] /\ val'[u] = val[u] /\ Key(u)' = Key(u)
    BY <1>4 DEF Others, Key
  <2>2. LinOK(u) /\ SeenOK(u) /\ lin'[u] = lin[u] /\ CallOK(u)
    BY <1>1 DEF HInv, TypeOK, IInv, ThreadOK
  <2>3. LinOK(u)'
    BY <2>1, <2>2 DEF LinOK
  <2>4. CASE pc[u] = "idle"
    BY <2>1, <2>3, <2>4 DEF SeenOK
  <2>5. CASE pc[u] # "idle"
    <3>1. call[u] # NoCall /\ Key(u) \in Keys
      BY <2>2, <2>5, CallFacts DEF CallOK, Key
    <3>2. map'[Key(u)] = IF Key(u) = Key(t) THEN v ELSE map[Key(u)]
      BY <1>1, <3>1 DEF TypeOK
    <3>3. map'[Key(u)] \in seen'[u]
      BY <1>2, <2>2, <2>5, <3>1, <3>2 DEF SeenOK
    <3>4. ASSUME pc[u] \in {"s_scan", "r_scan"}
          PROVE  None \in seen'[u] \/ \E j \in Slots : j >= i[u] /\ array'[j].key = Key(u)
      <4>1. CASE None \in seen[u]
        BY <1>2, <4>1
      <4>2. CASE Key(u) = Key(t) /\ v = None
        BY <1>2, <3>1, <4>2
      <4>3. CASE None \notin seen[u] /\ ~(Key(u) = Key(t) /\ v = None)
        <5>1. PICK j \in Slots : j >= i[u] /\ array[j].key = Key(u)
          BY <2>2, <3>4, <4>3 DEF SeenOK
        <5>2. Key(u) # 0
          BY <3>1, ConstantsAssumption
        <5>3. array'[j].key = Key(u)
          BY <4>3, <5>1, <5>2
        <5>4. QED BY <5>1, <5>3
      <4>4. QED BY <4>1, <4>2, <4>3
    <3>5. SeenOK(u)'
      BY <2>1, <3>3, <3>4 DEF SeenOK
    <3>6. QED BY <2>3, <3>5
  <2>6. QED BY <2>4, <2>5
<1>5. QED BY <1>3, <1>4

\* insert takes effect when it writes its key.
LEMMA InsertKeySim ==
  ASSUME IInv, HInv, NEW t \in Threads, InsertKey(t)
  PROVE  HInv' /\ Abs!Next
<1> USE DEF InsertKey, Goto
<1>1. TypeOK /\ ThreadOK(t)
  BY DEF IInv
<1>2. /\ pc[t] = "i_key" /\ pc'[t] = "i_val" /\ free_idx[t] \in Slots
      /\ call[t] \in Abs!Calls /\ call[t].op = "insert"
      /\ UNCHANGED <<call, i, free_idx, val, ret>>
  BY <1>1 DEF TypeOK, ThreadOK, SlotOK, CallOK, InsertPCs, locals
<1>3. /\ Key(t) \in Keys /\ Key(t) # 0 /\ call[t].val \in Vals /\ call[t].val # None
  BY <1>2, CallFacts, ConstantsAssumption DEF Key, None, Abs!None
<1>4. /\ array[free_idx[t]].key = 0
      /\ \A j \in Slots : array[j].key # Key(t)
  BY <1>1, <1>2 DEF ThreadOK, HolderOK
<1>5. Others(t)
  BY <1>1, <1>2 DEF Others, TypeOK, locals
<1>6. \A j \in Slots : /\ array'[j].key = IF j = free_idx[t] THEN Key(t) ELSE array[j].key
                       /\ array'[j].val = array[j].val
  BY <1>1, <1>2 DEF TypeOK
<1>7. map[Key(t)] = None /\ lin[t] = Abs!Pending
  BY <1>2, <1>3, <1>4 DEF HInv, MapOK, LinOK
<1>8. Cardinality(Abs!Present) < Size
  BY <1>2, <1>4, PresentCardinality DEF Occupied, HInv
<1>9. Abs!Insert(t)
  <2>1. call[t] # NoCall
    BY <1>2, CallFacts
  <2>2. Abs!Effect(t, call[t].val, 1)
    BY <1>2, <1>7, <2>1 DEF Abs!Effect, Key, NoCall
  <2>3. QED BY <1>2, <1>7, <1>8, <2>2, AbsCardinality DEF Abs!Insert, Key, None
<1>10. Abs!Next
  BY <1>9 DEF Abs!Next
<1>11. /\ \A u \in Threads \ {t} : LinOK(u)' /\ SeenOK(u)'
       /\ call[t].val \in seen'[t]
  BY <1>2, <1>4, <1>5, <1>6, EffectSeen
<1>12. \A k \in Keys : map'[k] = IF k = Key(t) THEN call[t].val ELSE map[k]
  BY <1>1, <1>3 DEF TypeOK
<1>13. LinOK(t)' /\ SeenOK(t)'
  BY <1>1, <1>2, <1>3, <1>11, <1>12 DEF LinOK, SeenOK, Key, TypeOK
<1>14. \A u \in Threads \ {t} : pc[u] \notin Critical
  BY <1>2 DEF IInv, Exclusive, Critical
<1>15. \A j \in Slots : Unwritten(j)' <=> j = free_idx[t]
  BY <1>2, <1>5, <1>14 DEF Unwritten, Others, Critical
<1>16. MapOK'
  <2>1. ASSUME NEW k \in Keys
        PROVE  map'[k] = None <=> \A j \in Slots : array'[j].key # k
    <3>1. CASE k = Key(t)
      BY <1>2, <1>3, <1>6, <1>12, <3>1
    <3>2. CASE k # Key(t)
      <4>1. \A j \in Slots : array'[j].key = k <=> array[j].key = k
        BY <1>4, <1>6, <3>2, ConstantsAssumption
      <4>2. QED BY <1>12, <3>2, <4>1 DEF HInv, MapOK
    <3>3. QED BY <3>1, <3>2
  <2>2. ASSUME NEW j \in Slots, array'[j].key # 0, j # free_idx[t]
        PROVE  map'[array'[j].key] = array'[j].val
    <3>1. array[j].key \in Keys /\ array[j].key # Key(t) /\ ~Unwritten(j)
      BY <1>1, <1>2, <1>4, <1>6, <1>14, <2>2 DEF TypeOK, Unwritten, Critical
    <3>2. QED BY <1>6, <1>12, <2>2, <3>1 DEF HInv, MapOK
  <2>3. ASSUME NEW u \in Threads, pc'[u] = "i_val"
        PROVE  map'[Key(u)'] = call'[u].val
    <3>1. u = t
      BY <1>5, <1>14, <2>3 DEF Others, Critical
    <3>2. QED BY <1>2, <1>3, <1>12, <3>1 DEF Key
  <2>4. QED BY <1>15, <2>1, <2>2, <2>3 DEF MapOK
<1>17. QED BY <1>10, <1>11, <1>13, <1>16 DEF HInv

\* Writing the value is invisible to the atomic map.
LEMMA InsertValSim ==
  ASSUME IInv, HInv, NEW t \in Threads, InsertVal(t)
  PROVE  HInv' /\ UNCHANGED Abs!vars
<1> USE DEF InsertVal, Goto
<1>1. TypeOK /\ ThreadOK(t)
  BY DEF IInv
<1>2. /\ pc[t] = "i_val" /\ pc'[t] = "i_unlock" /\ free_idx[t] \in Slots
      /\ UNCHANGED <<call, i, free_idx, val, ret, map, lin, seen>>
  BY <1>1 DEF TypeOK, ThreadOK, SlotOK, locals
<1>3. \A j \in Slots : /\ array'[j].key = array[j].key
                       /\ array'[j].val = IF j = free_idx[t] THEN call[t].val ELSE array[j].val
  BY <1>1, <1>2 DEF TypeOK
<1>4. \A u \in Threads \ {t} : pc[u] \notin Critical /\ pc'[u] = pc[u]
  BY <1>1, <1>2 DEF IInv, Exclusive, Critical, TypeOK
<1>5. \A j \in Slots : /\ Unwritten(j) <=> j = free_idx[t]
                       /\ ~Unwritten(j)'
  BY <1>2, <1>4 DEF Unwritten, Critical
<1>6. array[free_idx[t]].key = Key(t) /\ map[Key(t)] = call[t].val
  BY <1>1, <1>2 DEF ThreadOK, HolderOK, HInv, MapOK
<1>7. MapOK'
  <2>1. \A k \in Keys : map'[k] = None <=> \A j \in Slots : array'[j].key # k
    BY <1>2, <1>3 DEF HInv, MapOK
  <2>2. \A j \in Slots : array'[j].key # 0 => map'[array'[j].key] = array'[j].val
    BY <1>2, <1>3, <1>5, <1>6 DEF HInv, MapOK
  <2>3. \A u \in Threads : pc'[u] # "i_val"
    BY <1>2, <1>4 DEF Critical
  <2>4. QED BY <2>1, <2>2, <2>3 DEF MapOK
<1>8. \A u \in Threads : SeenOK(u)'
  BY <1>2, <1>3, <1>4 DEF HInv, SeenOK, Key
<1>9. \A u \in Threads : LinOK(u)'
  <2>1. free_idx[t] >= 0
    BY <1>2 DEF Slots
  <2>2. LinOK(t)'
    BY <1>2, <2>1 DEF HInv, LinOK
  <2>3. \A u \in Threads \ {t} : LinOK(u)'
    BY <1>2, <1>4 DEF HInv, LinOK
  <2>4. QED BY <2>2, <2>3
<1>10. QED BY <1>2, <1>7, <1>8, <1>9, AbsVars DEF HInv

\* remove takes effect when it clears its slot.
LEMMA RemoveKeySim ==
  ASSUME IInv, HInv, NEW t \in Threads, RemoveKey(t)
  PROVE  HInv' /\ Abs!Next
<1> USE DEF RemoveKey, Goto
<1>1. TypeOK /\ ThreadOK(t)
  BY DEF IInv
<1>2. /\ pc[t] = "r_key" /\ pc'[t] = "r_unlock" /\ i[t] \in Slots
      /\ call[t] \in Abs!Calls /\ call[t].op = "remove"
      /\ UNCHANGED <<call, i, free_idx, val, ret>>
  BY <1>1 DEF TypeOK, ThreadOK, SlotOK, CallOK, RemovePCs, locals
<1>3. Key(t) \in Keys /\ Key(t) # 0
  BY <1>2, CallFacts, ConstantsAssumption DEF Key
<1>4. array[i[t]].key = Key(t) /\ array[i[t]].val = val[t]
  BY <1>1, <1>2 DEF ThreadOK, HolderOK
<1>5. Others(t)
  BY <1>1, <1>2 DEF Others, TypeOK, locals
<1>6. \A j \in Slots : /\ array'[j].key = IF j = i[t] THEN 0 ELSE array[j].key
                       /\ array'[j].val = array[j].val
  BY <1>1, <1>2 DEF TypeOK
<1>7. \A u \in Threads \ {t} : pc[u] \notin Critical
  BY <1>2 DEF IInv, Exclusive, Critical
<1>8. \A j : ~Unwritten(j) /\ ~Unwritten(j)'
  BY <1>2, <1>5, <1>7 DEF Unwritten, Others, Critical
<1>9. map[Key(t)] = val[t] /\ lin[t] = Abs!Pending /\ map[Key(t)] # None
  BY <1>2, <1>3, <1>4, <1>8 DEF HInv, MapOK, LinOK
<1>10. Abs!Remove(t)
  <2>1. call[t] # NoCall
    BY <1>2, CallFacts
  <2>2. Abs!Effect(t, None, val[t])
    BY <1>2, <1>9, <2>1 DEF Abs!Effect, Key, NoCall
  <2>3. QED BY <1>2, <1>9, <2>2 DEF Abs!Remove, Key, None
<1>11. Abs!Next
  BY <1>10 DEF Abs!Next
<1>12. /\ \A u \in Threads \ {t} : LinOK(u)' /\ SeenOK(u)'
       /\ None \in seen'[t]
  BY <1>2, <1>4, <1>5, <1>6, EffectSeen
<1>13. \A k \in Keys : map'[k] = IF k = Key(t) THEN None ELSE map[k]
  BY <1>1, <1>3 DEF TypeOK
<1>14. LinOK(t)' /\ SeenOK(t)'
  BY <1>1, <1>2, <1>3, <1>12, <1>13 DEF LinOK, SeenOK, Key, TypeOK
<1>15. MapOK'
  <2>1. \A j \in Slots : array[j].key = Key(t) => j = i[t]
    BY <1>2, <1>3, <1>4 DEF IInv, NoDuplicateKeys
  <2>2. ASSUME NEW k \in Keys
        PROVE  map'[k] = None <=> \A j \in Slots : array'[j].key # k
    BY <1>2, <1>3, <1>4, <1>6, <1>13, <2>1, ConstantsAssumption DEF HInv, MapOK
  <2>3. ASSUME NEW j \in Slots, array'[j].key # 0
        PROVE  map'[array'[j].key] = array'[j].val
    <3>1. j # i[t] /\ array[j].key \in Keys /\ array[j].key # Key(t)
      BY <1>1, <1>6, <2>1, <2>3 DEF TypeOK
    <3>2. QED BY <1>6, <1>8, <1>13, <2>3, <3>1 DEF HInv, MapOK
  <2>4. \A u \in Threads : pc'[u] # "i_val"
    BY <1>2, <1>5, <1>7 DEF Others, Critical
  <2>5. QED BY <2>2, <2>3, <2>4 DEF MapOK
<1>16. QED BY <1>11, <1>12, <1>14, <1>15 DEF HInv

-----------------------------------------------------------------------------
(* Every step of an operation is a step of the atomic map or no step.      *)

\* Every step of search is a step of the atomic map, or invisible.
LEMMA SearchSim ==
  ASSUME IInv, HInv, NEW t \in Threads, search(t)
  PROVE  HInv' /\ [Abs!Next]_Abs!vars
<1>1. TypeOK
  BY DEF IInv
<1>2. CASE SearchVersion(t)
  BY <1>2, BeginScanSim
<1>3. CASE SearchScan(t)
  <2>1. CASE KeyAt(t) = Key(t)
    <3>1. Others(t) /\ pc[t] = "s_scan" /\ pc'[t] = "s_val"
      BY <1>1, <1>3, <2>1 DEF SearchScan, Found, TypeOK, Others, locals
    <3>2. QED BY <1>3, <2>1, <3>1, MoveSim DEF SearchScan, Found
  <2>2. CASE KeyAt(t) # Key(t)
    BY <1>3, <2>2, NextSlotSim DEF SearchScan
  <2>3. QED BY <2>1, <2>2
<1>4. CASE SearchMiss(t)
  BY <1>4, MissSim
<1>5. CASE SearchVal(t)
  <2>1. Others(t) /\ pc[t] = "s_val" /\ pc'[t] = "s_check"
    BY <1>1, <1>5 DEF SearchVal, Goto, TypeOK, Others
  <2>2. QED BY <1>5, <2>1, MoveSim DEF SearchVal
<1>6. CASE SearchCheck(t)
  <2>1. CASE ver[t] = lock
    BY <1>6, <2>1, HitSim DEF SearchCheck, optik_is_same_version
  <2>2. CASE ver[t] # lock
    <3>1. Others(t) /\ pc[t] = "s_check" /\ pc'[t] = "search"
      BY <1>1, <1>6, <2>2
         DEF SearchCheck, Found, TypeOK, Others, locals, optik_is_same_version
    <3>2. QED
      BY <1>6, <2>2, <3>1, MoveSim DEF SearchCheck, Found, optik_is_same_version
  <2>3. QED BY <2>1, <2>2
<1>7. QED BY <1>2, <1>3, <1>4, <1>5, <1>6 DEF search

\* Every step of insert is a step of the atomic map, or invisible.
LEMMA InsertSim ==
  ASSUME IInv, HInv, NEW t \in Threads, insert(t)
  PROVE  HInv' /\ [Abs!Next]_Abs!vars
<1>1. TypeOK
  BY DEF IInv
<1>2. CASE InsertVersion(t)
  BY <1>2, BeginScanSim
<1>3. CASE InsertScan(t)
  <2>1. CASE KeyAt(t) = Key(t)
    BY <1>3, <2>1, DuplicateSim DEF InsertScan
  <2>2. CASE KeyAt(t) # Key(t)
    <3>1. \A u \in Threads \ {t} : free_idx'[u] = free_idx[u]
      BY <1>1, <1>3, <2>2 DEF InsertScan, TypeOK
    <3>2. QED BY <1>3, <2>2, <3>1, NextSlotSim DEF InsertScan
  <2>3. QED BY <2>1, <2>2
<1>4. CASE InsertLock(t)
  <2>1. CASE optik_trylock_version(lock, ver[t]) /\ free_idx[t] < 0
    <3>1. ~(free_idx[t] >= 0)
      BY <1>1, <2>1, ConstantsAssumption DEF TypeOK, Slots
    <3>2. QED
      BY <1>4, <2>1, <3>1, RefuseSim DEF InsertLock, Trylock, optik_trylock_version
  <2>2. CASE ~(optik_trylock_version(lock, ver[t]) /\ free_idx[t] < 0)
    <3>1. optik_trylock_version(lock, ver[t]) => free_idx[t] >= 0
      BY <1>1, <2>2, ConstantsAssumption DEF TypeOK, Slots
    <3>2. Others(t) /\ pc[t] = "i_scan" /\ pc'[t] \in {"i_key", "insert"}
      BY <1>1, <1>4, <3>1 DEF InsertLock, Trylock, TypeOK, Others, locals
    <3>3. UNCHANGED <<array, map, call, lin, seen, ret>>
      BY <1>4, <2>2 DEF InsertLock, Trylock
    <3>4. QED BY <3>2, <3>3, MoveSim
  <2>3. QED BY <2>1, <2>2
<1>5. CASE InsertKey(t)
  BY <1>5, InsertKeySim
<1>6. CASE InsertVal(t)
  BY <1>6, InsertValSim
<1>7. CASE InsertUnlock(t)
  BY <1>7, UnlockSim
<1>8. QED BY <1>2, <1>3, <1>4, <1>5, <1>6, <1>7 DEF insert

\* Every step of remove is a step of the atomic map, or invisible.
LEMMA RemoveSim ==
  ASSUME IInv, HInv, NEW t \in Threads, remove(t)
  PROVE  HInv' /\ [Abs!Next]_Abs!vars
<1>1. TypeOK
  BY DEF IInv
<1>2. CASE RemoveVersion(t)
  BY <1>2, BeginScanSim
<1>3. CASE RemoveScan(t)
  <2>1. CASE KeyAt(t) = Key(t)
    <3>1. Others(t) /\ pc[t] = "r_scan" /\ pc'[t] = "r_lock"
      BY <1>1, <1>3, <2>1 DEF RemoveScan, Found, TypeOK, Others, locals
    <3>2. QED BY <1>3, <2>1, <3>1, MoveSim DEF RemoveScan, Found
  <2>2. CASE KeyAt(t) # Key(t)
    BY <1>3, <2>2, NextSlotSim DEF RemoveScan
  <2>3. QED BY <2>1, <2>2
<1>4. CASE RemoveMiss(t)
  BY <1>4, MissSim
<1>5. CASE RemoveLock(t)
  <2>1. Others(t) /\ pc[t] = "r_lock" /\ pc'[t] \in {"r_val", "remove"}
    BY <1>1, <1>5 DEF RemoveLock, Trylock, TypeOK, Others, locals
  <2>2. QED BY <1>5, <2>1, MoveSim DEF RemoveLock, Trylock
<1>6. CASE RemoveVal(t)
  <2>1. Others(t) /\ pc[t] = "r_val" /\ pc'[t] = "r_key"
    BY <1>1, <1>6 DEF RemoveVal, Goto, TypeOK, Others
  <2>2. QED BY <1>6, <2>1, MoveSim DEF RemoveVal
<1>7. CASE RemoveKey(t)
  BY <1>7, RemoveKeySim
<1>8. CASE RemoveUnlock(t)
  BY <1>8, UnlockSim
<1>9. QED BY <1>2, <1>3, <1>4, <1>5, <1>6, <1>7, <1>8 DEF remove

\* Every step preserves HInv and maps to a step of the atomic map, or to none.
LEMMA StepSim == IInv /\ HInv /\ [Next]_vars => HInv' /\ [Abs!Next]_Abs!vars
<1> SUFFICES ASSUME IInv, HInv, [Next]_vars PROVE HInv' /\ [Abs!Next]_Abs!vars
  OBVIOUS
<1>1. CASE UNCHANGED vars
  <2> USE <1>1 DEF vars, locals
  <2>1. MapOK'
    BY DEF HInv, MapOK, Unwritten, Key
  <2>2. \A t \in Threads : LinOK(t)' /\ SeenOK(t)'
    BY DEF HInv, LinOK, SeenOK, Key
  <2>3. QED BY <2>1, <2>2, AbsVars DEF HInv
<1>2. CASE Next
  BY <1>2, InvokeSim, SearchSim, InsertSim, RemoveSim DEF Next, Step
<1>3. QED BY <1>1, <1>2

\* The constructed map is the empty atomic map.
LEMMA InitSim == Init => HInv /\ Abs!Init
<1> SUFFICES ASSUME Init PROVE HInv
  BY DEF Init
<1> USE DEF Init, Abs!Init
<1>1. \A t \in Threads : LinOK(t) /\ SeenOK(t)
  BY DEF LinOK, SeenOK
<1>2. MapOK
  BY ConstantsAssumption DEF MapOK, None, Unwritten
<1>3. QED BY <1>1, <1>2 DEF HInv

\* Linearizability of the OPTIK array map, for any number of threads, keys,
\* values and slots: every behaviour of the code's steps is, under the history
\* variables, a behaviour of the atomic map.
THEOREM Linearizability == Spec => Linearizable
<1>1. Init => IInv /\ HInv /\ Abs!Init
  BY Initially, InitSim
<1>2. IInv /\ HInv /\ [Next]_vars => IInv' /\ HInv' /\ [Abs!Next]_Abs!vars
  BY Inductive, StepSim
<1>3. QED BY <1>1, <1>2, PTL DEF Spec, Linearizable, Abs!Spec

-----------------------------------------------------------------------------
(* Counting the updates that reported success.                             *)

\* How far the occupied slots are ahead of the returned results because of the update
\* of the thread that holds the lock.
Ahead(t) ==
  CASE pc[t] = "i_val" -> 1
    [] pc[t] = "i_unlock" -> IF free_idx[t] >= 0 THEN 1 ELSE 0
    [] pc[t] = "r_unlock" -> -1
    [] OTHER -> 0

CountOK ==
  /\ ~optik_is_locked(lock) => length = pr
  /\ \A t \in Threads : pc[t] \in Critical => length = pr + Ahead(t)
  /\ \A t \in Threads : pc[t] = "r_unlock" => val[t] # 0

\* The number of occupied slots is a number, and changes by one when the key of a slot
\* is set or cleared.
LEMMA Lengths ==
  ASSUME IInv
  PROVE  /\ length \in Nat
         /\ \A j \in Slots, k \in Keys \cup {0} :
              /\ \A l \in Slots : array'[l].key = IF l = j THEN k ELSE array[l].key
              => length' = length + (IF k # 0 THEN 1 ELSE 0) - (IF array[j].key # 0 THEN 1 ELSE 0)
         /\ (\A l \in Slots : array'[l].key = array[l].key) => length' = length
<1>1. IsFiniteSet(Slots)
  BY FS_Interval, ConstantsAssumption DEF Slots
<1>2. Occupied \in SUBSET Slots /\ IsFiniteSet(Occupied)
  BY <1>1, FS_Subset DEF Occupied
<1>3. length = Cardinality(Occupied) /\ length' = Cardinality(Occupied')
  BY DEF length, Occupied
<1>4. length \in Nat
  BY <1>2, <1>3, FS_CardinalityType
<1>5. ASSUME NEW j \in Slots, NEW k \in Keys \cup {0},
             \A l \in Slots : array'[l].key = IF l = j THEN k ELSE array[l].key
      PROVE  length' = length + (IF k # 0 THEN 1 ELSE 0) - (IF array[j].key # 0 THEN 1 ELSE 0)
  <2>1. Occupied' = (Occupied \ {j}) \cup (IF k # 0 THEN {j} ELSE {})
    BY <1>5 DEF Occupied
  <2>2. /\ IsFiniteSet(Occupied \ {j})
        /\ Cardinality(Occupied \ {j}) = length - (IF array[j].key # 0 THEN 1 ELSE 0)
    <3>1. j \in Occupied <=> array[j].key # 0
      BY DEF Occupied
    <3>2. /\ IsFiniteSet(Occupied \ {j})
          /\ Cardinality(Occupied \ {j}) = IF j \in Occupied THEN Cardinality(Occupied) - 1
                                                             ELSE Cardinality(Occupied)
      BY <1>2, FS_RemoveElement
    <3>3. QED BY <1>3, <1>4, <3>1, <3>2
  <2>3. CASE k = 0
    <3>1. Occupied' = Occupied \ {j}
      BY <2>1, <2>3
    <3>2. QED BY <1>3, <1>4, <2>2, <2>3, <3>1
  <2>4. CASE k # 0
    <3>1. Occupied' = (Occupied \ {j}) \cup {j} /\ j \notin Occupied \ {j}
      BY <2>1, <2>4
    <3>2. Cardinality(Occupied') = Cardinality(Occupied \ {j}) + 1
      BY <2>2, <3>1, FS_AddElement
    <3>3. QED BY <1>3, <1>4, <2>2, <2>4, <3>2
  <2>5. QED BY <2>3, <2>4
<1>6. (\A l \in Slots : array'[l].key = array[l].key) => length' = length
  BY <1>3 DEF Occupied
<1>7. QED BY <1>4, <1>5, <1>6

\* A step that changes neither the keys in the array nor the lock word nor the count.
LEMMA UncountedStep ==
  ASSUME IInv, CountOK, NEW t \in Threads, Others(t), UNCHANGED <<lock, pr>>,
         length' = length, pc'[t] \in Critical => pc[t] \in Critical /\ Ahead(t)' = Ahead(t),
         pc'[t] # "r_unlock"
  PROVE  CountOK'
<1>1. \A u \in Threads \ {t} : Ahead(u)' = Ahead(u)
  BY DEF Others, Ahead
<1>2. \A u \in Threads : pc'[u] \in Critical => pc[u] \in Critical /\ Ahead(u)' = Ahead(u)
  BY <1>1 DEF Others
<1>3. \A u \in Threads : pc'[u] = "r_unlock" => pc[u] = "r_unlock" /\ val'[u] = val[u]
  BY DEF Others
<1>4. QED BY <1>2, <1>3 DEF CountOK

\* A call that returns outside the critical section has changed nothing.
LEMMA CountPlainReturn ==
  ASSUME IInv, CountOK, NEW t \in Threads, NEW r,
         pc[t] \in {"s_scan", "s_check", "i_scan", "r_scan"},
         pc[t] \in {"i_scan", "r_scan"} => r = 0,
         Return(t, r), UNCHANGED <<lock, array>>
  PROVE  CountOK'
<1>1. TypeOK /\ CallOK(t)
  BY DEF IInv, ThreadOK
<1>2. UNCHANGED pr
  BY <1>1 DEF Return, CallOK, SearchPCs, InsertPCs, RemovePCs, TypeOK
<1>3. Others(t) /\ pc'[t] = "idle"
  BY <1>1 DEF Return, TypeOK, Others
<1>4. length' = length
  BY Lengths
<1>5. QED BY <1>2, <1>3, <1>4, UncountedStep DEF Critical

\* Taking the lock: nothing has been changed yet.
LEMMA CountAcquire ==
  ASSUME IInv, CountOK, NEW t \in Threads, NEW p,
         \/ pc[t] = "i_scan" /\ p = IF free_idx[t] >= 0 THEN "i_key" ELSE "i_unlock"
         \/ pc[t] = "r_lock" /\ p = "r_val",
         ~optik_is_locked(lock), lock' = optik_locked(lock),
         pc' = [pc EXCEPT ![t] = p], UNCHANGED <<array, free_idx, pr>>
  PROVE  CountOK'
<1>1. TypeOK
  BY DEF IInv
<1>2. optik_is_locked(lock') /\ \A u \in Threads : pc[u] \notin Critical
  BY <1>1, Parity DEF IInv, Exclusive, TypeOK, optik_locked
<1>3. \A u \in Threads : pc'[u] = IF u = t THEN p ELSE pc[u]
  BY <1>1 DEF TypeOK
<1>4. p # "r_unlock" /\ Ahead(t)' = 0
  BY <1>3 DEF Ahead
<1>5. length' = length /\ length = pr /\ pr \in Int
  BY <1>1, Lengths DEF CountOK, TypeOK
<1>6. QED BY <1>2, <1>3, <1>4, <1>5 DEF CountOK, Critical

\* Releasing the lock: the result that is returned is counted.
LEMMA CountUnlock ==
  ASSUME IInv, CountOK, NEW t \in Threads, InsertUnlock(t) \/ RemoveUnlock(t)
  PROVE  CountOK'
<1>1. TypeOK /\ CallOK(t) /\ pc[t] \in Critical
  BY DEF IInv, ThreadOK, InsertUnlock, RemoveUnlock, Critical
<1>2. pr' = pr + Ahead(t)
  <2>1. CASE InsertUnlock(t)
    <3>1. call[t].op = "insert" /\ pc[t] = "i_unlock"
      BY <1>1, <2>1 DEF InsertUnlock, CallOK, InsertPCs
    <3>2. QED BY <2>1, <3>1 DEF InsertUnlock, Unlock, Return, Ahead
  <2>2. CASE RemoveUnlock(t)
    <3>1. call[t].op = "remove" /\ pc[t] = "r_unlock" /\ val[t] # 0
      BY <1>1, <2>2 DEF RemoveUnlock, CallOK, RemovePCs, CountOK
    <3>2. QED BY <1>1, <2>2, <3>1 DEF RemoveUnlock, Unlock, Return, Ahead, TypeOK
  <2>3. QED BY <2>1, <2>2
<1>3. length' = length
  BY Lengths DEF InsertUnlock, RemoveUnlock, Unlock
<1>4. length = pr + Ahead(t)
  BY <1>1 DEF CountOK
<1>5. \A u \in Threads : pc'[u] \notin Critical
  BY <1>1 DEF InsertUnlock, RemoveUnlock, Unlock, Return, TypeOK, IInv, Exclusive, Critical
<1>6. QED BY <1>2, <1>3, <1>4, <1>5 DEF CountOK, Critical

\* insert fills a slot.
LEMMA CountInsertKey ==
  ASSUME IInv, CountOK, NEW t \in Threads, InsertKey(t)
  PROVE  CountOK'
<1>1. TypeOK /\ ThreadOK(t)
  BY DEF IInv
<1>2. /\ pc[t] = "i_key" /\ pc'[t] = "i_val" /\ free_idx[t] \in Slots
      /\ array[free_idx[t]].key = 0 /\ call[t] \in Abs!Calls
      /\ UNCHANGED <<lock, pr>> /\ Others(t)
  BY <1>1 DEF InsertKey, Goto, TypeOK, ThreadOK, SlotOK, CallOK, HolderOK, locals, Others
<1>3. Key(t) \in Keys /\ Key(t) # 0
  BY <1>2, CallFacts, ConstantsAssumption DEF Key
<1>4. \A j \in Slots : array'[j].key = IF j = free_idx[t] THEN Key(t) ELSE array[j].key
  BY <1>1, <1>2 DEF InsertKey, TypeOK
<1>5. length \in Nat /\ length' = length + 1
  BY <1>2, <1>3, <1>4, Lengths
<1>6. length = pr /\ Ahead(t)' = 1 /\ pr \in Int
  BY <1>1, <1>2 DEF CountOK, Ahead, Critical, TypeOK
<1>7. optik_is_locked(lock') /\ \A u \in Threads \ {t} : pc'[u] \notin Critical
  BY <1>2 DEF IInv, Exclusive, Critical, Others
<1>8. QED BY <1>2, <1>5, <1>6, <1>7 DEF CountOK, Critical

\* remove clears a slot; the value it returns is not 0.
LEMMA CountRemoveKey ==
  ASSUME IInv, HInv, CountOK, NEW t \in Threads, RemoveKey(t)
  PROVE  CountOK'
<1>1. TypeOK /\ ThreadOK(t)
  BY DEF IInv
<1>2. /\ pc[t] = "r_key" /\ pc'[t] = "r_unlock" /\ i[t] \in Slots
      /\ array[i[t]].key = Key(t) /\ array[i[t]].val = val[t] /\ call[t] \in Abs!Calls
      /\ UNCHANGED <<lock, pr, val>> /\ Others(t)
  BY <1>1 DEF RemoveKey, Goto, TypeOK, ThreadOK, SlotOK, CallOK, HolderOK, locals, Others
<1>3. Key(t) \in Keys /\ Key(t) # 0
  BY <1>2, CallFacts, ConstantsAssumption DEF Key
<1>4. \A j \in Slots : array'[j].key = IF j = i[t] THEN 0 ELSE array[j].key
  BY <1>1, <1>2 DEF RemoveKey, TypeOK
<1>5. length \in Nat /\ length' = length - 1
  <2>1. 0 \in Keys \cup {0} /\ array[i[t]].key # 0
    BY <1>2, <1>3
  <2>2. length \in Nat /\ length' = length + (IF 0 # 0 THEN 1 ELSE 0) - (IF array[i[t]].key # 0 THEN 1 ELSE 0)
    BY <1>2, <1>4, <2>1, Lengths
  <2>3. QED BY <2>1, <2>2
<1>6. length = pr /\ Ahead(t)' = -1 /\ pr \in Int
  BY <1>1, <1>2 DEF CountOK, Ahead, Critical, TypeOK
<1>7. optik_is_locked(lock') /\ \A u \in Threads \ {t} : pc'[u] \notin Critical
  BY <1>2 DEF IInv, Exclusive, Critical, Others
<1>8. val'[t] # 0
  <2>1. ~Unwritten(i[t])
    BY <1>2 DEF Unwritten, IInv, Exclusive, Critical
  <2>2. map[Key(t)] = val[t]
    BY <1>2, <1>3, <2>1 DEF HInv, MapOK
  <2>3. map[Key(t)] # None
    BY <1>2, <1>3 DEF HInv, MapOK
  <2>4. QED BY <1>2, <2>2, <2>3 DEF None, Abs!None
<1>9. QED BY <1>2, <1>5, <1>6, <1>7, <1>8 DEF CountOK, Critical

\* Every step keeps the count.
LEMMA CountStep == IInv /\ HInv /\ CountOK /\ [Next]_vars => CountOK'
<1> SUFFICES ASSUME IInv, HInv, CountOK, [Next]_vars PROVE CountOK'
  OBVIOUS
<1>1. TypeOK
  BY DEF IInv
<1>2. CASE UNCHANGED vars
  BY <1>2 DEF vars, locals, CountOK, Ahead, length
<1>3. ASSUME NEW t \in Threads, NEW c \in Abs!Calls, Invoke(t, c)
      PROVE  CountOK'
  <2>1. Others(t) /\ UNCHANGED <<lock, pr, array>> /\ pc'[t] = c.op
    BY <1>1, <1>3 DEF Invoke, Goto, Abs!Invoke, TypeOK, Others, locals
  <2>2. pc'[t] \notin Critical
    BY <2>1, CallFacts DEF Critical
  <2>3. QED BY <2>1, <2>2, Lengths, UncountedStep DEF Critical
<1>4. ASSUME NEW t \in Threads,
             \/ SearchVersion(t) \/ InsertVersion(t) \/ RemoveVersion(t)
             \/ SearchScan(t) \/ RemoveScan(t) \/ SearchVal(t)
             \/ InsertScan(t) /\ KeyAt(t) # Key(t)
             \/ SearchCheck(t) /\ ver[t] # lock
      PROVE  CountOK'
  <2>1. /\ Others(t) /\ UNCHANGED <<lock, pr, array>>
        /\ pc'[t] \in {"s_scan", "i_scan", "r_scan", "s_val", "r_lock", "s_check", "search"}
    BY <1>1, <1>4
       DEF SearchVersion, InsertVersion, RemoveVersion, BeginScan, SearchScan, RemoveScan,
           SearchVal, InsertScan, SearchCheck, optik_is_same_version, Found, NextSlot, Return,
           Goto, TypeOK, Others, locals
  <2>2. QED BY <2>1, Lengths, UncountedStep DEF Critical
<1>5. ASSUME NEW t \in Threads,
             \/ SearchMiss(t) \/ RemoveMiss(t)
             \/ InsertScan(t) /\ KeyAt(t) = Key(t)
             \/ SearchCheck(t) /\ ver[t] = lock
      PROVE  CountOK'
  BY <1>5, CountPlainReturn
     DEF SearchMiss, RemoveMiss, InsertScan, SearchCheck, optik_is_same_version
<1>6. ASSUME NEW t \in Threads, InsertLock(t) \/ RemoveLock(t)
      PROVE  CountOK'
  <2>1. CASE optik_trylock_version(lock, ver[t])
    BY <1>6, <2>1, CountAcquire
       DEF InsertLock, RemoveLock, Trylock, optik_trylock_version, locals
  <2>2. CASE ~optik_trylock_version(lock, ver[t])
    <3>1. Others(t) /\ UNCHANGED <<lock, pr, array>> /\ pc'[t] \in {"insert", "remove"}
      BY <1>1, <1>6, <2>2 DEF InsertLock, RemoveLock, Trylock, TypeOK, Others, locals
    <3>2. QED BY <3>1, Lengths, UncountedStep DEF Critical
  <2>3. QED BY <2>1, <2>2
<1>7. ASSUME NEW t \in Threads, InsertVal(t)
      PROVE  CountOK'
  <2>1. ThreadOK(t)
    BY DEF IInv
  <2>2. /\ Others(t) /\ UNCHANGED <<lock, pr, free_idx>>
        /\ pc[t] = "i_val" /\ pc'[t] = "i_unlock" /\ free_idx[t] \in Slots
    BY <1>1, <1>7, <2>1 DEF InsertVal, Goto, TypeOK, Others, locals, ThreadOK, SlotOK
  <2>3. \A j \in Slots : array'[j].key = array[j].key
    BY <1>1, <1>7, <2>2 DEF InsertVal, TypeOK
  <2>4. Ahead(t)' = Ahead(t)
    BY <2>2 DEF Ahead, Slots
  <2>5. QED BY <2>2, <2>3, <2>4, Lengths, UncountedStep DEF Critical
<1>8. ASSUME NEW t \in Threads, RemoveVal(t)
      PROVE  CountOK'
  <2>1. /\ Others(t) /\ UNCHANGED <<lock, pr, array>> /\ pc[t] = "r_val" /\ pc'[t] = "r_key"
    BY <1>1, <1>8 DEF RemoveVal, Goto, TypeOK, Others
  <2>2. Ahead(t)' = Ahead(t)
    BY <2>1 DEF Ahead
  <2>3. QED BY <2>1, <2>2, Lengths, UncountedStep DEF Critical
<1>9. QED
  BY <1>2, <1>3, <1>4, <1>5, <1>6, <1>7, <1>8, CountInsertKey, CountRemoveKey, CountUnlock
     DEF Next, Step, search, insert, remove

\* The array is counted right at first.
LEMMA CountInit == Init => CountOK
<1> SUFFICES ASSUME Init PROVE CountOK
  OBVIOUS
<1>1. length = 0
  <2>1. {j \in Slots : array[j].key # 0} = {}
    BY DEF Init
  <2>2. QED BY <2>1, FS_EmptySet DEF length
<1>2. QED BY <1>1 DEF Init, CountOK, Critical

\* Whenever no call is in progress, length() of the array map is the number of inserts
\* minus the number of removes that reported success, for any number of threads and
\* slots (the size assertion at the end of test_search.cc).
THEOREM LengthIsCounted == Spec => []LengthMatchesReturns
<1>1. Init => IInv /\ HInv /\ CountOK
  BY Initially, InitSim, CountInit
<1>2. IInv /\ HInv /\ CountOK /\ [Next]_vars => IInv' /\ HInv' /\ CountOK'
  BY Inductive, StepSim, CountStep
<1>3. IInv /\ CountOK => LengthMatchesReturns
  <2>1. SUFFICES ASSUME IInv, CountOK, \A t \in Threads : pc[t] = "idle" PROVE length = pr
    BY DEF LengthMatchesReturns
  <2>2. ~optik_is_locked(lock)
    BY <2>1 DEF IInv, Exclusive, Critical
  <2>3. QED BY <2>1, <2>2 DEF CountOK
<1>4. QED BY <1>1, <1>2, <1>3, PTL DEF Spec
=============================================================================
