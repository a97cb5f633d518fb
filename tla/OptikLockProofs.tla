-------------------------- MODULE OptikLockProofs --------------------------
(***************************************************************************)
(* Proofs about OptikLock, for every set of threads and every bound.       *)
(***************************************************************************)
EXTENDS OptikLock, TLAPS

-----------------------------------------------------------------------------
(* The inductive invariant.                                                *)

\* The word is odd exactly while some thread is in its critical section.
LockedIffCritical ==
  optik_is_locked(ol) <=> \E t \in Threads : pc[t] \in Critical

\* The two cells differ only while a writer is between its two writes.
HalfWritten == \E t \in Threads : pc[t] = "wrote1"
CellsAgree == ~HalfWritten => cells[1] = cells[2]
WriterAhead == HalfWritten => cells[1] = cells[2] + 1

\* Only the deleting thread leaves OPTIK_DELETED in the word.
DeletedIffDead == optik_is_deleted(ol) <=> \E t \in Threads : pc[t] = "dead"

\* The words that the CASes expect, and a reader's version, are free ones.
ExpectedIsFree ==
  \A t \in Threads :
    /\ pc[t] \in {"read1", "read2", "check", "version_cas", "vdelete_cas"}
         => ~optik_is_locked(ver[t])
    /\ pc[t] \in {"lock_cas", "try_cas"} => ~optik_is_locked(cur[t])

\* The word never falls below a free version that a thread still remembers.
NeverBelow ==
  \A t \in Threads :
    ~optik_is_locked(ver[t]) => optik_is_deleted(ol) \/ ver[t] <= ol

\* Nothing was written since t read the free version ver[t]: the word is still
\* the same, or its holder has not written yet and may revert.
Untouched(t) ==
  /\ ~optik_is_locked(ver[t])
  /\ \/ ol = ver[t]
     \/ ol = ver[t] + 1 /\ \E u \in Threads : pc[u] = "crit"

HasRead(t, c) ==
  pc[t] \in {"check", "call", "version_cas", "vdelete_cas", "lock_read",
             "lock_cas", "try_cas"} \cup (IF c = 1 THEN {"read2", "peek2"} ELSE {})

SnapshotHolds ==
  \A t \in Threads, c \in Cell :
    HasRead(t, c) /\ Untouched(t) => snap[t][c] = cells[c]

IInv ==
  /\ TypeOK
  /\ MutualExclusion
  /\ LockedIffCritical
  /\ DeletedIffDead
  /\ CellsAgree
  /\ WriterAhead
  /\ ExpectedIsFree
  /\ NeverBelow
  /\ SnapshotHolds
  /\ ValidatedReadIsConsistent
  /\ ValidatedLockIsFresh

-----------------------------------------------------------------------------
(* Parity of the lock word.                                                *)

\* Locking a free word and unlocking or reverting a held one change its parity;
\* the initial word is free and the deleted one is held.
LEMMA Parity ==
  /\ \A v \in optik_t : v \in Int
  /\ \A v \in Nat : /\ optik_is_locked(v + 1) <=> ~optik_is_locked(v)
                    /\ v > 0 => (optik_is_locked(v - 1) <=> ~optik_is_locked(v))
  /\ ~optik_is_locked(0)
  /\ optik_is_locked(OPTIK_DELETED)
BY DEF optik_is_locked, OPTIK_DELETED, optik_t

-----------------------------------------------------------------------------

\* What the invariant says of a free word, and of a word held by a thread that
\* has not deleted the lock.
LEMMA WordFacts ==
  ASSUME IInv
  PROVE  /\ ~optik_is_locked(ol) => /\ ol \in Nat
                                    /\ optik_is_locked(ol + 1)
                                    /\ \A u \in Threads : pc[u] \notin Critical
         /\ \A t \in Threads : pc[t] \in {"crit", "wrote1", "wrote2"} =>
              /\ ol \in Nat \ {0}
              /\ optik_is_locked(ol)
              /\ ~optik_is_locked(ol + 1)
              /\ ~optik_is_locked(ol - 1)
              /\ \A u \in Threads \ {t} : pc[u] \notin Critical
<1> USE DEF IInv, TypeOK
<1>1. ol \in Nat \/ ol = OPTIK_DELETED
  BY DEF optik_t
<1>2. ASSUME ~optik_is_locked(ol)
      PROVE  /\ ol \in Nat
             /\ optik_is_locked(ol + 1)
             /\ \A u \in Threads : pc[u] \notin Critical
  BY <1>1, <1>2, Parity DEF LockedIffCritical
<1>3. ASSUME NEW t \in Threads, pc[t] \in {"crit", "wrote1", "wrote2"}
      PROVE  /\ ol \in Nat \ {0}
             /\ optik_is_locked(ol)
             /\ ~optik_is_locked(ol + 1)
             /\ ~optik_is_locked(ol - 1)
             /\ \A u \in Threads \ {t} : pc[u] \notin Critical
  <2>1. pc[t] \in Critical /\ pc[t] # "dead"
    BY <1>3 DEF Critical
  <2>2. /\ optik_is_locked(ol)
        /\ \A u \in Threads \ {t} : pc[u] \notin Critical
    BY <2>1 DEF LockedIffCritical, MutualExclusion
  <2>3. ol # OPTIK_DELETED
    BY <2>1, <2>2 DEF DeletedIffDead, optik_is_deleted, Critical
  <2>4. ol \in Nat \ {0}
    BY <1>1, <2>2, <2>3, Parity
  <2>5. QED BY <2>2, <2>4, Parity
<1>4. QED BY <1>2, <1>3

\* A step of t outside the critical section that leaves the lock word and the
\* cells alone preserves what the invariant says of the word and the cells.
LEMMA OutsideStep ==
  ASSUME IInv, NEW t \in Threads, NEW p \in PCs \ Critical, pc[t] \notin Critical,
         pc' = [pc EXCEPT ![t] = p], UNCHANGED <<ol, cells>>
  PROVE  /\ MutualExclusion' /\ LockedIffCritical' /\ DeletedIffDead'
         /\ CellsAgree' /\ WriterAhead'
         /\ \A u \in Threads : pc'[u] = "crit" <=> pc[u] = "crit"
<1> USE DEF IInv, TypeOK
<1>1. \A u \in Threads : pc'[u] = IF u = t THEN p ELSE pc[u]
  OBVIOUS
<1>2. \A u \in Threads : /\ pc'[u] \in Critical <=> pc[u] \in Critical
                         /\ \A q \in Critical : pc'[u] = q <=> pc[u] = q
  BY <1>1 DEF Critical
<1>3. MutualExclusion' /\ LockedIffCritical'
  BY <1>2 DEF MutualExclusion, LockedIffCritical
<1>4. \A u \in Threads : /\ pc'[u] = "dead" <=> pc[u] = "dead"
                         /\ pc'[u] = "wrote1" <=> pc[u] = "wrote1"
                         /\ pc'[u] = "crit" <=> pc[u] = "crit"
  BY <1>2 DEF Critical
<1>5. DeletedIffDead' /\ CellsAgree' /\ WriterAhead'
  BY <1>4 DEF DeletedIffDead, CellsAgree, WriterAhead, HalfWritten
<1>6. QED BY <1>3, <1>4, <1>5

\* A reading step of a thread preserves the invariant.
LEMMA OptimisticStep ==
  ASSUME IInv, NEW t \in Threads, Optimistic(t)
  PROVE  IInv'
<1> USE DEF IInv, TypeOK
<1>1. PICK p \in PCs \ Critical :
         pc[t] \notin Critical /\ pc' = [pc EXCEPT ![t] = p] /\ UNCHANGED <<ol, cells, cur, same>>
  BY DEF Optimistic, GetVersionWait, GetVersion, ReadCell, Validate, UseSnapshot,
         Goto, PCs, Critical
<1>2. /\ MutualExclusion' /\ LockedIffCritical' /\ DeletedIffDead'
      /\ CellsAgree' /\ WriterAhead'
      /\ \A u \in Threads : pc'[u] = "crit" <=> pc[u] = "crit"
  BY <1>1, OutsideStep
<1>3. TypeOK'
  <2>1. TypeOK BY DEF IInv
  <2> HIDE DEF IInv
  <2>2. ver' \in [Threads -> optik_t]
    BY <2>1 DEF Optimistic, GetVersionWait, GetVersion, ReadCell, Validate, UseSnapshot
  <2>3. CASE UNCHANGED snap
    BY <1>1, <2>1, <2>2, <2>3
  <2>4. CASE \E c \in Cell : snap' = [snap EXCEPT ![t][c] = cells[c]]
    <3>1. PICK c \in Cell : snap' = [snap EXCEPT ![t][c] = cells[c]]
      BY <2>4
    <3>2. [snap[t] EXCEPT ![c] = cells[c]] \in [Cell -> Nat]
      BY <2>1
    <3>3. snap' \in [Threads -> [Cell -> Nat]]
      BY <2>1, <3>1, <3>2
    <3>4. QED BY <1>1, <2>1, <2>2, <3>3
  <2>5. QED
    BY <2>3, <2>4 DEF Optimistic, GetVersionWait, GetVersion, ReadCell, Validate,
                      UseSnapshot, Cell
<1>4. ExpectedIsFree'
  BY DEF Optimistic, GetVersionWait, GetVersion, ReadCell, Validate, UseSnapshot,
         Goto, ExpectedIsFree
<1>5. NeverBelow'
  BY DEF Optimistic, GetVersionWait, GetVersion, ReadCell, Validate, UseSnapshot,
         Goto, NeverBelow, optik_t, optik_is_deleted
<1>6. SnapshotHolds'
  BY <1>2 DEF Optimistic, GetVersionWait, GetVersion, ReadCell, Validate, UseSnapshot,
         Goto, SnapshotHolds, HasRead, Untouched, Cell
<1>7. ValidatedReadIsConsistent'
  <2>1. CASE Validate(t) /\ ver[t] = ol
    <3>1. snap[t][1] = cells[1] /\ snap[t][2] = cells[2] /\ ~optik_is_locked(ol)
      BY <2>1 DEF Validate, Goto, ExpectedIsFree, SnapshotHolds, HasRead, Untouched, Cell
    <3>2. cells[1] = cells[2]
      BY <3>1, WordFacts DEF CellsAgree, HalfWritten, Critical
    <3>3. QED
      BY <2>1, <3>1, <3>2 DEF Validate, Goto, ValidatedReadIsConsistent
  <2>2. CASE ~(Validate(t) /\ ver[t] = ol)
    BY <2>2 DEF Optimistic, GetVersionWait, GetVersion, ReadCell, Validate, UseSnapshot,
                Goto, ValidatedReadIsConsistent, optik_is_same_version
  <2>3. QED BY <2>1, <2>2
<1>8. ValidatedLockIsFresh'
  BY DEF Optimistic, GetVersionWait, GetVersion, ReadCell, Validate, UseSnapshot,
         Goto, ValidatedLockIsFresh
<1>9. QED BY <1>2, <1>3, <1>4, <1>5, <1>6, <1>7, <1>8

\* A CAS that takes a free word preserves the invariant.
LEMMA AcquireStep ==
  ASSUME IInv, NEW t \in Threads,
         pc[t] \in {"version_cas", "lock_cas", "try_cas"},
         ~optik_is_locked(ol), Acquire(t, ol),
         pc' = [pc EXCEPT ![t] = "crit"], UNCHANGED <<cells, ver, cur, snap>>
  PROVE  IInv'
<1> USE DEF IInv, TypeOK
<1>1. /\ ol \in Nat
      /\ ol' = ol + 1
      /\ optik_is_locked(ol')
      /\ \A u \in Threads : pc[u] \notin Critical
  BY WordFacts DEF Acquire, optik_locked
<1>2. \A u \in Threads : pc'[u] = IF u = t THEN "crit" ELSE pc[u]
  OBVIOUS
<1>3. TypeOK'
  BY <1>1 DEF Acquire, PCs, optik_t, optik_is_same_version
<1>4. MutualExclusion' /\ LockedIffCritical'
  BY <1>1, <1>2 DEF MutualExclusion, LockedIffCritical, Critical
<1>5. DeletedIffDead'
  BY <1>1, <1>2 DEF DeletedIffDead, optik_is_deleted, OPTIK_DELETED, Critical
<1>6. CellsAgree' /\ WriterAhead'
  BY <1>1, <1>2 DEF CellsAgree, WriterAhead, HalfWritten, Critical
<1>7. ExpectedIsFree' /\ ValidatedReadIsConsistent'
  BY <1>2 DEF ExpectedIsFree, ValidatedReadIsConsistent
<1>8. NeverBelow'
  BY <1>1 DEF NeverBelow, optik_is_deleted, optik_t, OPTIK_DELETED
<1>9. \A u \in Threads : Untouched(u)' => Untouched(u)
  <2>1. SUFFICES ASSUME NEW u \in Threads, Untouched(u)' PROVE Untouched(u)
    OBVIOUS
  <2>2. ~optik_is_locked(ver[u]) /\ ver[u] \in Int
    BY <2>1, Parity DEF Untouched
  <2>3. ver[u] + 1 = ol + 1
    <3>1. ol' = ver[u] \/ ol' = ver[u] + 1
      BY <2>1 DEF Untouched
    <3>2. ol' # ver[u]
      BY <1>1, <2>2
    <3>3. QED BY <1>1, <3>1, <3>2
  <2>4. ver[u] = ol
    <3> HIDE DEF IInv, TypeOK
    <3>1. QED BY <1>1, <2>2, <2>3
  <2>5. QED BY <2>2, <2>4 DEF Untouched
<1>10. SnapshotHolds'
  BY <1>2, <1>9 DEF SnapshotHolds, HasRead
<1>11. ValidatedLockIsFresh'
  <2>1. SUFFICES ASSUME same'[t] PROVE snap[t] = cells
    BY <1>1, <1>2 DEF ValidatedLockIsFresh, Critical
  <2>2. Untouched(t)
    BY <2>1 DEF Acquire, optik_is_same_version, Untouched
  <2>3. snap[t][1] = cells[1] /\ snap[t][2] = cells[2]
    BY <2>2 DEF SnapshotHolds, HasRead, Cell
  <2>4. QED BY <2>3 DEF Cell
<1>12. QED BY <1>3, <1>4, <1>5, <1>6, <1>7, <1>8, <1>10, <1>11

\* Deleting the lock preserves the invariant.
LEMMA DeleteStep ==
  ASSUME IInv, NEW t \in Threads, pc[t] = "vdelete_cas", ol = ver[t],
         ol' = OPTIK_DELETED, same' = [same EXCEPT ![t] = TRUE],
         pc' = [pc EXCEPT ![t] = "dead"], UNCHANGED <<cells, ver, cur, snap>>
  PROVE  IInv'
<1> USE DEF IInv, TypeOK
<1>1. ~optik_is_locked(ol) /\ \A u \in Threads : pc[u] \notin Critical
  BY WordFacts DEF ExpectedIsFree
<1>2. \A u \in Threads : pc'[u] = IF u = t THEN "dead" ELSE pc[u]
  OBVIOUS
<1>3. TypeOK'
  BY DEF PCs, optik_t
<1>4. MutualExclusion' /\ LockedIffCritical' /\ DeletedIffDead'
  BY <1>1, <1>2, Parity
     DEF MutualExclusion, LockedIffCritical, DeletedIffDead, optik_is_deleted, Critical
<1>5. CellsAgree' /\ WriterAhead'
  BY <1>1, <1>2 DEF CellsAgree, WriterAhead, HalfWritten, Critical
<1>6. ExpectedIsFree' /\ ValidatedReadIsConsistent' /\ ValidatedLockIsFresh'
  BY <1>1, <1>2
     DEF ExpectedIsFree, ValidatedReadIsConsistent, ValidatedLockIsFresh, Critical
<1>7. NeverBelow'
  BY DEF NeverBelow, optik_is_deleted
<1>8. \A u \in Threads : ~Untouched(u)'
  BY <1>1, <1>2, Parity DEF Untouched, optik_t, OPTIK_DELETED, Critical
<1>9. SnapshotHolds'
  BY <1>8 DEF SnapshotHolds
<1>10. QED BY <1>3, <1>4, <1>5, <1>6, <1>7, <1>9

\* A failing or waiting step of a lock function preserves the invariant.
LEMMA FailStep ==
  ASSUME IInv, NEW t \in Threads,
         pc[t] \in {"call", "version_cas", "vdelete_cas", "lock_read", "lock_cas", "try_cas"},
         NEW p \in {"idle", "version_cas", "vdelete_cas", "lock_read", "lock_cas", "try_cas"},
         NEW c \in optik_t,
         pc' = [pc EXCEPT ![t] = p], cur' = [cur EXCEPT ![t] = c],
         p \in {"version_cas", "vdelete_cas"} => ~optik_is_locked(ver[t]),
         p \in {"lock_cas", "try_cas"} => ~optik_is_locked(c),
         UNCHANGED <<ol, cells, ver, snap, same>>
  PROVE  IInv'
<1> USE DEF IInv, TypeOK
<1>1. pc[t] \notin Critical /\ p \in PCs \ Critical
  BY DEF Critical, PCs
<1>2. /\ MutualExclusion' /\ LockedIffCritical' /\ DeletedIffDead'
      /\ CellsAgree' /\ WriterAhead'
      /\ \A u \in Threads : pc'[u] = "crit" <=> pc[u] = "crit"
  BY <1>1, OutsideStep
<1>3. \A u \in Threads : pc'[u] = IF u = t THEN p ELSE pc[u]
  OBVIOUS
<1>4. TypeOK'
  BY <1>1
<1>5. ExpectedIsFree' /\ ValidatedReadIsConsistent' /\ ValidatedLockIsFresh' /\ NeverBelow'
  BY <1>3 DEF ExpectedIsFree, ValidatedReadIsConsistent, ValidatedLockIsFresh, NeverBelow
<1>6. SnapshotHolds'
  BY <1>2, <1>3 DEF SnapshotHolds, HasRead, Untouched
<1>7. QED BY <1>2, <1>4, <1>5, <1>6

\* A failing CAS preserves the invariant.
LEMMA FailedCASStep ==
  ASSUME IInv, NEW t \in Threads,
         pc[t] \in {"version_cas", "vdelete_cas", "lock_cas", "try_cas"},
         NEW p \in {"idle", "lock_read"}, pc' = [pc EXCEPT ![t] = p],
         UNCHANGED <<ol, cells, ver, cur, snap, same>>
  PROVE  IInv'
<1>1. cur[t] \in optik_t /\ cur' = [cur EXCEPT ![t] = cur[t]]
  BY DEF IInv, TypeOK
<1>2. QED BY <1>1, FailStep

\* Every step of a lock function preserves the invariant.
LEMMA LockCallStep ==
  ASSUME IInv, NEW t \in Threads, LockCall(t)
  PROVE  IInv'
<1>1. TypeOK /\ ExpectedIsFree
  BY DEF IInv
<1> USE DEF TypeOK
<1>2. CASE TrylockTest(t, "version_cas") \/ TrylockTest(t, "vdelete_cas")
  <2>1. PICK p \in {"idle", "version_cas", "vdelete_cas"} :
           /\ pc[t] = "call"
           /\ pc' = [pc EXCEPT ![t] = p]
           /\ p # "idle" => ~optik_is_locked(ver[t])
           /\ UNCHANGED <<ol, cells, ver, cur, snap, same>>
    BY <1>2 DEF TrylockTest, Goto
  <2>2. cur[t] \in optik_t /\ cur' = [cur EXCEPT ![t] = cur[t]]
    BY <1>1, <2>1
  <2>3. QED BY <2>1, <2>2, FailStep
<1>3. CASE optik_trylock_version_cas(t)
  <2>1. CASE ol = ver[t]
    <3>1. ~optik_is_locked(ol)
      BY <1>1, <1>3, <2>1 DEF optik_trylock_version_cas, Goto, ExpectedIsFree
    <3>2. QED
      BY <1>3, <2>1, <3>1, AcquireStep DEF optik_trylock_version_cas, Goto
  <2>2. CASE ol # ver[t]
    BY <1>3, <2>2, FailedCASStep DEF optik_trylock_version_cas, Goto
  <2>3. QED BY <2>1, <2>2
<1>4. CASE optik_trylock_vdelete_cas(t)
  <2>1. CASE ol = ver[t]
    BY <1>4, <2>1, DeleteStep DEF optik_trylock_vdelete_cas, Goto
  <2>2. CASE ol # ver[t]
    BY <1>4, <2>2, FailedCASStep DEF optik_trylock_vdelete_cas, Goto
  <2>3. QED BY <2>1, <2>2
<1>5. CASE LockRead(t)
  BY <1>1, <1>5, FailStep DEF LockRead, Goto
<1>6. CASE optik_lock_version_cas(t)
  <2>1. CASE ol = cur[t]
    <3>1. ~optik_is_locked(ol)
      BY <1>1, <1>6, <2>1 DEF optik_lock_version_cas, Goto, ExpectedIsFree
    <3>2. QED
      BY <1>6, <2>1, <3>1, AcquireStep DEF optik_lock_version_cas, Goto
  <2>2. CASE ol # cur[t]
    BY <1>6, <2>2, FailedCASStep DEF optik_lock_version_cas, Goto
  <2>3. QED BY <2>1, <2>2
<1>7. CASE TrylockRead(t)
  BY <1>1, <1>7, FailStep DEF TrylockRead, Goto
<1>8. CASE optik_trylock_cas(t)
  <2>1. CASE ol = cur[t]
    <3>1. ~optik_is_locked(ol)
      BY <1>1, <1>8, <2>1 DEF optik_trylock_cas, Goto, ExpectedIsFree
    <3>2. QED
      BY <1>8, <2>1, <3>1, AcquireStep DEF optik_trylock_cas, Goto
  <2>2. CASE ol # cur[t]
    BY <1>8, <2>2, FailedCASStep DEF optik_trylock_cas, Goto
  <2>3. QED BY <2>1, <2>2
<1>9. QED BY <1>2, <1>3, <1>4, <1>5, <1>6, <1>7, <1>8 DEF LockCall

\* Both writes of a critical section preserve the invariant.
LEMMA WriteStep ==
  ASSUME IInv, NEW t \in Threads,
         WriteCell(t, 1, "crit", "wrote1") \/ WriteCell(t, 2, "wrote1", "wrote2")
  PROVE  IInv'
<1> USE DEF IInv, TypeOK
<1>1. /\ pc[t] \in {"crit", "wrote1"}
      /\ \A u \in Threads : pc'[u] = IF u = t
                                       THEN IF pc[t] = "crit" THEN "wrote1" ELSE "wrote2"
                                       ELSE pc[u]
      /\ UNCHANGED <<ol, ver, cur, snap, same>>
  BY DEF WriteCell, Goto
<1>2. /\ ol \in Nat \ {0}
      /\ optik_is_locked(ol)
      /\ \A u \in Threads \ {t} : pc[u] \notin Critical
  BY <1>1, WordFacts
<1>3. TypeOK'
  BY DEF WriteCell, Goto, PCs, Cell
<1>4. MutualExclusion' /\ LockedIffCritical' /\ DeletedIffDead'
  BY <1>1, <1>2 DEF MutualExclusion, LockedIffCritical, DeletedIffDead, Critical
<1>5. CellsAgree' /\ WriterAhead'
  <2>1. CASE pc[t] = "crit"
    <3>1. ~HalfWritten /\ HalfWritten'
      BY <1>1, <1>2, <2>1 DEF HalfWritten, Critical
    <3>2. cells'[1] = cells[1] + 1 /\ cells'[2] = cells[2]
      BY <2>1 DEF WriteCell, Goto, Cell
    <3>3. QED BY <3>1, <3>2 DEF CellsAgree, WriterAhead
  <2>2. CASE pc[t] = "wrote1"
    <3>1. HalfWritten /\ ~HalfWritten'
      BY <1>1, <1>2, <2>2 DEF HalfWritten, Critical
    <3>2. cells'[1] = cells[1] /\ cells'[2] = cells[2] + 1
      BY <2>2 DEF WriteCell, Goto, Cell
    <3>3. QED BY <3>1, <3>2 DEF CellsAgree, WriterAhead
  <2>3. QED BY <1>1, <2>1, <2>2
<1>6. /\ ExpectedIsFree' /\ NeverBelow' /\ ValidatedReadIsConsistent'
      /\ ValidatedLockIsFresh'
  BY <1>1, <1>2
     DEF ExpectedIsFree, NeverBelow, ValidatedReadIsConsistent, ValidatedLockIsFresh, Critical
<1>7. \A u \in Threads : ~Untouched(u)'
  BY <1>1, <1>2 DEF Untouched, Critical
<1>8. SnapshotHolds'
  BY <1>7 DEF SnapshotHolds
<1>9. QED BY <1>3, <1>4, <1>5, <1>6, <1>8

\* Releasing the lock, by unlocking or by reverting, preserves the invariant.
LEMMA ReleaseStep ==
  ASSUME IInv, NEW t \in Threads, optik_unlock(t) \/ optik_revert(t)
  PROVE  IInv'
<1> USE DEF IInv, TypeOK
<1>1. /\ pc[t] \in {"crit", "wrote2"}
      /\ \A u \in Threads : pc'[u] = IF u = t THEN "idle" ELSE pc[u]
      /\ ol' = ol + 1 \/ (pc[t] = "crit" /\ ol' = ol - 1)
      /\ UNCHANGED <<cells, ver, cur, snap, same>>
  BY DEF optik_unlock, optik_revert, Goto, optik_unlocked, optik_reverted
<1>2. /\ ol \in Nat \ {0}
      /\ optik_is_locked(ol)
      /\ ~optik_is_locked(ol')
      /\ \A u \in Threads \ {t} : pc[u] \notin Critical
  BY <1>1, WordFacts
<1>3. ol' \in Nat
  BY <1>1, <1>2
<1>4. TypeOK'
  BY <1>1, <1>3 DEF optik_unlock, optik_revert, Goto, PCs, optik_t
<1>5. MutualExclusion' /\ LockedIffCritical' /\ DeletedIffDead'
  <2>1. \A u \in Threads : pc'[u] \notin Critical
    BY <1>1, <1>2 DEF Critical
  <2>2. ol' # OPTIK_DELETED
    BY <1>3 DEF OPTIK_DELETED
  <2>3. QED
    BY <1>2, <2>1, <2>2
       DEF MutualExclusion, LockedIffCritical, DeletedIffDead, Critical, optik_is_deleted
<1>6. /\ CellsAgree' /\ WriterAhead' /\ ExpectedIsFree' /\ ValidatedReadIsConsistent'
      /\ ValidatedLockIsFresh'
  BY <1>1, <1>2
     DEF CellsAgree, WriterAhead, HalfWritten, ExpectedIsFree,
         ValidatedReadIsConsistent, ValidatedLockIsFresh, Critical
<1>7. \A u \in Threads : ~optik_is_locked(ver[u]) =>
         ver[u] \in Nat /\ ver[u] <= ol /\ ver[u] # ol
  BY <1>2, Parity DEF NeverBelow, optik_is_deleted, optik_t, OPTIK_DELETED
<1>8. NeverBelow'
  <2>1. SUFFICES ASSUME NEW u \in Threads, ~optik_is_locked(ver[u]) PROVE ver[u] <= ol'
    <3> HIDE DEF IInv, TypeOK
    <3>1. QED BY <1>1 DEF NeverBelow
  <2>2. ver[u] \in Nat /\ ver[u] <= ol - 1
    <3> HIDE DEF IInv, TypeOK
    <3>1. QED BY <1>2, <1>7, <2>1
  <2>3. QED BY <1>1, <1>2, <2>2
<1>9. \A u \in Threads : Untouched(u)' => Untouched(u)
  <2>1. SUFFICES ASSUME NEW u \in Threads, Untouched(u)' PROVE Untouched(u)
    OBVIOUS
  <2>2. ~optik_is_locked(ver[u]) /\ ol' = ver[u]
    BY <1>1, <1>2, <2>1 DEF Untouched, Critical
  <2>3. ol' = ol - 1 /\ pc[t] = "crit"
    BY <1>1, <1>2, <1>7, <2>2
  <2>4. ol = ver[u] + 1
    BY <1>2, <2>2, <2>3
  <2>5. QED BY <2>2, <2>3, <2>4 DEF Untouched
<1>10. SnapshotHolds'
  BY <1>1, <1>9 DEF SnapshotHolds, HasRead
<1>11. QED BY <1>4, <1>5, <1>6, <1>8, <1>10

-----------------------------------------------------------------------------
(* The theorems.                                                           *)

\* The invariant is inductive.
LEMMA Inductive == IInv /\ [Next]_vars => IInv'
<1> SUFFICES ASSUME IInv, [Next]_vars PROVE IInv'
  OBVIOUS
<1>1. CASE UNCHANGED vars
  BY <1>1 DEF vars, IInv, TypeOK, MutualExclusion, LockedIffCritical, DeletedIffDead,
              CellsAgree, WriterAhead, HalfWritten, ExpectedIsFree, NeverBelow,
              SnapshotHolds, HasRead, Untouched, ValidatedReadIsConsistent,
              ValidatedLockIsFresh
<1>2. CASE Next
  BY <1>2, OptimisticStep, LockCallStep, WriteStep, ReleaseStep DEF Next, InCritical
<1>3. QED BY <1>1, <1>2

\* The invariant holds of an initialised lock.
LEMMA Initially == Init => IInv
<1> SUFFICES ASSUME Init PROVE IInv
  OBVIOUS
<1> USE DEF Init
<1>1. TypeOK
  BY DEF TypeOK, PCs, optik_t, OPTIK_INIT, Cell
<1>2. \A t \in Threads : pc[t] = "idle" /\ ver[t] = 0
  BY DEF OPTIK_INIT
<1>3. MutualExclusion /\ LockedIffCritical /\ DeletedIffDead
  BY <1>2, Parity
     DEF MutualExclusion, LockedIffCritical, DeletedIffDead, optik_is_deleted,
         Critical, OPTIK_INIT, OPTIK_DELETED
<1>4. CellsAgree /\ WriterAhead
  BY <1>2 DEF CellsAgree, WriterAhead, HalfWritten, Cell
<1>5. /\ ExpectedIsFree /\ NeverBelow /\ SnapshotHolds /\ ValidatedReadIsConsistent
      /\ ValidatedLockIsFresh
  BY <1>2 DEF ExpectedIsFree, NeverBelow, SnapshotHolds, HasRead, OPTIK_INIT,
              ValidatedReadIsConsistent, ValidatedLockIsFresh
<1>6. QED BY <1>1, <1>3, <1>4, <1>5 DEF IInv

\* The invariant of the lock protocol holds in every reachable state.
THEOREM Invariance == Spec => []IInv
BY Initially, Inductive, PTL DEF Spec

\* The lock word is a version or the mark of a deleted lock, and every word, version
\* and snapshot that a thread remembers is one the lock and the cells have had.
THEOREM OptikTypes == Spec => []TypeOK
<1>1. IInv => TypeOK BY DEF IInv
<1>2. QED BY <1>1, Invariance, PTL

\* Mutual exclusion, whatever lock functions the threads of any set mix and
\* however often they revert.
THEOREM OptikMutualExclusion == Spec => []MutualExclusion
<1>1. IInv => MutualExclusion BY DEF IInv
<1>2. QED BY <1>1, Invariance, PTL

\* A successful optik_is_same_version after optimistic reads means the reads
\* are a consistent snapshot.
THEOREM OptikReadValidation == Spec => []ValidatedReadIsConsistent
<1>1. IInv => ValidatedReadIsConsistent BY DEF IInv
<1>2. QED BY <1>1, Invariance, PTL

\* A lock call that reports the version unchanged holds the lock over the data
\* that was read optimistically: the OPTIK pattern's promise to its clients.
THEOREM OptikLockValidation == Spec => []ValidatedLockIsFresh
<1>1. IInv => ValidatedLockIsFresh BY DEF IInv
<1>2. QED BY <1>1, Invariance, PTL

\* A deleted lock is never revived.
THEOREM OptikDeletion == Spec => DeletedIsForever
<1>1. IInv /\ [Next]_vars => [optik_is_deleted(ol) => optik_is_deleted(ol')]_ol
  <2> SUFFICES ASSUME IInv, Next, optik_is_deleted(ol) PROVE optik_is_deleted(ol')
    BY DEF vars
  <2> PICK t \in Threads : Optimistic(t) \/ LockCall(t) \/ InCritical(t)
    BY DEF Next
  <2>1. TypeOK /\ ExpectedIsFree
    BY DEF IInv
  <2>2. pc[t] \notin {"crit", "wrote1", "wrote2"}
    BY WordFacts DEF optik_is_deleted, OPTIK_DELETED
  <2>3. optik_is_locked(ol)
    BY Parity DEF optik_is_deleted
  <2>4. CASE Optimistic(t)
    BY <2>4 DEF Optimistic, GetVersionWait, GetVersion, ReadCell, Validate, UseSnapshot
  <2>5. CASE LockCall(t)
    BY <2>1, <2>3, <2>5
       DEF LockCall, TrylockTest, optik_trylock_version_cas, optik_trylock_vdelete_cas,
           LockRead, optik_lock_version_cas, TrylockRead, optik_trylock_cas, Goto,
           ExpectedIsFree
  <2>6. CASE InCritical(t)
    BY <2>2, <2>6 DEF InCritical, WriteCell, optik_unlock, optik_revert, Goto
  <2>7. QED BY <2>4, <2>5, <2>6
<1>2. QED BY <1>1, Invariance, PTL DEF Spec, DeletedIsForever
=============================================================================
