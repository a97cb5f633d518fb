----------------------------- MODULE OptikLock -----------------------------
(***************************************************************************)
(* Threads that use one OPTIK lock (include/optik.h) the ways the library  *)
(* does.  The lock protects two cells; a critical section that changes     *)
(* anything writes both, one after the other.                              *)
(*                                                                         *)
(*  - A reader waits for a free version, reads the cells without locking   *)
(*    and validates with optik_is_same_version (ArrayMapOptik::search).    *)
(*  - An updater reads a version, reads the cells without locking, and     *)
(*    then calls one of the lock functions with that version.              *)
(*                                                                         *)
(* Every read, write and CAS of the lock word and of a cell is a step.     *)
(***************************************************************************)
EXTENDS Optik, Integers, TLC

CONSTANTS
  Threads,      \* the threads that share the lock
  MaxVersion    \* no thread starts an update once the lock word is this large

ASSUME MaxVersionAssumption == MaxVersion \in Nat

VARIABLES
  ol,     \* the lock word, *ol
  cells,  \* what the lock protects: <<first cell, second cell>>
  pc,     \* where each thread is
  ver,    \* the version each thread read before its optimistic reads (ol_old)
  cur,    \* the word read by the lock loop of each thread (ol_cur)
  snap,   \* what each thread read from the cells
  same    \* the result of the last lock call: was the version still the same?

vars == <<ol, cells, pc, ver, cur, snap, same>>

Cell == 1..2

\* Program counters.  "read1", "read2", "check": a reader; "peek1", "peek2",
\* "call": an updater before its lock call; "valid": a reader whose check
\* succeeded; "dead": the thread that deleted the lock.
PCs == {"idle", "read1", "read2", "check", "valid", "peek1", "peek2", "call",
        "version_cas", "vdelete_cas", "lock_read", "lock_cas", "try_cas",
        "crit", "wrote1", "wrote2", "dead"}

\* The program counters at which a thread holds the lock.
Critical == {"crit", "wrote1", "wrote2", "dead"}

Goto(t, from, to) == pc[t] = from /\ pc' = [pc EXCEPT ![t] = to]

Init ==
  /\ ol    = OPTIK_INIT
  /\ cells = [c \in Cell |-> 0]
  /\ pc    = [t \in Threads |-> "idle"]
  /\ ver   = [t \in Threads |-> OPTIK_INIT]
  /\ cur   = [t \in Threads |-> OPTIK_INIT]
  /\ snap  = [t \in Threads |-> [c \in Cell |-> 0]]
  /\ same  = [t \in Threads |-> FALSE]

-----------------------------------------------------------------------------
(* Optimistic reading.                                                     *)

\* Mutated: does not wait for a free word.
GetVersionNoWait(t) ==
  /\ Goto(t, "idle", "read1")
  /\ ver' = [ver EXCEPT ![t] = ol]
  /\ UNCHANGED <<ol, cells, cur, snap, same>>

\* optik_get_version_wait: loop until the word read is not locked.
GetVersionWait(t) ==
  /\ Goto(t, "idle", "read1")
  /\ ~optik_is_locked(ol)
  /\ ver' = [ver EXCEPT ![t] = ol]
  /\ UNCHANGED <<ol, cells, cur, snap, same>>

\* version = *lock, without waiting.
GetVersion(t) ==
  /\ ol < MaxVersion
  /\ Goto(t, "idle", "peek1")
  /\ ver' = [ver EXCEPT ![t] = ol]
  /\ UNCHANGED <<ol, cells, cur, snap, same>>

ReadCell(t, c, from, to) ==
  /\ Goto(t, from, to)
  /\ snap' = [snap EXCEPT ![t][c] = cells[c]]
  /\ UNCHANGED <<ol, cells, ver, cur, same>>

\* The reader's validation; when it fails the reader starts again.
Validate(t) ==
  /\ Goto(t, "check", IF optik_is_same_version(ver[t], ol) THEN "valid" ELSE "idle")
  /\ UNCHANGED <<ol, cells, ver, cur, snap, same>>

\* The reader uses what it read and is done.
UseSnapshot(t) ==
  /\ Goto(t, "valid", "idle")
  /\ UNCHANGED <<ol, cells, ver, cur, snap, same>>

-----------------------------------------------------------------------------
(* The lock functions.  A failing CAS changes nothing.                     *)

Acquire(t, old) ==
  /\ ol'   = optik_locked(old)
  /\ same' = [same EXCEPT ![t] = optik_is_same_version(old, ver[t])]

\* The test before the CAS, shared by optik_trylock_version and
\* optik_trylock_vdelete.
TrylockTest(t, cas) ==
  /\ Goto(t, "call", IF optik_is_locked(ver[t]) \/ ol # ver[t] THEN "idle" ELSE cas)
  /\ UNCHANGED <<ol, cells, ver, cur, snap, same>>

optik_trylock_version_cas(t) ==
  /\ Goto(t, "version_cas", IF ol = ver[t] THEN "crit" ELSE "idle")
  /\ IF ol = ver[t] THEN Acquire(t, ver[t]) ELSE UNCHANGED <<ol, same>>
  /\ UNCHANGED <<cells, ver, cur, snap>>

\* Mutated: the deleter goes on to release the lock like any other holder.
optik_trylock_vdelete_and_release(t) ==
  /\ Goto(t, "vdelete_cas", IF ol = ver[t] THEN "crit" ELSE "idle")
  /\ IF ol = ver[t]
       THEN /\ ol'   = OPTIK_DELETED
            /\ same' = [same EXCEPT ![t] = TRUE]
       ELSE UNCHANGED <<ol, same>>
  /\ UNCHANGED <<cells, ver, cur, snap>>

optik_trylock_vdelete_cas(t) ==
  /\ Goto(t, "vdelete_cas", IF ol = ver[t] THEN "dead" ELSE "idle")
  /\ IF ol = ver[t]
       THEN /\ ol'   = OPTIK_DELETED
            /\ same' = [same EXCEPT ![t] = TRUE]
       ELSE UNCHANGED <<ol, same>>
  /\ UNCHANGED <<cells, ver, cur, snap>>

\* optik_lock, optik_lock_version and their backoff forms: wait for a free
\* word, then CAS, and wait again when the CAS fails.  optik_lock is
\* optik_lock_version with its result ignored.
LockRead(t) ==
  /\ \E from \in {"call", "lock_read"} : Goto(t, from, "lock_cas")
  /\ ~optik_is_locked(ol)
  /\ cur' = [cur EXCEPT ![t] = ol]
  /\ UNCHANGED <<ol, cells, ver, snap, same>>

\* Mutated: takes the lock without comparing the word.
optik_lock_version_store(t) ==
  /\ Goto(t, "lock_cas", "crit")
  /\ Acquire(t, cur[t])
  /\ UNCHANGED <<cells, ver, cur, snap>>

optik_lock_version_cas(t) ==
  /\ Goto(t, "lock_cas", IF ol = cur[t] THEN "crit" ELSE "lock_read")
  /\ IF ol = cur[t] THEN Acquire(t, cur[t]) ELSE UNCHANGED <<ol, same>>
  /\ UNCHANGED <<cells, ver, cur, snap>>

\* optik_trylock: one round of the same, without a version.
TrylockRead(t) ==
  /\ Goto(t, "call", IF optik_is_locked(ol) THEN "idle" ELSE "try_cas")
  /\ cur' = [cur EXCEPT ![t] = ol]
  /\ UNCHANGED <<ol, cells, ver, snap, same>>

optik_trylock_cas(t) ==
  /\ Goto(t, "try_cas", IF ol = cur[t] THEN "crit" ELSE "idle")
  /\ IF ol = cur[t] THEN Acquire(t, cur[t]) ELSE UNCHANGED <<ol, same>>
  /\ UNCHANGED <<cells, ver, cur, snap>>

-----------------------------------------------------------------------------
(* The critical section.                                                   *)

WriteCell(t, c, from, to) ==
  /\ Goto(t, from, to)
  /\ cells' = [cells EXCEPT ![c] = @ + 1]
  /\ UNCHANGED <<ol, ver, cur, snap, same>>

\* optik_unlock, optik_unlockv: after a change, or without one.
optik_unlock(t) ==
  /\ \E from \in {"crit", "wrote2"} : Goto(t, from, "idle")
  /\ ol' = optik_unlocked(ol)
  /\ UNCHANGED <<cells, ver, cur, snap, same>>

\* Mutated: used instead of optik_unlock after a change as well.
optik_revert_after_write(t) ==
  /\ \E from \in {"crit", "wrote2"} : Goto(t, from, "idle")
  /\ ol' = optik_reverted(ol)
  /\ UNCHANGED <<cells, ver, cur, snap, same>>

\* optik_revert: only by a holder that changed nothing.
optik_revert(t) ==
  /\ Goto(t, "crit", "idle")
  /\ ol' = optik_reverted(ol)
  /\ UNCHANGED <<cells, ver, cur, snap, same>>

-----------------------------------------------------------------------------

Optimistic(t) ==
  \/ GetVersionWait(t)
  \/ GetVersion(t)
  \/ ReadCell(t, 1, "read1", "read2")
  \/ ReadCell(t, 2, "read2", "check")
  \/ ReadCell(t, 1, "peek1", "peek2")
  \/ ReadCell(t, 2, "peek2", "call")
  \/ Validate(t)
  \/ UseSnapshot(t)

LockCall(t) ==
  \/ TrylockTest(t, "version_cas")
  \/ TrylockTest(t, "vdelete_cas")
  \/ optik_trylock_version_cas(t)
  \/ optik_trylock_vdelete_cas(t)
  \/ LockRead(t)
  \/ optik_lock_version_cas(t)
  \/ TrylockRead(t)
  \/ optik_trylock_cas(t)

InCritical(t) ==
  \/ WriteCell(t, 1, "crit", "wrote1")
  \/ WriteCell(t, 2, "wrote1", "wrote2")
  \/ optik_unlock(t)
  \/ optik_revert(t)

Next == \E t \in Threads : Optimistic(t) \/ LockCall(t) \/ InCritical(t)

Spec == Init /\ [][Next]_vars

\* The threads are interchangeable: for TLC.
Symmetry == Permutations(Threads)

-----------------------------------------------------------------------------

TypeOK ==
  /\ ol    \in optik_t
  /\ cells \in [Cell -> Nat]
  /\ pc    \in [Threads -> PCs]
  /\ ver   \in [Threads -> optik_t]
  /\ cur   \in [Threads -> optik_t]
  /\ snap  \in [Threads -> [Cell -> Nat]]
  /\ same  \in [Threads -> BOOLEAN]

\* At most one thread is between a successful lock call and the release that
\* ends its critical section, whichever lock functions the threads mix, and
\* although optik_revert hands out an old version a second time.
MutualExclusion ==
  \A t, u \in Threads : pc[t] \in Critical /\ pc[u] \in Critical => t = u

\* A reader that validated its version saw both cells as one critical section
\* left them, never the half of an update in progress.
ValidatedReadIsConsistent ==
  \A t \in Threads : pc[t] = "valid" => snap[t][1] = snap[t][2]

\* A thread whose lock call reported the version unchanged holds the lock over
\* exactly the data it read before it had the lock.
ValidatedLockIsFresh ==
  \A t \in Threads : pc[t] = "crit" /\ same[t] => snap[t] = cells

\* A deleted lock stays deleted: no lock call, unlock or revert revives it.
DeletedIsForever == [][optik_is_deleted(ol) => optik_is_deleted(ol')]_ol
=============================================================================
