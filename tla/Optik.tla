------------------------------- MODULE Optik -------------------------------
(***************************************************************************)
(* The OPTIK integer version lock of include/optik.h (OPTIK_VERSION ==     *)
(* OPTIK_INTEGER, the variant the default build compiles): one 64-bit word *)
(* that is both a lock and a version.  An even word is a free lock, an odd *)
(* word a held one; locking and unlocking each add one, so that a word     *)
(* read while free comes back only if nobody held the lock in between, or  *)
(* if the holder undid its locking with optik_revert.                      *)
(*                                                                         *)
(* The word is 64 bits wide; no client can lock it 2^63 times, so versions *)
(* are naturals here, and the all-ones word (uint64_t) -1, the mark of a   *)
(* deleted node, is -1: an odd word different from every version.          *)
(***************************************************************************)
LOCAL INSTANCE Integers

OPTIK_INIT    == 0
OPTIK_DELETED == -1

optik_is_locked(ol)  == ol % 2 = 1 \/ ol = OPTIK_DELETED
optik_is_deleted(ol) == ol = OPTIK_DELETED

optik_is_same_version(v1, v2) == v1 = v2

\* The condition under which optik_trylock_version and optik_trylock_vdelete
\* take the lock: their first test and the compare of the CAS that follows.
optik_trylock_version(ol, ol_old) == ~optik_is_locked(ol_old) /\ ol = ol_old

\* The word that the CAS of the lock functions, optik_unlock and optik_revert
\* leave in the lock.
optik_locked(ol)   == ol + 1
optik_unlocked(ol) == ol + 1
optik_reverted(ol) == ol - 1

\* Every word a lock can hold.
optik_t == Nat \cup {OPTIK_DELETED}
=============================================================================
