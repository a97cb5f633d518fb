--------------------------- MODULE OptikSeparate ---------------------------
(***************************************************************************)
(* The OPTIK lock with a separate version of include/optik.h               *)
(* (OPTIK_VERSION == OPTIK_SEPARATE): a spin lock and, next to it, a       *)
(* counter of the releases.                                                *)
(***************************************************************************)
EXTENDS LockBase

OPTIK_FREE   == 0
OPTIK_LOCKED == 1

optik_is_locked(ol) == ol.lock = OPTIK_LOCKED

\* The loop of optik_lock and optik_lock_version: wait for a free word (ol_cur), then
\* CAS the lock alone.  ol_cur is older than the lock when it is got.
LockLoop(t, f, cas, to, same) ==
  \/ /\ Goto(t, f, cas)
     /\ ~optik_is_locked(word)
     /\ loc' = [loc EXCEPT ![t].ticket = word.version]
     /\ UNCHANGED <<kind, word, qnode, data, queue>>
  \/ /\ Goto(t, cas, IF optik_is_locked(word) THEN f ELSE to)
     /\ word' = [word EXCEPT !.lock = OPTIK_LOCKED]
     /\ queue' = IF optik_is_locked(word) THEN queue ELSE Append(queue, t)
     /\ loc' = [loc EXCEPT ![t].same = same]
     /\ UNCHANGED <<kind, qnode, data>>

\* optik_lock, optik_lock_version and their backoff forms.
optik_lock_version(t) ==
  LockLoop(t, "lock_version", "lock_cas", "crit", loc[t].ticket = loc[t].ol_old.version)

\* Mutated: compares the version before it has the lock.
optik_trylock_version_early(t) ==
  \/ LockLoop(t, "trylock_version", "trylock_cas", "trylock_check", loc[t].ticket = loc[t].ol_old.version)
  \/ loc[t].same /\ Looks(t, "trylock_check", "crit")
  \/ ~loc[t].same /\ Unlocks(t, "trylock_check", [word EXCEPT !.lock = OPTIK_FREE])

\* optik_lock, then the comparison of the version, and the lock back if it differs.
optik_trylock_version(t) ==
  \/ LockLoop(t, "trylock_version", "trylock_cas", "trylock_check", TRUE)
  \/ /\ word.version = loc[t].ol_old.version
     /\ Looks(t, "trylock_check", "crit")
  \/ /\ word.version # loc[t].ol_old.version
     /\ Unlocks(t, "trylock_check", [word EXCEPT !.lock = OPTIK_FREE])

\* The test and the CAS.
optik_trylock(t) ==
  \/ optik_is_locked(word) /\ GivesUp(t, "trylock")
  \/ ~optik_is_locked(word) /\ Gets(t, "trylock", [word EXCEPT !.lock = OPTIK_LOCKED])

\* optik_unlock and optik_revert: ol->version++, and then ol->lock = 0.
optik_unlock(t) ==
  \/ /\ \E from \in {"crit", "wrote"} : Goto(t, from, "unlock")
     /\ word' = [word EXCEPT !.version = inc(@)]
     /\ UNCHANGED <<kind, qnode, data, loc, queue>>
  \/ Unlocks(t, "unlock", [word EXCEPT !.lock = OPTIK_FREE])

Functions == {"lock_version", "trylock_version", "trylock"}

Step(t) ==
  /\ kind = "OPTIK_SEPARATE"
  /\ optik_lock_version(t) \/ optik_trylock_version(t) \/ optik_trylock(t) \/ optik_unlock(t)
=============================================================================
