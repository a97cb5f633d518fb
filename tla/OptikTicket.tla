---------------------------- MODULE OptikTicket ----------------------------
(***************************************************************************)
(* The OPTIK ticket lock of include/optik.h (OPTIK_VERSION ==              *)
(* OPTIK_TICKET): a ticket lock whose counter of served tickets is the     *)
(* version.  The lock is free when ticket and version are the same.        *)
(*                                                                         *)
(* Programs can use it in three ways that do not mix: with functions that  *)
(* queue up, with functions that only try and may revert (what the data    *)
(* structures of the library do), and with the functions that delete the   *)
(* lock by the version INT_MAX.  A revert takes a ticket back, which would *)
(* leave a thread that has queued up waiting for ever.                     *)
(***************************************************************************)
EXTENDS LockBase

INT_MAX == TicketMod \div 2 - 1

optik_is_locked(ol) == ol.ticket # ol.version
optik_is_same_version(v1, v2) == v1.ticket = v2.ticket /\ v1.version = v2.version

\* FAI_U32(&ol->ticket)
Draw(t, from, to) ==
  /\ Goto(t, from, to)
  /\ loc' = [loc EXCEPT ![t].ticket = word.ticket]
  /\ word' = [word EXCEPT !.ticket = inc(@)]
  /\ queue' = Append(queue, t)
  /\ UNCHANGED <<kind, qnode, data>>

\* The loop until version is the ticket; the result, if the caller looks at it.
Served(t, from, same) ==
  /\ loc[t].ticket = word.version
  /\ Goto(t, from, "crit")
  /\ loc' = [loc EXCEPT ![t].same = same]
  /\ UNCHANGED <<kind, word, qnode, data, queue>>

\* optik_lock, optik_lock_version and their backoff forms.
optik_lock_version(t) ==
  \/ Draw(t, "lock_version", "version_wait")
  \/ Served(t, "version_wait", loc[t].ol_old.version = loc[t].ticket)

\* Takes the lock with a CAS from the free word ol_old to new.
Try(t, from, to, ol_old, new, same) ==
  \/ /\ ~optik_is_locked(ol_old) /\ optik_is_same_version(word, ol_old)
     /\ Goto(t, from, to)
     /\ word' = new
     /\ queue' = Append(queue, t)
     /\ loc' = [loc EXCEPT ![t].same = same]
     /\ UNCHANGED <<kind, qnode, data>>
  \/ /\ optik_is_locked(ol_old) \/ ~optik_is_same_version(word, ol_old)
     /\ GivesUp(t, from)

optik_trylock_version(t) ==
  Try(t, "trylock_version", "crit", loc[t].ol_old, [word EXCEPT !.ticket = inc(@)], TRUE)

\* The holder of a lock that it has deleted keeps it for ever.
optik_trylock_vdelete(t) ==
  Try(t, "trylock_vdelete", "dead", loc[t].ol_old, [word EXCEPT !.ticket = dec(loc[t].ol_old.version)], TRUE)

\* version = ol->version; then the test of the ticket and the CAS.
optik_trylock(t) ==
  \/ /\ Goto(t, "trylock", "try_cas")
     /\ loc' = [loc EXCEPT ![t].ticket = word.version]
     /\ UNCHANGED <<kind, word, qnode, data, queue>>
  \/ LET free == [word EXCEPT !.version = loc[t].ticket, !.ticket = loc[t].ticket]
     IN  Try(t, "try_cas", "crit", free, [free EXCEPT !.ticket = inc(@)], FALSE)

\* The queue without the thread at place n.
Without(n) == [j \in 1..(Len(queue) - 1) |-> queue[IF j < n THEN j ELSE j + 1]]

\* optik_lock_if_not_deleted and optik_lock_vdelete, up to the lock: a thread that sees
\* the version INT_MAX gives up, also after it has drawn a ticket.
NotDeleted(t, f, draw, wait, got) ==
  \/ word.version = INT_MAX /\ GivesUp(t, f)
  \/ word.version # INT_MAX /\ Looks(t, f, draw)
  \/ Draw(t, draw, wait)
  \/ /\ word.version = INT_MAX
     /\ Leaves(t, wait)
     /\ \E n \in DOMAIN queue : queue[n] = t /\ queue' = Without(n)
     /\ UNCHANGED word
  \/ loc[t].ticket = word.version /\ Looks(t, wait, got)

optik_lock_if_not_deleted(t) == NotDeleted(t, "lock_if_not_deleted", "if_draw", "if_wait", "crit")

optik_lock_vdelete(t) ==
  \/ NotDeleted(t, "lock_vdelete", "vdelete_draw", "vdelete_wait", "vdelete")
  \/ /\ Goto(t, "vdelete", "dead")
     /\ word' = [word EXCEPT !.version = INT_MAX]
     /\ UNCHANGED <<kind, qnode, data, loc, queue>>

\* optik_unlock, optik_unlockv: after a change of the data or without one.
optik_unlock(t) == \E from \in {"crit", "wrote"} : Unlocks(t, from, [word EXCEPT !.version = inc(@)])

\* optik_revert: FAD_U32(&ol->ticket), by a holder that has changed nothing.
optik_revert(t) == kind = "OPTIK_TICKET_TRY" /\ Unlocks(t, "crit", [word EXCEPT !.ticket = dec(@)])

Functions ==
  CASE kind = "OPTIK_TICKET"        -> {"lock_version", "trylock_version", "trylock"}
    [] kind = "OPTIK_TICKET_TRY"    -> {"trylock_version", "trylock", "trylock_vdelete"}
    [] kind = "OPTIK_TICKET_DELETE" -> {"lock_if_not_deleted", "lock_vdelete"}

Step(t) ==
  /\ kind \in {"OPTIK_TICKET", "OPTIK_TICKET_TRY", "OPTIK_TICKET_DELETE"}
  /\ \/ optik_lock_version(t) \/ optik_trylock_version(t) \/ optik_trylock(t)
     \/ optik_trylock_vdelete(t) \/ optik_lock_if_not_deleted(t) \/ optik_lock_vdelete(t)
     \/ optik_unlock(t) \/ optik_revert(t)
=============================================================================
