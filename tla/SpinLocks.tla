----------------------------- MODULE SpinLocks -----------------------------
(***************************************************************************)
(* The locks of include/lock_if.h that protect without a version: the      *)
(* test-and-set lock, the test-and-test-and-set lock, the ticket lock, and *)
(* the MCS queue lock that it takes from include/mcs.h.                    *)
(***************************************************************************)
EXTENDS LockBase

-----------------------------------------------------------------------------
(* TAS and TTAS                                                            *)

TTAS_FREE == 0
TTAS_LCKD == 1

\* The CAS that ends the loop of tas_lock; one that fails changes nothing.
tas_lock(t) ==
  /\ kind = "TAS"
  /\ tas_lock_passes(word.lock)
  /\ Gets(t, "lock", [word EXCEPT !.lock = tas_locked(@)])

\* Mutated: takes the lock with a store when it has seen it free.
ttas_lock_store(t) ==
  /\ kind = "TTAS"
  /\ \/ word.lock # TTAS_LCKD /\ Looks(t, "lock", "lock_cas")
     \/ Gets(t, "lock_cas", [word EXCEPT !.lock = TTAS_LCKD])

\* Read until the lock is not taken, then CAS, and start again when that fails.
ttas_lock(t) ==
  /\ kind = "TTAS"
  /\ \/ word.lock # TTAS_LCKD /\ Looks(t, "lock", "lock_cas")
     \/ word.lock = TTAS_FREE /\ Gets(t, "lock_cas", [word EXCEPT !.lock = TTAS_LCKD])
     \/ word.lock # TTAS_FREE /\ Looks(t, "lock_cas", "lock")

\* tas_trylock and ttas_trylock: one CAS.
trylock(t) ==
  \/ word.lock = TAS_FREE /\ Gets(t, "trylock", [word EXCEPT !.lock = TAS_LCKD])
  \/ word.lock # TAS_FREE /\ GivesUp(t, "trylock")

\* tas_unlock and ttas_unlock.
unlock(t) == Unlocks(t, "crit", [word EXCEPT !.lock = TAS_FREE])

SpinStep(t) ==
  /\ kind \in {"TAS", "TTAS"}
  /\ tas_lock(t) \/ ttas_lock(t) \/ trylock(t) \/ unlock(t)

-----------------------------------------------------------------------------
(* TICKET: a thread draws a ticket and waits until it is served.  Tickets  *)
(* wrap around.                                                            *)

\* Mutated: the ticket is read, and counted up afterwards.
ticket_lock_split(t) ==
  \/ /\ Goto(t, "lock", "draw")
     /\ loc' = [loc EXCEPT ![t].ticket = word.ticket]
     /\ UNCHANGED <<kind, word, qnode, data, queue>>
  \/ /\ Goto(t, "draw", "wait")
     /\ word' = [word EXCEPT !.ticket = inc(loc[t].ticket)]
     /\ queue' = Append(queue, t)
     /\ UNCHANGED <<kind, qnode, data, loc>>
  \/ loc[t].ticket = word.curr /\ Looks(t, "wait", "crit")

\* FAI_U32(&l->ticket), then the loop until curr is the ticket.
ticket_lock(t) ==
  \/ /\ Goto(t, "lock", "wait")
     /\ loc' = [loc EXCEPT ![t].ticket = word.ticket]
     /\ word' = [word EXCEPT !.ticket = inc(@)]
     /\ queue' = Append(queue, t)
     /\ UNCHANGED <<kind, qnode, data>>
  \/ loc[t].ticket = word.curr /\ Looks(t, "wait", "crit")

\* Read both halves; if the lock is free, draw a ticket with a CAS on both.
ticket_trylock(t) ==
  \/ /\ word.curr # word.ticket
     /\ GivesUp(t, "trylock")
  \/ /\ word.curr = word.ticket
     /\ Goto(t, "trylock", "try_cas")
     /\ loc' = [loc EXCEPT ![t].ticket = word.ticket]
     /\ UNCHANGED <<kind, word, qnode, data, queue>>
  \/ /\ word.curr = loc[t].ticket /\ word.ticket = loc[t].ticket
     /\ Gets(t, "try_cas", [word EXCEPT !.ticket = inc(@)])
  \/ /\ word.curr # loc[t].ticket \/ word.ticket # loc[t].ticket
     /\ GivesUp(t, "try_cas")

ticket_unlock(t) == Unlocks(t, "crit", [word EXCEPT !.curr = inc(@)])

TicketStep(t) == kind = "TICKET" /\ (ticket_lock(t) \/ ticket_trylock(t) \/ ticket_unlock(t))

-----------------------------------------------------------------------------
(* MCS: the threads that want the lock form a linked queue of their queue  *)
(* nodes, and each spins on its own.  Each thread has one queue node for   *)
(* all MCS locks.                                                          *)

\* Changes to the queue nodes on the way from one place to another.
SetNodes(t, from, to, q) ==
  /\ Goto(t, from, to)
  /\ qnode' = q
  /\ UNCHANGED <<kind, word, data, loc, queue>>

\* local->next = NULL; pred = swap_ptr(&lock->next, local)
mcs_swap(t) ==
  /\ Goto(t, "lock", IF word.next = NoThread THEN "crit" ELSE "mcs_wait")
  /\ qnode' = [qnode EXCEPT ![t].next = NoThread]
  /\ word' = [word EXCEPT !.next = t]
  /\ loc' = [loc EXCEPT ![t].pred = word.next]
  /\ queue' = Append(queue, t)
  /\ UNCHANGED <<kind, data>>

\* Mutated: links itself to the predecessor before it sets the word to spin on.
mcs_lock_links_first(t) ==
  \/ mcs_swap(t)
  \/ SetNodes(t, "mcs_wait", "mcs_link", [qnode EXCEPT ![loc[t].pred].next = t])
  \/ SetNodes(t, "mcs_link", "mcs_spin", [qnode EXCEPT ![t].waiting = TRUE])
  \/ ~qnode[t].waiting /\ Looks(t, "mcs_spin", "crit")

mcs_lock_lock(t) ==
  \/ mcs_swap(t)
  \/ SetNodes(t, "mcs_wait", "mcs_link", [qnode EXCEPT ![t].waiting = TRUE])
  \/ SetNodes(t, "mcs_link", "mcs_spin", [qnode EXCEPT ![loc[t].pred].next = t])
  \/ ~qnode[t].waiting /\ Looks(t, "mcs_spin", "crit")

\* A first look at lock->next, then a CAS.
mcs_lock_trylock(t) ==
  \/ word.next # NoThread /\ GivesUp(t, "trylock")
  \/ /\ word.next = NoThread
     /\ SetNodes(t, "trylock", "try_cas", [qnode EXCEPT ![t].next = NoThread])
  \/ word.next # NoThread /\ GivesUp(t, "try_cas")
  \/ word.next = NoThread /\ Gets(t, "try_cas", [word EXCEPT !.next = t])

\* A holder without a successor takes its node out of the lock; if another thread has
\* queued up meanwhile, it waits for that one's link.  Then it wakes the successor.
mcs_lock_unlock(t) ==
  \/ qnode[t].next = NoThread /\ Looks(t, "crit", "unlock_cas")
  \/ word.next = t /\ Unlocks(t, "unlock_cas", [word EXCEPT !.next = NoThread])
  \/ word.next # t /\ Looks(t, "unlock_cas", "unlock_wait")
  \/ \E from \in {"crit", "unlock_wait"} :
       qnode[t].next # NoThread /\ Looks(t, from, "unlock_wake")
  \/ /\ Goto(t, "unlock_wake", "idle")
     /\ qnode' = [qnode EXCEPT ![qnode[t].next].waiting = FALSE]
     /\ queue' = Tail(queue)
     /\ loc' = [loc EXCEPT ![t] = NoLocals]
     /\ UNCHANGED <<kind, word, data>>

McsStep(t) == kind = "MCS" /\ (mcs_lock_lock(t) \/ mcs_lock_trylock(t) \/ mcs_lock_unlock(t))
=============================================================================
