------------------------------- MODULE Locks -------------------------------
(***************************************************************************)
(* The locks a build can choose instead of the default ones: TTAS, TICKET  *)
(* and MCS for TAS (include/lock_if.h, include/mcs.h), and the ticket and  *)
(* separate variants for the OPTIK integer lock (include/optik.h).  A      *)
(* behaviour is one of threads that use one lock of one kind.              *)
(***************************************************************************)
EXTENDS SpinLocks

OTicket  == INSTANCE OptikTicket
Separate == INSTANCE OptikSeparate

Plain == {"TAS", "TTAS", "TICKET", "MCS"}

\* The kinds whose lock functions get a version.
Versioned == {"OPTIK_TICKET", "OPTIK_TICKET_TRY", "OPTIK_SEPARATE"}

ASSUME UsersAssumption == DOMAIN Users \subseteq Plain \cup Versioned \cup {"OPTIK_TICKET_DELETE"}

\* A thread calls a function of the lock.  If that wants a version, the thread reads the
\* word and then the data first.
Call(t) ==
  \/ kind \in Plain /\ \E f \in {"lock", "trylock"} : Calls(t, f)
  \/ /\ kind = "OPTIK_TICKET_DELETE"
     /\ word.version < MaxVersion
     /\ \E f \in OTicket!Functions : Calls(t, f)
  \/ /\ kind \in Versioned
     /\ word.version < MaxVersion
     /\ Goto(t, "idle", "peek")
     /\ loc' = [loc EXCEPT ![t].ol_old = word]
     /\ UNCHANGED <<kind, word, qnode, data, queue>>

ReadData(t) ==
  /\ \E f \in IF kind = "OPTIK_SEPARATE" THEN Separate!Functions ELSE OTicket!Functions :
       Goto(t, "peek", f) /\ loc' = [loc EXCEPT ![t].snap = data, ![t].by = f]
  /\ UNCHANGED <<kind, word, qnode, data, queue>>

\* The holder of a lock with a version changes the data, or not.
WriteData(t) ==
  /\ kind \in Versioned
  /\ Goto(t, "crit", "wrote")
  /\ data' = data + 1
  /\ UNCHANGED <<kind, word, qnode, loc, queue>>

Step(t) ==
  \/ SpinStep(t) \/ TicketStep(t) \/ McsStep(t) \/ OTicket!Step(t) \/ Separate!Step(t)
  \/ kind \in Versioned /\ ReadData(t)

Next == \E t \in Users[kind] : Call(t) \/ Step(t) \/ WriteData(t)

\* A thread that is inside a call or holds the lock is not suspended for ever.
Spec == Init /\ [][Next]_vars /\ \A t \in Threads : WF_vars(Step(t))

-----------------------------------------------------------------------------

Holds(t) == pc[t] \in {"crit", "wrote", "dead"}

\* At most one thread is between getting the lock and giving it back, whichever lock
\* and trylock functions the threads mix, also after tickets have wrapped around, and
\* nobody gets a lock that another has deleted.
MutualExclusion == \A t, u \in Threads : Holds(t) /\ Holds(u) => t = u

\* A thread whose lock call said that the version is the one it had read finds the data
\* unchanged since.  Not so optik_lock_version of the separate variant, which compares
\* a version that it read before it had the lock.
ValidatedLockIsFresh ==
  \A t \in Threads :
    pc[t] = "crit" /\ loc[t].same /\ ~(kind = "OPTIK_SEPARATE" /\ loc[t].by = "lock_version")
      => loc[t].snap = data

Fair == {"TICKET", "MCS", "OPTIK_TICKET", "OPTIK_TICKET_DELETE"}

\* The locks with a queue serve the threads in the order in which they have drawn a
\* ticket or swapped their node in; a trylock never gets past one that waits.
FirstComeFirstServed ==
  kind \in Fair => \A t \in Threads : Holds(t) => Head(queue) = t

Waits(t) == \E i \in DOMAIN queue : queue[i] = t /\ ~Holds(t)

\* Every thread in the queue of a fair lock gets the lock, or gives up because the lock
\* has been deleted; with the other locks, some thread gets it.
EveryLockReturns ==
  \A t \in Threads :
    /\ kind \in Fair /\ Waits(t) ~> ~Waits(t)
    /\ pc[t] \notin {"idle", "dead"} ~> pc[t] = "idle" \/ \E u \in Threads : Holds(u)
=============================================================================
