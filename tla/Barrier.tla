------------------------------ MODULE Barrier ------------------------------
(***************************************************************************)
(* The barrier of include/barrier.h, which the drivers use between their   *)
(* phases: a counter under a mutex and a condition variable.  A critical   *)
(* section is one step.  pthread_cond_wait gives the mutex up and sleeps;  *)
(* a thread that is woken takes the mutex again, whenever that may be, and *)
(* leaves without looking at the counter again.  POSIX allows a wait to    *)
(* return without a broadcast: SpecPosix has such wake-ups, Spec does not. *)
(***************************************************************************)
EXTENDS Integers, FiniteSetTheorems, TLAPS

CONSTANTS
  Threads,
  MaxCrossings       \* how often each thread crosses

ASSUME BarrierAssumption ==
  IsFiniteSet(Threads) /\ Threads # {} /\ MaxCrossings \in Nat

VARIABLES
  crossing,   \* b->crossing
  waiting,    \* the threads asleep on b->complete
  woken,      \* the threads that wait for the mutex after their sleep
  arrived,    \* how many crossings each thread has begun
  left        \* how many crossings each thread has finished

vars == <<crossing, waiting, woken, arrived, left>>

\* b->count, given to barrier_init: every thread takes part.
count == Cardinality(Threads)

barrier_init ==
  /\ crossing = 0
  /\ waiting  = {}
  /\ woken    = {}
  /\ arrived  = [t \in Threads |-> 0]
  /\ left     = [t \in Threads |-> 0]

\* barrier_cross up to the wait: one more thread, not all are here.
Wait(t) ==
  /\ arrived[t] = left[t] /\ arrived[t] < MaxCrossings
  /\ crossing + 1 < count
  /\ crossing' = crossing + 1
  /\ waiting'  = waiting \cup {t}
  /\ arrived'  = [arrived EXCEPT ![t] = @ + 1]
  /\ UNCHANGED <<woken, left>>

\* Mutated: the counter is not reset for the next time.
CompleteNoReset(t) ==
  /\ arrived[t] = left[t] /\ arrived[t] < MaxCrossings
  /\ crossing + 1 >= count
  /\ crossing' = crossing + 1
  /\ woken'    = woken \cup waiting
  /\ waiting'  = {}
  /\ arrived'  = [arrived EXCEPT ![t] = @ + 1]
  /\ left'     = [left EXCEPT ![t] = @ + 1]

\* Mutated: signals one thread instead of all.
CompleteSignal(t) ==
  /\ arrived[t] = left[t] /\ arrived[t] < MaxCrossings
  /\ crossing + 1 >= count
  /\ crossing' = 0
  /\ \E u \in waiting : woken' = woken \cup {u} /\ waiting' = waiting \ {u}
  /\ arrived'  = [arrived EXCEPT ![t] = @ + 1]
  /\ left'     = [left EXCEPT ![t] = @ + 1]

\* barrier_cross of the last thread: wake the others, reset for the next time.
Complete(t) ==
  /\ arrived[t] = left[t] /\ arrived[t] < MaxCrossings
  /\ crossing + 1 >= count
  /\ crossing' = 0
  /\ woken'    = woken \cup waiting
  /\ waiting'  = {}
  /\ arrived'  = [arrived EXCEPT ![t] = @ + 1]
  /\ left'     = [left EXCEPT ![t] = @ + 1]

\* pthread_cond_wait returns, barrier_cross unlocks and returns.
Leave(t) ==
  /\ t \in woken
  /\ woken' = woken \ {t}
  /\ left'  = [left EXCEPT ![t] = @ + 1]
  /\ UNCHANGED <<crossing, waiting, arrived>>

Spurious(t) ==
  /\ t \in waiting
  /\ waiting' = waiting \ {t}
  /\ woken'   = woken \cup {t}
  /\ UNCHANGED <<crossing, arrived, left>>

barrier_cross(t) == Wait(t) \/ Complete(t) \/ Leave(t)

Finished == \A t \in Threads : left[t] = MaxCrossings

Next      == \E t \in Threads : barrier_cross(t)
NextPosix == \E t \in Threads : barrier_cross(t) \/ Spurious(t)

Spec      == barrier_init /\ [][Next]_vars
SpecPosix == barrier_init /\ [][NextPosix]_vars

\* Every thread goes on to its next crossing, and a woken thread gets the mutex.
FairSpec == Spec /\ \A t \in Threads : WF_vars(barrier_cross(t))

-----------------------------------------------------------------------------

TypeOK ==
  /\ crossing \in 0..(count - 1)
  /\ waiting \subseteq Threads
  /\ woken \subseteq Threads \ waiting
  /\ arrived \in [Threads -> 0..MaxCrossings]
  /\ left    \in [Threads -> 0..MaxCrossings]

\* No thread is past a crossing that some thread has not reached, also when fast
\* threads cross again before slow ones have woken up.
NoEarlyCrossing == \A t, u \in Threads : left[t] <= arrived[u]

\* All threads get through all crossings: no wake-up is lost.
EveryoneCrosses == <>Finished

-----------------------------------------------------------------------------
(***************************************************************************)
(* Proofs.  The barrier holds every thread back until all have arrived,    *)
(* for any number of threads and crossings, as long as waits end only by a *)
(* broadcast.                                                              *)
(*                                                                         *)
(* All threads are in the same round r, or a woken one has not yet left    *)
(* the round before: the counter is the number of sleeping threads, so the *)
(* last thread to arrive finds all others asleep, and none of them woken.  *)
(***************************************************************************)

\* What each thread has done in round r, the number of completed crossings.
InRound(t, r) ==
  /\ arrived[t] = IF t \in waiting THEN r + 1 ELSE r
  /\ left[t] = IF t \in woken THEN r - 1 ELSE r

IInv ==
  /\ waiting \subseteq Threads /\ woken \subseteq Threads \ waiting
  /\ arrived \in [Threads -> 0..MaxCrossings]
  /\ left \in [Threads -> 0..MaxCrossings]
  /\ crossing = Cardinality(waiting) /\ crossing < count
  /\ \E r \in Nat : \A t \in Threads : InRound(t, r)

\* A thread that finds the counter one below the count is the only one missing.
LEMMA LastIsMissing ==
  ASSUME NEW W \in SUBSET Threads, NEW t \in Threads, t \notin W
  PROVE  /\ Cardinality(W) \in Nat
         /\ Cardinality(W) < count
         /\ Cardinality(W \cup {t}) = Cardinality(W) + 1
         /\ Cardinality(W) + 1 >= count => W = Threads \ {t}
<1>1. IsFiniteSet(Threads) /\ IsFiniteSet(W) /\ Cardinality(W) \in Nat /\ count \in Nat
  BY BarrierAssumption, FS_Subset, FS_CardinalityType DEF count
<1>2. Cardinality(W \cup {t}) = Cardinality(W) + 1
  BY <1>1, FS_AddElement
<1>3. /\ Cardinality(W \cup {t}) <= count
      /\ Cardinality(W \cup {t}) = count => W \cup {t} = Threads
  <2>1. W \cup {t} \in SUBSET Threads
    OBVIOUS
  <2>2. QED BY <1>1, <2>1, FS_Subset DEF count
<1>4. QED BY <1>1, <1>2, <1>3

\* The invariant implies the types and the safety property.
LEMMA Implied == IInv => TypeOK /\ NoEarlyCrossing
<1> SUFFICES ASSUME IInv PROVE TypeOK /\ NoEarlyCrossing
  OBVIOUS
<1>1. PICK r \in Nat : \A t \in Threads : InRound(t, r)
  BY DEF IInv
<1>2. NoEarlyCrossing
  BY <1>1 DEF NoEarlyCrossing, InRound
<1>3. crossing \in 0..(count - 1)
  <2>1. IsFiniteSet(waiting)
    BY BarrierAssumption, FS_Subset DEF IInv
  <2>2. crossing \in Nat /\ count \in Nat
    BY <2>1, BarrierAssumption, FS_CardinalityType DEF IInv, count
  <2>3. QED BY <2>2 DEF IInv
<1>4. QED BY <1>2, <1>3 DEF TypeOK, IInv

\* The invariant holds when the barrier has been initialised.
LEMMA Initial == barrier_init => IInv
<1> SUFFICES ASSUME barrier_init PROVE IInv
  OBVIOUS
<1>1. PICK t \in Threads : TRUE
  BY BarrierAssumption
<1>2. Cardinality({}) = 0 /\ 0 < count
  BY <1>1, LastIsMissing, FS_EmptySet
<1>3. \A u \in Threads : InRound(u, 0)
  BY DEF barrier_init, InRound
<1>4. QED BY <1>2, <1>3, BarrierAssumption DEF barrier_init, IInv

\* Every step keeps the invariant.
LEMMA Inductive == IInv /\ [Next]_vars => IInv'
<1> SUFFICES ASSUME IInv, [Next]_vars PROVE IInv'
  OBVIOUS
<1>r. PICK r \in Nat : \A t \in Threads : InRound(t, r)
  BY DEF IInv
<1>0. CASE UNCHANGED vars
  BY <1>0 DEF IInv, InRound, vars
<1>1. ASSUME NEW t \in Threads, Wait(t) PROVE IInv'
  <2>1. t \notin waiting /\ t \notin woken
    BY <1>1, <1>r DEF Wait, InRound, IInv
  <2>2. crossing' = Cardinality(waiting') /\ crossing' < count
    BY <1>1, <2>1, LastIsMissing DEF Wait, IInv
  <2>3. \A u \in Threads : InRound(u, r)'
    BY <1>1, <1>r, <2>1 DEF Wait, InRound, IInv
  <2>4. arrived' \in [Threads -> 0..MaxCrossings]
    BY <1>1, BarrierAssumption DEF Wait, IInv
  <2>5. /\ waiting' \subseteq Threads /\ woken' \subseteq Threads \ waiting'
        /\ left' \in [Threads -> 0..MaxCrossings]
    BY <1>1, <2>1 DEF Wait, IInv
  <2>6. QED BY <2>2, <2>3, <2>4, <2>5 DEF IInv, count
<1>2. ASSUME NEW t \in Threads, Complete(t) PROVE IInv'
  <2>1. t \notin waiting /\ t \notin woken
    BY <1>2, <1>r DEF Complete, InRound, IInv
  <2>2. waiting = Threads \ {t}
    BY <1>2, <2>1, LastIsMissing DEF Complete, IInv
  <2>3. woken = {}
    BY <2>1, <2>2 DEF IInv
  <2>4. crossing' = Cardinality(waiting') /\ crossing' < count
    BY <1>2, LastIsMissing, FS_EmptySet DEF Complete
  <2>5. \A u \in Threads : InRound(u, r + 1)'
    BY <1>2, <1>r, <2>2, <2>3 DEF Complete, InRound, IInv
  <2>6. /\ arrived' \in [Threads -> 0..MaxCrossings]
        /\ left' \in [Threads -> 0..MaxCrossings]
    BY <1>2, BarrierAssumption DEF Complete, IInv
  <2>7. waiting' \subseteq Threads /\ woken' \subseteq Threads \ waiting'
    BY <1>2, <2>3 DEF Complete, IInv
  <2>8. QED BY <2>4, <2>5, <2>6, <2>7 DEF IInv, count
<1>3. ASSUME NEW t \in Threads, Leave(t) PROVE IInv'
  <2>1. t \notin waiting
    BY <1>3 DEF Leave, IInv
  <2>2. left[t] + 1 = arrived[t]
    BY <1>3, <1>r, <2>1 DEF Leave, InRound, IInv
  <2>3. \A u \in Threads : InRound(u, r)'
    BY <1>3, <1>r DEF Leave, InRound, IInv
  <2>4. left' \in [Threads -> 0..MaxCrossings]
    BY <1>3, <2>2, BarrierAssumption DEF Leave, IInv
  <2>5. QED BY <1>3, <2>3, <2>4 DEF Leave, IInv, count
<1>4. QED BY <1>0, <1>1, <1>2, <1>3 DEF Next, barrier_cross

\* The counter of barrier.h stays below the number of threads, no thread is both asleep
\* and woken, and no thread crosses more often than it is asked to.
THEOREM BarrierTypes == Spec => []TypeOK
<1>1. QED BY Initial, Inductive, Implied, PTL DEF Spec

\* No thread gets past a crossing before all threads have reached it, however
\* often the barrier of barrier.h is crossed, if waits end only by a broadcast.
THEOREM BarrierHolds == Spec => [](TypeOK /\ NoEarlyCrossing)
<1>1. QED BY Initial, Inductive, Implied, PTL DEF Spec
=============================================================================
