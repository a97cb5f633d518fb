------------------------------- MODULE Ssmem -------------------------------
(***************************************************************************)
(* The memory the stacks and queues allocate their nodes from (ssmem,      *)
(* external/include/ssmem.h; the implementation is a compiled archive).    *)
(* Each thread has a time stamp that grows with each of its calls of       *)
(* ssmem_free (SSMEM_TS_INCR_ON_FREE).  Memory that a thread frees is      *)
(* given to that thread again once the stamps of all other threads have    *)
(* grown: what matters of the stamps is which threads have not called      *)
(* ssmem_free since, waits.  (The archive stamps whole sets of freed       *)
(* objects, later than this, which only delays their reuse.)               *)
(***************************************************************************)
LOCAL INSTANCE Integers

CONSTANTS
  Threads,
  NumNodes    \* how many nodes the memory has room for

ASSUME NumNodesAssumption == NumNodes \in Nat \ {0}

VARIABLES
  live,    \* the allocated nodes
  freer,   \* the thread that freed a node, or NoThread
  waits    \* the threads that have not called ssmem_free since

mem == <<live, freer, waits>>

NULL     == 0
Nodes    == 1..NumNodes
NoThread == "none"

ASSUME ThreadsAssumption == NoThread \notin Threads

\* The constructors allocate the nodes of S (with aligned_alloc).
MemInit(S) ==
  /\ live  = S
  /\ freer = [n \in Nodes |-> NoThread]
  /\ waits = [n \in Nodes |-> {}]

\* Memory never used before, taken in order, or reclaimed memory of t itself.
Available(t) ==
  LET fresh == {n \in Nodes \ live : freer[n] = NoThread}
  IN  {n \in fresh : \A m \in fresh : n <= m}
        \cup {n \in Nodes \ live : freer[n] = t /\ waits[n] = {}}

ssmem_alloc(t, n) ==
  /\ n \in Available(t)
  /\ live'  = live \cup {n}
  /\ freer' = [freer EXCEPT ![n] = NoThread]
  /\ UNCHANGED waits

ssmem_free(t, n) ==
  /\ live'  = live \ {n}
  /\ freer' = [freer EXCEPT ![n] = t]
  /\ waits' = [m \in Nodes |-> IF m = n THEN Threads \ {t} ELSE waits[m] \ {t}]

MemTypeOK ==
  /\ live \subseteq Nodes
  /\ freer \in [Nodes -> Threads \cup {NoThread}]
  /\ waits \in [Nodes -> SUBSET Threads]
=============================================================================
