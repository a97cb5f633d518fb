------------------------------- MODULE Stacks -------------------------------
(***************************************************************************)
(* The two stacks, StackTreiber (src/algorithms/stack_treiber.h) and       *)
(* StackLock (stack_lock.h): a list of nodes from top on.  A behaviour is  *)
(* one of the stack that kind names.                                       *)
(*                                                                         *)
(* The lock-free stack reads the top and replaces it with a CAS.  The CAS  *)
(* compares addresses only, so a remove is right only as long as the node  *)
(* it read cannot be removed, freed, allocated and added again meanwhile:  *)
(* that is for the allocator to prevent, which is part of the model.       *)
(*                                                                         *)
(* StackLock's constructor allocates the lock with the stack and does not  *)
(* initialise it: InitialLock is the word that the memory happened to      *)
(* hold.                                                                   *)
(***************************************************************************)
EXTENDS StackQueueHistory, LockIf

CONSTANTS
  Kinds,         \* which stacks to look at
  InitialLock

ASSUME StacksAssumption == Kinds \subseteq {"treiber", "lock"} /\ InitialLock \in Nat

VARIABLES
  kind,        \* the stack
  top, lock,   \* set->top, set->lock (of StackLock)
  item, next,  \* the fields of the nodes
  pc,
  node,        \* local variables of each thread: the node that add allocated,
  ltop,        \*   top,
  lnext        \*   the value read from top->next (in the lock-free remove)

shared == <<top, lock, item, next>>
locals == <<node, ltop, lnext>>
vars == <<kind, shared, locals, pc, mem, hist>>

PCs == {"idle", "add", "a_cas", "a_return", "remove", "r_next", "r_cas", "r_free",
        "a_next", "a_top", "a_unlock", "r_top", "r_empty", "r_take", "r_unlock"}

Init ==
  /\ kind  \in Kinds
  /\ top   = NULL
  /\ lock  = InitialLock
  /\ item  = [n \in Nodes |-> 0]
  /\ next  = [n \in Nodes |-> NULL]
  /\ pc    = [t \in Threads |-> "idle"]
  /\ node  = [t \in Threads |-> NULL]
  /\ ltop  = [t \in Threads |-> NULL]
  /\ lnext = [t \in Threads |-> NULL]
  /\ MemInit({})
  /\ HistInit

Goto(t, from, to) == pc[t] = from /\ pc' = [pc EXCEPT ![t] = to]

Return(t, r) ==
  /\ pc'    = [pc EXCEPT ![t] = "idle"]
  /\ node'  = [node EXCEPT ![t] = NULL]
  /\ ltop'  = [ltop EXCEPT ![t] = NULL]
  /\ lnext' = [lnext EXCEPT ![t] = NULL]
  /\ Returns(t, r)

\* Mutated: the fields of the new node are swapped.
AddAllocSwapped(t, x) ==
  /\ Goto(t, "idle", "add")
  /\ Begins(t, [op |-> "add", item |-> x])
  /\ \E n \in Available(t) :
       /\ ssmem_alloc(t, n)
       /\ node' = [node EXCEPT ![t] = n]
       /\ item' = [item EXCEPT ![n] = NULL]
       /\ next' = [next EXCEPT ![n] = x]
  /\ UNCHANGED <<top, lock, ltop, lnext>>

\* The call allocates its node first.
AddAlloc(t, x) ==
  /\ Goto(t, "idle", "add")
  /\ Begins(t, [op |-> "add", item |-> x])
  /\ \E n \in Available(t) :
       /\ ssmem_alloc(t, n)
       /\ node' = [node EXCEPT ![t] = n]
       /\ item' = [item EXCEPT ![n] = x]
       /\ next' = [next EXCEPT ![n] = NULL]
  /\ UNCHANGED <<top, lock, ltop, lnext>>

RemoveCall(t) ==
  /\ Goto(t, "idle", "remove")
  /\ Begins(t, [op |-> "remove", item |-> 0])
  /\ UNCHANGED <<shared, locals, mem>>

\* Mutated: releases the node behind the one it took.
RemoveFreeNext(t) ==
  /\ pc[t] = "r_free"
  /\ Return(t, item[ltop[t]])
  /\ ssmem_free(t, lnext[t])
  /\ UNCHANGED shared

\* Read the item, release the node, return.
RemoveFree(t) ==
  /\ pc[t] = "r_free"
  /\ Return(t, item[ltop[t]])
  /\ ssmem_free(t, ltop[t])
  /\ UNCHANGED shared

-----------------------------------------------------------------------------
(* StackTreiber                                                            *)

AddTop(t) ==
  /\ Goto(t, "add", "a_cas")
  /\ ltop' = [ltop EXCEPT ![t] = top]
  /\ next' = [next EXCEPT ![node[t]] = top]
  /\ UNCHANGED <<top, lock, item, node, lnext, mem, hist>>

\* Mutated: does not read the top again when the CAS fails.
AddCasStale(t) ==
  /\ pc[t] = "a_cas"
  /\ \/ /\ top = ltop[t]
        /\ top' = node[t]
        /\ pc'  = [pc EXCEPT ![t] = "a_return"]
        /\ Pushes(t)
     \/ /\ top # ltop[t]
        /\ UNCHANGED <<top, pc, hist>>
  /\ UNCHANGED <<lock, item, next, locals, mem>>

\* Mutated: a store instead of a CAS.
AddStore(t) ==
  /\ Goto(t, "a_cas", "a_return")
  /\ top' = node[t]
  /\ Pushes(t)
  /\ UNCHANGED <<lock, item, next, locals, mem>>

\* The CAS: the add takes effect, or starts over.
AddCas(t) ==
  /\ pc[t] = "a_cas"
  /\ \/ /\ top = ltop[t]
        /\ top' = node[t]
        /\ pc'  = [pc EXCEPT ![t] = "a_return"]
        /\ Pushes(t)
     \/ /\ top # ltop[t]
        /\ pc'  = [pc EXCEPT ![t] = "add"]
        /\ UNCHANGED <<top, hist>>
  /\ UNCHANGED <<lock, item, next, locals, mem>>

AddReturn(t) ==
  /\ pc[t] = "a_return"
  /\ Return(t, 1)
  /\ UNCHANGED <<shared, mem>>

RemoveTop(t) ==
  /\ pc[t] = "remove"
  /\ \/ /\ top = NULL
        /\ Return(t, 0)
     \/ /\ top # NULL
        /\ ltop' = [ltop EXCEPT ![t] = top]
        /\ pc'   = [pc EXCEPT ![t] = "r_next"]
        /\ UNCHANGED <<node, lnext, hist>>
  /\ UNCHANGED <<shared, mem>>

RemoveNext(t) ==
  /\ Goto(t, "r_next", "r_cas")
  /\ lnext' = [lnext EXCEPT ![t] = next[ltop[t]]]
  /\ UNCHANGED <<shared, node, ltop, mem, hist>>

RemoveCas(t) ==
  /\ pc[t] = "r_cas"
  /\ \/ /\ top = ltop[t]
        /\ top' = lnext[t]
        /\ pc'  = [pc EXCEPT ![t] = "r_free"]
        /\ Takes(t, item[ltop[t]])
     \/ /\ top # ltop[t]
        /\ pc'  = [pc EXCEPT ![t] = "remove"]
        /\ UNCHANGED <<top, hist>>
  /\ UNCHANGED <<lock, item, next, locals, mem>>

-----------------------------------------------------------------------------
(* StackLock                                                               *)

\* LOCK_A(&set->lock)
Lock(t, from, to) ==
  /\ Goto(t, from, to)
  /\ tas_lock_passes(lock)
  /\ lock' = tas_locked(lock)
  /\ UNCHANGED <<top, item, next, locals, mem, hist>>

\* Mutated: reads the top before it has the lock.
AddLockLate(t) ==
  /\ pc[t] = "add"
  /\ \/ /\ next[node[t]] # top
        /\ next' = [next EXCEPT ![node[t]] = top]
        /\ UNCHANGED <<lock, pc>>
     \/ /\ tas_lock_passes(lock)
        /\ lock' = tas_locked(lock)
        /\ pc'   = [pc EXCEPT ![t] = "a_top"]
        /\ UNCHANGED next
  /\ UNCHANGED <<top, item, locals, mem, hist>>

AddLock(t) == Lock(t, "add", "a_next")

AddNextLocked(t) ==
  /\ Goto(t, "a_next", "a_top")
  /\ next' = [next EXCEPT ![node[t]] = top]
  /\ UNCHANGED <<top, lock, item, locals, mem, hist>>

AddTopLocked(t) ==
  /\ Goto(t, "a_top", "a_unlock")
  /\ top' = node[t]
  /\ Pushes(t)
  /\ UNCHANGED <<lock, item, next, locals, mem>>

AddUnlock(t) ==
  /\ pc[t] = "a_unlock"
  /\ lock' = TAS_FREE
  /\ Return(t, 1)
  /\ UNCHANGED <<top, item, next, mem>>

RemoveLock(t) == Lock(t, "remove", "r_top")

RemoveTopLocked(t) ==
  /\ Goto(t, "r_top", IF top = NULL THEN "r_empty" ELSE "r_take")
  /\ ltop' = [ltop EXCEPT ![t] = top]
  /\ UNCHANGED <<shared, node, lnext, mem, hist>>

RemoveEmptyLocked(t) ==
  /\ pc[t] = "r_empty"
  /\ lock' = TAS_FREE
  /\ Return(t, 0)
  /\ UNCHANGED <<top, item, next, mem>>

RemoveTakeLocked(t) ==
  /\ Goto(t, "r_take", "r_unlock")
  /\ top' = next[ltop[t]]
  /\ Takes(t, item[ltop[t]])
  /\ UNCHANGED <<lock, item, next, locals, mem>>

RemoveUnlock(t) ==
  /\ Goto(t, "r_unlock", "r_free")
  /\ lock' = TAS_FREE
  /\ UNCHANGED <<top, item, next, locals, mem, hist>>

-----------------------------------------------------------------------------

add(t) == AddTop(t) \/ AddCas(t) \/ AddReturn(t)

remove(t) == RemoveTop(t) \/ RemoveNext(t) \/ RemoveCas(t) \/ RemoveFree(t)

add_locked(t) == AddLock(t) \/ AddNextLocked(t) \/ AddTopLocked(t) \/ AddUnlock(t)

remove_locked(t) ==
  RemoveLock(t) \/ RemoveTopLocked(t) \/ RemoveEmptyLocked(t) \/ RemoveTakeLocked(t)
    \/ RemoveUnlock(t) \/ RemoveFree(t)

StackTreiber(t) == kind = "treiber" /\ (add(t) \/ remove(t)) /\ UNCHANGED kind
StackLock(t)    == kind = "lock" /\ (add_locked(t) \/ remove_locked(t)) /\ UNCHANGED kind

Calling(t) == (RemoveCall(t) \/ \E x \in Items : AddAlloc(t, x)) /\ UNCHANGED kind

Next == \E t \in Threads : StackTreiber(t) \/ StackLock(t) \/ Calling(t)

Spec == Init /\ [][Next]_vars

\* In the lock-free stack one thread keeps running inside its operations; the others
\* may stop anywhere.
Runner   == CHOOSE t \in Threads : TRUE
FairSpec == Spec /\ WF_vars(StackTreiber(Runner))

\* The nodes from the top on, in order; count() is their number.
Chain ==
  LET from[d \in 0..NumNodes] ==
        IF d = 0 THEN <<>>
        ELSE LET c == from[d - 1]
                 n == IF c = <<>> THEN top ELSE next[c[Len(c)]]
             IN  IF n = NULL THEN c ELSE Append(c, n)
  IN  from[NumNodes]

count == Len(Chain)

-----------------------------------------------------------------------------

TypeOK ==
  /\ kind  \in Kinds
  /\ top   \in Nodes \cup {NULL}
  /\ lock  \in {InitialLock, TAS_FREE, TAS_LCKD}
  /\ item  \in [Nodes -> Items \cup {0}]
  /\ next  \in [Nodes -> Nodes \cup {NULL}]
  /\ pc    \in [Threads -> PCs]
  /\ node  \in [Threads -> Nodes \cup {NULL}]
  /\ ltop  \in [Threads -> Nodes \cup {NULL}]
  /\ lnext \in [Threads -> Nodes \cup {NULL}]
  /\ MemTypeOK
  /\ HistTypeOK

\* The chain of nodes from the top holds the items of the abstract stack, and all
\* of it is allocated memory: no node is on the chain twice, freed, or cut off.
ChainIsContent ==
  /\ \A k \in 1..count : Chain[k] \in live
  /\ content = [k \in 1..count |-> item[Chain[k]]]

\* Memory is given out again only when no thread still works with the node: a
\* remove that read the top before the node was freed cannot mistake the node for
\* the one it knew.
NoReuseUnderReference ==
  [][\A n \in live' \ live : \A t \in Threads : n \notin {ltop[t], lnext[t]}]_vars

\* Between calls, count() is the number of successful adds minus the number of
\* successful removes (the size check at the end of test_stackqueue.cc).
CountMatchesReturns == (\A t \in Threads : pc[t] = "idle") => count = pr

\* Every call returns what an atomic stack could have returned.
Linearizable == Stack!Spec

\* The Treiber stack is lock-free: a thread that keeps running finishes its calls, or
\* other calls return again and again, wherever the other threads have stopped.
LockFree ==
  kind = "treiber" =>
    \/ []<>(pc[Runner] = "idle")
    \/ []<><<\E t \in Threads : call[t] # NoCall /\ call'[t] = NoCall>>_vars
=============================================================================
