------------------------------ MODULE QueueMS ------------------------------
(***************************************************************************)
(* The three queues of Michael and Scott: QueueMSLF (lock-free,            *)
(* src/algorithms/queue_ms_lf.h), QueueMSLB (two locks, queue_ms_lb.h) and *)
(* QueueMSHybrid (locked add and lock-free remove, queue_ms_hybrid.h).     *)
(* All keep a list of nodes whose first is a dummy; head points to the     *)
(* dummy, tail to the last node or, in the middle of an add, to the one    *)
(* before it.  A behaviour is one of the queue that kind names.            *)
(*                                                                         *)
(* head, tail and next are plain fields that several threads read and      *)
(* write, so the compiler may leave out the second read of head in remove, *)
(* or of tail in add, and may read head->next before tail: at -O3 it does. *)
(* Reordered selects that order, otherwise the reads are as written.       *)
(***************************************************************************)
EXTENDS StackQueueHistory, LockIf

CONSTANTS
  Kinds,       \* which queues to look at
  Reordered

ASSUME QueueMSAssumption == Kinds \subseteq {"lf", "lb", "hybrid"} /\ Reordered \in BOOLEAN

VARIABLES
  kind,                    \* the queue
  head, tail,              \* set->head, set->tail
  head_lock, tail_lock,
  item, next,              \* the fields of the nodes
  pc,
  node,                    \* local variables of each thread: the node of an add,
  lhead, ltail, lnext,     \*   head, tail, and next (head_new in the locked remove),
  val                      \*   the result of the locked remove

ends   == <<head, tail>>
locks  == <<head_lock, tail_lock>>
fields == <<item, next>>
locals == <<node, lhead, ltail, lnext, val>>
vars == <<kind, ends, locks, fields, pc, locals, mem, hist>>

PCs == {"idle", "add", "a_next", "a_check", "a_act", "a_swing", "a_link", "a_tail", "a_unlock",
        "remove", "r_tail", "r_next", "r_check", "r_act", "r_free",
        "r_head", "r_empty", "r_take", "r_unlock", "r_release", "crash"}

Init ==
  /\ kind \in Kinds
  /\ head = 1 /\ tail = 1
  /\ head_lock = TAS_FREE /\ tail_lock = TAS_FREE
  /\ item  = [n \in Nodes |-> 0]
  /\ next  = [n \in Nodes |-> NULL]
  /\ pc    = [t \in Threads |-> "idle"]
  /\ node  = [t \in Threads |-> NULL]
  /\ lhead = [t \in Threads |-> NULL]
  /\ ltail = [t \in Threads |-> NULL]
  /\ lnext = [t \in Threads |-> NULL]
  /\ val   = [t \in Threads |-> 0]
  /\ MemInit({1})
  /\ HistInit

Goto(t, from, to) == pc[t] = from /\ pc' = [pc EXCEPT ![t] = to]

\* The local variables are assigned again before they are read.
Forget(t) ==
  /\ lhead' = [lhead EXCEPT ![t] = NULL]
  /\ ltail' = [ltail EXCEPT ![t] = NULL]
  /\ lnext' = [lnext EXCEPT ![t] = NULL]
  /\ val'   = [val EXCEPT ![t] = 0]

\* The next turn of the loop.
Again(t) == pc' = [pc EXCEPT ![t] = call[t].op] /\ Forget(t) /\ UNCHANGED node

Return(t, r) ==
  /\ pc'   = [pc EXCEPT ![t] = "idle"]
  /\ node' = [node EXCEPT ![t] = NULL]
  /\ Forget(t)
  /\ Returns(t, r)

\* Mutated: the fields of the new node are swapped.
AddAllocSwapped(t, x) ==
  /\ Goto(t, "idle", "add")
  /\ Begins(t, [op |-> "add", item |-> x])
  /\ \E n \in Available(t) :
       /\ ssmem_alloc(t, n)
       /\ node' = [node EXCEPT ![t] = n]
       /\ item' = [item EXCEPT ![n] = NULL]
       /\ next' = [next EXCEPT ![n] = x]
  /\ UNCHANGED <<ends, locks, lhead, ltail, lnext, val>>

\* The call of an add allocates its node first.
AddAlloc(t, x) ==
  /\ Goto(t, "idle", "add")
  /\ Begins(t, [op |-> "add", item |-> x])
  /\ \E n \in Available(t) :
       /\ ssmem_alloc(t, n)
       /\ node' = [node EXCEPT ![t] = n]
       /\ item' = [item EXCEPT ![n] = x]
       /\ next' = [next EXCEPT ![n] = NULL]
  /\ UNCHANGED <<ends, locks, lhead, ltail, lnext, val>>

RemoveCall(t) ==
  /\ Goto(t, "idle", "remove")
  /\ Begins(t, [op |-> "remove", item |-> 0])
  /\ UNCHANGED <<ends, locks, fields, locals, mem>>

-----------------------------------------------------------------------------
(* The lock-free add.                                                      *)

AddTail(t) ==
  /\ Goto(t, "add", "a_next")
  /\ ltail' = [ltail EXCEPT ![t] = tail]
  /\ UNCHANGED <<ends, locks, fields, node, lhead, lnext, val, mem, hist>>

\* set->tail->next, with the tail that was read or with the present one.  The second
\* read of tail and that of next are one step: if tail moves in between, the check
\* fails.
AddNext(t) ==
  /\ Goto(t, "a_next", IF Reordered THEN "a_act" ELSE "a_check")
  /\ lnext' = [lnext EXCEPT ![t] = next[IF Reordered THEN ltail[t] ELSE tail]]
  /\ UNCHANGED <<ends, locks, fields, node, lhead, ltail, val, mem, hist>>

AddCheck(t) ==
  /\ \/ tail = ltail[t] /\ Goto(t, "a_check", "a_act") /\ UNCHANGED locals
     \/ tail # ltail[t] /\ pc[t] = "a_check" /\ Again(t)
  /\ UNCHANGED <<ends, locks, fields, mem, hist>>

\* The tail is the last node: link behind it, or start over.
AddLink(t) ==
  /\ pc[t] = "a_act" /\ lnext[t] = NULL
  /\ \/ /\ next[ltail[t]] = NULL
        /\ next' = [next EXCEPT ![ltail[t]] = node[t]]
        /\ pc'   = [pc EXCEPT ![t] = "a_swing"]
        /\ Enqueues(t)
        /\ UNCHANGED locals
     \/ /\ next[ltail[t]] # NULL
        /\ Again(t)
        /\ UNCHANGED <<next, hist>>
  /\ UNCHANGED <<ends, locks, item, mem>>

\* Another add is half done: move the tail for it, and start over.
AddHelp(t) ==
  /\ pc[t] = "a_act" /\ lnext[t] # NULL
  /\ Again(t)
  /\ tail' = IF tail = ltail[t] THEN lnext[t] ELSE tail
  /\ UNCHANGED <<head, locks, fields, mem, hist>>

AddSwing(t) ==
  /\ pc[t] = "a_swing"
  /\ tail' = IF tail = ltail[t] THEN node[t] ELSE tail
  /\ Return(t, 1)
  /\ UNCHANGED <<head, locks, fields, mem>>

-----------------------------------------------------------------------------
(* The locked add.                                                         *)

\* Mutated: waits for the wrong lock.
AddLockHead(t) ==
  /\ Goto(t, "add", "a_link")
  /\ tas_lock_passes(head_lock)
  /\ tail_lock' = tas_locked(tail_lock)
  /\ UNCHANGED <<ends, head_lock, fields, locals, mem, hist>>

AddLock(t) ==
  /\ Goto(t, "add", "a_link")
  /\ tas_lock_passes(tail_lock)
  /\ tail_lock' = tas_locked(tail_lock)
  /\ UNCHANGED <<ends, head_lock, fields, locals, mem, hist>>

\* set->tail->next = node: removes can see it.
AddLinkLocked(t) ==
  /\ Goto(t, "a_link", "a_tail")
  /\ next' = [next EXCEPT ![tail] = node[t]]
  /\ Enqueues(t)
  /\ UNCHANGED <<ends, locks, item, locals, mem>>

AddSetTail(t) ==
  /\ Goto(t, "a_tail", "a_unlock")
  /\ tail' = node[t]
  /\ UNCHANGED <<head, locks, fields, locals, mem, hist>>

AddUnlock(t) ==
  /\ pc[t] = "a_unlock"
  /\ tail_lock' = TAS_FREE
  /\ Return(t, 1)
  /\ UNCHANGED <<ends, head_lock, fields, mem>>

-----------------------------------------------------------------------------
(* The lock-free remove.                                                   *)

RemoveHead(t) ==
  /\ Goto(t, "remove", IF Reordered THEN "r_next" ELSE "r_tail")
  /\ lhead' = [lhead EXCEPT ![t] = head]
  /\ UNCHANGED <<ends, locks, fields, node, ltail, lnext, val, mem, hist>>

RemoveTail(t) ==
  /\ Goto(t, "r_tail", IF Reordered THEN "r_act" ELSE "r_next")
  /\ ltail' = [ltail EXCEPT ![t] = tail]
  /\ UNCHANGED <<ends, locks, fields, node, lhead, lnext, val, mem, hist>>

RemoveNext(t) ==
  /\ Goto(t, "r_next", IF Reordered THEN "r_tail" ELSE "r_check")
  /\ lnext' = [lnext EXCEPT ![t] = next[lhead[t]]]
  /\ UNCHANGED <<ends, locks, fields, node, lhead, ltail, val, mem, hist>>

RemoveCheck(t) ==
  /\ \/ head = lhead[t] /\ Goto(t, "r_check", "r_act") /\ UNCHANGED locals
     \/ head # lhead[t] /\ pc[t] = "r_check" /\ Again(t)
  /\ UNCHANGED <<ends, locks, fields, mem, hist>>

RemoveEmpty(t) ==
  /\ pc[t] = "r_act" /\ lhead[t] = ltail[t] /\ lnext[t] = NULL
  /\ Return(t, 0)
  /\ UNCHANGED <<ends, locks, fields, mem>>

\* Mutated: does not help the add, but waits for it.
RemoveNoHelp(t) ==
  /\ pc[t] = "r_act" /\ lhead[t] = ltail[t] /\ lnext[t] # NULL
  /\ Again(t)
  /\ UNCHANGED <<ends, locks, fields, mem, hist>>

\* An add is half done: move the tail for it, and start over.
RemoveHelp(t) ==
  /\ pc[t] = "r_act" /\ lhead[t] = ltail[t] /\ lnext[t] # NULL
  /\ Again(t)
  /\ tail' = IF tail = ltail[t] THEN lnext[t] ELSE tail
  /\ UNCHANGED <<head, locks, fields, mem, hist>>

\* Mutated: does not look whether the tail has fallen behind.
RemoveTakeAlways(t) ==
  /\ pc[t] = "r_act" /\ lnext[t] # NULL
  /\ \/ /\ head = lhead[t]
        /\ head' = lnext[t]
        /\ pc'   = [pc EXCEPT ![t] = "r_free"]
        /\ Takes(t, item[lnext[t]])
        /\ UNCHANGED locals
     \/ /\ head # lhead[t]
        /\ Again(t)
        /\ UNCHANGED <<head, hist>>
  /\ UNCHANGED <<tail, locks, fields, mem>>

\* Mutated: a store instead of a CAS.
RemoveTakeStore(t) ==
  /\ Goto(t, "r_act", "r_free")
  /\ lhead[t] # ltail[t]
  /\ head' = lnext[t]
  /\ Takes(t, item[lnext[t]])
  /\ UNCHANGED <<tail, locks, fields, locals, mem>>

\* Move the head: the next node becomes the dummy, its item is the result.  If
\* there is no next node, the program ends when it reads next->item.
RemoveTake(t) ==
  /\ pc[t] = "r_act" /\ lhead[t] # ltail[t]
  /\ \/ /\ head = lhead[t]
        /\ head' = lnext[t]
        /\ IF lnext[t] # NULL
             THEN Takes(t, item[lnext[t]]) /\ pc' = [pc EXCEPT ![t] = "r_free"]
             ELSE pc' = [u \in Threads |-> "crash"] /\ UNCHANGED hist
        /\ UNCHANGED locals
     \/ /\ head # lhead[t]
        /\ Again(t)
        /\ UNCHANGED <<head, hist>>
  /\ UNCHANGED <<tail, locks, fields, mem>>

\* Mutated: releases the node of the item, which has become the dummy.
RemoveFreeNext(t) ==
  /\ pc[t] = "r_free"
  /\ ssmem_free(t, lnext[t])
  /\ Return(t, item[lnext[t]])
  /\ UNCHANGED <<ends, locks, fields>>

\* Read the item, release the old dummy.
RemoveFree(t) ==
  /\ pc[t] = "r_free"
  /\ ssmem_free(t, lhead[t])
  /\ Return(t, item[lnext[t]])
  /\ UNCHANGED <<ends, locks, fields>>

-----------------------------------------------------------------------------
(* The locked remove.                                                      *)

RemoveLock(t) ==
  /\ Goto(t, "remove", "r_head")
  /\ tas_lock_passes(head_lock)
  /\ head_lock' = tas_locked(head_lock)
  /\ UNCHANGED <<ends, tail_lock, fields, locals, mem, hist>>

\* head is written only under the lock: what matters is when next is read.
RemoveHeadLocked(t) ==
  /\ Goto(t, "r_head", IF next[head] = NULL THEN "r_empty" ELSE "r_take")
  /\ lhead' = [lhead EXCEPT ![t] = head]
  /\ lnext' = [lnext EXCEPT ![t] = next[head]]
  /\ UNCHANGED <<ends, locks, fields, node, ltail, val, mem, hist>>

RemoveUnlockEmpty(t) ==
  /\ pc[t] = "r_empty"
  /\ head_lock' = TAS_FREE
  /\ Return(t, 0)
  /\ UNCHANGED <<ends, tail_lock, fields, mem>>

RemoveTakeLocked(t) ==
  /\ Goto(t, "r_take", "r_unlock")
  /\ val'  = [val EXCEPT ![t] = item[lnext[t]]]
  /\ head' = lnext[t]
  /\ Takes(t, item[lnext[t]])
  /\ UNCHANGED <<tail, locks, fields, node, lhead, ltail, lnext, mem>>

RemoveUnlock(t) ==
  /\ Goto(t, "r_unlock", "r_release")
  /\ head_lock' = TAS_FREE
  /\ UNCHANGED <<ends, tail_lock, fields, locals, mem, hist>>

RemoveRelease(t) ==
  /\ pc[t] = "r_release"
  /\ ssmem_free(t, lhead[t])
  /\ Return(t, val[t])
  /\ UNCHANGED <<ends, locks, fields>>

-----------------------------------------------------------------------------

add_lf(t) ==
  AddTail(t) \/ AddNext(t) \/ AddCheck(t) \/ AddLink(t) \/ AddHelp(t) \/ AddSwing(t)

add_lb(t) == AddLock(t) \/ AddLinkLocked(t) \/ AddSetTail(t) \/ AddUnlock(t)

remove_lf(t) ==
  RemoveHead(t) \/ RemoveTail(t) \/ RemoveNext(t) \/ RemoveCheck(t)
    \/ RemoveEmpty(t) \/ RemoveHelp(t) \/ RemoveTake(t) \/ RemoveFree(t)

remove_lb(t) ==
  RemoveLock(t) \/ RemoveHeadLocked(t) \/ RemoveUnlockEmpty(t) \/ RemoveTakeLocked(t)
    \/ RemoveUnlock(t) \/ RemoveRelease(t)

Calling(t) == RemoveCall(t) \/ \E x \in Items : AddAlloc(t, x)

QueueMSLF(t)     == kind = "lf" /\ (add_lf(t) \/ remove_lf(t))
QueueMSLB(t)     == kind = "lb" /\ (add_lb(t) \/ remove_lb(t))
QueueMSHybrid(t) == kind = "hybrid" /\ (add_lb(t) \/ remove_lf(t))

Next ==
  /\ \E t \in Threads : QueueMSLF(t) \/ QueueMSLB(t) \/ QueueMSHybrid(t) \/ Calling(t)
  /\ UNCHANGED kind

Spec == Init /\ [][Next]_vars

\* Who keeps running.  In the lock-free queue one thread does, and the others may
\* stop anywhere.  In the queue with two locks the threads in add do, in the hybrid
\* queue those in remove.
Runner == CHOOSE t \in Threads : TRUE

FairSpec ==
  /\ Spec
  /\ WF_vars(QueueMSLF(Runner) /\ UNCHANGED kind)
  /\ \A t \in Threads :
       /\ WF_vars(kind = "lb" /\ add_lb(t) /\ UNCHANGED kind)
       /\ WF_vars(kind = "hybrid" /\ remove_lf(t) /\ UNCHANGED kind)

\* The nodes behind the dummy, in order; count() is their number.
Chain ==
  LET from[d \in 0..NumNodes] ==
        IF d = 0 THEN <<>>
        ELSE LET c == from[d - 1]
                 n == IF c = <<>> THEN (IF head = NULL THEN NULL ELSE next[head])
                                  ELSE next[c[Len(c)]]
             IN  IF n = NULL THEN c ELSE Append(c, n)
  IN  from[NumNodes]

count == Len(Chain)

-----------------------------------------------------------------------------

TypeOK ==
  /\ kind \in Kinds
  /\ {head, tail} \subseteq Nodes
  /\ {head_lock, tail_lock} \subseteq {TAS_FREE, TAS_LCKD}
  /\ item  \in [Nodes -> Items \cup {0}]
  /\ next  \in [Nodes -> Nodes \cup {NULL}]
  /\ pc    \in [Threads -> PCs]
  /\ node  \in [Threads -> Nodes \cup {NULL}]
  /\ lhead \in [Threads -> Nodes \cup {NULL}]
  /\ ltail \in [Threads -> Nodes \cup {NULL}]
  /\ lnext \in [Threads -> Nodes \cup {NULL}]
  /\ val   \in [Threads -> Items \cup {0}]
  /\ MemTypeOK
  /\ HistTypeOK

\* The list behind the dummy holds the items of the abstract queue, and all of it
\* is allocated memory: no item is lost, added twice, or removed by two threads.
ChainIsContent ==
  /\ \A k \in 1..count : Chain[k] \in live
  /\ content = [k \in 1..count |-> item[Chain[k]]]

\* The tail is never behind the head, so an add never links behind a node that was
\* removed.  Only in the queue with two locks the head overtakes the tail, by the node
\* of an add that is about to set the tail and holds the lock all adds need.
TailNotBehindHead ==
  \/ tail = head
  \/ \E k \in 1..count : tail = Chain[k]
  \/ kind = "lb" /\ \E t \in Threads : pc[t] = "a_tail" /\ node[t] = head

\* Memory is given out again only when no thread still works with the node.
NoReuseUnderReference ==
  [][\A n \in live' \ live : \A t \in Threads : n \notin {lhead[t], ltail[t], lnext[t]}]_vars

\* Every call returns what an atomic queue could have returned.
Linearizable == Queue!Spec

\* Calls of the operations in ops return again and again, or none is left.
GoesOn(ops) ==
  \/ []<>(\A t \in Threads : call[t].op \notin ops)
  \/ []<><<\E t \in Threads : call[t].op \in ops /\ call'[t] = NoCall>>_vars

\* A stopped thread does not hold the others up where the queue promises that.  In
\* the lock-free queue a thread that keeps running finishes its calls or others
\* finish theirs, wherever the rest has stopped; with two locks adds go on although a
\* thread has stopped in remove with its lock; in the hybrid queue removes go on
\* although a thread has stopped in add with the lock.
StoppedThreadsDoNotBlock ==
  /\ kind = "lf" => []<>(pc[Runner] = "idle") \/ GoesOn({"add", "remove"})
  /\ kind = "lb" => GoesOn({"add"})
  /\ kind = "hybrid" => GoesOn({"remove"})
=============================================================================
