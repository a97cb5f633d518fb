---------------------------- MODULE StacksProofs ----------------------------
(***************************************************************************)
(* Proofs about Stacks, for every set of threads and items and every       *)
(* number of nodes: the chain of nodes is the abstract stack, memory is    *)
(* not given out again while a thread still works with it, and both stacks *)
(* implement the atomic stack of StackQueueSpec.  The stack with a lock    *)
(* needs for that what its constructor forgets, a lock that is free at     *)
(* first.                                                                  *)
(***************************************************************************)
EXTENDS Stacks, FiniteSetTheorems, WellFoundedInduction, TLAPS

\* The lock is free at first, if there is one.
LockInitialised == "lock" \in Kinds => InitialLock = TAS_FREE

-----------------------------------------------------------------------------
(* The inductive invariant.  s is the sequence of nodes from the top on,   *)
(* which the proofs carry along: an add puts its node before it, a remove  *)
(* takes its first node away.                                              *)

\* Where a thread is: its new node is not on the chain yet, its add has had its effect,
\* its remove has not, its remove has and the node is not freed yet, it has the lock.
Preparing == {"add", "a_cas", "a_next", "a_top"}
Added     == {"a_return", "a_unlock"}
Seeking   == {"remove", "r_next", "r_cas", "r_top", "r_empty", "r_take"}
Disposing == {"r_unlock", "r_free"}
Holding   == {"a_next", "a_top", "a_unlock", "r_top", "r_empty", "r_take", "r_unlock"}

\* The types, and what makes their proof go through: which call a thread is in, and
\* that the pointers it follows are not NULL.
Types ==
  /\ TypeOK
  /\ \A t \in Threads :
       /\ pc[t] = "idle" => call[t] = NoCall
       /\ pc[t] \in Preparing \cup Added => call[t].op = "add" /\ call[t].item \in Items
       /\ pc[t] \in Seeking \cup Disposing => call[t].op = "remove"
       /\ pc[t] \in Preparing => node[t] \in Nodes
       /\ pc[t] \in {"r_next", "r_cas", "r_take"} \cup Disposing => ltop[t] \in Nodes

\* s is what one gets to from the top on, without repetitions, and is allocated.
Linked(s) ==
  /\ s \in Seq(Nodes)
  /\ \A k \in 1..Len(s) : s[k] \in live
  /\ \A j, k \in 1..Len(s) : s[j] = s[k] => j = k
  /\ top = IF Len(s) = 0 THEN NULL ELSE s[1]
  /\ \A k \in 1..Len(s) : next[s[k]] = IF k = Len(s) THEN NULL ELSE s[k + 1]

\* It holds the items of the abstract stack.
Filled(s) ==
  /\ Len(content) = Len(s)
  /\ \A k \in 1..Len(s) : content[k] = item[s[k]]

\* The node that only thread t works on: the one it will add or free.
Mine(t) ==
  IF pc[t] \in Preparing THEN node[t] ELSE IF pc[t] \in Disposing THEN ltop[t] ELSE NULL

\* It is allocated, not on the chain, and nobody else's.
Owned(s) ==
  \A t \in Threads :
    pc[t] \in Preparing \cup Disposing =>
      /\ Mine(t) \in live
      /\ \A k \in 1..Len(s) : s[k] # Mine(t)
      /\ \A u \in Threads : Mine(u) = Mine(t) => u = t

\* Node n is not given out again before t frees a node.
Guarded(t, n) == n = NULL \/ n \in live \/ (freer[n] # NoThread /\ t \in waits[n])

\* Whatever a thread has read is guarded for it, and so is what a remove will read next;
\* the node a remove has read as the top keeps its successor.
Referenced ==
  \A t \in Threads :
    /\ Guarded(t, ltop[t]) /\ Guarded(t, lnext[t])
    /\ pc[t] \in {"r_next", "r_cas"} =>
         /\ Guarded(t, next[ltop[t]])
         /\ \A u \in Threads : pc[u] \in Preparing => node[u] # ltop[t]
    /\ pc[t] = "r_cas" => lnext[t] = next[ltop[t]]

\* What the history variables say about a thread.
Recorded ==
  /\ content = <<>> => \A t \in Threads : call[t] # NoCall => drained[t]
  /\ \A t \in Threads :
       /\ pc[t] \in {"idle"} \cup Preparing \cup Seeking => lin[t] = Stack!Pending
       /\ pc[t] \in Preparing => item[node[t]] = call[t].item
       /\ pc[t] \in Added => lin[t] = 1
       /\ pc[t] \in Disposing => lin[t] = item[ltop[t]] /\ lin[t] \in Items

\* What a thread knows about the top: by its CAS, or because it has the lock.
Prepared ==
  \A t \in Threads :
    /\ pc[t] = "a_cas" => next[node[t]] = ltop[t]
    /\ pc[t] = "a_top" => next[node[t]] = top
    /\ pc[t] = "r_take" => ltop[t] = top
    /\ pc[t] = "r_empty" => drained[t]

\* The lock of StackLock excludes; StackTreiber has none.
Locked ==
  /\ kind = "treiber" => \A t \in Threads : pc[t] \notin Holding
  /\ kind = "lock" =>
       /\ lock \in {TAS_FREE, TAS_LCKD}
       /\ \A t \in Threads :
            /\ pc[t] \notin {"a_cas", "a_return", "r_next", "r_cas"}
            /\ pc[t] \in Holding =>
                 lock = TAS_LCKD /\ \A u \in Threads : pc[u] \in Holding => u = t

Inv(s) ==
  /\ Types
  /\ Linked(s)
  /\ Filled(s)
  /\ Owned(s)
  /\ Referenced
  /\ Recorded
  /\ Prepared
  /\ Locked

-----------------------------------------------------------------------------
(* The history variables and the memory.                                   *)

LEMMA Constants ==
  /\ NumNodes \in Nat /\ NULL \notin Nodes /\ Nodes \subseteq Nat
  /\ 0 \notin Items /\ Items \subseteq Nat
  /\ NoThread \notin Threads
  /\ Stack!Pending = -1 /\ Queue!Pending = -1
BY NumNodesAssumption, ItemsAssumption, ThreadsAssumption
   DEF NULL, Nodes, Stack!Pending, Queue!Pending

\* No call is not a call, and the calls are what their operation says.
LEMMA CallsAre ==
  /\ NoCall.op = "none"
  /\ \A x \in Items : [op |-> "add", item |-> x] \in Calls
  /\ [op |-> "remove", item |-> 0] \in Calls
  /\ \A c \in Calls \cup {NoCall} :
       c # NoCall => c.op \in {"add", "remove"} /\ (c.op = "add" => c.item \in Items)
  /\ Stack!NoCall = NoCall /\ Queue!NoCall = NoCall
BY DEF NoCall, Calls, Queue!NoCall, Queue!Calls, Stack!NoCall

LEMMA BeginsIs ==
  ASSUME NEW t, NEW c, Begins(t, c)
  PROVE  /\ call[t] = NoCall
         /\ call' = [call EXCEPT ![t] = c]
         /\ drained' = [drained EXCEPT ![t] = (content = <<>>)]
         /\ ret' = 0
         /\ content' = content /\ lin' = lin /\ pr' = pr
BY DEF Begins, Queue!Invoke, NoCall, Queue!NoCall

LEMMA PushesIs ==
  ASSUME NEW t, Pushes(t)
  PROVE  /\ content' = <<call[t].item>> \o content
         /\ lin' = [lin EXCEPT ![t] = 1]
         /\ drained' = [u \in Threads |-> drained[u] \/ (call[u] # NoCall /\ content' = <<>>)]
         /\ ret' = 0 /\ call' = call /\ pr' = pr
BY CallsAre DEF Pushes, Stack!Effect, Stack!Put

LEMMA TakesIs ==
  ASSUME NEW t, NEW x, Takes(t, x)
  PROVE  /\ content' = SubSeq(content, 2, Len(content))
         /\ lin' = [lin EXCEPT ![t] = x]
         /\ drained' = [u \in Threads |-> drained[u] \/ (call[u] # NoCall /\ content' = <<>>)]
         /\ ret' = 0 /\ call' = call /\ pr' = pr
BY CallsAre DEF Takes, Queue!Effect

LEMMA ReturnIs ==
  ASSUME NEW t, NEW r, Return(t, r)
  PROVE  /\ pc'    = [pc EXCEPT ![t] = "idle"]
         /\ node'  = [node EXCEPT ![t] = NULL]
         /\ ltop'  = [ltop EXCEPT ![t] = NULL]
         /\ lnext' = [lnext EXCEPT ![t] = NULL]
         /\ call' = [call EXCEPT ![t] = NoCall]
         /\ lin' = [lin EXCEPT ![t] = Queue!Pending]
         /\ drained' = [drained EXCEPT ![t] = FALSE]
         /\ ret' = r /\ content' = content
         /\ pr' \in {pr, pr + 1, pr - 1}
<1>1. Returns(t, r)
  BY DEF Return
<1>2. pr' = IF r = 0 THEN pr ELSE IF call[t].op = "add" THEN pr + 1 ELSE pr - 1
  BY <1>1 DEF Returns
<1>3. QED BY <1>1, <1>2 DEF Return, Returns

\* What a step is.
LEMMA Steps ==
  ASSUME Next
  PROVE  \E t \in Threads :
           /\ kind' = kind
           /\ \/ \E x \in Items : AddAlloc(t, x)
              \/ RemoveCall(t)
              \/ kind = "treiber" /\ AddTop(t)
              \/ kind = "treiber" /\ AddCas(t)
              \/ kind = "treiber" /\ AddReturn(t)
              \/ kind = "treiber" /\ RemoveTop(t)
              \/ kind = "treiber" /\ RemoveNext(t)
              \/ kind = "treiber" /\ RemoveCas(t)
              \/ RemoveFree(t)
              \/ kind = "lock" /\ AddLock(t)
              \/ kind = "lock" /\ AddNextLocked(t)
              \/ kind = "lock" /\ AddTopLocked(t)
              \/ kind = "lock" /\ AddUnlock(t)
              \/ kind = "lock" /\ RemoveLock(t)
              \/ kind = "lock" /\ RemoveTopLocked(t)
              \/ kind = "lock" /\ RemoveEmptyLocked(t)
              \/ kind = "lock" /\ RemoveTakeLocked(t)
              \/ kind = "lock" /\ RemoveUnlock(t)
BY DEF Next, StackTreiber, StackLock, Calling, add, remove, add_locked, remove_locked

-----------------------------------------------------------------------------
(* The types.                                                              *)

\* The sequence with an item put before it, or its first item taken away.
LEMMA FirstOut ==
  ASSUME NEW S, NEW q \in Seq(S)
  PROVE  /\ SubSeq(q, 2, Len(q)) \in Seq(S)
         /\ Len(q) > 0 => /\ SubSeq(q, 2, Len(q)) = Tail(q)
                          /\ Len(Tail(q)) = Len(q) - 1
                          /\ \A k \in 1..(Len(q) - 1) : Tail(q)[k] = q[k + 1]
                          /\ q[1] = Head(q) /\ q # <<>>
         /\ Len(q) = 0 => q = <<>>
<1>1. Len(q) \in Nat
  OBVIOUS
<1>2. SubSeq(q, 2, Len(q)) \in Seq(S)
  BY <1>1
<1>3. CASE Len(q) = 0
  BY <1>2, <1>3
<1>4. CASE Len(q) > 0
  <2>1. SubSeq(q, 2, Len(q)) = Tail(q)
    BY <1>1, <1>4
  <2>2. Len(Tail(q)) = Len(q) - 1 /\ \A k \in 1..(Len(q) - 1) : Tail(q)[k] = q[k + 1]
    BY <1>1, <1>4
  <2>3. q[1] = Head(q) /\ q # <<>>
    BY <1>4
  <2>4. QED BY <1>2, <1>4, <2>1, <2>2, <2>3
<1>5. QED BY <1>1, <1>3, <1>4

LEMMA FirstIn ==
  ASSUME NEW S, NEW q \in Seq(S), NEW x \in S
  PROVE  /\ <<x>> \o q \in Seq(S)
         /\ Len(<<x>> \o q) = Len(q) + 1
         /\ (<<x>> \o q)[1] = x
         /\ \A k \in 1..Len(q) : (<<x>> \o q)[k + 1] = q[k]
         /\ <<x>> \o q # <<>>
OBVIOUS

LEMMA BeginTypes ==
  ASSUME HistTypeOK, NEW t \in Threads, NEW c \in Calls, Begins(t, c)
  PROVE  HistTypeOK'
<1>1. drained' = [drained EXCEPT ![t] = (content = <<>>)] /\ (content = <<>>) \in BOOLEAN
  BY BeginsIs
<1>2. drained' \in [Threads -> BOOLEAN]
  BY <1>1, Zenon DEF HistTypeOK
<1>3. QED BY <1>2, BeginsIs DEF HistTypeOK

LEMMA InitTypes == Init => Types
<1> SUFFICES ASSUME Init PROVE Types
  OBVIOUS
<1>1. /\ content = <<>> /\ call = [t \in Threads |-> NoCall] /\ lin = [t \in Threads |-> Queue!Pending]
      /\ drained = [t \in Threads |-> FALSE] /\ ret = 0 /\ pr = 0
  BY DEF Init, HistInit, Queue!Init, NoCall
<1>2. HistTypeOK
  BY <1>1 DEF HistTypeOK
<1>3. MemTypeOK
  BY DEF Init, MemInit, MemTypeOK
<1>4. TypeOK
  BY <1>2, <1>3 DEF Init, TypeOK, PCs
<1>5. QED BY <1>1, <1>4 DEF Types, Init, Preparing, Added, Seeking, Disposing

LEMMA AllocTypes ==
  ASSUME Types, NEW t \in Threads, NEW x \in Items, AddAlloc(t, x), kind' = kind
  PROVE  Types'
<1>1. PICK n \in Available(t) :
        /\ ssmem_alloc(t, n)
        /\ node' = [node EXCEPT ![t] = n]
        /\ item' = [item EXCEPT ![n] = x]
        /\ next' = [next EXCEPT ![n] = NULL]
  BY DEF AddAlloc
<1>2. n \in Nodes
  BY DEF Available
<1>3. MemTypeOK'
  BY <1>1, <1>2 DEF ssmem_alloc, Types, TypeOK, MemTypeOK
<1> DEFINE c == [op |-> "add", item |-> x]
<1>4. Begins(t, c)
  BY DEF AddAlloc
<1>5. c \in Calls /\ c.op = "add" /\ c.item = x
  BY CallsAre
<1> HIDE DEF c
<1>6. HistTypeOK'
  BY <1>4, <1>5, BeginTypes DEF Types, TypeOK
<1>7. TypeOK'
  BY <1>1, <1>2, <1>3, <1>6 DEF Types, TypeOK, AddAlloc, Goto, PCs
<1>8. call' = [call EXCEPT ![t] = c]
  BY <1>4, BeginsIs
<1>9. QED BY <1>1, <1>2, <1>5, <1>7, <1>8
          DEF Types, TypeOK, HistTypeOK, AddAlloc, Goto, Preparing, Added, Seeking, Disposing

\* A call that returns leaves its thread idle.
LEMMA ReturnTypes ==
  ASSUME Types, NEW t \in Threads, NEW r \in Items \cup {0, 1}, Return(t, r), MemTypeOK',
         kind' = kind, top' = top, lock' \in {lock, TAS_FREE}, item' = item, next' = next
  PROVE  Types'
<1>1. drained' \in [Threads -> BOOLEAN]
  <2>1. drained' = [drained EXCEPT ![t] = FALSE] /\ drained \in [Threads -> BOOLEAN]
    BY ReturnIs DEF Types, TypeOK, HistTypeOK
  <2>2. QED BY <2>1
<1>2. HistTypeOK'
  <2>1. /\ content' = content /\ call' = [call EXCEPT ![t] = NoCall]
        /\ lin' = [lin EXCEPT ![t] = Queue!Pending] /\ ret' = r
        /\ pr' \in {pr, pr + 1, pr - 1}
    BY ReturnIs
  <2>2. pr \in Int /\ pr' \in Int
    BY <2>1 DEF Types, TypeOK, HistTypeOK
  <2>3. QED BY <1>1, <2>1, <2>2 DEF Types, TypeOK, HistTypeOK
<1>3. TypeOK'
  BY <1>2, ReturnIs DEF Types, TypeOK, PCs
<1>4. QED BY <1>3, ReturnIs DEF Types, TypeOK, HistTypeOK, Preparing, Added, Seeking, Disposing

LEMMA FreeTypes ==
  ASSUME Types, NEW t \in Threads, RemoveFree(t), kind' = kind
  PROVE  Types'
<1>1. ltop[t] \in Nodes /\ item[ltop[t]] \in Items \cup {0, 1}
  BY DEF RemoveFree, Types, TypeOK, Disposing
<1>2. MemTypeOK'
  BY <1>1 DEF RemoveFree, ssmem_free, Types, TypeOK, MemTypeOK
<1>3. QED BY <1>1, <1>2, ReturnTypes DEF RemoveFree, shared

\* The effects of the calls.
LEMMA PushTypes ==
  ASSUME HistTypeOK, NEW t \in Threads, Pushes(t), call[t].item \in Items
  PROVE  HistTypeOK'
<1>1. drained' \in [Threads -> BOOLEAN]
  BY PushesIs, Zenon
<1>2. content' \in Seq(Items)
  <2>1. content \in Seq(Items) /\ content' = <<call[t].item>> \o content
    BY PushesIs DEF HistTypeOK
  <2>2. QED BY <2>1, FirstIn
<1>3. QED BY <1>1, <1>2, PushesIs DEF HistTypeOK

LEMMA TakeTypes ==
  ASSUME HistTypeOK, NEW t \in Threads, NEW x \in Items \cup {0}, Takes(t, x)
  PROVE  HistTypeOK'
<1>1. drained' \in [Threads -> BOOLEAN]
  BY TakesIs, Zenon
<1>2. content' \in Seq(Items)
  <2>1. content \in Seq(Items) /\ content' = SubSeq(content, 2, Len(content))
    BY TakesIs DEF HistTypeOK
  <2>2. QED BY <2>1, FirstOut
<1>3. QED BY <1>1, <1>2, TakesIs DEF HistTypeOK

LEMMA StepTypes == Types /\ [Next]_vars => Types'
<1> SUFFICES ASSUME Types, [Next]_vars PROVE Types'
  OBVIOUS
<1>1. CASE UNCHANGED vars
  BY <1>1 DEF vars, shared, locals, mem, hist, Types, TypeOK, HistTypeOK, MemTypeOK
<1>2. CASE Next
  <2> PICK t \in Threads :
           /\ kind' = kind
           /\ \/ \E x \in Items : AddAlloc(t, x)
              \/ RemoveCall(t)
              \/ kind = "treiber" /\ AddTop(t)
              \/ kind = "treiber" /\ AddCas(t)
              \/ kind = "treiber" /\ AddReturn(t)
              \/ kind = "treiber" /\ RemoveTop(t)
              \/ kind = "treiber" /\ RemoveNext(t)
              \/ kind = "treiber" /\ RemoveCas(t)
              \/ RemoveFree(t)
              \/ kind = "lock" /\ AddLock(t)
              \/ kind = "lock" /\ AddNextLocked(t)
              \/ kind = "lock" /\ AddTopLocked(t)
              \/ kind = "lock" /\ AddUnlock(t)
              \/ kind = "lock" /\ RemoveLock(t)
              \/ kind = "lock" /\ RemoveTopLocked(t)
              \/ kind = "lock" /\ RemoveEmptyLocked(t)
              \/ kind = "lock" /\ RemoveTakeLocked(t)
              \/ kind = "lock" /\ RemoveUnlock(t)
    BY <1>2, Steps
  <2> USE DEF Preparing, Added, Seeking, Disposing
  <2>1. CASE \E x \in Items : AddAlloc(t, x)
    BY <2>1, AllocTypes
  <2>2. CASE RemoveCall(t)
    <3> DEFINE c == [op |-> "remove", item |-> 0]
    <3>1. c \in Calls /\ c.op = "remove"
      BY CallsAre
    <3>2. Begins(t, c)
      BY <2>2 DEF RemoveCall
    <3> HIDE DEF c
    <3>3. HistTypeOK' /\ call' = [call EXCEPT ![t] = c]
      BY <3>1, <3>2, BeginTypes, BeginsIs DEF Types, TypeOK
    <3>4. TypeOK'
      BY <2>2, <3>3 DEF RemoveCall, Goto, Types, TypeOK, PCs, MemTypeOK, mem, shared, locals
    <3>5. QED BY <2>2, <3>1, <3>3, <3>4
              DEF RemoveCall, Goto, Types, TypeOK, HistTypeOK, mem, shared, locals
  <2>3. CASE AddTop(t)
    <3>1. TypeOK'
      BY <2>3 DEF AddTop, Goto, Types, TypeOK, HistTypeOK, MemTypeOK, mem, hist, PCs
    <3>2. QED BY <2>3, <3>1 DEF AddTop, Goto, Types, TypeOK, hist
  <2>4. CASE AddCas(t)
    <3>1. HistTypeOK'
      BY <2>4, PushTypes DEF AddCas, Types, TypeOK, HistTypeOK, hist
    <3>2. TypeOK'
      BY <2>4, <3>1 DEF AddCas, Types, TypeOK, MemTypeOK, mem, locals, PCs
    <3>3. call' = call
      BY <2>4, PushesIs DEF AddCas, hist
    <3>4. QED BY <2>4, <3>2, <3>3 DEF AddCas, Types, TypeOK, locals
  <2>5. CASE AddReturn(t)
    BY <2>5, ReturnTypes DEF AddReturn, shared, mem, Types, TypeOK, MemTypeOK
  <2>6. CASE RemoveTop(t)
    <3>1. MemTypeOK' /\ UNCHANGED shared
      BY <2>6 DEF RemoveTop, mem, Types, TypeOK, MemTypeOK
    <3>2. CASE top = NULL
      <4>1. Return(t, 0)
        BY <2>6, <3>2 DEF RemoveTop
      <4>2. QED BY <3>1, <4>1, ReturnTypes DEF shared
    <3>3. CASE top # NULL
      <4>1. TypeOK'
        BY <2>6, <3>1, <3>3 DEF RemoveTop, Types, TypeOK, HistTypeOK, hist, shared, PCs
      <4>2. QED BY <2>6, <3>1, <3>3, <4>1 DEF RemoveTop, Types, TypeOK, hist, shared
    <3>4. QED BY <3>2, <3>3
  <2>7. CASE RemoveNext(t)
    <3>1. TypeOK'
      BY <2>7 DEF RemoveNext, Goto, Types, TypeOK, HistTypeOK, MemTypeOK, mem, hist, shared, PCs
    <3>2. QED BY <2>7, <3>1 DEF RemoveNext, Goto, Types, TypeOK, hist
  <2>8. CASE RemoveCas(t)
    <3>1. item[ltop[t]] \in Items \cup {0}
      BY <2>8 DEF RemoveCas, Types, TypeOK
    <3>2. HistTypeOK'
      BY <2>8, <3>1, TakeTypes DEF RemoveCas, Types, TypeOK, HistTypeOK, hist
    <3>3. TypeOK'
      BY <2>8, <3>2 DEF RemoveCas, Types, TypeOK, MemTypeOK, mem, locals, PCs
    <3>4. call' = call
      BY <2>8, TakesIs DEF RemoveCas, hist
    <3>5. QED BY <2>8, <3>3, <3>4 DEF RemoveCas, Types, TypeOK, locals
  <2>9. CASE RemoveFree(t)
    BY <2>9, FreeTypes
  <2>10. CASE AddLock(t)
    <3>1. TypeOK'
      BY <2>10 DEF AddLock, Lock, Goto, tas_locked, Types, TypeOK, HistTypeOK, MemTypeOK,
                   mem, hist, locals, PCs
    <3>2. QED BY <2>10, <3>1 DEF AddLock, Lock, Goto, Types, TypeOK, hist, locals
  <2>11. CASE AddNextLocked(t)
    <3>1. TypeOK'
      BY <2>11 DEF AddNextLocked, Goto, Types, TypeOK, HistTypeOK, MemTypeOK,
                   mem, hist, locals, PCs
    <3>2. QED BY <2>11, <3>1 DEF AddNextLocked, Goto, Types, TypeOK, hist, locals
  <2>12. CASE AddTopLocked(t)
    <3>1. HistTypeOK' /\ call' = call
      BY <2>12, PushTypes, PushesIs DEF AddTopLocked, Goto, Types, TypeOK
    <3>2. TypeOK'
      BY <2>12, <3>1 DEF AddTopLocked, Goto, Types, TypeOK, MemTypeOK, mem, locals, PCs
    <3>3. QED BY <2>12, <3>1, <3>2 DEF AddTopLocked, Goto, Types, TypeOK, locals
  <2>13. CASE AddUnlock(t)
    BY <2>13, ReturnTypes DEF AddUnlock, mem, Types, TypeOK, MemTypeOK
  <2>14. CASE RemoveLock(t)
    <3>1. TypeOK'
      BY <2>14 DEF RemoveLock, Lock, Goto, tas_locked, Types, TypeOK, HistTypeOK, MemTypeOK,
                   mem, hist, locals, PCs
    <3>2. QED BY <2>14, <3>1 DEF RemoveLock, Lock, Goto, Types, TypeOK, hist, locals
  <2>15. CASE RemoveTopLocked(t)
    <3>1. TypeOK'
      BY <2>15 DEF RemoveTopLocked, Goto, Types, TypeOK, HistTypeOK, MemTypeOK,
                   mem, hist, shared, PCs
    <3>2. QED BY <2>15, <3>1 DEF RemoveTopLocked, Goto, Types, TypeOK, hist, shared
  <2>16. CASE RemoveEmptyLocked(t)
    BY <2>16, ReturnTypes DEF RemoveEmptyLocked, mem, Types, TypeOK, MemTypeOK
  <2>17. CASE RemoveTakeLocked(t)
    <3>1. ltop[t] \in Nodes /\ item[ltop[t]] \in Items \cup {0}
      BY <2>17 DEF RemoveTakeLocked, Goto, Types, TypeOK
    <3>2. HistTypeOK' /\ call' = call
      BY <2>17, <3>1, TakeTypes, TakesIs DEF RemoveTakeLocked, Types, TypeOK
    <3>3. TypeOK'
      BY <2>17, <3>1, <3>2 DEF RemoveTakeLocked, Goto, Types, TypeOK, MemTypeOK, mem, locals, PCs
    <3>4. QED BY <2>17, <3>2, <3>3 DEF RemoveTakeLocked, Goto, Types, TypeOK, locals
  <2>18. CASE RemoveUnlock(t)
    <3>1. TypeOK'
      BY <2>18 DEF RemoveUnlock, Goto, Types, TypeOK, HistTypeOK, MemTypeOK,
                   mem, hist, locals, PCs
    <3>2. QED BY <2>18, <3>1 DEF RemoveUnlock, Goto, Types, TypeOK, hist, locals
  <2>19. QED BY <2>1, <2>2, <2>3, <2>4, <2>5, <2>6, <2>7, <2>8, <2>9, <2>10, <2>11, <2>12,
                <2>13, <2>14, <2>15, <2>16, <2>17, <2>18
<1>3. QED BY <1>1, <1>2

\* The state stays well typed, whatever word the lock holds at first.
THEOREM StackTypes == Spec => []TypeOK
<1>1. Types => TypeOK
  BY DEF Types
<1>2. QED BY InitTypes, StepTypes, <1>1, PTL DEF Spec

-----------------------------------------------------------------------------
(* Chain, which follows the pointers, is the sequence of the invariant.    *)

\* Induction: a set of numbers that is not empty has a smallest one.
LEMMA Smallest ==
  ASSUME NEW S, S \subseteq Nat, S # {}
  PROVE  \E m \in S : \A k \in S : m <= k
<1> DEFINE R == OpToRel(<, Nat)
<1>1. IsWellFoundedOn(R, Nat)
  BY NatLessThanWellFounded
<1>2. \A a, b \in Nat : <<a, b>> \in R <=> a < b
  BY DEF OpToRel
<1> HIDE DEF R
<1>3. \E x \in S : \A y \in S : ~ (<<y, x>> \in R)
  BY <1>1, WFMin
<1>4. PICK m \in S : \A k \in S : ~ (<<k, m>> \in R)
  BY <1>3
<1>5. m \in Nat /\ \A k \in S : k \in Nat /\ ~(k < m)
  BY <1>2, <1>4
<1>6. \A k \in S : m <= k
  BY <1>5
<1>7. QED BY <1>6

\* A sequence without repetitions is not longer than there are nodes.
LEMMA NotTooLong ==
  ASSUME NEW s \in Seq(Nodes), \A j, k \in 1..Len(s) : s[j] = s[k] => j = k
  PROVE  Len(s) \in Nat /\ Len(s) <= NumNodes
<1> DEFINE D == 1..Len(s)
           f == [k \in D |-> s[k]]
<1>1. Len(s) \in Nat /\ NumNodes \in Nat
  BY Constants
<1>2. f \in Injection(D, Nodes)
  BY DEF Injection, IsInjective
<1>3. IsFiniteSet(Nodes) /\ Cardinality(Nodes) = NumNodes /\ Cardinality(D) = Len(s)
  <2>1. \A n \in Nat : IsFiniteSet(1..n) /\ Cardinality(1..n) = n
    <3>1. SUFFICES ASSUME NEW n \in Nat PROVE IsFiniteSet(1..n) /\ Cardinality(1..n) = n
      OBVIOUS
    <3>2. 1 \in Int /\ n \in Int /\ (IF 1 > n THEN 0 ELSE n - 1 + 1) = n
      OBVIOUS
    <3>3. IsFiniteSet(1..n) /\ Cardinality(1..n) = IF 1 > n THEN 0 ELSE n - 1 + 1
      BY <3>2, FS_Interval
    <3>4. QED BY <3>2, <3>3
  <2>2. QED BY <1>1, <2>1 DEF Nodes
<1> HIDE DEF f, D
<1>4. Cardinality(D) <= Cardinality(Nodes)
  BY <1>2, <1>3, FS_Injection
<1>5. QED BY <1>1, <1>3, <1>4

\* One more step along the chain, as in the definition of Chain.
Follow(f, d) ==
  IF d = 0 THEN <<>>
  ELSE LET c == f[d - 1]
           n == IF c = <<>> THEN top ELSE next[c[Len(c)]]
       IN  IF n = NULL THEN c ELSE Append(c, n)

Follows(f) == f = [d \in 0..NumNodes |-> Follow(f, d)]

\* The first d nodes.
First(s, d) == IF d < Len(s) THEN SubSeq(s, 1, d) ELSE s

LEMMA FirstOf ==
  ASSUME NEW s \in Seq(Nodes), NEW d \in Nat
  PROVE  /\ First(s, 0) = <<>>
         /\ d < Len(s) =>
              /\ Append(First(s, d), s[d + 1]) = First(s, d + 1)
              /\ Len(First(s, d)) = d
              /\ d = 0 <=> First(s, d) = <<>>
              /\ d > 0 => First(s, d)[d] = s[d]
         /\ d >= Len(s) =>
              /\ First(s, d) = s /\ First(s, d + 1) = s
<1>1. Len(s) \in Nat
  OBVIOUS
<1>2. First(s, 0) = <<>>
  BY <1>1 DEF First
<1>3. ASSUME d < Len(s)
      PROVE  /\ Append(First(s, d), s[d + 1]) = First(s, d + 1)
             /\ Len(First(s, d)) = d
             /\ d = 0 <=> First(s, d) = <<>>
             /\ d > 0 => First(s, d)[d] = s[d]
  <2>1. First(s, d) = SubSeq(s, 1, d) /\ First(s, d + 1) = SubSeq(s, 1, d + 1)
    <3>1. d + 1 = Len(s) => SubSeq(s, 1, d + 1) = s
      BY <1>1
    <3>2. QED BY <1>1, <1>3, <3>1 DEF First
  <2>2. SubSeq(s, 1, d) \in Seq(Nodes) /\ Len(SubSeq(s, 1, d)) = d
    BY <1>1, <1>3
  <2>3. d > 0 => SubSeq(s, 1, d)[d] = s[d]
    BY <1>1, <1>3
  <2>4. Append(SubSeq(s, 1, d), s[d + 1]) = SubSeq(s, 1, d + 1)
    BY <1>1, <1>3
  <2>5. d = 0 <=> SubSeq(s, 1, d) = <<>>
    <3>1. \A q \in Seq(Nodes) : q = <<>> <=> Len(q) = 0
      OBVIOUS
    <3>2. QED BY <2>2, <3>1
  <2>6. QED BY <2>1, <2>2, <2>3, <2>4, <2>5
<1>4. ASSUME d >= Len(s)
      PROVE  First(s, d) = s /\ First(s, d + 1) = s
  BY <1>1, <1>4 DEF First
<1>5. QED BY <1>2, <1>3, <1>4

LEMMA ChainIs ==
  ASSUME NEW s, Linked(s)
  PROVE  Chain = s
<1> DEFINE g == [d \in 0..NumNodes |-> First(s, d)]
           h == CHOOSE f : Follows(f)
<1>1. /\ s \in Seq(Nodes) /\ Len(s) \in Nat /\ Len(s) <= NumNodes
      /\ NumNodes \in Nat /\ NULL \notin Nodes
  BY NotTooLong, Constants DEF Linked
<1>2. ASSUME NEW f, NEW d \in 1..NumNodes, f[d - 1] = First(s, d - 1)
      PROVE  Follow(f, d) = First(s, d)
  <2> DEFINE e == d - 1
             c == First(s, e)
             n == IF c = <<>> THEN top ELSE next[c[Len(c)]]
  <2>1. e \in Nat /\ d = e + 1 /\ d # 0
    BY <1>1
  <2>2. Follow(f, d) = IF n = NULL THEN c ELSE Append(c, n)
    BY <1>2, <2>1 DEF Follow
  <2>3. CASE e < Len(s)
    <3>1. Append(c, s[d]) = First(s, d) /\ Len(c) = e /\ (e = 0 <=> c = <<>>)
          /\ (e > 0 => c[e] = s[e])
      BY <1>1, <2>1, <2>3, FirstOf
    <3>2. s[d] \in Nodes
      BY <1>1, <2>1, <2>3
    <3>3. CASE e = 0
      BY <1>1, <2>1, <2>2, <2>3, <3>1, <3>2, <3>3 DEF Linked
    <3>4. CASE e > 0
      <4>1. n = next[s[e]] /\ e \in 1..Len(s) /\ e # Len(s)
        BY <1>1, <2>1, <2>3, <3>1, <3>4
      <4>2. n = s[d]
        BY <2>1, <4>1 DEF Linked
      <4>3. QED BY <1>1, <2>2, <3>1, <3>2, <4>2
    <3>5. QED BY <2>1, <3>3, <3>4
  <2>4. CASE e >= Len(s)
    <3>1. c = s /\ First(s, d) = s
      BY <1>1, <2>1, <2>4, FirstOf
    <3>2. n = NULL
      BY <1>1, <3>1 DEF Linked
    <3>3. QED BY <2>2, <3>1, <3>2
  <2>5. QED BY <1>1, <2>1, <2>3, <2>4
<1>3. \A f : Follow(f, 0) = First(s, 0)
  BY <1>1, FirstOf DEF Follow
<1>4. Follows(g)
  <2>1. ASSUME NEW d \in 0..NumNodes PROVE g[d] = Follow(g, d)
    <3>1. CASE d = 0
      BY <1>3, <3>1
    <3>2. CASE d # 0
      <4>1. d \in 1..NumNodes /\ d - 1 \in 0..NumNodes
        BY <1>1, <3>2
      <4>2. QED BY <1>2, <4>1
    <3>3. QED BY <3>1, <3>2
  <2>2. QED BY <2>1 DEF Follows
<1>5. Follows(h)
  BY <1>4
<1>6. Chain = h[NumNodes]
  BY DEF Chain, Follows, Follow
<1> HIDE DEF g, h
<1>7. ASSUME NEW d \in 0..NumNodes PROVE h[d] = Follow(h, d)
  BY <1>5 DEF Follows
<1>8. \A d \in 0..NumNodes : h[d] = First(s, d)
  <2> DEFINE Wrong == {d \in 0..NumNodes : h[d] # First(s, d)}
  <2>1. SUFFICES ASSUME Wrong # {} PROVE FALSE
    OBVIOUS
  <2>2. Wrong \subseteq Nat
    BY <1>1
  <2>3. PICK m \in Wrong : \A k \in Wrong : m <= k
    BY <2>1, <2>2, Smallest
  <2>4. m \in 0..NumNodes /\ m # 0
    BY <1>1, <1>3, <1>7
  <2>5. m \in 1..NumNodes /\ m - 1 \in 0..NumNodes /\ ~(m <= m - 1)
    BY <1>1, <2>4
  <2>6. h[m - 1] = First(s, m - 1)
    BY <2>3, <2>5
  <2>7. Follow(h, m) = First(s, m)
    BY <1>2, <2>5, <2>6
  <2>8. QED BY <1>7, <2>4, <2>7
<1>9. First(s, NumNodes) = s
  BY <1>1, FirstOf
<1>10. QED BY <1>1, <1>6, <1>8, <1>9

-----------------------------------------------------------------------------
(* Each step keeps the invariant.  First the steps that leave the chain.   *)
\* A thread that works on a node of its own does not touch the others' nodes.
LEMMA OwnNode ==
  ASSUME NEW s, Owned(s), NEW t \in Threads, pc[t] \in Preparing
  PROVE  /\ node[t] \in live
         /\ \A k \in 1..Len(s) : s[k] # node[t]
         /\ \A u \in Threads : u # t /\ pc[u] \in Preparing => node[u] # node[t]
         /\ \A u \in Threads : pc[u] \in Disposing => ltop[u] # node[t]
BY DEF Owned, Mine, Preparing, Disposing

\* The top is allocated, and so is what follows it.
LEMMA TopIsLive ==
  ASSUME NEW s, Linked(s)
  PROVE  /\ top = NULL <=> Len(s) = 0
         /\ top # NULL => /\ top \in live /\ top \in Nodes /\ Len(s) > 0 /\ top = s[1]
                          /\ next[top] = NULL \/ next[top] \in live
<1>1. Len(s) \in Nat /\ NULL \notin Nodes
  BY Constants DEF Linked
<1>2. Len(s) = 0 => top = NULL
  BY DEF Linked
<1>3. ASSUME Len(s) > 0
      PROVE  top \in live /\ top \in Nodes /\ top = s[1] /\ top # NULL
  BY <1>1, <1>3 DEF Linked
<1>4. ASSUME Len(s) > 0
      PROVE  next[top] = NULL \/ next[top] \in live
  <2>1. 1 \in 1..Len(s) /\ (1 # Len(s) => 2 \in 1..Len(s))
    <3>1. \A n \in Nat : n > 0 => 1 \in 1..n /\ (1 # n => 2 \in 1..n)
      OBVIOUS
    <3>2. QED BY <1>1, <1>4, <3>1
  <2>2. next[s[1]] = IF 1 = Len(s) THEN NULL ELSE s[2]
    BY <2>1 DEF Linked
  <2>3. QED BY <1>3, <1>4, <2>1, <2>2 DEF Linked
<1>5. QED BY <1>1, <1>2, <1>3, <1>4

\* When there is no top, the abstract stack is empty, as every call has seen.
LEMMA EmptyIsDrained ==
  ASSUME NEW s, Inv(s), top = NULL, NEW t \in Threads, pc[t] # "idle"
  PROVE  drained[t]
<1>1. Len(s) = 0
  BY TopIsLive DEF Inv
<1>2. content \in Seq(Items) /\ Len(content) = 0
  BY <1>1 DEF Inv, Filled, Types, TypeOK, HistTypeOK
<1>3. content = <<>>
  BY <1>2
<1>4. call[t] # NoCall
  BY CallsAre DEF Inv, Types, TypeOK, PCs, Preparing, Added, Seeking, Disposing
<1>5. QED BY <1>3, <1>4 DEF Inv, Recorded

\* A call that returns concerns only its thread.
LEMMA ReturnKeeps ==
  ASSUME Types, Types', Recorded, Prepared, NEW t \in Threads, NEW r, Return(t, r),
         top' = top, item' = item, next' = next
  PROVE  Recorded' /\ Prepared'
<1>1. /\ pc' = [pc EXCEPT ![t] = "idle"]
      /\ node' = [node EXCEPT ![t] = NULL]
      /\ ltop' = [ltop EXCEPT ![t] = NULL]
      /\ call' = [call EXCEPT ![t] = NoCall]
      /\ lin' = [lin EXCEPT ![t] = Queue!Pending]
      /\ drained' = [drained EXCEPT ![t] = FALSE]
      /\ content' = content
  BY ReturnIs
<1>2. /\ pc \in [Threads -> PCs] /\ call \in [Threads -> Calls \cup {NoCall}]
      /\ node \in [Threads -> Nodes \cup {NULL}] /\ ltop \in [Threads -> Nodes \cup {NULL}]
      /\ lin \in [Threads -> Items \cup {0, 1, Queue!Pending}]
      /\ drained \in [Threads -> BOOLEAN]
  BY DEF Types, TypeOK, HistTypeOK
<1>3. /\ pc'[t] = "idle" /\ call'[t] = NoCall /\ lin'[t] = Queue!Pending
      /\ \A u \in Threads : u # t =>
           /\ pc'[u] = pc[u] /\ node'[u] = node[u] /\ ltop'[u] = ltop[u]
           /\ call'[u] = call[u] /\ lin'[u] = lin[u]
  BY <1>1, <1>2
<1>4. \A u \in Threads : u # t => drained'[u] = drained[u]
  BY <1>1, <1>2
<1>5. Stack!Pending = Queue!Pending
  BY Constants
<1>6. Recorded'
  <2>1. ASSUME content' = <<>>, NEW u \in Threads, call'[u] # NoCall PROVE drained'[u]
    <3>1. u # t
      BY <1>3, <2>1
    <3>2. content = <<>> /\ call[u] # NoCall
      BY <1>1, <1>3, <2>1, <3>1
    <3>3. drained[u]
      BY <3>2 DEF Recorded
    <3>4. QED BY <1>4, <3>1, <3>3
  <2>2. ASSUME NEW u \in Threads
        PROVE  /\ pc'[u] \in {"idle"} \cup Preparing \cup Seeking => lin'[u] = Stack!Pending
               /\ pc'[u] \in Preparing => item'[node'[u]] = call'[u].item
               /\ pc'[u] \in Added => lin'[u] = 1
               /\ pc'[u] \in Disposing => lin'[u] = item'[ltop'[u]] /\ lin'[u] \in Items
    BY <1>3, <1>5 DEF Recorded, Preparing, Seeking, Added, Disposing
  <2>3. QED BY <2>1, <2>2 DEF Recorded
<1>7. Prepared'
  <2>1. ASSUME NEW u \in Threads
        PROVE  /\ pc'[u] = "a_cas" => next'[node'[u]] = ltop'[u]
               /\ pc'[u] = "a_top" => next'[node'[u]] = top'
               /\ pc'[u] = "r_take" => ltop'[u] = top'
    BY <1>3 DEF Prepared
  <2>2. ASSUME NEW u \in Threads, pc'[u] = "r_empty" PROVE drained'[u]
    <3>1. u # t /\ pc[u] = "r_empty"
      BY <1>3, <2>2
    <3>2. drained[u]
      BY <3>1 DEF Prepared
    <3>3. QED BY <1>4, <3>1, <3>2
  <2>3. QED BY <2>1, <2>2 DEF Prepared
<1>8. QED BY <1>6, <1>7

LEMMA AddTopKeeps ==
  ASSUME NEW s, Inv(s), Types', NEW t \in Threads, kind = "treiber", AddTop(t), kind' = kind
  PROVE  Inv(s)'
<1> USE DEF Inv, Preparing, Added, Seeking, Disposing, Holding, AddTop, Goto, locals, mem, hist
<1>1. Linked(s)'
  BY OwnNode DEF Linked, Types, TypeOK
<1>2. Filled(s)'
  BY DEF Filled, Types, TypeOK
<1>3. Owned(s)'
  BY DEF Owned, Mine, Types, TypeOK, MemTypeOK
<1>4. Referenced'
  BY Constants, TopIsLive, OwnNode DEF Referenced, Guarded, Types, TypeOK
<1>5. Recorded'
  BY CallsAre DEF Recorded, Types, TypeOK, HistTypeOK
<1>6. Prepared'
  BY OwnNode DEF Prepared, Types, TypeOK
<1>7. Locked'
  BY DEF Locked, Types, TypeOK
<1>8. QED BY <1>1, <1>2, <1>3, <1>4, <1>5, <1>6, <1>7

LEMMA AddReturnKeeps ==
  ASSUME NEW s, Inv(s), Types', NEW t \in Threads, kind = "treiber", AddReturn(t), kind' = kind
  PROVE  Inv(s)'
<1> USE DEF Inv, Preparing, Added, Seeking, Disposing, Holding, AddReturn, Goto, locals, mem, hist, shared, mem
<1>1. Linked(s)'
  BY ReturnIs DEF Linked, Types, TypeOK
<1>2. Filled(s)'
  BY ReturnIs DEF Filled, Types, TypeOK
<1>3. Owned(s)'
  BY ReturnIs DEF Owned, Mine, Types, TypeOK, MemTypeOK
<1>4. Referenced'
  BY Constants, ReturnIs DEF Referenced, Guarded, Types, TypeOK
<1>5. Recorded'
  BY ReturnKeeps
<1>6. Prepared'
  BY ReturnKeeps
<1>7. Locked'
  BY ReturnIs DEF Locked, Types, TypeOK
<1>8. QED BY <1>1, <1>2, <1>3, <1>4, <1>5, <1>6, <1>7

LEMMA RemoveNextKeeps ==
  ASSUME NEW s, Inv(s), Types', NEW t \in Threads, kind = "treiber", RemoveNext(t), kind' = kind
  PROVE  Inv(s)'
<1> USE DEF Inv, Preparing, Added, Seeking, Disposing, Holding, RemoveNext, Goto, locals, mem, hist, shared
<1>1. Linked(s)'
  BY DEF Linked, Types, TypeOK
<1>2. Filled(s)'
  BY DEF Filled, Types, TypeOK
<1>3. Owned(s)'
  BY DEF Owned, Mine, Types, TypeOK, MemTypeOK
<1>4. Referenced'
  BY Constants DEF Referenced, Guarded, Types, TypeOK
<1>5. Recorded'
  BY CallsAre DEF Recorded, Types, TypeOK, HistTypeOK
<1>6. Prepared'
  BY DEF Prepared, Types, TypeOK
<1>7. Locked'
  BY DEF Locked, Types, TypeOK
<1>8. QED BY <1>1, <1>2, <1>3, <1>4, <1>5, <1>6, <1>7

LEMMA AddLockKeeps ==
  ASSUME NEW s, Inv(s), Types', NEW t \in Threads, kind = "lock", AddLock(t), kind' = kind
  PROVE  Inv(s)'
<1> USE DEF Inv, Preparing, Added, Seeking, Disposing, Holding, AddLock, Goto, locals, mem, hist, Lock, tas_lock_passes, tas_locked, TAS_FREE, TAS_LCKD
<1>1. Linked(s)'
  BY DEF Linked, Types, TypeOK
<1>2. Filled(s)'
  BY DEF Filled, Types, TypeOK
<1>3. Owned(s)'
  BY DEF Owned, Mine, Types, TypeOK, MemTypeOK
<1>4. Referenced'
  BY Constants DEF Referenced, Guarded, Types, TypeOK
<1>5. Recorded'
  BY CallsAre DEF Recorded, Types, TypeOK, HistTypeOK
<1>6. Prepared'
  BY DEF Prepared, Types, TypeOK
<1>7. Locked'
  BY DEF Locked, Types, TypeOK
<1>8. QED BY <1>1, <1>2, <1>3, <1>4, <1>5, <1>6, <1>7

LEMMA AddNextLockedKeeps ==
  ASSUME NEW s, Inv(s), Types', NEW t \in Threads, kind = "lock", AddNextLocked(t), kind' = kind
  PROVE  Inv(s)'
<1> USE DEF Inv, Preparing, Added, Seeking, Disposing, Holding, AddNextLocked, Goto, locals, mem, hist
<1>1. Linked(s)'
  BY OwnNode DEF Linked, Types, TypeOK
<1>2. Filled(s)'
  BY DEF Filled, Types, TypeOK
<1>3. Owned(s)'
  BY DEF Owned, Mine, Types, TypeOK, MemTypeOK
<1>4. Referenced'
  BY Constants DEF Referenced, Guarded, Types, TypeOK
<1>5. Recorded'
  BY CallsAre DEF Recorded, Types, TypeOK, HistTypeOK
<1>6. Prepared'
  BY OwnNode DEF Prepared, Types, TypeOK
<1>7. Locked'
  BY DEF Locked, Types, TypeOK
<1>8. QED BY <1>1, <1>2, <1>3, <1>4, <1>5, <1>6, <1>7

LEMMA AddUnlockKeeps ==
  ASSUME NEW s, Inv(s), Types', NEW t \in Threads, kind = "lock", AddUnlock(t), kind' = kind
  PROVE  Inv(s)'
<1> USE DEF Inv, Preparing, Added, Seeking, Disposing, Holding, AddUnlock, Goto, locals, mem, hist
<1>1. Linked(s)'
  BY ReturnIs DEF Linked, Types, TypeOK
<1>2. Filled(s)'
  BY ReturnIs DEF Filled, Types, TypeOK
<1>3. Owned(s)'
  BY ReturnIs DEF Owned, Mine, Types, TypeOK, MemTypeOK
<1>4. Referenced'
  BY Constants, ReturnIs DEF Referenced, Guarded, Types, TypeOK
<1>5. Recorded'
  BY ReturnKeeps
<1>6. Prepared'
  BY ReturnKeeps
<1>7. Locked'
  BY ReturnIs DEF Locked, Types, TypeOK
<1>8. QED BY <1>1, <1>2, <1>3, <1>4, <1>5, <1>6, <1>7

LEMMA RemoveLockKeeps ==
  ASSUME NEW s, Inv(s), Types', NEW t \in Threads, kind = "lock", RemoveLock(t), kind' = kind
  PROVE  Inv(s)'
<1> USE DEF Inv, Preparing, Added, Seeking, Disposing, Holding, RemoveLock, Goto, locals, mem, hist, Lock, tas_lock_passes, tas_locked, TAS_FREE, TAS_LCKD
<1>1. Linked(s)'
  BY DEF Linked, Types, TypeOK
<1>2. Filled(s)'
  BY DEF Filled, Types, TypeOK
<1>3. Owned(s)'
  BY DEF Owned, Mine, Types, TypeOK, MemTypeOK
<1>4. Referenced'
  BY Constants DEF Referenced, Guarded, Types, TypeOK
<1>5. Recorded'
  BY CallsAre DEF Recorded, Types, TypeOK, HistTypeOK
<1>6. Prepared'
  BY DEF Prepared, Types, TypeOK
<1>7. Locked'
  BY DEF Locked, Types, TypeOK
<1>8. QED BY <1>1, <1>2, <1>3, <1>4, <1>5, <1>6, <1>7

LEMMA RemoveTopLockedKeeps ==
  ASSUME NEW s, Inv(s), Types', NEW t \in Threads, kind = "lock", RemoveTopLocked(t), kind' = kind
  PROVE  Inv(s)'
<1> USE DEF Inv, Preparing, Added, Seeking, Disposing, Holding, RemoveTopLocked, Goto, locals, mem, hist, shared
<1>1. Linked(s)'
  BY DEF Linked, Types, TypeOK
<1>2. Filled(s)'
  BY DEF Filled, Types, TypeOK
<1>3. Owned(s)'
  BY DEF Owned, Mine, Types, TypeOK, MemTypeOK
<1>4. Referenced'
  BY Constants, TopIsLive DEF Referenced, Guarded, Types, TypeOK
<1>5. Recorded'
  BY CallsAre DEF Recorded, Types, TypeOK, HistTypeOK
<1>6. Prepared'
  <2>1. pc[t] # "idle" /\ drained' = drained
    OBVIOUS
  <2>2. top = NULL => drained'[t]
    BY <2>1, EmptyIsDrained
  <2>3. \A u \in Threads : u # t /\ pc'[u] = "r_empty" => drained'[u]
    BY <2>1 DEF Prepared, Types, TypeOK
  <2>4. pc'[t] = "r_empty" => top = NULL
    BY DEF Types, TypeOK
  <2>5. \A u \in Threads :
          /\ pc'[u] = "a_cas" => next'[node'[u]] = ltop'[u]
          /\ pc'[u] = "a_top" => next'[node'[u]] = top'
          /\ pc'[u] = "r_take" => ltop'[u] = top'
    BY DEF Prepared, Types, TypeOK
  <2>6. QED BY <2>2, <2>3, <2>4, <2>5 DEF Prepared
<1>7. Locked'
  BY DEF Locked, Types, TypeOK
<1>8. QED BY <1>1, <1>2, <1>3, <1>4, <1>5, <1>6, <1>7

LEMMA RemoveEmptyLockedKeeps ==
  ASSUME NEW s, Inv(s), Types', NEW t \in Threads, kind = "lock", RemoveEmptyLocked(t), kind' = kind
  PROVE  Inv(s)'
<1> USE DEF Inv, Preparing, Added, Seeking, Disposing, Holding, RemoveEmptyLocked, Goto, locals, mem, hist
<1>1. Linked(s)'
  BY ReturnIs DEF Linked, Types, TypeOK
<1>2. Filled(s)'
  BY ReturnIs DEF Filled, Types, TypeOK
<1>3. Owned(s)'
  BY ReturnIs DEF Owned, Mine, Types, TypeOK, MemTypeOK
<1>4. Referenced'
  BY Constants, ReturnIs DEF Referenced, Guarded, Types, TypeOK
<1>5. Recorded'
  BY ReturnKeeps
<1>6. Prepared'
  BY ReturnKeeps
<1>7. Locked'
  BY ReturnIs DEF Locked, Types, TypeOK
<1>8. QED BY <1>1, <1>2, <1>3, <1>4, <1>5, <1>6, <1>7

LEMMA RemoveUnlockKeeps ==
  ASSUME NEW s, Inv(s), Types', NEW t \in Threads, kind = "lock", RemoveUnlock(t), kind' = kind
  PROVE  Inv(s)'
<1> USE DEF Inv, Preparing, Added, Seeking, Disposing, Holding, RemoveUnlock, Goto, locals, mem, hist
<1>1. Linked(s)'
  BY DEF Linked, Types, TypeOK
<1>2. Filled(s)'
  BY DEF Filled, Types, TypeOK
<1>3. Owned(s)'
  BY DEF Owned, Mine, Types, TypeOK, MemTypeOK
<1>4. Referenced'
  BY Constants DEF Referenced, Guarded, Types, TypeOK
<1>5. Recorded'
  BY CallsAre DEF Recorded, Types, TypeOK, HistTypeOK
<1>6. Prepared'
  BY DEF Prepared, Types, TypeOK
<1>7. Locked'
  BY DEF Locked, Types, TypeOK
<1>8. QED BY <1>1, <1>2, <1>3, <1>4, <1>5, <1>6, <1>7

-----------------------------------------------------------------------------
(* The steps with an effect.                                               *)

\* A call that takes effect: what has been drained stays so, and all calls see it when
\* the stack becomes empty.
LEMMA EffectKeeps ==
  ASSUME Types, Recorded, call' = call,
         drained' = [u \in Threads |-> drained[u] \/ (call[u] # NoCall /\ content' = <<>>)]
  PROVE  /\ \A u \in Threads : drained[u] => drained'[u]
         /\ content' = <<>> => \A u \in Threads : call'[u] # NoCall => drained'[u]
<1>1. \A u \in Threads : drained'[u] = (drained[u] \/ (call[u] # NoCall /\ content' = <<>>))
  BY Zenon
<1>2. QED BY <1>1, Zenon

LEMMA PushKeeps ==
  ASSUME NEW s, Inv(s), Types', NEW t \in Threads, Pushes(t),
         NEW l, \/ kind = "treiber" /\ pc[t] = "a_cas" /\ l = "a_return"
                \/ kind = "lock" /\ pc[t] = "a_top" /\ l = "a_unlock",
         NEW n, n = node[t], next[n] = top, top' = n, pc' = [pc EXCEPT ![t] = l],
         UNCHANGED <<kind, lock, item, next, locals, mem>>
  PROVE  Inv(<<n>> \o s)'
<1> DEFINE z == <<n>> \o s
<1> USE DEF Preparing, Added, Seeking, Disposing, Holding
<1>1. /\ n \in live /\ n \in Nodes
      /\ \A k \in 1..Len(s) : s[k] # n
      /\ \A u \in Threads : u # t /\ pc[u] \in Preparing => node[u] # n
      /\ \A u \in Threads : pc[u] \in Disposing => ltop[u] # n
  BY OwnNode DEF Inv, Types
<1>2. s \in Seq(Nodes) /\ Len(s) \in Nat
  BY DEF Inv, Linked
<1>3. /\ z \in Seq(Nodes) /\ Len(z) = Len(s) + 1 /\ z[1] = n
      /\ \A k \in 1..Len(s) : z[k + 1] = s[k]
  BY <1>1, <1>2, FirstIn
<1>4. \A k \in 1..Len(z) : k = 1 \/ (k - 1 \in 1..Len(s) /\ z[k] = s[k - 1])
  BY <1>2, <1>3
<1> HIDE DEF z
<1>5. /\ live' = live /\ next' = next /\ item' = item /\ node' = node /\ ltop' = ltop
      /\ lnext' = lnext /\ freer' = freer /\ waits' = waits /\ top' = n /\ next[n] = top
      /\ kind' = kind /\ lock' = lock
  BY DEF locals, mem
<1>6. /\ pc'[t] = l
      /\ \A u \in Threads : u # t => pc'[u] = pc[u]
  BY DEF Inv, Types, TypeOK
<1>7. Linked(z)'
  <2>1. \A k \in 1..Len(z) : z[k] \in live
    BY <1>1, <1>2, <1>3, <1>4 DEF Inv, Linked
  <2>2. \A j, k \in 1..Len(z) : z[j] = z[k] => j = k
    <3>1. ASSUME NEW j \in 1..Len(z), NEW k \in 1..Len(z), z[j] = z[k] PROVE j = k
      <4>1. CASE j = 1
        BY <1>1, <1>3, <1>4, <3>1, <4>1
      <4>2. CASE k = 1
        BY <1>1, <1>3, <1>4, <3>1, <4>2
      <4>3. CASE j # 1 /\ k # 1
        <5>1. s[j - 1] = s[k - 1] /\ j - 1 \in 1..Len(s) /\ k - 1 \in 1..Len(s)
          BY <1>4, <3>1, <4>3
        <5>2. j - 1 = k - 1
          BY <5>1 DEF Inv, Linked
        <5>3. QED BY <1>2, <1>3, <5>2
      <4>4. QED BY <4>1, <4>2, <4>3
    <3>2. QED BY <3>1
  <2>3. \A k \in 1..Len(z) : next[z[k]] = IF k = Len(z) THEN NULL ELSE z[k + 1]
    <3>1. ASSUME NEW k \in 1..Len(z) PROVE next[z[k]] = IF k = Len(z) THEN NULL ELSE z[k + 1]
      <4>1. CASE k = 1
        <5>1. CASE Len(s) = 0
          BY <1>2, <1>3, <1>5, <4>1, <5>1 DEF Inv, Linked
        <5>2. CASE Len(s) > 0
          <6>1. 1 \in 1..Len(s) /\ Len(z) # 1 /\ z[2] = s[1] /\ top = s[1]
            BY <1>2, <1>3, <5>2 DEF Inv, Linked
          <6>2. QED BY <1>3, <1>5, <4>1, <6>1
        <5>3. QED BY <1>2, <5>1, <5>2
      <4>2. CASE k # 1
        <5>1. PICK i \in 1..Len(s) : i = k - 1
          BY <1>4, <4>2
        <5>2. z[k] = s[i] /\ (k = Len(z) <=> i = Len(s))
          BY <1>2, <1>3, <1>4, <4>2, <5>1
        <5>3. next[s[i]] = IF i = Len(s) THEN NULL ELSE s[i + 1]
          BY DEF Inv, Linked
        <5>4. i # Len(s) => s[i + 1] = z[k + 1]
          <6>1. ASSUME i # Len(s) PROVE s[i + 1] = z[k + 1]
            <7>1. i + 1 = k /\ k \in 1..Len(s)
              BY <1>2, <1>3, <5>1, <5>2, <6>1
            <7>2. QED BY <1>3, <7>1
          <6>2. QED BY <6>1
        <5>5. QED BY <5>2, <5>3, <5>4
      <4>3. QED BY <4>1, <4>2
    <3>2. QED BY <3>1
  <2>4. Len(z) # 0
    BY <1>2, <1>3
  <2>5. QED BY <1>3, <1>5, <2>1, <2>2, <2>3, <2>4 DEF Linked
<1>8. /\ content' = <<call[t].item>> \o content
      /\ lin' = [lin EXCEPT ![t] = 1] /\ call' = call
      /\ drained' = [u \in Threads |-> drained[u] \/ (call[u] # NoCall /\ content' = <<>>)]
  BY PushesIs
<1>9. Filled(z)'
  <2>1. call[t].item \in Items /\ content \in Seq(Items) /\ item[n] = call[t].item
    BY DEF Inv, Types, TypeOK, HistTypeOK, Recorded
  <2>2. /\ Len(content') = Len(content) + 1 /\ content'[1] = call[t].item
        /\ \A k \in 1..Len(content) : content'[k + 1] = content[k]
    BY <1>8, <2>1, FirstIn
  <2>3. Len(content) = Len(s) /\ \A k \in 1..Len(s) : content[k] = item[s[k]]
    BY DEF Inv, Filled
  <2>4. ASSUME NEW k \in 1..Len(z) PROVE content'[k] = item'[z[k]]
    <3>1. CASE k = 1
      BY <1>3, <1>5, <2>1, <2>2, <3>1
    <3>2. CASE k # 1
      <4>1. PICK i \in 1..Len(s) : i = k - 1
        BY <1>4, <3>2
      <4>2. i + 1 = k /\ z[k] = s[i]
        BY <1>2, <1>3, <1>4, <3>2, <4>1
      <4>3. QED BY <1>5, <2>2, <2>3, <4>1, <4>2
    <3>3. QED BY <3>1, <3>2
  <2>5. QED BY <1>3, <2>2, <2>3, <2>4 DEF Filled
<1>10. Owned(z)'
  <2>1. ASSUME NEW u \in Threads, pc'[u] \in Preparing \cup Disposing
        PROVE  u # t /\ pc[u] = pc'[u] /\ Mine(u)' = Mine(u) /\ Mine(u) # n
    BY <1>1, <1>5, <1>6, <2>1 DEF Mine
  <2>2. Mine(t)' = NULL /\ \A u \in Threads : u # t => Mine(u)' = Mine(u)
    BY <1>5, <1>6 DEF Mine
  <2>3. NULL \notin live
    BY Constants DEF Inv, Types, TypeOK, MemTypeOK
  <2>4. ASSUME NEW u \in Threads, pc'[u] \in Preparing \cup Disposing
        PROVE  /\ Mine(u)' \in live'
               /\ \A k \in 1..Len(z) : z[k] # Mine(u)'
               /\ \A v \in Threads : Mine(v)' = Mine(u)' => v = u
    <3>1. /\ Mine(u) \in live /\ \A k \in 1..Len(s) : s[k] # Mine(u)
          /\ \A v \in Threads : Mine(v) = Mine(u) => v = u
      BY <2>1, <2>4 DEF Inv, Owned
    <3>2. Mine(u)' = Mine(u) /\ Mine(u) # n
      BY <2>1, <2>4
    <3>3. \A k \in 1..Len(z) : z[k] # Mine(u)
      BY <1>3, <1>4, <3>1, <3>2
    <3>4. \A v \in Threads : Mine(v)' = Mine(u) => v = u
      BY <2>2, <2>3, <3>1
    <3>5. QED BY <1>5, <3>1, <3>2, <3>3, <3>4
  <2>5. QED BY <2>4 DEF Owned
<1>11. Referenced'
  BY <1>5, <1>6 DEF Inv, Referenced, Guarded
<1>12. Recorded'
  <2>1. content' = <<>> => \A u \in Threads : call'[u] # NoCall => drained'[u]
    BY <1>8, EffectKeeps DEF Inv
  <2>2. lin'[t] = 1 /\ \A u \in Threads : u # t => lin'[u] = lin[u]
    BY <1>8 DEF Inv, Types, TypeOK, HistTypeOK
  <2>3. QED BY <1>5, <1>6, <1>8, <2>1, <2>2 DEF Inv, Recorded
<1>13. Prepared'
  <2>1. \A u \in Threads : u # t => pc[u] \notin {"a_top", "r_take"}
    BY DEF Inv, Locked
  <2>2. \A u \in Threads : drained[u] => drained'[u]
    BY <1>8, EffectKeeps DEF Inv
  <2>3. ASSUME NEW u \in Threads, pc'[u] = "r_empty" PROVE drained'[u]
    <3>1. pc[u] = "r_empty"
      BY <1>6, <2>3
    <3>2. QED BY <2>2, <3>1 DEF Inv, Prepared
  <2>4. QED BY <1>5, <1>6, <2>1, <2>3 DEF Inv, Prepared
<1>14. Locked'
  BY <1>5, <1>6 DEF Inv, Locked
<1>15. Inv(z)'
  BY <1>7, <1>9, <1>10, <1>11, <1>12, <1>13, <1>14 DEF Inv
<1>16. QED BY <1>15 DEF z

LEMMA TakeKeeps ==
  ASSUME NEW s, Inv(s), Types', NEW t \in Threads, NEW n, n = ltop[t], Takes(t, item[n]),
         NEW l, \/ kind = "treiber" /\ pc[t] = "r_cas" /\ l = "r_free"
                \/ kind = "lock" /\ pc[t] = "r_take" /\ l = "r_unlock",
         top = n, top' = next[n], pc' = [pc EXCEPT ![t] = l],
         UNCHANGED <<kind, lock, item, next, locals, mem>>
  PROVE  Inv(Tail(s))'
<1> DEFINE z == Tail(s)
<1> USE DEF Preparing, Added, Seeking, Disposing, Holding
<1>1. n \in Nodes /\ NULL \notin Nodes /\ n # NULL
  BY Constants DEF Inv, Types
<1>2. s \in Seq(Nodes) /\ Len(s) \in Nat /\ Len(s) > 0 /\ s[1] = n /\ n \in live
  BY <1>1, TopIsLive DEF Inv, Linked
<1>3. Len(z) = Len(s) - 1 /\ \A k \in 1..(Len(s) - 1) : z[k] = s[k + 1]
  BY <1>2, FirstOut
<1>4. z \in Seq(Nodes)
  BY <1>2, FirstOut
<1> HIDE DEF z
<1>5. \A k \in 1..Len(z) : k + 1 \in 1..Len(s) /\ z[k] = s[k + 1] /\ k + 1 # 1
  BY <1>2, <1>3
<1>6. /\ live' = live /\ next' = next /\ item' = item /\ node' = node /\ ltop' = ltop
      /\ lnext' = lnext /\ freer' = freer /\ waits' = waits /\ top' = next[n]
      /\ kind' = kind /\ lock' = lock
  BY DEF locals, mem
<1>7. pc'[t] = l /\ \A u \in Threads : u # t => pc'[u] = pc[u]
  BY DEF Inv, Types, TypeOK
<1>8. \A k \in 1..Len(z) : z[k] # n
  <2>1. 1 \in 1..Len(s)
    BY <1>2
  <2>2. QED BY <1>2, <1>5, <2>1 DEF Inv, Linked
<1>9. Linked(z)'
  <2>1. \A k \in 1..Len(z) : z[k] \in live
    BY <1>5 DEF Inv, Linked
  <2>2. \A j, k \in 1..Len(z) : z[j] = z[k] => j = k
    <3>1. ASSUME NEW j \in 1..Len(z), NEW k \in 1..Len(z), z[j] = z[k] PROVE j = k
      <4>1. s[j + 1] = s[k + 1] /\ j + 1 \in 1..Len(s) /\ k + 1 \in 1..Len(s)
        BY <1>5, <3>1
      <4>2. j + 1 = k + 1
        BY <4>1 DEF Inv, Linked
      <4>3. QED BY <1>2, <1>3, <4>2
    <3>2. QED BY <3>1
  <2>3. \A k \in 1..Len(z) : next[z[k]] = IF k = Len(z) THEN NULL ELSE z[k + 1]
    <3>1. ASSUME NEW k \in 1..Len(z) PROVE next[z[k]] = IF k = Len(z) THEN NULL ELSE z[k + 1]
      <4>1. PICK i \in 1..Len(s) : i = k + 1 /\ z[k] = s[i]
        BY <1>5
      <4>2. next[s[i]] = IF i = Len(s) THEN NULL ELSE s[i + 1]
        BY DEF Inv, Linked
      <4>3. i = Len(s) <=> k = Len(z)
        BY <1>2, <1>3, <4>1
      <4>4. k # Len(z) => i \in 1..(Len(s) - 1) /\ z[i] = s[i + 1]
        BY <1>2, <1>3, <4>1
      <4>5. QED BY <4>1, <4>2, <4>3, <4>4
    <3>2. QED BY <3>1
  <2>4. next[n] = IF Len(z) = 0 THEN NULL ELSE z[1]
    <3>1. 1 \in 1..Len(s)
      BY <1>2
    <3>2. next[n] = IF 1 = Len(s) THEN NULL ELSE s[1 + 1]
      BY <1>2, <3>1 DEF Inv, Linked
    <3>3. 1 = Len(s) <=> Len(z) = 0
      BY <1>2, <1>3
    <3>4. 1 # Len(s) => s[1 + 1] = z[1]
      BY <1>2, <1>3
    <3>5. QED BY <3>2, <3>3, <3>4
  <2>5. QED BY <1>4, <1>6, <2>1, <2>2, <2>3, <2>4 DEF Linked
<1>10. /\ content \in Seq(Items) /\ Len(content) = Len(s)
       /\ \A k \in 1..Len(s) : content[k] = item[s[k]]
  BY DEF Inv, Filled, Types, TypeOK, HistTypeOK
<1>11. content' = Tail(content) /\ content[1] = item[n] /\ item[n] \in Items
  <2>1. content' = SubSeq(content, 2, Len(content))
    BY TakesIs
  <2>2. SubSeq(content, 2, Len(content)) = Tail(content)
    BY <1>2, <1>10, FirstOut
  <2>3. 1 \in 1..Len(s) /\ content[1] \in Items
    BY <1>2, <1>10
  <2>4. QED BY <1>2, <1>10, <2>1, <2>2, <2>3
<1>12. /\ lin' = [lin EXCEPT ![t] = item[n]] /\ call' = call
       /\ drained' = [u \in Threads |-> drained[u] \/ (call[u] # NoCall /\ content' = <<>>)]
  BY TakesIs
<1>13. Filled(z)'
  <2>1. /\ Len(content') = Len(s) - 1
        /\ \A k \in 1..(Len(s) - 1) : content'[k] = content[k + 1]
    BY <1>2, <1>10, <1>11, FirstOut
  <2>2. \A k \in 1..Len(z) : content'[k] = item'[z[k]]
    BY <1>3, <1>5, <1>6, <1>10, <2>1
  <2>3. QED BY <1>3, <2>1, <2>2 DEF Filled
<1>14. Owned(z)'
  <2>1. ASSUME NEW u \in Threads, u # t
        PROVE  /\ Mine(u)' = Mine(u)
               /\ pc'[u] \in Preparing \cup Disposing => pc[u] \in Preparing \cup Disposing
    BY <1>6, <1>7, <2>1 DEF Mine
  <2>2. Mine(t)' = n /\ Mine(t) = NULL
    <3>1. ltop'[t] = n /\ pc'[t] \in {"r_free", "r_unlock"} /\ pc[t] \in {"r_cas", "r_take"}
      BY <1>6, <1>7
    <3>2. QED BY <3>1 DEF Mine
  <2>3. NULL \notin live
    BY <1>1 DEF Inv, Types, TypeOK, MemTypeOK
  <2>4. \A u \in Threads : pc[u] \in Preparing \cup Disposing =>
          /\ Mine(u) \in live /\ \A k \in 1..Len(s) : s[k] # Mine(u)
          /\ \A v \in Threads : Mine(v) = Mine(u) => v = u
    BY DEF Inv, Owned
  <2>5. \A u \in Threads : u # t => Mine(u) # n
    <3>1. 1 \in 1..Len(s)
      BY <1>2
    <3>2. \A u \in Threads : pc[u] \notin Preparing \cup Disposing => Mine(u) = NULL
      BY DEF Mine
    <3>3. QED BY <1>1, <1>2, <2>4, <3>1, <3>2
  <2>6. ASSUME NEW u \in Threads, pc'[u] \in Preparing \cup Disposing
        PROVE  /\ Mine(u)' \in live'
               /\ \A k \in 1..Len(z) : z[k] # Mine(u)'
               /\ \A v \in Threads : Mine(v)' = Mine(u)' => v = u
    <3>1. CASE u = t
      BY <1>2, <1>6, <1>8, <2>1, <2>2, <2>5, <3>1
    <3>2. CASE u # t
      <4>1. Mine(u)' = Mine(u) /\ pc[u] \in Preparing \cup Disposing
        BY <2>1, <2>6, <3>2
      <4>2. \A k \in 1..Len(z) : z[k] # Mine(u)
        BY <1>5, <2>4, <4>1
      <4>3. \A v \in Threads : Mine(v)' = Mine(u) => v = u
        BY <2>1, <2>2, <2>4, <2>5, <3>2, <4>1
      <4>4. QED BY <1>6, <2>4, <4>1, <4>2, <4>3
    <3>3. QED BY <3>1, <3>2
  <2>7. QED BY <2>6 DEF Owned
<1>15. Referenced'
  BY <1>6, <1>7 DEF Inv, Referenced, Guarded
<1>16. Recorded'
  <2>1. content' = <<>> => \A u \in Threads : call'[u] # NoCall => drained'[u]
    BY <1>12, EffectKeeps DEF Inv
  <2>2. lin'[t] = item[n] /\ \A u \in Threads : u # t => lin'[u] = lin[u]
    BY <1>12 DEF Inv, Types, TypeOK, HistTypeOK
  <2>3. QED BY <1>6, <1>7, <1>11, <1>12, <2>1, <2>2 DEF Inv, Recorded
<1>17. Prepared'
  <2>1. \A u \in Threads : u # t => pc[u] \notin {"a_top", "r_take"}
    BY DEF Inv, Locked
  <2>2. \A u \in Threads : drained[u] => drained'[u]
    BY <1>12, EffectKeeps DEF Inv
  <2>3. ASSUME NEW u \in Threads, pc'[u] = "r_empty" PROVE drained'[u]
    <3>1. pc[u] = "r_empty"
      BY <1>7, <2>3
    <3>2. QED BY <2>2, <3>1 DEF Inv, Prepared
  <2>4. QED BY <1>6, <1>7, <2>1, <2>3 DEF Inv, Prepared
<1>18. Locked'
  BY <1>6, <1>7 DEF Inv, Locked
<1>19. Inv(z)'
  BY <1>9, <1>13, <1>14, <1>15, <1>16, <1>17, <1>18 DEF Inv
<1>20. QED BY <1>19 DEF z

LEMMA AddCasKeeps ==
  ASSUME NEW s, Inv(s), Types', NEW t \in Threads, kind = "treiber", AddCas(t), kind' = kind
  PROVE  \E z : Inv(z)'
<1>1. PICK n : n = node[t]
  OBVIOUS
<1>2. CASE top = ltop[t]
  <2>1. next[node[t]] = top
    BY <1>2 DEF AddCas, Inv, Prepared
  <2>2. Inv(<<n>> \o s)'
    BY <1>1, <1>2, <2>1, PushKeeps DEF AddCas
  <2>3. QED BY <2>2
<1>3. CASE top # ltop[t]
  <2> USE DEF Inv, Preparing, Added, Seeking, Disposing, Holding, AddCas, locals, mem, hist
  <2>1. Linked(s)'
    BY <1>3 DEF Linked
  <2>2. Filled(s)'
    BY <1>3 DEF Filled
  <2>3. Owned(s)'
    BY <1>3 DEF Owned, Mine, Types, TypeOK
  <2>4. Referenced'
    BY <1>3 DEF Referenced, Guarded, Types, TypeOK
  <2>5. Recorded'
    BY <1>3 DEF Recorded, Types, TypeOK
  <2>6. Prepared'
    BY <1>3 DEF Prepared, Types, TypeOK
  <2>7. Locked'
    BY <1>3 DEF Locked, Types, TypeOK
  <2>8. Inv(s)'
    BY <2>1, <2>2, <2>3, <2>4, <2>5, <2>6, <2>7
  <2>9. QED BY <2>8
<1>4. QED BY <1>2, <1>3

LEMMA RemoveCasKeeps ==
  ASSUME NEW s, Inv(s), Types', NEW t \in Threads, kind = "treiber", RemoveCas(t), kind' = kind
  PROVE  \E z : Inv(z)'
<1>1. PICK n : n = ltop[t]
  OBVIOUS
<1>2. CASE top = ltop[t]
  <2>1. lnext[t] = next[n]
    BY <1>1 DEF RemoveCas, Inv, Referenced
  <2>2. Inv(Tail(s))'
    BY <1>1, <1>2, <2>1, TakeKeeps DEF RemoveCas
  <2>3. QED BY <2>2
<1>3. CASE top # ltop[t]
  <2> USE DEF Inv, Preparing, Added, Seeking, Disposing, Holding, RemoveCas, locals, mem, hist
  <2>1. Linked(s)'
    BY <1>3 DEF Linked
  <2>2. Filled(s)'
    BY <1>3 DEF Filled
  <2>3. Owned(s)'
    BY <1>3 DEF Owned, Mine, Types, TypeOK
  <2>4. Referenced'
    BY <1>3 DEF Referenced, Guarded, Types, TypeOK
  <2>5. Recorded'
    BY <1>3 DEF Recorded, Types, TypeOK
  <2>6. Prepared'
    BY <1>3 DEF Prepared, Types, TypeOK
  <2>7. Locked'
    BY <1>3 DEF Locked, Types, TypeOK
  <2>8. Inv(s)'
    BY <2>1, <2>2, <2>3, <2>4, <2>5, <2>6, <2>7
  <2>9. QED BY <2>8
<1>4. QED BY <1>2, <1>3

LEMMA AddTopLockedKeeps ==
  ASSUME NEW s, Inv(s), Types', NEW t \in Threads, kind = "lock", AddTopLocked(t), kind' = kind
  PROVE  \E z : Inv(z)'
<1>1. PICK n : n = node[t]
  OBVIOUS
<1>2. next[node[t]] = top
  BY DEF AddTopLocked, Goto, Inv, Prepared
<1>3. Inv(<<n>> \o s)'
  BY <1>1, <1>2, PushKeeps DEF AddTopLocked, Goto
<1>4. QED BY <1>3

LEMMA RemoveTakeLockedKeeps ==
  ASSUME NEW s, Inv(s), Types', NEW t \in Threads, kind = "lock", RemoveTakeLocked(t), kind' = kind
  PROVE  \E z : Inv(z)'
<1>1. PICK n : n = ltop[t]
  OBVIOUS
<1>2. top = n
  BY <1>1 DEF RemoveTakeLocked, Goto, Inv, Prepared
<1>3. Inv(Tail(s))'
  BY <1>1, <1>2, TakeKeeps DEF RemoveTakeLocked, Goto
<1>4. QED BY <1>3

-----------------------------------------------------------------------------
(* The steps that allocate and free nodes, and the reads of the top.       *)

LEMMA RemoveTopKeeps ==
  ASSUME NEW s, Inv(s), Types', NEW t \in Threads, kind = "treiber", RemoveTop(t), kind' = kind
  PROVE  Inv(s)'
<1> USE DEF Inv, Preparing, Added, Seeking, Disposing, Holding, RemoveTop, shared, mem
<1>1. CASE top = NULL
  <2>1. Return(t, 0)
    BY <1>1
  <2>2. Linked(s)'
    BY DEF Linked
  <2>3. Filled(s)'
    BY <2>1, ReturnIs DEF Filled
  <2>4. Owned(s)'
    BY <2>1, ReturnIs DEF Owned, Mine, Types, TypeOK, MemTypeOK
  <2>5. Referenced'
    BY <2>1, ReturnIs, Constants DEF Referenced, Guarded, Types, TypeOK
  <2>6. Recorded' /\ Prepared'
    BY <2>1, ReturnKeeps
  <2>7. Locked'
    BY <2>1, ReturnIs DEF Locked, Types, TypeOK
  <2>8. QED BY <2>2, <2>3, <2>4, <2>5, <2>6, <2>7
<1>2. CASE top # NULL
  <2> USE DEF hist
  <2>1. Linked(s)'
    BY DEF Linked
  <2>2. Filled(s)'
    BY <1>2 DEF Filled
  <2>3. Owned(s)'
    BY <1>2 DEF Owned, Mine, Types, TypeOK
  <2>4. Referenced'
    <3>1. /\ top \in live /\ (next[top] = NULL \/ next[top] \in live) /\ Len(s) > 0 /\ top = s[1]
          /\ Len(s) \in Nat
      BY <1>2, TopIsLive DEF Linked
    <3>2. \A u \in Threads : pc[u] \in Preparing => node[u] # top
      <4>1. 1 \in 1..Len(s)
        BY <3>1
      <4>2. QED BY <3>1, <4>1, OwnNode
    <3>3. QED BY <1>2, <3>1, <3>2 DEF Referenced, Guarded, Types, TypeOK
  <2>5. Recorded'
    BY <1>2 DEF Recorded, Types, TypeOK
  <2>6. Prepared'
    BY <1>2 DEF Prepared, Types, TypeOK
  <2>7. Locked'
    BY <1>2 DEF Locked, Types, TypeOK
  <2>8. QED BY <2>1, <2>2, <2>3, <2>4, <2>5, <2>6, <2>7
<1>3. QED BY <1>1, <1>2

\* A call begins: it has seen the stack as it is.
LEMMA BeginKeeps ==
  ASSUME Types, Recorded, NEW t \in Threads, NEW c, Begins(t, c)
  PROVE  /\ content' = <<>> => \A u \in Threads : call'[u] # NoCall => drained'[u]
         /\ \A u \in Threads : u # t => call'[u] = call[u] /\ drained'[u] = drained[u]
         /\ call'[t] = c /\ lin' = lin /\ content' = content
<1>1. /\ call' = [call EXCEPT ![t] = c]
      /\ drained' = [drained EXCEPT ![t] = (content = <<>>)]
      /\ content' = content /\ lin' = lin
  BY BeginsIs
<1>2. call \in [Threads -> Calls \cup {NoCall}] /\ drained \in [Threads -> BOOLEAN]
  BY DEF Types, TypeOK, HistTypeOK
<1>3. /\ call'[t] = c /\ \A u \in Threads : u # t => call'[u] = call[u] /\ drained'[u] = drained[u]
      /\ drained'[t] = (content = <<>>)
  BY <1>1, <1>2, Zenon
<1>4. ASSUME content = <<>>, NEW u \in Threads, call'[u] # NoCall PROVE drained'[u]
  <2>1. CASE u = t
    BY <1>3, <1>4, <2>1, Zenon
  <2>2. CASE u # t
    <3>1. drained[u]
      BY <1>3, <1>4, <2>2, Zenon DEF Recorded
    <3>2. QED BY <1>3, <2>2, <3>1, Zenon
  <2>3. QED BY <2>1, <2>2
<1>5. QED BY <1>1, <1>3, <1>4

LEMMA RemoveCallKeeps ==
  ASSUME NEW s, Inv(s), Types', NEW t \in Threads, RemoveCall(t), kind' = kind
  PROVE  Inv(s)'
<1> USE DEF Inv, Preparing, Added, Seeking, Disposing, Holding, RemoveCall, Goto, shared, locals, mem
<1>1. PICK c : Begins(t, c)
  OBVIOUS
<1>2. /\ content' = <<>> => \A u \in Threads : call'[u] # NoCall => drained'[u]
      /\ \A u \in Threads : u # t => call'[u] = call[u] /\ drained'[u] = drained[u]
      /\ lin' = lin /\ content' = content
  BY <1>1, BeginKeeps
<1>3. Linked(s)'
  BY DEF Linked
<1>4. Filled(s)'
  BY <1>2 DEF Filled
<1>5. Owned(s)'
  BY DEF Owned, Mine, Types, TypeOK
<1>6. Referenced'
  BY DEF Referenced, Guarded, Types, TypeOK
<1>7. Recorded'
  BY <1>2 DEF Recorded, Types, TypeOK
<1>8. Prepared'
  <2>1. ASSUME NEW u \in Threads, pc'[u] = "r_empty" PROVE drained'[u]
    <3>1. u # t /\ pc[u] = "r_empty"
      BY <2>1 DEF Types, TypeOK
    <3>2. drained[u]
      BY <3>1 DEF Prepared
    <3>3. QED BY <1>2, <3>1, <3>2
  <2>2. QED BY <2>1 DEF Prepared, Types, TypeOK
<1>9. Locked'
  BY DEF Locked, Types, TypeOK
<1>10. QED BY <1>3, <1>4, <1>5, <1>6, <1>7, <1>8, <1>9

\* Nobody works with a node that is given out: this is NoReuseUnderReference, step by
\* step.
LEMMA AvailableIsUnknown ==
  ASSUME NEW s, Inv(s), NEW t \in Threads, NEW n \in Available(t)
  PROVE  /\ n \in Nodes /\ n \notin live /\ n # NULL
         /\ \A k \in 1..Len(s) : s[k] # n
         /\ \A u \in Threads :
              /\ ~ Guarded(u, n) /\ ltop[u] # n /\ lnext[u] # n
              /\ pc[u] \in Preparing => node[u] # n
              /\ pc[u] \in {"r_next", "r_cas"} => next[ltop[u]] # n
<1>1. n \in Nodes /\ n \notin live /\ n # NULL
  BY Constants DEF Available
<1>2. freer[n] = NoThread \/ waits[n] = {}
  BY DEF Available
<1>3. \A u \in Threads : ~ Guarded(u, n)
  BY <1>1, <1>2 DEF Guarded
<1>4. \A k \in 1..Len(s) : s[k] # n
  BY <1>1 DEF Inv, Linked
<1>5. \A u \in Threads : pc[u] \in Preparing => node[u] # n
  BY <1>1, OwnNode DEF Inv
<1>6. QED BY <1>1, <1>3, <1>4, <1>5 DEF Inv, Referenced

LEMMA AddAllocKeeps ==
  ASSUME NEW s, Inv(s), Types', NEW t \in Threads, NEW x \in Items, AddAlloc(t, x), kind' = kind
  PROVE  Inv(s)'
<1>1. PICK n \in Available(t) :
        /\ ssmem_alloc(t, n)
        /\ node' = [node EXCEPT ![t] = n]
        /\ item' = [item EXCEPT ![n] = x]
        /\ next' = [next EXCEPT ![n] = NULL]
  BY DEF AddAlloc
<1>2. /\ n \in Nodes /\ n \notin live /\ n # NULL
      /\ \A k \in 1..Len(s) : s[k] # n
      /\ \A u \in Threads :
           /\ ltop[u] # n /\ lnext[u] # n
           /\ pc[u] \in Preparing => node[u] # n
           /\ pc[u] \in {"r_next", "r_cas"} => next[ltop[u]] # n
  BY AvailableIsUnknown
<1> DEFINE c == [op |-> "add", item |-> x]
<1>3. Begins(t, c) /\ c.item = x
  BY DEF AddAlloc
<1> HIDE DEF c
<1>4. /\ content' = <<>> => \A u \in Threads : call'[u] # NoCall => drained'[u]
      /\ \A u \in Threads : u # t => call'[u] = call[u] /\ drained'[u] = drained[u]
      /\ call'[t] = c /\ lin' = lin /\ content' = content
  BY <1>3, BeginKeeps DEF Inv
<1>5. /\ live' = live \cup {n} /\ freer' = [freer EXCEPT ![n] = NoThread] /\ waits' = waits
      /\ top' = top /\ lock' = lock /\ ltop' = ltop /\ lnext' = lnext
      /\ pc[t] = "idle" /\ pc' = [pc EXCEPT ![t] = "add"]
  BY <1>1 DEF AddAlloc, ssmem_alloc, Goto
<1>6. /\ pc'[t] = "add" /\ node'[t] = n
      /\ \A u \in Threads : u # t => pc'[u] = pc[u] /\ node'[u] = node[u]
      /\ item'[n] = x /\ next'[n] = NULL
      /\ \A m \in Nodes : m # n => item'[m] = item[m] /\ next'[m] = next[m] /\ freer'[m] = freer[m]
  BY <1>1, <1>2, <1>5 DEF Inv, Types, TypeOK, MemTypeOK
<1> USE DEF Inv, Preparing, Added, Seeking, Disposing, Holding
<1>7. Linked(s)'
  <2>1. \A k \in 1..Len(s) : s[k] \in Nodes /\ next'[s[k]] = next[s[k]]
    BY <1>2, <1>6 DEF Linked
  <2>2. QED BY <1>5, <2>1 DEF Linked
<1>8. Filled(s)'
  <2>1. \A k \in 1..Len(s) : s[k] \in Nodes /\ item'[s[k]] = item[s[k]]
    BY <1>2, <1>6 DEF Linked
  <2>2. QED BY <1>4, <2>1 DEF Filled
<1>9. Owned(s)'
  <2>1. Mine(t)' = n /\ \A u \in Threads : u # t => Mine(u)' = Mine(u)
    BY <1>5, <1>6 DEF Mine
  <2>2. \A u \in Threads : Mine(u) # n
    BY <1>2 DEF Mine
  <2>3. ASSUME NEW u \in Threads, pc'[u] \in Preparing \cup Disposing
        PROVE  /\ Mine(u)' \in live'
               /\ \A k \in 1..Len(s) : s[k] # Mine(u)'
               /\ \A v \in Threads : Mine(v)' = Mine(u)' => v = u
    <3>1. CASE u = t
      BY <1>2, <1>5, <2>1, <2>2, <3>1
    <3>2. CASE u # t
      <4>1. pc[u] \in Preparing \cup Disposing /\ Mine(u)' = Mine(u)
        BY <1>6, <2>1, <2>3, <3>2
      <4>2. /\ Mine(u) \in live /\ \A k \in 1..Len(s) : s[k] # Mine(u)
            /\ \A v \in Threads : Mine(v) = Mine(u) => v = u
        BY <4>1 DEF Owned
      <4>3. QED BY <1>5, <2>1, <2>2, <4>1, <4>2
    <3>3. QED BY <3>1, <3>2
  <2>4. QED BY <2>3 DEF Owned
<1>10. Referenced'
  <2>1. ASSUME NEW u \in Threads, NEW m \in Nodes \cup {NULL}, Guarded(u, m), m # n
        PROVE  Guarded(u, m)'
    BY <1>5, <1>6, <2>1 DEF Guarded
  <2>2. ASSUME NEW u \in Threads
        PROVE  Guarded(u, ltop[u])' /\ Guarded(u, lnext[u])'
    <3>1. ltop[u] \in Nodes \cup {NULL} /\ lnext[u] \in Nodes \cup {NULL}
      BY DEF Types, TypeOK
    <3>2. Guarded(u, ltop[u]) /\ Guarded(u, lnext[u])
      BY DEF Referenced
    <3>3. ltop'[u] = ltop[u] /\ lnext'[u] = lnext[u]
      BY <1>5
    <3>4. QED BY <1>2, <1>5, <1>6, <3>1, <3>2, <3>3 DEF Guarded
  <2>3. ASSUME NEW u \in Threads, pc'[u] \in {"r_next", "r_cas"}
        PROVE  /\ Guarded(u, next[ltop[u]])'
               /\ \A v \in Threads : pc'[v] \in Preparing => node'[v] # ltop'[u]
               /\ pc'[u] = "r_cas" => lnext'[u] = next'[ltop'[u]]
    <3>1. u # t /\ pc[u] = pc'[u]
      BY <1>6, <2>3
    <3>2. ltop[u] \in Nodes /\ ltop'[u] = ltop[u] /\ next'[ltop[u]] = next[ltop[u]]
          /\ lnext'[u] = lnext[u]
      BY <1>2, <1>5, <1>6, <2>3, <3>1 DEF Types
    <3>3. next[ltop[u]] \in Nodes \cup {NULL} /\ next[ltop[u]] # n
      BY <1>2, <2>3, <3>1, <3>2 DEF Types, TypeOK
    <3>4. Guarded(u, next[ltop[u]])
      BY <2>3, <3>1 DEF Referenced
    <3>5. Guarded(u, next[ltop[u]])'
      BY <1>5, <1>6, <3>2, <3>3, <3>4 DEF Guarded
    <3>6. \A v \in Threads : pc'[v] \in Preparing => node'[v] # ltop'[u]
      BY <1>2, <1>5, <1>6, <2>3, <3>1 DEF Referenced
    <3>7. pc'[u] = "r_cas" => lnext'[u] = next'[ltop'[u]]
      BY <3>1, <3>2 DEF Referenced
    <3>8. QED BY <3>5, <3>6, <3>7
  <2>4. QED BY <2>2, <2>3 DEF Referenced
<1>11. Recorded'
  <2>1. ASSUME NEW u \in Threads
        PROVE  /\ pc'[u] \in {"idle"} \cup Preparing \cup Seeking => lin'[u] = Stack!Pending
               /\ pc'[u] \in Preparing => item'[node'[u]] = call'[u].item
               /\ pc'[u] \in Added => lin'[u] = 1
               /\ pc'[u] \in Disposing => lin'[u] = item'[ltop'[u]] /\ lin'[u] \in Items
    <3>1. CASE u = t
      BY <1>3, <1>4, <1>5, <1>6, <3>1 DEF Recorded
    <3>2. CASE u # t
      <4>1. pc'[u] = pc[u] /\ node'[u] = node[u] /\ ltop'[u] = ltop[u] /\ call'[u] = call[u]
            /\ lin'[u] = lin[u]
        BY <1>4, <1>5, <1>6, <3>2
      <4>2. pc[u] \in Preparing => node[u] \in Nodes /\ node[u] # n
        BY <1>2 DEF Types
      <4>3. pc[u] \in Disposing => ltop[u] \in Nodes /\ ltop[u] # n
        BY <1>2 DEF Types
      <4>4. QED BY <1>6, <4>1, <4>2, <4>3 DEF Recorded
    <3>3. QED BY <3>1, <3>2
  <2>2. QED BY <1>4, <2>1 DEF Recorded
<1>12. Prepared'
  <2>1. ASSUME NEW u \in Threads
        PROVE  /\ pc'[u] = "a_cas" => next'[node'[u]] = ltop'[u]
               /\ pc'[u] = "a_top" => next'[node'[u]] = top'
               /\ pc'[u] = "r_take" => ltop'[u] = top'
               /\ pc'[u] = "r_empty" => drained'[u]
    <3>1. CASE u = t
      BY <1>6, <3>1
    <3>2. CASE u # t
      <4>1. pc'[u] = pc[u] /\ node'[u] = node[u] /\ ltop'[u] = ltop[u] /\ drained'[u] = drained[u]
            /\ top' = top
        BY <1>4, <1>5, <1>6, <3>2
      <4>2. pc[u] \in Preparing => next'[node[u]] = next[node[u]]
        BY <1>2, <1>6 DEF Types
      <4>3. QED BY <4>1, <4>2 DEF Prepared
    <3>3. QED BY <3>1, <3>2
  <2>2. QED BY <2>1 DEF Prepared
<1>13. Locked'
  BY <1>5, <1>6 DEF Locked
<1>14. QED BY <1>7, <1>8, <1>9, <1>10, <1>11, <1>12, <1>13

LEMMA RemoveFreeKeeps ==
  ASSUME NEW s, Inv(s), Types', NEW t \in Threads, RemoveFree(t), kind' = kind
  PROVE  Inv(s)'
<1> USE DEF Inv, Preparing, Added, Seeking, Disposing, Holding, shared
<1>1. PICK n : n = ltop[t]
  OBVIOUS
<1>2. /\ pc[t] = "r_free" /\ Return(t, item[n]) /\ ssmem_free(t, n)
      /\ top' = top /\ lock' = lock /\ item' = item /\ next' = next
  BY <1>1 DEF RemoveFree
<1>3. n \in Nodes /\ Mine(t) = n /\ n \in live /\ \A k \in 1..Len(s) : s[k] # n
  BY <1>1, <1>2 DEF Types, Owned, Mine
<1>4. \A u \in Threads : pc[u] \in Preparing \cup Disposing /\ u # t => Mine(u) # n
  BY <1>2, <1>3 DEF Owned
<1>5. /\ pc' = [pc EXCEPT ![t] = "idle"] /\ node' = [node EXCEPT ![t] = NULL]
      /\ ltop' = [ltop EXCEPT ![t] = NULL] /\ lnext' = [lnext EXCEPT ![t] = NULL]
      /\ content' = content
  BY <1>2, ReturnIs
<1>6. /\ pc'[t] = "idle" /\ ltop'[t] = NULL /\ lnext'[t] = NULL
      /\ \A u \in Threads : u # t => /\ pc'[u] = pc[u] /\ node'[u] = node[u]
                                     /\ ltop'[u] = ltop[u] /\ lnext'[u] = lnext[u]
  BY <1>5 DEF Types, TypeOK
<1>7. /\ live' = live \ {n} /\ freer'[n] = t
      /\ \A m \in Nodes : m # n => freer'[m] = freer[m]
      /\ waits'[n] = Threads \ {t}
      /\ \A m \in Nodes : m # n => waits'[m] = waits[m] \ {t}
  BY <1>2, <1>3 DEF ssmem_free, Types, TypeOK, MemTypeOK
<1>8. Linked(s)'
  BY <1>2, <1>3, <1>7 DEF Linked
<1>9. Filled(s)'
  BY <1>2, <1>5 DEF Filled
<1>10. Owned(s)'
  <2>1. Mine(t)' = NULL /\ \A u \in Threads : u # t => Mine(u)' = Mine(u)
    BY <1>6 DEF Mine
  <2>2. NULL \notin live
    BY Constants DEF Types, TypeOK, MemTypeOK
  <2>3. ASSUME NEW u \in Threads, pc'[u] \in Preparing \cup Disposing
        PROVE  /\ Mine(u)' \in live'
               /\ \A k \in 1..Len(s) : s[k] # Mine(u)'
               /\ \A v \in Threads : Mine(v)' = Mine(u)' => v = u
    <3>1. u # t /\ pc[u] \in Preparing \cup Disposing /\ Mine(u)' = Mine(u)
      BY <1>6, <2>1, <2>3
    <3>2. /\ Mine(u) \in live /\ \A k \in 1..Len(s) : s[k] # Mine(u)
          /\ \A v \in Threads : Mine(v) = Mine(u) => v = u
      BY <3>1 DEF Owned
    <3>3. QED BY <1>4, <1>7, <2>1, <2>2, <3>1, <3>2
  <2>4. QED BY <2>3 DEF Owned
<1>11. Referenced'
  <2>1. ASSUME NEW u \in Threads, u # t
        PROVE  \A m \in Nodes \cup {NULL} : Guarded(u, m) =>
                 m = NULL \/ m \in live' \/ (freer'[m] # NoThread /\ u \in waits'[m])
    <3>1. NoThread # t
      BY Constants
    <3>2. QED BY <1>3, <1>7, <2>1, <3>1 DEF Guarded
  <2>2. ASSUME NEW u \in Threads
        PROVE  Guarded(u, ltop[u])' /\ Guarded(u, lnext[u])'
    <3>1. CASE u = t
      BY <1>6, <3>1 DEF Guarded
    <3>2. CASE u # t
      <4>1. ltop[u] \in Nodes \cup {NULL} /\ lnext[u] \in Nodes \cup {NULL}
        BY DEF Types, TypeOK
      <4>2. QED BY <1>6, <2>1, <3>2, <4>1 DEF Referenced, Guarded
    <3>3. QED BY <3>1, <3>2
  <2>3. ASSUME NEW u \in Threads, pc'[u] \in {"r_next", "r_cas"}
        PROVE  /\ Guarded(u, next[ltop[u]])'
               /\ \A v \in Threads : pc'[v] \in Preparing => node'[v] # ltop'[u]
               /\ pc'[u] = "r_cas" => lnext'[u] = next'[ltop'[u]]
    <3>1. u # t /\ pc[u] = pc'[u] /\ ltop'[u] = ltop[u] /\ lnext'[u] = lnext[u]
      BY <1>6, <2>3
    <3>2. next[ltop[u]] \in Nodes \cup {NULL}
      BY <2>3, <3>1 DEF Types, TypeOK
    <3>3. Guarded(u, next[ltop[u]])
      BY <2>3, <3>1 DEF Referenced
    <3>4. Guarded(u, next[ltop[u]])'
      BY <1>2, <2>1, <3>1, <3>2, <3>3 DEF Guarded
    <3>5. \A v \in Threads : pc'[v] \in Preparing => node'[v] # ltop'[u]
      BY <1>6, <2>3, <3>1 DEF Referenced
    <3>6. QED BY <1>2, <3>1, <3>4, <3>5 DEF Referenced
  <2>4. QED BY <2>2, <2>3 DEF Referenced
<1>12. Recorded' /\ Prepared'
  BY <1>2, ReturnKeeps
<1>13. Locked'
  BY <1>2, <1>6 DEF Locked
<1>14. QED BY <1>8, <1>9, <1>10, <1>11, <1>12, <1>13

-----------------------------------------------------------------------------
(* The theorems.                                                           *)

\* There is a chain with which the invariant holds.
IInv == \E s : Inv(s)

LEMMA InitInv ==
  ASSUME LockInitialised, Init
  PROVE  Inv(<<>>)
<1>1. Types
  BY InitTypes
<1>2. /\ content = <<>> /\ call = [t \in Threads |-> NoCall]
      /\ lin = [t \in Threads |-> Queue!Pending]
  BY DEF Init, HistInit, Queue!Init, NoCall
<1>3. /\ top = NULL /\ lock = InitialLock /\ pc = [t \in Threads |-> "idle"]
      /\ ltop = [t \in Threads |-> NULL] /\ lnext = [t \in Threads |-> NULL]
      /\ kind \in Kinds
  BY DEF Init
<1>4. Linked(<<>>) /\ Filled(<<>>)
  BY <1>2, <1>3 DEF Linked, Filled
<1>5. Owned(<<>>) /\ Referenced /\ Prepared
  BY <1>3 DEF Owned, Referenced, Guarded, Prepared, Preparing, Disposing
<1>6. Recorded
  BY <1>2, <1>3, Constants DEF Recorded, Preparing, Added, Disposing
<1>7. Locked
  BY <1>3 DEF Locked, LockInitialised, Holding
<1>8. QED BY <1>1, <1>4, <1>5, <1>6, <1>7 DEF Inv

LEMMA StepInv == IInv /\ [Next]_vars => IInv'
<1> SUFFICES ASSUME NEW s, Inv(s), [Next]_vars PROVE \E z : Inv(z)'
  BY DEF IInv
<1>1. Types'
  BY StepTypes DEF Inv
<1>2. CASE UNCHANGED vars
  <2> USE <1>2 DEF vars, shared, locals, mem, hist, Inv
  <2>1. Linked(s)' /\ Filled(s)'
    BY DEF Linked, Filled
  <2>2. Owned(s)' /\ Referenced'
    BY DEF Owned, Mine, Referenced, Guarded
  <2>3. Recorded' /\ Prepared' /\ Locked'
    BY DEF Recorded, Prepared, Locked
  <2>4. Inv(s)'
    BY <1>1, <2>1, <2>2, <2>3
  <2>5. QED BY <2>4
<1>3. CASE Next
  <2> PICK t \in Threads :
           /\ kind' = kind
           /\ \/ \E x \in Items : AddAlloc(t, x)
              \/ RemoveCall(t)
              \/ kind = "treiber" /\ AddTop(t)
              \/ kind = "treiber" /\ AddCas(t)
              \/ kind = "treiber" /\ AddReturn(t)
              \/ kind = "treiber" /\ RemoveTop(t)
              \/ kind = "treiber" /\ RemoveNext(t)
              \/ kind = "treiber" /\ RemoveCas(t)
              \/ RemoveFree(t)
              \/ kind = "lock" /\ AddLock(t)
              \/ kind = "lock" /\ AddNextLocked(t)
              \/ kind = "lock" /\ AddTopLocked(t)
              \/ kind = "lock" /\ AddUnlock(t)
              \/ kind = "lock" /\ RemoveLock(t)
              \/ kind = "lock" /\ RemoveTopLocked(t)
              \/ kind = "lock" /\ RemoveEmptyLocked(t)
              \/ kind = "lock" /\ RemoveTakeLocked(t)
              \/ kind = "lock" /\ RemoveUnlock(t)
    BY <1>3, Steps
  <2>1. CASE \E x \in Items : AddAlloc(t, x)
    BY <1>1, <2>1, AddAllocKeeps
  <2>2. CASE RemoveCall(t)
    BY <1>1, <2>2, RemoveCallKeeps
  <2>3. CASE RemoveFree(t)
    BY <1>1, <2>3, RemoveFreeKeeps
  <2>4. CASE kind = "treiber" /\ (AddTop(t) \/ AddReturn(t) \/ RemoveTop(t) \/ RemoveNext(t))
    BY <1>1, <2>4, AddTopKeeps, AddReturnKeeps, RemoveTopKeeps, RemoveNextKeeps
  <2>5. CASE kind = "treiber" /\ (AddCas(t) \/ RemoveCas(t))
    BY <1>1, <2>5, AddCasKeeps, RemoveCasKeeps
  <2>6. CASE kind = "lock" /\ (AddLock(t) \/ AddNextLocked(t) \/ AddUnlock(t))
    BY <1>1, <2>6, AddLockKeeps, AddNextLockedKeeps, AddUnlockKeeps
  <2>7. CASE kind = "lock" /\ (RemoveLock(t) \/ RemoveTopLocked(t))
    BY <1>1, <2>7, RemoveLockKeeps, RemoveTopLockedKeeps
  <2>8. CASE kind = "lock" /\ (RemoveEmptyLocked(t) \/ RemoveUnlock(t))
    BY <1>1, <2>8, RemoveEmptyLockedKeeps, RemoveUnlockKeeps
  <2>9. CASE kind = "lock" /\ (AddTopLocked(t) \/ RemoveTakeLocked(t))
    BY <1>1, <2>9, AddTopLockedKeeps, RemoveTakeLockedKeeps
  <2>10. QED BY <2>1, <2>2, <2>3, <2>4, <2>5, <2>6, <2>7, <2>8, <2>9
<1>4. QED BY <1>2, <1>3

\* The chain of nodes from the top on is the abstract stack: for any number of threads,
\* items and nodes no item is lost, doubled, or in memory that has been freed.
THEOREM StackIsChain ==
  ASSUME LockInitialised
  PROVE  Spec => []ChainIsContent
<1>1. Init => IInv
  BY InitInv DEF IInv
<1>2. IInv => ChainIsContent
  <2> SUFFICES ASSUME NEW s, Inv(s) PROVE ChainIsContent
    BY DEF IInv
  <2>1. Chain = s /\ count = Len(s)
    BY ChainIs DEF Inv, count
  <2>2. /\ \A k \in 1..Len(s) : s[k] \in live
        /\ content \in Seq(Items) /\ Len(content) = Len(s)
        /\ \A k \in 1..Len(s) : content[k] = item[s[k]]
    BY DEF Inv, Linked, Filled, Types, TypeOK, HistTypeOK
  <2>3. content = [k \in 1..Len(s) |-> item[s[k]]]
    BY <2>2
  <2>4. QED BY <2>1, <2>2, <2>3 DEF ChainIsContent
<1>3. QED BY <1>1, <1>2, StepInv, PTL DEF Spec

\* ssmem gives no node out again while a thread may still compare its address: the CAS
\* of the Treiber stack cannot be deceived.
THEOREM StackMemoryIsSafe ==
  ASSUME LockInitialised
  PROVE  Spec => NoReuseUnderReference
<1>1. Init => IInv
  BY InitInv DEF IInv
<1>2. IInv /\ [Next]_vars =>
        [\A n \in live' \ live : \A t \in Threads : n \notin {ltop[t], lnext[t]}]_vars
  <2> SUFFICES ASSUME NEW s, Inv(s), Next, NEW n \in live' \ live, NEW u \in Threads
               PROVE  n \notin {ltop[u], lnext[u]}
    BY DEF IInv
  <2>1. PICK t \in Threads : (\E x \in Items : AddAlloc(t, x)) \/ live' \subseteq live
    BY Steps DEF RemoveCall, AddTop, AddCas, AddReturn, RemoveTop, RemoveNext, RemoveCas, RemoveFree,
                 ssmem_free, AddLock, Lock, AddNextLocked, AddTopLocked, AddUnlock, RemoveLock,
                 RemoveTopLocked, RemoveEmptyLocked, RemoveTakeLocked, RemoveUnlock, mem
  <2>2. PICK m \in Available(t) : live' = live \cup {m}
    BY <2>1 DEF AddAlloc, ssmem_alloc
  <2>3. QED BY <2>2, AvailableIsUnknown
<1>3. QED BY <1>1, <1>2, StepInv, PTL DEF Spec, NoReuseUnderReference

\* Each step of a stack is a step of the atomic stack, or none.
LEMMA Simulates ==
  ASSUME NEW s, Inv(s), [Next]_vars
  PROVE  [Stack!Next]_Stack!vars
<1> USE DEF Preparing, Added, Seeking, Disposing
<1>1. CASE UNCHANGED hist
  BY <1>1 DEF hist, Stack!vars
<1>2. ASSUME NEW t \in Threads, NEW c \in Calls, Begins(t, c) PROVE Stack!Next
  <2>1. Stack!Invoke(t, c) /\ c \in Stack!Calls
    BY <1>2 DEF Begins, Queue!Invoke, Stack!Invoke, Calls, Queue!Calls, Stack!Calls,
                Queue!NoCall, Stack!NoCall
  <2>2. QED BY <2>1 DEF Stack!Next
<1>3. ASSUME NEW t \in Threads, pc[t] \in Preparing, Pushes(t) PROVE Stack!Next
  <2>1. Stack!Add(t)
    BY <1>3 DEF Inv, Types, Recorded, Pushes, Stack!Add
  <2>2. QED BY <2>1 DEF Stack!Next
<1>4. ASSUME NEW t \in Threads, pc[t] \in {"r_cas", "r_take"}, top = ltop[t],
             Takes(t, item[ltop[t]])
      PROVE  Stack!Next
  <2>1. NULL \notin Nodes /\ ltop[t] \in Nodes
    BY <1>4, Constants DEF Inv, Types
  <2>2. Len(s) > 0 /\ Len(s) \in Nat /\ top = s[1]
    BY <1>4, <2>1, TopIsLive DEF Inv, Linked
  <2>3. content \in Seq(Items) /\ Len(content) > 0 /\ content[1] = item[ltop[t]]
    BY <1>4, <2>2 DEF Inv, Filled, Types, TypeOK, HistTypeOK
  <2>4. /\ SubSeq(content, 2, Len(content)) = Tail(content)
        /\ item[ltop[t]] = Head(content) /\ content # <<>>
    BY <2>3, FirstOut
  <2>5. Stack!Effect(t, Tail(content), Head(content))
    BY <1>4, <2>4 DEF Takes, Queue!Effect, Stack!Effect, Queue!NoCall, Stack!NoCall
  <2>6. Stack!Remove(t)
    BY <1>4, <2>4, <2>5 DEF Inv, Types, Recorded, Stack!Remove
  <2>7. QED BY <2>6 DEF Stack!Next
<1>5. ASSUME NEW t \in Threads, pc[t] # "idle", NEW r \in Items \cup {0, 1}, Returns(t, r),
             \/ lin[t] = r /\ lin[t] # Stack!Pending
             \/ call[t].op = "remove" /\ lin[t] = Stack!Pending /\ drained[t] /\ r = 0
      PROVE  Stack!Next
  <2>1. call[t] # Stack!NoCall
    BY <1>5, CallsAre DEF Inv, Types, TypeOK, PCs
  <2>2. Stack!Return(t, r)
    BY <1>5, <2>1, CallsAre, Constants DEF Returns, Stack!Return
  <2>3. QED BY <2>2 DEF Stack!Next
<1>6. CASE UNCHANGED vars
  BY <1>1, <1>6 DEF vars
<1>7. CASE Next
  <2> PICK t \in Threads :
           /\ kind' = kind
           /\ \/ \E x \in Items : AddAlloc(t, x)
              \/ RemoveCall(t)
              \/ kind = "treiber" /\ AddTop(t)
              \/ kind = "treiber" /\ AddCas(t)
              \/ kind = "treiber" /\ AddReturn(t)
              \/ kind = "treiber" /\ RemoveTop(t)
              \/ kind = "treiber" /\ RemoveNext(t)
              \/ kind = "treiber" /\ RemoveCas(t)
              \/ RemoveFree(t)
              \/ kind = "lock" /\ AddLock(t)
              \/ kind = "lock" /\ AddNextLocked(t)
              \/ kind = "lock" /\ AddTopLocked(t)
              \/ kind = "lock" /\ AddUnlock(t)
              \/ kind = "lock" /\ RemoveLock(t)
              \/ kind = "lock" /\ RemoveTopLocked(t)
              \/ kind = "lock" /\ RemoveEmptyLocked(t)
              \/ kind = "lock" /\ RemoveTakeLocked(t)
              \/ kind = "lock" /\ RemoveUnlock(t)
    BY <1>7, Steps
  <2>1. CASE (\E x \in Items : AddAlloc(t, x)) \/ RemoveCall(t)
    BY <1>2, <2>1, CallsAre DEF AddAlloc, RemoveCall
  <2>2. CASE AddTop(t) \/ RemoveNext(t) \/ AddLock(t) \/ AddNextLocked(t)
    BY <1>1, <2>2 DEF AddTop, RemoveNext, AddLock, Lock, AddNextLocked
  <2>3. CASE RemoveLock(t) \/ RemoveTopLocked(t) \/ RemoveUnlock(t)
    BY <1>1, <2>3 DEF RemoveLock, Lock, RemoveTopLocked, RemoveUnlock
  <2>4. CASE AddCas(t) \/ AddTopLocked(t)
    BY <1>1, <1>3, <2>4 DEF AddCas, AddTopLocked, Goto
  <2>5. CASE RemoveCas(t) \/ RemoveTakeLocked(t)
    BY <1>1, <1>4, <2>5 DEF RemoveCas, RemoveTakeLocked, Goto, Inv, Prepared
  <2>6. CASE AddReturn(t) \/ AddUnlock(t)
    BY <1>5, <2>6, Constants DEF AddReturn, AddUnlock, Return, Inv, Recorded
  <2>7. CASE RemoveFree(t)
    <3>1. pc[t] = "r_free" /\ Returns(t, item[ltop[t]])
      BY <2>7 DEF RemoveFree, Return
    <3>2. lin[t] = item[ltop[t]] /\ lin[t] \in Items
      BY <3>1 DEF Inv, Recorded
    <3>3. lin[t] # Stack!Pending
      BY <3>2, Constants
    <3>4. QED BY <1>5, <3>1, <3>2, <3>3
  <2>8. CASE RemoveTop(t)
    <3>1. CASE top = NULL
      <4>1. drained[t] /\ lin[t] = Stack!Pending /\ call[t].op = "remove"
        BY <2>8, <3>1, EmptyIsDrained DEF RemoveTop, Inv, Recorded, Types
      <4>2. QED BY <1>5, <2>8, <3>1, <4>1 DEF RemoveTop, Return
    <3>2. CASE top # NULL
      BY <1>1, <2>8, <3>2 DEF RemoveTop
    <3>3. QED BY <3>1, <3>2
  <2>9. CASE RemoveEmptyLocked(t)
    <3>1. drained[t] /\ lin[t] = Stack!Pending /\ call[t].op = "remove"
      BY <2>9 DEF RemoveEmptyLocked, Inv, Prepared, Recorded, Types
    <3>2. QED BY <1>5, <2>9, <3>1 DEF RemoveEmptyLocked, Return
  <2>10. QED BY <2>1, <2>2, <2>3, <2>4, <2>5, <2>6, <2>7, <2>8, <2>9
<1>8. QED BY <1>6, <1>7

\* Both stacks implement the atomic stack: every call returns what it could have
\* returned.
THEOREM StackLinearizability ==
  ASSUME LockInitialised
  PROVE  Spec => Linearizable
<1>1. Init => IInv /\ Stack!Init
  <2>1. Init => Stack!Init
    BY DEF Init, HistInit, Queue!Init, Stack!Init, Queue!NoCall, Stack!NoCall,
           Queue!Pending, Stack!Pending
  <2>2. QED BY <2>1, InitInv DEF IInv
<1>2. IInv /\ [Next]_vars => [Stack!Next]_Stack!vars
  BY Simulates DEF IInv
<1>3. QED BY <1>1, <1>2, StepInv, PTL DEF Spec, Linearizable, Stack!Spec
=============================================================================
