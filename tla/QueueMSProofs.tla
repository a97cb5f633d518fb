--------------------------- MODULE QueueMSProofs ---------------------------
(***************************************************************************)
(* Proofs about QueueMS, for every set of threads and items and every      *)
(* number of nodes, when the reads are made in the order they are written  *)
(* in: the list behind the dummy is the abstract queue, the tail is not    *)
(* behind the head, memory is not given out again while a thread still     *)
(* works with it, and the three queues implement the atomic queue of       *)
(* StackQueueSpec.                                                         *)
(***************************************************************************)
EXTENDS QueueMS, FiniteSetTheorems, WellFoundedInduction, TLAPS

-----------------------------------------------------------------------------
(* The inductive invariant.  s is the sequence of nodes from the head on,  *)
(* the dummy included, and p the place of the tail in it; the proofs carry *)
(* both along.  An add puts its node at the end of s, a remove takes its   *)
(* first node away.  p is 0 when the tail has fallen behind the head.      *)

\* Where a thread is: its new node is not linked yet, its add has had its effect, its
\* remove has not, its remove has and the old dummy is not freed yet.
Preparing == {"add", "a_next", "a_check", "a_act", "a_link"}
Added     == {"a_swing", "a_tail", "a_unlock"}
Seeking   == {"remove", "r_tail", "r_next", "r_check", "r_act", "r_head", "r_empty", "r_take"}
Disposing == {"r_free", "r_unlock", "r_release"}

\* It holds the lock of the tail, or that of the head.
HoldsTail == {"a_link", "a_tail", "a_unlock"}
HoldsHead == {"r_head", "r_empty", "r_take", "r_unlock"}

\* The types, which call a thread is in, and that the pointers it follows are not NULL.
Types ==
  /\ TypeOK
  /\ \A t \in Threads :
       /\ pc[t] # "crash"
       /\ pc[t] = "idle" => call[t] = NoCall
       /\ pc[t] \in Preparing \cup Added => call[t].op = "add" /\ call[t].item \in Items
       /\ pc[t] \in Seeking \cup Disposing => call[t].op = "remove"
       /\ pc[t] \in Preparing \cup Added => node[t] \in Nodes
       /\ pc[t] \in {"a_next", "a_check", "a_act", "a_swing", "r_next", "r_check", "r_act"} =>
            ltail[t] \in Nodes
       /\ pc[t] \in {"r_tail", "r_next", "r_check", "r_act", "r_take"} \cup Disposing =>
            lhead[t] \in Nodes
       /\ pc[t] \in {"r_take", "r_free"} => lnext[t] \in Nodes

\* s is what one gets to from the head on, without repetitions, and is allocated.
Linked(s) ==
  /\ s \in Seq(Nodes) /\ Len(s) > 0
  /\ \A k \in 1..Len(s) : s[k] \in live
  /\ \A j, k \in 1..Len(s) : s[j] = s[k] => j = k
  /\ head = s[1]
  /\ \A k \in 1..Len(s) : next[s[k]] = IF k = Len(s) THEN NULL ELSE s[k + 1]

\* Behind the dummy it holds the items of the abstract queue.
Filled(s) ==
  /\ Len(content) = Len(s) - 1
  /\ \A k \in 1..(Len(s) - 1) : content[k] = item[s[k + 1]]

\* Where the tail is.  With a lock for adds it is the last node, unless the holder of the
\* lock has linked its node and not set the tail.
Tailed(s, p) ==
  /\ p \in 0..Len(s)
  /\ p = 0 => kind = "lb"
  /\ p > 0 => tail = s[p]
  /\ kind = "lf" \/ p = Len(s) \/ \E t \in Threads : pc[t] = "a_tail"
  /\ \A t \in Threads : pc[t] = "a_tail" => node[t] = s[Len(s)] /\ p >= Len(s) - 1

\* The node that only thread t works on: the one it will add or free.
Mine(t) ==
  IF pc[t] \in Preparing THEN node[t] ELSE IF pc[t] \in Disposing THEN lhead[t] ELSE NULL

\* It is allocated, not in the queue, and nobody else's; a new one has no successor.
Owned(s) ==
  \A t \in Threads :
    pc[t] \in Preparing \cup Disposing =>
      /\ Mine(t) \in live
      /\ \A k \in 1..Len(s) : s[k] # Mine(t)
      /\ \A u \in Threads : Mine(u) = Mine(t) => u = t
      /\ pc[t] \in Preparing => next[node[t]] = NULL

\* Node n is not given out again before t frees a node, and is not being prepared.
Guarded(t, n) ==
  /\ n = NULL \/ n \in live \/ (freer[n] # NoThread /\ t \in waits[n])
  /\ \A u \in Threads : pc[u] \in Preparing => node[u] # n

\* Whatever a thread has read is guarded for it, and so is what a remove will read next.
Referenced ==
  \A t \in Threads :
    /\ Guarded(t, lhead[t]) /\ Guarded(t, ltail[t]) /\ Guarded(t, lnext[t])
    /\ pc[t] \in {"r_tail", "r_next"} => Guarded(t, next[lhead[t]])

\* Node n is in the queue.
On(s, n) == \E k \in 1..Len(s) : s[k] = n

\* Node n, which has been the tail, is not behind the tail; if it is not in the queue
\* any more, it has kept its successor.
Passed(s, p, n) ==
  /\ \A k \in 1..Len(s) : k > p => s[k] # n
  /\ On(s, n) \/ next[n] # NULL

\* What a thread knows from its reads.
Knows(s, p, t) ==
  /\ pc[t] \in {"a_next", "a_check", "a_act", "a_swing", "r_next", "r_check", "r_act"} =>
       Passed(s, p, ltail[t])
  /\ pc[t] = "a_check" => (tail = ltail[t] /\ lnext[t] # NULL => lnext[t] = next[ltail[t]])
  /\ pc[t] = "a_act" => (lnext[t] # NULL => lnext[t] = next[ltail[t]])
  /\ pc[t] = "a_swing" => next[ltail[t]] = node[t]
  /\ pc[t] \in {"r_tail", "r_next", "r_check", "r_act"} =>
       /\ \A k \in 1..Len(s) : k > 1 => s[k] # lhead[t]
       /\ lhead[t] = head \/ next[lhead[t]] # NULL
  /\ pc[t] \in {"r_next", "r_check", "r_act"} => (lhead[t] = head => On(s, ltail[t]))
  /\ pc[t] \in {"r_check", "r_act"} =>
       /\ lnext[t] # NULL => lnext[t] = next[lhead[t]]
       /\ lhead[t] = head /\ ltail[t] # lhead[t] => lnext[t] # NULL
  /\ pc[t] = "r_take" => lhead[t] = head /\ lnext[t] = next[head]

\* A remove that returns 0 has seen the abstract queue empty.
Drained ==
  /\ content = <<>> => \A t \in Threads : call[t] # NoCall => drained[t]
  /\ \A t \in Threads : pc[t] = "r_empty" => drained[t]
  /\ \A t \in Threads : pc[t] \in {"r_check", "r_act"} /\ lnext[t] = NULL => drained[t]

\* What the other history variables say about a thread.
Recorded ==
  \A t \in Threads :
    /\ pc[t] \in {"idle"} \cup Preparing \cup Seeking => lin[t] = Queue!Pending
    /\ pc[t] \in Preparing => item[node[t]] = call[t].item
    /\ pc[t] \in Added => lin[t] = 1
    /\ pc[t] = "r_free" => lin[t] = item[lnext[t]]
    /\ pc[t] \in {"r_unlock", "r_release"} => lin[t] = val[t]
    /\ pc[t] \in Disposing => lin[t] \in Items

\* The locks exclude, where there are any.
Locked ==
  /\ \A t \in Threads :
       /\ pc[t] \in HoldsTail =>
            /\ kind # "lf" /\ tail_lock = TAS_LCKD
            /\ \A u \in Threads : pc[u] \in HoldsTail => u = t
       /\ pc[t] \in HoldsHead \cup {"r_release"} => kind = "lb"
       /\ pc[t] \in HoldsHead =>
            head_lock = TAS_LCKD /\ \A u \in Threads : pc[u] \in HoldsHead => u = t
       /\ pc[t] \in {"a_next", "a_check", "a_act", "a_swing"} => kind = "lf"
       /\ pc[t] \in {"r_tail", "r_next", "r_check", "r_act", "r_free"} => kind # "lb"

Inv(s, p) ==
  /\ Types
  /\ Linked(s)
  /\ Filled(s)
  /\ Tailed(s, p)
  /\ Owned(s)
  /\ Referenced
  /\ \A t \in Threads : Knows(s, p, t)
  /\ Drained
  /\ Recorded
  /\ Locked

-----------------------------------------------------------------------------
(* The history variables and the steps.                                    *)

\* The reads are made as they are written.
AsWritten == ~Reordered

LEMMA Constants ==
  /\ NumNodes \in Nat /\ NULL \notin Nodes /\ Nodes \subseteq Nat /\ 1 \in Nodes
  /\ 0 \notin Items /\ Items \subseteq Nat
  /\ NoThread \notin Threads
  /\ Queue!Pending = -1
BY NumNodesAssumption, ItemsAssumption, ThreadsAssumption
   DEF NULL, Nodes, Queue!Pending

\* No call is not a call, and the calls are what their operation says.
LEMMA CallsAre ==
  /\ NoCall.op = "none"
  /\ \A x \in Items : [op |-> "add", item |-> x] \in Calls
  /\ [op |-> "remove", item |-> 0] \in Calls
  /\ Queue!NoCall = NoCall
BY DEF NoCall, Calls, Queue!NoCall, Queue!Calls

LEMMA BeginsIs ==
  ASSUME NEW t, NEW c, Begins(t, c)
  PROVE  /\ call[t] = NoCall
         /\ call' = [call EXCEPT ![t] = c]
         /\ drained' = [drained EXCEPT ![t] = (content = <<>>)]
         /\ ret' = 0
         /\ content' = content /\ lin' = lin /\ pr' = pr
BY DEF Begins, Queue!Invoke, NoCall, Queue!NoCall

LEMMA EnqueuesIs ==
  ASSUME NEW t, Enqueues(t)
  PROVE  /\ content' = Append(content, call[t].item)
         /\ lin' = [lin EXCEPT ![t] = 1]
         /\ drained' = [u \in Threads |-> drained[u] \/ (call[u] # NoCall /\ content' = <<>>)]
         /\ ret' = 0 /\ call' = call /\ pr' = pr
BY CallsAre DEF Enqueues, Queue!Effect, Queue!Put

LEMMA TakesIs ==
  ASSUME NEW t, NEW x, Takes(t, x)
  PROVE  /\ content' = SubSeq(content, 2, Len(content))
         /\ lin' = [lin EXCEPT ![t] = x]
         /\ drained' = [u \in Threads |-> drained[u] \/ (call[u] # NoCall /\ content' = <<>>)]
         /\ ret' = 0 /\ call' = call /\ pr' = pr
BY CallsAre DEF Takes, Queue!Effect

LEMMA ReturnIs ==
  ASSUME NEW t, NEW r, Return(t, r)
  PROVE  /\ pc'    = [pc EXCEPT ![t] = "idle"]
         /\ node'  = [node EXCEPT ![t] = NULL]
         /\ lhead' = [lhead EXCEPT ![t] = NULL]
         /\ ltail' = [ltail EXCEPT ![t] = NULL]
         /\ lnext' = [lnext EXCEPT ![t] = NULL]
         /\ val'   = [val EXCEPT ![t] = 0]
         /\ call' = [call EXCEPT ![t] = NoCall]
         /\ lin' = [lin EXCEPT ![t] = Queue!Pending]
         /\ drained' = [drained EXCEPT ![t] = FALSE]
         /\ ret' = r /\ content' = content
         /\ pr' \in {pr, pr + 1, pr - 1}
<1>1. Returns(t, r)
  BY DEF Return
<1>2. pr' = IF r = 0 THEN pr ELSE IF call[t].op = "add" THEN pr + 1 ELSE pr - 1
  BY <1>1 DEF Returns
<1>3. QED BY <1>1, <1>2 DEF Return, Forget, Returns

\* What a step is.
Step(t) ==
  \/ \E x \in Items : AddAlloc(t, x)
  \/ RemoveCall(t)
  \/ kind = "lf" /\ (AddTail(t) \/ AddNext(t) \/ AddCheck(t))
  \/ kind = "lf" /\ (AddLink(t) \/ AddHelp(t) \/ AddSwing(t))
  \/ kind # "lf" /\ (AddLock(t) \/ AddLinkLocked(t) \/ AddSetTail(t) \/ AddUnlock(t))
  \/ kind # "lb" /\ (RemoveHead(t) \/ RemoveTail(t) \/ RemoveNext(t) \/ RemoveCheck(t))
  \/ kind # "lb" /\ (RemoveEmpty(t) \/ RemoveHelp(t) \/ RemoveTake(t) \/ RemoveFree(t))
  \/ kind = "lb" /\ (RemoveLock(t) \/ RemoveHeadLocked(t) \/ RemoveUnlockEmpty(t))
  \/ kind = "lb" /\ (RemoveTakeLocked(t) \/ RemoveUnlock(t) \/ RemoveRelease(t))

LEMMA Steps ==
  ASSUME Next
  PROVE  kind' = kind /\ \E t \in Threads : Step(t)
<1>1. kind' = kind
  BY DEF Next
<1>2. PICK t \in Threads : QueueMSLF(t) \/ QueueMSLB(t) \/ QueueMSHybrid(t) \/ Calling(t)
  BY DEF Next
<1>3. Step(t)
  BY <1>2 DEF QueueMSLF, QueueMSLB, QueueMSHybrid, Calling, add_lf, add_lb, remove_lf, remove_lb, Step
<1>4. QED BY <1>1, <1>3

-----------------------------------------------------------------------------
(* Sequences, and the types of the history variables.                      *)

LEMMA FirstOut ==
  ASSUME NEW S, NEW q \in Seq(S)
  PROVE  /\ SubSeq(q, 2, Len(q)) \in Seq(S)
         /\ Len(q) > 0 => /\ SubSeq(q, 2, Len(q)) = Tail(q) /\ Tail(q) \in Seq(S)
                          /\ Len(Tail(q)) = Len(q) - 1
                          /\ \A k \in 1..(Len(q) - 1) : Tail(q)[k] = q[k + 1]
                          /\ q[1] = Head(q) /\ q # <<>>
         /\ Len(q) = 0 => q = <<>>
<1>1. Len(q) \in Nat
  OBVIOUS
<1>2. SubSeq(q, 2, Len(q)) \in Seq(S)
  BY <1>1
<1>3. CASE Len(q) = 0
  BY <1>2, <1>3
<1>4. CASE Len(q) > 0
  <2>1. SubSeq(q, 2, Len(q)) = Tail(q)
    BY <1>1, <1>4
  <2>2. Len(Tail(q)) = Len(q) - 1 /\ \A k \in 1..(Len(q) - 1) : Tail(q)[k] = q[k + 1]
    BY <1>1, <1>4
  <2>3. q[1] = Head(q) /\ q # <<>>
    BY <1>4
  <2>4. QED BY <1>2, <1>4, <2>1, <2>2, <2>3
<1>5. QED BY <1>1, <1>3, <1>4

LEMMA LastIn ==
  ASSUME NEW S, NEW q \in Seq(S), NEW x \in S
  PROVE  /\ Append(q, x) \in Seq(S)
         /\ Len(Append(q, x)) = Len(q) + 1
         /\ Append(q, x)[Len(q) + 1] = x
         /\ \A k \in 1..Len(q) : Append(q, x)[k] = q[k]
         /\ Append(q, x) # <<>>
OBVIOUS

LEMMA BeginTypes ==
  ASSUME HistTypeOK, NEW t \in Threads, NEW c \in Calls, Begins(t, c)
  PROVE  HistTypeOK'
<1>1. drained' = [drained EXCEPT ![t] = (content = <<>>)] /\ (content = <<>>) \in BOOLEAN
  BY BeginsIs
<1>2. drained' \in [Threads -> BOOLEAN]
  BY <1>1, Zenon DEF HistTypeOK
<1>3. QED BY <1>2, BeginsIs DEF HistTypeOK

LEMMA EnqueueTypes ==
  ASSUME HistTypeOK, NEW t \in Threads, Enqueues(t), call[t].item \in Items
  PROVE  HistTypeOK'
<1>1. drained' \in [Threads -> BOOLEAN]
  BY EnqueuesIs, Zenon
<1>2. content' \in Seq(Items)
  <2>1. content \in Seq(Items) /\ content' = Append(content, call[t].item)
    BY EnqueuesIs DEF HistTypeOK
  <2>2. QED BY <2>1, LastIn
<1>3. QED BY <1>1, <1>2, EnqueuesIs DEF HistTypeOK

LEMMA TakeTypes ==
  ASSUME HistTypeOK, NEW t \in Threads, NEW x \in Items \cup {0}, Takes(t, x)
  PROVE  HistTypeOK'
<1>1. drained' \in [Threads -> BOOLEAN]
  BY TakesIs, Zenon
<1>2. content' \in Seq(Items)
  <2>1. content \in Seq(Items) /\ content' = SubSeq(content, 2, Len(content))
    BY TakesIs DEF HistTypeOK
  <2>2. QED BY <2>1, FirstOut
<1>3. QED BY <1>1, <1>2, TakesIs DEF HistTypeOK

\* A call that returns leaves its thread idle.
LEMMA ReturnTypes ==
  ASSUME Types, NEW t \in Threads, NEW r \in Items \cup {0, 1}, Return(t, r), MemTypeOK',
         kind' = kind, head' = head, tail' \in Nodes, item' = item, next' = next,
         head_lock' \in {head_lock, TAS_FREE}, tail_lock' \in {tail_lock, TAS_FREE}
  PROVE  Types'
<1>1. drained' \in [Threads -> BOOLEAN]
  <2>1. drained' = [drained EXCEPT ![t] = FALSE] /\ drained \in [Threads -> BOOLEAN]
    BY ReturnIs DEF Types, TypeOK, HistTypeOK
  <2>2. QED BY <2>1
<1>2. HistTypeOK'
  <2>1. /\ content' = content /\ call' = [call EXCEPT ![t] = NoCall]
        /\ lin' = [lin EXCEPT ![t] = Queue!Pending] /\ ret' = r
        /\ pr' \in {pr, pr + 1, pr - 1}
    BY ReturnIs
  <2>2. pr \in Int /\ pr' \in Int
    BY <2>1 DEF Types, TypeOK, HistTypeOK
  <2>3. QED BY <1>1, <2>1, <2>2 DEF Types, TypeOK, HistTypeOK
<1>3. TypeOK'
  BY <1>2, ReturnIs DEF Types, TypeOK, PCs
<1>4. QED BY <1>3, ReturnIs DEF Types, TypeOK, HistTypeOK, Preparing, Added, Seeking, Disposing

-----------------------------------------------------------------------------
(* The types.                                                              *)

LEMMA InitTypes == Init => Types
<1> SUFFICES ASSUME Init PROVE Types
  OBVIOUS
<1>1. /\ content = <<>> /\ call = [t \in Threads |-> NoCall] /\ lin = [t \in Threads |-> Queue!Pending]
      /\ drained = [t \in Threads |-> FALSE] /\ ret = 0 /\ pr = 0
  BY DEF Init, HistInit, Queue!Init, NoCall
<1>2. HistTypeOK
  BY <1>1 DEF HistTypeOK
<1>3. MemTypeOK
  BY Constants DEF Init, MemInit, MemTypeOK
<1>4. TypeOK
  BY <1>2, <1>3, Constants DEF Init, TypeOK, PCs
<1>5. QED BY <1>1, <1>4 DEF Types, Init, Preparing, Added, Seeking, Disposing

LEMMA CallTypes ==
  ASSUME Types, NEW t \in Threads, (\E x \in Items : AddAlloc(t, x)) \/ RemoveCall(t), kind' = kind
  PROVE  Types'
<1> USE DEF Preparing, Added, Seeking, Disposing
<1>1. CASE \E x \in Items : AddAlloc(t, x)
  <2>1. PICK x \in Items : AddAlloc(t, x)
    BY <1>1
  <2>2. PICK n \in Available(t) :
          /\ ssmem_alloc(t, n)
          /\ node' = [node EXCEPT ![t] = n]
          /\ item' = [item EXCEPT ![n] = x]
          /\ next' = [next EXCEPT ![n] = NULL]
    BY <2>1 DEF AddAlloc
  <2>3. n \in Nodes
    BY DEF Available
  <2>4. MemTypeOK'
    BY <2>2, <2>3 DEF ssmem_alloc, Types, TypeOK, MemTypeOK
  <2> DEFINE c == [op |-> "add", item |-> x]
  <2>5. Begins(t, c)
    BY <2>1 DEF AddAlloc
  <2>6. c \in Calls /\ c.op = "add" /\ c.item = x
    BY CallsAre
  <2> HIDE DEF c
  <2>7. HistTypeOK' /\ call' = [call EXCEPT ![t] = c]
    BY <2>5, <2>6, BeginTypes, BeginsIs DEF Types, TypeOK
  <2>8. TypeOK'
    BY <2>1, <2>2, <2>3, <2>4, <2>7 DEF Types, TypeOK, AddAlloc, Goto, PCs, ends, locks
  <2>9. QED BY <2>1, <2>2, <2>3, <2>6, <2>7, <2>8 DEF Types, TypeOK, HistTypeOK, AddAlloc, Goto
<1>2. CASE RemoveCall(t)
  <2> DEFINE c == [op |-> "remove", item |-> 0]
  <2>1. c \in Calls /\ c.op = "remove"
    BY CallsAre
  <2>2. Begins(t, c)
    BY <1>2 DEF RemoveCall
  <2> HIDE DEF c
  <2>3. HistTypeOK' /\ call' = [call EXCEPT ![t] = c]
    BY <2>1, <2>2, BeginTypes, BeginsIs DEF Types, TypeOK
  <2>4. TypeOK'
    BY <1>2, <2>3 DEF RemoveCall, Goto, Types, TypeOK, PCs, MemTypeOK, mem, ends, locks, fields, locals
  <2>5. QED BY <1>2, <2>1, <2>3, <2>4 DEF RemoveCall, Goto, Types, TypeOK, HistTypeOK, locals
<1>3. QED BY <1>1, <1>2

\* The next turn of a loop.
LEMMA AgainTypes ==
  ASSUME Types, NEW t \in Threads, pc[t] \in {"a_check", "a_act", "r_check", "r_act"}, Again(t),
         kind' = kind, head' = head, tail' \in Nodes, UNCHANGED <<locks, fields, mem, hist>>
  PROVE  Types'
<1> USE DEF Preparing, Added, Seeking, Disposing, Again, Forget, locks, fields, mem, hist
<1>1. call[t].op = IF pc[t] \in Preparing THEN "add" ELSE "remove"
  BY DEF Types
<1>2. TypeOK'
  BY <1>1 DEF Types, TypeOK, HistTypeOK, MemTypeOK, PCs
<1>3. QED BY <1>1, <1>2 DEF Types, TypeOK

LEMMA StepTypes ==
  ASSUME AsWritten, Types, NEW t \in Threads, Step(t), kind' = kind,
         pc[t] = "r_act" /\ lhead[t] = head /\ ltail[t] # lhead[t] => lnext[t] # NULL
  PROVE  Types'
<1> USE DEF Preparing, Added, Seeking, Disposing, AsWritten
<1>1. CASE (\E x \in Items : AddAlloc(t, x)) \/ RemoveCall(t)
  BY <1>1, CallTypes
<1>2. CASE AddTail(t) \/ AddNext(t) \/ AddCheck(t)
  <2>1. CASE AddTail(t)
    <3>1. TypeOK'
      BY <2>1 DEF AddTail, Goto, Types, TypeOK, HistTypeOK, MemTypeOK, ends, locks, fields, mem, hist,
                  locals, PCs
    <3>2. QED BY <2>1, <3>1 DEF AddTail, Goto, Types, TypeOK, ends, locks, fields, mem, hist, locals
  <2>2. CASE AddNext(t)
    <3>1. TypeOK'
      BY <2>2 DEF AddNext, Goto, Types, TypeOK, HistTypeOK, MemTypeOK, ends, locks, fields, mem, hist,
                  locals, PCs
    <3>2. QED BY <2>2, <3>1 DEF AddNext, Goto, Types, TypeOK, ends, locks, fields, mem, hist, locals
  <2>3. CASE AddCheck(t)
    <3>1. CASE tail = ltail[t]
      <4>1. TypeOK'
        BY <2>3, <3>1 DEF AddCheck, Again, Goto, Types, TypeOK, HistTypeOK, MemTypeOK, ends, locks, fields,
                          mem, hist, locals, PCs
      <4>2. QED BY <2>3, <3>1, <4>1 DEF AddCheck, Goto, Types, TypeOK, hist, locals
    <3>2. CASE tail # ltail[t]
      BY <2>3, <3>2, AgainTypes DEF AddCheck, ends, Types, TypeOK
    <3>3. QED BY <3>1, <3>2
  <2>4. QED BY <1>2, <2>1, <2>2, <2>3
<1>3. CASE AddLink(t) \/ AddHelp(t) \/ AddSwing(t)
  <2>1. CASE AddLink(t)
    <3>1. CASE next[ltail[t]] = NULL
      <4>1. HistTypeOK' /\ call' = call
        BY <2>1, <3>1, EnqueueTypes, EnqueuesIs DEF AddLink, Types, TypeOK
      <4>2. TypeOK'
        BY <2>1, <3>1, <4>1 DEF AddLink, Types, TypeOK, MemTypeOK, ends, locks, mem, locals, PCs
      <4>3. QED BY <2>1, <3>1, <4>1, <4>2 DEF AddLink, Types, TypeOK, locals
    <3>2. CASE next[ltail[t]] # NULL
      BY <2>1, <3>2, AgainTypes DEF AddLink, ends, fields, Types, TypeOK
    <3>3. QED BY <3>1, <3>2
  <2>2. CASE AddHelp(t)
    <3>1. tail' \in Nodes
      BY <2>2 DEF AddHelp, Types, TypeOK
    <3>2. QED BY <2>2, <3>1, AgainTypes DEF AddHelp
  <2>3. CASE AddSwing(t)
    <3>1. tail' \in Nodes
      BY <2>3 DEF AddSwing, Types, TypeOK
    <3>2. QED BY <2>3, <3>1, ReturnTypes DEF AddSwing, locks, fields, mem, Types, TypeOK, MemTypeOK
  <2>4. QED BY <1>3, <2>1, <2>2, <2>3
<1>4. CASE AddLock(t) \/ AddLinkLocked(t) \/ AddSetTail(t) \/ AddUnlock(t)
  <2>1. CASE AddLock(t)
    <3>1. TypeOK'
      BY <2>1 DEF AddLock, Goto, Types, TypeOK, HistTypeOK, MemTypeOK, ends, locks, fields, mem, hist,
                  locals, PCs, tas_locked
    <3>2. QED BY <2>1, <3>1 DEF AddLock, Goto, Types, TypeOK, ends, locks, fields, mem, hist, locals, tas_locked
  <2>2. CASE AddLinkLocked(t)
    <3>1. HistTypeOK' /\ call' = call
      BY <2>2, EnqueueTypes, EnqueuesIs DEF AddLinkLocked, Goto, Types, TypeOK
    <3>2. TypeOK'
      BY <2>2, <3>1 DEF AddLinkLocked, Goto, Types, TypeOK, MemTypeOK, ends, locks, mem, locals, PCs
    <3>3. QED BY <2>2, <3>1, <3>2 DEF AddLinkLocked, Goto, Types, TypeOK, locals
  <2>3. CASE AddSetTail(t)
    <3>1. TypeOK'
      BY <2>3 DEF AddSetTail, Goto, Types, TypeOK, HistTypeOK, MemTypeOK, ends, locks, fields, mem, hist,
                  locals, PCs
    <3>2. QED BY <2>3, <3>1 DEF AddSetTail, Goto, Types, TypeOK, ends, locks, fields, mem, hist, locals
  <2>4. CASE AddUnlock(t)
    BY <2>4, ReturnTypes DEF AddUnlock, ends, fields, mem, Types, TypeOK, MemTypeOK
  <2>5. QED BY <1>4, <2>1, <2>2, <2>3, <2>4
<1>5. CASE RemoveHead(t) \/ RemoveTail(t) \/ RemoveNext(t) \/ RemoveCheck(t)
  <2>1. CASE RemoveHead(t)
    <3>1. TypeOK'
      BY <2>1 DEF RemoveHead, Goto, Types, TypeOK, HistTypeOK, MemTypeOK, ends, locks, fields, mem, hist,
                  locals, PCs
    <3>2. QED BY <2>1, <3>1 DEF RemoveHead, Goto, Types, TypeOK, ends, locks, fields, mem, hist, locals
  <2>2. CASE RemoveTail(t)
    <3>1. TypeOK'
      BY <2>2 DEF RemoveTail, Goto, Types, TypeOK, HistTypeOK, MemTypeOK, ends, locks, fields, mem, hist,
                  locals, PCs
    <3>2. QED BY <2>2, <3>1 DEF RemoveTail, Goto, Types, TypeOK, ends, locks, fields, mem, hist, locals
  <2>3. CASE RemoveNext(t)
    <3>1. TypeOK'
      BY <2>3 DEF RemoveNext, Goto, Types, TypeOK, HistTypeOK, MemTypeOK, ends, locks, fields, mem, hist,
                  locals, PCs
    <3>2. QED BY <2>3, <3>1 DEF RemoveNext, Goto, Types, TypeOK, ends, locks, fields, mem, hist, locals
  <2>4. CASE RemoveCheck(t)
    <3>1. CASE head = lhead[t]
      <4>1. TypeOK'
        BY <2>4, <3>1 DEF RemoveCheck, Again, Goto, Types, TypeOK, HistTypeOK, MemTypeOK, ends, locks,
                          fields, mem, hist, locals, PCs
      <4>2. QED BY <2>4, <3>1, <4>1 DEF RemoveCheck, Goto, Types, TypeOK, hist, locals
    <3>2. CASE head # lhead[t]
      BY <2>4, <3>2, AgainTypes DEF RemoveCheck, ends, Types, TypeOK
    <3>3. QED BY <3>1, <3>2
  <2>5. QED BY <1>5, <2>1, <2>2, <2>3, <2>4
<1>6. CASE RemoveEmpty(t) \/ RemoveHelp(t) \/ RemoveTake(t) \/ RemoveFree(t)
  <2>1. CASE RemoveEmpty(t)
    BY <2>1, ReturnTypes DEF RemoveEmpty, ends, locks, fields, mem, Types, TypeOK, MemTypeOK
  <2>2. CASE RemoveHelp(t)
    <3>1. tail' \in Nodes
      BY <2>2 DEF RemoveHelp, Types, TypeOK
    <3>2. QED BY <2>2, <3>1, AgainTypes DEF RemoveHelp
  <2>3. CASE RemoveTake(t)
    <3>1. CASE head = lhead[t]
      <4>1. lnext[t] # NULL /\ lnext[t] \in Nodes /\ item[lnext[t]] \in Items \cup {0}
        BY <2>3, <3>1 DEF RemoveTake, Types, TypeOK
      <4>2. Takes(t, item[lnext[t]]) /\ pc' = [pc EXCEPT ![t] = "r_free"] /\ head' = lnext[t]
        BY <2>3, <3>1, <4>1 DEF RemoveTake
      <4>3. UNCHANGED <<locals, tail, locks, fields, mem>>
        BY <2>3, <3>1 DEF RemoveTake
      <4>4. HistTypeOK' /\ call' = call
        BY <4>1, <4>2, TakeTypes, TakesIs DEF Types, TypeOK
      <4>5. TypeOK'
        BY <4>1, <4>2, <4>3, <4>4 DEF Types, TypeOK, MemTypeOK, locks, fields, mem, locals, PCs
      <4>6. QED BY <2>3, <4>1, <4>2, <4>3, <4>4, <4>5 DEF RemoveTake, Types, TypeOK, locals
    <3>2. CASE head # lhead[t]
      BY <2>3, <3>2, AgainTypes DEF RemoveTake, Types, TypeOK
    <3>3. QED BY <3>1, <3>2
  <2>4. CASE RemoveFree(t)
    <3>1. lhead[t] \in Nodes /\ item[lnext[t]] \in Items \cup {0, 1}
      BY <2>4 DEF RemoveFree, Types, TypeOK
    <3>2. MemTypeOK'
      BY <2>4, <3>1 DEF RemoveFree, ssmem_free, Types, TypeOK, MemTypeOK
    <3>3. QED BY <2>4, <3>1, <3>2, ReturnTypes DEF RemoveFree, ends, locks, fields, Types, TypeOK
  <2>5. QED BY <1>6, <2>1, <2>2, <2>3, <2>4
<1>7. CASE RemoveLock(t) \/ RemoveHeadLocked(t) \/ RemoveUnlockEmpty(t)
  <2>1. CASE RemoveLock(t)
    <3>1. TypeOK'
      BY <2>1 DEF RemoveLock, Goto, Types, TypeOK, HistTypeOK, MemTypeOK, ends, locks, fields, mem, hist,
                  locals, PCs, tas_locked
    <3>2. QED BY <2>1, <3>1 DEF RemoveLock, Goto, Types, TypeOK, ends, locks, fields, mem, hist, locals, tas_locked
  <2>2. CASE RemoveHeadLocked(t)
    <3>1. TypeOK'
      BY <2>2 DEF RemoveHeadLocked, Goto, Types, TypeOK, HistTypeOK, MemTypeOK, ends, locks, fields, mem, hist,
                  locals, PCs
    <3>2. QED BY <2>2, <3>1 DEF RemoveHeadLocked, Goto, Types, TypeOK, ends, locks, fields, mem, hist, locals
  <2>3. CASE RemoveUnlockEmpty(t)
    BY <2>3, ReturnTypes DEF RemoveUnlockEmpty, ends, fields, mem, Types, TypeOK, MemTypeOK
  <2>4. QED BY <1>7, <2>1, <2>2, <2>3
<1>8. CASE RemoveTakeLocked(t) \/ RemoveUnlock(t) \/ RemoveRelease(t)
  <2>1. CASE RemoveTakeLocked(t)
    <3>1. lnext[t] \in Nodes /\ item[lnext[t]] \in Items \cup {0}
      BY <2>1 DEF RemoveTakeLocked, Goto, Types, TypeOK
    <3>2. HistTypeOK' /\ call' = call
      BY <2>1, <3>1, TakeTypes, TakesIs DEF RemoveTakeLocked, Types, TypeOK
    <3>3. TypeOK'
      BY <2>1, <3>1, <3>2 DEF RemoveTakeLocked, Goto, Types, TypeOK, MemTypeOK, locks, fields, mem, PCs
    <3>4. QED BY <2>1, <3>2, <3>3 DEF RemoveTakeLocked, Goto, Types, TypeOK
  <2>2. CASE RemoveUnlock(t)
    <3>1. TypeOK'
      BY <2>2 DEF RemoveUnlock, Goto, Types, TypeOK, HistTypeOK, MemTypeOK, ends, locks, fields, mem, hist,
                  locals, PCs
    <3>2. QED BY <2>2, <3>1 DEF RemoveUnlock, Goto, Types, TypeOK, ends, locks, fields, mem, hist, locals
  <2>3. CASE RemoveRelease(t)
    <3>1. lhead[t] \in Nodes /\ val[t] \in Items \cup {0, 1}
      BY <2>3 DEF RemoveRelease, Types, TypeOK
    <3>2. MemTypeOK'
      BY <2>3, <3>1 DEF RemoveRelease, ssmem_free, Types, TypeOK, MemTypeOK
    <3>3. QED BY <2>3, <3>1, <3>2, ReturnTypes DEF RemoveRelease, ends, locks, fields, Types, TypeOK
  <2>4. QED BY <1>8, <2>1, <2>2, <2>3
<1>9. QED BY <1>1, <1>2, <1>3, <1>4, <1>5, <1>6, <1>7, <1>8 DEF Step

-----------------------------------------------------------------------------
(* Chain, which follows the pointers, is the sequence of the invariant.    *)

\* Induction: a set of numbers that is not empty has a smallest one.
LEMMA Smallest ==
  ASSUME NEW S, S \subseteq Nat, S # {}
  PROVE  \E m \in S : \A k \in S : m <= k
<1> DEFINE R == OpToRel(<, Nat)
<1>1. IsWellFoundedOn(R, Nat)
  BY NatLessThanWellFounded
<1>2. \A a, b \in Nat : <<a, b>> \in R <=> a < b
  BY DEF OpToRel
<1> HIDE DEF R
<1>3. \E x \in S : \A y \in S : ~ (<<y, x>> \in R)
  BY <1>1, WFMin
<1>4. PICK m \in S : \A k \in S : ~ (<<k, m>> \in R)
  BY <1>3
<1>5. m \in Nat /\ \A k \in S : k \in Nat /\ ~(k < m)
  BY <1>2, <1>4
<1>6. \A k \in S : m <= k
  BY <1>5
<1>7. QED BY <1>6

\* A sequence without repetitions is not longer than there are nodes.
LEMMA NotTooLong ==
  ASSUME NEW s \in Seq(Nodes), \A j, k \in 1..Len(s) : s[j] = s[k] => j = k
  PROVE  Len(s) \in Nat /\ Len(s) <= NumNodes
<1> DEFINE D == 1..Len(s)
           f == [k \in D |-> s[k]]
<1>1. Len(s) \in Nat /\ NumNodes \in Nat
  BY Constants
<1>2. f \in Injection(D, Nodes)
  BY DEF Injection, IsInjective
<1>3. IsFiniteSet(Nodes) /\ Cardinality(Nodes) = NumNodes /\ Cardinality(D) = Len(s)
  <2>1. \A n \in Nat : IsFiniteSet(1..n) /\ Cardinality(1..n) = n
    <3>1. SUFFICES ASSUME NEW n \in Nat PROVE IsFiniteSet(1..n) /\ Cardinality(1..n) = n
      OBVIOUS
    <3>2. 1 \in Int /\ n \in Int /\ (IF 1 > n THEN 0 ELSE n - 1 + 1) = n
      OBVIOUS
    <3>3. IsFiniteSet(1..n) /\ Cardinality(1..n) = IF 1 > n THEN 0 ELSE n - 1 + 1
      BY <3>2, FS_Interval
    <3>4. QED BY <3>2, <3>3
  <2>2. QED BY <1>1, <2>1 DEF Nodes
<1> HIDE DEF f, D
<1>4. Cardinality(D) <= Cardinality(Nodes)
  BY <1>2, <1>3, FS_Injection
<1>5. QED BY <1>1, <1>3, <1>4

\* One more step along the chain, as in the definition of Chain.
Follow(f, d) ==
  IF d = 0 THEN <<>>
  ELSE LET c == f[d - 1]
           n == IF c = <<>> THEN (IF head = NULL THEN NULL ELSE next[head])
                            ELSE next[c[Len(c)]]
       IN  IF n = NULL THEN c ELSE Append(c, n)

Follows(f) == f = [d \in 0..NumNodes |-> Follow(f, d)]

\* The first d nodes.
First(s, d) == IF d < Len(s) THEN SubSeq(s, 1, d) ELSE s

LEMMA FirstOf ==
  ASSUME NEW s \in Seq(Nodes), NEW d \in Nat
  PROVE  /\ First(s, 0) = <<>>
         /\ d < Len(s) =>
              /\ Append(First(s, d), s[d + 1]) = First(s, d + 1)
              /\ Len(First(s, d)) = d
              /\ d = 0 <=> First(s, d) = <<>>
              /\ d > 0 => First(s, d)[d] = s[d]
         /\ d >= Len(s) =>
              /\ First(s, d) = s /\ First(s, d + 1) = s
<1>1. Len(s) \in Nat
  OBVIOUS
<1>2. First(s, 0) = <<>>
  BY <1>1 DEF First
<1>3. ASSUME d < Len(s)
      PROVE  /\ Append(First(s, d), s[d + 1]) = First(s, d + 1)
             /\ Len(First(s, d)) = d
             /\ d = 0 <=> First(s, d) = <<>>
             /\ d > 0 => First(s, d)[d] = s[d]
  <2>1. First(s, d) = SubSeq(s, 1, d) /\ First(s, d + 1) = SubSeq(s, 1, d + 1)
    <3>1. d + 1 = Len(s) => SubSeq(s, 1, d + 1) = s
      BY <1>1
    <3>2. QED BY <1>1, <1>3, <3>1 DEF First
  <2>2. SubSeq(s, 1, d) \in Seq(Nodes) /\ Len(SubSeq(s, 1, d)) = d
    BY <1>1, <1>3
  <2>3. d > 0 => SubSeq(s, 1, d)[d] = s[d]
    BY <1>1, <1>3
  <2>4. Append(SubSeq(s, 1, d), s[d + 1]) = SubSeq(s, 1, d + 1)
    BY <1>1, <1>3
  <2>5. d = 0 <=> SubSeq(s, 1, d) = <<>>
    <3>1. \A q \in Seq(Nodes) : q = <<>> <=> Len(q) = 0
      OBVIOUS
    <3>2. QED BY <2>2, <3>1
  <2>6. QED BY <2>1, <2>2, <2>3, <2>4, <2>5
<1>4. ASSUME d >= Len(s)
      PROVE  First(s, d) = s /\ First(s, d + 1) = s
  BY <1>1, <1>4 DEF First
<1>5. QED BY <1>2, <1>3, <1>4

\* The queue without its dummy is linked too.
LEMMA BehindDummy ==
  ASSUME NEW s, Linked(s)
  PROVE  /\ Tail(s) \in Seq(Nodes) /\ Len(s) \in Nat /\ Len(s) > 0 /\ Len(Tail(s)) = Len(s) - 1
         /\ Len(Tail(s)) \in Nat /\ Len(Tail(s)) <= NumNodes
         /\ \A k \in 1..Len(Tail(s)) : Tail(s)[k] = s[k + 1] /\ Tail(s)[k] \in live
         /\ \A k \in 1..Len(Tail(s)) :
              next[Tail(s)[k]] = IF k = Len(Tail(s)) THEN NULL ELSE Tail(s)[k + 1]
         /\ head # NULL
         /\ next[head] = IF Len(Tail(s)) = 0 THEN NULL ELSE Tail(s)[1]
<1>1. /\ s \in Seq(Nodes) /\ Len(s) \in Nat /\ Len(s) > 0 /\ Len(s) <= NumNodes
      /\ NumNodes \in Nat /\ NULL \notin Nodes
  BY NotTooLong, Constants DEF Linked
<1> DEFINE r == Tail(s)
<1>2. /\ r \in Seq(Nodes) /\ Len(r) = Len(s) - 1
      /\ \A k \in 1..(Len(s) - 1) : r[k] = s[k + 1]
  BY <1>1, FirstOut
<1> HIDE DEF r
<1>3. /\ Len(r) \in Nat /\ Len(r) <= NumNodes
      /\ \A k \in 1..Len(r) : k + 1 \in 1..Len(s) /\ (k = Len(r) <=> k + 1 = Len(s))
      /\ \A k \in 1..Len(r) : k # Len(r) => k + 1 \in 1..Len(r)
  BY <1>1, <1>2
<1>4. \A k \in 1..Len(r) : r[k] = s[k + 1] /\ r[k] \in live
  BY <1>2, <1>3 DEF Linked
<1>5. \A k \in 1..Len(r) : next[r[k]] = IF k = Len(r) THEN NULL ELSE r[k + 1]
  <2>1. SUFFICES ASSUME NEW k \in 1..Len(r)
                 PROVE  next[r[k]] = IF k = Len(r) THEN NULL ELSE r[k + 1]
    OBVIOUS
  <2>2. next[s[k + 1]] = IF k + 1 = Len(s) THEN NULL ELSE s[(k + 1) + 1]
    BY <1>3 DEF Linked
  <2>3. k # Len(r) => r[k + 1] = s[(k + 1) + 1]
    BY <1>3, <1>4
  <2>4. QED BY <1>3, <1>4, <2>2, <2>3
<1>6. head # NULL /\ next[head] = IF Len(r) = 0 THEN NULL ELSE r[1]
  <2>1. 1 \in 1..Len(s) /\ head = s[1] /\ head \in Nodes
    BY <1>1 DEF Linked
  <2>2. next[s[1]] = IF 1 = Len(s) THEN NULL ELSE s[1 + 1]
    BY <2>1 DEF Linked
  <2>3. Len(r) # 0 => 1 \in 1..Len(r)
    BY <1>3
  <2>4. Len(r) # 0 => r[1] = s[1 + 1]
    BY <1>4, <2>3
  <2>5. (1 = Len(s)) <=> Len(r) = 0
    BY <1>1, <1>2
  <2>6. QED BY <1>1, <2>1, <2>2, <2>4, <2>5
<1>7. QED BY <1>1, <1>2, <1>3, <1>4, <1>5, <1>6 DEF r

LEMMA ChainFollows ==
  ASSUME NEW s \in Seq(Nodes), Len(s) <= NumNodes, head # NULL,
         next[head] = IF Len(s) = 0 THEN NULL ELSE s[1],
         \A k \in 1..Len(s) : next[s[k]] = IF k = Len(s) THEN NULL ELSE s[k + 1]
  PROVE  Chain = s
<1> DEFINE g == [d \in 0..NumNodes |-> First(s, d)]
           h == CHOOSE f : Follows(f)
<1>1. /\ s \in Seq(Nodes) /\ Len(s) \in Nat /\ Len(s) <= NumNodes
      /\ NumNodes \in Nat /\ NULL \notin Nodes
  BY Constants
<1>2. ASSUME NEW f, NEW d \in 1..NumNodes, f[d - 1] = First(s, d - 1)
      PROVE  Follow(f, d) = First(s, d)
  <2> DEFINE e == d - 1
             c == First(s, e)
             n == IF c = <<>> THEN (IF head = NULL THEN NULL ELSE next[head])
                              ELSE next[c[Len(c)]]
  <2>1. e \in Nat /\ d = e + 1 /\ d # 0
    BY <1>1
  <2>2. Follow(f, d) = IF n = NULL THEN c ELSE Append(c, n)
    BY <1>2, <2>1 DEF Follow
  <2>3. CASE e < Len(s)
    <3>1. Append(c, s[d]) = First(s, d) /\ Len(c) = e /\ (e = 0 <=> c = <<>>)
          /\ (e > 0 => c[e] = s[e])
      BY <1>1, <2>1, <2>3, FirstOf
    <3>2. s[d] \in Nodes
      BY <1>1, <2>1, <2>3
    <3>3. CASE e = 0
      BY <1>1, <2>1, <2>2, <2>3, <3>1, <3>2, <3>3
    <3>4. CASE e > 0
      <4>1. n = next[s[e]] /\ e \in 1..Len(s) /\ e # Len(s)
        BY <1>1, <2>1, <2>3, <3>1, <3>4
      <4>2. n = s[d]
        BY <2>1, <4>1
      <4>3. QED BY <1>1, <2>2, <3>1, <3>2, <4>2
    <3>5. QED BY <2>1, <3>3, <3>4
  <2>4. CASE e >= Len(s)
    <3>1. c = s /\ First(s, d) = s
      BY <1>1, <2>1, <2>4, FirstOf
    <3>2. n = NULL
      BY <1>1, <3>1
    <3>3. QED BY <2>2, <3>1, <3>2
  <2>5. QED BY <1>1, <2>1, <2>3, <2>4
<1>3. \A f : Follow(f, 0) = First(s, 0)
  BY <1>1, FirstOf DEF Follow
<1>4. Follows(g)
  <2>1. ASSUME NEW d \in 0..NumNodes PROVE g[d] = Follow(g, d)
    <3>1. CASE d = 0
      BY <1>3, <3>1
    <3>2. CASE d # 0
      <4>1. d \in 1..NumNodes /\ d - 1 \in 0..NumNodes
        BY <1>1, <3>2
      <4>2. QED BY <1>2, <4>1
    <3>3. QED BY <3>1, <3>2
  <2>2. QED BY <2>1 DEF Follows
<1>5. Follows(h)
  BY <1>4
<1>6. Chain = h[NumNodes]
  BY DEF Chain, Follows, Follow
<1> HIDE DEF g, h
<1>7. ASSUME NEW d \in 0..NumNodes PROVE h[d] = Follow(h, d)
  BY <1>5 DEF Follows
<1>8. \A d \in 0..NumNodes : h[d] = First(s, d)
  <2> DEFINE Wrong == {d \in 0..NumNodes : h[d] # First(s, d)}
  <2>1. SUFFICES ASSUME Wrong # {} PROVE FALSE
    OBVIOUS
  <2>2. Wrong \subseteq Nat
    BY <1>1
  <2>3. PICK m \in Wrong : \A k \in Wrong : m <= k
    BY <2>1, <2>2, Smallest
  <2>4. m \in 0..NumNodes /\ m # 0
    BY <1>1, <1>3, <1>7
  <2>5. m \in 1..NumNodes /\ m - 1 \in 0..NumNodes /\ ~(m <= m - 1)
    BY <1>1, <2>4
  <2>6. h[m - 1] = First(s, m - 1)
    BY <2>3, <2>5
  <2>7. Follow(h, m) = First(s, m)
    BY <1>2, <2>5, <2>6
  <2>8. QED BY <1>7, <2>4, <2>7
<1>9. First(s, NumNodes) = s
  BY <1>1, FirstOf
<1>10. QED BY <1>1, <1>6, <1>8, <1>9

LEMMA ChainIs ==
  ASSUME NEW s, Linked(s)
  PROVE  Chain = Tail(s)
BY BehindDummy, ChainFollows

-----------------------------------------------------------------------------
(* What the invariant says about the ends of the queue.                    *)

LEMMA HeadIs ==
  ASSUME NEW s, Linked(s)
  PROVE  /\ Len(s) \in Nat /\ 1 \in 1..Len(s) /\ head = s[1] /\ On(s, head)
         /\ next[head] = NULL <=> Len(s) = 1
         /\ Len(s) # 1 => 2 \in 1..Len(s) /\ next[head] = s[2] /\ On(s, next[head])
         /\ \A k \in 1..Len(s) : k > 1 => s[k] # head
         /\ \A n : On(s, n) /\ n # head => Len(s) # 1
<1>1. Len(s) \in Nat /\ Len(s) > 0 /\ NULL \notin Nodes /\ s \in Seq(Nodes)
  BY Constants DEF Linked
<1>2. 1 \in 1..Len(s) /\ (Len(s) # 1 => 2 \in 1..Len(s))
  <2>1. \A n \in Nat : n > 0 => 1 \in 1..n /\ (n # 1 => 2 \in 1..n)
    OBVIOUS
  <2>2. QED BY <1>1, <2>1
<1>3. head = s[1] /\ On(s, head)
  BY <1>2 DEF Linked, On
<1>4. next[s[1]] = IF 1 = Len(s) THEN NULL ELSE s[2]
  <2>1. next[s[1]] = IF 1 = Len(s) THEN NULL ELSE s[1 + 1]
    BY <1>2 DEF Linked
  <2>2. 1 + 1 = 2
    OBVIOUS
  <2>3. QED BY <2>1, <2>2
<1>5. Len(s) # 1 => s[2] \in Nodes /\ On(s, s[2])
  BY <1>1, <1>2 DEF On
<1>6. \A k \in 1..Len(s) : k > 1 => s[k] # head
  BY <1>1, <1>2, <1>3 DEF Linked
<1>7. \A n : On(s, n) /\ n # head => Len(s) # 1
  <2>1. ASSUME NEW n, On(s, n), n # head, Len(s) = 1 PROVE FALSE
    <3>1. PICK k \in 1..Len(s) : s[k] = n
      BY <2>1 DEF On
    <3>2. k = 1
      BY <2>1
    <3>3. QED BY <1>3, <2>1, <3>1, <3>2
  <2>2. QED BY <2>1
<1>8. QED BY <1>1, <1>2, <1>3, <1>4, <1>5, <1>6, <1>7

\* What is in the queue is allocated, guarded, and so is what follows it.
LEMMA OnIs ==
  ASSUME NEW s, Linked(s), NEW n, On(s, n)
  PROVE  /\ n \in live /\ n \in Nodes /\ n # NULL
         /\ next[n] = NULL \/ On(s, next[n])
<1>1. Len(s) \in Nat /\ NULL \notin Nodes /\ s \in Seq(Nodes)
  BY Constants DEF Linked
<1>2. PICK k \in 1..Len(s) : s[k] = n
  BY DEF On
<1>3. n \in live /\ n \in Nodes /\ n # NULL
  BY <1>1, <1>2 DEF Linked
<1>4. next[n] = NULL \/ On(s, next[n])
  <2>1. next[n] = IF k = Len(s) THEN NULL ELSE s[k + 1]
    BY <1>2 DEF Linked
  <2>2. k # Len(s) => k + 1 \in 1..Len(s)
    BY <1>1, <1>2
  <2>3. QED BY <2>1, <2>2 DEF On
<1>5. QED BY <1>3, <1>4

LEMMA OnIsGuarded ==
  ASSUME NEW s, Linked(s), Owned(s), NEW n, On(s, n), NEW t
  PROVE  Guarded(t, n)
<1>1. n \in live
  BY OnIs
<1>2. PICK k \in 1..Len(s) : s[k] = n
  BY DEF On
<1>3. ASSUME NEW u \in Threads, pc[u] \in Preparing PROVE node[u] # n
  BY <1>2, <1>3 DEF Owned, Mine
<1>4. QED BY <1>1, <1>3 DEF Guarded

LEMMA NullIsGuarded ==
  ASSUME Types, NEW t
  PROVE  Guarded(t, NULL)
BY Constants DEF Guarded, Types, Preparing, Added

LEMMA TailIs ==
  ASSUME NEW s, NEW p, Linked(s), Tailed(s, p), p # 0
  PROVE  /\ p \in 1..Len(s) /\ tail = s[p] /\ On(s, tail) /\ Passed(s, p, tail)
         /\ next[tail] = IF p = Len(s) THEN NULL ELSE s[p + 1]
         /\ next[tail] = NULL \/ On(s, next[tail])
<1>1. Len(s) \in Nat /\ p \in 1..Len(s) /\ tail = s[p]
  BY DEF Linked, Tailed
<1>2. On(s, tail)
  BY <1>1 DEF On
<1>3. \A k \in 1..Len(s) : k > p => s[k] # tail
  BY <1>1 DEF Linked
<1>4. next[tail] = IF p = Len(s) THEN NULL ELSE s[p + 1]
  BY <1>1 DEF Linked
<1>5. QED BY <1>1, <1>2, <1>3, <1>4, OnIs DEF Passed

\* A thread that works on a node of its own does not touch the others' nodes.
LEMMA OwnNode ==
  ASSUME NEW s, Owned(s), NEW t \in Threads, pc[t] \in Preparing
  PROVE  /\ node[t] \in live /\ next[node[t]] = NULL
         /\ \A k \in 1..Len(s) : s[k] # node[t]
         /\ ~On(s, node[t])
         /\ \A u \in Threads : u # t /\ pc[u] \in Preparing => node[u] # node[t]
         /\ \A u \in Threads : pc[u] \in Disposing => lhead[u] # node[t]
BY DEF Owned, Mine, Preparing, Disposing, On

\* When only the dummy is left, the abstract queue is empty, as every call has seen.
LEMMA EmptyIsDrained ==
  ASSUME NEW s, NEW p, Inv(s, p), next[head] = NULL, NEW t \in Threads, pc[t] # "idle"
  PROVE  drained[t]
<1>1. Len(s) = 1
  BY HeadIs DEF Inv
<1>2. content \in Seq(Items) /\ Len(content) = 0
  BY <1>1 DEF Inv, Filled, Types, TypeOK, HistTypeOK
<1>3. content = <<>>
  BY <1>2
<1>4. call[t] # NoCall
  BY CallsAre DEF Inv, Types, TypeOK, PCs, Preparing, Added, Seeking, Disposing
<1>5. QED BY <1>3, <1>4 DEF Inv, Drained

-----------------------------------------------------------------------------
(* Each step keeps the invariant.  First the steps that leave the queue as *)
(* it is, but for the tail, which may be moved on.                         *)

\* The next turn of a loop.
LEMMA AgainKeeps ==
  ASSUME NEW s, NEW p, NEW q, Inv(s, p), Types', NEW t \in Threads, Again(t),
         pc[t] \in {"a_check", "a_act", "r_check", "r_act"}, kind' = kind, head' = head,
         q \in p..Len(s), tail' = IF q = p THEN tail ELSE s[q],
         UNCHANGED <<locks, fields, mem, hist>>
  PROVE  Inv(s, q)'
<1> USE DEF Inv, Again, Forget, locks, fields, mem, hist
<1>1. Len(s) \in Nat /\ p \in 0..Len(s) /\ q \in Nat /\ p <= q
  BY DEF Linked, Tailed
<1>2. /\ pc'[t] \in {"add", "remove"} /\ lhead'[t] = NULL /\ ltail'[t] = NULL /\ lnext'[t] = NULL
      /\ node' = node /\ (pc[t] \in Preparing <=> pc'[t] \in Preparing) /\ pc'[t] \notin Disposing
      /\ (pc'[t] = "remove" => pc[t] \in Seeking) /\ pc[t] \notin Disposing
      /\ \A u \in Threads : u # t =>
           pc'[u] = pc[u] /\ lhead'[u] = lhead[u] /\ ltail'[u] = ltail[u] /\ lnext'[u] = lnext[u]
                          /\ val'[u] = val[u]
  BY DEF Types, TypeOK, Preparing, Added, Seeking, Disposing
<1>3. Linked(s)'
  BY DEF Linked
<1>4. Filled(s)'
  BY DEF Filled
<1>5. Tailed(s, q)'
  BY <1>1, <1>2 DEF Tailed
<1>6. Owned(s)'
  BY <1>2, Constants DEF Owned, Mine, Types, Preparing, Disposing
<1>7. Referenced'
  <2>1. \A u \in Threads : pc'[u] \in Preparing => pc[u] \in Preparing
    BY <1>2
  <2>2. \A u, n : Guarded(u, n) => Guarded(u, n)'
    BY <1>2, <2>1 DEF Guarded
  <2>3. QED BY <1>2, <2>2, NullIsGuarded DEF Referenced
<1>8. ASSUME NEW u \in Threads PROVE Knows(s, q, u)'
  <2>1. CASE u = t
    BY <1>2, <2>1 DEF Knows
  <2>2. CASE u # t
    <3>1. \A n : Passed(s, p, n) => Passed(s, q, n)'
      BY <1>1 DEF Passed, On
    <3>2. pc[u] = "a_check" => (tail' = ltail[u] /\ lnext[u] # NULL => lnext[u] = next[ltail[u]])
      <4>1. CASE q = p
        BY <4>1 DEF Knows
      <4>2. CASE q # p
        <5>1. q \in 1..Len(s) /\ q > p
          BY <1>1, <4>2
        <5>2. QED BY <4>2, <5>1 DEF Knows, Passed
      <4>3. QED BY <4>1, <4>2
    <3>3. QED BY <1>2, <2>2, <3>1, <3>2 DEF Knows, On
  <2>3. QED BY <2>1, <2>2
<1>9. Drained'
  <2>1. \A u \in Threads : pc'[u] = "r_empty" => pc[u] = "r_empty"
    BY <1>2
  <2>2. \A u \in Threads : pc'[u] \in {"r_check", "r_act"} /\ lnext'[u] = NULL =>
          pc[u] \in {"r_check", "r_act"} /\ lnext[u] = NULL
    BY <1>2
  <2>3. QED BY <2>1, <2>2, Zenon DEF Drained
<1>10. Recorded'
  <2>1. ASSUME NEW u \in Threads
        PROVE  /\ pc'[u] \in {"idle"} \cup Preparing \cup Seeking => lin[u] = Queue!Pending
               /\ pc'[u] \in Preparing => item[node[u]] = call[u].item
               /\ pc'[u] \in Added => lin[u] = 1
               /\ pc'[u] = "r_free" => lin[u] = item[lnext'[u]]
               /\ pc'[u] \in {"r_unlock", "r_release"} => lin[u] = val'[u]
               /\ pc'[u] \in Disposing => lin[u] \in Items
    BY <1>2 DEF Recorded, Preparing, Seeking, Added, Disposing
  <2>2. QED BY <2>1 DEF Recorded
<1>11. Locked'
  BY <1>2 DEF Locked, HoldsTail, HoldsHead
<1>12. QED BY <1>3, <1>4, <1>5, <1>6, <1>7, <1>8, <1>9, <1>10, <1>11

\* A call that returns concerns only its thread.
LEMMA ReturnRecords ==
  ASSUME Types, Drained, Recorded, NEW t \in Threads, NEW r, Return(t, r), item' = item
  PROVE  Drained' /\ Recorded'
<1>1. /\ pc' = [pc EXCEPT ![t] = "idle"]
      /\ node' = [node EXCEPT ![t] = NULL]
      /\ lnext' = [lnext EXCEPT ![t] = NULL]
      /\ val' = [val EXCEPT ![t] = 0]
      /\ call' = [call EXCEPT ![t] = NoCall]
      /\ lin' = [lin EXCEPT ![t] = Queue!Pending]
      /\ content' = content
  BY ReturnIs
<1>2. \A u \in Threads : u # t => drained'[u] = drained[u]
  <2>1. drained' = [drained EXCEPT ![t] = FALSE] /\ drained \in [Threads -> BOOLEAN]
    BY ReturnIs DEF Types, TypeOK, HistTypeOK
  <2>2. QED BY <2>1
<1>3. /\ pc'[t] = "idle" /\ call'[t] = NoCall /\ lin'[t] = Queue!Pending
      /\ \A u \in Threads : u # t =>
           /\ pc'[u] = pc[u] /\ node'[u] = node[u] /\ lnext'[u] = lnext[u] /\ val'[u] = val[u]
           /\ call'[u] = call[u] /\ lin'[u] = lin[u]
  BY <1>1 DEF Types, TypeOK, HistTypeOK
<1>4. Drained'
  <2>1. ASSUME content' = <<>>, NEW u \in Threads, call'[u] # NoCall PROVE drained'[u]
    <3>1. u # t
      BY <1>3, <2>1
    <3>2. content = <<>> /\ call[u] # NoCall
      BY <1>1, <1>3, <2>1, <3>1
    <3>3. drained[u]
      BY <3>2 DEF Drained
    <3>4. QED BY <1>2, <3>1, <3>3
  <2>2. ASSUME NEW u \in Threads, pc'[u] = "r_empty" PROVE drained'[u]
    <3>1. u # t /\ pc[u] = "r_empty"
      BY <1>3, <2>2
    <3>2. drained[u]
      BY <3>1 DEF Drained
    <3>3. QED BY <1>2, <3>1, <3>2
  <2>3. ASSUME NEW u \in Threads, pc'[u] \in {"r_check", "r_act"} /\ lnext'[u] = NULL PROVE drained'[u]
    <3>1. u # t /\ pc[u] \in {"r_check", "r_act"} /\ lnext[u] = NULL
      BY <1>3, <2>3
    <3>2. drained[u]
      BY <3>1 DEF Drained
    <3>3. QED BY <1>2, <3>1, <3>2
  <2>4. QED BY <2>1, <2>2, <2>3, Zenon DEF Drained
<1>5. Recorded'
  <2>1. ASSUME NEW u \in Threads
        PROVE  /\ pc'[u] \in {"idle"} \cup Preparing \cup Seeking => lin'[u] = Queue!Pending
               /\ pc'[u] \in Preparing => item'[node'[u]] = call'[u].item
               /\ pc'[u] \in Added => lin'[u] = 1
               /\ pc'[u] = "r_free" => lin'[u] = item'[lnext'[u]]
               /\ pc'[u] \in {"r_unlock", "r_release"} => lin'[u] = val'[u]
               /\ pc'[u] \in Disposing => lin'[u] \in Items
    BY <1>3 DEF Recorded, Preparing, Seeking, Added, Disposing
  <2>2. QED BY <2>1 DEF Recorded
<1>6. QED BY <1>4, <1>5

LEMMA ReturnKeeps ==
  ASSUME NEW s, NEW p, NEW q, Inv(s, p), Types', NEW t \in Threads, NEW r, Return(t, r),
         pc[t] \in {"a_swing", "a_unlock", "r_act", "r_empty"}, kind' = kind, head' = head,
         q \in p..Len(s), tail' = IF q = p THEN tail ELSE s[q],
         head_lock' = IF pc[t] = "r_empty" THEN TAS_FREE ELSE head_lock,
         tail_lock' = IF pc[t] = "a_unlock" THEN TAS_FREE ELSE tail_lock,
         UNCHANGED <<fields, mem>>
  PROVE  Inv(s, q)'
<1> USE DEF Inv, fields, mem
<1>1. Len(s) \in Nat /\ p \in 0..Len(s) /\ q \in Nat /\ p <= q
  BY DEF Linked, Tailed
<1>2. /\ pc' = [pc EXCEPT ![t] = "idle"]
      /\ node' = [node EXCEPT ![t] = NULL]
      /\ lhead' = [lhead EXCEPT ![t] = NULL]
      /\ ltail' = [ltail EXCEPT ![t] = NULL]
      /\ lnext' = [lnext EXCEPT ![t] = NULL]
      /\ val' = [val EXCEPT ![t] = 0]
      /\ call' = [call EXCEPT ![t] = NoCall]
      /\ lin' = [lin EXCEPT ![t] = Queue!Pending]
      /\ content' = content
  BY ReturnIs
<1>3. /\ pc'[t] = "idle" /\ lhead'[t] = NULL /\ ltail'[t] = NULL /\ lnext'[t] = NULL
      /\ node'[t] = NULL /\ call'[t] = NoCall /\ lin'[t] = Queue!Pending
      /\ \A u \in Threads : u # t =>
           /\ pc'[u] = pc[u] /\ node'[u] = node[u] /\ lhead'[u] = lhead[u] /\ ltail'[u] = ltail[u]
           /\ lnext'[u] = lnext[u] /\ val'[u] = val[u] /\ call'[u] = call[u] /\ lin'[u] = lin[u]
  BY <1>2 DEF Types, TypeOK, HistTypeOK
<1>4. Linked(s)'
  BY DEF Linked
<1>5. Filled(s)'
  BY <1>2 DEF Filled
<1>6. Tailed(s, q)'
  BY <1>1, <1>3 DEF Tailed
<1>7. Owned(s)'
  BY <1>3, Constants DEF Owned, Mine, Types, TypeOK, Preparing, Disposing, Added
<1>8. Referenced'
  <2>1. \A u, n : Guarded(u, n) => Guarded(u, n)'
    BY <1>3 DEF Guarded, Preparing
  <2>2. Guarded(t, NULL)
    BY NullIsGuarded
  <2>3. QED BY <1>3, <2>1, <2>2 DEF Referenced
<1>9. ASSUME NEW u \in Threads PROVE Knows(s, q, u)'
  <2>1. CASE u = t
    BY <1>3, <2>1 DEF Knows
  <2>2. CASE u # t
    <3>1. \A n : Passed(s, p, n) => Passed(s, q, n)'
      BY <1>1 DEF Passed, On
    <3>2. pc[u] = "a_check" => (tail' = ltail[u] /\ lnext[u] # NULL => lnext[u] = next[ltail[u]])
      <4>1. CASE q = p
        BY <4>1 DEF Knows
      <4>2. CASE q # p
        <5>1. q \in 1..Len(s) /\ q > p
          BY <1>1, <4>2
        <5>2. QED BY <4>2, <5>1 DEF Knows, Passed
      <4>3. QED BY <4>1, <4>2
    <3>3. QED BY <1>3, <2>2, <3>1, <3>2 DEF Knows, On
  <2>3. QED BY <2>1, <2>2
<1>10. Drained' /\ Recorded'
  BY ReturnRecords
<1>11. Locked'
  BY <1>3 DEF Locked, HoldsTail, HoldsHead
<1>12. QED BY <1>4, <1>5, <1>6, <1>7, <1>8, <1>9, <1>10, <1>11

\* A step that only changes local variables of its thread, or a lock.
LEMMA LocalKeeps ==
  ASSUME NEW s, NEW p, Inv(s, p), Types', NEW t \in Threads, kind' = kind,
         UNCHANGED <<ends, fields, mem, hist, node, val>>,
         \A u \in Threads : u # t =>
           pc'[u] = pc[u] /\ lhead'[u] = lhead[u] /\ ltail'[u] = ltail[u] /\ lnext'[u] = lnext[u],
         \/ pc[t] \in Preparing /\ pc'[t] \in Preparing
         \/ pc[t] \in Seeking /\ pc'[t] \in Seeking
         \/ pc[t] = "r_unlock" /\ pc'[t] = "r_release" /\ lhead'[t] = lhead[t],
         Guarded(t, lhead'[t]), Guarded(t, ltail'[t]), Guarded(t, lnext'[t]),
         pc'[t] \in {"r_tail", "r_next"} => Guarded(t, next[lhead'[t]]),
         Knows(s, p, t)', Locked',
         pc'[t] = "r_empty" => drained[t],
         pc'[t] \in {"r_check", "r_act"} /\ lnext'[t] = NULL => drained[t]
  PROVE  Inv(s, p)'
<1> USE DEF Inv, ends, fields, mem, hist
<1>1. Linked(s)' /\ Filled(s)'
  BY DEF Linked, Filled
<1>2. \A u \in Threads : (pc'[u] \in Preparing <=> pc[u] \in Preparing)
                         /\ (pc'[u] \in Disposing <=> pc[u] \in Disposing)
                         /\ (pc'[u] = "a_tail" <=> pc[u] = "a_tail")
  BY DEF Preparing, Seeking, Disposing
<1>3. Tailed(s, p)'
  BY <1>2 DEF Tailed
<1>4. Owned(s)'
  <2>1. \A u \in Threads : Mine(u)' = Mine(u)
    BY <1>2 DEF Mine, Preparing, Seeking, Disposing
  <2>2. QED BY <1>2, <2>1 DEF Owned
<1>5. Referenced'
  <2>1. \A u, n : Guarded(u, n) => Guarded(u, n)'
    BY <1>2 DEF Guarded
  <2>2. QED BY <2>1 DEF Referenced
<1>6. ASSUME NEW u \in Threads PROVE Knows(s, p, u)'
  <2>1. CASE u # t
    BY <2>1 DEF Knows, Passed, On
  <2>2. QED BY <2>1
<1>7. Drained'
  <2>1. ASSUME NEW u \in Threads, pc'[u] = "r_empty" PROVE drained[u]
    BY <2>1 DEF Drained
  <2>2. ASSUME NEW u \in Threads, pc'[u] \in {"r_check", "r_act"} /\ lnext'[u] = NULL PROVE drained[u]
    BY <2>2 DEF Drained
  <2>3. QED BY <2>1, <2>2, Zenon DEF Drained
<1>8. Recorded'
  BY DEF Recorded, Preparing, Seeking, Added, Disposing
<1>9. QED BY <1>1, <1>3, <1>4, <1>5, <1>6, <1>7, <1>8

LEMMA AddTailKeeps ==
  ASSUME AsWritten, NEW s, NEW p, Inv(s, p), Types', NEW t \in Threads, kind = "lf", AddTail(t), kind' = kind
  PROVE  Inv(s, p)'
<1> USE DEF AsWritten, Inv, AddTail, Goto, ends, locks, fields, mem, hist
<1>1. p # 0 /\ On(s, tail) /\ Passed(s, p, tail)
  BY TailIs DEF Tailed
<1>2. Guarded(t, tail)
  BY <1>1, OnIsGuarded
<1>3. \A u \in Threads : u # t =>
        pc'[u] = pc[u] /\ lhead'[u] = lhead[u] /\ ltail'[u] = ltail[u] /\ lnext'[u] = lnext[u]
  BY DEF Types, TypeOK
<1>4. \/ pc[t] \in Preparing /\ pc'[t] \in Preparing
      \/ pc[t] \in Seeking /\ pc'[t] \in Seeking
      \/ pc[t] = "r_unlock" /\ pc'[t] = "r_release" /\ lhead'[t] = lhead[t]
  BY DEF Types, TypeOK, Preparing, Seeking
<1>5. /\ Guarded(t, lhead'[t]) /\ Guarded(t, ltail'[t]) /\ Guarded(t, lnext'[t])
      /\ pc'[t] \in {"r_tail", "r_next"} => Guarded(t, next[lhead'[t]])
  BY <1>2 DEF Referenced, Types, TypeOK
<1>6. Knows(s, p, t)'
  BY <1>1 DEF Knows, Passed, On, Types, TypeOK
<1>7. Locked'
  BY DEF Locked, HoldsTail, HoldsHead, Types, TypeOK
<1>8. pc'[t] = "r_empty" => drained[t]
  BY DEF Types, TypeOK, Drained
<1>9. pc'[t] \in {"r_check", "r_act"} /\ lnext'[t] = NULL => drained[t]
  BY DEF Types, TypeOK, Drained
<1>10. QED BY <1>3, <1>4, <1>5, <1>6, <1>7, <1>8, <1>9, LocalKeeps

LEMMA AddNextKeeps ==
  ASSUME AsWritten, NEW s, NEW p, Inv(s, p), Types', NEW t \in Threads, kind = "lf", AddNext(t), kind' = kind
  PROVE  Inv(s, p)'
<1> USE DEF AsWritten, Inv, AddNext, Goto, ends, locks, fields, mem, hist
<1>1. p # 0 /\ (next[tail] = NULL \/ On(s, next[tail]))
  BY TailIs DEF Tailed
<1>2. Guarded(t, next[tail])
  BY <1>1, OnIsGuarded, NullIsGuarded
<1>3. \A u \in Threads : u # t =>
        pc'[u] = pc[u] /\ lhead'[u] = lhead[u] /\ ltail'[u] = ltail[u] /\ lnext'[u] = lnext[u]
  BY DEF Types, TypeOK
<1>4. \/ pc[t] \in Preparing /\ pc'[t] \in Preparing
      \/ pc[t] \in Seeking /\ pc'[t] \in Seeking
      \/ pc[t] = "r_unlock" /\ pc'[t] = "r_release" /\ lhead'[t] = lhead[t]
  BY DEF Types, TypeOK, Preparing, Seeking
<1>5. /\ Guarded(t, lhead'[t]) /\ Guarded(t, ltail'[t]) /\ Guarded(t, lnext'[t])
      /\ pc'[t] \in {"r_tail", "r_next"} => Guarded(t, next[lhead'[t]])
  BY <1>2 DEF Referenced, Types, TypeOK
<1>6. Knows(s, p, t)'
  BY <1>1 DEF Knows, Passed, On, Types, TypeOK
<1>7. Locked'
  BY DEF Locked, HoldsTail, HoldsHead, Types, TypeOK
<1>8. pc'[t] = "r_empty" => drained[t]
  BY DEF Types, TypeOK, Drained
<1>9. pc'[t] \in {"r_check", "r_act"} /\ lnext'[t] = NULL => drained[t]
  BY DEF Types, TypeOK, Drained
<1>10. QED BY <1>3, <1>4, <1>5, <1>6, <1>7, <1>8, <1>9, LocalKeeps

LEMMA AddLockKeeps ==
  ASSUME AsWritten, NEW s, NEW p, Inv(s, p), Types', NEW t \in Threads, kind # "lf", AddLock(t), kind' = kind
  PROVE  Inv(s, p)'
<1> USE DEF AsWritten, Inv, AddLock, Goto, ends, locks, fields, mem, hist, locals, tas_lock_passes, tas_locked, TAS_FREE, TAS_LCKD
<1>1. \A u \in Threads : u # t =>
        pc'[u] = pc[u] /\ lhead'[u] = lhead[u] /\ ltail'[u] = ltail[u] /\ lnext'[u] = lnext[u]
  BY DEF Types, TypeOK
<1>2. \/ pc[t] \in Preparing /\ pc'[t] \in Preparing
      \/ pc[t] \in Seeking /\ pc'[t] \in Seeking
      \/ pc[t] = "r_unlock" /\ pc'[t] = "r_release" /\ lhead'[t] = lhead[t]
  BY DEF Types, TypeOK, Preparing, Seeking
<1>3. /\ Guarded(t, lhead'[t]) /\ Guarded(t, ltail'[t]) /\ Guarded(t, lnext'[t])
      /\ pc'[t] \in {"r_tail", "r_next"} => Guarded(t, next[lhead'[t]])
  BY DEF Referenced, Types, TypeOK
<1>4. Knows(s, p, t)'
  BY DEF Knows, Passed, On, Types, TypeOK
<1>5. Locked'
  BY DEF Locked, HoldsTail, HoldsHead, Types, TypeOK
<1>6. pc'[t] = "r_empty" => drained[t]
  BY DEF Types, TypeOK, Drained
<1>7. pc'[t] \in {"r_check", "r_act"} /\ lnext'[t] = NULL => drained[t]
  BY DEF Types, TypeOK, Drained
<1>8. QED BY <1>1, <1>2, <1>3, <1>4, <1>5, <1>6, <1>7, LocalKeeps

LEMMA RemoveHeadKeeps ==
  ASSUME AsWritten, NEW s, NEW p, Inv(s, p), Types', NEW t \in Threads, kind # "lb", RemoveHead(t), kind' = kind
  PROVE  Inv(s, p)'
<1> USE DEF AsWritten, Inv, RemoveHead, Goto, ends, locks, fields, mem, hist
<1>1. /\ On(s, head) /\ (next[head] = NULL \/ On(s, next[head]))
      /\ \A k \in 1..Len(s) : k > 1 => s[k] # head
  BY HeadIs
<1>2. Guarded(t, head) /\ Guarded(t, next[head])
  BY <1>1, OnIsGuarded, NullIsGuarded
<1>3. \A u \in Threads : u # t =>
        pc'[u] = pc[u] /\ lhead'[u] = lhead[u] /\ ltail'[u] = ltail[u] /\ lnext'[u] = lnext[u]
  BY DEF Types, TypeOK
<1>4. \/ pc[t] \in Preparing /\ pc'[t] \in Preparing
      \/ pc[t] \in Seeking /\ pc'[t] \in Seeking
      \/ pc[t] = "r_unlock" /\ pc'[t] = "r_release" /\ lhead'[t] = lhead[t]
  BY DEF Types, TypeOK, Preparing, Seeking
<1>5. /\ Guarded(t, lhead'[t]) /\ Guarded(t, ltail'[t]) /\ Guarded(t, lnext'[t])
      /\ pc'[t] \in {"r_tail", "r_next"} => Guarded(t, next[lhead'[t]])
  BY <1>2 DEF Referenced, Types, TypeOK
<1>6. Knows(s, p, t)'
  BY <1>1 DEF Knows, Passed, On, Types, TypeOK
<1>7. Locked'
  BY DEF Locked, HoldsTail, HoldsHead, Types, TypeOK
<1>8. pc'[t] = "r_empty" => drained[t]
  BY DEF Types, TypeOK, Drained
<1>9. pc'[t] \in {"r_check", "r_act"} /\ lnext'[t] = NULL => drained[t]
  BY DEF Types, TypeOK, Drained
<1>10. QED BY <1>3, <1>4, <1>5, <1>6, <1>7, <1>8, <1>9, LocalKeeps

LEMMA RemoveTailKeeps ==
  ASSUME AsWritten, NEW s, NEW p, Inv(s, p), Types', NEW t \in Threads, kind # "lb", RemoveTail(t), kind' = kind
  PROVE  Inv(s, p)'
<1> USE DEF AsWritten, Inv, RemoveTail, Goto, ends, locks, fields, mem, hist
<1>1. p # 0 /\ On(s, tail) /\ Passed(s, p, tail)
  BY TailIs DEF Tailed
<1>2. Guarded(t, tail)
  BY <1>1, OnIsGuarded
<1>3. \A u \in Threads : u # t =>
        pc'[u] = pc[u] /\ lhead'[u] = lhead[u] /\ ltail'[u] = ltail[u] /\ lnext'[u] = lnext[u]
  BY DEF Types, TypeOK
<1>4. \/ pc[t] \in Preparing /\ pc'[t] \in Preparing
      \/ pc[t] \in Seeking /\ pc'[t] \in Seeking
      \/ pc[t] = "r_unlock" /\ pc'[t] = "r_release" /\ lhead'[t] = lhead[t]
  BY DEF Types, TypeOK, Preparing, Seeking
<1>5. /\ Guarded(t, lhead'[t]) /\ Guarded(t, ltail'[t]) /\ Guarded(t, lnext'[t])
      /\ pc'[t] \in {"r_tail", "r_next"} => Guarded(t, next[lhead'[t]])
  BY <1>2 DEF Referenced, Types, TypeOK
<1>6. Knows(s, p, t)'
  BY <1>1 DEF Knows, Passed, On, Types, TypeOK
<1>7. Locked'
  BY DEF Locked, HoldsTail, HoldsHead, Types, TypeOK
<1>8. pc'[t] = "r_empty" => drained[t]
  BY DEF Types, TypeOK, Drained
<1>9. pc'[t] \in {"r_check", "r_act"} /\ lnext'[t] = NULL => drained[t]
  BY DEF Types, TypeOK, Drained
<1>10. QED BY <1>3, <1>4, <1>5, <1>6, <1>7, <1>8, <1>9, LocalKeeps

LEMMA RemoveNextKeeps ==
  ASSUME AsWritten, NEW s, NEW p, Inv(s, p), Types', NEW t \in Threads, kind # "lb", RemoveNext(t), kind' = kind
  PROVE  Inv(s, p)'
<1> USE DEF AsWritten, Inv, RemoveNext, Goto, ends, locks, fields, mem, hist
<1>1. lhead[t] = head /\ ltail[t] # lhead[t] => next[lhead[t]] # NULL
  BY HeadIs DEF Knows
<1>2. Guarded(t, next[lhead[t]])
  BY DEF Referenced
<1>3. next[lhead[t]] = NULL => drained[t]
  BY EmptyIsDrained DEF Knows
<1>4. \A u \in Threads : u # t =>
        pc'[u] = pc[u] /\ lhead'[u] = lhead[u] /\ ltail'[u] = ltail[u] /\ lnext'[u] = lnext[u]
  BY DEF Types, TypeOK
<1>5. \/ pc[t] \in Preparing /\ pc'[t] \in Preparing
      \/ pc[t] \in Seeking /\ pc'[t] \in Seeking
      \/ pc[t] = "r_unlock" /\ pc'[t] = "r_release" /\ lhead'[t] = lhead[t]
  BY DEF Types, TypeOK, Preparing, Seeking
<1>6. /\ Guarded(t, lhead'[t]) /\ Guarded(t, ltail'[t]) /\ Guarded(t, lnext'[t])
      /\ pc'[t] \in {"r_tail", "r_next"} => Guarded(t, next[lhead'[t]])
  BY <1>2 DEF Referenced, Types, TypeOK
<1>7. Knows(s, p, t)'
  BY <1>1 DEF Knows, Passed, On, Types, TypeOK
<1>8. Locked'
  BY DEF Locked, HoldsTail, HoldsHead, Types, TypeOK
<1>9. pc'[t] = "r_empty" => drained[t]
  BY <1>3 DEF Types, TypeOK, Drained
<1>10. pc'[t] \in {"r_check", "r_act"} /\ lnext'[t] = NULL => drained[t]
  BY <1>3 DEF Types, TypeOK, Drained
<1>11. QED BY <1>4, <1>5, <1>6, <1>7, <1>8, <1>9, <1>10, LocalKeeps

LEMMA RemoveLockKeeps ==
  ASSUME AsWritten, NEW s, NEW p, Inv(s, p), Types', NEW t \in Threads, kind = "lb", RemoveLock(t), kind' = kind
  PROVE  Inv(s, p)'
<1> USE DEF AsWritten, Inv, RemoveLock, Goto, ends, locks, fields, mem, hist, locals, tas_lock_passes, tas_locked, TAS_FREE, TAS_LCKD
<1>1. \A u \in Threads : u # t =>
        pc'[u] = pc[u] /\ lhead'[u] = lhead[u] /\ ltail'[u] = ltail[u] /\ lnext'[u] = lnext[u]
  BY DEF Types, TypeOK
<1>2. \/ pc[t] \in Preparing /\ pc'[t] \in Preparing
      \/ pc[t] \in Seeking /\ pc'[t] \in Seeking
      \/ pc[t] = "r_unlock" /\ pc'[t] = "r_release" /\ lhead'[t] = lhead[t]
  BY DEF Types, TypeOK, Preparing, Seeking
<1>3. /\ Guarded(t, lhead'[t]) /\ Guarded(t, ltail'[t]) /\ Guarded(t, lnext'[t])
      /\ pc'[t] \in {"r_tail", "r_next"} => Guarded(t, next[lhead'[t]])
  BY DEF Referenced, Types, TypeOK
<1>4. Knows(s, p, t)'
  BY DEF Knows, Passed, On, Types, TypeOK
<1>5. Locked'
  BY DEF Locked, HoldsTail, HoldsHead, Types, TypeOK
<1>6. pc'[t] = "r_empty" => drained[t]
  BY DEF Types, TypeOK, Drained
<1>7. pc'[t] \in {"r_check", "r_act"} /\ lnext'[t] = NULL => drained[t]
  BY DEF Types, TypeOK, Drained
<1>8. QED BY <1>1, <1>2, <1>3, <1>4, <1>5, <1>6, <1>7, LocalKeeps

LEMMA RemoveHeadLockedKeeps ==
  ASSUME AsWritten, NEW s, NEW p, Inv(s, p), Types', NEW t \in Threads, kind = "lb", RemoveHeadLocked(t), kind' = kind
  PROVE  Inv(s, p)'
<1> USE DEF AsWritten, Inv, RemoveHeadLocked, Goto, ends, locks, fields, mem, hist
<1>1. /\ On(s, head) /\ (next[head] = NULL \/ On(s, next[head]))
  BY HeadIs
<1>2. Guarded(t, head) /\ Guarded(t, next[head])
  BY <1>1, OnIsGuarded, NullIsGuarded
<1>3. next[head] = NULL => drained[t]
  BY EmptyIsDrained
<1>4. \A u \in Threads : u # t =>
        pc'[u] = pc[u] /\ lhead'[u] = lhead[u] /\ ltail'[u] = ltail[u] /\ lnext'[u] = lnext[u]
  BY DEF Types, TypeOK
<1>5. \/ pc[t] \in Preparing /\ pc'[t] \in Preparing
      \/ pc[t] \in Seeking /\ pc'[t] \in Seeking
      \/ pc[t] = "r_unlock" /\ pc'[t] = "r_release" /\ lhead'[t] = lhead[t]
  BY DEF Types, TypeOK, Preparing, Seeking
<1>6. /\ Guarded(t, lhead'[t]) /\ Guarded(t, ltail'[t]) /\ Guarded(t, lnext'[t])
      /\ pc'[t] \in {"r_tail", "r_next"} => Guarded(t, next[lhead'[t]])
  BY <1>2 DEF Referenced, Types, TypeOK
<1>7. Knows(s, p, t)'
  BY <1>1 DEF Knows, Passed, On, Types, TypeOK
<1>8. Locked'
  BY DEF Locked, HoldsTail, HoldsHead, Types, TypeOK
<1>9. pc'[t] = "r_empty" => drained[t]
  BY <1>3 DEF Types, TypeOK, Drained
<1>10. pc'[t] \in {"r_check", "r_act"} /\ lnext'[t] = NULL => drained[t]
  BY <1>3 DEF Types, TypeOK, Drained
<1>11. QED BY <1>4, <1>5, <1>6, <1>7, <1>8, <1>9, <1>10, LocalKeeps

LEMMA RemoveUnlockKeeps ==
  ASSUME AsWritten, NEW s, NEW p, Inv(s, p), Types', NEW t \in Threads, kind = "lb", RemoveUnlock(t), kind' = kind
  PROVE  Inv(s, p)'
<1> USE DEF AsWritten, Inv, RemoveUnlock, Goto, ends, locks, fields, mem, hist, locals
<1>1. \A u \in Threads : u # t =>
        pc'[u] = pc[u] /\ lhead'[u] = lhead[u] /\ ltail'[u] = ltail[u] /\ lnext'[u] = lnext[u]
  BY DEF Types, TypeOK
<1>2. \/ pc[t] \in Preparing /\ pc'[t] \in Preparing
      \/ pc[t] \in Seeking /\ pc'[t] \in Seeking
      \/ pc[t] = "r_unlock" /\ pc'[t] = "r_release" /\ lhead'[t] = lhead[t]
  BY DEF Types, TypeOK, Preparing, Seeking
<1>3. /\ Guarded(t, lhead'[t]) /\ Guarded(t, ltail'[t]) /\ Guarded(t, lnext'[t])
      /\ pc'[t] \in {"r_tail", "r_next"} => Guarded(t, next[lhead'[t]])
  BY DEF Referenced, Types, TypeOK
<1>4. Knows(s, p, t)'
  BY DEF Knows, Passed, On, Types, TypeOK
<1>5. Locked'
  BY DEF Locked, HoldsTail, HoldsHead, Types, TypeOK
<1>6. pc'[t] = "r_empty" => drained[t]
  BY DEF Types, TypeOK, Drained
<1>7. pc'[t] \in {"r_check", "r_act"} /\ lnext'[t] = NULL => drained[t]
  BY DEF Types, TypeOK, Drained
<1>8. QED BY <1>1, <1>2, <1>3, <1>4, <1>5, <1>6, <1>7, LocalKeeps


-----------------------------------------------------------------------------
(* The loops, and the steps that move the tail on.                         *)

LEMMA AddCheckKeeps ==
  ASSUME NEW s, NEW p, Inv(s, p), Types', NEW t \in Threads, kind = "lf", AddCheck(t), kind' = kind
  PROVE  Inv(s, p)'
<1>1. CASE tail = ltail[t]
  <2> USE DEF Inv, AddCheck, Goto, ends, locks, fields, mem, hist, locals
  <2>1. \A u \in Threads : u # t =>
          pc'[u] = pc[u] /\ lhead'[u] = lhead[u] /\ ltail'[u] = ltail[u] /\ lnext'[u] = lnext[u]
    BY <1>1 DEF Types, TypeOK
  <2>2. pc[t] = "a_check" /\ pc'[t] = "a_act" /\ pc[t] \in Preparing /\ pc'[t] \in Preparing
    BY <1>1 DEF Types, TypeOK, Preparing
  <2>3. Guarded(t, lhead'[t]) /\ Guarded(t, ltail'[t]) /\ Guarded(t, lnext'[t])
    BY <1>1 DEF Referenced
  <2>4. Knows(s, p, t)'
    BY <1>1, <2>2 DEF Knows, Passed, On
  <2>5. Locked'
    BY <1>1, <2>1, <2>2 DEF Locked, HoldsTail, HoldsHead
  <2>6. QED BY <1>1, <2>1, <2>2, <2>3, <2>4, <2>5, LocalKeeps
<1>2. CASE tail # ltail[t]
  <2>1. p \in p..Len(s)
    BY DEF Inv, Tailed, Linked
  <2>2. QED BY <1>2, <2>1, AgainKeeps DEF AddCheck, ends
<1>3. QED BY <1>1, <1>2

LEMMA RemoveCheckKeeps ==
  ASSUME NEW s, NEW p, Inv(s, p), Types', NEW t \in Threads, kind # "lb", RemoveCheck(t), kind' = kind
  PROVE  Inv(s, p)'
<1>1. CASE head = lhead[t]
  <2> USE DEF Inv, RemoveCheck, Goto, ends, locks, fields, mem, hist, locals
  <2>1. \A u \in Threads : u # t =>
          pc'[u] = pc[u] /\ lhead'[u] = lhead[u] /\ ltail'[u] = ltail[u] /\ lnext'[u] = lnext[u]
    BY <1>1 DEF Types, TypeOK
  <2>2. pc[t] = "r_check" /\ pc'[t] = "r_act" /\ pc[t] \in Seeking /\ pc'[t] \in Seeking
    BY <1>1 DEF Types, TypeOK, Seeking
  <2>3. Guarded(t, lhead'[t]) /\ Guarded(t, ltail'[t]) /\ Guarded(t, lnext'[t])
    BY <1>1 DEF Referenced
  <2>4. Knows(s, p, t)'
    BY <1>1, <2>2 DEF Knows, Passed, On
  <2>5. Locked'
    BY <1>1, <2>1, <2>2 DEF Locked, HoldsTail, HoldsHead
  <2>6. lnext'[t] = NULL => drained[t]
    BY <1>1, <2>2 DEF Drained
  <2>7. QED BY <1>1, <2>1, <2>2, <2>3, <2>4, <2>5, <2>6, LocalKeeps
<1>2. CASE head # lhead[t]
  <2>1. p \in p..Len(s)
    BY DEF Inv, Tailed, Linked
  <2>2. QED BY <1>2, <2>1, AgainKeeps DEF RemoveCheck, ends
<1>3. QED BY <1>1, <1>2

\* The tail is moved to the node that follows it.
LEMMA TailMoves ==
  ASSUME NEW s, NEW p, Linked(s), Tailed(s, p), p # 0, NEW n, n # NULL, next[tail] = n
  PROVE  p + 1 \in p..Len(s) /\ p + 1 # p /\ n = s[p + 1]
<1>1. next[tail] = (IF p = Len(s) THEN NULL ELSE s[p + 1]) /\ p \in 1..Len(s) /\ Len(s) \in Nat
  BY TailIs DEF Linked
<1>2. QED BY <1>1

LEMMA AddHelpKeeps ==
  ASSUME NEW s, NEW p, Inv(s, p), Types', NEW t \in Threads, kind = "lf", AddHelp(t), kind' = kind
  PROVE  \E q : Inv(s, q)'
<1>1. p # 0 /\ p \in p..Len(s)
  BY DEF Inv, Tailed, Linked
<1>2. CASE tail = ltail[t]
  <2>1. next[tail] = lnext[t] /\ lnext[t] # NULL
    BY <1>2 DEF AddHelp, Inv, Knows
  <2>2. p + 1 \in p..Len(s) /\ p + 1 # p /\ lnext[t] = s[p + 1]
    BY <1>1, <2>1, TailMoves DEF Inv
  <2> DEFINE q == p + 1
  <2>3. q \in p..Len(s) /\ tail' = IF q = p THEN tail ELSE s[q]
    BY <1>2, <2>2 DEF AddHelp
  <2> HIDE DEF q
  <2>4. Inv(s, q)'
    BY <2>3, AgainKeeps DEF AddHelp
  <2>5. QED BY <2>4
<1>3. CASE tail # ltail[t]
  <2>1. Inv(s, p)'
    BY <1>1, <1>3, AgainKeeps DEF AddHelp
  <2>2. QED BY <2>1
<1>4. QED BY <1>2, <1>3

LEMMA RemoveHelpKeeps ==
  ASSUME NEW s, NEW p, Inv(s, p), Types', NEW t \in Threads, kind # "lb", RemoveHelp(t), kind' = kind
  PROVE  \E q : Inv(s, q)'
<1>1. p # 0 /\ p \in p..Len(s)
  BY DEF Inv, Tailed, Linked
<1>2. CASE tail = ltail[t]
  <2>1. next[tail] = lnext[t] /\ lnext[t] # NULL
    BY <1>2 DEF RemoveHelp, Inv, Knows
  <2>2. p + 1 \in p..Len(s) /\ p + 1 # p /\ lnext[t] = s[p + 1]
    BY <1>1, <2>1, TailMoves DEF Inv
  <2> DEFINE q == p + 1
  <2>3. q \in p..Len(s) /\ tail' = IF q = p THEN tail ELSE s[q]
    BY <1>2, <2>2 DEF RemoveHelp
  <2> HIDE DEF q
  <2>4. Inv(s, q)'
    BY <2>3, AgainKeeps DEF RemoveHelp
  <2>5. QED BY <2>4
<1>3. CASE tail # ltail[t]
  <2>1. Inv(s, p)'
    BY <1>1, <1>3, AgainKeeps DEF RemoveHelp
  <2>2. QED BY <2>1
<1>4. QED BY <1>2, <1>3

LEMMA AddSwingKeeps ==
  ASSUME NEW s, NEW p, Inv(s, p), Types', NEW t \in Threads, kind = "lf", AddSwing(t), kind' = kind
  PROVE  \E q : Inv(s, q)'
<1>1. p # 0 /\ p \in p..Len(s)
  BY DEF Inv, Tailed, Linked
<1>2. pc[t] = "a_swing" /\ head_lock' = head_lock /\ tail_lock' = tail_lock
  BY DEF AddSwing, locks
<1>3. CASE tail = ltail[t]
  <2>1. next[tail] = node[t] /\ node[t] # NULL
    BY <1>2, <1>3, Constants DEF Inv, Knows, Types, Added
  <2>2. p + 1 \in p..Len(s) /\ p + 1 # p /\ node[t] = s[p + 1]
    BY <1>1, <2>1, TailMoves DEF Inv
  <2> DEFINE q == p + 1
  <2>3. q \in p..Len(s) /\ tail' = IF q = p THEN tail ELSE s[q]
    BY <1>3, <2>2 DEF AddSwing
  <2> HIDE DEF q
  <2>4. Inv(s, q)'
    BY <1>2, <2>3, ReturnKeeps DEF AddSwing
  <2>5. QED BY <2>4
<1>4. CASE tail # ltail[t]
  <2>1. Inv(s, p)'
    BY <1>1, <1>2, <1>4, ReturnKeeps DEF AddSwing
  <2>2. QED BY <2>1
<1>5. QED BY <1>3, <1>4

LEMMA AddUnlockKeeps ==
  ASSUME NEW s, NEW p, Inv(s, p), Types', NEW t \in Threads, kind # "lf", AddUnlock(t), kind' = kind
  PROVE  Inv(s, p)'
<1>1. p \in p..Len(s)
  BY DEF Inv, Tailed, Linked
<1>2. QED BY <1>1, ReturnKeeps DEF AddUnlock, ends

LEMMA RemoveEmptyKeeps ==
  ASSUME NEW s, NEW p, Inv(s, p), Types', NEW t \in Threads, kind # "lb", RemoveEmpty(t), kind' = kind
  PROVE  Inv(s, p)'
<1>1. p \in p..Len(s)
  BY DEF Inv, Tailed, Linked
<1>2. QED BY <1>1, ReturnKeeps DEF RemoveEmpty, ends, locks

LEMMA RemoveUnlockEmptyKeeps ==
  ASSUME NEW s, NEW p, Inv(s, p), Types', NEW t \in Threads, kind = "lb", RemoveUnlockEmpty(t), kind' = kind
  PROVE  Inv(s, p)'
<1>1. p \in p..Len(s)
  BY DEF Inv, Tailed, Linked
<1>2. QED BY <1>1, ReturnKeeps DEF RemoveUnlockEmpty, ends

-----------------------------------------------------------------------------
(* The steps with an effect: linking a node, and moving the head.          *)

LEMMA EffectKeeps ==
  ASSUME Drained, NEW t \in Threads, call' = call,
         drained' = [u \in Threads |-> drained[u] \/ (call[u] # NoCall /\ content' = <<>>)],
         \A u \in Threads : pc'[u] = "r_empty" => pc[u] = "r_empty",
         \A u \in Threads : pc'[u] \in {"r_check", "r_act"} => pc[u] \in {"r_check", "r_act"},
         lnext' = lnext
  PROVE  Drained'
<1>1. \A u \in Threads : drained[u] => drained'[u]
  BY Zenon
<1>2. content' = <<>> => \A u \in Threads : call'[u] # NoCall => drained'[u]
  BY Zenon
<1>3. QED BY <1>1, <1>2, Zenon DEF Drained

\* The node n of t is linked behind the last node, which is the tail.
LEMMA LinkKeeps ==
  ASSUME NEW s, NEW p, Inv(s, p), Types', NEW t \in Threads, NEW n, n = node[t], NEW m, m = s[Len(s)],
         p = Len(s), Enqueues(t), next' = [next EXCEPT ![m] = n],
         \/ pc[t] = "a_act" /\ pc' = [pc EXCEPT ![t] = "a_swing"] /\ ltail[t] = m
         \/ pc[t] = "a_link" /\ pc' = [pc EXCEPT ![t] = "a_tail"],
         kind' = kind, UNCHANGED <<ends, locks, item, locals, mem>>
  PROVE  Inv(Append(s, n), p)'
<1> DEFINE z == Append(s, n)
           L == Len(s)
<1> USE DEF Inv, ends, locks, locals, mem
<1>1. /\ L \in Nat /\ L > 0 /\ s \in Seq(Nodes) /\ n \in Nodes /\ n # NULL /\ NULL \notin Nodes
      /\ L \in 1..L /\ m \in Nodes /\ tail = m
  BY Constants DEF Linked, Tailed, Types, Preparing
<1>2. /\ z \in Seq(Nodes) /\ Len(z) = L + 1 /\ z[L + 1] = n /\ \A k \in 1..L : z[k] = s[k]
  BY <1>1, LastIn
<1>3. pc[t] \in Preparing
  BY DEF Preparing
<1>4. /\ n \in live /\ next[n] = NULL /\ (\A k \in 1..L : s[k] # n) /\ n # m
      /\ \A u \in Threads : u # t /\ pc[u] \in Preparing => node[u] # n
      /\ \A u \in Threads : pc[u] \in Disposing => lhead[u] # n
  BY <1>1, <1>3, OwnNode
<1>5. /\ next'[m] = n /\ \A o \in Nodes : o # m => next'[o] = next[o]
      /\ next[m] = NULL
  BY <1>1 DEF Types, TypeOK, Linked
<1>6. \A k \in 1..(L + 1) : k \in 1..L \/ k = L + 1
  BY <1>1
<1>7. /\ pc'[t] \in {"a_swing", "a_tail"} /\ \A u \in Threads : u # t => pc'[u] = pc[u]
      /\ pc'[t] \notin Preparing \cup Disposing
  BY DEF Types, TypeOK, Preparing, Disposing
<1> HIDE DEF z, L
<1>8. Linked(z)'
  <2>1. \A k \in 1..Len(z) : z[k] \in live
    BY <1>2, <1>4, <1>6 DEF Linked, L
  <2>2. \A j, k \in 1..Len(z) : z[j] = z[k] => j = k
    BY <1>2, <1>4, <1>6 DEF Linked, L
  <2>3. head = z[1]
    BY <1>1, <1>2 DEF Linked, L
  <2>4. ASSUME NEW k \in 1..Len(z)
        PROVE  next'[z[k]] = IF k = Len(z) THEN NULL ELSE z[k + 1]
    <3>1. CASE k = L + 1
      BY <1>1, <1>2, <1>4, <1>5, <3>1
    <3>2. CASE k = L
      BY <1>1, <1>2, <1>5, <3>2 DEF L
    <3>3. CASE k \in 1..L /\ k # L
      <4>1. k + 1 \in 1..L /\ k # Len(z)
        BY <1>1, <1>2, <3>3
      <4>2. s[k] # m /\ s[k] \in Nodes
        BY <1>1, <3>3 DEF Linked, L
      <4>3. next[s[k]] = s[k + 1]
        BY <3>3 DEF Linked, L
      <4>4. QED BY <1>2, <1>5, <3>3, <4>1, <4>2, <4>3
    <3>4. QED BY <1>2, <1>6, <3>1, <3>2, <3>3
  <2>5. QED BY <1>1, <1>2, <2>1, <2>2, <2>3, <2>4 DEF Linked
<1>9. Filled(z)'
  <2>1. /\ content \in Seq(Items) /\ call[t].item \in Items /\ content' = Append(content, call[t].item)
        /\ item[n] = call[t].item /\ Len(content) = L - 1
    BY <1>3, EnqueuesIs DEF Types, TypeOK, HistTypeOK, Recorded, Filled, L
  <2>2. Len(content') = L /\ content'[L] = call[t].item /\ \A k \in 1..(L - 1) : content'[k] = content[k]
    <3>1. /\ Len(content') = Len(content) + 1 /\ content'[Len(content) + 1] = call[t].item
          /\ \A k \in 1..Len(content) : content'[k] = content[k]
      BY <2>1, LastIn
    <3>2. Len(content) + 1 = L
      BY <1>1, <2>1
    <3>3. QED BY <2>1, <3>1, <3>2
  <2>3. Len(content') = Len(z) - 1
    BY <1>1, <1>2, <2>2
  <2>4. ASSUME NEW k \in 1..(Len(z) - 1) PROVE content'[k] = item'[z[k + 1]]
    <3>1. CASE k = L
      BY <1>2, <2>1, <2>2, <3>1
    <3>2. CASE k # L
      <4>1. k \in 1..(L - 1) /\ k + 1 \in 1..L
        BY <1>1, <1>2, <3>2
      <4>2. QED BY <1>2, <2>2, <4>1 DEF Filled, L
    <3>3. QED BY <3>1, <3>2
  <2>5. QED BY <2>3, <2>4 DEF Filled
<1>10. Tailed(z, p)'
  <2>1. p \in 0..Len(z) /\ p # 0 /\ tail = z[p] /\ p >= Len(z) - 1
    BY <1>1, <1>2 DEF L
  <2>2. kind = "lf" \/ pc'[t] = "a_tail"
    BY <1>7 DEF Locked, Types, TypeOK
  <2>3. \A u \in Threads : pc'[u] = "a_tail" => u = t
    BY <1>7 DEF Locked, HoldsTail
  <2>4. QED BY <1>2, <2>1, <2>2, <2>3 DEF Tailed
<1>11. Owned(z)'
  <2>1. ASSUME NEW u \in Threads, pc'[u] \in Preparing \cup Disposing
        PROVE  u # t /\ pc[u] = pc'[u] /\ Mine(u)' = Mine(u) /\ Mine(u) # n
    BY <1>4, <1>7, <2>1 DEF Mine
  <2>2. \A u \in Threads : Mine(u)' = Mine(u) \/ Mine(u)' = NULL
    BY <1>7 DEF Mine
  <2>3. ASSUME NEW u \in Threads, pc'[u] \in Preparing \cup Disposing
        PROVE  /\ Mine(u) \in live
               /\ \A k \in 1..Len(z) : z[k] # Mine(u)
               /\ \A v \in Threads : Mine(v)' = Mine(u) => v = u
               /\ pc[u] \in Preparing => next'[node[u]] = NULL
    <3>1. /\ Mine(u) \in live /\ (\A k \in 1..L : s[k] # Mine(u))
          /\ \A v \in Threads : Mine(v) = Mine(u) => v = u
      BY <2>1, <2>3 DEF Owned, L
    <3>2. \A k \in 1..Len(z) : z[k] # Mine(u)
      BY <1>2, <1>6, <2>1, <2>3, <3>1
    <3>3. Mine(u) # NULL
      BY <1>1, <3>1 DEF Types, TypeOK, MemTypeOK
    <3>4. ASSUME pc[u] \in Preparing PROVE next'[node[u]] = NULL
      <4>1. node[u] \in Nodes /\ next[node[u]] = NULL /\ node[u] # m
        BY <1>1, <3>1, <3>4 DEF Owned, Mine, Types, L
      <4>2. QED BY <1>5, <4>1
    <3>5. QED BY <2>2, <3>1, <3>2, <3>3, <3>4
  <2>4. QED BY <2>1, <2>3 DEF Owned
<1>12. ASSUME NEW u, NEW o, Guarded(u, o) PROVE Guarded(u, o)'
  BY <1>7, <1>12 DEF Guarded
<1>13. ASSUME NEW u \in Threads, NEW o, Guarded(u, o) PROVE o # n
  BY <1>3, <1>13 DEF Guarded
<1>14. Referenced'
  <2>1. \A u \in Threads : Guarded(u, n)'
    BY <1>4, <1>7 DEF Guarded
  <2>2. ASSUME NEW u \in Threads, pc'[u] \in {"r_tail", "r_next"}
        PROVE  Guarded(u, next[lhead[u]])'
    <3>1. u # t /\ pc[u] \in {"r_tail", "r_next"} /\ lhead[u] \in Nodes
      BY <1>7, <2>2 DEF Types
    <3>2. PICK o : o = next'[lhead[u]]
      OBVIOUS
    <3>3. Guarded(u, o)'
      <4>1. CASE lhead[u] = m
        BY <1>5, <2>1, <3>2, <4>1
      <4>2. CASE lhead[u] # m
        <5>1. Guarded(u, o)
          BY <1>5, <3>1, <3>2, <4>2 DEF Referenced
        <5>2. QED BY <1>12, <5>1
      <4>3. QED BY <4>1, <4>2
    <3>4. QED BY <3>2, <3>3 DEF Guarded
  <2>3. ASSUME NEW u \in Threads
        PROVE  Guarded(u, lhead[u])' /\ Guarded(u, ltail[u])' /\ Guarded(u, lnext[u])'
    <3>1. Guarded(u, lhead[u]) /\ Guarded(u, ltail[u]) /\ Guarded(u, lnext[u])
      BY DEF Referenced
    <3>2. QED BY <1>7, <3>1 DEF Guarded
  <2>4. QED BY <2>2, <2>3 DEF Referenced
<1>15. ASSUME NEW u \in Threads PROVE Knows(z, p, u)'
  <2>1. \A o : On(s, o) => On(z, o)
    BY <1>1, <1>2 DEF On, L
  <2>2. \A k \in 1..Len(z) : k > p => k = L + 1 /\ z[k] = n
    BY <1>1, <1>2, <1>6 DEF L
  <2>3. ASSUME NEW o \in Nodes, Passed(s, p, o), o # n PROVE Passed(z, p, o)'
    <3>1. next[o] # NULL => next'[o] # NULL
      BY <1>1, <1>5
    <3>2. QED BY <2>1, <2>2, <2>3, <3>1 DEF Passed, On
  <2>4. CASE u = t
    <3>1. pc'[t] = "a_swing" => ltail[t] = m /\ Passed(s, p, m)
      BY <1>7 DEF Knows, Types, TypeOK
    <3>2. pc'[t] = "a_swing" => Passed(z, p, m)'
      BY <1>1, <1>4, <2>3, <3>1
    <3>3. QED BY <1>5, <1>7, <2>4, <3>1, <3>2 DEF Knows
  <2>5. CASE u # t
    <3>1. pc'[u] = pc[u] /\ Knows(s, p, u) /\ lhead[u] # n /\ ltail[u] # n
      BY <1>7, <1>13, <2>5 DEF Referenced
    <3>2. pc[u] \in {"a_next", "a_check", "a_act", "a_swing", "r_next", "r_check", "r_act"} =>
             ltail[u] \in Nodes /\ Passed(z, p, ltail[u])'
      BY <2>3, <3>1 DEF Types, Knows
    <3>3. pc[u] \in {"r_tail", "r_next", "r_check", "r_act", "r_take"} => lhead[u] \in Nodes
      BY DEF Types
    <3>4. pc[u] = "a_swing" => node[u] # NULL
      BY <1>1 DEF Types, Added
    <3>5. pc[u] \in {"a_check", "a_act", "a_swing"} =>
            /\ pc[u] = "a_check" => (tail' = ltail[u] /\ lnext[u] # NULL => lnext[u] = next'[ltail[u]])
            /\ pc[u] = "a_act" => (lnext[u] # NULL => lnext[u] = next'[ltail[u]])
            /\ pc[u] = "a_swing" => next'[ltail[u]] = node[u]
      BY <1>1, <1>5, <3>1, <3>2, <3>4 DEF Knows
    <3>6. pc[u] \in {"r_tail", "r_next", "r_check", "r_act"} =>
            /\ \A k \in 1..Len(z) : k > 1 => z[k] # lhead[u]
            /\ lhead[u] = head \/ next'[lhead[u]] # NULL
      BY <1>1, <1>2, <1>5, <1>6, <3>1, <3>3 DEF Knows, L
    <3>7. pc[u] \in {"r_next", "r_check", "r_act"} => (lhead[u] = head => On(z, ltail[u]))
      BY <2>1, <3>1 DEF Knows
    <3>8. pc[u] \in {"r_check", "r_act"} =>
            /\ lnext[u] # NULL => lnext[u] = next'[lhead[u]]
            /\ lhead[u] = head /\ ltail[u] # lhead[u] => lnext[u] # NULL
      BY <1>5, <3>1, <3>3 DEF Knows
    <3>9. pc[u] = "r_take" => lhead[u] = head /\ lnext[u] = next'[head]
      BY <1>1, <1>5, <3>1, <3>3 DEF Knows, Types
    <3>10. QED BY <3>1, <3>2, <3>5, <3>6, <3>7, <3>8, <3>9 DEF Knows, On
  <2>6. QED BY <2>4, <2>5
<1>16. Drained'
  BY <1>7, EffectKeeps, EnqueuesIs
<1>17. Recorded'
  <2>1. lin' = [lin EXCEPT ![t] = 1] /\ lin \in [Threads -> Items \cup {0, 1, Queue!Pending}] /\ call' = call
    BY EnqueuesIs DEF Types, TypeOK, HistTypeOK
  <2>2. QED BY <1>7, <2>1 DEF Recorded, Preparing, Seeking, Added, Disposing
<1>18. Locked'
  BY <1>7 DEF Locked, HoldsTail, HoldsHead, Types, TypeOK
<1>19. QED BY <1>8, <1>9, <1>10, <1>11, <1>14, <1>15, <1>16, <1>17, <1>18 DEF z

LEMMA AddLinkKeeps ==
  ASSUME NEW s, NEW p, Inv(s, p), Types', NEW t \in Threads, kind = "lf", AddLink(t), kind' = kind
  PROVE  \E z : Inv(z, p)'
<1>1. Len(s) \in Nat /\ p \in 1..Len(s) /\ p \in p..Len(s) /\ Len(s) \in 1..Len(s)
  BY DEF Inv, Tailed, Linked
<1>2. CASE next[ltail[t]] = NULL
  <2>1. pc[t] = "a_act" /\ Passed(s, p, ltail[t])
    BY DEF AddLink, Inv, Knows
  <2>2. PICK k \in 1..Len(s) : s[k] = ltail[t]
    BY <1>2, <2>1 DEF Passed, On
  <2>3. k = Len(s)
    <3>1. next[s[k]] = IF k = Len(s) THEN NULL ELSE s[k + 1]
      BY DEF Inv, Linked
    <3>2. k # Len(s) => k + 1 \in 1..Len(s)
      BY <1>1
    <3>3. k # Len(s) => s[k + 1] # NULL
      BY <3>2, Constants DEF Inv, Linked
    <3>4. QED BY <1>2, <2>2, <3>1, <3>3
  <2>4. p = Len(s)
    BY <1>1, <2>1, <2>2, <2>3 DEF Passed
  <2>5. PICK n, m : n = node[t] /\ m = s[Len(s)]
    OBVIOUS
  <2>6. /\ Enqueues(t) /\ next' = [next EXCEPT ![m] = n] /\ pc' = [pc EXCEPT ![t] = "a_swing"]
        /\ ltail[t] = m /\ UNCHANGED <<ends, locks, item, locals, mem>>
    BY <1>2, <2>2, <2>3, <2>5 DEF AddLink
  <2>7. Inv(Append(s, n), p)'
    BY <2>1, <2>4, <2>5, <2>6, LinkKeeps
  <2>8. QED BY <2>7
<1>3. CASE next[ltail[t]] # NULL
  <2>1. Inv(s, p)'
    BY <1>1, <1>3, AgainKeeps DEF AddLink, ends, fields
  <2>2. QED BY <2>1
<1>4. QED BY <1>2, <1>3

LEMMA AddLinkLockedKeeps ==
  ASSUME NEW s, NEW p, Inv(s, p), Types', NEW t \in Threads, kind # "lf", AddLinkLocked(t), kind' = kind
  PROVE  \E z : Inv(z, p)'
<1>1. pc[t] = "a_link" /\ \A u \in Threads : pc[u] # "a_tail"
  BY DEF AddLinkLocked, Goto, Inv, Locked, HoldsTail
<1>2. p = Len(s) /\ tail = s[Len(s)]
  BY <1>1 DEF Inv, Tailed, Linked
<1>3. PICK n, m : n = node[t] /\ m = s[Len(s)]
  OBVIOUS
<1>4. Inv(Append(s, n), p)'
  BY <1>1, <1>2, <1>3, LinkKeeps DEF AddLinkLocked, Goto
<1>5. QED BY <1>4

LEMMA AddSetTailKeeps ==
  ASSUME NEW s, NEW p, Inv(s, p), Types', NEW t \in Threads, kind # "lf", AddSetTail(t), kind' = kind
  PROVE  Inv(s, Len(s))'
<1> USE DEF Inv, AddSetTail, Goto, locks, fields, locals, mem, hist
<1>1. Len(s) \in Nat /\ Len(s) > 0 /\ p \in 0..Len(s) /\ tail' = s[Len(s)]
  BY DEF Linked, Tailed
<1>2. /\ pc[t] = "a_tail" /\ pc'[t] = "a_unlock" /\ \A u \in Threads : u # t => pc'[u] = pc[u]
      /\ \A u \in Threads : (pc'[u] \in Preparing <=> pc[u] \in Preparing)
                            /\ (pc'[u] \in Disposing <=> pc[u] \in Disposing)
  BY DEF Types, TypeOK, Preparing, Disposing
<1>3. Linked(s)' /\ Filled(s)'
  BY DEF Linked, Filled
<1>4. Tailed(s, Len(s))'
  <2>1. \A u \in Threads : pc'[u] # "a_tail"
    BY <1>2 DEF Locked, HoldsTail
  <2>2. QED BY <1>1, <2>1 DEF Tailed
<1>5. Owned(s)'
  <2>1. \A u \in Threads : Mine(u)' = Mine(u)
    BY <1>2 DEF Mine
  <2>2. QED BY <1>2, <2>1 DEF Owned
<1>6. Referenced'
  <2>1. \A u, n : Guarded(u, n) => Guarded(u, n)'
    BY <1>2 DEF Guarded
  <2>2. QED BY <1>2, <2>1 DEF Referenced
<1>7. ASSUME NEW u \in Threads PROVE Knows(s, Len(s), u)'
  <2>1. CASE u = t
    BY <1>2, <2>1 DEF Knows
  <2>2. CASE u # t
    <3>1. \A n : Passed(s, p, n) => Passed(s, Len(s), n)'
      BY <1>1 DEF Passed, On
    <3>2. pc[u] \notin {"a_next", "a_check", "a_act", "a_swing"}
      BY DEF Locked
    <3>3. QED BY <1>2, <2>2, <3>1, <3>2 DEF Knows, On
  <2>3. QED BY <2>1, <2>2
<1>8. Drained'
  <2>1. \A u \in Threads : pc'[u] = "r_empty" => pc[u] = "r_empty"
    BY <1>2
  <2>2. \A u \in Threads : pc'[u] \in {"r_check", "r_act"} => pc[u] \in {"r_check", "r_act"}
    BY <1>2
  <2>3. QED BY <2>1, <2>2, Zenon DEF Drained
<1>9. Recorded'
  BY <1>2 DEF Recorded, Preparing, Seeking, Added, Disposing
<1>10. Locked'
  BY <1>2 DEF Locked, HoldsTail, HoldsHead
<1>11. QED BY <1>3, <1>4, <1>5, <1>6, <1>7, <1>8, <1>9, <1>10

\* The head is moved to the second node, which becomes the dummy.
LEMMA TakeKeeps ==
  ASSUME NEW s, NEW p, Inv(s, p), Types', NEW t \in Threads, Len(s) # 1,
         p \in 1..Len(s), p = 1 => kind = "lb",
         lhead[t] = head, lnext[t] = next[head], head' = lnext[t], Takes(t, item[lnext[t]]),
         \/ pc[t] = "r_act" /\ pc' = [pc EXCEPT ![t] = "r_free"] /\ val' = val
         \/ pc[t] = "r_take" /\ pc' = [pc EXCEPT ![t] = "r_unlock"]
              /\ val' = [val EXCEPT ![t] = item[lnext[t]]],
         kind' = kind, UNCHANGED <<tail, locks, fields, node, lhead, ltail, lnext, mem>>
  PROVE  Inv(Tail(s), p - 1)'
<1> DEFINE z == Tail(s)
           L == Len(s)
<1> USE DEF Inv, locks, fields, mem
<1>1. /\ L \in Nat /\ L > 1 /\ s \in Seq(Nodes) /\ NULL \notin Nodes
      /\ 1 \in 1..L /\ 2 \in 1..L /\ head = s[1] /\ lnext[t] = s[2]
      /\ \A k \in 1..L : k > 1 => s[k] # head
  BY Constants, HeadIs DEF Linked
<1>2. /\ z \in Seq(Nodes) /\ Len(z) = L - 1 /\ \A k \in 1..(L - 1) : z[k] = s[k + 1]
  BY <1>1, FirstOut
<1>3. \A k \in 1..(L - 1) : k + 1 \in 1..L /\ k + 1 > 1
  BY <1>1
<1>4. /\ pc[t] \in {"r_act", "r_take"} /\ pc'[t] \in {"r_free", "r_unlock"}
      /\ \A u \in Threads : u # t => pc'[u] = pc[u]
      /\ (pc[t] = "r_act" <=> pc'[t] = "r_free") /\ (pc'[t] = "r_unlock" => val'[t] = item[lnext[t]])
      /\ \A u \in Threads : u # t => val'[u] = val[u]
  BY DEF Types, TypeOK
<1>5. \A u \in Threads : (pc'[u] \in Preparing <=> pc[u] \in Preparing)
                         /\ (u # t => (pc'[u] \in Disposing <=> pc[u] \in Disposing))
  BY <1>4 DEF Preparing, Disposing
<1> HIDE DEF z, L
<1>6. Linked(z)'
  <2>1. \A k \in 1..Len(z) : z[k] \in live
    BY <1>2, <1>3 DEF Linked, L
  <2>2. \A j, k \in 1..Len(z) : z[j] = z[k] => j = k
    <3>1. SUFFICES ASSUME NEW j \in 1..Len(z), NEW k \in 1..Len(z), z[j] = z[k] PROVE j = k
      OBVIOUS
    <3>2. j + 1 = k + 1
      BY <1>2, <1>3, <3>1 DEF Linked, L
    <3>3. QED BY <1>1, <1>2, <3>2
  <2>3. head' = z[1]
    <3>1. z[1] = s[1 + 1] /\ 1 + 1 = 2
      BY <1>1, <1>2
    <3>2. QED BY <1>1, <3>1
  <2>4. ASSUME NEW k \in 1..Len(z)
        PROVE  next[z[k]] = IF k = Len(z) THEN NULL ELSE z[k + 1]
    <3>1. next[s[k + 1]] = IF k + 1 = L THEN NULL ELSE s[(k + 1) + 1]
      BY <1>2, <1>3 DEF Linked, L
    <3>2. (k + 1 = L <=> k = Len(z)) /\ (k # Len(z) => k + 1 \in 1..(L - 1))
      BY <1>1, <1>2
    <3>3. QED BY <1>2, <3>1, <3>2
  <2>5. Len(z) > 0
    BY <1>1, <1>2
  <2>6. QED BY <1>2, <2>1, <2>2, <2>3, <2>4, <2>5 DEF Linked
<1>7. /\ content \in Seq(Items) /\ Len(content) = L - 1 /\ Len(content) > 0
      /\ content' = Tail(content) /\ Len(content') = L - 2
      /\ (\A k \in 1..(L - 2) : content'[k] = content[k + 1])
      /\ content[1] = item[s[2]] /\ item[s[2]] \in Items
  <2>1. content \in Seq(Items) /\ Len(content) = L - 1 /\ content' = SubSeq(content, 2, Len(content))
    BY TakesIs DEF Types, TypeOK, HistTypeOK, Filled, L
  <2>2. Len(content) > 0 /\ 1 \in 1..Len(content) /\ 1 \in 1..(L - 1) /\ Len(content) - 1 = L - 2
    BY <1>1, <2>1
  <2>3. /\ content' = Tail(content) /\ Len(content') = Len(content) - 1
        /\ \A k \in 1..(Len(content) - 1) : content'[k] = content[k + 1]
    BY <2>1, <2>2, FirstOut
  <2>4. content[1] = item[s[1 + 1]] /\ 1 + 1 = 2
    BY <2>2 DEF Filled, L
  <2>5. content[1] \in Items
    BY <2>1, <2>2
  <2>6. QED BY <2>1, <2>2, <2>3, <2>4, <2>5
<1>8. Filled(z)'
  <2>1. Len(content') = Len(z) - 1
    BY <1>1, <1>2, <1>7
  <2>2. ASSUME NEW k \in 1..(Len(z) - 1) PROVE content'[k] = item[z[k + 1]]
    <3>1. k \in 1..(L - 2) /\ k + 1 \in 1..(L - 1)
      BY <1>1, <1>2
    <3>2. content'[k] = content[k + 1] /\ content[k + 1] = item[s[(k + 1) + 1]]
      BY <1>7, <3>1 DEF Filled, L
    <3>3. QED BY <1>2, <3>1, <3>2
  <2>3. QED BY <2>1, <2>2 DEF Filled
<1>9. Tailed(z, p - 1)'
  <2>1. p - 1 \in 0..Len(z) /\ (p - 1 = 0 => kind = "lb")
    BY <1>1, <1>2 DEF L
  <2>2. p - 1 > 0 => tail = z[p - 1]
    <3>1. ASSUME p - 1 > 0 PROVE p - 1 \in 1..(L - 1) /\ (p - 1) + 1 = p /\ p > 0
      BY <1>1, <3>1 DEF L
    <3>2. QED BY <1>2, <3>1 DEF Tailed
  <2>3. kind = "lf" \/ p - 1 = Len(z) \/ \E u \in Threads : pc'[u] = "a_tail"
    BY <1>1, <1>2, <1>4 DEF Tailed, L
  <2>4. ASSUME NEW u \in Threads, pc'[u] = "a_tail" PROVE node[u] = z[Len(z)] /\ p - 1 >= Len(z) - 1
    <3>1. node[u] = s[L] /\ p >= L - 1
      BY <1>4, <2>4 DEF Tailed, L
    <3>2. z[Len(z)] = s[L]
      <4>1. L - 1 \in 1..(L - 1) /\ (L - 1) + 1 = L
        BY <1>1
      <4>2. QED BY <1>2, <4>1
    <3>3. QED BY <1>1, <1>2, <3>1, <3>2 DEF L
  <2>5. QED BY <2>1, <2>2, <2>3, <2>4 DEF Tailed
<1>10. Owned(z)'
  <2>1. Mine(t)' = s[1] /\ Mine(t) = NULL /\ pc'[t] \notin Preparing
    BY <1>1, <1>4 DEF Mine, Preparing, Disposing
  <2>2. \A u \in Threads : u # t => Mine(u)' = Mine(u)
    BY <1>5 DEF Mine
  <2>3. \A u \in Threads : u # t => Mine(u) # s[1]
    BY <1>1 DEF Owned, Mine, L
  <2>4. s[1] \in live /\ s[1] \in Nodes /\ \A k \in 1..Len(z) : z[k] # s[1]
    BY <1>1, <1>2, <1>3 DEF Linked, L
  <2>5. ASSUME NEW u \in Threads, u # t, pc'[u] \in Preparing \cup Disposing
        PROVE  /\ Mine(u) \in live /\ (\A k \in 1..Len(z) : z[k] # Mine(u))
               /\ (\A v \in Threads : Mine(v) = Mine(u) => v = u)
               /\ pc[u] \in Preparing => next[node[u]] = NULL
    BY <1>2, <1>3, <1>5, <2>5 DEF Owned, L
  <2>6. QED BY <1>5, <2>1, <2>2, <2>3, <2>4, <2>5 DEF Owned
<1>11. Referenced'
  <2>1. \A u, n : Guarded(u, n) => Guarded(u, n)'
    BY <1>5 DEF Guarded
  <2>2. QED BY <1>4, <2>1 DEF Referenced
<1>12. ASSUME NEW u \in Threads PROVE Knows(z, p - 1, u)'
  <2>1. CASE u = t
    BY <1>4, <2>1 DEF Knows
  <2>2. CASE u # t
    <3>1. next[head] = s[2] /\ s[2] # NULL /\ head' = s[2]
      BY <1>1
    <3>2. ASSUME NEW o, Passed(s, p, o) PROVE Passed(z, p - 1, o)'
      <4>1. \A k \in 1..Len(z) : k > p - 1 => z[k] # o
        BY <1>1, <1>2, <1>3, <3>2 DEF Passed, L
      <4>2. On(s, o) => o = head \/ On(z, o)
        <5>1. SUFFICES ASSUME NEW k \in 1..L, s[k] = o, k # 1 PROVE On(z, o)
          BY <1>1 DEF On, L
        <5>2. k - 1 \in 1..(L - 1) /\ (k - 1) + 1 = k
          BY <1>1, <5>1
        <5>3. QED BY <1>2, <5>1, <5>2 DEF On
      <4>3. QED BY <3>1, <3>2, <4>1, <4>2 DEF Passed, On
    <3>3. pc[u] \in {"r_tail", "r_next", "r_check", "r_act"} =>
            /\ \A k \in 1..Len(z) : k > 1 => z[k] # lhead[u]
            /\ next[lhead[u]] # NULL
            /\ lhead[u] # head'
      BY <1>1, <1>2, <1>3, <3>1 DEF Knows, L
    <3>4. pc[u] # "r_take"
      BY <1>4, <2>2 DEF Locked, HoldsHead
    <3>5. QED BY <1>4, <2>2, <3>2, <3>3, <3>4 DEF Knows
  <2>3. QED BY <2>1, <2>2
<1>13. Drained'
  BY <1>4, EffectKeeps, TakesIs
<1>14. Recorded'
  <2>1. /\ lin' = [lin EXCEPT ![t] = item[s[2]]] /\ call' = call
        /\ lin \in [Threads -> Items \cup {0, 1, Queue!Pending}]
    BY <1>1, TakesIs DEF Types, TypeOK, HistTypeOK
  <2>2. QED BY <1>1, <1>4, <1>7, <2>1 DEF Recorded, Preparing, Seeking, Added, Disposing
<1>15. Locked'
  BY <1>4 DEF Locked, HoldsTail, HoldsHead
<1>16. QED BY <1>6, <1>8, <1>9, <1>10, <1>11, <1>12, <1>13, <1>14, <1>15 DEF z

LEMMA RemoveTakeKeeps ==
  ASSUME NEW s, NEW p, Inv(s, p), Types', NEW t \in Threads, kind # "lb", RemoveTake(t), kind' = kind
  PROVE  \E z, q : Inv(z, q)'
<1>1. Len(s) \in Nat /\ p \in 1..Len(s) /\ p \in p..Len(s) /\ pc[t] = "r_act" /\ ltail[t] # lhead[t]
  BY DEF RemoveTake, Inv, Tailed, Linked
<1>2. CASE head = lhead[t]
  <2>1. /\ On(s, ltail[t]) /\ Passed(s, p, ltail[t]) /\ lnext[t] # NULL /\ lnext[t] = next[head]
    BY <1>1, <1>2 DEF Inv, Knows
  <2>2. p # 1
    <3>1. PICK k \in 1..Len(s) : s[k] = ltail[t]
      BY <2>1 DEF On
    <3>2. k # 1
      BY <1>1, <1>2, <3>1 DEF Inv, Linked
    <3>3. ~(k > p)
      BY <2>1, <3>1 DEF Passed
    <3>4. QED BY <1>1, <3>2, <3>3
  <2>3. Len(s) # 1
    <3>1. \A n \in Nat : \A k \in 1..n : k # 1 => n # 1
      OBVIOUS
    <3>2. QED BY <1>1, <2>2, <3>1
  <2>4. /\ head' = lnext[t] /\ Takes(t, item[lnext[t]]) /\ pc' = [pc EXCEPT ![t] = "r_free"]
        /\ val' = val /\ UNCHANGED <<tail, locks, fields, node, lhead, ltail, lnext, mem>>
    BY <1>2, <2>1 DEF RemoveTake, locals
  <2>5. Inv(Tail(s), p - 1)'
    BY <1>1, <1>2, <2>1, <2>2, <2>3, <2>4, TakeKeeps
  <2>6. QED BY <2>5
<1>3. CASE head # lhead[t]
  <2>1. Inv(s, p)'
    BY <1>1, <1>3, AgainKeeps DEF RemoveTake
  <2>2. QED BY <2>1
<1>4. QED BY <1>2, <1>3

LEMMA RemoveTakeLockedKeeps ==
  ASSUME NEW s, NEW p, Inv(s, p), Types', NEW t \in Threads, kind = "lb", RemoveTakeLocked(t), kind' = kind
  PROVE  \E z, q : Inv(z, q)'
<1>1. /\ pc[t] = "r_take" /\ lhead[t] = head /\ lnext[t] = next[head] /\ lnext[t] \in Nodes
      /\ NULL \notin Nodes
  BY Constants DEF RemoveTakeLocked, Goto, Inv, Knows, Types
<1>2. Len(s) # 1 /\ Len(s) \in Nat /\ Len(s) > 0
  BY <1>1, HeadIs DEF Inv, Linked
<1>3. p \in 1..Len(s)
  <2>1. \A n \in Nat : n > 0 /\ n # 1 => \A k \in 0..n : k = n \/ k >= n - 1 => k \in 1..n
    OBVIOUS
  <2>2. p \in 0..Len(s) /\ (p = Len(s) \/ p >= Len(s) - 1)
    BY DEF Inv, Tailed
  <2>3. QED BY <1>2, <2>1, <2>2
<1>4. Inv(Tail(s), p - 1)'
  BY <1>1, <1>2, <1>3, TakeKeeps DEF RemoveTakeLocked, Goto
<1>5. QED BY <1>4

-----------------------------------------------------------------------------
(* The steps that begin a call, and those that free a node.                *)

\* A call begins: it has seen the queue as it is.
LEMMA BeginKeeps ==
  ASSUME Types, Drained, NEW t \in Threads, NEW c, Begins(t, c),
         pc'[t] \in {"add", "remove"}, \A u \in Threads : u # t => pc'[u] = pc[u], lnext' = lnext
  PROVE  /\ Drained' /\ call'[t] = c /\ lin' = lin /\ content' = content
         /\ \A u \in Threads : u # t => call'[u] = call[u]
<1>1. /\ call' = [call EXCEPT ![t] = c]
      /\ drained' = [drained EXCEPT ![t] = (content = <<>>)]
      /\ content' = content /\ lin' = lin
  BY BeginsIs
<1>2. call \in [Threads -> Calls \cup {NoCall}] /\ drained \in [Threads -> BOOLEAN]
  BY DEF Types, TypeOK, HistTypeOK
<1>3. /\ call'[t] = c /\ \A u \in Threads : u # t => call'[u] = call[u] /\ drained'[u] = drained[u]
      /\ drained'[t] = (content = <<>>)
  BY <1>1, <1>2, Zenon
<1>4. ASSUME content = <<>>, NEW u \in Threads, call'[u] # NoCall PROVE drained'[u]
  <2>1. CASE u = t
    BY <1>3, <1>4, <2>1, Zenon
  <2>2. CASE u # t
    <3>1. drained[u]
      BY <1>3, <1>4, <2>2, Zenon DEF Drained
    <3>2. QED BY <1>3, <2>2, <3>1, Zenon
  <2>3. QED BY <2>1, <2>2
<1>5. ASSUME NEW u \in Threads, pc'[u] = "r_empty" PROVE drained'[u]
  <2>1. u # t /\ pc[u] = "r_empty"
    BY <1>5
  <2>2. QED BY <1>3, <2>1, Zenon DEF Drained
<1>6. ASSUME NEW u \in Threads, pc'[u] \in {"r_check", "r_act"} /\ lnext'[u] = NULL PROVE drained'[u]
  <2>1. u # t /\ pc[u] \in {"r_check", "r_act"} /\ lnext[u] = NULL
    BY <1>6
  <2>2. QED BY <1>3, <2>1, Zenon DEF Drained
<1>7. Drained'
  BY <1>1, <1>4, <1>5, <1>6, Zenon DEF Drained
<1>8. QED BY <1>1, <1>3, <1>7

LEMMA RemoveCallKeeps ==
  ASSUME NEW s, NEW p, Inv(s, p), Types', NEW t \in Threads, RemoveCall(t), kind' = kind
  PROVE  Inv(s, p)'
<1> USE DEF Inv, RemoveCall, Goto, ends, locks, fields, locals, mem
<1>1. PICK c : Begins(t, c)
  OBVIOUS
<1>2. pc[t] = "idle" /\ pc'[t] = "remove" /\ \A u \in Threads : u # t => pc'[u] = pc[u]
  BY DEF Types, TypeOK
<1>3. /\ Drained' /\ lin' = lin /\ content' = content
      /\ \A u \in Threads : u # t => call'[u] = call[u]
  BY <1>1, <1>2, BeginKeeps
<1>4. \A u \in Threads : (pc'[u] \in Preparing <=> pc[u] \in Preparing)
                         /\ (pc'[u] \in Disposing <=> pc[u] \in Disposing)
                         /\ (pc'[u] = "a_tail" <=> pc[u] = "a_tail")
  BY <1>2 DEF Preparing, Disposing
<1>5. Linked(s)' /\ Filled(s)'
  BY <1>3 DEF Linked, Filled
<1>6. Tailed(s, p)'
  BY <1>4 DEF Tailed
<1>7. Owned(s)'
  <2>1. \A u \in Threads : Mine(u)' = Mine(u)
    BY <1>4 DEF Mine
  <2>2. QED BY <1>4, <2>1 DEF Owned
<1>8. Referenced'
  <2>1. \A u, n : Guarded(u, n) => Guarded(u, n)'
    BY <1>4 DEF Guarded
  <2>2. QED BY <1>2, <2>1 DEF Referenced
<1>9. ASSUME NEW u \in Threads PROVE Knows(s, p, u)'
  BY <1>2 DEF Knows, Passed, On
<1>10. Recorded'
  BY <1>2, <1>3 DEF Recorded, Preparing, Seeking, Added, Disposing
<1>11. Locked'
  BY <1>2 DEF Locked, HoldsTail, HoldsHead
<1>12. QED BY <1>3, <1>5, <1>6, <1>7, <1>8, <1>9, <1>10, <1>11

\* Nobody works with a node that is given out: this is NoReuseUnderReference, step by
\* step.
LEMMA AvailableIsUnknown ==
  ASSUME NEW s, NEW p, Inv(s, p), NEW t \in Threads, NEW n \in Available(t)
  PROVE  /\ n \in Nodes /\ n \notin live /\ n # NULL
         /\ \A k \in 1..Len(s) : s[k] # n
         /\ \A u \in Threads :
              /\ ~ Guarded(u, n) /\ lhead[u] # n /\ ltail[u] # n /\ lnext[u] # n
              /\ pc[u] \in Preparing => node[u] # n
              /\ pc[u] \in {"r_tail", "r_next"} => next[lhead[u]] # n
<1>1. n \in Nodes /\ n \notin live /\ n # NULL
  BY Constants DEF Available
<1>2. freer[n] = NoThread \/ waits[n] = {}
  BY DEF Available
<1>3. \A u \in Threads : ~ Guarded(u, n)
  BY <1>1, <1>2 DEF Guarded
<1>4. \A k \in 1..Len(s) : s[k] # n
  BY <1>1 DEF Inv, Linked
<1>5. \A u \in Threads : pc[u] \in Preparing => node[u] # n
  BY <1>1, OwnNode DEF Inv
<1>6. QED BY <1>1, <1>3, <1>4, <1>5 DEF Inv, Referenced

LEMMA AddAllocKeeps ==
  ASSUME NEW s, NEW p, Inv(s, p), Types', NEW t \in Threads, NEW x \in Items, AddAlloc(t, x), kind' = kind
  PROVE  Inv(s, p)'
<1>1. PICK n \in Available(t) :
        /\ ssmem_alloc(t, n)
        /\ node' = [node EXCEPT ![t] = n]
        /\ item' = [item EXCEPT ![n] = x]
        /\ next' = [next EXCEPT ![n] = NULL]
  BY DEF AddAlloc
<1>2. /\ n \in Nodes /\ n \notin live /\ n # NULL
      /\ \A k \in 1..Len(s) : s[k] # n
      /\ \A u \in Threads :
           /\ lhead[u] # n /\ ltail[u] # n /\ lnext[u] # n
           /\ pc[u] \in Preparing => node[u] # n
           /\ pc[u] \in {"r_tail", "r_next"} => next[lhead[u]] # n
  BY AvailableIsUnknown
<1> DEFINE c == [op |-> "add", item |-> x]
<1>3. Begins(t, c) /\ c.item = x
  BY DEF AddAlloc
<1> HIDE DEF c
<1>4. /\ live' = live \cup {n} /\ freer' = [freer EXCEPT ![n] = NoThread] /\ waits' = waits
      /\ UNCHANGED <<head, tail, head_lock, tail_lock, lhead, ltail, lnext, val>>
      /\ pc[t] = "idle" /\ pc' = [pc EXCEPT ![t] = "add"]
  BY <1>1 DEF AddAlloc, ssmem_alloc, Goto, ends, locks
<1>5. /\ pc'[t] = "add" /\ node'[t] = n
      /\ \A u \in Threads : u # t => pc'[u] = pc[u] /\ node'[u] = node[u]
      /\ item'[n] = x /\ next'[n] = NULL
      /\ \A m \in Nodes : m # n => item'[m] = item[m] /\ next'[m] = next[m] /\ freer'[m] = freer[m]
  BY <1>1, <1>2, <1>4 DEF Inv, Types, TypeOK, MemTypeOK
<1>6. /\ Drained' /\ call'[t] = c /\ lin' = lin /\ content' = content
      /\ \A u \in Threads : u # t => call'[u] = call[u]
  BY <1>3, <1>4, <1>5, BeginKeeps DEF Inv
<1> USE DEF Inv
<1>7. Linked(s)'
  <2>1. \A k \in 1..Len(s) : s[k] \in Nodes /\ next'[s[k]] = next[s[k]]
    BY <1>2, <1>5 DEF Linked
  <2>2. QED BY <1>4, <2>1 DEF Linked
<1>8. Filled(s)'
  <2>1. \A k \in 1..(Len(s) - 1) : k + 1 \in 1..Len(s) /\ s[k + 1] \in Nodes
    BY DEF Linked
  <2>2. \A k \in 1..(Len(s) - 1) : item'[s[k + 1]] = item[s[k + 1]]
    BY <1>2, <1>5, <2>1
  <2>3. QED BY <1>6, <2>2 DEF Filled
<1>9. Tailed(s, p)'
  BY <1>4, <1>5 DEF Tailed
<1>10. Owned(s)'
  <2>1. Mine(t)' = n /\ \A u \in Threads : u # t => Mine(u)' = Mine(u)
    BY <1>4, <1>5 DEF Mine, Preparing
  <2>2. \A u \in Threads : Mine(u) # n
    BY <1>2 DEF Mine
  <2>3. ASSUME NEW u \in Threads, pc'[u] \in Preparing \cup Disposing
        PROVE  /\ Mine(u)' \in live'
               /\ \A k \in 1..Len(s) : s[k] # Mine(u)'
               /\ \A v \in Threads : Mine(v)' = Mine(u)' => v = u
               /\ pc'[u] \in Preparing => next'[node'[u]] = NULL
    <3>1. CASE u = t
      BY <1>2, <1>4, <1>5, <2>1, <2>2, <3>1
    <3>2. CASE u # t
      <4>1. pc[u] \in Preparing \cup Disposing /\ Mine(u)' = Mine(u) /\ pc'[u] = pc[u] /\ node'[u] = node[u]
        BY <1>5, <2>1, <2>3, <3>2
      <4>2. /\ Mine(u) \in live /\ \A k \in 1..Len(s) : s[k] # Mine(u)
            /\ \A v \in Threads : Mine(v) = Mine(u) => v = u
            /\ pc[u] \in Preparing => next[node[u]] = NULL
        BY <4>1 DEF Owned
      <4>3. pc[u] \in Preparing => node[u] \in Nodes /\ node[u] # n
        BY <1>2 DEF Types
      <4>4. QED BY <1>4, <1>5, <2>1, <2>2, <4>1, <4>2, <4>3
    <3>3. QED BY <3>1, <3>2
  <2>4. QED BY <2>3 DEF Owned
<1>11. Referenced'
  <2>1. ASSUME NEW u \in Threads, NEW m \in Nodes \cup {NULL}, Guarded(u, m), m # n
        PROVE  Guarded(u, m)'
    <3>1. \A v \in Threads : pc'[v] \in Preparing => node'[v] # m
      BY <1>5, <2>1 DEF Guarded
    <3>2. QED BY <1>4, <1>5, <2>1, <3>1 DEF Guarded
  <2>2. ASSUME NEW u \in Threads
        PROVE  Guarded(u, lhead[u])' /\ Guarded(u, ltail[u])' /\ Guarded(u, lnext[u])'
    <3>1. {lhead[u], ltail[u], lnext[u]} \subseteq Nodes \cup {NULL}
      BY DEF Types, TypeOK
    <3>2. PICK h, l, o : h = lhead[u] /\ l = ltail[u] /\ o = lnext[u]
      OBVIOUS
    <3>3. Guarded(u, h) /\ Guarded(u, l) /\ Guarded(u, o)
      BY <3>2 DEF Referenced
    <3>4. Guarded(u, h)' /\ Guarded(u, l)' /\ Guarded(u, o)'
      BY <1>2, <2>1, <3>1, <3>2, <3>3
    <3>5. lhead'[u] = h /\ ltail'[u] = l /\ lnext'[u] = o
      BY <1>4, <3>2
    <3>6. QED BY <3>4, <3>5 DEF Guarded
  <2>3. ASSUME NEW u \in Threads, pc'[u] \in {"r_tail", "r_next"}
        PROVE  Guarded(u, next[lhead[u]])'
    <3>1. u # t /\ pc[u] = pc'[u]
      BY <1>5, <2>3
    <3>2. lhead[u] \in Nodes /\ lhead'[u] = lhead[u] /\ next'[lhead[u]] = next[lhead[u]]
      BY <1>2, <1>4, <1>5, <2>3, <3>1 DEF Types
    <3>3. PICK o : o = next[lhead[u]]
      OBVIOUS
    <3>4. o \in Nodes \cup {NULL} /\ o # n /\ Guarded(u, o)
      BY <1>2, <2>3, <3>1, <3>2, <3>3 DEF Types, TypeOK, Referenced
    <3>5. Guarded(u, o)' /\ next'[lhead'[u]] = o
      BY <2>1, <3>2, <3>3, <3>4
    <3>6. QED BY <3>5 DEF Guarded
  <2>4. QED BY <2>2, <2>3 DEF Referenced
<1>12. ASSUME NEW u \in Threads PROVE Knows(s, p, u)'
  <2>1. CASE u = t
    BY <1>5, <2>1 DEF Knows
  <2>2. CASE u # t
    <3>1. /\ pc'[u] = pc[u] /\ node'[u] = node[u] /\ lhead'[u] = lhead[u] /\ ltail'[u] = ltail[u]
          /\ lnext'[u] = lnext[u] /\ head' = head /\ tail' = tail
      BY <1>4, <1>5, <2>2
    <3>2. pc[u] \in {"a_next", "a_check", "a_act", "a_swing", "r_next", "r_check", "r_act"} =>
            ltail[u] \in Nodes /\ next'[ltail[u]] = next[ltail[u]]
      BY <1>2, <1>5 DEF Types
    <3>3. pc[u] \in {"r_tail", "r_next", "r_check", "r_act", "r_take"} =>
            lhead[u] \in Nodes /\ next'[lhead[u]] = next[lhead[u]]
      BY <1>2, <1>5 DEF Types
    <3>4. QED BY <3>1, <3>2, <3>3 DEF Knows, Passed, On
  <2>3. QED BY <2>1, <2>2
<1>13. Recorded'
  <2>1. ASSUME NEW u \in Threads
        PROVE  /\ pc'[u] \in {"idle"} \cup Preparing \cup Seeking => lin'[u] = Queue!Pending
               /\ pc'[u] \in Preparing => item'[node'[u]] = call'[u].item
               /\ pc'[u] \in Added => lin'[u] = 1
               /\ pc'[u] = "r_free" => lin'[u] = item'[lnext'[u]]
               /\ pc'[u] \in {"r_unlock", "r_release"} => lin'[u] = val'[u]
               /\ pc'[u] \in Disposing => lin'[u] \in Items
    <3>1. CASE u = t
      BY <1>3, <1>4, <1>5, <1>6, <3>1 DEF Recorded, Preparing, Seeking, Added, Disposing
    <3>2. CASE u # t
      <4>1. /\ pc'[u] = pc[u] /\ node'[u] = node[u] /\ lnext'[u] = lnext[u] /\ call'[u] = call[u]
            /\ lin'[u] = lin[u] /\ val'[u] = val[u]
        BY <1>4, <1>5, <1>6, <3>2
      <4>2. pc[u] \in Preparing => node[u] \in Nodes /\ node[u] # n
        BY <1>2 DEF Types
      <4>3. pc[u] = "r_free" => lnext[u] \in Nodes /\ lnext[u] # n
        BY <1>2 DEF Types
      <4>4. QED BY <1>5, <4>1, <4>2, <4>3 DEF Recorded
    <3>3. QED BY <3>1, <3>2
  <2>2. QED BY <2>1 DEF Recorded
<1>14. Locked'
  BY <1>4, <1>5 DEF Locked, HoldsTail, HoldsHead
<1>15. QED BY <1>6, <1>7, <1>8, <1>9, <1>10, <1>11, <1>12, <1>13, <1>14

\* A remove frees the old dummy n and returns.
LEMMA FreeKeeps ==
  ASSUME NEW s, NEW p, Inv(s, p), Types', NEW t \in Threads, pc[t] \in {"r_free", "r_release"},
         NEW n, n = lhead[t], NEW r, ssmem_free(t, n), Return(t, r), kind' = kind,
         UNCHANGED <<ends, locks, fields>>
  PROVE  Inv(s, p)'
<1> USE DEF Inv, ends, locks, fields
<1>1. n \in Nodes /\ Mine(t) = n /\ n \in live /\ pc[t] \in Disposing /\ \A k \in 1..Len(s) : s[k] # n
  BY DEF Types, Owned, Mine, Preparing, Disposing
<1>2. \A u \in Threads : pc[u] \in Preparing \cup Disposing /\ u # t => Mine(u) # n
  BY <1>1 DEF Owned
<1>3. /\ pc' = [pc EXCEPT ![t] = "idle"] /\ node' = [node EXCEPT ![t] = NULL]
      /\ lhead' = [lhead EXCEPT ![t] = NULL] /\ ltail' = [ltail EXCEPT ![t] = NULL]
      /\ lnext' = [lnext EXCEPT ![t] = NULL] /\ content' = content
  BY ReturnIs
<1>4. /\ pc'[t] = "idle" /\ lhead'[t] = NULL /\ ltail'[t] = NULL /\ lnext'[t] = NULL
      /\ \A u \in Threads : u # t =>
           /\ pc'[u] = pc[u] /\ node'[u] = node[u]
           /\ lhead'[u] = lhead[u] /\ ltail'[u] = ltail[u] /\ lnext'[u] = lnext[u]
      /\ \A u \in Threads : pc'[u] \in Preparing \cup Disposing => u # t
  BY <1>3 DEF Types, TypeOK, Preparing, Disposing
<1>5. /\ live' = live \ {n} /\ freer'[n] = t
      /\ \A m \in Nodes : m # n => freer'[m] = freer[m]
      /\ waits'[n] = Threads \ {t}
      /\ \A m \in Nodes : m # n => waits'[m] = waits[m] \ {t}
  BY <1>1 DEF ssmem_free, Types, TypeOK, MemTypeOK
<1>6. Linked(s)'
  BY <1>1, <1>5 DEF Linked
<1>7. Filled(s)'
  BY <1>3 DEF Filled
<1>8. Tailed(s, p)'
  BY <1>4 DEF Tailed
<1>9. Owned(s)'
  <2>1. Mine(t)' = NULL /\ \A u \in Threads : u # t => Mine(u)' = Mine(u)
    BY <1>4 DEF Mine
  <2>2. NULL \notin live
    BY Constants DEF Types, TypeOK, MemTypeOK
  <2>3. ASSUME NEW u \in Threads, pc'[u] \in Preparing \cup Disposing
        PROVE  /\ Mine(u)' \in live'
               /\ \A k \in 1..Len(s) : s[k] # Mine(u)'
               /\ \A v \in Threads : Mine(v)' = Mine(u)' => v = u
               /\ pc'[u] \in Preparing => next'[node'[u]] = NULL
    <3>1. u # t /\ pc[u] \in Preparing \cup Disposing /\ Mine(u)' = Mine(u)
          /\ pc'[u] = pc[u] /\ node'[u] = node[u]
      BY <1>4, <2>1, <2>3
    <3>2. /\ Mine(u) \in live /\ \A k \in 1..Len(s) : s[k] # Mine(u)
          /\ \A v \in Threads : Mine(v) = Mine(u) => v = u
          /\ pc[u] \in Preparing => next[node[u]] = NULL
      BY <3>1 DEF Owned
    <3>3. QED BY <1>2, <1>5, <2>1, <2>2, <3>1, <3>2
  <2>4. QED BY <2>3 DEF Owned
<1>10. Referenced'
  <2>1. ASSUME NEW u \in Threads, u # t, NEW m \in Nodes \cup {NULL}, Guarded(u, m) PROVE Guarded(u, m)'
    <3>1. NoThread # t
      BY Constants
    <3>2. m = NULL \/ m \in live' \/ (freer'[m] # NoThread /\ u \in waits'[m])
      BY <1>1, <1>5, <2>1, <3>1 DEF Guarded
    <3>3. QED BY <1>4, <2>1, <3>2 DEF Guarded
  <2>2. Guarded(t, NULL)'
    BY NullIsGuarded, Constants DEF Guarded, Types, Preparing, Added
  <2>3. ASSUME NEW u \in Threads
        PROVE  Guarded(u, lhead[u])' /\ Guarded(u, ltail[u])' /\ Guarded(u, lnext[u])'
    <3>1. CASE u = t
      BY <1>4, <2>2, <3>1 DEF Guarded
    <3>2. CASE u # t
      <4>1. {lhead[u], ltail[u], lnext[u]} \subseteq Nodes \cup {NULL}
        BY DEF Types, TypeOK
      <4>2. PICK h, l, o : h = lhead[u] /\ l = ltail[u] /\ o = lnext[u]
        OBVIOUS
      <4>3. Guarded(u, h) /\ Guarded(u, l) /\ Guarded(u, o)
        BY <4>2 DEF Referenced
      <4>4. Guarded(u, h)' /\ Guarded(u, l)' /\ Guarded(u, o)'
        BY <2>1, <3>2, <4>1, <4>2, <4>3
      <4>5. lhead'[u] = h /\ ltail'[u] = l /\ lnext'[u] = o
        BY <1>4, <3>2, <4>2
      <4>6. QED BY <4>4, <4>5 DEF Guarded
    <3>3. QED BY <3>1, <3>2
  <2>4. ASSUME NEW u \in Threads, pc'[u] \in {"r_tail", "r_next"}
        PROVE  Guarded(u, next[lhead[u]])'
    <3>1. u # t /\ pc[u] = pc'[u] /\ lhead'[u] = lhead[u]
      BY <1>4, <2>4
    <3>2. PICK o : o = next[lhead[u]]
      OBVIOUS
    <3>3. o \in Nodes \cup {NULL} /\ Guarded(u, o)
      BY <2>4, <3>1, <3>2 DEF Types, TypeOK, Referenced
    <3>4. Guarded(u, o)' /\ next'[lhead'[u]] = o
      BY <2>1, <3>1, <3>2, <3>3
    <3>5. QED BY <3>4 DEF Guarded
  <2>5. QED BY <2>3, <2>4 DEF Referenced
<1>11. ASSUME NEW u \in Threads PROVE Knows(s, p, u)'
  BY <1>4 DEF Knows, Passed, On
<1>12. Drained' /\ Recorded'
  BY ReturnRecords
<1>13. Locked'
  BY <1>4 DEF Locked, HoldsTail, HoldsHead
<1>14. QED BY <1>6, <1>7, <1>8, <1>9, <1>10, <1>11, <1>12, <1>13

-----------------------------------------------------------------------------
(* The theorems.                                                           *)

\* There is a sequence of nodes, and a place of the tail, with which the invariant holds.
IInv == \E s, p : Inv(s, p)

LEMMA InitInv ==
  ASSUME Init
  PROVE  Inv(<<1>>, 1)
<1>1. Types
  BY InitTypes
<1>2. /\ content = <<>> /\ call = [t \in Threads |-> NoCall]
      /\ lin = [t \in Threads |-> Queue!Pending]
  BY DEF Init, HistInit, Queue!Init, NoCall
<1>3. /\ head = 1 /\ tail = 1 /\ next = [n \in Nodes |-> NULL] /\ live = {1}
      /\ pc = [t \in Threads |-> "idle"] /\ lhead = [t \in Threads |-> NULL]
      /\ ltail = [t \in Threads |-> NULL] /\ lnext = [t \in Threads |-> NULL]
  BY DEF Init, MemInit
<1>4. 1 \in Nodes
  BY Constants
<1>5. Linked(<<1>>) /\ Filled(<<1>>) /\ Tailed(<<1>>, 1)
  BY <1>2, <1>3, <1>4 DEF Linked, Filled, Tailed
<1>6. Owned(<<1>>) /\ Referenced /\ Locked
  BY <1>3 DEF Owned, Referenced, Guarded, Preparing, Disposing, Locked, HoldsTail, HoldsHead
<1>7. \A t \in Threads : Knows(<<1>>, 1, t)
  BY <1>3 DEF Knows
<1>8. Drained
  BY <1>2, <1>3 DEF Drained
<1>9. Recorded
  BY <1>2, <1>3 DEF Recorded, Preparing, Added, Disposing
<1>10. QED BY <1>1, <1>5, <1>6, <1>7, <1>8, <1>9 DEF Inv

LEMMA StepInv ==
  ASSUME AsWritten
  PROVE  IInv /\ [Next]_vars => IInv'
<1> SUFFICES ASSUME NEW s, NEW p, Inv(s, p), [Next]_vars PROVE \E z, q : Inv(z, q)'
  BY DEF IInv
<1>1. CASE UNCHANGED vars
  <2> USE <1>1 DEF vars, ends, locks, fields, locals, mem, hist, Inv
  <2>1. Types'
    BY DEF Types, TypeOK, HistTypeOK, MemTypeOK
  <2>2. Linked(s)' /\ Filled(s)' /\ Tailed(s, p)'
    BY DEF Linked, Filled, Tailed
  <2>3. Owned(s)' /\ Referenced'
    BY DEF Owned, Mine, Referenced, Guarded
  <2>4. \A t \in Threads : Knows(s, p, t)'
    BY DEF Knows, Passed, On
  <2>5. Drained' /\ Recorded' /\ Locked'
    BY DEF Drained, Recorded, Locked
  <2>6. Inv(s, p)'
    BY <2>1, <2>2, <2>3, <2>4, <2>5
  <2>7. QED BY <2>6
<1>2. CASE Next
  <2>1. kind' = kind
    BY <1>2, Steps
  <2>2. PICK t \in Threads : Step(t)
    BY <1>2, Steps
  <2>3. pc[t] = "r_act" /\ lhead[t] = head /\ ltail[t] # lhead[t] => lnext[t] # NULL
    BY DEF Inv, Knows
  <2>4. Types'
    BY <2>1, <2>2, <2>3, StepTypes DEF Inv
  <2>5. CASE (\E x \in Items : AddAlloc(t, x)) \/ RemoveCall(t)
    BY <2>1, <2>4, <2>5, AddAllocKeeps, RemoveCallKeeps
  <2>6. CASE kind = "lf" /\ (AddTail(t) \/ AddNext(t) \/ AddCheck(t))
    BY <2>1, <2>4, <2>6, AddTailKeeps, AddNextKeeps, AddCheckKeeps
  <2>7. CASE kind = "lf" /\ (AddLink(t) \/ AddHelp(t) \/ AddSwing(t))
    BY <2>1, <2>4, <2>7, AddLinkKeeps, AddHelpKeeps, AddSwingKeeps
  <2>8. CASE kind # "lf" /\ (AddLock(t) \/ AddLinkLocked(t) \/ AddSetTail(t) \/ AddUnlock(t))
    BY <2>1, <2>4, <2>8, AddLockKeeps, AddLinkLockedKeeps, AddSetTailKeeps, AddUnlockKeeps
  <2>9. CASE kind # "lb" /\ (RemoveHead(t) \/ RemoveTail(t) \/ RemoveNext(t) \/ RemoveCheck(t))
    BY <2>1, <2>4, <2>9, RemoveHeadKeeps, RemoveTailKeeps, RemoveNextKeeps, RemoveCheckKeeps
  <2>10. CASE kind # "lb" /\ RemoveFree(t)
    <3>1. PICK n, r : n = lhead[t] /\ r = item[lnext[t]]
      OBVIOUS
    <3>2. Inv(s, p)'
      BY <2>1, <2>4, <2>10, <3>1, FreeKeeps DEF RemoveFree
    <3>3. QED BY <3>2
  <2>11. CASE kind # "lb" /\ (RemoveEmpty(t) \/ RemoveHelp(t) \/ RemoveTake(t))
    BY <2>1, <2>4, <2>11, RemoveEmptyKeeps, RemoveHelpKeeps, RemoveTakeKeeps
  <2>12. CASE kind = "lb" /\ (RemoveLock(t) \/ RemoveHeadLocked(t) \/ RemoveUnlockEmpty(t))
    BY <2>1, <2>4, <2>12, RemoveLockKeeps, RemoveHeadLockedKeeps, RemoveUnlockEmptyKeeps
  <2>13. CASE kind = "lb" /\ RemoveRelease(t)
    <3>1. PICK n, r : n = lhead[t] /\ r = val[t]
      OBVIOUS
    <3>2. Inv(s, p)'
      BY <2>1, <2>4, <2>13, <3>1, FreeKeeps DEF RemoveRelease
    <3>3. QED BY <3>2
  <2>14. CASE kind = "lb" /\ (RemoveTakeLocked(t) \/ RemoveUnlock(t))
    BY <2>1, <2>4, <2>14, RemoveTakeLockedKeeps, RemoveUnlockKeeps
  <2>15. QED BY <2>2, <2>5, <2>6, <2>7, <2>8, <2>9, <2>10, <2>11, <2>12, <2>13, <2>14 DEF Step
<1>3. QED BY <1>1, <1>2

\* The state stays well typed: in particular no pointer a queue follows is NULL, and no
\* remove reads the item of a node that is not there.
THEOREM QueueTypes ==
  ASSUME AsWritten
  PROVE  Spec => []TypeOK
<1>1. Init => IInv
  BY InitInv DEF IInv
<1>2. IInv => TypeOK
  BY DEF IInv, Inv, Types
<1>3. QED BY <1>1, <1>2, StepInv, PTL DEF Spec

\* The nodes behind the dummy are the abstract queue: for any number of threads, items
\* and nodes no item is lost, doubled, or in memory that has been freed.
THEOREM QueueIsChain ==
  ASSUME AsWritten
  PROVE  Spec => []ChainIsContent
<1>1. Init => IInv
  BY InitInv DEF IInv
<1>2. IInv => ChainIsContent
  <2> SUFFICES ASSUME NEW s, NEW p, Inv(s, p) PROVE ChainIsContent
    BY DEF IInv
  <2>1. PICK r : r = Tail(s)
    OBVIOUS
  <2>2. /\ Chain = r /\ Len(s) \in Nat /\ Len(r) = Len(s) - 1
        /\ \A k \in 1..Len(r) : r[k] = s[k + 1] /\ r[k] \in live
    BY <2>1, ChainIs, BehindDummy DEF Inv
  <2>3. /\ content \in Seq(Items) /\ Len(content) = Len(r)
        /\ \A k \in 1..Len(r) : content[k] = item[r[k]]
    BY <2>2 DEF Inv, Filled, Types, TypeOK, HistTypeOK
  <2>4. content = [k \in 1..Len(r) |-> item[r[k]]]
    BY <2>3
  <2>5. count = Len(r)
    BY <2>2 DEF count
  <2>6. QED BY <2>2, <2>4, <2>5 DEF ChainIsContent
<1>3. QED BY <1>1, <1>2, StepInv, PTL DEF Spec

\* The tail is the dummy or a node behind it; with two locks the head may have overtaken
\* it, by the one node whose add is about to set the tail.
THEOREM QueueTail ==
  ASSUME AsWritten
  PROVE  Spec => []TailNotBehindHead
<1>1. Init => IInv
  BY InitInv DEF IInv
<1>2. IInv => TailNotBehindHead
  <2> SUFFICES ASSUME NEW s, NEW p, Inv(s, p) PROVE TailNotBehindHead
    BY DEF IInv
  <2>1. PICK r : r = Tail(s)
    OBVIOUS
  <2>2. /\ Chain = r /\ Len(s) \in Nat /\ Len(s) > 0 /\ Len(r) = Len(s) - 1
        /\ (\A k \in 1..Len(r) : r[k] = s[k + 1]) /\ count = Len(r)
    BY <2>1, ChainIs, BehindDummy DEF Inv, count
  <2>3. p \in 0..Len(s) /\ head = s[1]
    BY DEF Inv, Tailed, Linked
  <2>4. CASE p = 0
    <3>1. PICK t \in Threads : pc[t] = "a_tail"
      BY <2>2, <2>4 DEF Inv, Tailed
    <3>2. node[t] = s[Len(s)] /\ p >= Len(s) - 1 /\ kind = "lb"
      BY <2>4, <3>1 DEF Inv, Tailed
    <3>3. Len(s) = 1
      BY <2>2, <2>4, <3>2
    <3>4. QED BY <2>3, <3>1, <3>2, <3>3 DEF TailNotBehindHead
  <2>5. CASE p = 1
    BY <2>3, <2>5 DEF Inv, Tailed, TailNotBehindHead
  <2>6. CASE p > 1
    <3>1. p - 1 \in 1..Len(r) /\ (p - 1) + 1 = p /\ p > 0
      BY <2>2, <2>3, <2>6
    <3>2. tail = Chain[p - 1]
      BY <2>2, <3>1 DEF Inv, Tailed
    <3>3. QED BY <2>2, <3>1, <3>2 DEF TailNotBehindHead
  <2>7. QED BY <2>3, <2>4, <2>5, <2>6
<1>3. QED BY <1>1, <1>2, StepInv, PTL DEF Spec

\* ssmem gives no node out again while a thread may still compare its address, or follow
\* it: no CAS of the queues can be deceived.
THEOREM QueueMemoryIsSafe ==
  ASSUME AsWritten
  PROVE  Spec => NoReuseUnderReference
<1>1. Init => IInv
  BY InitInv DEF IInv
<1>2. IInv /\ [Next]_vars =>
        [\A n \in live' \ live : \A t \in Threads : n \notin {lhead[t], ltail[t], lnext[t]}]_vars
  <2> SUFFICES ASSUME NEW s, NEW p, Inv(s, p), Next, NEW n \in live' \ live, NEW u \in Threads
               PROVE  n \notin {lhead[u], ltail[u], lnext[u]}
    BY DEF IInv
  <2>1. PICK t \in Threads : Step(t)
    BY Steps
  <2>2. (\E x \in Items : AddAlloc(t, x)) \/ live' \subseteq live
    BY <2>1 DEF Step, RemoveCall, AddTail, AddNext, AddCheck, AddLink, AddHelp, AddSwing, AddLock,
                AddLinkLocked, AddSetTail, AddUnlock, RemoveHead, RemoveTail, RemoveNext, RemoveCheck,
                RemoveEmpty, RemoveHelp, RemoveTake, RemoveFree, ssmem_free, RemoveLock,
                RemoveHeadLocked, RemoveUnlockEmpty, RemoveTakeLocked, RemoveUnlock, RemoveRelease, mem
  <2>3. PICK m \in Available(t) : live' = live \cup {m}
    BY <2>2 DEF AddAlloc, ssmem_alloc
  <2>4. QED BY <2>3, AvailableIsUnknown
<1>3. QED BY <1>1, <1>2, StepInv, PTL DEF Spec, NoReuseUnderReference

\* Each step of a queue is a step of the atomic queue, or none.
LEMMA Simulates ==
  ASSUME NEW s, NEW p, Inv(s, p), [Next]_vars
  PROVE  [Queue!Next]_Queue!vars
<1> USE DEF Preparing, Added, Seeking, Disposing
<1>1. CASE UNCHANGED hist
  BY <1>1 DEF hist, Queue!vars
<1>2. ASSUME NEW t \in Threads, NEW c \in Calls, Begins(t, c) PROVE Queue!Next
  BY <1>2 DEF Begins, Calls, Queue!Next
<1>3. ASSUME NEW t \in Threads, pc[t] \in Preparing, Enqueues(t) PROVE Queue!Next
  <2>1. Queue!Add(t)
    BY <1>3 DEF Inv, Types, Recorded, Enqueues, Queue!Add
  <2>2. QED BY <2>1 DEF Queue!Next
<1>4. ASSUME NEW t \in Threads, pc[t] \in {"r_act", "r_take"}, head = lhead[t],
             lnext[t] \in Nodes, Takes(t, item[lnext[t]])
      PROVE  Queue!Next
  <2>1. lnext[t] # NULL /\ lnext[t] = next[head]
    BY <1>4, Constants DEF Inv, Knows
  <2>2. Len(s) \in Nat /\ Len(s) > 0 /\ Len(s) # 1 /\ lnext[t] = s[2]
    BY <2>1, HeadIs DEF Inv, Linked
  <2>3. content \in Seq(Items) /\ Len(content) > 0 /\ content[1] = item[lnext[t]]
    <3>1. content \in Seq(Items) /\ Len(content) = Len(s) - 1
      BY DEF Inv, Filled, Types, TypeOK, HistTypeOK
    <3>2. 1 \in 1..(Len(s) - 1) /\ Len(s) - 1 > 0
      <4>1. \A n \in Nat : n > 0 /\ n # 1 => 1 \in 1..(n - 1) /\ n - 1 > 0
        OBVIOUS
      <4>2. QED BY <2>2, <4>1
    <3>3. content[1] = item[s[1 + 1]] /\ 1 + 1 = 2
      BY <3>2 DEF Inv, Filled
    <3>4. QED BY <2>2, <3>1, <3>2, <3>3
  <2>4. /\ SubSeq(content, 2, Len(content)) = Tail(content)
        /\ item[lnext[t]] = Head(content) /\ content # <<>>
    BY <2>3, FirstOut
  <2>5. Queue!Effect(t, Tail(content), Head(content))
    BY <1>4, <2>4 DEF Takes
  <2>6. Queue!Remove(t)
    BY <1>4, <2>4, <2>5 DEF Inv, Types, Recorded, Queue!Remove
  <2>7. QED BY <2>6 DEF Queue!Next
<1>5. ASSUME NEW t \in Threads, pc[t] # "idle", NEW r \in Items \cup {0, 1}, Returns(t, r),
             \/ lin[t] = r /\ lin[t] # Queue!Pending
             \/ call[t].op = "remove" /\ lin[t] = Queue!Pending /\ drained[t] /\ r = 0
      PROVE  Queue!Next
  <2>1. call[t] # Queue!NoCall
    BY <1>5, CallsAre DEF Inv, Types, TypeOK, PCs
  <2>2. Queue!Return(t, r)
    BY <1>5, <2>1, CallsAre DEF Returns, Queue!Return
  <2>3. QED BY <2>2 DEF Queue!Next
<1>6. CASE UNCHANGED vars
  BY <1>1, <1>6 DEF vars
<1>7. CASE Next
  <2>1. PICK t \in Threads : Step(t)
    BY <1>7, Steps
  <2>2. CASE (\E x \in Items : AddAlloc(t, x)) \/ RemoveCall(t)
    BY <1>2, <2>2, CallsAre DEF AddAlloc, RemoveCall
  <2>3. CASE AddTail(t) \/ AddNext(t) \/ AddCheck(t) \/ AddHelp(t) \/ AddLock(t) \/ AddSetTail(t)
    BY <1>1, <2>3 DEF AddTail, AddNext, AddCheck, AddHelp, AddLock, AddSetTail
  <2>4. CASE RemoveHead(t) \/ RemoveTail(t) \/ RemoveNext(t) \/ RemoveCheck(t) \/ RemoveHelp(t)
    BY <1>1, <2>4 DEF RemoveHead, RemoveTail, RemoveNext, RemoveCheck, RemoveHelp
  <2>5. CASE RemoveLock(t) \/ RemoveHeadLocked(t) \/ RemoveUnlock(t)
    BY <1>1, <2>5 DEF RemoveLock, RemoveHeadLocked, RemoveUnlock
  <2>6. CASE AddLink(t) \/ AddLinkLocked(t)
    BY <1>1, <1>3, <2>6 DEF AddLink, AddLinkLocked, Goto
  <2>7. CASE RemoveTake(t)
    <3>1. CASE head = lhead[t]
      <4>1. pc[t] = "r_act" /\ lnext[t] # NULL /\ lnext[t] \in Nodes
        BY <2>7, <3>1 DEF RemoveTake, Inv, Knows, Types, TypeOK
      <4>2. Takes(t, item[lnext[t]])
        BY <2>7, <3>1, <4>1 DEF RemoveTake
      <4>3. QED BY <1>4, <3>1, <4>1, <4>2
    <3>2. CASE head # lhead[t]
      BY <1>1, <2>7, <3>2 DEF RemoveTake
    <3>3. QED BY <3>1, <3>2
  <2>8. CASE RemoveTakeLocked(t)
    <3>1. pc[t] = "r_take" /\ head = lhead[t] /\ lnext[t] \in Nodes /\ Takes(t, item[lnext[t]])
      BY <2>8 DEF RemoveTakeLocked, Goto, Inv, Knows, Types
    <3>2. QED BY <1>4, <3>1
  <2>9. CASE AddSwing(t) \/ AddUnlock(t)
    BY <1>5, <2>9, Constants DEF AddSwing, AddUnlock, Return, Inv, Recorded
  <2>10. CASE RemoveFree(t) \/ RemoveRelease(t)
    <3>1. PICK r : pc[t] \in {"r_free", "r_release"} /\ Returns(t, r) /\ lin[t] = r /\ r \in Items
      BY <2>10 DEF RemoveFree, RemoveRelease, Return, Inv, Recorded
    <3>2. lin[t] # Queue!Pending
      BY <3>1, Constants
    <3>3. QED BY <1>5, <3>1, <3>2
  <2>11. CASE RemoveEmpty(t) \/ RemoveUnlockEmpty(t)
    <3>1. pc[t] \in {"r_act", "r_empty"} /\ Returns(t, 0) /\ (pc[t] = "r_act" => lnext[t] = NULL)
      BY <2>11 DEF RemoveEmpty, RemoveUnlockEmpty, Return
    <3>2. drained[t]
      BY <3>1 DEF Inv, Drained
    <3>3. lin[t] = Queue!Pending /\ call[t].op = "remove"
      BY <3>1 DEF Inv, Recorded, Types
    <3>4. QED BY <1>5, <3>1, <3>2, <3>3
  <2>12. QED BY <2>1, <2>2, <2>3, <2>4, <2>5, <2>6, <2>7, <2>8, <2>9, <2>10, <2>11 DEF Step
<1>8. QED BY <1>6, <1>7

\* The three queues implement the atomic queue: every call returns what it could have
\* returned.
THEOREM QueueLinearizability ==
  ASSUME AsWritten
  PROVE  Spec => Linearizable
<1>1. Init => IInv /\ Queue!Init
  BY InitInv DEF IInv, Init, HistInit
<1>2. IInv /\ [Next]_vars => [Queue!Next]_Queue!vars
  BY Simulates DEF IInv
<1>3. QED BY <1>1, <1>2, StepInv, PTL DEF Spec, Linearizable, Queue!Spec
=============================================================================
