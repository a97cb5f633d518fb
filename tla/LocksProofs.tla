---------------------------- MODULE LocksProofs ----------------------------
(***************************************************************************)
(* Proofs about Locks, for every set of threads, every number of tickets   *)
(* and every bound on the versions: each kind of lock excludes, the queue  *)
(* locks are first come first served, and a validated OPTIK lock call      *)
(* finds the data it has read.                                             *)
(***************************************************************************)
EXTENDS Locks, FiniteSetTheorems, SequenceTheorems, TLAPS

-----------------------------------------------------------------------------
(* Tickets.                                                                *)

Tickets == 0..(TicketMod - 1)

\* The ticket n after c.
After(c, n) == IF c + n < TicketMod THEN c + n ELSE c + n - TicketMod

\* What the assumptions on the constants say.
LEMMA Constants ==
  /\ Cardinality(Threads) \in Nat
  /\ TicketMod \in Nat /\ MaxVersion \in Nat
  /\ Cardinality(Threads) < TicketMod
  /\ 0 \in Tickets
  /\ OTicket!INT_MAX \in Tickets
  /\ MaxVersion + Cardinality(Threads) < OTicket!INT_MAX
  /\ OTicket!INT_MAX < TicketMod
<1>1. Cardinality(Threads) \in Nat
  BY LockAssumption, FS_CardinalityType
<1>2. TicketMod \div 2 - 1 < TicketMod
  BY LockAssumption
<1>3. QED BY <1>1, <1>2, LockAssumption DEF OTicket!INT_MAX, Tickets

\* Counting tickets up and down, modulo their number.
LEMMA Counting ==
  \A c \in Tickets :
    /\ inc(c) = After(c, 1) /\ inc(c) \in Tickets /\ inc(c) # c
    /\ dec(c) \in Tickets /\ dec(c) # c
    /\ dec(inc(c)) = c
    /\ OTicket!inc(c) = inc(c) /\ OTicket!dec(c) = dec(c) /\ Separate!inc(c) = inc(c)
<1> SUFFICES ASSUME NEW c \in Tickets
             PROVE  /\ inc(c) = After(c, 1) /\ inc(c) \in Tickets /\ inc(c) # c
                    /\ dec(c) \in Tickets /\ dec(c) # c
                    /\ dec(inc(c)) = c
                    /\ OTicket!inc(c) = inc(c) /\ OTicket!dec(c) = dec(c) /\ Separate!inc(c) = inc(c)
  OBVIOUS
<1>1. TicketMod \in Nat /\ TicketMod > 1
  BY LockAssumption, Constants
<1>2. /\ \A a \in Tickets : a % TicketMod = a
      /\ TicketMod % TicketMod = 0 /\ (0 - 1) % TicketMod = TicketMod - 1
  BY <1>1 DEF Tickets
<1>3. inc(c) = IF c + 1 = TicketMod THEN 0 ELSE c + 1
  BY <1>1, <1>2 DEF inc, Tickets
<1>4. \A d \in Tickets : dec(d) = IF d = 0 THEN TicketMod - 1 ELSE d - 1
  BY <1>1, <1>2 DEF dec, Tickets
<1>5. /\ inc(c) = After(c, 1) /\ inc(c) \in Tickets /\ inc(c) # c
      /\ dec(c) \in Tickets /\ dec(c) # c
  BY <1>1, <1>3, <1>4 DEF After, Tickets
<1>6. dec(inc(c)) = c
  BY <1>1, <1>3, <1>4, <1>5 DEF Tickets
<1>7. OTicket!inc(c) = inc(c) /\ OTicket!dec(c) = dec(c) /\ Separate!inc(c) = inc(c)
  BY DEF OTicket!inc, OTicket!dec, Separate!inc, inc, dec
<1>8. QED BY <1>5, <1>6, <1>7

\* Places in a queue that is shorter than the number of tickets.
LEMMA Places ==
  \A c \in Tickets, n \in 0..(TicketMod - 1) :
    /\ After(c, n) \in Tickets
    /\ After(c, 0) = c
    /\ After(c, n) = c => n = 0
    /\ inc(After(c, n)) = After(c, n + 1)
    /\ n > 0 => After(inc(c), n - 1) = After(c, n)
<1> SUFFICES ASSUME NEW c \in Tickets, NEW n \in 0..(TicketMod - 1)
             PROVE  /\ After(c, n) \in Tickets
                    /\ After(c, 0) = c
                    /\ After(c, n) = c => n = 0
                    /\ inc(After(c, n)) = After(c, n + 1)
                    /\ n > 0 => After(inc(c), n - 1) = After(c, n)
  OBVIOUS
<1>1. TicketMod \in Nat
  BY Constants
<1>2. /\ After(c, n) \in Tickets
      /\ After(c, 0) = c
      /\ After(c, n) = c => n = 0
  BY <1>1 DEF After, Tickets
<1>3. inc(After(c, n)) = After(After(c, n), 1) /\ inc(c) = After(c, 1)
  BY <1>2, Counting
<1>4. After(After(c, n), 1) = After(c, n + 1)
  BY <1>1 DEF After, Tickets
<1>5. n > 0 => After(After(c, 1), n - 1) = After(c, n)
  BY <1>1 DEF After, Tickets
<1>6. QED BY <1>2, <1>3, <1>4, <1>5

-----------------------------------------------------------------------------
(* The queue of the threads that have the lock or have queued up.          *)

\* In queue q stand exactly the threads whose program counter is in S, each once.
Queue(q, p, S) ==
  /\ q \in Seq(Threads)
  /\ \A i, j \in 1..Len(q) : q[i] = q[j] => i = j
  /\ \A t \in Threads : p[t] \in S <=> \E i \in 1..Len(q) : q[i] = t

\* The threads in a queue, counted.
LEMMA QueueLength ==
  ASSUME NEW q, NEW p, NEW S, Queue(q, p, S)
  PROVE  /\ Len(q) \in Nat /\ Len(q) <= Cardinality(Threads)
         /\ Cardinality({t \in Threads : p[t] \in S}) = Len(q)
<1> DEFINE In == {t \in Threads : p[t] \in S}
<1>1. Len(q) \in Nat /\ \A i \in 1..Len(q) : q[i] \in Threads
  BY DEF Queue
<1>2. IsFiniteSet(1..Len(q)) /\ Cardinality(1..Len(q)) = Len(q)
  BY <1>1, FS_Interval
<1> DEFINE f == [i \in 1..Len(q) |-> q[i]]
<1>3. f \in Surjection(1..Len(q), In)
  BY <1>1 DEF Queue, Surjection
<1>4. f \in Injection(1..Len(q), In)
  <2>1. f \in [1..Len(q) -> In]
    BY <1>3 DEF Surjection
  <2>2. \A i, j \in 1..Len(q) : f[i] = f[j] => i = j
    BY DEF Queue
  <2>3. QED BY <2>1, <2>2 DEF Injection, IsInjective
<1>5. Cardinality(In) = Len(q)
  BY <1>2, <1>3, <1>4, FS_Surjection
<1>6. In \in SUBSET Threads /\ IsFiniteSet(Threads)
  BY LockAssumption
<1>7. Cardinality(In) <= Cardinality(Threads)
  BY <1>6, FS_Subset
<1>8. QED BY <1>1, <1>5, <1>7

\* A thread outside the queue goes to its end.
LEMMA QueueAppend ==
  ASSUME NEW q, NEW P, NEW p \in [Threads -> P], NEW S, Queue(q, p, S), NEW t \in Threads,
         p[t] \notin S, NEW to \in S
  PROVE  Queue(Append(q, t), [p EXCEPT ![t] = to], S)
<1> DEFINE r == Append(q, t)
<1>1. q \in Seq(Threads) /\ Len(q) \in Nat
  BY DEF Queue
<1>2. /\ r \in Seq(Threads) /\ Len(r) = Len(q) + 1 /\ r[Len(q) + 1] = t
      /\ \A i \in 1..Len(q) : r[i] = q[i]
  BY <1>1, AppendProperties
<1>3. \A i \in 1..Len(q) : q[i] # t
  BY DEF Queue
<1>4. \A i, j \in 1..Len(r) : r[i] = r[j] => i = j
  <2>1. \A i \in 1..Len(r) : i \in 1..Len(q) \/ i = Len(q) + 1
    BY <1>1, <1>2
  <2>2. \A i, j \in 1..Len(q) : r[i] = r[j] => i = j
    BY <1>2 DEF Queue
  <2>3. \A i \in 1..Len(q) : r[i] # r[Len(q) + 1]
    BY <1>2, <1>3
  <2>4. QED
    <3> HIDE DEF r
    <3>1. QED BY <2>1, <2>2, <2>3
<1>5. \A u \in Threads : [p EXCEPT ![t] = to][u] \in S <=> \E i \in 1..Len(r) : r[i] = u
  <2>1. \A i : i \in 1..Len(r) <=> i \in 1..Len(q) \/ i = Len(q) + 1
    BY <1>1, <1>2
  <2>2. QED BY <1>2, <2>1 DEF Queue
<1>6. QED BY <1>2, <1>4, <1>5 DEF Queue

\* The thread at the head leaves the queue.
LEMMA QueueTail ==
  ASSUME NEW q, NEW P, NEW p \in [Threads -> P], NEW S, Queue(q, p, S), NEW t \in Threads,
         1 \in 1..Len(q), q[1] = t, NEW to, to \notin S
  PROVE  /\ Queue(Tail(q), [p EXCEPT ![t] = to], S)
         /\ Len(Tail(q)) = Len(q) - 1
         /\ \A i \in 1..(Len(q) - 1) : Tail(q)[i] = q[i + 1]
<1> DEFINE r == Tail(q)
<1>1. q \in Seq(Threads) /\ Len(q) \in Nat /\ q # << >>
  BY DEF Queue
<1>2. /\ r \in Seq(Threads) /\ Len(r) = Len(q) - 1
      /\ \A i \in 1..(Len(q) - 1) : r[i] = q[i + 1]
  BY <1>1, HeadTailProperties
<1>3. \A i, j \in 1..Len(r) : r[i] = r[j] => i = j
  BY <1>1, <1>2 DEF Queue
<1>4. ASSUME NEW u \in Threads
      PROVE  [p EXCEPT ![t] = to][u] \in S <=> \E i \in 1..Len(r) : r[i] = u
  <2>1. CASE u = t
    <3>1. \A i \in 1..Len(r) : r[i] # t
      BY <1>1, <1>2 DEF Queue
    <3>2. QED BY <2>1, <3>1
  <2>2. CASE u # t
    <3>1. p[u] \in S <=> \E i \in 1..Len(q) : q[i] = u
      BY DEF Queue
    <3>2. ASSUME NEW i \in 1..Len(q), q[i] = u PROVE i - 1 \in 1..Len(r) /\ r[i - 1] = u
      BY <1>1, <1>2, <2>2, <3>2
    <3>3. ASSUME NEW i \in 1..Len(r), r[i] = u PROVE i + 1 \in 1..Len(q) /\ q[i + 1] = u
      BY <1>1, <1>2, <3>3
    <3>4. QED BY <2>2, <3>1, <3>2, <3>3
  <2>3. QED BY <2>1, <2>2
<1>5. QED BY <1>2, <1>3, <1>4 DEF Queue

\* A thread stays in the queue, or outside.
LEMMA QueueStay ==
  ASSUME NEW q, NEW P, NEW p \in [Threads -> P], NEW S, Queue(q, p, S), NEW t \in Threads,
         NEW to, p[t] \in S <=> to \in S
  PROVE  Queue(q, [p EXCEPT ![t] = to], S)
BY DEF Queue

-----------------------------------------------------------------------------
(* A queue of tickets, of which number n is served: the threads in W wait  *)
(* for their ticket, and only the one at the head may be in C.             *)

TicketQueue(q, p, l, ticket, n, W, C) ==
  /\ Queue(q, p, W \cup C)
  /\ ticket = After(n, Len(q))
  /\ \A i \in 1..Len(q) : /\ p[q[i]] \in W => l[q[i]].ticket = After(n, i - 1)
                          /\ p[q[i]] \in C => i = 1

\* Such a queue is shorter than the number of tickets.
LEMMA TicketQueueLength ==
  ASSUME NEW q, NEW p, NEW l, NEW ticket, NEW n, NEW W, NEW C,
         TicketQueue(q, p, l, ticket, n, W, C)
  PROVE  /\ Queue(q, p, W \cup C) /\ q \in Seq(Threads)
         /\ Len(q) \in Nat /\ Len(q) < TicketMod /\ Len(q) \in 0..(TicketMod - 1)
         /\ TicketMod \in Nat
<1>1. Queue(q, p, W \cup C)
  BY DEF TicketQueue
<1>2. Len(q) \in Nat /\ Len(q) <= Cardinality(Threads) /\ q \in Seq(Threads)
  BY <1>1, QueueLength DEF Queue
<1>3. QED BY <1>1, <1>2, Constants

\* A thread that is served is the head of the queue, and the only one.
LEMMA ServedIsHead ==
  ASSUME NEW q, NEW p, NEW l, NEW ticket, NEW n \in Tickets, NEW W, NEW C,
         TicketQueue(q, p, l, ticket, n, W, C), NEW t \in Threads,
         p[t] \in C \/ (p[t] \in W /\ l[t].ticket = n)
  PROVE  1 \in 1..Len(q) /\ q[1] = t /\ \A u \in Threads : p[u] \in C => u = t
<1>1. /\ Len(q) \in Nat /\ Len(q) < TicketMod /\ Queue(q, p, W \cup C)
      /\ TicketMod \in Nat
  BY TicketQueueLength
<1>2. PICK i \in 1..Len(q) : q[i] = t
  BY <1>1 DEF Queue
<1>3. i = 1
  <2>1. CASE p[t] \in C
    BY <1>2, <2>1 DEF TicketQueue
  <2>2. CASE p[t] \in W /\ l[t].ticket = n
    <3>1. After(n, i - 1) = n /\ i - 1 \in 0..(TicketMod - 1)
      BY <1>1, <1>2, <2>2 DEF TicketQueue
    <3>2. i - 1 = 0
      BY <3>1, Places
    <3>3. QED BY <1>1, <3>2
  <2>3. QED BY <2>1, <2>2
<1>4. ASSUME NEW u \in Threads, p[u] \in C PROVE u = t
  <2>1. PICK j \in 1..Len(q) : q[j] = u
    BY <1>1, <1>4 DEF Queue
  <2>2. j = 1
    BY <1>4, <2>1 DEF TicketQueue
  <2>3. QED BY <1>2, <1>3, <2>1, <2>2
<1>5. QED BY <1>1, <1>2, <1>3, <1>4

\* Drawing a ticket.
LEMMA DrawTicket ==
  ASSUME NEW q, NEW P, NEW p \in [Threads -> P], NEW l, NEW ticket, NEW n \in Tickets, NEW W, NEW C,
         TicketQueue(q, p, l, ticket, n, W, C), W \cap C = {},
         NEW t \in Threads, p[t] \notin W \cup C, NEW to \in W, NEW m, m[t].ticket = ticket,
         \A u \in Threads \ {t} : m[u].ticket = l[u].ticket
  PROVE  TicketQueue(Append(q, t), [p EXCEPT ![t] = to], m, inc(ticket), n, W, C)
<1> DEFINE r == Append(q, t)
           s == [p EXCEPT ![t] = to]
<1>1. /\ Len(q) \in Nat /\ Len(q) < TicketMod /\ Queue(q, p, W \cup C)
      /\ TicketMod \in Nat /\ q \in Seq(Threads)
  BY TicketQueueLength
<1>2. Queue(r, s, W \cup C)
  BY <1>1, QueueAppend
<1>3. /\ Len(r) = Len(q) + 1 /\ r[Len(q) + 1] = t
      /\ \A i \in 1..Len(q) : r[i] = q[i] /\ q[i] \in Threads \ {t}
  BY <1>1, AppendProperties DEF Queue
<1>4. inc(ticket) = After(n, Len(r))
  BY <1>1, <1>3, Places DEF TicketQueue
<1>5. ASSUME NEW i \in 1..Len(q)
      PROVE  /\ s[r[i]] \in W => m[r[i]].ticket = After(n, i - 1)
             /\ s[r[i]] \in C => i = 1
  <2>1. s[r[i]] = p[q[i]] /\ m[r[i]].ticket = l[q[i]].ticket
    BY <1>3
  <2>2. QED BY <2>1 DEF TicketQueue
<1>6. /\ s[r[Len(q) + 1]] = to /\ to \notin C
      /\ m[r[Len(q) + 1]].ticket = After(n, (Len(q) + 1) - 1)
  BY <1>1, <1>3 DEF TicketQueue
<1>7. \A i \in 1..Len(r) : i \in 1..Len(q) \/ i = Len(q) + 1
  BY <1>1, <1>3
<1> HIDE DEF r, s
<1>8. \A i \in 1..Len(r) : /\ s[r[i]] \in W => m[r[i]].ticket = After(n, i - 1)
                           /\ s[r[i]] \in C => i = 1
  BY <1>5, <1>6, <1>7
<1>9. QED BY <1>2, <1>4, <1>8 DEF TicketQueue, r, s

\* Taking the lock when nobody has it or waits.
LEMMA TryTicket ==
  ASSUME NEW q, NEW P, NEW p \in [Threads -> P], NEW l, NEW ticket, NEW n \in Tickets, NEW W, NEW C,
         TicketQueue(q, p, l, ticket, n, W, C), W \cap C = {}, ticket = n,
         NEW t \in Threads, p[t] \notin W \cup C, NEW to \in C, NEW m
  PROVE  TicketQueue(Append(q, t), [p EXCEPT ![t] = to], m, inc(ticket), n, W, C)
<1> DEFINE r == Append(q, t)
           s == [p EXCEPT ![t] = to]
<1>1. /\ Len(q) \in 0..(TicketMod - 1) /\ Queue(q, p, W \cup C)
      /\ TicketMod \in Nat /\ q \in Seq(Threads)
  BY TicketQueueLength
<1>2. Len(q) = 0
  <2>1. After(n, Len(q)) = n
    BY DEF TicketQueue
  <2>2. QED BY <1>1, <2>1, Places
<1>3. Queue(r, s, W \cup C)
  BY <1>1, QueueAppend
<1>4. Len(r) = 1 /\ r[1] = t
  BY <1>1, <1>2, AppendProperties
<1>5. inc(ticket) = After(n, Len(r))
  BY <1>4, Counting
<1>6. s[t] = to /\ to \notin W
  OBVIOUS
<1>7. QED BY <1>3, <1>4, <1>5, <1>6 DEF TicketQueue

\* The ticket of a thread is served.
LEMMA ServeTicket ==
  ASSUME NEW q, NEW P, NEW p \in [Threads -> P], NEW l, NEW ticket, NEW n \in Tickets, NEW W, NEW C,
         TicketQueue(q, p, l, ticket, n, W, C), W \cap C = {},
         NEW t \in Threads, p[t] \in W, l[t].ticket = n, NEW to \in C, NEW m,
         \A u \in Threads \ {t} : m[u].ticket = l[u].ticket
  PROVE  TicketQueue(q, [p EXCEPT ![t] = to], m, ticket, n, W, C)
<1>1. 1 \in 1..Len(q) /\ q[1] = t
  BY ServedIsHead
<1>2. Queue(q, p, W \cup C) /\ \A i \in 1..Len(q) : q[i] \in Threads /\ (q[i] = t => i = 1)
  BY <1>1 DEF TicketQueue, Queue
<1>3. Queue(q, [p EXCEPT ![t] = to], W \cup C)
  BY <1>2, QueueStay
<1>4. QED BY <1>2, <1>3 DEF TicketQueue

\* A thread goes on outside the queue, or as the one that is served.
LEMMA KeepTicket ==
  ASSUME NEW q, NEW P, NEW p \in [Threads -> P], NEW l, NEW ticket, NEW n, NEW W, NEW C,
         TicketQueue(q, p, l, ticket, n, W, C), W \cap C = {},
         NEW t \in Threads, NEW to,
         \/ p[t] \notin W \cup C /\ to \notin W \cup C
         \/ p[t] \in C /\ to \in C,
         NEW m, \A u \in Threads \ {t} : m[u].ticket = l[u].ticket
  PROVE  TicketQueue(q, [p EXCEPT ![t] = to], m, ticket, n, W, C)
<1>1. Queue(q, p, W \cup C) /\ \A i \in 1..Len(q) : q[i] \in Threads
  BY DEF TicketQueue, Queue
<1>2. Queue(q, [p EXCEPT ![t] = to], W \cup C)
  BY <1>1, QueueStay
<1>3. \A i \in 1..Len(q) : p[q[i]] \in W \cup C
  BY <1>1 DEF Queue
<1>4. QED BY <1>1, <1>2, <1>3 DEF TicketQueue

\* The thread that is served leaves, and the next ticket is served.
LEMMA NextTicket ==
  ASSUME NEW q, NEW P, NEW p \in [Threads -> P], NEW l, NEW ticket, NEW n \in Tickets, NEW W, NEW C,
         TicketQueue(q, p, l, ticket, n, W, C), W \cap C = {},
         NEW t \in Threads, p[t] \in C, NEW to, to \notin W \cup C, NEW m,
         \A u \in Threads \ {t} : m[u].ticket = l[u].ticket
  PROVE  TicketQueue(Tail(q), [p EXCEPT ![t] = to], m, ticket, inc(n), W, C)
<1> DEFINE r == Tail(q)
           s == [p EXCEPT ![t] = to]
<1>1. 1 \in 1..Len(q) /\ q[1] = t
  BY ServedIsHead
<1>2. /\ Len(q) \in Nat /\ Len(q) < TicketMod /\ Queue(q, p, W \cup C)
      /\ TicketMod \in Nat
  BY TicketQueueLength
<1>3. /\ Queue(r, s, W \cup C)
      /\ Len(r) = Len(q) - 1
      /\ \A i \in 1..(Len(q) - 1) : r[i] = q[i + 1]
  BY <1>1, <1>2, QueueTail
<1>4. ticket = After(inc(n), Len(r))
  <2>1. Len(q) \in 0..(TicketMod - 1) /\ Len(q) > 0
    BY <1>1, <1>2
  <2>2. QED BY <1>3, <2>1, Places DEF TicketQueue
<1>5. ASSUME NEW i \in 1..Len(r)
      PROVE  /\ s[r[i]] \in W => m[r[i]].ticket = After(inc(n), i - 1)
             /\ s[r[i]] \in C => i = 1
  <2>1. i + 1 \in 1..Len(q) /\ i \in 0..(TicketMod - 1) /\ i > 0 /\ r[i] = q[i + 1] /\ i + 1 # 1
    BY <1>2, <1>3, <1>5
  <2>2. q[i + 1] \in Threads \ {t}
    BY <1>1, <1>2, <2>1 DEF Queue
  <2>3. s[r[i]] = p[q[i + 1]] /\ m[r[i]].ticket = l[q[i + 1]].ticket
    BY <2>1, <2>2
  <2>4. p[q[i + 1]] \in W => l[q[i + 1]].ticket = After(n, (i + 1) - 1)
    BY <2>1 DEF TicketQueue
  <2>5. After(n, (i + 1) - 1) = After(n, i) /\ After(inc(n), i - 1) = After(n, i)
    BY <2>1, Places
  <2>6. p[q[i + 1]] \notin C
    BY <2>1 DEF TicketQueue
  <2>7. QED BY <2>3, <2>4, <2>5, <2>6
<1>6. QED BY <1>3, <1>4, <1>5 DEF TicketQueue

-----------------------------------------------------------------------------
(* The inductive invariant: the types, and a part for each kind of lock.   *)

\* Program counters, and the names of the functions that threads call.
Labels ==
  {"none", "idle", "lock", "lock_cas", "trylock", "try_cas", "crit", "wait", "mcs_wait", "mcs_link",
   "mcs_spin", "unlock_cas", "unlock_wait", "unlock_wake", "peek", "lock_version", "version_wait",
   "trylock_version", "trylock_vdelete", "wrote", "dead", "lock_if_not_deleted", "if_draw",
   "if_wait", "lock_vdelete", "vdelete_draw", "vdelete_wait", "vdelete", "trylock_cas",
   "trylock_check", "unlock"}

Words ==
  [lock : {0, 1}, ticket : Tickets, curr : Tickets, version : Tickets,
   next : Threads \cup {NoThread}]

Locals ==
  [ticket : Tickets, ol_old : Words, snap : Nat, same : BOOLEAN, by : Labels,
   pred : Threads \cup {NoThread}]

Types ==
  /\ kind \in DOMAIN Users
  /\ word \in Words
  /\ qnode \in [Threads -> [waiting : BOOLEAN, next : Threads \cup {NoThread}]]
  /\ data \in Nat
  /\ pc \in [Threads -> Labels]
  /\ loc \in [Threads -> Locals]

\* The lock word says whether a thread is in S, and no two are.
Owned(S) ==
  /\ word.lock = 1 <=> \E t \in Threads : pc[t] \in S
  /\ \A t, u \in Threads : pc[t] \in S /\ pc[u] \in S => t = u

Within(S) == \A t \in Threads : pc[t] \in S

SpinInv == Within({"idle", "lock", "lock_cas", "trylock", "crit"}) /\ Owned({"crit"})

TicketInv ==
  /\ Within({"idle", "lock", "trylock", "try_cas", "wait", "crit"})
  /\ TicketQueue(queue, pc, loc, word.ticket, word.curr, {"wait"}, {"crit"})

\* The MCS lock: the lock points to the last queue node.  A thread behind the head knows
\* its predecessor and, once it has linked itself, is known to it; it spins until it is
\* woken, which makes it the head.
Unlocking == {"crit", "unlock_cas", "unlock_wait", "unlock_wake"}
Joining   == {"mcs_wait", "mcs_link", "mcs_spin"}

McsPlace(i) ==
  /\ i = 1 => pc[queue[1]] \in Unlocking \/ (pc[queue[1]] = "mcs_spin" /\ ~qnode[queue[1]].waiting)
  /\ i > 1 => /\ pc[queue[i]] \in Joining
              /\ pc[queue[i]] # "mcs_wait" => qnode[queue[i]].waiting
              /\ loc[queue[i]].pred = queue[i - 1]
  /\ qnode[queue[i]].next = IF i < Len(queue) /\ pc[queue[i + 1]] = "mcs_spin"
                              THEN queue[i + 1] ELSE NoThread
  /\ pc[queue[i]] = "unlock_wake" => qnode[queue[i]].next # NoThread

McsInv ==
  /\ Within({"idle", "lock", "trylock", "try_cas"} \cup Joining \cup Unlocking)
  /\ Queue(queue, pc, Joining \cup Unlocking)
  /\ word.next = IF Len(queue) = 0 THEN NoThread ELSE queue[Len(queue)]
  /\ \A i \in 1..Len(queue) : McsPlace(i)
  /\ \A t \in Threads : pc[t] = "try_cas" => qnode[t].next = NoThread

\* OPTIK_TICKET with the functions that queue up.
QueueInv ==
  /\ Within({"idle", "peek", "lock_version", "trylock_version", "trylock", "try_cas",
             "version_wait", "crit", "wrote"})
  /\ TicketQueue(queue, pc, loc, word.ticket, word.version, {"version_wait"}, {"crit", "wrote"})

\* OPTIK_TICKET with the functions that only try: ticket and version differ exactly while
\* somebody has the lock; a deleted lock is never free again.
TryInv ==
  /\ Within({"idle", "peek", "trylock_version", "trylock_vdelete", "trylock", "try_cas",
             "crit", "wrote", "dead"})
  /\ word.ticket # word.version <=> \E t \in Threads : Holds(t)
  /\ MutualExclusion
  /\ \A t \in Threads : pc[t] \in {"crit", "wrote"} => word.ticket = inc(word.version)

\* OPTIK_TICKET with the functions that delete: until the lock is deleted it is a ticket
\* lock; then the deleting thread is alone, and no ticket is served by the version INT_MAX.
Drawers == {t \in Threads : pc[t] \in {"lock_if_not_deleted", "if_draw", "lock_vdelete", "vdelete_draw"}}
DeleteWaits == {"if_wait", "vdelete_wait"}
DeleteHolds == {"crit", "vdelete"}

DeleteInv ==
  /\ Within({"idle", "lock_if_not_deleted", "if_draw", "lock_vdelete", "vdelete_draw", "dead"}
              \cup DeleteWaits \cup DeleteHolds)
  /\ word.ticket + Cardinality(Drawers) <= MaxVersion + Cardinality(Threads)
  /\ \A t \in Threads : pc[t] \in DeleteWaits => loc[t].ticket < OTicket!INT_MAX
  /\ word.version # OTicket!INT_MAX =>
       /\ word.version <= word.ticket
       /\ \A t \in Threads : pc[t] # "dead"
       /\ TicketQueue(queue, pc, loc, word.ticket, word.version, DeleteWaits, DeleteHolds)
  /\ word.version = OTicket!INT_MAX =>
       \E t \in Threads : /\ pc[t] = "dead"
                          /\ queue \in Seq(Threads) /\ queue # <<>> /\ queue[1] = t
                          /\ \A u \in Threads \ {t} : pc[u] \notin DeleteHolds \cup {"dead"}

\* OPTIK_SEPARATE: the lock word alone excludes, and the calls have their names.
SeparateInv ==
  /\ Within({"idle", "peek", "lock_version", "lock_cas", "trylock_version", "trylock_cas",
             "trylock_check", "trylock", "crit", "wrote", "unlock"})
  /\ Owned({"trylock_check", "crit", "wrote", "unlock"})
  /\ \A t \in Threads :
       /\ pc[t] \in {"lock_version", "lock_cas"} => loc[t].by = "lock_version"
       /\ pc[t] \in {"trylock_version", "trylock_cas", "trylock_check"} => loc[t].by = "trylock_version"
       /\ pc[t] = "trylock" => loc[t].by = "trylock" /\ ~loc[t].same
       /\ pc[t] \in {"idle", "peek"} => ~loc[t].same

\* The locks with a version: the version counts the releases and does not wrap around, so
\* a thread whose version is the present one has read what is there, or a holder has
\* changed the data and will count the version up.
Active == {t \in Threads : pc[t] \notin {"idle", "unlock"}}

Versions ==
  /\ word.version + Cardinality(Active) <= MaxVersion + Cardinality(Threads)
  /\ \A t \in Threads : loc[t].ol_old.version <= word.version
  /\ \A t \in Threads :
       pc[t] \notin {"idle", "peek", "wrote", "unlock", "dead"} =>
         \/ loc[t].snap = data
         \/ loc[t].ol_old.version < word.version
         \/ \E u \in Threads : pc[u] = "wrote"

\* The other locks compare no version.
NeverSame == \A t \in Threads : ~loc[t].same

IInv ==
  /\ Types
  /\ kind \in {"TAS", "TTAS"} => SpinInv
  /\ kind = "TICKET" => TicketInv
  /\ kind = "MCS" => McsInv
  /\ kind = "OPTIK_TICKET" => QueueInv
  /\ kind = "OPTIK_TICKET_TRY" => TryInv
  /\ kind = "OPTIK_TICKET_DELETE" => DeleteInv
  /\ kind = "OPTIK_SEPARATE" => SeparateInv
  /\ kind \in Versioned => Versions /\ ValidatedLockIsFresh
  /\ kind \notin Versioned => NeverSame

-----------------------------------------------------------------------------
(* Types.                                                                  *)

\* The types hold at first.
LEMMA TypesInit == Init => Types
<1> SUFFICES ASSUME Init PROVE Types
  OBVIOUS
<1>1. NoWord \in Words
  BY Constants DEF NoWord, Words
<1>2. NoLocals \in Locals
  BY <1>1, Constants DEF NoLocals, Locals, Labels
<1>3. "idle" \in Labels
  BY DEF Labels
<1>4. QED BY <1>1, <1>2, <1>3 DEF Init, Types

\* The types after a step of t, from the types of what it changes.
LEMMA TypesStep ==
  ASSUME Types, NEW t \in Threads, NEW to \in Labels, pc' = [pc EXCEPT ![t] = to],
         UNCHANGED kind, word' \in Words, data' \in Nat,
         qnode' \in [Threads -> [waiting : BOOLEAN, next : Threads \cup {NoThread}]],
         NEW l \in Locals, loc' = [loc EXCEPT ![t] = l]
  PROVE  Types'
BY DEF Types

\* The local variables of a thread after an assignment to one of them.
LEMMA LocalsUpdates ==
  ASSUME NEW l \in Locals
  PROVE  /\ NoLocals \in Locals
         /\ \A n \in Tickets : [l EXCEPT !.ticket = n] \in Locals /\ [l EXCEPT !.ticket = n].ticket = n
         /\ \A f \in Labels : [l EXCEPT !.by = f] \in Locals
         /\ \A b \in BOOLEAN : [l EXCEPT !.same = b] \in Locals
         /\ \A w \in Words : [l EXCEPT !.ol_old = w] \in Locals
         /\ \A u \in Threads \cup {NoThread} : [l EXCEPT !.pred = u] \in Locals
         /\ \A d \in Nat, f \in Labels : [[l EXCEPT !.snap = d] EXCEPT !.by = f] \in Locals
<1>1. NoLocals \in Locals
  BY Constants DEF NoLocals, Locals, NoWord, Words, Labels
<1>2. QED BY <1>1 DEF Locals

\* A step that only looks keeps the types.
LEMMA LooksTypes ==
  ASSUME Types, NEW t \in Threads, NEW from, NEW to \in Labels, Looks(t, from, to)
  PROVE  Types'
BY DEF Types, Looks, Goto

\* The call of a function keeps the types.
LEMMA CallsTypes ==
  ASSUME Types, NEW t \in Threads, NEW f \in Labels, Calls(t, f)
  PROVE  Types'
<1>1. [loc[t] EXCEPT !.by = f] \in Locals
  BY LocalsUpdates DEF Types
<1>2. QED BY <1>1, TypesStep DEF Types, Calls, Goto

\* Getting the lock at once keeps the types.
LEMMA GetsTypes ==
  ASSUME Types, NEW t \in Threads, NEW from, NEW w \in Words, Gets(t, from, w)
  PROVE  Types'
<1>1. "crit" \in Labels
  BY DEF Labels
<1>2. QED BY <1>1 DEF Types, Gets, Goto

\* Leaving a call keeps the types.
LEMMA LeavesTypes ==
  ASSUME Types, NEW t \in Threads, NEW from, Leaves(t, from), word' \in Words
  PROVE  Types'
<1>1. NoLocals \in Locals
  BY LocalsUpdates DEF Types
<1>2. "idle" \in Labels
  BY DEF Labels
<1>3. QED BY <1>1, <1>2, TypesStep DEF Types, Leaves, Goto

-----------------------------------------------------------------------------
(* TAS and TTAS.                                                           *)

\* The lock word is set exactly while a thread has the lock.
LEMMA SpinKeeps ==
  ASSUME Types, SpinInv, kind \in {"TAS", "TTAS"}, NEW t \in Threads, Call(t) \/ SpinStep(t)
  PROVE  Types' /\ SpinInv'
<1>1. CASE Call(t)
  <2>1. PICK f \in {"lock", "trylock"} : Calls(t, f)
    BY <1>1 DEF Call, Versioned
  <2>2. f \in Labels
    BY DEF Labels
  <2>3. Types'
    BY <2>1, <2>2, CallsTypes
  <2>4. QED BY <2>1, <2>3 DEF Calls, Goto, SpinInv, Within, Owned, Types
<1>2. ASSUME NEW to \in {"lock", "lock_cas"}, NEW from \in {"lock", "lock_cas"}, Looks(t, from, to)
      PROVE  Types' /\ SpinInv'
  <2>1. Types'
    BY <1>2, LooksTypes DEF Labels
  <2>2. QED BY <1>2, <2>1 DEF Looks, Goto, SpinInv, Within, Owned, Types
<1>3. ASSUME NEW from, Gets(t, from, [word EXCEPT !.lock = 1]), word.lock = 0
      PROVE  Types' /\ SpinInv'
  <2>1. [word EXCEPT !.lock = 1] \in Words /\ [word EXCEPT !.lock = 1].lock = 1
    BY DEF Types, Words
  <2>2. Types'
    BY <1>3, <2>1, GetsTypes
  <2>3. QED BY <1>3, <2>1, <2>2 DEF Gets, Goto, SpinInv, Within, Owned, Types
<1>4. ASSUME GivesUp(t, "trylock")
      PROVE  Types' /\ SpinInv'
  <2>1. Types'
    BY <1>4, LeavesTypes DEF GivesUp, Types
  <2>2. QED BY <1>4, <2>1 DEF GivesUp, Leaves, Goto, SpinInv, Within, Owned, Types
<1>5. ASSUME unlock(t)
      PROVE  Types' /\ SpinInv'
  <2>1. [word EXCEPT !.lock = 0] \in Words /\ [word EXCEPT !.lock = 0].lock = 0
    BY DEF Types, Words
  <2>2. word' = [word EXCEPT !.lock = 0] /\ Leaves(t, "crit")
    BY <1>5 DEF unlock, Unlocks, TAS_FREE
  <2>3. Types'
    BY <2>1, <2>2, LeavesTypes
  <2>4. QED BY <2>1, <2>2, <2>3 DEF Leaves, Goto, SpinInv, Within, Owned, Types
<1>6. word.lock \in {0, 1}
  BY DEF Types, Words
<1>7. QED
  BY <1>1, <1>2, <1>3, <1>4, <1>5, <1>6
     DEF SpinStep, tas_lock, tas_lock_passes, tas_locked, ttas_lock, trylock, TTAS_FREE, TTAS_LCKD,
         TAS_FREE, TAS_LCKD

-----------------------------------------------------------------------------
(* TICKET.                                                                 *)

\* The ticket lock keeps its queue of tickets.
LEMMA TicketKeeps ==
  ASSUME Types, TicketInv, kind = "TICKET", NEW t \in Threads, Call(t) \/ TicketStep(t)
  PROVE  Types' /\ TicketInv'
<1> DEFINE W == {"wait"}
           C == {"crit"}
<1>0. /\ W \cap C = {} /\ word.curr \in Tickets /\ word.ticket \in Tickets
      /\ pc \in [Threads -> Labels]
      /\ TicketQueue(queue, pc, loc, word.ticket, word.curr, W, C)
      /\ {"idle", "lock", "trylock", "try_cas", "wait", "crit"} \subseteq Labels
  BY DEF Types, Words, TicketInv, Labels
\* A step of t inside the program that keeps the queue and leaves the types.
<1>k. ASSUME NEW to \in {"idle", "lock", "trylock", "try_cas", "wait", "crit"},
             pc' = [pc EXCEPT ![t] = to], Types',
             TicketQueue(queue', [pc EXCEPT ![t] = to], loc', word'.ticket, word'.curr, W, C)
      PROVE  TicketInv'
  BY <1>k DEF TicketInv, Within, Types
\* A step of t outside the queue.
<1>o. ASSUME NEW to \in {"idle", "lock", "trylock", "try_cas"}, pc[t] \notin W \cup C,
             pc' = [pc EXCEPT ![t] = to], UNCHANGED <<word, queue>>, Types',
             \A u \in Threads \ {t} : loc'[u].ticket = loc[u].ticket
      PROVE  TicketInv'
  <2>1. TicketQueue(queue, [pc EXCEPT ![t] = to], loc', word.ticket, word.curr, W, C)
    BY <1>0, <1>o, KeepTicket
  <2>2. QED BY <1>k, <1>o, <2>1
<1>1. CASE Call(t)
  <2>1. PICK f \in {"lock", "trylock"} : Calls(t, f)
    BY <1>1 DEF Call, Versioned
  <2>2. Types'
    BY <2>1, CallsTypes DEF Labels
  <2>3. \A u \in Threads \ {t} : loc'[u].ticket = loc[u].ticket
    BY <2>1 DEF Calls, Types
  <2>4. QED BY <1>o, <2>1, <2>2, <2>3 DEF Calls, Goto
<1>2. ASSUME NEW from \in {"trylock", "try_cas"}, GivesUp(t, from)
      PROVE  Types' /\ TicketInv'
  <2>1. Types'
    BY <1>2, LeavesTypes DEF GivesUp, Types
  <2>2. \A u \in Threads \ {t} : loc'[u].ticket = loc[u].ticket
    BY <1>2 DEF GivesUp, Leaves, Types
  <2>3. QED BY <1>o, <1>2, <2>1, <2>2 DEF GivesUp, Leaves, Goto
<1>3. ASSUME ticket_lock(t), pc[t] = "lock"
      PROVE  Types' /\ TicketInv'
  <2>1. /\ pc' = [pc EXCEPT ![t] = "wait"]
        /\ loc' = [loc EXCEPT ![t].ticket = word.ticket]
        /\ word' = [word EXCEPT !.ticket = inc(@)]
        /\ queue' = Append(queue, t)
        /\ UNCHANGED <<kind, qnode, data>>
    BY <1>3 DEF ticket_lock, Goto, Looks
  <2>2. word' \in Words /\ word'.ticket = inc(word.ticket) /\ word'.curr = word.curr
    BY <1>0, <2>1, Counting DEF Types, Words
  <2>3. [loc[t] EXCEPT !.ticket = word.ticket] \in Locals
    BY <1>0, LocalsUpdates DEF Types
  <2>4. Types'
    BY <1>0, <2>1, <2>2, <2>3, TypesStep DEF Types
  <2>5. loc'[t].ticket = word.ticket /\ \A u \in Threads \ {t} : loc'[u].ticket = loc[u].ticket
    BY <2>1 DEF Types, Locals
  <2>6. pc[t] \notin W \cup C /\ "wait" \in W
    BY <1>3
  <2>7. TicketQueue(Append(queue, t), [pc EXCEPT ![t] = "wait"], loc', inc(word.ticket), word.curr, W, C)
    <3> HIDE DEF W, C
    <3>1. QED BY <1>0, <2>5, <2>6, DrawTicket
  <2>8. QED BY <1>k, <2>1, <2>2, <2>4, <2>7
<1>4. ASSUME loc[t].ticket = word.curr, Looks(t, "wait", "crit")
      PROVE  Types' /\ TicketInv'
  <2>1. Types'
    BY <1>0, <1>4, LooksTypes
  <2>2. TicketQueue(queue, [pc EXCEPT ![t] = "crit"], loc, word.ticket, word.curr, W, C)
    BY <1>0, <1>4, ServeTicket DEF Looks, Goto
  <2>3. QED BY <1>k, <1>4, <2>1, <2>2 DEF Looks, Goto
<1>5. ASSUME Goto(t, "trylock", "try_cas"), loc' = [loc EXCEPT ![t].ticket = word.ticket],
             UNCHANGED <<kind, word, qnode, data, queue>>
      PROVE  Types' /\ TicketInv'
  <2>1. [loc[t] EXCEPT !.ticket = word.ticket] \in Locals
    BY <1>0, LocalsUpdates DEF Types
  <2>2. Types'
    BY <1>0, <1>5, <2>1, TypesStep DEF Types, Goto
  <2>3. \A u \in Threads \ {t} : loc'[u].ticket = loc[u].ticket
    BY <1>5 DEF Types
  <2>4. QED BY <1>o, <1>5, <2>2, <2>3 DEF Goto
<1>6. ASSUME word.curr = word.ticket, Gets(t, "try_cas", [word EXCEPT !.ticket = inc(@)])
      PROVE  Types' /\ TicketInv'
  <2>1. [word EXCEPT !.ticket = inc(@)] \in Words
    BY <1>0, Counting DEF Types, Words
  <2>2. word'.ticket = inc(word.ticket) /\ word'.curr = word.curr
    BY <1>6 DEF Gets, Types, Words
  <2>3. Types'
    BY <1>6, <2>1, GetsTypes
  <2>4. pc[t] \notin W \cup C /\ "crit" \in C
    BY <1>6 DEF Gets, Goto
  <2>5. TicketQueue(Append(queue, t), [pc EXCEPT ![t] = "crit"], loc', inc(word.ticket), word.curr, W, C)
    <3> HIDE DEF W, C
    <3>1. QED BY <1>0, <1>6, <2>4, TryTicket
  <2>6. QED BY <1>k, <1>6, <2>2, <2>3, <2>5 DEF Gets, Goto
<1>7. ASSUME ticket_unlock(t)
      PROVE  Types' /\ TicketInv'
  <2>1. Leaves(t, "crit") /\ word' = [word EXCEPT !.curr = inc(@)] /\ queue' = Tail(queue)
    BY <1>7 DEF ticket_unlock, Unlocks
  <2>2. word' \in Words /\ word'.curr = inc(word.curr) /\ word'.ticket = word.ticket
    BY <1>0, <2>1, Counting DEF Types, Words
  <2>3. Types'
    BY <2>1, <2>2, LeavesTypes
  <2>4. \A u \in Threads \ {t} : loc'[u].ticket = loc[u].ticket
    BY <2>1 DEF Leaves, Types
  <2>5. pc[t] \in C /\ "idle" \notin W \cup C
    BY <2>1 DEF Leaves, Goto
  <2>6. TicketQueue(Tail(queue), [pc EXCEPT ![t] = "idle"], loc', word.ticket, inc(word.curr), W, C)
    <3> HIDE DEF W, C
    <3>1. QED BY <1>0, <2>4, <2>5, NextTicket
  <2>7. QED BY <1>k, <2>1, <2>2, <2>3, <2>6 DEF Leaves, Goto
<1>8. QED
  BY <1>1, <1>2, <1>3, <1>4, <1>5, <1>6, <1>7 DEF TicketStep, ticket_lock, ticket_trylock, Goto

-----------------------------------------------------------------------------
(* MCS.                                                                    *)

\* A thread goes on outside the queue.
LEMMA McsOutside ==
  ASSUME Types, McsInv, NEW t \in Threads, pc[t] \notin Joining \cup Unlocking,
         NEW to \in {"idle", "lock", "trylock", "try_cas"}, pc' = [pc EXCEPT ![t] = to],
         UNCHANGED <<word, queue>>,
         \A u \in Threads \ {t} : qnode'[u] = qnode[u] /\ loc'[u] = loc[u],
         to = "try_cas" => qnode'[t].next = NoThread
  PROVE  McsInv'
<1>1. to \notin Joining \cup Unlocking
  BY DEF Joining, Unlocking
<1>2. Queue(queue, pc, Joining \cup Unlocking) /\ pc \in [Threads -> Labels]
  BY DEF McsInv, Types
<1>3. Queue(queue, [pc EXCEPT ![t] = to], Joining \cup Unlocking)
  BY <1>1, <1>2, QueueStay
<1>4. \A i \in 1..Len(queue) : queue[i] \in Threads \ {t}
  BY <1>2 DEF Queue
<1>5. \A i \in 1..Len(queue) : pc'[queue[i]] = pc[queue[i]] /\ qnode'[queue[i]] = qnode[queue[i]]
                               /\ loc'[queue[i]] = loc[queue[i]]
  BY <1>2, <1>4
<1>6. ASSUME NEW i \in 1..Len(queue) PROVE McsPlace(i)'
  <2>1. McsPlace(i)
    BY DEF McsInv
  <2>2. Len(queue) \in Nat
    BY <1>2 DEF Queue
  <2>3. i < Len(queue) => i + 1 \in 1..Len(queue)
    BY <2>2
  <2>4. 1 \in 1..Len(queue)
    BY <2>2
  <2>5. QED BY <1>5, <2>1, <2>3, <2>4 DEF McsPlace
<1>7. Within({"idle", "lock", "trylock", "try_cas"} \cup Joining \cup Unlocking)'
  BY <1>2 DEF McsInv, Within
<1>8. \A u \in Threads : pc'[u] = "try_cas" => qnode'[u].next = NoThread
  BY <1>2 DEF McsInv
<1>9. QED BY <1>3, <1>6, <1>7, <1>8 DEF McsInv

\* The thread at the head has the lock, or goes on with it.
LEMMA McsHead ==
  ASSUME Types, McsInv, NEW t \in Threads, 1 \in 1..Len(queue), queue[1] = t,
         NEW to \in Unlocking, pc' = [pc EXCEPT ![t] = to],
         UNCHANGED <<word, queue, qnode, loc>>,
         to = "unlock_wake" => qnode[t].next # NoThread
  PROVE  McsInv'
<1>1. to \in Joining \cup Unlocking /\ to # "mcs_spin" /\ to # "try_cas"
  BY DEF Joining, Unlocking
<1>2. Queue(queue, pc, Joining \cup Unlocking) /\ pc \in [Threads -> Labels]
  BY DEF McsInv, Types
<1>3. pc[t] \in Joining \cup Unlocking
  BY <1>2 DEF Queue
<1>4. Queue(queue, [pc EXCEPT ![t] = to], Joining \cup Unlocking)
  BY <1>1, <1>2, <1>3, QueueStay
<1>5. \A i \in 1..Len(queue) : queue[i] \in Threads /\ (i # 1 => queue[i] # t /\ pc'[queue[i]] = pc[queue[i]])
  BY <1>2 DEF Queue
<1>6. ASSUME NEW i \in 1..Len(queue) PROVE McsPlace(i)'
  <2>1. McsPlace(i)
    BY DEF McsInv
  <2>2. Len(queue) \in Nat
    BY <1>2 DEF Queue
  <2>3. i < Len(queue) => i + 1 \in 1..Len(queue) /\ i + 1 # 1
    BY <2>2
  <2>4. i < Len(queue) => pc'[queue[i + 1]] = pc[queue[i + 1]]
    BY <1>5, <2>3
  <2>5. CASE i = 1
    BY <1>2, <2>1, <2>4, <2>5 DEF McsPlace
  <2>6. CASE i # 1
    BY <1>5, <2>1, <2>4, <2>6 DEF McsPlace
  <2>7. QED BY <2>5, <2>6
<1>7. Within({"idle", "lock", "trylock", "try_cas"} \cup Joining \cup Unlocking)'
  BY <1>2 DEF McsInv, Within
<1>8. \A u \in Threads : pc'[u] = "try_cas" => qnode'[u].next = NoThread
  BY <1>1, <1>2 DEF McsInv
<1>9. QED BY <1>4, <1>6, <1>7, <1>8 DEF McsInv

\* Only the head can be past its wait.
LEMMA McsHolder ==
  ASSUME Types, McsInv, NEW t \in Threads,
         pc[t] \in Unlocking \/ (pc[t] = "mcs_spin" /\ ~qnode[t].waiting)
  PROVE  1 \in 1..Len(queue) /\ queue[1] = t /\ Len(queue) \in Nat
<1>1. Queue(queue, pc, Joining \cup Unlocking)
  BY DEF McsInv
<1>2. pc[t] \in Joining \cup Unlocking
  BY DEF Joining
<1>3. PICK i \in 1..Len(queue) : queue[i] = t
  BY <1>1, <1>2 DEF Queue
<1>4. McsPlace(i) /\ Len(queue) \in Nat
  BY <1>1 DEF McsInv, Queue
<1>5. i = 1
  BY <1>3, <1>4 DEF McsPlace, Joining, Unlocking
<1>6. QED BY <1>3, <1>4, <1>5

\* A thread swaps its node in at the end.
LEMMA McsAppend ==
  ASSUME Types, McsInv, NEW t \in Threads, pc[t] \in {"lock", "try_cas"},
         NEW to, to = IF Len(queue) = 0 THEN "crit" ELSE "mcs_wait",
         pc' = [pc EXCEPT ![t] = to], queue' = Append(queue, t), word'.next = t,
         \A u \in Threads \ {t} : qnode'[u] = qnode[u] /\ loc'[u] = loc[u],
         qnode'[t].next = NoThread, Len(queue) > 0 => loc'[t].pred = word.next
  PROVE  McsInv'
<1>0. PICK n \in Nat : n = Len(queue)
  BY DEF McsInv, Queue
<1>1. to \in Joining \cup Unlocking /\ to # "mcs_spin" /\ to # "unlock_wake" /\ to # "try_cas"
  BY DEF Joining, Unlocking
<1>2. Queue(queue, pc, Joining \cup Unlocking) /\ pc \in [Threads -> Labels]
  BY DEF McsInv, Types
<1>3. pc[t] \notin Joining \cup Unlocking
  BY DEF Joining, Unlocking
<1>4. Queue(queue', pc', Joining \cup Unlocking)
  BY <1>1, <1>2, <1>3, QueueAppend
<1>5. /\ queue \in Seq(Threads) /\ Len(queue) = n
      /\ Len(queue') = n + 1 /\ queue'[n + 1] = t
      /\ \A i \in 1..n : queue'[i] = queue[i]
  BY <1>0, <1>2, AppendProperties DEF Queue
<1>6. \A i \in 1..n : queue[i] \in Threads \ {t}
  BY <1>0, <1>2, <1>3 DEF Queue
<1>7. /\ pc'[t] = to
      /\ \A i \in 1..n : /\ pc'[queue'[i]] = pc[queue[i]] /\ qnode'[queue'[i]] = qnode[queue[i]]
                         /\ loc'[queue'[i]] = loc[queue[i]]
  BY <1>2, <1>5, <1>6
<1>8. ASSUME NEW i \in 1..n PROVE McsPlace(i)'
  <2>1. McsPlace(i)
    BY <1>0 DEF McsInv
  <2>2. 1 \in 1..n
    BY <1>5
  <2>3. CASE i < n
    <3>1. i + 1 \in 1..n /\ i - 1 \in 0..n /\ i < n + 1
      BY <1>5, <2>3
    <3>2. i > 1 => i - 1 \in 1..n
      BY <1>5, <3>1
    <3>3. QED BY <1>5, <1>7, <2>1, <2>2, <2>3, <3>1, <3>2 DEF McsPlace
  <2>4. CASE i = n
    <3>1. i > 1 => i - 1 \in 1..n
      BY <1>5, <2>4
    <3>2. qnode[queue[i]].next = NoThread
      BY <1>5, <2>1, <2>4 DEF McsPlace
    <3>3. qnode'[queue'[i]].next = NoThread /\ pc'[queue'[i + 1]] # "mcs_spin"
      BY <1>1, <1>5, <1>7, <2>4, <3>2
    <3>4. QED BY <1>5, <1>7, <2>1, <2>2, <3>1, <3>3 DEF McsPlace
  <2>5. QED BY <1>5, <2>3, <2>4
<1>9. McsPlace(n + 1)'
  <2>1. n > 0 => word.next = queue[n] /\ queue'[n] = queue[n]
    BY <1>5 DEF McsInv
  <2>2. CASE n = 0
    BY <1>1, <1>5, <1>7, <2>2 DEF McsPlace, Unlocking
  <2>3. CASE n > 0
    BY <1>1, <1>5, <1>7, <2>1, <2>3 DEF McsPlace, Joining
  <2>4. QED BY <1>5, <2>2, <2>3
<1>10. \A i \in 1..Len(queue') : McsPlace(i)'
  <2>1. \A i \in 1..Len(queue') : i \in 1..n \/ i = n + 1
    BY <1>5
  <2>2. QED BY <1>8, <1>9, <2>1
<1>11. Within({"idle", "lock", "trylock", "try_cas"} \cup Joining \cup Unlocking)'
  BY <1>1, <1>2 DEF McsInv, Within
<1>12. \A u \in Threads : pc'[u] = "try_cas" => qnode'[u].next = NoThread
  BY <1>1, <1>2 DEF McsInv
<1>13. word'.next = IF Len(queue') = 0 THEN NoThread ELSE queue'[Len(queue')]
  BY <1>5
<1>14. QED BY <1>4, <1>10, <1>11, <1>12, <1>13 DEF McsInv

\* A thread behind the head sets the word it spins on.
LEMMA McsWait ==
  ASSUME Types, McsInv, NEW t \in Threads, pc[t] = "mcs_wait", pc' = [pc EXCEPT ![t] = "mcs_link"],
         qnode' = [qnode EXCEPT ![t].waiting = TRUE], UNCHANGED <<word, queue, loc>>
  PROVE  McsInv'
<1>1. {"mcs_wait", "mcs_link"} \subseteq Joining
  BY DEF Joining
<1>2. Queue(queue, pc, Joining \cup Unlocking) /\ pc \in [Threads -> Labels]
  BY DEF McsInv, Types
<1>3. Queue(queue', pc', Joining \cup Unlocking)
  BY <1>1, <1>2, QueueStay
<1>4. /\ qnode'[t].waiting /\ pc'[t] = "mcs_link"
      /\ \A u \in Threads : qnode'[u].next = qnode[u].next
      /\ \A u \in Threads \ {t} : qnode'[u] = qnode[u] /\ pc'[u] = pc[u]
  BY DEF Types
<1>5. /\ Len(queue) \in Nat /\ \A i \in 1..Len(queue) : queue[i] \in Threads
  BY <1>2 DEF Queue
<1>6. ASSUME NEW i \in 1..Len(queue) PROVE McsPlace(i)'
  <2>1. McsPlace(i)
    BY DEF McsInv
  <2>2. queue[i] \in Threads /\ queue[1] \in Threads /\ (i < Len(queue) => queue[i + 1] \in Threads)
    BY <1>5
  <2>3. queue[1] # t
    <3>1. 1 \in 1..Len(queue)
      BY <1>5
    <3>2. McsPlace(1)
      BY <3>1 DEF McsInv
    <3>3. QED BY <3>2 DEF McsPlace, Unlocking
  <2>4. QED BY <1>1, <1>4, <2>1, <2>2, <2>3 DEF McsPlace
<1>7. Within({"idle", "lock", "trylock", "try_cas"} \cup Joining \cup Unlocking)'
  BY <1>1, <1>2 DEF McsInv, Within
<1>8. QED BY <1>3, <1>4, <1>6, <1>7 DEF McsInv

\* A thread behind the head links its node to its predecessor.
LEMMA McsLink ==
  ASSUME Types, McsInv, NEW t \in Threads, pc[t] = "mcs_link", pc' = [pc EXCEPT ![t] = "mcs_spin"],
         qnode' = [qnode EXCEPT ![loc[t].pred].next = t], UNCHANGED <<word, queue, loc>>
  PROVE  McsInv'
<1>1. {"mcs_spin", "mcs_link"} \subseteq Joining /\ "mcs_link" \notin Unlocking
  BY DEF Joining, Unlocking
<1>2. Queue(queue, pc, Joining \cup Unlocking) /\ pc \in [Threads -> Labels]
  BY DEF McsInv, Types
<1>3. Queue(queue', pc', Joining \cup Unlocking)
  BY <1>1, <1>2, QueueStay
<1>4. PICK k \in 1..Len(queue) : queue[k] = t
  BY <1>1, <1>2 DEF Queue
<1>5. /\ Len(queue) \in Nat /\ \A i \in 1..Len(queue) : queue[i] \in Threads
      /\ \A i, j \in 1..Len(queue) : queue[i] = queue[j] => i = j
  BY <1>2 DEF Queue
<1>6. k > 1 /\ loc[t].pred = queue[k - 1] /\ qnode[t].waiting /\ k - 1 \in 1..Len(queue)
  <2>1. McsPlace(k)
    BY DEF McsInv
  <2>2. QED BY <1>1, <1>4, <1>5, <2>1 DEF McsPlace
<1>7. /\ qnode'[queue[k - 1]].next = t
      /\ \A u \in Threads : qnode'[u].waiting = qnode[u].waiting
      /\ \A u \in Threads \ {queue[k - 1]} : qnode'[u] = qnode[u]
      /\ pc'[t] = "mcs_spin"
      /\ \A u \in Threads \ {t} : pc'[u] = pc[u]
  BY <1>5, <1>6 DEF Types
<1>8. ASSUME NEW i \in 1..Len(queue) PROVE McsPlace(i)'
  <2>1. McsPlace(i) /\ 1 \in 1..Len(queue) /\ queue[1] # t
    BY <1>4, <1>5, <1>6 DEF McsInv
  <2>2. i < Len(queue) => i + 1 \in 1..Len(queue)
    BY <1>5
  <2>3. CASE i = k - 1
    <3>1. i + 1 = k /\ i < Len(queue) /\ queue[i] # t
      BY <1>4, <1>5, <1>6, <2>3
    <3>2. QED BY <1>4, <1>5, <1>7, <2>1, <2>3, <3>1, LockAssumption DEF McsPlace
  <2>4. CASE i # k - 1
    <3>1. queue[i] # queue[k - 1] /\ (i < Len(queue) => queue[i + 1] # t)
      BY <1>4, <1>5, <1>6, <2>2, <2>4
    <3>2. qnode'[queue[i]] = qnode[queue[i]] /\ (i < Len(queue) => pc'[queue[i + 1]] = pc[queue[i + 1]])
      BY <1>5, <1>7, <2>2, <3>1
    <3>3. CASE i = k
      BY <1>1, <1>4, <1>5, <1>6, <1>7, <2>1, <3>2, <3>3 DEF McsPlace
    <3>4. CASE i # k
      <4>1. pc'[queue[i]] = pc[queue[i]]
        BY <1>4, <1>5, <1>7, <3>4
      <4>2. QED BY <2>1, <3>2, <4>1 DEF McsPlace
    <3>5. QED BY <3>3, <3>4
  <2>5. QED BY <2>3, <2>4
<1>9. Within({"idle", "lock", "trylock", "try_cas"} \cup Joining \cup Unlocking)'
  BY <1>1, <1>2 DEF McsInv, Within
<1>10. ASSUME NEW u \in Threads, pc'[u] = "try_cas" PROVE qnode'[u].next = NoThread
  <2>1. pc[u] = "try_cas" /\ qnode[u].next = NoThread
    BY <1>7, <1>10 DEF McsInv
  <2>2. u # queue[k - 1]
    BY <1>2, <1>6, <2>1 DEF Queue, Joining, Unlocking
  <2>3. QED BY <1>7, <2>1, <2>2
<1>11. QED BY <1>3, <1>8, <1>9, <1>10 DEF McsInv

\* A holder without a successor leaves the queue empty.
LEMMA McsFree ==
  ASSUME Types, McsInv, NEW t \in Threads, pc[t] = "unlock_cas", word.next = t,
         pc' = [pc EXCEPT ![t] = "idle"], queue' = Tail(queue), word'.next = NoThread,
         UNCHANGED qnode
  PROVE  McsInv'
<1>1. /\ Queue(queue, pc, Joining \cup Unlocking) /\ pc \in [Threads -> Labels]
      /\ "unlock_cas" \in Unlocking /\ "idle" \notin Joining \cup Unlocking
  BY DEF McsInv, Types, Unlocking, Joining
<1>2. 1 \in 1..Len(queue) /\ queue[1] = t /\ Len(queue) \in Nat
  BY <1>1, McsHolder
<1>3. Len(queue) = 1
  <2>1. PICK n \in Nat : n = Len(queue)
    BY <1>2
  <2>2. queue[n] = t /\ n \in 1..n /\ 1 \in 1..n
    BY <1>2, <2>1 DEF McsInv
  <2>3. \A i, j \in 1..n : queue[i] = queue[j] => i = j
    BY <1>1, <2>1 DEF Queue
  <2>4. QED BY <1>2, <2>1, <2>2, <2>3
<1>4. Queue(queue', pc', Joining \cup Unlocking) /\ Len(queue') = Len(queue) - 1
  BY <1>1, <1>2, QueueTail
<1>5. Len(queue') = 0
  BY <1>3, <1>4
<1>6. Within({"idle", "lock", "trylock", "try_cas"} \cup Joining \cup Unlocking)'
  BY <1>1 DEF McsInv, Within
<1>7. \A u \in Threads : pc'[u] = "try_cas" => qnode'[u].next = NoThread
  BY <1>1 DEF McsInv
<1>8. QED BY <1>4, <1>5, <1>6, <1>7 DEF McsInv

\* A holder wakes its successor, which is now the head.
LEMMA McsWake ==
  ASSUME Types, McsInv, NEW t \in Threads, pc[t] = "unlock_wake",
         pc' = [pc EXCEPT ![t] = "idle"], queue' = Tail(queue), UNCHANGED word,
         qnode' = [qnode EXCEPT ![qnode[t].next].waiting = FALSE],
         \A u \in Threads \ {t} : loc'[u] = loc[u]
  PROVE  McsInv'
<1>1. /\ Queue(queue, pc, Joining \cup Unlocking) /\ pc \in [Threads -> Labels]
      /\ "unlock_wake" \in Unlocking /\ "idle" \notin Joining \cup Unlocking
  BY DEF McsInv, Types, Unlocking, Joining
<1>2. 1 \in 1..Len(queue) /\ queue[1] = t
  BY <1>1, McsHolder
<1>3. PICK n \in Nat : n = Len(queue)
  BY <1>1 DEF Queue
<1>4. 1 < n /\ qnode[t].next = queue[2] /\ pc[queue[2]] = "mcs_spin"
  <2>1. McsPlace(1)
    BY <1>2 DEF McsInv
  <2>2. QED BY <1>2, <1>3, <2>1 DEF McsPlace
<1>5. /\ \A i \in 1..n : queue[i] \in Threads
      /\ \A i, j \in 1..n : queue[i] = queue[j] => i = j
  BY <1>1, <1>3 DEF Queue
<1>6. /\ Queue(queue', pc', Joining \cup Unlocking) /\ Len(queue') = n - 1
      /\ \A i \in 1..(n - 1) : queue'[i] = queue[i + 1]
  BY <1>1, <1>2, <1>3, QueueTail
<1>7. \A i \in 1..n : i # 1 => pc'[queue[i]] = pc[queue[i]] /\ loc'[queue[i]] = loc[queue[i]]
  BY <1>1, <1>2, <1>3, <1>5
<1>8. /\ queue[2] \in Threads /\ ~qnode'[queue[2]].waiting
      /\ \A u \in Threads : qnode'[u].next = qnode[u].next
      /\ \A u \in Threads \ {queue[2]} : qnode'[u] = qnode[u]
  BY <1>4, <1>5 DEF Types
<1>9. ASSUME NEW i \in 1..(n - 1) PROVE McsPlace(i)'
  <2>1. PICK k \in 2..n : k = i + 1
    BY <1>3, <1>9
  <2>2. McsPlace(k) /\ queue'[i] = queue[k] /\ queue[k] \in Threads /\ k # 1 /\ k \in 1..n
    BY <1>3, <1>5, <1>6, <2>1 DEF McsInv
  <2>3. i < n - 1 => k < n /\ queue'[i + 1] = queue[k + 1] /\ pc'[queue[k + 1]] = pc[queue[k + 1]]
    <3>1. i < n - 1 => k < n /\ i + 1 \in 1..(n - 1) /\ i + 1 + 1 = k + 1 /\ k + 1 \in 1..n /\ k + 1 # 1
      BY <1>3, <2>1
    <3>2. QED BY <1>6, <1>7, <3>1
  <2>4. ~(i < n - 1) => ~(k < n)
    BY <1>3, <2>1
  <2>5. pc[queue[k]] \in Joining /\ pc'[queue[k]] = pc[queue[k]] /\ loc'[queue[k]] = loc[queue[k]]
    BY <1>7, <2>2 DEF McsPlace
  <2>6. pc'[queue'[i]] # "unlock_wake"
    BY <2>2, <2>5 DEF Joining
  <2>7. qnode'[queue'[i]].next = IF i < n - 1 /\ pc'[queue'[i + 1]] = "mcs_spin"
                                   THEN queue'[i + 1] ELSE NoThread
    BY <1>3, <1>8, <2>2, <2>3, <2>4 DEF McsPlace
  <2>8. CASE i = 1
    <3>0. k = 2
      BY <2>1, <2>8
    <3>1. queue'[1] = queue[2]
      BY <2>2, <2>8, <3>0
    <3>2. QED BY <1>4, <1>6, <1>8, <2>5, <2>6, <2>7, <2>8, <2>1, <3>1 DEF McsPlace
  <2>9. CASE i # 1
    <3>0. k # 2 /\ 2 \in 1..n /\ i - 1 \in 1..(n - 1) /\ (i - 1) + 1 = k - 1 /\ k > 1
      BY <1>4, <2>1, <2>9
    <3>1. queue[k] # queue[2]
      BY <1>5, <2>2, <3>0
    <3>2. queue'[i - 1] = queue[k - 1]
      BY <1>6, <3>0
    <3>3. qnode'[queue'[i]] = qnode[queue[k]]
      BY <1>8, <2>2, <3>1
    <3>4. /\ pc'[queue'[i]] \in Joining
          /\ pc'[queue'[i]] # "mcs_wait" => qnode'[queue'[i]].waiting
          /\ loc'[queue'[i]].pred = queue'[i - 1]
      BY <2>2, <2>5, <3>0, <3>2, <3>3 DEF McsPlace
    <3>5. QED BY <1>6, <2>6, <2>7, <2>9, <3>4 DEF McsPlace
  <2>10. QED BY <2>8, <2>9
<1>10. word'.next = IF Len(queue') = 0 THEN NoThread ELSE queue'[Len(queue')]
  <2>1. n - 1 \in 1..(n - 1) /\ (n - 1) + 1 = n
    BY <1>3, <1>4
  <2>2. QED BY <1>3, <1>4, <1>6, <2>1 DEF McsInv
<1>11. Within({"idle", "lock", "trylock", "try_cas"} \cup Joining \cup Unlocking)'
  BY <1>1 DEF McsInv, Within
<1>12. \A u \in Threads : pc'[u] = "try_cas" => qnode'[u].next = NoThread
  BY <1>1, <1>8 DEF McsInv
<1>13. QED BY <1>6, <1>9, <1>10, <1>11, <1>12 DEF McsInv

\* The MCS lock keeps its queue of nodes.
LEMMA McsKeeps ==
  ASSUME Types, McsInv, kind = "MCS", NEW t \in Threads, Call(t) \/ McsStep(t)
  PROVE  Types' /\ McsInv'
<1>0. /\ pc \in [Threads -> Labels] /\ loc \in [Threads -> Locals] /\ word \in Words
      /\ qnode \in [Threads -> [waiting : BOOLEAN, next : Threads \cup {NoThread}]]
      /\ {"idle", "lock", "trylock", "try_cas", "mcs_wait", "mcs_link", "mcs_spin", "crit",
          "unlock_cas", "unlock_wait", "unlock_wake"} \subseteq Labels
      /\ {"crit", "unlock_cas", "unlock_wait", "unlock_wake"} = Unlocking
      /\ {"idle", "lock", "trylock", "try_cas"} \cap (Joining \cup Unlocking) = {}
  BY DEF Types, Labels, Unlocking, Joining
\* The types, if t only changes queue nodes.
<1>n. ASSUME NEW from, NEW to \in Labels, NEW q, SetNodes(t, from, to, q),
             q \in [Threads -> [waiting : BOOLEAN, next : Threads \cup {NoThread}]]
      PROVE  Types'
  BY <1>n DEF SetNodes, Goto, Types
\* A step of the head that only looks.
<1>h. ASSUME NEW from, NEW to \in Unlocking, Looks(t, from, to),
             from \in Unlocking \/ (from = "mcs_spin" /\ ~qnode[t].waiting),
             to = "unlock_wake" => qnode[t].next # NoThread
      PROVE  Types' /\ McsInv'
  <2>1. Types'
    BY <1>0, <1>h, LooksTypes
  <2>2. 1 \in 1..Len(queue) /\ queue[1] = t
    BY <1>h, McsHolder DEF Looks, Goto
  <2>3. QED BY <1>h, <2>1, <2>2, McsHead DEF Looks, Goto
<1>1. CASE Call(t)
  <2>1. PICK f \in {"lock", "trylock"} : Calls(t, f)
    BY <1>1 DEF Call, Versioned
  <2>2. Types'
    BY <1>0, <2>1, CallsTypes
  <2>3. \A u \in Threads \ {t} : qnode'[u] = qnode[u] /\ loc'[u] = loc[u]
    BY <1>0, <2>1 DEF Calls
  <2>4. pc[t] \notin Joining \cup Unlocking
    BY <1>0, <2>1 DEF Calls, Goto
  <2>5. QED BY <2>1, <2>2, <2>3, <2>4, McsOutside DEF Calls, Goto
<1>2. ASSUME NEW from \in {"trylock", "try_cas"}, GivesUp(t, from)
      PROVE  Types' /\ McsInv'
  <2>1. Types'
    BY <1>2, LeavesTypes DEF GivesUp, Types
  <2>2. \A u \in Threads \ {t} : qnode'[u] = qnode[u] /\ loc'[u] = loc[u]
    BY <1>0, <1>2 DEF GivesUp, Leaves
  <2>3. pc[t] \notin Joining \cup Unlocking
    BY <1>0, <1>2 DEF GivesUp, Leaves, Goto
  <2>4. QED BY <1>2, <2>1, <2>2, <2>3, McsOutside DEF GivesUp, Leaves, Goto
<1>3. ASSUME mcs_swap(t)
      PROVE  Types' /\ McsInv'
  <2>1. Len(queue) \in Nat /\ (word.next = NoThread <=> Len(queue) = 0)
    <3>1. Len(queue) \in Nat /\ (Len(queue) # 0 => queue[Len(queue)] \in Threads)
      BY DEF McsInv, Queue
    <3>2. QED BY <3>1, LockAssumption DEF McsInv
  <2> DEFINE to == IF word.next = NoThread THEN "crit" ELSE "mcs_wait"
  <2>2. /\ pc[t] = "lock" /\ pc' = [pc EXCEPT ![t] = to] /\ to \in Labels
        /\ queue' = Append(queue, t)
        /\ qnode' = [qnode EXCEPT ![t].next = NoThread]
        /\ word' = [word EXCEPT !.next = t]
        /\ loc' = [loc EXCEPT ![t].pred = word.next]
        /\ UNCHANGED <<kind, data>>
    BY <1>0, <1>3 DEF mcs_swap, Goto
  <2>3. to = IF Len(queue) = 0 THEN "crit" ELSE "mcs_wait"
    BY <2>1
  <2> HIDE DEF to
  <2>4. word' \in Words /\ word'.next = t
    BY <1>0, <2>2 DEF Words
  <2>5. /\ qnode' \in [Threads -> [waiting : BOOLEAN, next : Threads \cup {NoThread}]]
        /\ qnode'[t].next = NoThread /\ \A u \in Threads \ {t} : qnode'[u] = qnode[u]
    BY <1>0, <2>2
  <2>6. word.next \in Threads \cup {NoThread}
    BY <1>0 DEF Words
  <2>7. [loc[t] EXCEPT !.pred = word.next] \in Locals
    BY <1>0, <2>6, LocalsUpdates
  <2>8. loc'[t].pred = word.next /\ \A u \in Threads \ {t} : loc'[u] = loc[u]
    BY <1>0, <2>2 DEF Locals
  <2>9. Types'
    BY <2>2, <2>4, <2>5, <2>7, TypesStep DEF Types
  <2>10. QED BY <2>2, <2>3, <2>4, <2>5, <2>8, <2>9, McsAppend
<1>4. ASSUME SetNodes(t, "mcs_wait", "mcs_link", [qnode EXCEPT ![t].waiting = TRUE])
      PROVE  Types' /\ McsInv'
  <2>1. Types'
    BY <1>0, <1>4, <1>n
  <2>2. QED BY <1>4, <2>1, McsWait DEF SetNodes, Goto
<1>5. ASSUME SetNodes(t, "mcs_link", "mcs_spin", [qnode EXCEPT ![loc[t].pred].next = t])
      PROVE  Types' /\ McsInv'
  <2>1. Types'
    BY <1>0, <1>5, <1>n
  <2>2. QED BY <1>5, <2>1, McsLink DEF SetNodes, Goto
<1>6. ASSUME SetNodes(t, "trylock", "try_cas", [qnode EXCEPT ![t].next = NoThread])
      PROVE  Types' /\ McsInv'
  <2>1. Types'
    BY <1>0, <1>6, <1>n
  <2>2. qnode'[t].next = NoThread /\ \A u \in Threads \ {t} : qnode'[u] = qnode[u] /\ loc'[u] = loc[u]
    BY <1>0, <1>6 DEF SetNodes
  <2>3. pc[t] \notin Joining \cup Unlocking
    BY <1>0, <1>6 DEF SetNodes, Goto
  <2>4. QED BY <1>6, <2>1, <2>2, <2>3, McsOutside DEF SetNodes, Goto
<1>7. ASSUME word.next = NoThread, Gets(t, "try_cas", [word EXCEPT !.next = t])
      PROVE  Types' /\ McsInv'
  <2>1. [word EXCEPT !.next = t] \in Words /\ [word EXCEPT !.next = t].next = t
    BY <1>0 DEF Words
  <2>2. Types'
    BY <1>7, <2>1, GetsTypes
  <2>3. Len(queue) = 0
    <3>1. Len(queue) \in Nat /\ (Len(queue) # 0 => queue[Len(queue)] \in Threads)
      BY DEF McsInv, Queue
    <3>2. QED BY <1>7, <3>1, LockAssumption DEF McsInv
  <2>4. qnode'[t].next = NoThread /\ pc[t] \in {"lock", "try_cas"}
    BY <1>7 DEF Gets, Goto, McsInv
  <2>5. /\ pc' = [pc EXCEPT ![t] = "crit"] /\ queue' = Append(queue, t) /\ word'.next = t
        /\ \A u \in Threads \ {t} : qnode'[u] = qnode[u] /\ loc'[u] = loc[u]
        /\ "crit" = IF Len(queue) = 0 THEN "crit" ELSE "mcs_wait"
        /\ ~(Len(queue) > 0)
    BY <1>7, <2>1, <2>3 DEF Gets, Goto
  <2>6. McsInv'
    BY <2>4, <2>5, McsAppend
  <2>7. QED BY <2>2, <2>6
<1>8. ASSUME word.next = t, Unlocks(t, "unlock_cas", [word EXCEPT !.next = NoThread])
      PROVE  Types' /\ McsInv'
  <2>1. [word EXCEPT !.next = NoThread] \in Words /\ [word EXCEPT !.next = NoThread].next = NoThread
    BY <1>0 DEF Words
  <2>2. Types'
    BY <1>8, <2>1, LeavesTypes DEF Unlocks
  <2>3. QED BY <1>8, <2>1, <2>2, McsFree DEF Unlocks, Leaves, Goto
<1>9. ASSUME Goto(t, "unlock_wake", "idle"), qnode' = [qnode EXCEPT ![qnode[t].next].waiting = FALSE],
             queue' = Tail(queue), loc' = [loc EXCEPT ![t] = NoLocals], UNCHANGED <<kind, word, data>>
      PROVE  Types' /\ McsInv'
  <2>1. qnode' \in [Threads -> [waiting : BOOLEAN, next : Threads \cup {NoThread}]]
    BY <1>0, <1>9
  <2>2. NoLocals \in Locals
    BY <1>0, LocalsUpdates
  <2>3. Types'
    BY <1>0, <1>9, <2>1, <2>2, TypesStep DEF Types, Goto
  <2>4. \A u \in Threads \ {t} : loc'[u] = loc[u]
    BY <1>0, <1>9
  <2>5. QED BY <1>9, <2>3, <2>4, McsWake DEF Goto
<1>10. ASSUME mcs_lock_lock(t) PROVE Types' /\ McsInv'
  BY <1>0, <1>h, <1>3, <1>4, <1>5, <1>10 DEF mcs_lock_lock
<1>11. ASSUME mcs_lock_trylock(t) PROVE Types' /\ McsInv'
  BY <1>2, <1>6, <1>7, <1>11 DEF mcs_lock_trylock
<1>12. ASSUME mcs_lock_unlock(t) PROVE Types' /\ McsInv'
  BY <1>0, <1>h, <1>8, <1>9, <1>12 DEF mcs_lock_unlock
<1>13. QED BY <1>1, <1>10, <1>11, <1>12 DEF McsStep

-----------------------------------------------------------------------------
(* The locks with a version.                                               *)

\* The modules of the OPTIK locks mean the same as this one by a step of a thread.
LEMMA SameSteps ==
  ASSUME NEW t, NEW from, NEW to, NEW w
  PROVE  /\ OTicket!Goto(t, from, to) <=> Goto(t, from, to)
         /\ Separate!Goto(t, from, to) <=> Goto(t, from, to)
         /\ OTicket!Looks(t, from, to) <=> Looks(t, from, to)
         /\ Separate!Looks(t, from, to) <=> Looks(t, from, to)
         /\ Separate!Gets(t, from, w) <=> Gets(t, from, w)
         /\ OTicket!Leaves(t, from) <=> Leaves(t, from)
         /\ OTicket!GivesUp(t, from) <=> GivesUp(t, from)
         /\ Separate!GivesUp(t, from) <=> GivesUp(t, from)
         /\ OTicket!Unlocks(t, from, w) <=> Unlocks(t, from, w)
         /\ Separate!Unlocks(t, from, w) <=> Unlocks(t, from, w)
<1>1. /\ OTicket!NoWord = NoWord /\ Separate!NoWord = NoWord
  BY DEF OTicket!NoWord, Separate!NoWord, NoWord, OTicket!NoThread, Separate!NoThread, NoThread
<1>2. /\ OTicket!NoLocals = NoLocals /\ Separate!NoLocals = NoLocals
  BY <1>1 DEF OTicket!NoLocals, Separate!NoLocals, NoLocals, OTicket!NoThread, Separate!NoThread, NoThread
<1>3. /\ OTicket!Goto(t, from, to) <=> Goto(t, from, to)
      /\ Separate!Goto(t, from, to) <=> Goto(t, from, to)
  BY DEF OTicket!Goto, Separate!Goto, Goto
<1>4. /\ OTicket!Looks(t, from, to) <=> Looks(t, from, to)
      /\ Separate!Looks(t, from, to) <=> Looks(t, from, to)
  BY DEF OTicket!Goto, Separate!Goto, Goto, OTicket!Looks, Separate!Looks, Looks
<1>5. Separate!Gets(t, from, w) <=> Gets(t, from, w)
  BY DEF Separate!Gets, Separate!Goto, Gets, Goto
<1>6. /\ OTicket!Leaves(t, from) <=> Leaves(t, from)
      /\ Separate!Leaves(t, from) <=> Leaves(t, from)
  BY <1>2 DEF OTicket!Goto, Separate!Goto, Goto, OTicket!Leaves, Separate!Leaves, Leaves
<1>7. /\ OTicket!GivesUp(t, from) <=> GivesUp(t, from)
      /\ Separate!GivesUp(t, from) <=> GivesUp(t, from)
      /\ OTicket!Unlocks(t, from, w) <=> Unlocks(t, from, w)
      /\ Separate!Unlocks(t, from, w) <=> Unlocks(t, from, w)
  BY <1>6 DEF OTicket!GivesUp, Separate!GivesUp, GivesUp, OTicket!Unlocks, Separate!Unlocks, Unlocks
<1>8. QED BY <1>3, <1>4, <1>5, <1>6, <1>7

\* The active threads, counted, and the version, which is far from wrapping around.
LEMMA VersionsBound ==
  ASSUME Types, Versions, NEW t \in Threads
  PROVE  /\ IsFiniteSet(Active) /\ Cardinality(Active) \in Nat
         /\ Cardinality(Active) <= Cardinality(Threads)
         /\ t \in Active => /\ inc(word.version) = word.version + 1
                            /\ Cardinality(Active \ {t}) = Cardinality(Active) - 1
                            /\ word.version + 1 < OTicket!INT_MAX
<1>1. /\ Cardinality(Threads) \in Nat /\ TicketMod \in Nat /\ MaxVersion \in Nat
      /\ MaxVersion + Cardinality(Threads) < OTicket!INT_MAX /\ OTicket!INT_MAX < TicketMod
      /\ OTicket!INT_MAX \in Int
  BY Constants DEF Tickets
<1>2. Active \in SUBSET Threads /\ IsFiniteSet(Threads)
  BY LockAssumption DEF Active
<1>3. IsFiniteSet(Active) /\ Cardinality(Active) \in Nat /\ Cardinality(Active) <= Cardinality(Threads)
  BY <1>2, FS_Subset, FS_CardinalityType
<1>4. ASSUME t \in Active
      PROVE  /\ inc(word.version) = word.version + 1
             /\ Cardinality(Active \ {t}) = Cardinality(Active) - 1
             /\ word.version + 1 < OTicket!INT_MAX
  <2>1. Cardinality(Active \ {t}) = Cardinality(Active) - 1
    BY <1>3, <1>4, FS_RemoveElement
  <2>2. Cardinality(Active \ {t}) \in Nat
    BY <1>3, FS_RemoveElement, FS_CardinalityType
  <2>3. word.version \in Nat
    BY <1>1 DEF Types, Words, Tickets
  <2>4. word.version + Cardinality(Active) <= MaxVersion + Cardinality(Threads)
    BY DEF Versions
  <2>5. word.version + 1 < OTicket!INT_MAX
    <3> DEFINE a == Cardinality(Active)
               b == Cardinality(Active \ {t})
    <3>1. b = a - 1 /\ b \in Nat /\ a \in Nat /\ word.version + a <= MaxVersion + Cardinality(Threads)
      BY <1>3, <2>1, <2>2, <2>4
    <3> HIDE DEF a, b
    <3>2. QED BY <1>1, <2>3, <3>1
  <2>6. inc(word.version) = word.version + 1
    <3>1. word.version + 1 \in 0..(TicketMod - 1)
      BY <1>1, <2>3, <2>5
    <3>2. QED BY <1>1, <3>1 DEF inc
  <2>7. QED BY <2>1, <2>5, <2>6
<1>5. QED BY <1>3, <1>4

\* The number of active threads after a step that keeps the version.
LEMMA ActiveStep ==
  ASSUME Types, Types', Versions, NEW t \in Threads, NEW to, pc' = [pc EXCEPT ![t] = to],
         word'.version = word.version,
         \/ to \in {"idle", "unlock"}
         \/ pc[t] \notin {"idle", "unlock"}
         \/ word.version < MaxVersion
  PROVE  word'.version + Cardinality(Active') <= MaxVersion + Cardinality(Threads)
<1> DEFINE a == Cardinality(Active)
           b == Cardinality(Active')
           n == Cardinality(Threads)
<1>1. IsFiniteSet(Active) /\ a \in Nat
  BY VersionsBound
<1>2. Active' \in SUBSET Threads /\ IsFiniteSet(Threads) /\ n \in Nat
  BY LockAssumption, Constants DEF Active
<1>3. IsFiniteSet(Active') /\ b \in Nat /\ b <= n
  BY <1>2, FS_Subset, FS_CardinalityType
<1>4. word.version \in Nat /\ MaxVersion \in Nat
  BY Constants DEF Types, Words, Tickets
<1>5. CASE word.version < MaxVersion
  <2> HIDE DEF a, b, n
  <2>1. word.version + b <= MaxVersion + n
    BY <1>1, <1>2, <1>3, <1>4, <1>5
  <2>2. QED BY <2>1 DEF b, n
<1>6. CASE to \in {"idle", "unlock"} \/ pc[t] \notin {"idle", "unlock"}
  <2>1. Active' \in SUBSET Active
    BY <1>6 DEF Active, Types
  <2>2. b <= a
    BY <1>1, <2>1, FS_Subset
  <2>3. word.version + a <= MaxVersion + n
    BY DEF Versions
  <2> HIDE DEF a, b, n
  <2>4. word.version + b <= MaxVersion + n
    BY <1>1, <1>2, <1>3, <1>4, <2>2, <2>3
  <2>5. QED BY <2>4 DEF b, n
<1>7. QED BY <1>5, <1>6

\* A thread reads the word.
LEMMA VersionsPeek ==
  ASSUME Types, Types', Versions, ValidatedLockIsFresh, NEW t \in Threads,
         pc[t] = "idle", pc' = [pc EXCEPT ![t] = "peek"], word.version < MaxVersion,
         loc' = [loc EXCEPT ![t].ol_old = word], UNCHANGED <<kind, word, data>>
  PROVE  Versions' /\ ValidatedLockIsFresh'
<1>1. word'.version + Cardinality(Active') <= MaxVersion + Cardinality(Threads)
  BY ActiveStep
<1>2. loc'[t].ol_old = word /\ word.version <= word.version
  BY Constants DEF Types, Locals, Words, Tickets
<1>3. pc'[t] = "peek" /\ \A u \in Threads \ {t} : pc'[u] = pc[u] /\ loc'[u] = loc[u]
  BY DEF Types
<1>4. Versions'
  BY <1>1, <1>2, <1>3 DEF Versions
<1>5. ValidatedLockIsFresh'
  BY <1>3 DEF ValidatedLockIsFresh
<1>6. QED BY <1>4, <1>5

\* A thread reads the data.
LEMMA VersionsRead ==
  ASSUME Types, Types', Versions, ValidatedLockIsFresh, NEW t \in Threads,
         NEW f \in {"lock_version", "trylock_version", "trylock", "trylock_vdelete"},
         pc[t] = "peek", pc' = [pc EXCEPT ![t] = f],
         loc' = [loc EXCEPT ![t].snap = data, ![t].by = f], UNCHANGED <<kind, word, data>>
  PROVE  Versions' /\ ValidatedLockIsFresh'
<1>1. word'.version + Cardinality(Active') <= MaxVersion + Cardinality(Threads)
  BY ActiveStep
<1>2. loc'[t].ol_old = loc[t].ol_old /\ loc'[t].snap = data
  BY DEF Types, Locals
<1>3. pc'[t] = f /\ \A u \in Threads \ {t} : pc'[u] = pc[u] /\ loc'[u] = loc[u]
  BY DEF Types
<1>4. Versions'
  BY <1>1, <1>2, <1>3 DEF Versions
<1>5. ValidatedLockIsFresh'
  BY <1>3 DEF ValidatedLockIsFresh
<1>6. QED BY <1>4, <1>5

\* A thread goes on inside a call.  If it gets the lock and says that the version is the
\* same, it is.
LEMMA VersionsInner ==
  ASSUME Types, Types', Versions, ValidatedLockIsFresh, MutualExclusion', NEW t \in Threads, NEW to,
         pc[t] \notin {"idle", "peek", "wrote", "unlock", "dead"}, to \notin {"idle", "peek", "wrote", "unlock"},
         pc' = [pc EXCEPT ![t] = to], word'.version = word.version, UNCHANGED <<kind, data>>,
         loc'[t].ol_old = loc[t].ol_old, loc'[t].snap = loc[t].snap,
         \A u \in Threads \ {t} : loc'[u] = loc[u],
         to = "crit" /\ loc'[t].same /\ ~(kind = "OPTIK_SEPARATE" /\ loc'[t].by = "lock_version")
           => loc[t].ol_old.version = word.version
  PROVE  Versions' /\ ValidatedLockIsFresh'
<1>1. word'.version + Cardinality(Active') <= MaxVersion + Cardinality(Threads)
  BY ActiveStep
<1>2. pc'[t] = to /\ \A u \in Threads \ {t} : pc'[u] = pc[u] /\ loc'[u] = loc[u]
  BY DEF Types
<1>3. \A u \in Threads : pc[u] = "wrote" <=> pc'[u] = "wrote"
  BY <1>2
<1>4. ASSUME NEW u \in Threads
      PROVE  loc'[u].ol_old = loc[u].ol_old /\ loc'[u].snap = loc[u].snap
  BY <1>2
<1>5. Versions'
  BY <1>1, <1>2, <1>3, <1>4 DEF Versions
<1>6. ASSUME to = "crit", loc'[t].same, ~(kind = "OPTIK_SEPARATE" /\ loc'[t].by = "lock_version")
      PROVE  loc'[t].snap = data'
  <2>1. loc[t].ol_old.version = word.version /\ word.version \in Nat
    BY <1>6, Constants DEF Types, Words, Tickets
  <2>2. \A u \in Threads : pc[u] # "wrote"
    BY <1>2, <1>3, <1>6 DEF MutualExclusion, Holds
  <2>3. loc[t].snap = data
    BY <2>1, <2>2 DEF Versions
  <2>4. QED BY <2>3
<1>7. ValidatedLockIsFresh'
  BY <1>2, <1>6 DEF ValidatedLockIsFresh
<1>8. QED BY <1>5, <1>7

\* A holder changes the data.
LEMMA VersionsWrite ==
  ASSUME Types, Types', Versions, ValidatedLockIsFresh, MutualExclusion', NEW t \in Threads, WriteData(t)
  PROVE  Versions' /\ ValidatedLockIsFresh'
<1>1. pc[t] = "crit" /\ pc' = [pc EXCEPT ![t] = "wrote"] /\ UNCHANGED <<kind, word, loc>>
  BY DEF WriteData, Goto
<1>2. word'.version + Cardinality(Active') <= MaxVersion + Cardinality(Threads)
  BY <1>1, ActiveStep
<1>3. pc'[t] = "wrote" /\ \A u \in Threads \ {t} : pc'[u] = pc[u]
  BY <1>1 DEF Types
<1>4. Versions'
  BY <1>1, <1>2, <1>3 DEF Versions
<1>5. \A u \in Threads : pc'[u] # "crit"
  BY <1>3 DEF MutualExclusion, Holds
<1>6. ValidatedLockIsFresh'
  BY <1>5 DEF ValidatedLockIsFresh
<1>7. QED BY <1>4, <1>6

\* A thread leaves a call, and the version stays.
LEMMA VersionsLeave ==
  ASSUME Types, Types', Versions, ValidatedLockIsFresh, NEW t \in Threads,
         pc[t] # "wrote", pc' = [pc EXCEPT ![t] = "idle"], word'.version = word.version,
         loc' = [loc EXCEPT ![t] = NoLocals], UNCHANGED <<kind, data>>
  PROVE  Versions' /\ ValidatedLockIsFresh'
<1>1. word'.version + Cardinality(Active') <= MaxVersion + Cardinality(Threads)
  BY ActiveStep
<1>2. loc'[t].ol_old.version = 0 /\ word.version \in Nat
  BY Constants DEF Types, NoLocals, NoWord, Words, Tickets
<1>3. pc'[t] = "idle" /\ \A u \in Threads \ {t} : pc'[u] = pc[u] /\ loc'[u] = loc[u]
  BY DEF Types
<1>4. \A u \in Threads : pc[u] = "wrote" => pc'[u] = "wrote"
  BY <1>3
<1>5. Versions'
  <2>1. \A u \in Threads : loc'[u].ol_old.version <= word'.version
    BY <1>2, <1>3 DEF Versions
  <2>2. QED BY <1>1, <1>3, <1>4, <2>1 DEF Versions
<1>6. ValidatedLockIsFresh'
  BY <1>3 DEF ValidatedLockIsFresh
<1>7. QED BY <1>5, <1>6

\* A holder counts the version up: every other thread has an older one.
LEMMA VersionsRelease ==
  ASSUME Types, Types', Versions, ValidatedLockIsFresh, NEW t \in Threads, NEW to \in {"idle", "unlock"},
         pc[t] \in {"crit", "wrote"}, pc' = [pc EXCEPT ![t] = to], word'.version = inc(word.version),
         NEW l, loc' = [loc EXCEPT ![t] = l], l = NoLocals \/ l = loc[t], UNCHANGED <<kind, data>>
  PROVE  Versions' /\ ValidatedLockIsFresh'
<1>1. t \in Active /\ Active' = Active \ {t}
  BY DEF Active, Types
<1>2. /\ word'.version = word.version + 1 /\ Cardinality(Active') = Cardinality(Active) - 1
      /\ Cardinality(Active) \in Nat
  BY <1>1, VersionsBound
<1>3. word.version \in Nat /\ \A u \in Threads : loc[u].ol_old.version \in Nat
  BY Constants DEF Types, Words, Locals, Tickets
<1>4. word'.version + Cardinality(Active') <= MaxVersion + Cardinality(Threads)
  <2> DEFINE a == Cardinality(Active)
             b == Cardinality(Active')
             n == MaxVersion + Cardinality(Threads)
  <2>1. word.version + a <= n /\ n \in Nat
    BY Constants DEF Versions
  <2>2. word.version + 1 + b <= n
    <3>1. b = a - 1 /\ a \in Nat
      BY <1>2
    <3> HIDE DEF a, b, n
    <3>2. QED BY <1>3, <2>1, <3>1
  <2>3. QED BY <1>2, <2>2
<1>5. pc'[t] = to /\ \A u \in Threads \ {t} : pc'[u] = pc[u] /\ loc'[u] = loc[u]
  BY DEF Types
<1>6. loc'[t].ol_old.version = 0 \/ loc'[t].ol_old = loc[t].ol_old
  BY DEF Types, NoLocals, NoWord
<1>7. \A u \in Threads : loc'[u].ol_old.version < word'.version
  BY <1>2, <1>3, <1>5, <1>6 DEF Versions
<1>8. Versions'
  <2>1. \A u \in Threads : loc'[u].ol_old.version <= word'.version
    <3>1. \A u \in Threads : loc'[u].ol_old.version \in Nat
      BY Constants DEF Types, Locals, Words, Tickets
    <3>2. QED BY <1>2, <1>3, <1>7, <3>1
  <2>2. QED BY <1>4, <1>7, <2>1 DEF Versions
<1>9. ValidatedLockIsFresh'
  BY <1>5 DEF ValidatedLockIsFresh
<1>10. QED BY <1>8, <1>9

\* The call of a lock with a version starts with a look at the word.
LEMMA PeekSteps ==
  ASSUME Types, kind \in Versioned, NEW t \in Threads, Call(t)
  PROVE  /\ Types'
         /\ pc[t] = "idle" /\ pc' = [pc EXCEPT ![t] = "peek"] /\ word.version < MaxVersion
         /\ loc' = [loc EXCEPT ![t].ol_old = word]
         /\ UNCHANGED <<kind, word, data, queue>>
         /\ \A u \in Threads : loc'[u].ticket = loc[u].ticket /\ loc'[u].same = loc[u].same
                               /\ loc'[u].by = loc[u].by
<1>1. /\ word.version < MaxVersion
      /\ Goto(t, "idle", "peek")
      /\ loc' = [loc EXCEPT ![t].ol_old = word]
      /\ UNCHANGED <<kind, word, qnode, data, queue>>
  BY DEF Call, Versioned, Plain
<1>2. [loc[t] EXCEPT !.ol_old = word] \in Locals /\ "peek" \in Labels
  BY LocalsUpdates DEF Types, Labels
<1>3. Types'
  BY <1>1, <1>2, TypesStep DEF Types, Goto
<1>4. \A u \in Threads : loc'[u].ticket = loc[u].ticket /\ loc'[u].same = loc[u].same
                               /\ loc'[u].by = loc[u].by
  BY <1>1 DEF Types, Locals
<1>5. QED BY <1>1, <1>3, <1>4 DEF Goto

\* Then the thread looks at the data and calls a function of the lock.
LEMMA ReadSteps ==
  ASSUME Types, NEW t \in Threads, ReadData(t),
         NEW F, F \subseteq {"lock_version", "trylock_version", "trylock", "trylock_vdelete"},
         F = IF kind = "OPTIK_SEPARATE" THEN Separate!Functions ELSE OTicket!Functions
  PROVE  \E f \in F :
         /\ Types'
         /\ pc[t] = "peek" /\ pc' = [pc EXCEPT ![t] = f]
         /\ loc' = [loc EXCEPT ![t].snap = data, ![t].by = f]
         /\ UNCHANGED <<kind, word, data, queue>>
         /\ \A u \in Threads : loc'[u].ticket = loc[u].ticket /\ loc'[u].same = loc[u].same
         /\ loc'[t].by = f /\ \A u \in Threads \ {t} : loc'[u] = loc[u]
<1>1. PICK f \in F : Goto(t, "peek", f) /\ loc' = [loc EXCEPT ![t].snap = data, ![t].by = f]
  BY DEF ReadData
<1>2. UNCHANGED <<kind, word, qnode, data, queue>>
  BY DEF ReadData
<1>3. [[loc[t] EXCEPT !.snap = data] EXCEPT !.by = f] \in Locals /\ f \in Labels
  BY LocalsUpdates DEF Types, Labels
<1>4. Types'
  BY <1>1, <1>2, <1>3, TypesStep DEF Types, Goto
<1>5. /\ \A u \in Threads : loc'[u].ticket = loc[u].ticket /\ loc'[u].same = loc[u].same
      /\ loc'[t].by = f /\ \A u \in Threads \ {t} : loc'[u] = loc[u]
  BY <1>1 DEF Types, Locals
<1>6. QED BY <1>1, <1>2, <1>4, <1>5 DEF Goto

\* A holder that changes the data.
LEMMA WriteSteps ==
  ASSUME Types, NEW t \in Threads, WriteData(t)
  PROVE  Types' /\ pc[t] = "crit" /\ pc' = [pc EXCEPT ![t] = "wrote"] /\ UNCHANGED <<kind, word, loc, queue>>
<1>1. "wrote" \in Labels
  BY DEF Labels
<1>2. QED BY <1>1 DEF WriteData, Goto, Types

-----------------------------------------------------------------------------
(* The steps of the OPTIK ticket lock that several ways to use it share.   *)

\* Drawing a ticket.
LEMMA DrawSteps ==
  ASSUME Types, NEW t \in Threads, NEW from, NEW to \in Labels, OTicket!Draw(t, from, to)
  PROVE  /\ Types'
         /\ pc[t] = from /\ pc' = [pc EXCEPT ![t] = to]
         /\ queue' = Append(queue, t)
         /\ word'.ticket = inc(word.ticket) /\ word'.version = word.version
         /\ UNCHANGED <<kind, data>>
         /\ loc'[t].ticket = word.ticket /\ loc'[t].ol_old = loc[t].ol_old /\ loc'[t].snap = loc[t].snap
         /\ \A u \in Threads \ {t} : loc'[u] = loc[u]
<1>1. /\ pc[t] = from /\ pc' = [pc EXCEPT ![t] = to]
      /\ loc' = [loc EXCEPT ![t].ticket = word.ticket]
      /\ word' = [word EXCEPT !.ticket = OTicket!inc(word.ticket)]
      /\ queue' = Append(queue, t)
      /\ UNCHANGED <<kind, qnode, data>>
  BY DEF OTicket!Draw, OTicket!Goto
<1>2. word \in Words /\ word.ticket \in Tickets /\ OTicket!inc(word.ticket) = inc(word.ticket)
      /\ inc(word.ticket) \in Tickets
  BY Counting DEF Types, Words
<1>3. word' \in Words /\ word'.ticket = inc(word.ticket) /\ word'.version = word.version
  BY <1>1, <1>2 DEF Words
<1>4. [loc[t] EXCEPT !.ticket = word.ticket] \in Locals
  BY <1>2, LocalsUpdates DEF Types
<1>5. Types'
  BY <1>1, <1>3, <1>4, TypesStep DEF Types
<1>6. /\ loc'[t].ticket = word.ticket /\ loc'[t].ol_old = loc[t].ol_old /\ loc'[t].snap = loc[t].snap
      /\ \A u \in Threads \ {t} : loc'[u] = loc[u]
  BY <1>1 DEF Types, Locals
<1>7. QED BY <1>1, <1>3, <1>5, <1>6

\* Trying: the lock is free and at the version of the thread, or the thread gives up.
LEMMA TrySteps ==
  ASSUME Types, NEW t \in Threads, NEW from, NEW to \in Labels, NEW o, NEW w \in Words,
         NEW s \in BOOLEAN, OTicket!Try(t, from, to, o, w, s)
  PROVE  \/ /\ Types'
            /\ word.ticket = word.version /\ o.version = word.version /\ word' = w
            /\ pc[t] = from /\ pc' = [pc EXCEPT ![t] = to]
            /\ queue' = Append(queue, t)
            /\ UNCHANGED <<kind, data>>
            /\ loc'[t].same = s /\ loc'[t].ol_old = loc[t].ol_old /\ loc'[t].snap = loc[t].snap
            /\ \A u \in Threads \ {t} : loc'[u] = loc[u]
         \/ GivesUp(t, from)
<1>1. CASE OTicket!GivesUp(t, from)
  BY <1>1, SameSteps
<1>2. CASE /\ ~OTicket!optik_is_locked(o) /\ OTicket!optik_is_same_version(word, o)
           /\ OTicket!Goto(t, from, to)
           /\ word' = w
           /\ queue' = Append(queue, t)
           /\ loc' = [loc EXCEPT ![t].same = s]
           /\ UNCHANGED <<kind, qnode, data>>
  <2>1. word.ticket = word.version /\ o.version = word.version
    BY <1>2 DEF OTicket!optik_is_locked, OTicket!optik_is_same_version
  <2>2. [loc[t] EXCEPT !.same = s] \in Locals
    BY LocalsUpdates DEF Types
  <2>3. Types'
    BY <1>2, <2>2, TypesStep DEF Types, OTicket!Goto
  <2>4. /\ loc'[t].same = s /\ loc'[t].ol_old = loc[t].ol_old /\ loc'[t].snap = loc[t].snap
        /\ \A u \in Threads \ {t} : loc'[u] = loc[u]
    BY <1>2 DEF Types, Locals
  <2>5. QED BY <1>2, <2>1, <2>3, <2>4 DEF OTicket!Goto
<1>3. QED BY <1>1, <1>2 DEF OTicket!Try

\* A thread that gives up.
LEMMA GiveUpSteps ==
  ASSUME Types, NEW t \in Threads, NEW from, GivesUp(t, from)
  PROVE  /\ Types'
         /\ pc[t] = from /\ pc' = [pc EXCEPT ![t] = "idle"]
         /\ loc' = [loc EXCEPT ![t] = NoLocals]
         /\ UNCHANGED <<kind, word, data, queue>>
         /\ \A u \in Threads \ {t} : loc'[u] = loc[u]
<1>1. Types'
  BY LeavesTypes DEF GivesUp, Types
<1>2. QED BY <1>1 DEF GivesUp, Leaves, Goto, Types

\* A thread that gives the lock back.
LEMMA UnlockSteps ==
  ASSUME Types, NEW t \in Threads, NEW from, NEW w \in Words, Unlocks(t, from, w)
  PROVE  /\ Types'
         /\ pc[t] = from /\ pc' = [pc EXCEPT ![t] = "idle"]
         /\ loc' = [loc EXCEPT ![t] = NoLocals] /\ word' = w /\ queue' = Tail(queue)
         /\ UNCHANGED <<kind, data>>
         /\ \A u \in Threads \ {t} : loc'[u] = loc[u]
<1>1. Types'
  BY LeavesTypes DEF Unlocks, Types
<1>2. QED BY <1>1 DEF Unlocks, Leaves, Goto, Types

\* The step of optik_trylock before its CAS, and the CAS.
LEMMA TrylockSteps ==
  ASSUME Types, NEW t \in Threads, OTicket!optik_trylock(t)
  PROVE  \/ /\ Types'
            /\ pc[t] = "trylock" /\ pc' = [pc EXCEPT ![t] = "try_cas"]
            /\ UNCHANGED <<kind, word, data, queue>>
            /\ loc'[t].ol_old = loc[t].ol_old /\ loc'[t].snap = loc[t].snap
            /\ \A u \in Threads \ {t} : loc'[u] = loc[u]
         \/ /\ Types'
            /\ word.ticket = word.version
            /\ word'.ticket = inc(word.ticket) /\ word'.version = word.version
            /\ pc[t] = "try_cas" /\ pc' = [pc EXCEPT ![t] = "crit"]
            /\ queue' = Append(queue, t)
            /\ UNCHANGED <<kind, data>>
            /\ ~loc'[t].same /\ loc'[t].ol_old = loc[t].ol_old /\ loc'[t].snap = loc[t].snap
            /\ \A u \in Threads \ {t} : loc'[u] = loc[u]
         \/ GivesUp(t, "try_cas")
<1>0. word \in Words /\ word.version \in Tickets /\ loc[t].ticket \in Tickets /\ "try_cas" \in Labels
      /\ "crit" \in Labels
  BY DEF Types, Words, Locals, Labels
<1>1. CASE /\ OTicket!Goto(t, "trylock", "try_cas")
           /\ loc' = [loc EXCEPT ![t].ticket = word.version]
           /\ UNCHANGED <<kind, word, qnode, data, queue>>
  <2>1. [loc[t] EXCEPT !.ticket = word.version] \in Locals
    BY <1>0, LocalsUpdates DEF Types
  <2>2. Types'
    BY <1>0, <1>1, <2>1, TypesStep DEF Types, OTicket!Goto
  <2>3. /\ loc'[t].ol_old = loc[t].ol_old /\ loc'[t].snap = loc[t].snap
        /\ \A u \in Threads \ {t} : loc'[u] = loc[u]
    BY <1>1 DEF Types, Locals
  <2>4. QED BY <1>1, <2>2, <2>3 DEF OTicket!Goto
<1> DEFINE free == [word EXCEPT !.version = loc[t].ticket, !.ticket = loc[t].ticket]
           w == [free EXCEPT !.ticket = OTicket!inc(free.ticket)]
<1>2. CASE OTicket!Try(t, "try_cas", "crit", free, w, FALSE)
  <2>1. OTicket!inc(loc[t].ticket) = inc(loc[t].ticket) /\ inc(loc[t].ticket) \in Tickets
    BY <1>0, Counting
  <2>2. /\ free.ticket = loc[t].ticket /\ free.version = loc[t].ticket
        /\ w \in Words /\ w.ticket = inc(loc[t].ticket) /\ w.version = loc[t].ticket
    BY <1>0, <2>1 DEF Words
  <2> HIDE DEF free, w
  <2>3. \/ /\ Types'
           /\ word.ticket = word.version /\ free.version = word.version /\ word' = w
           /\ pc[t] = "try_cas" /\ pc' = [pc EXCEPT ![t] = "crit"]
           /\ queue' = Append(queue, t)
           /\ UNCHANGED <<kind, data>>
           /\ loc'[t].same = FALSE /\ loc'[t].ol_old = loc[t].ol_old /\ loc'[t].snap = loc[t].snap
           /\ \A u \in Threads \ {t} : loc'[u] = loc[u]
        \/ GivesUp(t, "try_cas")
    BY <1>0, <1>2, <2>2, TrySteps
  <2>4. QED BY <2>2, <2>3
<1>3. QED BY <1>1, <1>2 DEF OTicket!optik_trylock

\* Where a thread is that takes one of these steps.
LEMMA Callers ==
  ASSUME NEW t \in Threads
  PROVE  /\ OTicket!optik_lock_version(t) => pc[t] \in {"lock_version", "version_wait"}
         /\ OTicket!optik_trylock_vdelete(t) => pc[t] = "trylock_vdelete"
         /\ OTicket!optik_trylock_version(t) => pc[t] = "trylock_version"
         /\ OTicket!optik_trylock(t) => pc[t] \in {"trylock", "try_cas"}
         /\ OTicket!optik_lock_if_not_deleted(t) => pc[t] \in {"lock_if_not_deleted", "if_draw", "if_wait"}
         /\ OTicket!optik_lock_vdelete(t) =>
              pc[t] \in {"lock_vdelete", "vdelete_draw", "vdelete_wait", "vdelete"}
<1>1. ASSUME NEW from, NEW to, NEW o, NEW w, NEW s, OTicket!Try(t, from, to, o, w, s) PROVE pc[t] = from
  BY <1>1 DEF OTicket!Try, OTicket!GivesUp, OTicket!Leaves, OTicket!Goto
<1>2. ASSUME NEW f, NEW draw, NEW wait, NEW got, OTicket!NotDeleted(t, f, draw, wait, got)
      PROVE  pc[t] \in {f, draw, wait}
  BY <1>2 DEF OTicket!NotDeleted, OTicket!GivesUp, OTicket!Leaves, OTicket!Goto, OTicket!Looks, OTicket!Draw
<1>3. OTicket!optik_lock_version(t) => pc[t] \in {"lock_version", "version_wait"}
  BY DEF OTicket!optik_lock_version, OTicket!Draw, OTicket!Served, OTicket!Goto
<1>4. /\ OTicket!optik_trylock_vdelete(t) => pc[t] = "trylock_vdelete"
      /\ OTicket!optik_trylock_version(t) => pc[t] = "trylock_version"
  BY <1>1 DEF OTicket!optik_trylock_vdelete, OTicket!optik_trylock_version
<1>5. OTicket!optik_trylock(t) => pc[t] \in {"trylock", "try_cas"}
  BY <1>1 DEF OTicket!optik_trylock, OTicket!Goto
<1>6. OTicket!optik_lock_if_not_deleted(t) => pc[t] \in {"lock_if_not_deleted", "if_draw", "if_wait"}
  BY <1>2 DEF OTicket!optik_lock_if_not_deleted
<1>7. OTicket!optik_lock_vdelete(t) => pc[t] \in {"lock_vdelete", "vdelete_draw", "vdelete_wait", "vdelete"}
  BY <1>2 DEF OTicket!optik_lock_vdelete, OTicket!Goto
<1>8. QED BY <1>3, <1>4, <1>5, <1>6, <1>7

-----------------------------------------------------------------------------
(* OPTIK_TICKET.                                                           *)

\* The OPTIK ticket lock with the functions that queue up keeps its queue of tickets and
\* its versions.
LEMMA QueueKeeps ==
  ASSUME Types, QueueInv, Versions, ValidatedLockIsFresh, kind = "OPTIK_TICKET", NEW t \in Threads,
         Call(t) \/ OTicket!Step(t) \/ ReadData(t) \/ WriteData(t)
  PROVE  Types' /\ QueueInv' /\ Versions' /\ ValidatedLockIsFresh'
<1> DEFINE W == {"version_wait"}
           C == {"crit", "wrote"}
           S == {"idle", "peek", "lock_version", "trylock_version", "trylock", "try_cas",
                 "version_wait", "crit", "wrote"}
           Good == Types' /\ QueueInv' /\ Versions' /\ ValidatedLockIsFresh'
<1>0. /\ W \cap C = {} /\ word.version \in Tickets /\ word.ticket \in Tickets /\ word \in Words
      /\ pc \in [Threads -> Labels] /\ pc[t] \in S
      /\ TicketQueue(queue, pc, loc, word.ticket, word.version, W, C)
      /\ S \subseteq Labels
  BY DEF Types, Words, QueueInv, Labels, Within
\* What is left to show of a step of t after which the queue is in order.
<1>k. ASSUME NEW to \in S, pc' = [pc EXCEPT ![t] = to], Types',
             TicketQueue(queue', [pc EXCEPT ![t] = to], loc', word'.ticket, word'.version, W, C)
      PROVE  QueueInv' /\ MutualExclusion'
  <2>1. QueueInv'
    BY <1>k DEF QueueInv, Within, Types
  <2>2. TicketQueue(queue', pc', loc', word'.ticket, word'.version, W, C) /\ word'.version \in Tickets
    BY <1>k DEF Types, Words
  <2>3. ASSUME NEW u \in Threads, NEW v \in Threads, pc'[u] \in C, pc'[v] \in C PROVE u = v
    <3> HIDE DEF W, C
    <3>1. QED BY <2>2, <2>3, ServedIsHead
  <2>4. \A u \in Threads : pc'[u] # "dead"
    BY <2>1 DEF QueueInv, Within
  <2>5. MutualExclusion'
    BY <2>3, <2>4 DEF MutualExclusion, Holds
  <2>6. QED BY <2>1, <2>5
\* A step of t outside the queue, or as the holder.
<1>o. ASSUME NEW to \in S, (pc[t] \notin W \cup C /\ to \notin W \cup C) \/ (pc[t] \in C /\ to \in C),
             pc' = [pc EXCEPT ![t] = to], UNCHANGED <<word, queue>>, Types',
             \A u \in Threads \ {t} : loc'[u].ticket = loc[u].ticket
      PROVE  QueueInv' /\ MutualExclusion'
  <2>1. TicketQueue(queue, [pc EXCEPT ![t] = to], loc', word.ticket, word.version, W, C)
    <3> HIDE DEF W, C
    <3>1. QED BY <1>0, <1>o, KeepTicket
  <2>2. QED BY <1>k, <1>o, <2>1
\* A free lock is taken.
<1>t. ASSUME pc[t] \in {"trylock_version", "try_cas"}, pc' = [pc EXCEPT ![t] = "crit"], Types',
             word.ticket = word.version, queue' = Append(queue, t),
             word'.ticket = inc(word.ticket), word'.version = word.version
      PROVE  QueueInv' /\ MutualExclusion'
  <2>1. pc[t] \notin W \cup C /\ "crit" \in C
    BY <1>t
  <2>2. TicketQueue(Append(queue, t), [pc EXCEPT ![t] = "crit"], loc', inc(word.ticket), word.version, W, C)
    <3> HIDE DEF W, C
    <3>1. QED BY <1>0, <1>t, <2>1, TryTicket
  <2>3. QED BY <1>k, <1>t, <2>2
<1>g. ASSUME NEW from \in {"trylock_version", "try_cas"}, GivesUp(t, from) PROVE Good
  <2>1. /\ Types'
        /\ pc[t] = from /\ pc' = [pc EXCEPT ![t] = "idle"]
        /\ loc' = [loc EXCEPT ![t] = NoLocals]
        /\ UNCHANGED <<kind, word, data, queue>>
        /\ \A u \in Threads \ {t} : loc'[u] = loc[u]
    BY <1>g, GiveUpSteps
  <2>2. QueueInv'
    BY <1>o, <2>1
  <2>3. Versions' /\ ValidatedLockIsFresh'
    BY <2>1, VersionsLeave
  <2>4. QED BY <2>1, <2>2, <2>3
<1>1. ASSUME Call(t) PROVE Good
  <2>1. /\ Types'
        /\ pc[t] = "idle" /\ pc' = [pc EXCEPT ![t] = "peek"] /\ word.version < MaxVersion
        /\ loc' = [loc EXCEPT ![t].ol_old = word]
        /\ UNCHANGED <<kind, word, data, queue>>
        /\ \A u \in Threads : loc'[u].ticket = loc[u].ticket
    BY <1>1, PeekSteps DEF Versioned
  <2>2. QueueInv'
    BY <1>o, <2>1
  <2>3. Versions' /\ ValidatedLockIsFresh'
    BY <2>1, VersionsPeek
  <2>4. QED BY <2>1, <2>2, <2>3
<1>2. ASSUME ReadData(t) PROVE Good
  <2> DEFINE F == {"lock_version", "trylock_version", "trylock"}
  <2>1. /\ F \subseteq {"lock_version", "trylock_version", "trylock", "trylock_vdelete"}
        /\ F = IF kind = "OPTIK_SEPARATE" THEN Separate!Functions ELSE OTicket!Functions
    BY DEF OTicket!Functions
  <2>2. PICK f \in F :
        /\ Types'
        /\ pc[t] = "peek" /\ pc' = [pc EXCEPT ![t] = f]
        /\ loc' = [loc EXCEPT ![t].snap = data, ![t].by = f]
        /\ UNCHANGED <<kind, word, data, queue>>
        /\ \A u \in Threads : loc'[u].ticket = loc[u].ticket
    <3> HIDE DEF F
    <3>1. QED BY <1>2, <2>1, ReadSteps
  <2>3. QueueInv'
    BY <1>o, <2>2
  <2>4. Versions' /\ ValidatedLockIsFresh'
    BY <2>1, <2>2, VersionsRead
  <2>5. QED BY <2>2, <2>3, <2>4
<1>3. ASSUME WriteData(t) PROVE Good
  <2>1. Types' /\ pc[t] = "crit" /\ pc' = [pc EXCEPT ![t] = "wrote"] /\ UNCHANGED <<kind, word, loc, queue>>
    BY <1>3, WriteSteps
  <2>2. QueueInv' /\ MutualExclusion'
    BY <1>o, <2>1
  <2>3. Versions' /\ ValidatedLockIsFresh'
    BY <1>3, <2>1, <2>2, VersionsWrite
  <2>4. QED BY <2>1, <2>2, <2>3
<1>4. ASSUME OTicket!Draw(t, "lock_version", "version_wait") PROVE Good
  <2>1. /\ Types'
        /\ pc[t] = "lock_version" /\ pc' = [pc EXCEPT ![t] = "version_wait"]
        /\ queue' = Append(queue, t)
        /\ word'.ticket = inc(word.ticket) /\ word'.version = word.version
        /\ UNCHANGED <<kind, data>>
        /\ loc'[t].ticket = word.ticket /\ loc'[t].ol_old = loc[t].ol_old /\ loc'[t].snap = loc[t].snap
        /\ \A u \in Threads \ {t} : loc'[u] = loc[u]
    BY <1>0, <1>4, DrawSteps
  <2>2. pc[t] \notin W \cup C /\ "version_wait" \in W
    BY <2>1
  <2>3. TicketQueue(Append(queue, t), [pc EXCEPT ![t] = "version_wait"], loc', inc(word.ticket), word.version, W, C)
    <3> HIDE DEF W, C
    <3>1. QED BY <1>0, <2>1, <2>2, DrawTicket
  <2>4. QueueInv' /\ MutualExclusion'
    BY <1>k, <2>1, <2>3
  <2>5. Versions' /\ ValidatedLockIsFresh'
    BY <2>1, <2>4, VersionsInner
  <2>6. QED BY <2>1, <2>4, <2>5
<1>5. ASSUME OTicket!Served(t, "version_wait", loc[t].ol_old.version = loc[t].ticket) PROVE Good
  <2>1. /\ loc[t].ticket = word.version
        /\ pc[t] = "version_wait" /\ pc' = [pc EXCEPT ![t] = "crit"]
        /\ loc' = [loc EXCEPT ![t].same = (loc[t].ol_old.version = loc[t].ticket)]
        /\ UNCHANGED <<kind, word, qnode, data, queue>>
    BY <1>5 DEF OTicket!Served, OTicket!Goto
  <2>2. [loc[t] EXCEPT !.same = (loc[t].ol_old.version = loc[t].ticket)] \in Locals
    BY LocalsUpdates DEF Types
  <2>3. Types'
    BY <1>0, <2>1, <2>2, TypesStep DEF Types
  <2>4. /\ loc'[t].ol_old = loc[t].ol_old /\ loc'[t].snap = loc[t].snap
        /\ loc'[t].same = (loc[t].ol_old.version = loc[t].ticket)
        /\ \A u \in Threads \ {t} : loc'[u] = loc[u]
    BY <2>1 DEF Types, Locals
  <2>5. /\ pc[t] \in W /\ "crit" \in C /\ loc[t].ticket = word.version
        /\ \A u \in Threads \ {t} : loc'[u].ticket = loc[u].ticket
    BY <2>1, <2>4
  <2>6. TicketQueue(queue, [pc EXCEPT ![t] = "crit"], loc', word.ticket, word.version, W, C)
    <3> HIDE DEF W, C
    <3>1. QED BY <1>0, <2>5, ServeTicket
  <2>7. QueueInv' /\ MutualExclusion'
    BY <1>k, <2>1, <2>3, <2>6
  <2>8. Versions' /\ ValidatedLockIsFresh'
    BY <2>1, <2>3, <2>4, <2>7, VersionsInner
  <2>9. QED BY <2>3, <2>7, <2>8
<1>6. ASSUME OTicket!optik_trylock_version(t) PROVE Good
  <2> DEFINE w == [word EXCEPT !.ticket = OTicket!inc(word.ticket)]
  <2>1. w \in Words /\ w.ticket = inc(word.ticket) /\ w.version = word.version
    BY <1>0, Counting DEF Words
  <2>2. OTicket!Try(t, "trylock_version", "crit", loc[t].ol_old, w, TRUE)
    BY <1>6 DEF OTicket!optik_trylock_version
  <2> HIDE DEF w
  <2>3. CASE GivesUp(t, "trylock_version")
    BY <1>g, <2>3
  <2>4. CASE /\ Types'
             /\ word.ticket = word.version /\ loc[t].ol_old.version = word.version /\ word' = w
             /\ pc[t] = "trylock_version" /\ pc' = [pc EXCEPT ![t] = "crit"]
             /\ queue' = Append(queue, t)
             /\ UNCHANGED <<kind, data>>
             /\ loc'[t].same = TRUE /\ loc'[t].ol_old = loc[t].ol_old /\ loc'[t].snap = loc[t].snap
             /\ \A u \in Threads \ {t} : loc'[u] = loc[u]
    <3>1. QueueInv' /\ MutualExclusion'
      BY <1>t, <2>1, <2>4
    <3>2. Versions' /\ ValidatedLockIsFresh'
      BY <2>1, <2>4, <3>1, VersionsInner
    <3>3. QED BY <2>4, <3>1, <3>2
  <2>5. QED BY <1>0, <2>1, <2>2, <2>3, <2>4, TrySteps
<1>7. ASSUME OTicket!optik_trylock(t) PROVE Good
  <2>1. CASE GivesUp(t, "try_cas")
    BY <1>g, <2>1
  <2>2. CASE /\ Types'
             /\ pc[t] = "trylock" /\ pc' = [pc EXCEPT ![t] = "try_cas"]
             /\ UNCHANGED <<kind, word, data, queue>>
             /\ loc'[t].ol_old = loc[t].ol_old /\ loc'[t].snap = loc[t].snap
             /\ \A u \in Threads \ {t} : loc'[u] = loc[u]
    <3>1. QueueInv' /\ MutualExclusion'
      BY <1>o, <2>2
    <3>2. Versions' /\ ValidatedLockIsFresh'
      BY <2>2, <3>1, VersionsInner
    <3>3. QED BY <2>2, <3>1, <3>2
  <2>3. CASE /\ Types'
             /\ word.ticket = word.version
             /\ word'.ticket = inc(word.ticket) /\ word'.version = word.version
             /\ pc[t] = "try_cas" /\ pc' = [pc EXCEPT ![t] = "crit"]
             /\ queue' = Append(queue, t)
             /\ UNCHANGED <<kind, data>>
             /\ ~loc'[t].same /\ loc'[t].ol_old = loc[t].ol_old /\ loc'[t].snap = loc[t].snap
             /\ \A u \in Threads \ {t} : loc'[u] = loc[u]
    <3>1. QueueInv' /\ MutualExclusion'
      BY <1>t, <2>3
    <3>2. Versions' /\ ValidatedLockIsFresh'
      BY <2>3, <3>1, VersionsInner
    <3>3. QED BY <2>3, <3>1, <3>2
  <2>4. QED BY <1>7, <2>1, <2>2, <2>3, TrylockSteps
<1>8. ASSUME OTicket!optik_unlock(t) PROVE Good
  <2> DEFINE w == [word EXCEPT !.version = OTicket!inc(word.version)]
  <2>1. w \in Words /\ w.version = inc(word.version) /\ w.ticket = word.ticket
    BY <1>0, Counting DEF Words
  <2>2. PICK from \in {"crit", "wrote"} : Unlocks(t, from, w)
    BY <1>8, SameSteps DEF OTicket!optik_unlock
  <2> HIDE DEF w
  <2>3. /\ Types'
        /\ pc[t] = from /\ pc' = [pc EXCEPT ![t] = "idle"]
        /\ loc' = [loc EXCEPT ![t] = NoLocals] /\ word' = w /\ queue' = Tail(queue)
        /\ UNCHANGED <<kind, data>>
        /\ \A u \in Threads \ {t} : loc'[u] = loc[u]
    BY <2>1, <2>2, UnlockSteps
  <2>4. pc[t] \in C /\ "idle" \notin W \cup C
    BY <2>3
  <2>5. TicketQueue(Tail(queue), [pc EXCEPT ![t] = "idle"], loc', word.ticket, inc(word.version), W, C)
    <3> HIDE DEF W, C
    <3>1. QED BY <1>0, <2>3, <2>4, NextTicket
  <2>6. QueueInv'
    BY <1>k, <2>1, <2>3, <2>5
  <2>7. Versions' /\ ValidatedLockIsFresh'
    BY <2>1, <2>3, VersionsRelease
  <2>8. QED BY <2>3, <2>6, <2>7
<1>9. ~OTicket!optik_revert(t)
  BY DEF OTicket!optik_revert
<1>10. QED
  <2>1. /\ ~OTicket!optik_trylock_vdelete(t) /\ ~OTicket!optik_lock_if_not_deleted(t)
        /\ ~OTicket!optik_lock_vdelete(t)
    BY <1>0, Callers
  <2>2. OTicket!optik_lock_version(t) => Good
    BY <1>4, <1>5 DEF OTicket!optik_lock_version
  <2> HIDE DEF Good
  <2>3. QED BY <1>1, <1>2, <1>3, <1>6, <1>7, <1>8, <1>9, <2>1, <2>2 DEF OTicket!Step, Good

\* The OPTIK ticket lock with the functions that only try is free exactly when nobody has
\* it, and keeps its versions.
LEMMA TryKeeps ==
  ASSUME Types, TryInv, Versions, ValidatedLockIsFresh, kind = "OPTIK_TICKET_TRY", NEW t \in Threads,
         Call(t) \/ OTicket!Step(t) \/ ReadData(t) \/ WriteData(t)
  PROVE  Types' /\ TryInv' /\ Versions' /\ ValidatedLockIsFresh'
<1> DEFINE S == {"idle", "peek", "trylock_version", "trylock_vdelete", "trylock", "try_cas",
                 "crit", "wrote", "dead"}
           Good == Types' /\ TryInv' /\ Versions' /\ ValidatedLockIsFresh'
<1>0. /\ word.version \in Tickets /\ word.ticket \in Tickets /\ word \in Words
      /\ pc \in [Threads -> Labels] /\ pc[t] \in S /\ S \subseteq Labels
  BY DEF Types, Words, TryInv, Labels, Within
\* A step of t that holds neither before nor after it, or both.
<1>o. ASSUME NEW to \in S, pc' = [pc EXCEPT ![t] = to], UNCHANGED word,
             \/ ~Holds(t) /\ to \notin {"crit", "wrote", "dead"}
             \/ pc[t] = "crit" /\ to = "wrote"
      PROVE  TryInv' /\ MutualExclusion'
  <2>1. \A u \in Threads : Holds(u)' <=> Holds(u)
    BY <1>0, <1>o DEF Holds
  <2>2. MutualExclusion'
    BY <2>1 DEF MutualExclusion, TryInv
  <2>3. Within(S)' /\ \A u \in Threads : pc'[u] \in {"crit", "wrote"} => pc[u] \in {"crit", "wrote"}
    BY <1>0, <1>o DEF Within, TryInv, Holds
  <2>4. QED BY <1>o, <2>1, <2>2, <2>3 DEF TryInv
\* A free lock is taken.
<1>t. ASSUME NEW to \in {"crit", "dead"}, pc' = [pc EXCEPT ![t] = to], word.ticket = word.version,
             word'.ticket # word'.version, to = "crit" => word'.ticket = inc(word'.version)
      PROVE  TryInv' /\ MutualExclusion'
  <2>1. \A u \in Threads : ~Holds(u)
    BY <1>t DEF TryInv
  <2>2. \A u \in Threads : Holds(u)' <=> u = t
    BY <1>0, <1>t, <2>1 DEF Holds
  <2>3. MutualExclusion'
    BY <2>2 DEF MutualExclusion
  <2>4. Within(S)' /\ \A u \in Threads : pc'[u] \in {"crit", "wrote"} => u = t /\ to = "crit"
    BY <1>0, <1>t, <2>2 DEF Within, TryInv, Holds
  <2>5. QED BY <1>t, <2>2, <2>3, <2>4 DEF TryInv
\* The lock is given back.
<1>r. ASSUME Holds(t), pc' = [pc EXCEPT ![t] = "idle"], word'.ticket = word'.version
      PROVE  TryInv'
  <2>1. \A u \in Threads : ~Holds(u)'
    BY <1>0, <1>r DEF TryInv, MutualExclusion, Holds
  <2>2. MutualExclusion'
    BY <2>1 DEF MutualExclusion
  <2>3. Within(S)' /\ \A u \in Threads : pc'[u] \notin {"crit", "wrote"}
    BY <1>0, <1>r, <2>1 DEF Within, TryInv, Holds
  <2>4. QED BY <1>r, <2>1, <2>2, <2>3 DEF TryInv
<1>g. ASSUME NEW from \in {"trylock_version", "trylock_vdelete", "try_cas"}, GivesUp(t, from) PROVE Good
  <2>1. /\ Types'
        /\ pc[t] = from /\ pc' = [pc EXCEPT ![t] = "idle"]
        /\ loc' = [loc EXCEPT ![t] = NoLocals]
        /\ UNCHANGED <<kind, word, data, queue>>
    BY <1>g, GiveUpSteps
  <2>2. TryInv'
    BY <1>o, <2>1 DEF Holds
  <2>3. Versions' /\ ValidatedLockIsFresh'
    BY <2>1, VersionsLeave
  <2>4. QED BY <2>1, <2>2, <2>3
<1>1. ASSUME Call(t) PROVE Good
  <2>1. /\ Types'
        /\ pc[t] = "idle" /\ pc' = [pc EXCEPT ![t] = "peek"] /\ word.version < MaxVersion
        /\ loc' = [loc EXCEPT ![t].ol_old = word]
        /\ UNCHANGED <<kind, word, data, queue>>
    BY <1>1, PeekSteps DEF Versioned
  <2>2. TryInv'
    BY <1>o, <2>1 DEF Holds
  <2>3. Versions' /\ ValidatedLockIsFresh'
    BY <2>1, VersionsPeek
  <2>4. QED BY <2>1, <2>2, <2>3
<1>2. ASSUME ReadData(t) PROVE Good
  <2> DEFINE F == {"trylock_version", "trylock", "trylock_vdelete"}
  <2>1. /\ F \subseteq {"lock_version", "trylock_version", "trylock", "trylock_vdelete"}
        /\ F = IF kind = "OPTIK_SEPARATE" THEN Separate!Functions ELSE OTicket!Functions
    BY DEF OTicket!Functions
  <2>2. PICK f \in F :
        /\ Types'
        /\ pc[t] = "peek" /\ pc' = [pc EXCEPT ![t] = f]
        /\ loc' = [loc EXCEPT ![t].snap = data, ![t].by = f]
        /\ UNCHANGED <<kind, word, data, queue>>
    <3> HIDE DEF F
    <3>1. QED BY <1>2, <2>1, ReadSteps
  <2>3. TryInv'
    BY <1>o, <2>2 DEF Holds
  <2>4. Versions' /\ ValidatedLockIsFresh'
    BY <2>1, <2>2, VersionsRead
  <2>5. QED BY <2>2, <2>3, <2>4
<1>3. ASSUME WriteData(t) PROVE Good
  <2>1. Types' /\ pc[t] = "crit" /\ pc' = [pc EXCEPT ![t] = "wrote"] /\ UNCHANGED <<kind, word, loc, queue>>
    BY <1>3, WriteSteps
  <2>2. TryInv' /\ MutualExclusion'
    BY <1>o, <2>1
  <2>3. Versions' /\ ValidatedLockIsFresh'
    BY <1>3, <2>1, <2>2, VersionsWrite
  <2>4. QED BY <2>1, <2>2, <2>3
\* The two functions that compare the version, and differ in what they write.
<1>4. ASSUME NEW from \in {"trylock_version", "trylock_vdelete"}, NEW to \in {"crit", "dead"},
             NEW n \in Tickets, OTicket!Try(t, from, to, loc[t].ol_old, [word EXCEPT !.ticket = n], TRUE),
             loc[t].ol_old.version = word.version /\ word.ticket = word.version => n # word.version,
             to = "crit" => n = inc(word.ticket)
      PROVE  Good
  <2> DEFINE w == [word EXCEPT !.ticket = n]
  <2>1. w \in Words /\ w.ticket = n /\ w.version = word.version /\ to \in Labels
    BY <1>0 DEF Words
  <2>2. OTicket!Try(t, from, to, loc[t].ol_old, w, TRUE)
    BY <1>4
  <2> HIDE DEF w
  <2>3. CASE GivesUp(t, from)
    BY <1>g, <2>3
  <2>4. CASE /\ Types'
             /\ word.ticket = word.version /\ loc[t].ol_old.version = word.version /\ word' = w
             /\ pc[t] = from /\ pc' = [pc EXCEPT ![t] = to]
             /\ queue' = Append(queue, t)
             /\ UNCHANGED <<kind, data>>
             /\ loc'[t].same = TRUE /\ loc'[t].ol_old = loc[t].ol_old /\ loc'[t].snap = loc[t].snap
             /\ \A u \in Threads \ {t} : loc'[u] = loc[u]
    <3>1. TryInv' /\ MutualExclusion'
      BY <1>t, <1>4, <2>1, <2>4
    <3>2. Versions' /\ ValidatedLockIsFresh'
      BY <2>1, <2>4, <3>1, VersionsInner
    <3>3. QED BY <2>4, <3>1, <3>2
  <2>5. QED BY <2>1, <2>2, <2>3, <2>4, TrySteps
<1>5. ASSUME OTicket!optik_trylock_version(t) PROVE Good
  <2>1. OTicket!inc(word.ticket) \in Tickets /\ OTicket!inc(word.ticket) = inc(word.ticket)
        /\ inc(word.ticket) # word.ticket
    BY <1>0, Counting
  <2>2. OTicket!Try(t, "trylock_version", "crit", loc[t].ol_old, [word EXCEPT !.ticket = inc(word.ticket)], TRUE)
    BY <1>5, <2>1 DEF OTicket!optik_trylock_version
  <2>3. QED BY <1>4, <2>1, <2>2
<1>6. ASSUME OTicket!optik_trylock_vdelete(t) PROVE Good
  <2> DEFINE v == loc[t].ol_old.version
  <2>1. v \in Tickets
    BY DEF Types, Locals, Words
  <2>2. OTicket!dec(v) \in Tickets /\ OTicket!dec(v) # v
    BY <2>1, Counting
  <2>3. OTicket!Try(t, "trylock_vdelete", "dead", loc[t].ol_old, [word EXCEPT !.ticket = OTicket!dec(v)], TRUE)
    BY <1>6 DEF OTicket!optik_trylock_vdelete
  <2>4. QED BY <1>4, <2>2, <2>3
<1>7. ASSUME OTicket!optik_trylock(t) PROVE Good
  <2>1. CASE GivesUp(t, "try_cas")
    BY <1>g, <2>1
  <2>2. CASE /\ Types'
             /\ pc[t] = "trylock" /\ pc' = [pc EXCEPT ![t] = "try_cas"]
             /\ UNCHANGED <<kind, word, data, queue>>
             /\ loc'[t].ol_old = loc[t].ol_old /\ loc'[t].snap = loc[t].snap
             /\ \A u \in Threads \ {t} : loc'[u] = loc[u]
    <3>1. TryInv' /\ MutualExclusion'
      BY <1>o, <2>2 DEF Holds
    <3>2. Versions' /\ ValidatedLockIsFresh'
      BY <2>2, <3>1, VersionsInner
    <3>3. QED BY <2>2, <3>1, <3>2
  <2>3. CASE /\ Types'
             /\ word.ticket = word.version
             /\ word'.ticket = inc(word.ticket) /\ word'.version = word.version
             /\ pc[t] = "try_cas" /\ pc' = [pc EXCEPT ![t] = "crit"]
             /\ queue' = Append(queue, t)
             /\ UNCHANGED <<kind, data>>
             /\ ~loc'[t].same /\ loc'[t].ol_old = loc[t].ol_old /\ loc'[t].snap = loc[t].snap
             /\ \A u \in Threads \ {t} : loc'[u] = loc[u]
    <3>1. TryInv' /\ MutualExclusion'
      BY <1>0, <1>t, <2>3, Counting
    <3>2. Versions' /\ ValidatedLockIsFresh'
      BY <2>3, <3>1, VersionsInner
    <3>3. QED BY <2>3, <3>1, <3>2
  <2>4. QED BY <1>7, <2>1, <2>2, <2>3, TrylockSteps
<1>8. ASSUME OTicket!optik_unlock(t) PROVE Good
  <2> DEFINE w == [word EXCEPT !.version = OTicket!inc(word.version)]
  <2>1. w \in Words /\ w.version = inc(word.version) /\ w.ticket = word.ticket
    BY <1>0, Counting DEF Words
  <2>2. PICK from \in {"crit", "wrote"} : Unlocks(t, from, w)
    BY <1>8, SameSteps DEF OTicket!optik_unlock
  <2> HIDE DEF w
  <2>3. /\ Types'
        /\ pc[t] = from /\ pc' = [pc EXCEPT ![t] = "idle"]
        /\ loc' = [loc EXCEPT ![t] = NoLocals] /\ word' = w
        /\ UNCHANGED <<kind, data>>
    BY <2>1, <2>2, UnlockSteps
  <2>4. word.ticket = inc(word.version) /\ Holds(t)
    BY <2>3 DEF TryInv, Holds
  <2>5. TryInv'
    BY <1>r, <2>1, <2>3, <2>4
  <2>6. Versions' /\ ValidatedLockIsFresh'
    BY <2>1, <2>3, VersionsRelease
  <2>7. QED BY <2>3, <2>5, <2>6
<1>9. ASSUME OTicket!optik_revert(t) PROVE Good
  <2> DEFINE w == [word EXCEPT !.ticket = OTicket!dec(word.ticket)]
  <2>1. w \in Words /\ w.version = word.version /\ w.ticket = dec(word.ticket)
    BY <1>0, Counting DEF Words
  <2>2. Unlocks(t, "crit", w)
    BY <1>9, SameSteps DEF OTicket!optik_revert
  <2> HIDE DEF w
  <2>3. /\ Types'
        /\ pc[t] = "crit" /\ pc' = [pc EXCEPT ![t] = "idle"]
        /\ loc' = [loc EXCEPT ![t] = NoLocals] /\ word' = w
        /\ UNCHANGED <<kind, data>>
    BY <2>1, <2>2, UnlockSteps
  <2>4. word.ticket = inc(word.version) /\ Holds(t)
    BY <2>3 DEF TryInv, Holds
  <2>5. dec(word.ticket) = word.version
    BY <1>0, <2>4, Counting
  <2>6. TryInv'
    BY <1>r, <2>1, <2>3, <2>4, <2>5
  <2>7. Versions' /\ ValidatedLockIsFresh'
    BY <2>1, <2>3, VersionsLeave
  <2>8. QED BY <2>3, <2>6, <2>7
<1>10. QED
  <2>1. /\ ~OTicket!optik_lock_version(t) /\ ~OTicket!optik_lock_if_not_deleted(t)
        /\ ~OTicket!optik_lock_vdelete(t)
    BY <1>0, Callers
  <2> HIDE DEF Good
  <2>2. QED BY <1>1, <1>2, <1>3, <1>5, <1>6, <1>7, <1>8, <1>9, <2>1 DEF OTicket!Step, Good

\* The counter of tickets stays below INT_MAX, also for those who have yet to draw.
LEMMA DeleteBound ==
  ASSUME Types, DeleteInv
  PROVE  /\ IsFiniteSet(Drawers) /\ Cardinality(Drawers) \in Nat
         /\ word.ticket \in Nat /\ word.version \in Nat /\ OTicket!INT_MAX \in Nat /\ TicketMod \in Nat
         /\ word.ticket < OTicket!INT_MAX /\ OTicket!INT_MAX < TicketMod
<1>1. Drawers \in SUBSET Threads /\ IsFiniteSet(Threads)
  BY LockAssumption DEF Drawers
<1>2. IsFiniteSet(Drawers) /\ Cardinality(Drawers) \in Nat
  BY <1>1, FS_Subset, FS_CardinalityType
<1>3. /\ word.ticket \in Nat /\ word.version \in Nat /\ OTicket!INT_MAX \in Nat /\ TicketMod \in Nat
      /\ Cardinality(Threads) \in Nat /\ MaxVersion \in Nat
      /\ MaxVersion + Cardinality(Threads) < OTicket!INT_MAX /\ OTicket!INT_MAX < TicketMod
  BY Constants DEF Types, Words, Tickets
<1>4. word.ticket + Cardinality(Drawers) <= MaxVersion + Cardinality(Threads)
  BY DEF DeleteInv
<1> DEFINE d == Cardinality(Drawers)
           m == MaxVersion + Cardinality(Threads)
<1>5. d \in Nat /\ m \in Nat /\ word.ticket + d <= m /\ m < OTicket!INT_MAX
  BY <1>2, <1>3, <1>4
<1> HIDE DEF d, m
<1>6. word.ticket < OTicket!INT_MAX
  BY <1>3, <1>5
<1>7. QED BY <1>2, <1>3, <1>6

\* The bound on the tickets, after a thread has left the drawers or stays one.
LEMMA DrawersStay ==
  ASSUME Types, Types', DeleteInv, NEW t \in Threads, NEW to, pc' = [pc EXCEPT ![t] = to],
         word'.ticket = word.ticket,
         t \in Drawers \/ to \notin {"lock_if_not_deleted", "if_draw", "lock_vdelete", "vdelete_draw"}
  PROVE  word'.ticket + Cardinality(Drawers') <= MaxVersion + Cardinality(Threads)
<1>1. Drawers' \in SUBSET Drawers
  BY DEF Drawers, Types
<1>2. /\ IsFiniteSet(Drawers) /\ Cardinality(Drawers) \in Nat /\ word.ticket \in Nat
      /\ Cardinality(Threads) \in Nat /\ MaxVersion \in Nat
  BY DeleteBound, Constants
<1>3. Cardinality(Drawers') <= Cardinality(Drawers) /\ Cardinality(Drawers') \in Nat
  BY <1>1, <1>2, FS_Subset, FS_CardinalityType
<1> DEFINE d == Cardinality(Drawers)
           e == Cardinality(Drawers')
           m == MaxVersion + Cardinality(Threads)
<1>4. d \in Nat /\ e \in Nat /\ e <= d /\ m \in Nat /\ word.ticket + d <= m
  BY <1>2, <1>3 DEF DeleteInv
<1>5. word.ticket + e <= m
  <2> HIDE DEF d, e, m
  <2>1. QED BY <1>2, <1>4
<1>6. QED BY <1>5

\* The bound on the tickets, after a drawer has drawn its ticket.
LEMMA DrawersDraw ==
  ASSUME Types, Types', DeleteInv, NEW t \in Drawers, NEW to \in DeleteWaits, pc' = [pc EXCEPT ![t] = to],
         word'.ticket = inc(word.ticket)
  PROVE  /\ word'.ticket + Cardinality(Drawers') <= MaxVersion + Cardinality(Threads)
         /\ word'.ticket = word.ticket + 1
<1>1. Drawers' = Drawers \ {t}
  BY DEF Drawers, Types, DeleteWaits
<1>2. /\ IsFiniteSet(Drawers) /\ Cardinality(Drawers) \in Nat /\ word.ticket \in Nat
      /\ word.ticket < OTicket!INT_MAX /\ OTicket!INT_MAX < TicketMod
      /\ OTicket!INT_MAX \in Nat /\ TicketMod \in Nat
      /\ Cardinality(Threads) \in Nat /\ MaxVersion \in Nat
  BY DeleteBound, Constants
<1>3. Cardinality(Drawers') = Cardinality(Drawers) - 1
  BY <1>1, <1>2, FS_RemoveElement
<1>4. word'.ticket = word.ticket + 1
  <2>1. word.ticket + 1 \in 0..(TicketMod - 1)
    BY <1>2
  <2>2. QED BY <1>2, <2>1 DEF inc
<1> DEFINE d == Cardinality(Drawers)
           e == Cardinality(Drawers')
           m == MaxVersion + Cardinality(Threads)
<1>5. d \in Nat /\ e = d - 1 /\ m \in Nat /\ word.ticket + d <= m
  BY <1>2, <1>3 DEF DeleteInv
<1>6. word.ticket + 1 + e <= m
  <2> HIDE DEF d, e, m
  <2>1. QED BY <1>2, <1>5
<1>7. QED BY <1>4, <1>6

\* The bound on the tickets, after the call of one of the functions: those who have drawn
\* and those who will are different threads.
LEMMA DrawersCall ==
  ASSUME Types, Types', DeleteInv, NEW t \in Threads, pc[t] = "idle",
         NEW to \in {"lock_if_not_deleted", "lock_vdelete"}, pc' = [pc EXCEPT ![t] = to],
         UNCHANGED word, word.version < MaxVersion
  PROVE  word'.ticket + Cardinality(Drawers') <= MaxVersion + Cardinality(Threads)
<1> DEFINE S == DeleteWaits \cup DeleteHolds
           In == {u \in Threads : pc[u] \in S}
           e == Cardinality(Drawers')
           n == Cardinality(Threads)
           k == Len(queue)
<1>1. /\ word.ticket \in Nat /\ word.version \in Nat /\ OTicket!INT_MAX \in Nat /\ TicketMod \in Nat
      /\ n \in Nat /\ MaxVersion \in Nat /\ MaxVersion + n < OTicket!INT_MAX /\ OTicket!INT_MAX < TicketMod
  BY DeleteBound, Constants
<1>2. word.version # OTicket!INT_MAX
  BY <1>1
<1>3. TicketQueue(queue, pc, loc, word.ticket, word.version, DeleteWaits, DeleteHolds)
  BY <1>2 DEF DeleteInv
<1>4. Queue(queue, pc, S) /\ word.ticket = After(word.version, k)
  BY <1>3 DEF TicketQueue
<1>5. k \in Nat /\ k <= n /\ Cardinality(In) = k
  BY <1>4, QueueLength
<1>6. word.ticket = word.version + k
  <2> HIDE DEF k, n
  <2>1. QED BY <1>1, <1>4, <1>5 DEF After
<1>7. /\ In \in SUBSET Threads /\ Drawers' \in SUBSET Threads /\ In \cup Drawers' \in SUBSET Threads
      /\ IsFiniteSet(Threads)
  BY LockAssumption DEF Drawers
<1>8. In \cap Drawers' = {}
  BY DEF Drawers, Types, DeleteWaits, DeleteHolds
<1>9. /\ IsFiniteSet(In) /\ IsFiniteSet(Drawers') /\ e \in Nat
      /\ Cardinality(In \cup Drawers') <= n
  BY <1>7, FS_Subset, FS_CardinalityType
<1>10. k + e <= n
  <2>1. Cardinality(In \cup Drawers') = Cardinality(In) + Cardinality(Drawers') - Cardinality(In \cap Drawers')
    BY <1>9, FS_Union
  <2>2. Cardinality(In \cap Drawers') = 0
    BY <1>8, FS_EmptySet
  <2> DEFINE x == Cardinality(In \cup Drawers')
  <2>3. x = k + e - 0 /\ x <= n
    BY <1>5, <1>9, <2>1, <2>2
  <2> HIDE DEF x, k, e, n
  <2>4. QED BY <1>1, <1>5, <1>9, <2>3
<1>11. word.ticket + e <= MaxVersion + n
  <2> HIDE DEF k, e, n
  <2>1. QED BY <1>1, <1>5, <1>6, <1>9, <1>10
<1>12. QED BY <1>11

\* A thread that gives up after it has drawn a ticket leaves the head of the queue alone.
LEMMA WithoutHead ==
  ASSUME NEW n \in DOMAIN queue, queue \in Seq(Threads), n # 1
  PROVE  /\ OTicket!Without(n) \in Seq(Threads) /\ OTicket!Without(n) # <<>>
         /\ OTicket!Without(n)[1] = queue[1]
<1> DEFINE w == [j \in 1..(Len(queue) - 1) |-> queue[IF j < n THEN j ELSE j + 1]]
<1>1. Len(queue) \in Nat /\ n \in 1..Len(queue) /\ n > 1 /\ \A i \in 1..Len(queue) : queue[i] \in Threads
  OBVIOUS
<1>2. Len(queue) - 1 \in Nat /\ \A j \in 1..(Len(queue) - 1) : (IF j < n THEN j ELSE j + 1) \in 1..Len(queue)
  BY <1>1
<1>3. w \in [1..(Len(queue) - 1) -> Threads]
  BY <1>1, <1>2
<1>4. w \in Seq(Threads)
  BY <1>2, <1>3
<1>5. 1 \in 1..(Len(queue) - 1)
  BY <1>1
<1>6. w[1] = queue[1] /\ DOMAIN w = 1..(Len(queue) - 1)
  BY <1>1, <1>5
<1>7. w # <<>>
  <2>1. Len(w) = Len(queue) - 1
    BY <1>2, <1>4, <1>6
  <2> HIDE DEF w
  <2>2. QED BY <1>4, <1>5, <2>1, EmptySeq
<1>8. QED BY <1>4, <1>6, <1>7 DEF OTicket!Without

\* The OPTIK ticket lock with the functions that delete is a ticket lock until it is
\* deleted, and then it stays so.
LEMMA DeleteKeeps ==
  ASSUME Types, DeleteInv, kind = "OPTIK_TICKET_DELETE", NEW t \in Threads,
         Call(t) \/ OTicket!Step(t)
  PROVE  Types' /\ DeleteInv'
<1> DEFINE W == DeleteWaits
           C == DeleteHolds
           D == {"lock_if_not_deleted", "if_draw", "lock_vdelete", "vdelete_draw"}
           S == {"idle", "lock_if_not_deleted", "if_draw", "lock_vdelete", "vdelete_draw", "dead"}
                  \cup DeleteWaits \cup DeleteHolds
           Bound == word.ticket + Cardinality(Drawers) <= MaxVersion + Cardinality(Threads)
           Alive == word.version # OTicket!INT_MAX
           Good == Types' /\ DeleteInv'
<1>0. /\ W = {"if_wait", "vdelete_wait"} /\ C = {"crit", "vdelete"} /\ W \cap C = {}
      /\ word.version \in Tickets /\ word.ticket \in Tickets /\ word \in Words
      /\ pc \in [Threads -> Labels] /\ pc[t] \in S /\ S \subseteq Labels
      /\ loc \in [Threads -> Locals]
  BY DEF Types, Words, DeleteInv, Labels, Within, DeleteWaits, DeleteHolds
<1>a. Alive => /\ word.version <= word.ticket /\ \A u \in Threads : pc[u] # "dead"
               /\ TicketQueue(queue, pc, loc, word.ticket, word.version, W, C)
  BY DEF DeleteInv
<1>b. /\ word.ticket \in Nat /\ word.version \in Nat /\ OTicket!INT_MAX \in Nat /\ TicketMod \in Nat
      /\ word.ticket < OTicket!INT_MAX /\ OTicket!INT_MAX < TicketMod
      /\ MaxVersion < OTicket!INT_MAX /\ MaxVersion \in Nat
  BY DeleteBound, Constants
\* What is left to show of a step of t that leaves the lock alive.
<1>k. ASSUME NEW to \in S, to # "dead", pc' = [pc EXCEPT ![t] = to], Alive, Alive', Bound',
             word'.version <= word'.ticket, to \in W => loc'[t].ticket < OTicket!INT_MAX,
             \A u \in Threads \ {t} : loc'[u] = loc[u],
             TicketQueue(queue', [pc EXCEPT ![t] = to], loc', word'.ticket, word'.version, W, C)
      PROVE  DeleteInv'
  <2>1. pc'[t] = to /\ \A u \in Threads \ {t} : pc'[u] = pc[u]
    BY <1>0, <1>k
  <2>2. Within(S)' /\ \A u \in Threads : pc'[u] # "dead"
    BY <1>a, <1>k, <2>1 DEF Within, DeleteInv
  <2>3. \A u \in Threads : pc'[u] \in DeleteWaits => loc'[u].ticket < OTicket!INT_MAX
    BY <1>k, <2>1 DEF DeleteInv
  <2>4. QED BY <1>k, <2>2, <2>3 DEF DeleteInv
\* What is left to show of a step of t after the lock has been deleted.
<1>d. ASSUME NEW to \in S, to \notin C \cup {"dead"}, pc[t] # "dead", pc' = [pc EXCEPT ![t] = to],
             ~Alive, word'.version = word.version, Bound',
             to \in W => loc'[t].ticket < OTicket!INT_MAX,
             \A u \in Threads \ {t} : loc'[u] = loc[u],
             \/ UNCHANGED queue \/ queue' = Append(queue, t)
             \/ \E n \in DOMAIN queue : queue[n] = t /\ queue' = OTicket!Without(n)
      PROVE  DeleteInv'
  <2>1. pc'[t] = to /\ \A u \in Threads \ {t} : pc'[u] = pc[u]
    BY <1>0, <1>d
  <2>2. Within(S)'
    BY <1>d, <2>1 DEF Within, DeleteInv
  <2>3. \A u \in Threads : pc'[u] \in DeleteWaits => loc'[u].ticket < OTicket!INT_MAX
    BY <1>d, <2>1 DEF DeleteInv
  <2>4. PICK v \in Threads : /\ pc[v] = "dead"
                             /\ queue \in Seq(Threads) /\ queue # <<>> /\ queue[1] = v
                             /\ \A u \in Threads \ {v} : pc[u] \notin C \cup {"dead"}
    BY <1>d DEF DeleteInv
  <2>5. v # t
    BY <1>d, <2>4
  <2>6. queue' \in Seq(Threads) /\ queue' # <<>> /\ queue'[1] = v
    <3>1. CASE UNCHANGED queue
      BY <2>4, <3>1
    <3>2. CASE queue' = Append(queue, t)
      <4>1. Len(queue) \in Nat /\ 1 \in 1..Len(queue)
        BY <2>4, EmptySeq
      <4>2. queue' \in Seq(Threads) /\ queue' # <<>> /\ queue'[1] = queue[1]
        BY <2>4, <3>2, <4>1, AppendProperties
      <4>3. QED BY <2>4, <4>2
    <3>3. ASSUME NEW n \in DOMAIN queue, queue[n] = t, queue' = OTicket!Without(n)
          PROVE  queue' \in Seq(Threads) /\ queue' # <<>> /\ queue'[1] = v
      <4>1. n # 1
        BY <2>4, <2>5, <3>3
      <4>2. QED BY <2>4, <3>3, <4>1, WithoutHead
    <3>4. QED BY <1>d, <3>1, <3>2, <3>3
  <2>7. pc'[v] = "dead" /\ \A u \in Threads \ {v} : pc'[u] \notin C \cup {"dead"}
    BY <1>d, <2>1, <2>4, <2>5
  <2>8. QED BY <1>d, <2>2, <2>3, <2>4, <2>6, <2>7 DEF DeleteInv
<1>1. ASSUME Call(t) PROVE Good
  <2>1. PICK f \in {"lock_if_not_deleted", "lock_vdelete"} : OTicket!Calls(t, f) \/ Calls(t, f)
    BY <1>1 DEF Call, Plain, Versioned, OTicket!Functions
  <2>2. Calls(t, f) /\ word.version < MaxVersion
    BY <1>1, <2>1 DEF Call, Plain, Versioned, Calls, OTicket!Calls, Goto, OTicket!Goto
  <2>3. Types'
    BY <2>2, <1>0, CallsTypes
  <2>4. /\ pc[t] = "idle" /\ pc' = [pc EXCEPT ![t] = f] /\ UNCHANGED <<word, queue>>
        /\ \A u \in Threads \ {t} : loc'[u] = loc[u]
    BY <1>0, <2>2 DEF Calls, Goto
  <2>5. Bound'
    BY <2>2, <2>3, <2>4, DrawersCall
  <2>6. Alive /\ Alive'
    BY <1>b, <2>2, <2>4
  <2>7. pc[t] \notin W \cup C /\ f \notin W \cup C
    BY <1>0, <2>4
  <2>8. TicketQueue(queue, [pc EXCEPT ![t] = f], loc', word.ticket, word.version, W, C)
    <3> HIDE DEF W, C
    <3>1. QED BY <1>0, <1>a, <2>4, <2>6, <2>7, KeepTicket
  <2>9. DeleteInv'
    BY <1>a, <1>k, <2>4, <2>5, <2>6, <2>7, <2>8
  <2>10. QED BY <2>3, <2>9
\* The functions up to the lock.
<1>2. ASSUME NEW f \in {"lock_if_not_deleted", "lock_vdelete"}, NEW draw \in {"if_draw", "vdelete_draw"},
             NEW wait \in DeleteWaits, NEW got \in DeleteHolds, OTicket!NotDeleted(t, f, draw, wait, got)
      PROVE  Good
  <2>1. CASE word.version = OTicket!INT_MAX /\ GivesUp(t, f)
    <3>1. /\ Types'
          /\ pc[t] = f /\ pc' = [pc EXCEPT ![t] = "idle"]
          /\ UNCHANGED <<kind, word, data, queue>>
          /\ \A u \in Threads \ {t} : loc'[u] = loc[u]
      BY <2>1, GiveUpSteps
    <3>2. Bound'
      BY <3>1, DrawersStay
    <3>3. QED BY <1>0, <1>d, <2>1, <3>1, <3>2
  <2>2. CASE word.version # OTicket!INT_MAX /\ Looks(t, f, draw)
    <3>1. Types'
      BY <1>0, <2>2, LooksTypes
    <3>2. pc[t] = f /\ pc' = [pc EXCEPT ![t] = draw] /\ UNCHANGED <<word, queue, loc>>
      BY <2>2 DEF Looks, Goto
    <3>3. t \in Drawers
      BY <3>2 DEF Drawers
    <3>4. Bound'
      BY <3>1, <3>2, <3>3, DrawersStay
    <3>5. pc[t] \notin W \cup C /\ draw \notin W \cup C
      BY <1>0, <3>2
    <3>6. TicketQueue(queue, [pc EXCEPT ![t] = draw], loc', word.ticket, word.version, W, C)
      <4> HIDE DEF W, C
      <4>1. QED BY <1>0, <1>a, <2>2, <3>2, <3>5, KeepTicket
    <3>7. DeleteInv'
      BY <1>a, <1>k, <2>2, <3>2, <3>4, <3>5, <3>6
    <3>8. QED BY <3>1, <3>7
  <2>3. CASE OTicket!Draw(t, draw, wait)
    <3>1. /\ Types'
          /\ pc[t] = draw /\ pc' = [pc EXCEPT ![t] = wait]
          /\ queue' = Append(queue, t)
          /\ word'.ticket = inc(word.ticket) /\ word'.version = word.version
          /\ loc'[t].ticket = word.ticket
          /\ \A u \in Threads \ {t} : loc'[u] = loc[u]
      BY <1>0, <2>3, DrawSteps
    <3>2. t \in Drawers
      BY <3>1 DEF Drawers
    <3>3. Bound' /\ word'.ticket = word.ticket + 1
      BY <3>1, <3>2, DrawersDraw
    <3>4. CASE Alive
      <4>1. pc[t] \notin W \cup C
        BY <1>0, <3>1
      <4>2. TicketQueue(Append(queue, t), [pc EXCEPT ![t] = wait], loc', inc(word.ticket), word.version, W, C)
        <5>1. /\ TicketQueue(queue, pc, loc, word.ticket, word.version, W, C)
              /\ \A u \in Threads \ {t} : loc'[u].ticket = loc[u].ticket
              /\ wait \in W
          BY <1>a, <3>1, <3>4
        <5> HIDE DEF W, C
        <5>2. QED BY <1>0, <3>1, <4>1, <5>1, DrawTicket
      <4>3. word'.version <= word'.ticket /\ loc'[t].ticket < OTicket!INT_MAX /\ Alive'
        BY <1>a, <1>b, <3>1, <3>3, <3>4
      <4>4. wait \in S /\ wait # "dead"
        BY <1>0
      <4>5. DeleteInv'
        BY <1>k, <3>1, <3>3, <3>4, <4>2, <4>3, <4>4
      <4>6. QED BY <3>1, <4>5
    <3>5. CASE ~Alive
      <4>1. loc'[t].ticket < OTicket!INT_MAX /\ pc[t] # "dead" /\ wait \in S /\ wait \notin C \cup {"dead"}
        BY <1>0, <1>b, <3>1
      <4>2. DeleteInv'
        BY <1>d, <3>1, <3>3, <3>5, <4>1
      <4>3. QED BY <3>1, <4>2
    <3>6. QED BY <3>4, <3>5
  <2>4. CASE /\ word.version = OTicket!INT_MAX
             /\ Leaves(t, wait)
             /\ \E n \in DOMAIN queue : queue[n] = t /\ queue' = OTicket!Without(n)
             /\ UNCHANGED word
    <3>1. Types'
      BY <2>4, LeavesTypes DEF Types
    <3>2. /\ pc[t] = wait /\ pc' = [pc EXCEPT ![t] = "idle"]
          /\ \A u \in Threads \ {t} : loc'[u] = loc[u]
      BY <1>0, <2>4 DEF Leaves, Goto
    <3>3. Bound'
      BY <2>4, <3>1, <3>2, DrawersStay
    <3>4. "idle" \in S /\ "idle" \notin W \cup C \cup {"dead"} /\ pc[t] # "dead"
      BY <1>0, <3>2
    <3>5. DeleteInv'
      BY <1>d, <2>4, <3>2, <3>3, <3>4
    <3>6. QED BY <3>1, <3>5
  <2>5. CASE loc[t].ticket = word.version /\ Looks(t, wait, got)
    <3>1. pc[t] = wait /\ pc' = [pc EXCEPT ![t] = got] /\ UNCHANGED <<word, queue, loc>>
      BY <2>5 DEF Looks, Goto
    <3>2. Types'
      <4>1. got \in Labels
        BY <1>0
      <4>2. QED BY <2>5, <4>1, LooksTypes
    <3>3. loc[t].ticket < OTicket!INT_MAX
      BY <3>1 DEF DeleteInv
    <3>4. Alive /\ Alive'
      BY <1>b, <2>5, <3>1, <3>3
    <3>5. Bound'
      <4>1. got \notin D
        BY <1>0
      <4>2. QED BY <3>1, <3>2, <4>1, DrawersStay
    <3>6. TicketQueue(queue, [pc EXCEPT ![t] = got], loc', word.ticket, word.version, W, C)
      <4>1. /\ TicketQueue(queue, pc, loc, word.ticket, word.version, W, C)
            /\ pc[t] \in W /\ got \in C /\ \A u \in Threads \ {t} : loc'[u].ticket = loc[u].ticket
        BY <1>a, <3>1, <3>4
      <4> HIDE DEF W, C
      <4>2. QED BY <1>0, <2>5, <4>1, ServeTicket
    <3>7. got \in S /\ got # "dead" /\ got \notin W
      BY <1>0
    <3>8. DeleteInv'
      BY <1>a, <1>k, <3>1, <3>4, <3>5, <3>6, <3>7
    <3>9. QED BY <3>2, <3>8
  <2>6. QED BY <1>2, <2>1, <2>2, <2>3, <2>4, <2>5, SameSteps DEF OTicket!NotDeleted
<1>3. ASSUME OTicket!Goto(t, "vdelete", "dead"), word' = [word EXCEPT !.version = OTicket!INT_MAX],
             UNCHANGED <<kind, qnode, data, loc, queue>>
      PROVE  Good
  <2>1. word' \in Words /\ word'.version = OTicket!INT_MAX /\ word'.ticket = word.ticket
    BY <1>0, <1>3, Constants DEF Words
  <2>2. pc[t] = "vdelete" /\ pc' = [pc EXCEPT ![t] = "dead"]
    BY <1>3 DEF OTicket!Goto
  <2>3. Types'
    BY <1>0, <1>3, <2>1, <2>2 DEF Types
  <2>4. Bound'
    BY <2>1, <2>2, <2>3, DrawersStay
  <2>5. Alive
    BY <1>0, <2>2 DEF DeleteInv
  <2>6. /\ TicketQueue(queue, pc, loc, word.ticket, word.version, W, C) /\ pc[t] \in C
        /\ \A u \in Threads : pc[u] # "dead"
    BY <1>0, <1>a, <2>2, <2>5
  <2>7. 1 \in 1..Len(queue) /\ queue[1] = t /\ (\A u \in Threads : pc[u] \in C => u = t)
        /\ queue \in Seq(Threads)
    <3> HIDE DEF W, C
    <3>1. queue \in Seq(Threads)
      BY <2>6, TicketQueueLength
    <3>2. 1 \in 1..Len(queue) /\ queue[1] = t /\ (\A u \in Threads : pc[u] \in C => u = t)
      BY <1>0, <2>6, ServedIsHead
    <3>3. QED BY <3>1, <3>2
  <2>8. queue # <<>>
    BY <2>7
  <2>9. pc'[t] = "dead" /\ \A u \in Threads \ {t} : pc'[u] = pc[u] /\ pc'[u] \notin C \cup {"dead"}
    BY <1>0, <2>2, <2>6, <2>7
  <2>10. Within(S)' /\ \A u \in Threads : pc'[u] \in DeleteWaits => loc'[u].ticket < OTicket!INT_MAX
    BY <1>0, <1>3, <2>2 DEF Within, DeleteInv
  <2>11. DeleteInv'
    BY <1>3, <2>1, <2>4, <2>7, <2>8, <2>9, <2>10 DEF DeleteInv
  <2>12. QED BY <2>3, <2>11
<1>4. ASSUME OTicket!optik_unlock(t) PROVE Good
  <2> DEFINE w == [word EXCEPT !.version = OTicket!inc(word.version)]
  <2>1. w \in Words /\ w.version = inc(word.version) /\ w.ticket = word.ticket
    BY <1>0, Counting DEF Words
  <2>2. PICK from \in {"crit", "wrote"} : Unlocks(t, from, w)
    BY <1>4, SameSteps DEF OTicket!optik_unlock
  <2> HIDE DEF w
  <2>3. /\ Types'
        /\ pc[t] = from /\ pc' = [pc EXCEPT ![t] = "idle"]
        /\ word' = w /\ queue' = Tail(queue)
        /\ \A u \in Threads \ {t} : loc'[u] = loc[u]
    BY <2>1, <2>2, UnlockSteps
  <2>4. pc[t] = "crit"
    BY <1>0, <2>3
  <2>5. Alive
    BY <1>0, <2>4 DEF DeleteInv
  <2>6. /\ TicketQueue(queue, pc, loc, word.ticket, word.version, W, C) /\ pc[t] \in C
        /\ word.version <= word.ticket /\ "idle" \notin W \cup C
    BY <1>0, <1>a, <2>4, <2>5
  <2>7. TicketQueue(Tail(queue), [pc EXCEPT ![t] = "idle"], loc', word.ticket, inc(word.version), W, C)
    <3> HIDE DEF W, C
    <3>1. QED BY <1>0, <2>3, <2>6, NextTicket
  <2>8. word.version < word.ticket
    <3>1. 1 \in 1..Len(queue)
      <4> HIDE DEF W, C
      <4>1. QED BY <1>0, <2>6, ServedIsHead
    <3>2. Len(queue) \in 0..(TicketMod - 1) /\ word.ticket = After(word.version, Len(queue))
      <4>1. Len(queue) \in 0..(TicketMod - 1)
        BY <2>6, TicketQueueLength
      <4>2. QED BY <2>6, <4>1 DEF TicketQueue
    <3>3. After(word.version, Len(queue)) = word.version => Len(queue) = 0
      BY <1>0, <3>2, Places
    <3>4. word.ticket # word.version
      BY <3>1, <3>2, <3>3
    <3>5. QED BY <1>b, <2>6, <3>4
  <2>9. inc(word.version) = word.version + 1
    <3>1. word.version + 1 \in 0..(TicketMod - 1)
      BY <1>b, <2>8
    <3>2. QED BY <1>b, <3>1 DEF inc
  <2>10. word'.version <= word'.ticket /\ Alive'
    BY <1>b, <2>1, <2>3, <2>8, <2>9
  <2>11. Bound'
    BY <2>1, <2>3, DrawersStay
  <2>12. DeleteInv'
    BY <1>k, <2>1, <2>3, <2>5, <2>6, <2>7, <2>10, <2>11
  <2>13. QED BY <2>3, <2>12
<1>5. ~OTicket!optik_revert(t)
  BY DEF OTicket!optik_revert
<1>6. QED
  <2>1. /\ ~OTicket!optik_lock_version(t) /\ ~OTicket!optik_trylock_vdelete(t)
        /\ ~OTicket!optik_trylock_version(t) /\ ~OTicket!optik_trylock(t)
    BY <1>0, Callers
  <2>2. OTicket!optik_lock_if_not_deleted(t) => Good
    BY <1>0, <1>2 DEF OTicket!optik_lock_if_not_deleted
  <2>3. OTicket!optik_lock_vdelete(t) => Good
    BY <1>0, <1>2, <1>3 DEF OTicket!optik_lock_vdelete
  <2> HIDE DEF Good
  <2>4. QED BY <1>1, <1>4, <1>5, <2>1, <2>2, <2>3 DEF OTicket!Step, Good

-----------------------------------------------------------------------------
(* OPTIK_SEPARATE.                                                         *)

\* The lock with a separate version: the lock excludes, and the version is compared, or
\* counted up, by a thread that has the lock.
LEMMA SeparateKeeps ==
  ASSUME Types, SeparateInv, Versions, ValidatedLockIsFresh, kind = "OPTIK_SEPARATE", NEW t \in Threads,
         Call(t) \/ Separate!Step(t) \/ ReadData(t) \/ WriteData(t)
  PROVE  Types' /\ SeparateInv' /\ Versions' /\ ValidatedLockIsFresh'
<1> DEFINE S == {"idle", "peek", "lock_version", "lock_cas", "trylock_version", "trylock_cas",
                 "trylock_check", "trylock", "crit", "wrote", "unlock"}
           O == {"trylock_check", "crit", "wrote", "unlock"}
           Named(u) ==
             /\ pc[u] \in {"lock_version", "lock_cas"} => loc[u].by = "lock_version"
             /\ pc[u] \in {"trylock_version", "trylock_cas", "trylock_check"} => loc[u].by = "trylock_version"
             /\ pc[u] = "trylock" => loc[u].by = "trylock" /\ ~loc[u].same
             /\ pc[u] \in {"idle", "peek"} => ~loc[u].same
           Good == Types' /\ SeparateInv' /\ Versions' /\ ValidatedLockIsFresh'
<1>0. /\ word.version \in Tickets /\ word.lock \in {0, 1} /\ word \in Words
      /\ pc \in [Threads -> Labels] /\ pc[t] \in S /\ S \subseteq Labels
      /\ loc \in [Threads -> Locals]
      /\ Separate!OPTIK_FREE = 0 /\ Separate!OPTIK_LOCKED = 1
      /\ Separate!optik_is_locked(word) <=> word.lock = 1
      /\ Named(t)
  BY DEF Types, Words, SeparateInv, Labels, Within, Separate!OPTIK_FREE, Separate!OPTIK_LOCKED,
         Separate!optik_is_locked
\* What is left to show of a step of t: who has the lock afterwards.
<1>k. ASSUME NEW to \in S, pc' = [pc EXCEPT ![t] = to], \A u \in Threads \ {t} : loc'[u] = loc[u],
             Named(t)',
             \/ (pc[t] \in O <=> to \in O) /\ word'.lock = word.lock
             \/ word.lock = 0 /\ word'.lock = 1 /\ to \in O
             \/ pc[t] \in O /\ word'.lock = 0 /\ to \notin O
      PROVE  SeparateInv' /\ MutualExclusion'
  <2>1. pc'[t] = to /\ \A u \in Threads \ {t} : pc'[u] = pc[u]
    BY <1>0, <1>k
  <2>2. Within(S)'
    BY <1>k, <2>1 DEF Within, SeparateInv
  <2>3. Owned(O)
    BY DEF SeparateInv
  <2>4. Owned(O)'
    BY <1>0, <1>k, <2>1, <2>3 DEF Owned
  <2>5. \A u \in Threads : Named(u)'
    <3>1. \A u \in Threads : Named(u)
      BY DEF SeparateInv
    <3>2. QED BY <1>k, <2>1, <3>1
  <2>6. MutualExclusion'
    BY <2>2, <2>4 DEF MutualExclusion, Holds, Owned, Within
  <2>7. QED BY <2>2, <2>4, <2>5, <2>6 DEF SeparateInv
\* A thread gives the lock back or leaves without it, and the version stays.
<1>l. ASSUME NEW from, pc[t] = from, from # "wrote", from \in O => word'.lock = 0,
             from \notin O => word'.lock = word.lock,
             pc' = [pc EXCEPT ![t] = "idle"], loc' = [loc EXCEPT ![t] = NoLocals],
             Types', word'.version = word.version, UNCHANGED <<kind, data>>
      PROVE  Good
  <2>1. pc'[t] = "idle" /\ loc'[t] = NoLocals /\ \A u \in Threads \ {t} : loc'[u] = loc[u]
    BY <1>0, <1>l
  <2>2. Named(t)'
    BY <2>1 DEF NoLocals
  <2>3. SeparateInv'
    BY <1>k, <1>l, <2>1, <2>2
  <2>4. Versions' /\ ValidatedLockIsFresh'
    BY <1>l, VersionsLeave
  <2>5. QED BY <1>l, <2>3, <2>4
<1>1. ASSUME Call(t) PROVE Good
  <2>1. /\ Types'
        /\ pc[t] = "idle" /\ pc' = [pc EXCEPT ![t] = "peek"] /\ word.version < MaxVersion
        /\ loc' = [loc EXCEPT ![t].ol_old = word]
        /\ UNCHANGED <<kind, word, data, queue>>
        /\ loc'[t].same = loc[t].same
    BY <1>1, PeekSteps DEF Versioned
  <2>2. pc'[t] = "peek" /\ \A u \in Threads \ {t} : loc'[u] = loc[u]
    BY <1>0, <2>1
  <2>3. Named(t)'
    BY <1>0, <2>1, <2>2
  <2>4. SeparateInv'
    BY <1>k, <2>1, <2>2, <2>3
  <2>5. Versions' /\ ValidatedLockIsFresh'
    BY <2>1, VersionsPeek
  <2>6. QED BY <2>1, <2>4, <2>5
<1>2. ASSUME ReadData(t) PROVE Good
  <2> DEFINE F == {"lock_version", "trylock_version", "trylock"}
  <2>1. /\ F \subseteq {"lock_version", "trylock_version", "trylock", "trylock_vdelete"}
        /\ F = IF kind = "OPTIK_SEPARATE" THEN Separate!Functions ELSE OTicket!Functions
    BY DEF Separate!Functions
  <2>2. PICK f \in F :
        /\ Types'
        /\ pc[t] = "peek" /\ pc' = [pc EXCEPT ![t] = f]
        /\ loc' = [loc EXCEPT ![t].snap = data, ![t].by = f]
        /\ UNCHANGED <<kind, word, data, queue>>
        /\ \A u \in Threads : loc'[u].ticket = loc[u].ticket /\ loc'[u].same = loc[u].same
        /\ loc'[t].by = f /\ \A u \in Threads \ {t} : loc'[u] = loc[u]
    <3> HIDE DEF F
    <3>1. QED BY <1>2, <2>1, ReadSteps
  <2>3. pc'[t] = f /\ loc'[t].by = f /\ ~loc'[t].same
    BY <1>0, <2>2
  <2>4. Named(t)'
    BY <2>3
  <2>5. SeparateInv'
    BY <1>k, <2>2, <2>4
  <2>6. Versions' /\ ValidatedLockIsFresh'
    BY <2>1, <2>2, VersionsRead
  <2>7. QED BY <2>2, <2>5, <2>6
<1>3. ASSUME WriteData(t) PROVE Good
  <2>1. Types' /\ pc[t] = "crit" /\ pc' = [pc EXCEPT ![t] = "wrote"] /\ UNCHANGED <<kind, word, loc, queue>>
    BY <1>3, WriteSteps
  <2>2. Named(t)'
    BY <1>0, <2>1
  <2>3. SeparateInv' /\ MutualExclusion'
    BY <1>k, <2>1, <2>2
  <2>4. Versions' /\ ValidatedLockIsFresh'
    BY <1>3, <2>1, <2>3, VersionsWrite
  <2>5. QED BY <2>1, <2>3, <2>4
\* The loop until the lock is got, of a function f.
<1>4. ASSUME NEW f \in {"lock_version", "trylock_version"}, NEW cas \in {"lock_cas", "trylock_cas"},
             NEW to \in {"crit", "trylock_check"}, NEW s \in BOOLEAN,
             Separate!LockLoop(t, f, cas, to, s),
             \/ f = "lock_version" /\ cas = "lock_cas" /\ to = "crit"
             \/ f = "trylock_version" /\ cas = "trylock_cas" /\ to = "trylock_check"
      PROVE  Good
  <2>1. CASE /\ Separate!Goto(t, f, cas)
             /\ loc' = [loc EXCEPT ![t].ticket = word.version]
             /\ UNCHANGED <<kind, word, qnode, data, queue>>
    <3>1. pc[t] = f /\ pc' = [pc EXCEPT ![t] = cas] /\ pc'[t] = cas
      BY <1>0, <2>1 DEF Separate!Goto
    <3>2. [loc[t] EXCEPT !.ticket = word.version] \in Locals
      BY <1>0, LocalsUpdates
    <3>3. Types'
      BY <1>0, <2>1, <3>1, <3>2, TypesStep DEF Types
    <3>4. /\ loc'[t].ol_old = loc[t].ol_old /\ loc'[t].snap = loc[t].snap /\ loc'[t].by = loc[t].by
          /\ \A u \in Threads \ {t} : loc'[u] = loc[u]
      BY <1>0, <2>1 DEF Locals
    <3>5. Named(t)'
      BY <1>0, <1>4, <3>1, <3>4
    <3>6. SeparateInv' /\ MutualExclusion'
      BY <1>k, <2>1, <3>1, <3>4, <3>5
    <3>7. Versions' /\ ValidatedLockIsFresh'
      BY <2>1, <3>1, <3>3, <3>4, <3>6, VersionsInner
    <3>8. QED BY <3>3, <3>6, <3>7
  <2>2. CASE /\ Separate!Goto(t, cas, IF Separate!optik_is_locked(word) THEN f ELSE to)
             /\ word' = [word EXCEPT !.lock = Separate!OPTIK_LOCKED]
             /\ loc' = [loc EXCEPT ![t].same = s]
             /\ UNCHANGED <<kind, qnode, data>>
    <3>0. PICK p \in {f, to} : p = IF word.lock = 1 THEN f ELSE to
      OBVIOUS
    <3>1. pc[t] = cas /\ pc' = [pc EXCEPT ![t] = p] /\ pc'[t] = p
      BY <1>0, <2>2, <3>0 DEF Separate!Goto
    <3>2. [loc[t] EXCEPT !.same = s] \in Locals
      BY <1>0, LocalsUpdates
    <3>3. word' \in Words /\ word'.lock = 1 /\ word'.version = word.version
      BY <1>0, <2>2 DEF Words
    <3>4. Types'
      <4>1. p \in Labels
        BY <1>0
      <4>2. QED BY <2>2, <3>1, <3>2, <3>3, <4>1, TypesStep DEF Types
    <3>5. /\ loc'[t].ol_old = loc[t].ol_old /\ loc'[t].snap = loc[t].snap /\ loc'[t].by = loc[t].by
          /\ \A u \in Threads \ {t} : loc'[u] = loc[u]
      BY <1>0, <2>2 DEF Locals
    <3>6. loc[t].by = f
      BY <1>0, <1>4, <3>1
    <3>7. Named(t)'
      BY <1>4, <3>1, <3>5, <3>6
    <3>8. SeparateInv' /\ MutualExclusion'
      <4>1. CASE word.lock = 1
        BY <1>k, <3>0, <3>1, <3>3, <3>5, <3>7, <4>1
      <4>2. CASE word.lock = 0
        BY <1>k, <3>0, <3>1, <3>3, <3>5, <3>7, <4>2
      <4>3. QED BY <1>0, <4>1, <4>2
    <3>9. p = "crit" => kind = "OPTIK_SEPARATE" /\ loc'[t].by = "lock_version"
      BY <1>4, <3>5, <3>6
    <3>10. Versions' /\ ValidatedLockIsFresh'
      BY <2>2, <3>1, <3>3, <3>4, <3>5, <3>8, <3>9, VersionsInner
    <3>11. QED BY <3>4, <3>8, <3>10
  <2>3. QED BY <1>4, <2>1, <2>2 DEF Separate!LockLoop
<1>5. ASSUME Separate!optik_lock_version(t) PROVE Good
  <2> DEFINE s == loc[t].ticket = loc[t].ol_old.version
  <2>1. s \in BOOLEAN /\ Separate!LockLoop(t, "lock_version", "lock_cas", "crit", s)
    BY <1>5 DEF Separate!optik_lock_version
  <2> HIDE DEF s
  <2>2. QED BY <1>4, <2>1
<1>6. ASSUME word.version = loc[t].ol_old.version, Looks(t, "trylock_check", "crit") PROVE Good
  <2>1. Types'
    BY <1>0, <1>6, LooksTypes
  <2>2. pc[t] = "trylock_check" /\ pc' = [pc EXCEPT ![t] = "crit"] /\ UNCHANGED <<kind, word, data, loc, queue>>
    BY <1>6 DEF Looks, Goto
  <2>3. pc'[t] = "crit"
    BY <1>0, <2>2
  <2>4. SeparateInv' /\ MutualExclusion'
    BY <1>k, <2>2, <2>3
  <2>5. Versions' /\ ValidatedLockIsFresh'
    BY <1>6, <2>1, <2>2, <2>4, VersionsInner
  <2>6. QED BY <2>1, <2>4, <2>5
<1>7. ASSUME NEW from \in {"trylock_check", "unlock"}, Unlocks(t, from, [word EXCEPT !.lock = Separate!OPTIK_FREE])
      PROVE  Good
  <2> DEFINE w == [word EXCEPT !.lock = Separate!OPTIK_FREE]
  <2>1. w \in Words /\ w.lock = 0 /\ w.version = word.version
    BY <1>0 DEF Words
  <2>2. Unlocks(t, from, w)
    BY <1>7
  <2> HIDE DEF w
  <2>3. /\ Types'
        /\ pc[t] = from /\ pc' = [pc EXCEPT ![t] = "idle"]
        /\ loc' = [loc EXCEPT ![t] = NoLocals] /\ word' = w
        /\ UNCHANGED <<kind, data>>
    BY <2>1, <2>2, UnlockSteps
  <2>4. QED BY <1>l, <2>1, <2>3
<1>8. ASSUME GivesUp(t, "trylock") PROVE Good
  <2>1. /\ Types'
        /\ pc[t] = "trylock" /\ pc' = [pc EXCEPT ![t] = "idle"]
        /\ loc' = [loc EXCEPT ![t] = NoLocals]
        /\ UNCHANGED <<kind, word, data, queue>>
    BY <1>8, GiveUpSteps
  <2>2. QED BY <1>l, <2>1
<1>9. ASSUME word.lock = 0, Gets(t, "trylock", [word EXCEPT !.lock = Separate!OPTIK_LOCKED]) PROVE Good
  <2> DEFINE w == [word EXCEPT !.lock = Separate!OPTIK_LOCKED]
  <2>1. w \in Words /\ w.lock = 1 /\ w.version = word.version
    BY <1>0 DEF Words
  <2>2. Gets(t, "trylock", w)
    BY <1>9
  <2> HIDE DEF w
  <2>3. Types'
    BY <2>1, <2>2, GetsTypes
  <2>4. pc[t] = "trylock" /\ pc' = [pc EXCEPT ![t] = "crit"] /\ word' = w /\ UNCHANGED <<kind, data, loc>>
    BY <2>2 DEF Gets, Goto
  <2>5. pc'[t] = "crit" /\ ~loc[t].same
    BY <1>0, <2>4
  <2>6. SeparateInv' /\ MutualExclusion'
    BY <1>k, <1>9, <2>1, <2>4, <2>5
  <2>7. Versions' /\ ValidatedLockIsFresh'
    BY <2>1, <2>3, <2>4, <2>5, <2>6, VersionsInner
  <2>8. QED BY <2>3, <2>6, <2>7
<1>10. ASSUME NEW from \in {"crit", "wrote"}, Goto(t, from, "unlock"),
              word' = [word EXCEPT !.version = Separate!inc(word.version)],
              UNCHANGED <<kind, qnode, data, loc, queue>>
       PROVE  Good
  <2>1. word' \in Words /\ word'.lock = word.lock /\ word'.version = inc(word.version)
    BY <1>0, <1>10, Counting DEF Words
  <2>2. pc[t] = from /\ pc' = [pc EXCEPT ![t] = "unlock"] /\ pc'[t] = "unlock"
    BY <1>0, <1>10 DEF Goto
  <2>3. Types'
    BY <1>0, <1>10, <2>1, <2>2 DEF Types
  <2>4. SeparateInv'
    BY <1>k, <1>10, <2>1, <2>2
  <2>5. loc' = [loc EXCEPT ![t] = loc[t]]
    BY <1>0, <1>10
  <2>6. Versions' /\ ValidatedLockIsFresh'
    BY <1>10, <2>1, <2>2, <2>3, <2>5, VersionsRelease
  <2>7. QED BY <2>3, <2>4, <2>6
<1>11. QED
  <2>1. Separate!optik_trylock_version(t) => Good
    BY <1>4, <1>6, <1>7, SameSteps DEF Separate!optik_trylock_version
  <2>2. Separate!optik_trylock(t) => Good
    BY <1>0, <1>8, <1>9, SameSteps DEF Separate!optik_trylock
  <2>3. Separate!optik_unlock(t) => Good
    BY <1>7, <1>10, SameSteps DEF Separate!optik_unlock
  <2> HIDE DEF Good
  <2>4. QED BY <1>1, <1>2, <1>3, <1>5, <2>1, <2>2, <2>3 DEF Separate!Step, Good

-----------------------------------------------------------------------------
(* The invariant of all kinds.                                             *)

\* The kind of the lock stays, and a step of a lock without a version says of no version
\* that it is the same.
LEMMA KindStays ==
  ASSUME Types, kind = "OPTIK_TICKET_DELETE" => DeleteInv,
         NEW t \in Threads, Call(t) \/ Step(t) \/ WriteData(t)
  PROVE  kind' = kind /\ (kind \notin Versioned /\ NeverSame => NeverSame')
<1> DEFINE Good == kind' = kind /\ (kind \notin Versioned /\ NeverSame => NeverSame')
<1>0. loc \in [Threads -> Locals] /\ ~NoLocals.same
  BY DEF Types, NoLocals
<1>u. ASSUME UNCHANGED <<kind, loc>> PROVE Good
  BY <1>u DEF NeverSame
<1>i. ASSUME UNCHANGED kind, NEW l, loc' = [loc EXCEPT ![t] = l], l.same => loc[t].same PROVE Good
  BY <1>0, <1>i DEF NeverSame
<1>c. ASSUME NEW f, Calls(t, f) PROVE Good
  <2>1. UNCHANGED kind /\ loc' = [loc EXCEPT ![t] = [loc[t] EXCEPT !.by = f]]
    BY <1>c DEF Calls
  <2>2. [loc[t] EXCEPT !.by = f].same = loc[t].same
    BY <1>0 DEF Locals
  <2>3. QED BY <1>i, <2>1, <2>2
<1>d. ASSUME NEW n, loc' = [loc EXCEPT ![t].ticket = n], UNCHANGED kind PROVE Good
  <2>1. [loc[t] EXCEPT !.ticket = n].same = loc[t].same
    BY <1>0 DEF Locals
  <2>2. QED BY <1>i, <1>d, <2>1
<1>l. ASSUME NEW from, Leaves(t, from) PROVE Good
  <2>1. UNCHANGED kind /\ loc' = [loc EXCEPT ![t] = NoLocals]
    BY <1>l DEF Leaves
  <2>2. QED BY <1>0, <1>i, <2>1
<1>n. ASSUME NEW from, NEW to, NEW w, Looks(t, from, to) \/ Gets(t, from, w) \/ SetNodes(t, from, to, w) PROVE Good
  <2>1. UNCHANGED <<kind, loc>>
    BY <1>n DEF Looks, Gets, SetNodes
  <2>2. QED BY <1>u, <2>1
<1>g. ASSUME NEW from, NEW w, GivesUp(t, from) \/ Unlocks(t, from, w) PROVE Good
  <2>1. Leaves(t, from)
    BY <1>g DEF GivesUp, Unlocks
  <2>2. QED BY <1>l, <2>1
\* For the kinds with a version, only the kind matters.
<1>v. ASSUME kind \in Versioned, UNCHANGED kind PROVE Good
  BY <1>v
<1>1. ASSUME Call(t) PROVE Good
  <2>1. CASE kind \in Versioned
    <3>1. UNCHANGED kind
      BY <1>1, <2>1, PeekSteps
    <3>2. QED BY <1>v, <2>1, <3>1
  <2>2. CASE kind \notin Versioned
    <3> HIDE DEF Good
    <3>1. QED BY <1>1, <1>c, <2>2 DEF Call
  <2>3. QED BY <2>1, <2>2
<1>2. ASSUME ReadData(t), kind \in Versioned PROVE Good
  BY <1>2 DEF ReadData
<1>3. ASSUME WriteData(t) PROVE Good
  BY <1>3 DEF WriteData
<1>4. ASSUME SpinStep(t) PROVE Good
  <2> HIDE DEF Good
  <2>1. QED BY <1>4, <1>n, <1>g DEF SpinStep, tas_lock, ttas_lock, trylock, unlock
<1>5. ASSUME TicketStep(t) PROVE Good
  <2> HIDE DEF Good
  <2>1. ticket_lock(t) => Good
    BY <1>d, <1>n DEF ticket_lock
  <2>2. ticket_trylock(t) => Good
    BY <1>d, <1>n, <1>g DEF ticket_trylock
  <2>3. ticket_unlock(t) => Good
    BY <1>g DEF ticket_unlock
  <2>4. QED BY <1>5, <2>1, <2>2, <2>3 DEF TicketStep
<1>6. ASSUME McsStep(t) PROVE Good
  <2>1. ASSUME mcs_swap(t) PROVE Good
    <3>1. UNCHANGED kind /\ loc' = [loc EXCEPT ![t] = [loc[t] EXCEPT !.pred = word.next]]
      BY <2>1 DEF mcs_swap
    <3>2. [loc[t] EXCEPT !.pred = word.next].same = loc[t].same
      BY <1>0 DEF Locals
    <3>3. QED BY <1>i, <3>1, <3>2
  <2>2. ASSUME loc' = [loc EXCEPT ![t] = NoLocals], UNCHANGED <<kind, word, data>> PROVE Good
    BY <1>0, <1>i, <2>2
  <2> HIDE DEF Good
  <2>3. mcs_lock_lock(t) => Good
    BY <1>n, <2>1 DEF mcs_lock_lock
  <2>4. mcs_lock_trylock(t) => Good
    BY <1>n, <1>g DEF mcs_lock_trylock
  <2>5. mcs_lock_unlock(t) => Good
    BY <1>n, <1>g, <2>2 DEF mcs_lock_unlock
  <2>6. QED BY <1>6, <2>3, <2>4, <2>5 DEF McsStep
<1>7. ASSUME Separate!Step(t) PROVE Good
  <2>1. kind = "OPTIK_SEPARATE"
    BY <1>7 DEF Separate!Step
  <2>2. UNCHANGED kind
    BY <1>7 DEF Separate!Step, Separate!optik_lock_version, Separate!optik_trylock_version,
                Separate!optik_trylock, Separate!optik_unlock, Separate!LockLoop, Separate!Looks,
                Separate!Gets, Separate!GivesUp, Separate!Unlocks, Separate!Leaves
  <2>3. QED BY <1>v, <2>1, <2>2 DEF Versioned
<1>8. ASSUME OTicket!Step(t), OTicket!optik_unlock(t) \/ OTicket!optik_revert(t) PROVE Good
  <2> HIDE DEF Good
  <2>1. QED BY <1>8, <1>g, SameSteps DEF OTicket!optik_unlock, OTicket!optik_revert
<1>9. ASSUME OTicket!Step(t), OTicket!optik_lock_if_not_deleted(t) \/ OTicket!optik_lock_vdelete(t) PROVE Good
  <2> HIDE DEF Good
  <2>1. ASSUME NEW f, NEW draw, NEW wait, NEW got, OTicket!NotDeleted(t, f, draw, wait, got) PROVE Good
    BY <2>1, <1>d, <1>n, <1>g, <1>l, SameSteps DEF OTicket!NotDeleted, OTicket!Draw
  <2>2. QED BY <1>u, <1>9, <2>1 DEF OTicket!optik_lock_if_not_deleted, OTicket!optik_lock_vdelete
<1>10. ASSUME OTicket!Step(t), \/ OTicket!optik_lock_version(t) \/ OTicket!optik_trylock_version(t)
                               \/ OTicket!optik_trylock(t) \/ OTicket!optik_trylock_vdelete(t)
       PROVE  Good
  <2>1. kind # "OPTIK_TICKET_DELETE"
    BY <1>10, Callers DEF DeleteInv, Within, DeleteWaits, DeleteHolds
  <2>2. kind \in Versioned
    BY <1>10, <2>1 DEF OTicket!Step, Versioned
  <2>3. UNCHANGED kind
    BY <1>10 DEF OTicket!optik_lock_version, OTicket!optik_trylock_version, OTicket!optik_trylock,
                 OTicket!optik_trylock_vdelete, OTicket!Draw, OTicket!Served, OTicket!Try,
                 OTicket!GivesUp, OTicket!Leaves
  <2>4. QED BY <1>v, <2>2, <2>3
<1>11. QED
  <2>1. OTicket!Step(t) => Good
    <3> HIDE DEF Good
    <3>1. QED BY <1>8, <1>9, <1>10 DEF OTicket!Step
  <2> HIDE DEF Good
  <2>2. Good
    BY <1>1, <1>2, <1>3, <1>4, <1>5, <1>6, <1>7, <2>1 DEF Step
  <2>3. QED BY <2>2 DEF Good

\* The invariant holds at first: nobody has called the lock.
LEMMA IInvInit == Init => IInv
<1> SUFFICES ASSUME Init PROVE IInv
  OBVIOUS
<1>1. Types
  BY TypesInit
<1>2. /\ word = NoWord /\ pc = [t \in Threads |-> "idle"] /\ queue = <<>>
      /\ loc = [t \in Threads |-> NoLocals] /\ data = 0
      /\ qnode = [t \in Threads |-> [waiting |-> FALSE, next |-> NoThread]]
  BY DEF Init
<1>3. /\ word.lock = 0 /\ word.ticket = 0 /\ word.curr = 0 /\ word.version = 0 /\ word.next = NoThread
      /\ Len(queue) = 0 /\ queue \in Seq(Threads)
  BY <1>2, EmptySeq DEF NoWord
<1>4. ASSUME NEW W, NEW C, "idle" \notin W \cup C PROVE TicketQueue(queue, pc, loc, 0, 0, W, C)
  <2>1. Queue(queue, pc, W \cup C)
    BY <1>2, <1>3, <1>4 DEF Queue
  <2>2. After(0, 0) = 0
    BY Constants, Places
  <2>3. QED BY <1>3, <2>1, <2>2 DEF TicketQueue
<1>5. SpinInv
  BY <1>2, <1>3 DEF SpinInv, Within, Owned
<1>6. TicketInv
  <2>1. TicketQueue(queue, pc, loc, 0, 0, {"wait"}, {"crit"})
    BY <1>4
  <2>2. QED BY <1>2, <1>3, <2>1 DEF TicketInv, Within
<1>7. McsInv
  <2>1. Queue(queue, pc, Joining \cup Unlocking)
    BY <1>2, <1>3 DEF Queue, Joining, Unlocking
  <2>2. QED BY <1>2, <1>3, <2>1 DEF McsInv, Within
<1>8. QueueInv
  <2>1. TicketQueue(queue, pc, loc, 0, 0, {"version_wait"}, {"crit", "wrote"})
    BY <1>4
  <2>2. QED BY <1>2, <1>3, <2>1 DEF QueueInv, Within
<1>9. TryInv
  BY <1>2, <1>3 DEF TryInv, Within, Holds, MutualExclusion
<1>10. DeleteInv
  <2>1. TicketQueue(queue, pc, loc, 0, 0, DeleteWaits, DeleteHolds)
    BY <1>4 DEF DeleteWaits, DeleteHolds
  <2>2. Drawers = {} /\ Cardinality({}) = 0
    BY <1>2, FS_EmptySet DEF Drawers
  <2>3. OTicket!INT_MAX > 0 /\ OTicket!INT_MAX \in Int /\ MaxVersion \in Nat /\ Cardinality(Threads) \in Nat
    BY Constants DEF Tickets
  <2>4. word.ticket + Cardinality(Drawers) <= MaxVersion + Cardinality(Threads)
    BY <1>3, <2>2, <2>3
  <2>5. word.version # OTicket!INT_MAX /\ word.version <= word.ticket
    BY <1>3, <2>3
  <2>6. QED BY <1>2, <1>3, <2>1, <2>4, <2>5 DEF DeleteInv, Within, DeleteWaits
<1>11. SeparateInv
  BY <1>2, <1>3 DEF SeparateInv, Within, Owned, NoLocals
<1>12. Versions /\ ValidatedLockIsFresh /\ NeverSame
  <2>1. Active = {} /\ Cardinality({}) = 0
    BY <1>2, FS_EmptySet DEF Active
  <2>2. word.version + Cardinality(Active) <= MaxVersion + Cardinality(Threads)
    BY <1>3, <2>1, Constants
  <2>3. \A t \in Threads : loc[t].ol_old.version = 0 /\ ~loc[t].same /\ pc[t] = "idle"
    BY <1>2 DEF NoLocals, NoWord
  <2>4. QED BY <1>3, <2>2, <2>3 DEF Versions, ValidatedLockIsFresh, NeverSame
<1>13. QED BY <1>1, <1>5, <1>6, <1>7, <1>8, <1>9, <1>10, <1>11, <1>12 DEF IInv

\* Every step keeps the invariant.
LEMMA IInvStep == IInv /\ [Next]_vars => IInv'
<1> SUFFICES ASSUME IInv, [Next]_vars PROVE IInv'
  OBVIOUS
<1>1. CASE UNCHANGED vars
  BY <1>1 DEF vars, IInv, Types, SpinInv, TicketInv, McsInv, McsPlace, QueueInv, TryInv, DeleteInv, SeparateInv,
              Versions, Active, Drawers, ValidatedLockIsFresh, NeverSame, Within, Owned, MutualExclusion, Holds
<1>2. CASE Next
  <2>1. PICK t \in Threads : Call(t) \/ Step(t) \/ WriteData(t)
    BY <1>2, LockAssumption DEF Next, IInv, Types
  <2>2. Types /\ kind \in DOMAIN Users
    BY DEF IInv, Types
  <2>3. kind' = kind /\ (kind \notin Versioned => NeverSame')
    BY <2>1, <2>2, KindStays DEF IInv
  <2>4. kind \in Plain \cup Versioned \cup {"OPTIK_TICKET_DELETE"}
    BY <2>2, UsersAssumption
  <2>5. CASE kind \in {"TAS", "TTAS"}
    <3>1. Types' /\ SpinInv'
      BY <2>1, <2>5, SpinKeeps DEF IInv, Step, WriteData, Versioned, TicketStep, McsStep, OTicket!Step, Separate!Step
    <3>2. QED BY <2>3, <2>5, <3>1 DEF IInv, Versioned
  <2>6. CASE kind = "TICKET"
    <3>1. Types' /\ TicketInv'
      BY <2>1, <2>6, TicketKeeps DEF IInv, Step, WriteData, Versioned, SpinStep, McsStep, OTicket!Step, Separate!Step
    <3>2. QED BY <2>3, <2>6, <3>1 DEF IInv, Versioned
  <2>7. CASE kind = "MCS"
    <3>1. Types' /\ McsInv'
      BY <2>1, <2>7, McsKeeps DEF IInv, Step, WriteData, Versioned, SpinStep, TicketStep, OTicket!Step, Separate!Step
    <3>2. QED BY <2>3, <2>7, <3>1 DEF IInv, Versioned
  <2>8. CASE kind = "OPTIK_TICKET"
    <3>1. Types' /\ QueueInv' /\ Versions' /\ ValidatedLockIsFresh'
      BY <2>1, <2>8, QueueKeeps DEF IInv, Step, Versioned, SpinStep, TicketStep, McsStep, Separate!Step
    <3>2. QED BY <2>3, <2>8, <3>1 DEF IInv, Versioned
  <2>9. CASE kind = "OPTIK_TICKET_TRY"
    <3>1. Types' /\ TryInv' /\ Versions' /\ ValidatedLockIsFresh'
      BY <2>1, <2>9, TryKeeps DEF IInv, Step, Versioned, SpinStep, TicketStep, McsStep, Separate!Step
    <3>2. QED BY <2>3, <2>9, <3>1 DEF IInv, Versioned
  <2>10. CASE kind = "OPTIK_TICKET_DELETE"
    <3>1. Types' /\ DeleteInv'
      BY <2>1, <2>10, DeleteKeeps DEF IInv, Step, WriteData, Versioned, SpinStep, TicketStep, McsStep, Separate!Step
    <3>2. QED BY <2>3, <2>10, <3>1 DEF IInv, Versioned
  <2>11. CASE kind = "OPTIK_SEPARATE"
    <3>1. Types' /\ SeparateInv' /\ Versions' /\ ValidatedLockIsFresh'
      BY <2>1, <2>11, SeparateKeeps DEF IInv, Step, Versioned, SpinStep, TicketStep, McsStep, OTicket!Step
    <3>2. QED BY <2>3, <2>11, <3>1 DEF IInv, Versioned
  <2>12. QED BY <2>4, <2>5, <2>6, <2>7, <2>8, <2>9, <2>10, <2>11 DEF Plain, Versioned
<1>3. QED BY <1>1, <1>2

-----------------------------------------------------------------------------
(* The theorems.                                                           *)

\* The thread that holds a lock with a queue is the head of the queue, and nobody else
\* holds it.
LEMMA HolderIsHead ==
  ASSUME IInv, kind \in Fair, NEW t \in Threads, Holds(t)
  PROVE  Head(queue) = t /\ \A u \in Threads : Holds(u) => u = t
<1> DEFINE Alone == 1 \in 1..Len(queue) /\ queue[1] = t /\ \A u \in Threads : Holds(u) => u = t
<1>0. Types /\ word.curr \in Tickets /\ word.version \in Tickets
  BY DEF IInv, Types, Words
<1>s. SUFFICES Alone
  BY DEF Head
<1>q. ASSUME NEW n \in Tickets, NEW W, NEW C, TicketQueue(queue, pc, loc, word.ticket, n, W, C),
             \A u \in Threads : Holds(u) => pc[u] \in C
      PROVE  Alone
  <2>1. pc[t] \in C
    BY <1>q
  <2>2. 1 \in 1..Len(queue) /\ queue[1] = t /\ \A u \in Threads : pc[u] \in C => u = t
    BY <1>q, <2>1, ServedIsHead
  <2>3. QED BY <1>q, <2>2
<1>1. CASE kind = "TICKET"
  <2>1. TicketInv
    BY <1>1 DEF IInv
  <2>2. TicketQueue(queue, pc, loc, word.ticket, word.curr, {"wait"}, {"crit"})
        /\ \A u \in Threads : Holds(u) <=> pc[u] \in {"crit"}
    BY <2>1 DEF TicketInv, Within, Holds
  <2>3. QED BY <1>0, <1>q, <2>2
<1>2. CASE kind = "MCS"
  <2>1. McsInv
    BY <1>2 DEF IInv
  <2>2. \A u \in Threads : Holds(u) => pc[u] \in Unlocking
    BY <2>1 DEF McsInv, Within, Holds, Unlocking, Joining
  <2>3. QED BY <1>0, <2>1, <2>2, McsHolder
<1>3. CASE kind = "OPTIK_TICKET"
  <2>1. QueueInv
    BY <1>3 DEF IInv
  <2>2. TicketQueue(queue, pc, loc, word.ticket, word.version, {"version_wait"}, {"crit", "wrote"})
        /\ \A u \in Threads : Holds(u) <=> pc[u] \in {"crit", "wrote"}
    BY <2>1 DEF QueueInv, Within, Holds
  <2>3. QED BY <1>0, <1>q, <2>2
<1>4. CASE kind = "OPTIK_TICKET_DELETE"
  <2>1. DeleteInv
    BY <1>4 DEF IInv
  <2>2. CASE word.version # OTicket!INT_MAX
    <3>1. TicketQueue(queue, pc, loc, word.ticket, word.version, DeleteWaits, DeleteHolds)
          /\ \A u \in Threads : Holds(u) => pc[u] \in DeleteHolds
      BY <2>1, <2>2 DEF DeleteInv, Within, Holds, DeleteWaits, DeleteHolds
    <3>2. QED BY <1>0, <1>q, <3>1
  <2>3. CASE word.version = OTicket!INT_MAX
    <3>1. PICK v \in Threads : /\ pc[v] = "dead"
                               /\ queue \in Seq(Threads) /\ queue # <<>> /\ queue[1] = v
                               /\ \A u \in Threads \ {v} : pc[u] \notin DeleteHolds \cup {"dead"}
      BY <2>1, <2>3 DEF DeleteInv
    <3>2. \A u \in Threads : Holds(u) => pc[u] \in DeleteHolds \cup {"dead"}
      BY <2>1 DEF DeleteInv, Within, Holds, DeleteWaits, DeleteHolds
    <3>3. 1 \in 1..Len(queue)
      BY <3>1, EmptySeq
    <3>4. QED BY <3>1, <3>2, <3>3
  <2>4. QED BY <2>2, <2>3
<1>5. QED BY <1>1, <1>2, <1>3, <1>4 DEF Fair

\* The locks exclude: for every set of threads, whichever lock and trylock functions they
\* mix, and however often the tickets have wrapped around.
THEOREM LocksExclude == Spec => []MutualExclusion
<1>1. IInv => MutualExclusion
  <2> SUFFICES ASSUME IInv, NEW t \in Threads, NEW u \in Threads, Holds(t), Holds(u) PROVE t = u
    BY DEF MutualExclusion
  <2>1. kind \in Plain \cup Versioned \cup {"OPTIK_TICKET_DELETE"}
    BY UsersAssumption DEF IInv, Types
  <2>2. CASE kind \in Fair
    BY <2>2, HolderIsHead
  <2>3. CASE kind \in {"TAS", "TTAS"}
    BY <2>3 DEF IInv, SpinInv, Within, Owned, Holds
  <2>4. CASE kind = "OPTIK_TICKET_TRY"
    BY <2>4 DEF IInv, TryInv, MutualExclusion
  <2>5. CASE kind = "OPTIK_SEPARATE"
    BY <2>5 DEF IInv, SeparateInv, Within, Owned, Holds
  <2>6. QED BY <2>1, <2>2, <2>3, <2>4, <2>5 DEF Plain, Versioned, Fair
<1>2. QED BY <1>1, IInvInit, IInvStep, PTL DEF Spec

\* The ticket lock, the MCS lock and the OPTIK ticket locks that queue up hand the lock on
\* in the order in which the threads have drawn a ticket or swapped their node in.
THEOREM LocksAreFair == Spec => []FirstComeFirstServed
<1>1. IInv => FirstComeFirstServed
  BY HolderIsHead DEF FirstComeFirstServed
<1>2. QED BY <1>1, IInvInit, IInvStep, PTL DEF Spec

\* A lock call that says that the version is the one its caller has read means that the
\* data are unchanged since, for the ticket and the separate OPTIK locks.
THEOREM LocksValidate == Spec => []ValidatedLockIsFresh
<1>1. IInv => ValidatedLockIsFresh
  BY DEF IInv, NeverSame, ValidatedLockIsFresh
<1>2. QED BY <1>1, IInvInit, IInvStep, PTL DEF Spec
=============================================================================
