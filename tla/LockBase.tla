------------------------------ MODULE LockBase ------------------------------
(***************************************************************************)
(* What the modules of the single locks share: threads that call the lock, *)
(* trylock and unlock functions of one lock, of the kind that the variable *)
(* kind says.  Each lock has a module of its own; module Locks puts them   *)
(* together.                                                               *)
(*                                                                         *)
(* A thread that uses an OPTIK lock reads the lock word and then the data  *)
(* that the lock protects, and hands the word to the lock function.        *)
(***************************************************************************)
EXTENDS Integers, Sequences, FiniteSets, LockIf

CONSTANTS
  Threads,
  Users,        \* for each kind of lock to look at, the threads that use it
  TicketMod,    \* tickets are unsigned numbers below this (2^32 in the code)
  MaxVersion    \* no thread calls an OPTIK lock whose version is this large

NoThread == "NULL"

ASSUME LockAssumption ==
  /\ IsFiniteSet(Threads) /\ NoThread \notin Threads
  /\ \A k \in DOMAIN Users : Users[k] \subseteq Threads
  /\ TicketMod \in Nat /\ TicketMod > Cardinality(Threads)
  /\ MaxVersion \in Nat /\ MaxVersion + Cardinality(Threads) < TicketMod \div 2 - 1

VARIABLES
  kind,    \* what kind of lock it is
  word,    \* the lock: the fields of all kinds
  qnode,   \* __mcs_local of each thread
  data,    \* what an OPTIK lock protects
  pc,
  loc,     \* the local variables of each thread
  queue    \* history: who holds the lock and who has queued up for it, in order

vars == <<kind, word, qnode, data, pc, loc, queue>>

NoWord == [lock |-> 0, ticket |-> 0, curr |-> 0, version |-> 0, next |-> NoThread]
NoLocals == [ticket |-> 0, ol_old |-> NoWord, snap |-> 0, same |-> FALSE, by |-> "none", pred |-> NoThread]

Init ==
  /\ kind \in DOMAIN Users
  /\ word = NoWord
  /\ qnode = [t \in Threads |-> [waiting |-> FALSE, next |-> NoThread]]
  /\ data = 0
  /\ pc = [t \in Threads |-> "idle"]
  /\ loc = [t \in Threads |-> NoLocals]
  /\ queue = <<>>

inc(n) == (n + 1) % TicketMod
dec(n) == (n - 1) % TicketMod

Goto(t, from, to) == pc[t] = from /\ pc' = [pc EXCEPT ![t] = to]

\* Thread t calls function f of a lock.
Calls(t, f) ==
  /\ Goto(t, "idle", f)
  /\ loc' = [loc EXCEPT ![t].by = f]
  /\ UNCHANGED <<kind, word, qnode, data, queue>>

\* Steps inside a call: t only looks; it changes the lock; it gets the lock at once;
\* it gives up or gives the lock back.
Looks(t, from, to) == Goto(t, from, to) /\ UNCHANGED <<kind, word, qnode, data, loc, queue>>

Gets(t, from, w) ==
  /\ Goto(t, from, "crit")
  /\ word' = w
  /\ queue' = Append(queue, t)
  /\ UNCHANGED <<kind, qnode, data, loc>>

Leaves(t, from) ==
  /\ Goto(t, from, "idle")
  /\ loc' = [loc EXCEPT ![t] = NoLocals]
  /\ UNCHANGED <<kind, qnode, data>>

GivesUp(t, from) == Leaves(t, from) /\ UNCHANGED <<word, queue>>

Unlocks(t, from, w) == Leaves(t, from) /\ word' = w /\ queue' = Tail(queue)
=============================================================================
