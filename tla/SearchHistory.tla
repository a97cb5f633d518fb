--------------------------- MODULE SearchHistory ---------------------------
(***************************************************************************)
(* The calls of a search structure without a capacity (src/search.h), and  *)
(* the history variables that relate its steps to the atomic map of        *)
(* SearchSpec.  The modules of the linked lists extend this one; their     *)
(* operations say when a call begins, when it takes effect and with which  *)
(* result it returns, whatever the atomic map thinks of that result.       *)
(***************************************************************************)
EXTENDS Integers, FiniteSets

CONSTANTS Threads, Keys, Vals

ASSUME KeysAndValsAssumption ==
  Keys \subseteq Nat \ {0} /\ IsFiniteSet(Keys) /\ Keys # {} /\ Vals \subseteq Nat \ {0}

VARIABLES
  call,   \* the call each thread is in, with its arguments
  ret,    \* the result of each thread's last call
  map,    \* the abstract map
  lin,    \* the result that a call's effect has fixed
  seen,   \* the values of the call's key since the call began
  pr      \* successful inserts minus successful removes that have returned

hist == <<call, ret, map, lin, seen, pr>>

\* No structure that uses this module ever refuses an insert.
Abs == INSTANCE SearchSpec WITH Capacity <- Cardinality(Keys) + 1

None   == Abs!None
NoCall == Abs!NoCall
Calls  == Abs!Calls

Key(t) == call[t].key

HistInit == Abs!Init /\ pr = 0

\* Thread t calls an operation.
Begins(t, c) == Abs!Invoke(t, c) /\ UNCHANGED pr

\* The call of t gives its key the value v; its result will be r.
TakesEffect(t, v, r) ==
  /\ map'  = [map EXCEPT ![Key(t)] = v]
  /\ lin'  = [lin EXCEPT ![t] = r]
  /\ seen' = Abs!Observe(Key(t), v)
  /\ UNCHANGED <<call, ret, pr>>

\* The call of t returns r; the caller counts successes as test_search.cc does.
Returns(t, r) ==
  /\ call' = [call EXCEPT ![t] = NoCall]
  /\ ret'  = [ret EXCEPT ![t] = r]
  /\ lin'  = [lin EXCEPT ![t] = Abs!Pending]
  /\ seen' = [seen EXCEPT ![t] = {}]
  /\ pr'   = CASE call[t].op = "insert" -> pr + r
               [] call[t].op = "remove" /\ r # 0 -> pr - 1
               [] OTHER -> pr
  /\ UNCHANGED map

HistTypeOK ==
  /\ call \in [Threads -> Calls \cup {NoCall}]
  /\ ret  \in [Threads -> Vals \cup {0, 1}]
  /\ map  \in [Keys -> Vals \cup {0}]
  /\ lin  \in [Threads -> Vals \cup {0, 1, Abs!Pending}]
  /\ seen \in [Threads -> SUBSET (Vals \cup {0})]
  /\ pr   \in Int
=============================================================================
