----------------------------- MODULE SearchSpec -----------------------------
(***************************************************************************)
(* What a search structure (src/search.h) promises: an atomic map from     *)
(* keys to values.  search returns the value of a key or 0; insert adds a  *)
(* key that is absent and returns 1, or returns 0; remove deletes a key    *)
(* and returns its value, or returns 0.  Any number of threads call it, so *)
(* the promise is linearizability: every call takes effect at one moment   *)
(* between its invocation and its return.                                  *)
(*                                                                         *)
(* A successful insert or remove is a step of its own between the two.  A  *)
(* call that changes nothing may take effect at any earlier moment of its  *)
(* interval, which the structures use: they answer from what they read     *)
(* some steps ago.  seen[t] therefore keeps the values the key had since   *)
(* the call began, and such a call is justified by one of them.            *)
(***************************************************************************)
EXTENDS Integers, FiniteSets

CONSTANTS
  Threads,   \* the callers
  Keys,      \* the keys
  Vals,      \* the values; 0 is not one of them
  Capacity   \* a structure that holds this many keys may refuse an insert

None    == 0     \* (V) 0, the value of an absent key
Pending == -1    \* the effect of a call has not taken place yet

Calls ==
  [op : {"search", "remove"}, key : Keys, val : {None}]
    \cup [op : {"insert"}, key : Keys, val : Vals]

NoCall == [op |-> "none"]

VARIABLES
  map,    \* the abstract map
  call,   \* the call each thread is in, or NoCall
  lin,    \* the result that a call's effect has fixed, or Pending
  seen,   \* the values of the call's key since the call began
  ret     \* the result of each thread's last call, until the next one

vars == <<map, call, lin, seen, ret>>

Present == {k \in Keys : map[k] # None}

Init ==
  /\ map  = [k \in Keys |-> None]
  /\ call = [t \in Threads |-> NoCall]
  /\ lin  = [t \in Threads |-> Pending]
  /\ seen = [t \in Threads |-> {}]
  /\ ret  = [t \in Threads |-> None]

Invoke(t, c) ==
  /\ call[t] = NoCall
  /\ call' = [call EXCEPT ![t] = c]
  /\ seen' = [seen EXCEPT ![t] = {map[c.key]}]
  /\ ret'  = [ret EXCEPT ![t] = None]
  /\ UNCHANGED <<map, lin>>

\* The values each call has seen once key k has value v.
Observe(k, v) ==
  [u \in Threads |->
     IF call[u] # NoCall /\ call[u].key = k THEN seen[u] \cup {v} ELSE seen[u]]

\* The call of t gives its key the value v, which fixes the result r.
Effect(t, v, r) ==
  /\ call[t] # NoCall
  /\ lin[t] = Pending
  /\ lin'  = [lin EXCEPT ![t] = r]
  /\ map'  = [map EXCEPT ![call[t].key] = v]
  /\ seen' = Observe(call[t].key, v)
  /\ UNCHANGED <<call, ret>>

Insert(t) ==
  /\ call[t].op = "insert"
  /\ map[call[t].key] = None
  /\ Cardinality(Present) < Capacity
  /\ Effect(t, call[t].val, 1)

Remove(t) ==
  /\ call[t].op = "remove"
  /\ map[call[t].key] # None
  /\ Effect(t, None, map[call[t].key])

\* An insert that finds the structure full.
Refuse(t) ==
  /\ call[t].op = "insert"
  /\ lin[t] = Pending
  /\ Cardinality(Present) >= Capacity
  /\ lin' = [lin EXCEPT ![t] = 0]
  /\ UNCHANGED <<map, call, seen, ret>>

\* The results that a call without an effect of its own may return.
Justified(t, r) ==
  \/ call[t].op = "search" /\ r \in seen[t]
  \/ call[t].op = "insert" /\ r = 0 /\ \E v \in seen[t] : v # None
  \/ call[t].op = "remove" /\ r = 0 /\ None \in seen[t]

Return(t, r) ==
  /\ call[t] # NoCall
  /\ IF lin[t] = Pending THEN Justified(t, r) ELSE r = lin[t]
  /\ call' = [call EXCEPT ![t] = NoCall]
  /\ lin'  = [lin EXCEPT ![t] = Pending]
  /\ seen' = [seen EXCEPT ![t] = {}]
  /\ ret'  = [ret EXCEPT ![t] = r]
  /\ UNCHANGED map

Next ==
  \E t \in Threads :
    \/ \E c \in Calls : Invoke(t, c)
    \/ Insert(t)
    \/ Remove(t)
    \/ Refuse(t)
    \/ \E r \in Vals \cup {0, 1} : Return(t, r)

Spec == Init /\ [][Next]_vars
=============================================================================
