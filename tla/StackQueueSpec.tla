--------------------------- MODULE StackQueueSpec ---------------------------
(***************************************************************************)
(* What a stack or a queue of the library promises (src/stack_queue.h):    *)
(* add(item) and remove() take effect at one moment of the call, on a      *)
(* sequence from whose front remove takes.  remove() returns 0 only if the *)
(* sequence was empty at some moment of the call.                          *)
(***************************************************************************)
EXTENDS Integers, Sequences

CONSTANTS
  Threads,
  Items,    \* the items; 0 is not one of them
  Lifo      \* TRUE for a stack: add puts its item at the front

Pending == -1    \* the effect of a call has not taken place yet

Calls == [op : {"add"}, item : Items] \cup [op : {"remove"}, item : {0}]

NoCall == [op |-> "none"]

VARIABLES
  content,  \* the items, the next one to be removed first
  call,     \* the call each thread is in, or NoCall
  lin,      \* the result that a call's effect has fixed, or Pending
  drained,  \* has the structure been empty during the call?
  ret       \* the result of the call that has returned, until the next event

vars == <<content, call, lin, drained, ret>>

Init ==
  /\ content = <<>>
  /\ call    = [t \in Threads |-> NoCall]
  /\ lin     = [t \in Threads |-> Pending]
  /\ drained = [t \in Threads |-> FALSE]
  /\ ret     = 0

Invoke(t, c) ==
  /\ call[t] = NoCall
  /\ call'    = [call EXCEPT ![t] = c]
  /\ drained' = [drained EXCEPT ![t] = (content = <<>>)]
  /\ ret'     = 0
  /\ UNCHANGED <<content, lin>>

\* The sequence becomes s, which fixes the result r of the call of t.
Effect(t, s, r) ==
  /\ content' = s
  /\ lin'     = [lin EXCEPT ![t] = r]
  /\ drained' = [u \in Threads |-> drained[u] \/ (call[u] # NoCall /\ s = <<>>)]
  /\ ret'     = 0
  /\ UNCHANGED call

\* The sequence with an item added.
Put(s, x) == IF Lifo THEN <<x>> \o s ELSE Append(s, x)

Add(t) ==
  /\ call[t].op = "add"
  /\ lin[t] = Pending
  /\ Effect(t, Put(content, call[t].item), 1)

Remove(t) ==
  /\ call[t].op = "remove"
  /\ lin[t] = Pending
  /\ content # <<>>
  /\ Effect(t, Tail(content), Head(content))

Return(t, r) ==
  /\ call[t] # NoCall
  /\ IF lin[t] = Pending THEN call[t].op = "remove" /\ drained[t] /\ r = 0 ELSE r = lin[t]
  /\ call'    = [call EXCEPT ![t] = NoCall]
  /\ lin'     = [lin EXCEPT ![t] = Pending]
  /\ drained' = [drained EXCEPT ![t] = FALSE]
  /\ ret'     = r
  /\ UNCHANGED content

Next ==
  \E t \in Threads :
    \/ \E c \in Calls : Invoke(t, c)
    \/ Add(t)
    \/ Remove(t)
    \/ \E r \in Items \cup {0, 1} : Return(t, r)

Spec == Init /\ [][Next]_vars
=============================================================================
