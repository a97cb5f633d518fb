------------------------- MODULE StackQueueHistory -------------------------
(***************************************************************************)
(* The calls of a stack or a queue, and the history variables that relate  *)
(* its steps to the sequence of StackQueueSpec.  The modules of the stacks *)
(* and queues extend this one; their operations say when a call begins,    *)
(* when it puts or takes an item and with which result it returns,         *)
(* whatever the sequence thinks of that.                                   *)
(***************************************************************************)
EXTENDS Ssmem, Integers, Sequences

CONSTANT Items

ASSUME ItemsAssumption == Items \subseteq Nat \ {0}

VARIABLES
  content, call, lin, drained, ret,   \* see StackQueueSpec
  pr    \* successful adds minus successful removes that have returned

hist == <<content, call, lin, drained, ret, pr>>

\* The sequence of a stack and that of a queue differ in where add puts its item.
Stack == INSTANCE StackQueueSpec WITH Lifo <- TRUE
Queue == INSTANCE StackQueueSpec WITH Lifo <- FALSE

Calls  == Queue!Calls
NoCall == Queue!NoCall

HistInit == Queue!Init /\ pr = 0

\* Thread t calls an operation.
Begins(t, c) == Queue!Invoke(t, c) /\ UNCHANGED pr

\* The call of t adds its item.
Pushes(t)   == Stack!Effect(t, Stack!Put(content, call[t].item), 1) /\ UNCHANGED pr
Enqueues(t) == Queue!Effect(t, Queue!Put(content, call[t].item), 1) /\ UNCHANGED pr

\* The call of t takes the first item away and will return x.
Takes(t, x) == Queue!Effect(t, SubSeq(content, 2, Len(content)), x) /\ UNCHANGED pr

\* The call of t returns r; the caller counts successes as test_stackqueue.cc does.
Returns(t, r) ==
  /\ call'    = [call EXCEPT ![t] = NoCall]
  /\ lin'     = [lin EXCEPT ![t] = Queue!Pending]
  /\ drained' = [drained EXCEPT ![t] = FALSE]
  /\ ret'     = r
  /\ pr'      = IF r = 0 THEN pr ELSE IF call[t].op = "add" THEN pr + 1 ELSE pr - 1
  /\ UNCHANGED content

HistTypeOK ==
  /\ content \in Seq(Items)
  /\ call    \in [Threads -> Calls \cup {NoCall}]
  /\ lin     \in [Threads -> Items \cup {0, 1, Queue!Pending}]
  /\ drained \in [Threads -> BOOLEAN]
  /\ ret     \in Items \cup {0, 1}
  /\ pr      \in Int
=============================================================================
