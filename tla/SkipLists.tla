----------------------------- MODULE SkipLists -----------------------------
(***************************************************************************)
(* The skip lists.  A behaviour is one of a single skip list.              *)
(***************************************************************************)
EXTENDS SkipList

CONSTANT Bound   \* for each skip list to look at, the operations and keys of its calls

HerlihyLB == INSTANCE SkiplistHerlihyLB
Optik     == INSTANCE SkiplistOptik
Fraser    == INSTANCE SkiplistFraser
HerlihyLF == INSTANCE SkiplistHerlihyLF
Single    == INSTANCE SkiplistSeq

Init ==
  /\ set \in DOMAIN Bound
  /\ HerlihyLB!Init \/ Optik!Init \/ Fraser!Init \/ HerlihyLF!Init \/ Single!Init

\* One step of the call that thread t is in.
Step(t) ==
  \/ is("SkiplistHerlihyLB") /\ HerlihyLB!Step(t)
  \/ is("SkiplistOptik")     /\ Optik!Step(t)
  \/ is("SkiplistFraser")    /\ Fraser!Step(t)
  \/ is("SkiplistHerlihyLF") /\ HerlihyLF!Step(t)
  \/ is("SkiplistSeq")       /\ Single!Step(t)

Next ==
  \E t \in Threads :
    Step(t) \/ \E c \in Calls : <<c.op, c.key>> \in Bound[set] /\ Invoke(t, c)

Spec == Init /\ [][Next]_vars

length ==
  CASE is("SkiplistHerlihyLB") -> HerlihyLB!length
    [] is("SkiplistOptik")     -> Optik!length
    [] is("SkiplistFraser")    -> Fraser!length
    [] is("SkiplistHerlihyLF") -> HerlihyLF!length
    [] is("SkiplistSeq")       -> Single!length

-----------------------------------------------------------------------------
(* Properties                                                              *)

\* Whether a search that stands on node n would report it.
Live(n) ==
  CASE is("SkiplistHerlihyLB") -> node[n].linked /\ ~node[n].gone
    [] is("SkiplistOptik")     -> ~Optik!deleted(n)
    [] is("SkiplistFraser")    -> ~node[n].gone
    [] OTHER                   -> ~node[n].mark[0]

\* Level 0 holds exactly the keys and values that the calls so far have left in
\* the skip list, each once; every level is sorted; and a live node is on no level
\* without being on level 0: an upper level never leads to what is not there.  The
\* new nodes of SkiplistHerlihyLF keep the successors they were made with, so that
\* an upper level may lead back to a removed node with the same key.
MapIsLevel0 ==
  LET on == [i \in Levels |-> OnLevel(i)]
      live == {n \in on[0] : Live(n)}
  IN
  /\ \A k \in Keys : {node[n].val : n \in {m \in live : key(m) = k}} = {map[k]} \ {None}
  /\ \A i \in Levels : \A n \in on[i] :
       /\ \/ key(n) < key(node[n].next[i])
          \/ is("SkiplistHerlihyLF") /\ i > 0 /\ key(n) = key(node[n].next[i])
       /\ Live(n) => n \in live

\* When no call is running, length() is the number of inserts minus the number of
\* removes that have succeeded, which is what test_search.cc compares at its end.
LengthMatchesReturns == (\A t \in Threads : pc[t] = "idle") => length = pr

\* The remove that has released node n has not ended the search that unlinks it.
Unlinking(n) == is("SkiplistFraser") /\ \E t \in Threads : loc[t].mine /\ loc[t].node = n

\* The CAS of an insert is about to put node n on upper level i: its own insert, or that
\* of a node which was made with n as its successor.
Late(n, i) ==
  /\ i > 0
  /\ \E t \in Threads :
       /\ pc[t] = "link" /\ loc[t].upto = i
       /\ n = loc[t].node \/ (is("SkiplistHerlihyLF") /\ n = node[loc[t].node].next[i])


\* Every call returns what an atomic map could have returned at some moment of
\* the call; only a remove of the OPTIK skip list may miss a key whose insert has
\* not returned yet.  Nodes are not reused: for the two lock-free skip lists this
\* assumes that ssmem does not give out again what is still on a level.
\* (Most steps leave the atomic map alone, which is looked at first.)
Linearizable ==
  /\ Abs!Init
  /\ [][UNCHANGED Abs!vars \/ Abs!Next \/ \E t \in Threads : Optik!SpuriousMiss(t)]_<<Abs!vars>>
=============================================================================
