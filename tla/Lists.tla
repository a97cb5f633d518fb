------------------------------- MODULE Lists -------------------------------
(***************************************************************************)
(* The linked lists and the hash tables over them.  A hash table is an     *)
(* array of lists, and each of its operations one call of the list that    *)
(* the key hashes to.  A behaviour is one of a single structure.           *)
(***************************************************************************)
EXTENDS SortedList

OptikGL   == INSTANCE LinkedListOptikGL
Optik     == INSTANCE LinkedListOptik
Lazy      == INSTANCE LinkedListLazy
Pugh      == INSTANCE LinkedListPugh
Coupling  == INSTANCE LinkedListCoupling
Harris    == INSTANCE LinkedListHarris
HarrisOpt == INSTANCE LinkedListHarrisOpt
Copy      == INSTANCE LinkedListCopy
Single    == INSTANCE LinkedListSeq
Java      == INSTANCE HashtableJava

-----------------------------------------------------------------------------
(* The hash tables: which list is in the buckets.                          *)

HashtableOptik   == [name |-> "HashtableOptik",   list |-> "LinkedListOptikGL"]
HashtableOptikGL == [name |-> "HashtableOptikGL", list |-> "LinkedListOptik"]
HashtableHarris  == [name |-> "HashtableHarris",  list |-> "LinkedListHarrisOpt"]
HashtablePugh    == [name |-> "HashtablePugh",    list |-> "LinkedListPugh"]
HashtableCopy    == [name |-> "HashtableCopy",    list |-> "LinkedListCopy"]
HashtableJava    == [name |-> "HashtableJava",    list |-> "HashtableJava"]

Hashtables ==
  {HashtableOptik, HashtableOptikGL, HashtableHarris, HashtablePugh, HashtableCopy, HashtableJava}

LinkedLists ==
  {"LinkedListOptik", "LinkedListOptikGL", "LinkedListLazy", "LinkedListPugh",
   "LinkedListCoupling", "LinkedListHarris", "LinkedListHarrisOpt", "LinkedListCopy",
   "LinkedListSeq"}

\* The structure called name, of lists of the given kind; each list has two sentinels.
Structure(name, list, buckets) ==
  [name |-> name, list |-> list, buckets |-> buckets, calls |-> Bound[name].calls,
   nodes |-> Bound[name].nodes + IF list = "HashtableJava" THEN 0 ELSE 2 * buckets]

-----------------------------------------------------------------------------

Init ==
  /\ \/ \E l \in LinkedLists \cap DOMAIN Bound : set = Structure(l, l, 1)
     \/ \E h \in Hashtables : h.name \in DOMAIN Bound /\ set = Structure(h.name, h.list, HtLength)
  /\ \/ OptikGL!Init
     \/ Optik!Init
     \/ Lazy!Init
     \/ Pugh!Init
     \/ Coupling!Init
     \/ Harris!Init
     \/ HarrisOpt!Init
     \/ Copy!Init
     \/ Single!Init
     \/ Java!Init

\* One step of the call that thread t is in.
Step(t) ==
  \/ is("LinkedListOptikGL")   /\ OptikGL!Step(t)
  \/ is("LinkedListOptik")     /\ Optik!Step(t)
  \/ is("LinkedListLazy")      /\ Lazy!Step(t)
  \/ is("LinkedListPugh")      /\ Pugh!Step(t)
  \/ is("LinkedListCoupling")  /\ Coupling!Step(t)
  \/ is("LinkedListHarris")    /\ Harris!Step(t)
  \/ is("LinkedListHarrisOpt") /\ HarrisOpt!Step(t)
  \/ is("LinkedListCopy")      /\ Copy!Step(t)
  \/ is("LinkedListSeq")       /\ Single!Step(t)
  \/ is("HashtableJava")       /\ Java!Step(t)

Next == \E t \in Threads : Step(t) \/ \E c \in Calls : Invoke(t, c)

Spec == Init /\ [][Next]_vars

\* A thread that is in a call is not suspended for ever.  No lock is fair.
FairSpec == Spec /\ \A t \in Threads : WF_vars(Step(t))

length ==
  CASE is("LinkedListOptikGL")   -> OptikGL!length
    [] is("LinkedListOptik")     -> Optik!length
    [] is("LinkedListLazy")      -> Lazy!length
    [] is("LinkedListPugh")      -> Pugh!length
    [] is("LinkedListCoupling")  -> Coupling!length
    [] is("LinkedListHarris")    -> Harris!length
    [] is("LinkedListHarrisOpt") -> HarrisOpt!length
    [] is("LinkedListCopy")      -> Copy!length
    [] is("LinkedListSeq")       -> Single!length
    [] is("HashtableJava")       -> Java!length

-----------------------------------------------------------------------------
(* Properties                                                              *)

\* The nodes that a thread that walks the structure now would pass, and what it would
\* find under key k.
Linked == IF is("HashtableJava") THEN Java!Linked ELSE Reachable

Found(linked, k) ==
  IF is("LinkedListCopy") THEN Copy!Scan(array[addr(k)], k)
  ELSE IF is("HashtableJava") THEN Java!chm_value(k)
  ELSE LET hits == {n \in linked : node[n].key = k /\ ~node[n].marked}
       IN  IF hits = {} THEN 0 ELSE node[Max(hits)].val

\* Thread t has built a larger segment for HashtableJava and not yet published it.
Rehashing(t) == is("HashtableJava") /\ pc[t] = "publish"

\* Type invariant: pointers stay inside the heap, and no thread ever gets hold of
\* a node that nobody has published.
TypeOK == ListTypeOK

\* The structure holds exactly the keys and values that the calls so far have left
\* in it, each once and, in a list, in order, and nothing that a walk finds has been
\* released: no update links behind a removed node or unlinks more than it means to,
\* and no rehash loses or doubles a node.
MapIsList ==
  LET linked == Linked IN
  /\ \A k \in Keys : Found(linked, k) = map[k]
  /\ \A n \in linked :
       /\ freed[n] = 0 \/ \E t \in Threads : Rehashing(t)
       /\ Sentinels # {} => node[n].key < node[node[n].next].key
       /\ \A m \in linked : node[n].key = node[m].key /\ m # n => node[n].marked \/ node[m].marked

\* When no call is running, length() is the number of inserts minus the number of
\* removes that have succeeded, which is what test_search.cc compares at its end.
LengthMatchesReturns ==
  (\A t \in Threads : pc[t] = "idle") => length = pr

\* A node is released once, after it has left the list or, when a rehash has copied
\* it, just before; and where the code frees it at once instead of handing it to the
\* collector, no thread may still get to it.
ReleaseIsSafe ==
  LET linked == Linked IN
  \A n \in Nodes :
    /\ freed[n] <= 1
    /\ freed[n] = 1 => n \notin linked \/ \E t \in Threads : Rehashing(t)
    /\ freed[n] = 1 /\ is("LinkedListCoupling")
         => \A t \in Threads : n \notin {Pred(t), Curr(t)}

\* No step changes the successor of a node that has been released: no update is lost to
\* a predecessor that has left the list.  (Its lock word may still be given back.)
RemovedIsFrozen ==
  [][\A n \in Nodes : freed[n] > 0 => node'[n].next = node[n].next]_vars

\* Every call returns what an atomic map could have returned at some moment of
\* the call; only a remove of Pugh's list may miss a key that is there.
\* (Most steps leave the atomic map alone, which is looked at first.)
Linearizable ==
  /\ Abs!Init
  /\ [][UNCHANGED Abs!vars \/ Abs!Next \/ \E t \in Threads : Pugh!SpuriousMiss(t)]_<<Abs!vars>>

\* Every call returns, whatever the other threads do: they make a call restart only
\* by finishing updates of their own.  The lists whose calls take a spin lock again
\* and again let a thread starve, but some call returns.
EveryCallReturns ==
  \A t \in Threads :
    \/ []<>(pc[t] = "idle")
    \/ /\ set.list \in {"LinkedListCoupling", "LinkedListCopy", "HashtableJava"}
       /\ []<><<\E u \in Threads \ {t} : pc[u] # "idle" /\ pc'[u] = "idle">>_vars
=============================================================================
