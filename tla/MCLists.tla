------------------------------ MODULE MCLists ------------------------------
EXTENDS Lists, TLC

Symmetry == Permutations(Threads)

\* In each table two keys share a bucket.  In HashtableJava three keys share a
\* segment: the third makes it grow, copies the node of 1 and takes over that of 3.
\* Where a structure has many states, one search is left out: the others and the
\* updates walk over the same nodes.  In the list with lock coupling a third key lets a
\* thread have a node behind it that it has let go of while it holds two others.
ListBound(n) == [calls |-> Ops \X {1, 2}, nodes |-> n]
LongBound    == [calls |-> (Ops \X {1, 2}) \ {<<"search", 1>>}, nodes |-> 3]
TableBound   == [calls |-> (Ops \X {1, 3}) \cup {<<"insert", 2>>, <<"search", 2>>}, nodes |-> 2]
JavaBound    == [calls |-> ({"insert"} \X {1, 3, 5}) \cup ({"search"} \X {1, 3}) \cup {<<"remove", 3>>},
                 nodes |-> 4]
CouplingBound ==
  [calls |-> ((Ops \X {1, 2}) \ {<<"search", 1>>}) \cup {<<"insert", 3>>, <<"remove", 3>>}, nodes |-> 3]

MCBound ==
  [s \in {"LinkedListOptik", "LinkedListOptikGL", "LinkedListHarris"} |-> LongBound]
    @@ ("HashtableJava" :> JavaBound)
    @@ ("LinkedListCoupling" :> CouplingBound)
    @@ [s \in LinkedLists |-> ListBound(3)]
    @@ [s \in {h.name : h \in Hashtables} |-> TableBound]

JavaBoundLive == [calls |-> {<<"insert", 1>>, <<"insert", 3>>, <<"remove", 1>>}, nodes |-> 4]

MCBoundLive ==
  [s \in LinkedLists |-> ListBound(2)] @@ ("HashtableJava" :> JavaBoundLive)
=============================================================================
