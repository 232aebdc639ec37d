---------------------------- MODULE LinkedTrees ----------------------------
(***************************************************************************)
(* The operations of tree<T> (src/include/tree.hh) that the parameter       *)
(* trees use.  A tree is the set of its allocated nodes with their links;   *)
(* head and feet are the sentinels around the top level.  Nodes are         *)
(* numbered in the order of their allocation.                               *)
(***************************************************************************)
EXTENDS Naturals, Sequences, SequencesExt, FiniteSets

CONSTANTS
    HeadNode,       \* the sentinel before the first top node
    FeetNode,       \* the sentinel after the last top node
    NoNode,         \* a null node pointer
    NoData          \* the data of a sentinel

ASSUME PointersAssumption ==
    /\ HeadNode # FeetNode /\ NoNode \notin {HeadNode, FeetNode}
    /\ {HeadNode, FeetNode, NoNode} \intersect Nat = {}

Node(parent, prev, next, data) ==
    [parent |-> parent, first |-> NoNode, last |-> NoNode,
     prev |-> prev, next |-> next, data |-> data]

\* all that clear() leaves
Sentinels == {HeadNode, FeetNode}

EmptyTree ==
    [n \in Sentinels |->
        IF n = HeadNode THEN Node(NoNode, NoNode, FeetNode, NoData)
                        ELSE Node(NoNode, HeadNode, NoNode, NoData)]

Members(t) == DOMAIN t \ Sentinels
Fresh(t) == Cardinality(Members(t)) + 1
Begin(t) == t[HeadNode].next
IsEmpty(t) == Begin(t) = FeetNode

\* a new node before a top node or before feet
Insert(t, position, data) ==
    LET n == Fresh(t)
        prev == t[position].prev
    IN  [m \in DOMAIN t \union {n} |->
            IF m = n THEN Node(NoNode, prev, position, data)
            ELSE IF m = prev THEN [t[m] EXCEPT !.next = n]
            ELSE IF m = position THEN [t[m] EXCEPT !.prev = n]
            ELSE t[m]]

SetHead(t, data) == Insert(t, FeetNode, data)

MutAppendChild(t, position, data) ==
    LET n == Fresh(t)
        last == t[position].last
    IN  [m \in DOMAIN t \union {n} |->
            IF m = n THEN Node(position, NoNode, NoNode, data)
            ELSE IF m = position
            THEN [t[m] EXCEPT !.first = IF last = NoNode THEN n ELSE @, !.last = n]
            ELSE IF m = last THEN [t[m] EXCEPT !.next = n]
            ELSE t[m]]

\* a new last child of position
AppendChild(t, position, data) ==
    LET n == Fresh(t)
        last == t[position].last
    IN  [m \in DOMAIN t \union {n} |->
            IF m = n THEN Node(position, last, NoNode, data)
            ELSE IF m = position
            THEN [t[m] EXCEPT !.first = IF last = NoNode THEN n ELSE @, !.last = n]
            ELSE IF m = last THEN [t[m] EXCEPT !.next = n]
            ELSE t[m]]

-----------------------------------------------------------------------------
(* Walking a tree.                                                          *)

\* a node and all its ancestors, the node first
Lineage(t, n) ==
    LET up[m \in Members(t)] ==
            IF t[m].parent = NoNode THEN <<m>> ELSE <<m>> \o up[t[m].parent]
    IN  up[n]
Depth(t, n) == Len(Lineage(t, n)) - 1

\* where the iterator goes once it is done with n and all below n
After(t, n) ==
    LET up[m \in Members(t)] ==
            IF t[m].next # NoNode THEN t[m].next ELSE up[t[m].parent]
    IN  up[n]
PreOrderNext(t, n) == IF t[n].first # NoNode THEN t[n].first ELSE After(t, n)

\* the nodes from begin() to end(), as pre_order_iterator visits them
PreOrder(t) ==
    LET from[n \in Members(t) \union {FeetNode}] ==
            IF n = FeetNode THEN <<>> ELSE <<n>> \o from[PreOrderNext(t, n)]
    IN  from[Begin(t)]

\* the children of n: child(n, 0), child(n, 1), ... number_of_children() of them
Children(t, n) ==
    LET from[m \in DOMAIN t \union {NoNode}] ==
            IF m = NoNode THEN <<>> ELSE <<m>> \o from[t[m].next]
    IN  from[t[n].first]

-----------------------------------------------------------------------------
(* Whole trees.                                                             *)

\* replace puts the k-th node of the source in pre-order below the copy of its
\* parent: all its links lead to copies, those at the ends to the sentinels
Replace(other, source, m) ==
    LET node == other[IF m \in Sentinels THEN m ELSE source[m]]
        Image(n) == IF n \in Members(other)
                    THEN CHOOSE k \in DOMAIN source : source[k] = n ELSE n
    IN  [node EXCEPT !.parent = Image(@), !.first = Image(@), !.last = Image(@),
                     !.prev = Image(@), !.next = Image(@)]

\* copy_ clears the target first, so the nodes it allocates are all there are
Copy(other) ==
    LET source == PreOrder(other)
    IN  [m \in Sentinels \union DOMAIN source |-> Replace(other, source, m)]

\* debug_verify_consistency: neighbours point at each other, the outer children
\* are the ones the parent names
Consistent(t) ==
    \A n \in Members(t) :
        t[n].parent # NoNode =>
            /\ IF t[n].prev = NoNode THEN t[t[n].parent].first = n
                                     ELSE t[t[n].prev].next = n
            /\ IF t[n].next = NoNode THEN t[t[n].parent].last = n
                                     ELSE t[t[n].next].prev = n

\* the iterator visits every node of the tree once
VisitsEachOnce(t) ==
    /\ IsInjective(PreOrder(t))
    /\ ToSet(PreOrder(t)) = Members(t)
=============================================================================
