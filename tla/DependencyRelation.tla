------------------------- MODULE DependencyRelation -------------------------
(***************************************************************************)
(* What a dependence graph promises: a set of nodes, the first of which is   *)
(* its root, and a set of typed edges between them; both only grow, an edge  *)
(* at a time.                                                                *)
(***************************************************************************)
CONSTANTS Data, Types, NoData

VARIABLES nodes, edges, root

vars == <<nodes, edges, root>>

Init == nodes = {} /\ edges = {} /\ root = NoData

\* new nodes, of which one is the root if there was none
Grow(new) ==
    /\ nodes' = nodes \union new
    /\ root' \in IF nodes = {} THEN new ELSE {root}

Node(d) == Grow({d}) /\ UNCHANGED edges

Edge(from, to, type) ==
    /\ Grow({from, to})
    /\ nodes = {} => root' = from
    /\ edges' = edges \union {<<from, to, type>>}

Next ==
    \/ \E d \in Data : Node(d)
    \/ \E from, to \in Data, type \in Types : Edge(from, to, type)

Spec == Init /\ [][Next]_vars
=============================================================================
