--------------------------- MODULE DependencyGraph ---------------------------
(***************************************************************************)
(* One dependence graph under the calls its users make in any order: the     *)
(* control, data and program dependence graphs are each built by such a      *)
(* sequence of getNodeByData and addDependency calls.                        *)
(***************************************************************************)
EXTENDS DependencyGraphs

CONSTANTS Data,         \* what the nodes hold
          Types         \* the link types

ASSUME DataAssumption == NoData \notin Data

VARIABLE graph

vars == <<graph>>

Init == graph = EmptyGraph

Lookup(d) == graph' = GetNodeByData(graph, d)
Add(from, to, type) == graph' = AddDependency(graph, from, to, type)

Next ==
    \/ \E d \in Data : Lookup(d)
    \/ \E from, to \in Data, type \in Types : Add(from, to, type)

Spec == Init /\ [][Next]_vars

-----------------------------------------------------------------------------
\* Type invariant: the node vector and the map hold the same data, links are
\* typed and lead to nodes of the graph (DependencyGraph.h, lines 426 to 456).
TypeOK ==
    /\ graph.nodes \in Seq(Data)
    /\ DOMAIN graph.links = ToSet(graph.nodes)
    /\ graph.root \in Data \union {NoData}
    /\ \A d \in DOMAIN graph.links :
          graph.links[d] \in Seq([to : ToSet(graph.nodes), type : Types])

\* The graph implements the relation: every call adds at most its own edge and
\* its own nodes, and none is lost (lines 426 to 456 and 313 to 322).
ImplementsRelation ==
    INSTANCE DependencyRelation WITH
        nodes <- DOMAIN graph.links, edges <- LinksOf(graph), root <- graph.root
RefinesRelation == ImplementsRelation!Spec

\* No node occurs twice in the vector, and no link twice in a list: the callers
\* repeat their calls and rely on it (lines 318 to 321 and 428 to 438).
NoDoubles ==
    /\ IsInjective(graph.nodes)
    /\ \A d \in DOMAIN graph.links : IsInjective(graph.links[d])

\* What getControlType answers for two nodes does not change once they are
\* linked, however many links of other types follow (lines 342 to 349).
ControlTypeStable ==
    [][\A d \in DOMAIN graph.links : \A e \in Data :
          ControlType(graph, d, e) # NoType
             => ControlType(graph', d, e) = ControlType(graph, d, e)]_vars
=============================================================================
