-------------------------- MODULE DependencyGraphs --------------------------
(***************************************************************************)
(* The operations of DependencyGraph<NodeT> and DependencyNode<NodeT>       *)
(* (src/include/DependencyGraph.h): a graph is its vector of nodes, named    *)
(* by the data they hold, its root, and for each node the vector of its      *)
(* dependency links.                                                         *)
(* Operators named Mut... are faulty variants of the operator they precede.  *)
(***************************************************************************)
EXTENDS Naturals, Sequences, SequencesExt, FiniteSets

CONSTANT NoData         \* RootNode of a graph without nodes

EmptyGraph == [nodes |-> <<>>, root |-> NoData, links |-> [d \in {} |-> <<>>]]

\* getNodeByData creates the node on demand; the first one becomes the root
MutLastIsRoot(g, d) ==
    IF d \in DOMAIN g.links THEN g
    ELSE [nodes |-> Append(g.nodes, d),
          root  |-> d,
          links |-> [x \in DOMAIN g.links \union {d} |->
                        IF x = d THEN <<>> ELSE g.links[x]]]
GetNodeByData(g, d) ==
    IF d \in DOMAIN g.links THEN g
    ELSE [nodes |-> Append(g.nodes, d),
          root  |-> IF g.root = NoData THEN d ELSE g.root,
          links |-> [x \in DOMAIN g.links \union {d} |->
                        IF x = d THEN <<>> ELSE g.links[x]]]

Link(to, type) == [to |-> to, type |-> type]

\* "Avoid double links": the pair of target and type is what is compared
MutDoubleLinks(g, from, link) ==
    [g EXCEPT !.links[from] = Append(@, link)]
MutPrepend(g, from, link) ==
    IF link \in ToSet(g.links[from]) THEN g
    ELSE [g EXCEPT !.links[from] = <<link>> \o @]
AddDependencyTo(g, from, link) ==
    IF link \in ToSet(g.links[from]) THEN g
    ELSE [g EXCEPT !.links[from] = Append(@, link)]

MutTargetNotCreated(g, from, to, type) ==
    AddDependencyTo(GetNodeByData(g, from), from, Link(to, type))
AddDependency(g, from, to, type) ==
    AddDependencyTo(GetNodeByData(GetNodeByData(g, from), to), from, Link(to, type))

\* the type is ignored
Depends(g, from, to) ==
    /\ {from, to} \subseteq DOMAIN g.links
    /\ \E i \in DOMAIN g.links[from] : g.links[from][i].to = to

\* the type of the first link, else NoType (-1)
NoType == "none"
LinksTo(g, from, to) == {i \in DOMAIN g.links[from] : g.links[from][i].to = to}
First(indices) == CHOOSE i \in indices : \A j \in indices : i <= j
ControlType(g, from, to) ==
    LET hits == LinksTo(g, from, to)
    IN  IF hits = {} THEN NoType
        ELSE g.links[from][First(hits)].type

\* the graph as a relation
LinksOf(g) ==
    UNION {{<<n, k.to, k.type>> : k \in ToSet(g.links[n])} : n \in DOMAIN g.links}
=============================================================================
