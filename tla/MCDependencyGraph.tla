------------------------- MODULE MCDependencyGraph -------------------------
(* Three data, two link types, and at most MaxLinks links in the graph.      *)
EXTENDS DependencyGraph

CONSTANT MaxLinks

Bounded == Cardinality(LinksOf(graph)) <= MaxLinks
=============================================================================
