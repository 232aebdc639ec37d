----------------------- MODULE DependencyGraphProofs -----------------------
(***************************************************************************)
(* Proofs about the dependence graph, for any data and link types and any    *)
(* sequence of calls.                                                       *)
(***************************************************************************)
EXTENDS DependencyGraph, DependencyGraphsProofs

WellFormed == IsGraph(graph, Data, Types)

-----------------------------------------------------------------------------
(***************************************************************************)
(* The inductive invariant: whatever the calls, the graph is well formed.    *)
(***************************************************************************)

\* Every call leaves a well-formed graph (lines 426 to 456).
THEOREM Inductive == Spec => []WellFormed
<1>1. Init => WellFormed
  BY EmptyIsGraph, DataAssumption DEF Init, WellFormed
<1>2. WellFormed /\ [Next]_vars => WellFormed'
  <2> SUFFICES ASSUME WellFormed, [Next]_vars PROVE WellFormed'
    OBVIOUS
  <2>1. ASSUME NEW d \in Data, Lookup(d) PROVE WellFormed'
    BY <2>1, GetNodeEffect, DataAssumption DEF WellFormed, Lookup
  <2>2. ASSUME NEW from \in Data, NEW to \in Data, NEW type \in Types, Add(from, to, type)
        PROVE  WellFormed'
    BY <2>2, AddEffect, DataAssumption DEF WellFormed, Add
  <2>3. CASE UNCHANGED vars
    BY <2>3 DEF vars, WellFormed
  <2> QED
    BY <2>1, <2>2, <2>3 DEF Next
<1> QED
  BY <1>1, <1>2, PTL DEF Spec

\* The type invariant of the graph.
THEOREM TypeCorrect == Spec => []TypeOK
<1>1. WellFormed => TypeOK
  BY DEF WellFormed, IsGraph, TypeOK, LinkSet
<1> QED
  BY <1>1, Inductive, PTL

\* No node is twice in the vector and no link twice in a list (lines 318 to
\* 321 and 428 to 438).
THEOREM Injective == Spec => []NoDoubles
<1>1. WellFormed => NoDoubles
  BY DEF WellFormed, IsGraph, NoDoubles
<1> QED
  BY <1>1, Inductive, PTL

\* What getControlType answers for two linked nodes never changes (lines 342
\* to 349).
THEOREM TypeIsStable == Spec => ControlTypeStable
<1> DEFINE Keeps == \A d \in DOMAIN graph.links : \A e \in Data :
                       ControlType(graph, d, e) # NoType
                          => ControlType(graph', d, e) = ControlType(graph, d, e)
<1>1. WellFormed /\ [Next]_vars => [Keeps]_vars
  <2> SUFFICES ASSUME WellFormed, Next,
                      NEW d \in DOMAIN graph.links, NEW e \in Data,
                      ControlType(graph, d, e) # NoType
               PROVE  ControlType(graph', d, e) = ControlType(graph, d, e)
    OBVIOUS
  <2>1. LinksTo(graph, d, e) # {} /\ graph.links[d] \in Seq(LinkSet(graph, Types))
    BY DEF ControlType, WellFormed, IsGraph
  <2>2. CASE \E x \in Data : Lookup(x)
    <3>1. PICK x \in Data : Lookup(x)
      BY <2>2
    <3>2. NodeAdded(graph, x, graph')
      BY <3>1, GetNodeEffect, DataAssumption DEF WellFormed, Lookup
    <3>3. d \in DOMAIN graph'.links /\ graph'.links[d] = graph.links[d]
      BY <3>2 DEF NodeAdded
    <3> QED
      BY <3>3 DEF ControlType, LinksTo
  <2>3. CASE \E from, to \in Data, type \in Types : Add(from, to, type)
    <3>1. PICK from \in Data, to \in Data, type \in Types : Add(from, to, type)
      BY <2>3
    <3>2. LinkAdded(graph, from, to, type, graph')
      BY <3>1, AddEffect, DataAssumption DEF WellFormed, Add
    <3>3. /\ d \in DOMAIN graph'.links
          /\ \/ graph'.links[d] = graph.links[d]
             \/ graph'.links[d] = Append(graph.links[d], Link(to, type))
      BY <3>2 DEF LinkAdded
    <3> DEFINE S == LinkSet(graph, Types) \union {Link(to, type)}
    <3>4. graph.links[d] \in Seq(S) /\ Link(to, type) \in S
      BY <2>1, SeqMonotonic
    <3> HIDE DEF S
    <3> QED
      BY <2>1, <3>3, <3>4, FirstLinkKept
  <2> QED
    BY <2>2, <2>3 DEF Next
<1> QED
  BY <1>1, Inductive, PTL DEF Spec, ControlTypeStable

\* The graph implements the growing relation (lines 313 to 322 and 426 to 456).
THEOREM Refinement == Spec => RefinesRelation
<1>1. Init => ImplementsRelation!Init
  <2> SUFFICES ASSUME graph = EmptyGraph PROVE ImplementsRelation!Init
    BY DEF Init
  <2>1. DOMAIN graph.links = {} /\ graph.root = NoData
    BY DEF EmptyGraph
  <2> QED
    BY <2>1 DEF ImplementsRelation!Init, LinksOf
<1>2. WellFormed /\ [Next]_vars
         => [ImplementsRelation!Next]_(ImplementsRelation!vars)
  <2> SUFFICES ASSUME WellFormed, [Next]_vars
               PROVE  [ImplementsRelation!Next]_(ImplementsRelation!vars)
    OBVIOUS
  <2>1. ASSUME NEW d \in Data, Lookup(d) PROVE ImplementsRelation!Node(d)
    <3>1. NodeAdded(graph, d, graph')
      BY <2>1, GetNodeEffect, DataAssumption DEF WellFormed, Lookup
    <3>2. d \notin DOMAIN graph.links => ToSet(graph'.links[d]) = {}
      BY <3>1 DEF ToSet, NodeAdded
    <3>3. LinksOf(graph') = LinksOf(graph)
      BY <3>1, <3>2 DEF LinksOf, NodeAdded
    <3> QED
      BY <3>1, <3>3 DEF NodeAdded, ImplementsRelation!Node, ImplementsRelation!Grow
  <2>2. ASSUME NEW from \in Data, NEW to \in Data, NEW type \in Types, Add(from, to, type)
        PROVE  ImplementsRelation!Edge(from, to, type)
    <3>1. LinkAdded(graph, from, to, type, graph')
      BY <2>2, AddEffect, DataAssumption DEF WellFormed, Add
    <3> QED
      BY <3>1 DEF LinkAdded, ImplementsRelation!Edge, ImplementsRelation!Grow
  <2>3. CASE UNCHANGED vars
    BY <2>3 DEF vars, ImplementsRelation!vars
  <2> QED
    BY <2>1, <2>2, <2>3 DEF Next, ImplementsRelation!Next
<1> QED
  BY <1>1, <1>2, Inductive, PTL DEF Spec, RefinesRelation, ImplementsRelation!Spec
=============================================================================
