----------------------- MODULE DependencyGraphsProofs -----------------------
(***************************************************************************)
(* Lemmas about the operations of dependence graphs: what each keeps and      *)
(* adds, for any set D of data and any set T of link types.                  *)
(***************************************************************************)
EXTENDS DependencyGraphs, SequenceTheorems, WellFoundedInduction, NaturalsInduction, TLAPS

LinkSet(g, T) == [to : DOMAIN g.links, type : T]

IsGraph(g, D, T) ==
    /\ g = [nodes |-> g.nodes, root |-> g.root, links |-> g.links]
    /\ g.nodes \in Seq(D)
    /\ g.links = [d \in DOMAIN g.links |-> g.links[d]]
    /\ DOMAIN g.links = ToSet(g.nodes)
    /\ g.root \in D \union {NoData}
    /\ \A d \in DOMAIN g.links :
          g.links[d] \in Seq(LinkSet(g, T))
    /\ IsInjective(g.nodes)
    /\ \A d \in DOMAIN g.links : IsInjective(g.links[d])
    /\ g.root = NoData <=> DOMAIN g.links = {}

-----------------------------------------------------------------------------
\* Appending an element that is new to an injective sequence.
LEMMA AppendNew ==
    ASSUME NEW S, NEW q \in Seq(S), NEW e \in S, IsInjective(q), e \notin ToSet(q)
    PROVE  /\ Append(q, e) \in Seq(S)
           /\ IsInjective(Append(q, e))
           /\ ToSet(Append(q, e)) = ToSet(q) \union {e}
<1>1. /\ Append(q, e) \in Seq(S) /\ Len(q) \in Nat
      /\ DOMAIN Append(q, e) = 1..Len(q) + 1 /\ DOMAIN q = 1..Len(q)
      /\ \A i \in 1..Len(q) : Append(q, e)[i] = q[i]
      /\ Append(q, e)[Len(q) + 1] = e
  OBVIOUS
<1>2. ToSet(Append(q, e)) = ToSet(q) \union {e}
  BY <1>1 DEF ToSet
<1>3. ASSUME NEW i \in 1..Len(q) + 1, NEW j \in 1..Len(q) + 1,
             Append(q, e)[i] = Append(q, e)[j]
      PROVE  i = j
  <2>1. \A k \in 1..Len(q) : q[k] # e
    BY <1>1 DEF ToSet
  <2>2. \A k, l \in 1..Len(q) : q[k] = q[l] => k = l
    BY <1>1 DEF IsInjective
  <2> QED
    BY <1>1, <1>3, <2>1, <2>2
<1> QED
  BY <1>1, <1>2, <1>3 DEF IsInjective

NodeAdded(g, d, h) ==
    /\ DOMAIN h.links = DOMAIN g.links \union {d}
    /\ \A x \in DOMAIN g.links : h.links[x] = g.links[x]
    /\ d \notin DOMAIN g.links => h.links[d] = <<>>
    /\ h.root = IF DOMAIN g.links = {} THEN d ELSE g.root

\* getNodeByData keeps the links and the root it finds, and adds the node.
LEMMA GetNodeEffect ==
    ASSUME NEW D, NEW T, NoData \notin D, NEW g, IsGraph(g, D, T), NEW d \in D
    PROVE  /\ IsGraph(GetNodeByData(g, d), D, T)
           /\ NodeAdded(g, d, GetNodeByData(g, d))
<1>1. CASE d \in DOMAIN g.links
  <2>1. GetNodeByData(g, d) = g /\ DOMAIN g.links \union {d} = DOMAIN g.links
    BY <1>1 DEF GetNodeByData
  <2> QED
    BY <1>1, <2>1 DEF NodeAdded
<1>2. CASE d \notin DOMAIN g.links
  <2> DEFINE h == GetNodeByData(g, d)
  <2>1. /\ h.nodes = Append(g.nodes, d)
        /\ h.root = IF g.root = NoData THEN d ELSE g.root
        /\ h.links = [x \in DOMAIN g.links \union {d} |->
                         IF x = d THEN <<>> ELSE g.links[x]]
        /\ h = [nodes |-> h.nodes, root |-> h.root, links |-> h.links]
    BY <1>2 DEF GetNodeByData
  <2> HIDE DEF h
  <2>2. DOMAIN h.links = DOMAIN g.links \union {d} /\ h.links[d] = <<>>
        /\ \A x \in DOMAIN g.links : h.links[x] = g.links[x]
    BY <1>2, <2>1
  <2>3. /\ h.nodes \in Seq(D) /\ IsInjective(h.nodes)
        /\ ToSet(h.nodes) = ToSet(g.nodes) \union {d}
    BY <1>2, <2>1, AppendNew DEF IsGraph
  <2>4. \A x \in DOMAIN h.links :
           /\ h.links[x] \in Seq(LinkSet(h, T))
           /\ IsInjective(h.links[x])
    <3> SUFFICES ASSUME NEW x \in DOMAIN h.links
                 PROVE  /\ h.links[x] \in Seq(LinkSet(h, T))
                        /\ IsInjective(h.links[x])
      OBVIOUS
    <3>1. CASE x = d
      <4>1. h.links[x] = <<>> /\ <<>> \in Seq(LinkSet(h, T)) /\ DOMAIN <<>> = 1..0
        BY <2>2, <3>1
      <4> QED
        BY <4>1 DEF IsInjective
    <3>2. CASE x # d
      <4>1. h.links[x] = g.links[x] /\ x \in DOMAIN g.links
        BY <2>2, <3>2
      <4>2. LinkSet(g, T) \subseteq LinkSet(h, T)
        BY <2>2 DEF LinkSet
      <4>3. g.links[x] \in Seq(LinkSet(g, T)) /\ IsInjective(g.links[x])
        BY <4>1 DEF IsGraph
      <4>4. g.links[x] \in Seq(LinkSet(h, T))
        BY <4>2, <4>3, SeqMonotonic
      <4> QED
        BY <4>1, <4>3, <4>4
    <3> QED
      BY <3>1, <3>2
  <2>5. h.root \in D \union {NoData} /\ h.root # NoData
        /\ h.root = IF DOMAIN g.links = {} THEN d ELSE g.root
    BY <2>1 DEF IsGraph
  <2>6. h.links = [x \in DOMAIN h.links |-> h.links[x]]
    BY <2>1
  <2>7. IsGraph(h, D, T)
    BY <2>1, <2>2, <2>3, <2>4, <2>5, <2>6 DEF IsGraph
  <2> QED
    BY <1>2, <2>2, <2>5, <2>7 DEF h, NodeAdded
<1> QED
  BY <1>1, <1>2

OneMoreLink(g, from, link, h) ==
    /\ h.root = g.root
    /\ DOMAIN h.links = DOMAIN g.links
    /\ \A x \in DOMAIN g.links \ {from} : h.links[x] = g.links[x]
    /\ h.links[from] = IF link \in ToSet(g.links[from]) THEN g.links[from]
                       ELSE Append(g.links[from], link)
    /\ ToSet(h.links[from]) = ToSet(g.links[from]) \union {link}

\* addDependencyTo appends the link unless the list has it.
LEMMA AddToEffect ==
    ASSUME NEW D, NEW T, NoData \notin D, NEW g, IsGraph(g, D, T), NEW from \in DOMAIN g.links,
           NEW link \in LinkSet(g, T),
           NEW h, h = AddDependencyTo(g, from, link)
    PROVE  IsGraph(h, D, T) /\ OneMoreLink(g, from, link, h)
<1>1. CASE link \in ToSet(g.links[from])
  BY <1>1 DEF AddDependencyTo, OneMoreLink
<1>2. CASE link \notin ToSet(g.links[from])
  <2> DEFINE list == Append(g.links[from], link)
  <2>1. h = [nodes |-> g.nodes, root |-> g.root,
             links |-> [g.links EXCEPT ![from] = list]]
    <3>1. h = [g EXCEPT !.links[from] = list]
      BY <1>2 DEF AddDependencyTo
    <3> QED
      BY <3>1 DEF IsGraph
  <2>2. /\ list \in Seq(LinkSet(g, T)) /\ IsInjective(list)
        /\ ToSet(list) = ToSet(g.links[from]) \union {link}
    <3> DEFINE q == g.links[from]
    <3>1. q \in Seq(LinkSet(g, T)) /\ link \in LinkSet(g, T) /\ IsInjective(q) /\ link \notin ToSet(q)
      BY <1>2 DEF IsGraph
    <3> HIDE DEF q
    <3>2. /\ Append(q, link) \in Seq(LinkSet(g, T)) /\ IsInjective(Append(q, link))
          /\ ToSet(Append(q, link)) = ToSet(q) \union {link}
      BY <3>1, AppendNew
    <3> QED
      BY <3>2 DEF q
  <2> HIDE DEF list
  <2>3. /\ DOMAIN h.links = DOMAIN g.links /\ h.links[from] = list
        /\ \A x \in DOMAIN g.links \ {from} : h.links[x] = g.links[x]
        /\ h.root = g.root /\ h.nodes = g.nodes
        /\ h.links = [x \in DOMAIN h.links |-> h.links[x]]
    BY <2>1
  <2>4. LinkSet(h, T) = LinkSet(g, T)
    BY <2>3 DEF LinkSet
  <2>5. IsGraph(h, D, T)
    BY <2>1, <2>2, <2>3, <2>4 DEF IsGraph
  <2> QED
    BY <1>2, <2>2, <2>3, <2>5 DEF list, OneMoreLink
<1> QED
  BY <1>1, <1>2

LinkAdded(g, from, to, type, h) ==
    /\ DOMAIN h.links = DOMAIN g.links \union {from, to}
    /\ h.root = IF DOMAIN g.links = {} THEN from ELSE g.root
    /\ LinksOf(h) = LinksOf(g) \union {<<from, to, type>>}
    /\ \A x \in DOMAIN g.links :
          h.links[x] = g.links[x] \/ h.links[x] = Append(g.links[x], Link(to, type))

\* addDependency adds its two nodes and its edge, and nothing else.
LEMMA AddEffect ==
    ASSUME NEW D, NEW T, NoData \notin D, NEW g, IsGraph(g, D, T), NEW from \in D, NEW to \in D, NEW type \in T
    PROVE  /\ IsGraph(AddDependency(g, from, to, type), D, T)
           /\ LinkAdded(g, from, to, type, AddDependency(g, from, to, type))
<1> DEFINE g1 == GetNodeByData(g, from)
           g2 == GetNodeByData(g1, to)
           h == AddDependencyTo(g2, from, Link(to, type))
<1>1. IsGraph(g1, D, T) /\ NodeAdded(g, from, g1)
  BY GetNodeEffect
<1> HIDE DEF g1
<1>2. IsGraph(g2, D, T) /\ NodeAdded(g1, to, g2)
  BY <1>1, GetNodeEffect
<1> HIDE DEF g2
<1>3. Link(to, type) \in LinkSet(g2, T) /\ from \in DOMAIN g2.links
  BY <1>1, <1>2 DEF Link, LinkSet, NodeAdded
<1>4. /\ IsGraph(h, D, T) /\ h.root = g2.root /\ DOMAIN h.links = DOMAIN g2.links
      /\ \A x \in DOMAIN g2.links \ {from} : h.links[x] = g2.links[x]
      /\ h.links[from] = g2.links[from] \/ h.links[from] = Append(g2.links[from], Link(to, type))
      /\ ToSet(h.links[from]) = ToSet(g2.links[from]) \union {Link(to, type)}
  <2> DEFINE k == Link(to, type)
  <2>1. h = AddDependencyTo(g2, from, k) /\ k \in LinkSet(g2, T)
    BY <1>3
  <2> HIDE DEF k, h
  <2> QED
    <3>1. IsGraph(h, D, T) /\ OneMoreLink(g2, from, k, h)
      BY <1>2, <1>3, <2>1, AddToEffect
    <3> QED
      BY <3>1 DEF k, OneMoreLink
<1>5. h = AddDependency(g, from, to, type)
  BY DEF AddDependency, g1, g2
<1> HIDE DEF h
<1>6. LinksOf(g2) = LinksOf(g)
  <2>1. \A x \in DOMAIN g.links : g2.links[x] = g.links[x]
    BY <1>1, <1>2 DEF NodeAdded
  <2>2. \A x \in DOMAIN g2.links \ DOMAIN g.links : ToSet(g2.links[x]) = {}
    BY <1>1, <1>2 DEF ToSet, NodeAdded
  <2>3. DOMAIN g.links \subseteq DOMAIN g2.links
    BY <1>1, <1>2 DEF NodeAdded
  <2> QED
    BY <2>1, <2>2, <2>3 DEF LinksOf
<1>7. LinksOf(h) = LinksOf(g2) \union {<<from, to, type>>}
  <2>1. <<from, Link(to, type).to, Link(to, type).type>> = <<from, to, type>>
    BY DEF Link
  <2> QED
    BY <1>3, <1>4, <2>1 DEF LinksOf
<1> QED
  BY <1>1, <1>2, <1>4, <1>5, <1>6, <1>7 DEF LinkAdded, NodeAdded

\* A longer list answers getControlType as the list did, if that had an answer.
LEMMA FirstLinkKept ==
    ASSUME NEW g, NEW h, NEW d \in DOMAIN g.links \intersect DOMAIN h.links, NEW e,
           NEW S, g.links[d] \in Seq(S), NEW link \in S,
           h.links[d] = g.links[d] \/ h.links[d] = Append(g.links[d], link),
           LinksTo(g, d, e) # {}
    PROVE  ControlType(h, d, e) = ControlType(g, d, e)
<1> DEFINE q == g.links[d]
           r == h.links[d]
<1>1. CASE r = q
  BY <1>1 DEF ControlType, LinksTo
<1>2. CASE r = Append(q, link)
  <2> DEFINE n == Len(q)
             H == LinksTo(g, d, e)
             K == LinksTo(h, d, e)
  <2>1. /\ n \in Nat /\ DOMAIN q = 1..n /\ DOMAIN r = 1..n + 1
        /\ \A i \in 1..n : r[i] = q[i]
    BY <1>2
  <2>2. H \subseteq 1..n /\ H \subseteq K /\ K \subseteq H \union {n + 1}
    BY <2>1 DEF LinksTo
  <2>3. PICK m \in H : \A j \in H : m <= j
    <3>1. H \subseteq Nat /\ H # {}
      BY <2>1, <2>2
    <3> HIDE DEF H
    <3> DEFINE Less == OpToRel(<, Nat)
    <3>2. \A i, j \in Nat : i < j => <<i, j>> \in Less
      BY DEF OpToRel
    <3>3. IsWellFoundedOn(Less, Nat)
      BY NatLessThanWellFounded
    <3> HIDE DEF Less
    <3>4. PICK m \in H : \A j \in H : <<j, m>> \notin Less
      BY <3>1, <3>3, WFMin
    <3>5. ASSUME NEW j \in H PROVE m <= j
      <4>1. m \in Nat /\ j \in Nat
        BY <3>1
      <4>2. ~(j < m)
        BY <3>2, <3>4, <4>1
      <4> QED
        BY <4>1, <4>2
    <3> QED
      BY <3>5
  <2> HIDE DEF H, K, n
  <2>4. \A x \in K : (\A j \in K : x <= j) <=> x = m
    BY <2>1, <2>2, <2>3
  <2>5. \A x \in H : (\A j \in H : x <= j) <=> x = m
    BY <2>1, <2>2, <2>3
  <2>6. First(H) = m /\ First(K) = m
    BY <2>2, <2>3, <2>4, <2>5 DEF First
  <2>7. H # {} /\ K # {} /\ r[m] = q[m]
    BY <2>1, <2>2, <2>3
  <2> QED
    BY <2>6, <2>7 DEF ControlType, H, K
<1> QED
  BY <1>1, <1>2

\* A new node has no links.
LEMMA NodeKeepsLinks ==
    ASSUME NEW g, NEW d, NEW h, NodeAdded(g, d, h)
    PROVE  LinksOf(h) = LinksOf(g)
<1>1. d \notin DOMAIN g.links => ToSet(h.links[d]) = {}
  BY DEF NodeAdded, ToSet
<1>2. /\ DOMAIN g.links \subseteq DOMAIN h.links
      /\ \A x \in DOMAIN g.links : h.links[x] = g.links[x]
      /\ \A x \in DOMAIN h.links \ DOMAIN g.links : ToSet(h.links[x]) = {}
  BY <1>1 DEF NodeAdded
<1> QED
  BY <1>2 DEF LinksOf

\* A link that is there is not added again.
LEMMA AddPresent ==
    ASSUME NEW D, NEW T, NEW g, IsGraph(g, D, T), NEW from, NEW to, NEW type,
           <<from, to, type>> \in LinksOf(g)
    PROVE  AddDependency(g, from, to, type) = g
<1>1. PICK k \in ToSet(g.links[from]) : from \in DOMAIN g.links /\ k.to = to /\ k.type = type
  BY DEF LinksOf
<1>2. k \in LinkSet(g, T)
  BY <1>1 DEF IsGraph, ToSet
<1>3. k = Link(to, type) /\ to \in DOMAIN g.links
  BY <1>1, <1>2 DEF Link, LinkSet
<1>4. GetNodeByData(GetNodeByData(g, from), to) = g
  BY <1>1, <1>3 DEF GetNodeByData
<1> QED
  BY <1>1, <1>3, <1>4 DEF AddDependency, AddDependencyTo

\* The graph without nodes is a graph.
LEMMA EmptyIsGraph ==
    ASSUME NEW D, NEW T, NoData \notin D
    PROVE  IsGraph(EmptyGraph, D, T) /\ LinksOf(EmptyGraph) = {}
<1> DEFINE g == EmptyGraph
<1>1. /\ g = [nodes |-> <<>>, root |-> NoData, links |-> g.links]
      /\ DOMAIN g.links = {} /\ g.links = [d \in {} |-> <<>>]
  BY DEF EmptyGraph
<1> HIDE DEF g
<1>2. ToSet(g.nodes) = {} /\ IsInjective(g.nodes) /\ g.nodes \in Seq(D)
  <2>1. g.nodes = <<>> /\ <<>> \in Seq(D) /\ DOMAIN <<>> = 1..0
    BY <1>1
  <2> QED
    BY <2>1 DEF ToSet, IsInjective
<1>3. IsGraph(g, D, T)
  BY <1>1, <1>2 DEF IsGraph
<1>4. LinksOf(g) = {}
  BY <1>1 DEF LinksOf
<1> QED
  BY <1>3, <1>4 DEF g
=============================================================================
