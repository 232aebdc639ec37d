--------------------- MODULE ControlDependenciesProofs ---------------------
(***************************************************************************)
(* Proofs about the control dependence pass for every flow graph: first      *)
(* what post-dominance is, then that the tree is a chain above each block,    *)
(* then that the walks up the tree find the dependences of the definition.    *)
(***************************************************************************)
EXTENDS ControlDependencies, DependencyGraphsProofs, FiniteSetTheorems

\* A set of numbers that is not empty has a least one.
LEMMA LeastNumber ==
    ASSUME NEW T, T \subseteq Nat, T # {}
    PROVE  \E m \in T : \A n \in T : m <= n
<1>1. IsWellFoundedOn(OpToRel(<, Nat), Nat)
  BY NatLessThanWellFounded
<1>2. PICK m \in T : \A n \in T : ~ (<<n, m>> \in OpToRel(<, Nat))
  BY <1>1, WFMin, Zenon
<1>3. \A n \in Nat : n < m => <<n, m>> \in OpToRel(<, Nat)
  BY DEF OpToRel
<1>4. \A n \in T : ~ (n < m)
  BY <1>2, <1>3, Zenon
<1>5. m \in Nat /\ \A n \in T : m <= n
  BY <1>4
<1> QED BY <1>5

-----------------------------------------------------------------------------
\* What is reached contains the base and is closed under the steps.
LEMMA ReachedCloses ==
    ASSUME NEW universe, NEW base, NEW steps
    PROVE  /\ Reached(universe, base, steps) \subseteq universe
           /\ base \intersect universe \subseteq Reached(universe, base, steps)
           /\ \A s \in steps : s[1] \in Reached(universe, base, steps) /\ s[2] \in universe
                 => s[2] \in Reached(universe, base, steps)
  BY DEF Reached

\* Whatever contains the base and is closed under the steps contains all that is
\* reached.
LEMMA ReachedIsLeast ==
    ASSUME NEW universe, NEW base, NEW steps, NEW S,
           base \intersect universe \subseteq S,
           \A s \in steps : s[1] \in S /\ s[1] \in universe /\ s[2] \in universe => s[2] \in S
    PROVE  Reached(universe, base, steps) \subseteq S
<1> DEFINE T == S \intersect universe
<1>1. T \in SUBSET universe /\ base \intersect universe \subseteq T
  OBVIOUS
<1>2. \A s \in steps : s[1] \in T /\ s[2] \in universe => s[2] \in T
  OBVIOUS
<1> HIDE DEF T
<1>3. Reached(universe, base, steps) \subseteq T
  BY <1>1, <1>2 DEF Reached
<1> QED
  BY <1>3 DEF T

-----------------------------------------------------------------------------
(***************************************************************************)
(* Post-dominance in a flow graph.                                           *)
(***************************************************************************)
IsFlowGraph(f) ==
    /\ f.order \in Seq(Blocks(f)) /\ f.order # <<>>
    /\ f.succ \in [Blocks(f) -> Seq(Blocks(f) \ {EntryBlock(f)})]
    /\ f.size \in [Blocks(f) -> Nat \ {0}]
    /\ f.branches \subseteq Blocks(f)
    /\ \A b \in f.branches : Len(f.succ[b]) = 2
    /\ {NoBlock, NoTreeNode} \intersect Blocks(f) = {}
    /\ {NoData, Root} \intersect (Blocks(f) \X Nat) = {}

LEMMA FlowGraphFacts ==
    ASSUME NEW f, IsFlowGraph(f)
    PROVE  /\ EntryBlock(f) \in Blocks(f) /\ IsFiniteSet(Blocks(f))
           /\ \A b \in Blocks(f) : /\ Successors(f, b) \subseteq Blocks(f)
                                   /\ b \in Exits(f) <=> Successors(f, b) = {}
           /\ Exits(f) \subseteq Blocks(f)
           /\ FlowEdges(f) = {e \in Blocks(f) \X Blocks(f) : e[2] \in Successors(f, e[1])}
<1>1. /\ Len(f.order) \in Nat /\ DOMAIN f.order = 1..Len(f.order)
      /\ Len(f.order) >= 1 /\ EntryBlock(f) = f.order[1]
  BY LenProperties, HeadTailProperties, EmptySeq DEF IsFlowGraph, EntryBlock
<1>2. EntryBlock(f) \in Blocks(f)
  BY <1>1 DEF Blocks, ToSet
<1>3. IsFiniteSet(Blocks(f))
  <2>1. f.order \in Surjection(1..Len(f.order), Blocks(f))
    BY <1>1 DEF Surjection, Blocks, ToSet, IsFlowGraph
  <2>2. IsFiniteSet(1..Len(f.order))
    BY <1>1, FS_Interval
  <2> QED
    BY <2>1, <2>2, FS_Surjection
<1>4. ASSUME NEW b \in Blocks(f)
      PROVE  Successors(f, b) \subseteq Blocks(f) /\ (b \in Exits(f) <=> Successors(f, b) = {})
  <2>1. f.succ[b] \in Seq(Blocks(f))
    BY <1>4, SeqMonotonic DEF IsFlowGraph
  <2>2. DOMAIN f.succ[b] = 1..Len(f.succ[b]) /\ Len(f.succ[b]) \in Nat
    BY <2>1
  <2>3. Successors(f, b) \subseteq Blocks(f)
    BY <2>1, <2>2 DEF Successors, ToSet
  <2>4. f.succ[b] = <<>> <=> Len(f.succ[b]) = 0
    BY <2>1, EmptySeq
  <2>5. Successors(f, b) = {} <=> Len(f.succ[b]) = 0
    <3>1. Len(f.succ[b]) > 0 => 1 \in DOMAIN f.succ[b]
      BY <2>2
    <3>2. Len(f.succ[b]) = 0 => DOMAIN f.succ[b] = {}
      BY <2>2
    <3>3. Len(f.succ[b]) = 0 \/ Len(f.succ[b]) > 0
      BY <2>2
    <3> QED
      BY <3>1, <3>2, <3>3 DEF Successors, ToSet
  <2> QED
    BY <2>3, <2>4, <2>5 DEF Exits
<1>5. FlowEdges(f) = {e \in Blocks(f) \X Blocks(f) : e[2] \in Successors(f, e[1])}
  BY <1>4 DEF FlowEdges
<1>6. Exits(f) \subseteq Blocks(f)
  BY DEF Exits
<1> QED
  BY <1>2, <1>3, <1>4, <1>5, <1>6

\* Escaping is the least set with the exits that is closed under predecessors.
LEMMA EscapingFacts ==
    ASSUME NEW f, IsFlowGraph(f), NEW w
    PROVE  /\ Escaping(f, w) \subseteq Blocks(f) \ {w}
           /\ Exits(f) \ {w} \subseteq Escaping(f, w)
           /\ \A b \in Blocks(f) \ {w} : \A s \in Successors(f, b) :
                 s \in Escaping(f, w) => b \in Escaping(f, w)
<1> DEFINE steps == {<<e[2], e[1]>> : e \in FlowEdges(f)}
<1>1. Escaping(f, w) = Reached(Blocks(f) \ {w}, Exits(f), steps)
  BY DEF Escaping
<1>2. ASSUME NEW b \in Blocks(f) \ {w}, NEW s \in Successors(f, b), s \in Escaping(f, w)
      PROVE  b \in Escaping(f, w)
  <2>1. <<b, s>> \in FlowEdges(f)
    BY <1>2, FlowGraphFacts
  <2>2. <<s, b>> \in steps
    <3>1. PICK e \in FlowEdges(f) : e = <<b, s>>
      BY <2>1
    <3> QED
      BY <3>1
  <2> HIDE DEF steps
  <2> QED
    BY <1>1, <1>2, <2>2, ReachedCloses
<1> HIDE DEF steps
<1>3. Exits(f) \subseteq Blocks(f)
  BY FlowGraphFacts
<1>4. /\ Escaping(f, w) \subseteq Blocks(f) \ {w}
      /\ Exits(f) \intersect (Blocks(f) \ {w}) \subseteq Escaping(f, w)
  <2>1. /\ Reached(Blocks(f) \ {w}, Exits(f), steps) \subseteq Blocks(f) \ {w}
        /\ Exits(f) \intersect (Blocks(f) \ {w})
              \subseteq Reached(Blocks(f) \ {w}, Exits(f), steps)
    BY ReachedCloses
  <2> QED
    BY <1>1, <2>1
<1> QED
  BY <1>2, <1>3, <1>4

LEMMA EscapingIsLeast ==
    ASSUME NEW f, IsFlowGraph(f), NEW w, NEW S,
           Exits(f) \ {w} \subseteq S,
           \A b \in Blocks(f) \ {w} : \A s \in Successors(f, b) \ {w} : s \in S => b \in S
    PROVE  Escaping(f, w) \subseteq S
<1> DEFINE steps == {<<e[2], e[1]>> : e \in FlowEdges(f)}
<1>1. ASSUME NEW s \in steps, s[1] \in S, s[1] \in Blocks(f) \ {w}, s[2] \in Blocks(f) \ {w}
      PROVE  s[2] \in S
  <2>1. PICK e \in FlowEdges(f) : s = <<e[2], e[1]>>
    OBVIOUS
  <2>2. e[2] \in Successors(f, e[1])
    BY FlowGraphFacts
  <2> QED
    BY <1>1, <2>1, <2>2
<1> HIDE DEF steps
<1>2. Reached(Blocks(f) \ {w}, Exits(f), steps) \subseteq S
  BY <1>1, ReachedIsLeast
<1> QED
  BY <1>2 DEF Escaping, steps

\* A block that escapes is an exit or has a successor that escapes.
LEMMA EscapesBySuccessor ==
    ASSUME NEW f, IsFlowGraph(f), NEW w, NEW b \in Escaping(f, w)
    PROVE  b \in Exits(f) \/ \E s \in Successors(f, b) : s \in Escaping(f, w)
<1> SUFFICES ASSUME b \notin Exits(f), \A s \in Successors(f, b) : s \notin Escaping(f, w)
             PROVE  FALSE
  OBVIOUS
<1> DEFINE S == Escaping(f, w) \ {b}
<1>1. Exits(f) \ {w} \subseteq S
  BY EscapingFacts
<1>2. ASSUME NEW c \in Blocks(f) \ {w}, NEW s \in Successors(f, c) \ {w}, s \in S PROVE c \in S
  BY <1>2, EscapingFacts
<1> HIDE DEF S
<1>3. Escaping(f, w) \subseteq S
  BY <1>1, <1>2, EscapingIsLeast
<1> QED
  BY <1>3 DEF S

-----------------------------------------------------------------------------
\* A block that no path from b avoids before an exit leaves none to what b cannot
\* avoid either: who escapes c escapes b, if b does not escape c.
LEMMA EscapingSubset ==
    ASSUME NEW f, IsFlowGraph(f), NEW b, NEW c, b \notin Escaping(f, c)
    PROVE  Escaping(f, c) \subseteq Escaping(f, b)
<1> DEFINE S == Escaping(f, c) \intersect Escaping(f, b)
<1>1. Exits(f) \ {c} \subseteq S
  BY EscapingFacts
<1>2. ASSUME NEW x \in Blocks(f) \ {c}, NEW s \in Successors(f, x) \ {c}, s \in S PROVE x \in S
  <2>1. x \in Escaping(f, c)
    BY <1>2, EscapingFacts
  <2>2. x \in Blocks(f) \ {b}
    BY <1>2, <2>1
  <2> QED
    BY <1>2, <2>1, <2>2, EscapingFacts
<1> HIDE DEF S
<1>3. Escaping(f, c) \subseteq S
  BY <1>1, <1>2, EscapingIsLeast
<1> QED
  BY <1>3 DEF S

\* Only blocks that exit post-dominate, each of them itself.
LEMMA PostDominatesTypes ==
    ASSUME NEW f, IsFlowGraph(f), NEW a, NEW b
    PROVE  /\ PostDominates(f, b, a) => a \in Exiting(f) /\ b \in Exiting(f)
           /\ a \in Exiting(f) => PostDominates(f, a, a)
           /\ Exiting(f) \subseteq Blocks(f) /\ NoBlock \notin Blocks(f)
<1>1. Exiting(f) \subseteq Blocks(f)
  BY EscapingFacts DEF Exiting
<1>2. NoBlock \notin Blocks(f)
  BY DEF IsFlowGraph
<1>3. a \notin Escaping(f, a)
  BY EscapingFacts
<1>4. b \notin Exiting(f) => Exiting(f) \subseteq Escaping(f, b)
  BY EscapingSubset DEF Exiting
<1> QED
  BY <1>1, <1>2, <1>3, <1>4 DEF PostDominates

LEMMA PostDominatesTransitive ==
    ASSUME NEW f, IsFlowGraph(f), NEW a, NEW b, NEW c,
           PostDominates(f, c, b), PostDominates(f, b, a)
    PROVE  PostDominates(f, c, a)
  BY EscapingSubset DEF PostDominates

LEMMA PostDominatesAntisymmetric ==
    ASSUME NEW f, IsFlowGraph(f), NEW a, NEW b,
           PostDominates(f, a, b), PostDominates(f, b, a)
    PROVE  a = b
<1> SUFFICES ASSUME a # b PROVE FALSE
  OBVIOUS
<1>1. Escaping(f, a) = Escaping(f, b)
  BY EscapingSubset DEF PostDominates
<1>2. Exits(f) \ {NoBlock} \subseteq Escaping(f, a)
  BY <1>1, EscapingFacts
<1>3. ASSUME NEW x \in Blocks(f) \ {NoBlock}, NEW s \in Successors(f, x) \ {NoBlock},
             s \in Escaping(f, a)
      PROVE  x \in Escaping(f, a)
  BY <1>1, <1>3, EscapingFacts
<1>4. Exiting(f) \subseteq Escaping(f, a)
  BY <1>2, <1>3, EscapingIsLeast DEF Exiting
<1> QED
  BY <1>1, <1>4 DEF PostDominates

\* The post-dominators of a block post-dominate one another: they form a chain.
LEMMA PostDominatesLinear ==
    ASSUME NEW f, IsFlowGraph(f), NEW a, NEW b, NEW c,
           PostDominates(f, b, a), PostDominates(f, c, a)
    PROVE  PostDominates(f, b, c) \/ PostDominates(f, c, b)
<1> SUFFICES ASSUME ~PostDominates(f, b, c), ~PostDominates(f, c, b) PROVE FALSE
  OBVIOUS
<1>1. c \in Escaping(f, b) /\ b \in Escaping(f, c)
  BY PostDominatesTypes DEF PostDominates
<1> DEFINE S == Escaping(f, b) \union Escaping(f, c)
<1>2. Exits(f) \ {NoBlock} \subseteq S
  BY <1>1, EscapingFacts
<1>3. ASSUME NEW x \in Blocks(f) \ {NoBlock}, NEW s \in Successors(f, x) \ {NoBlock}, s \in S
      PROVE  x \in S
  <2>1. CASE x = b \/ x = c
    BY <1>1, <2>1
  <2>2. CASE x # b /\ x # c
    BY <1>3, <2>2, EscapingFacts
  <2> QED
    BY <2>1, <2>2
<1> HIDE DEF S
<1>4. Exiting(f) \subseteq S
  BY <1>2, <1>3, EscapingIsLeast DEF Exiting
<1> QED
  BY <1>4 DEF PostDominates, S

\* What post-dominates a block and is not on every path from a predecessor of it
\* is missed by another of its successors, or is the predecessor.
LEMMA ControlledByBranch ==
    ASSUME NEW f, IsFlowGraph(f), NEW a \in Blocks(f), NEW s \in Successors(f, a), NEW b,
           PostDominates(f, b, s), ~PostDominates(f, b, a)
    PROVE  a \in Exiting(f) /\ \E t \in Successors(f, a) : t # s
<1>1. s \in Exiting(f) /\ s \notin Escaping(f, b)
  BY DEF PostDominates
<1>2. a \in Exiting(f)
  <2>1. a # NoBlock
    BY PostDominatesTypes
  <2> QED
    BY <1>1, <2>1, EscapingFacts DEF Exiting
<1>3. a \in Escaping(f, b)
  BY <1>2 DEF PostDominates
<1>4. a \notin Exits(f)
  BY FlowGraphFacts
<1>5. PICK t \in Successors(f, a) : t \in Escaping(f, b)
  BY <1>3, <1>4, EscapesBySuccessor
<1> QED
  BY <1>1, <1>2, <1>5

-----------------------------------------------------------------------------
(***************************************************************************)
(* The tree: above each block that exits there is the chain of its            *)
(* post-dominators, and the virtual root if there is one.                     *)
(***************************************************************************)

\* A finite chain that is not empty has a lowest member.
LEMMA Lowest ==
    ASSUME NEW S, IsFiniteSet(S), S # {}, NEW R,
           \A a \in S : <<a, a>> \in R,
           \A a, b, c \in S : <<a, b>> \in R /\ <<b, c>> \in R => <<a, c>> \in R,
           \A a, b \in S : <<a, b>> \in R /\ <<b, a>> \in R => a = b,
           \A a, b \in S : <<a, b>> \in R \/ <<b, a>> \in R
    PROVE  \E m \in S : \A c \in S : <<m, c>> \in R
<1> DEFINE Below(b) == {c \in S : <<c, b>> \in R}
           T == {Cardinality(Below(b)) : b \in S}
<1>1. \A b \in S : IsFiniteSet(Below(b)) /\ Cardinality(Below(b)) \in Nat
  <2> TAKE b \in S
  <2>1. IsFiniteSet(Below(b))
    BY FS_Subset
  <2> QED
    BY <2>1, FS_CardinalityType
<1>2. T \subseteq Nat /\ T # {}
  <2>1. PICK b : b \in S
    OBVIOUS
  <2>2. Cardinality(Below(b)) \in T
    BY <2>1
  <2> HIDE DEF Below
  <2> QED
    BY <1>1, <2>2
<1>3. PICK k \in T : \A n \in T : k <= n
  BY <1>2, LeastNumber
<1>4. PICK m \in S : k = Cardinality(Below(m))
  OBVIOUS
<1>5. ASSUME NEW c \in S, <<m, c>> \notin R PROVE FALSE
  <2>1. <<c, m>> \in R
    BY <1>5
  <2>2. Below(c) \subseteq Below(m) /\ m \in Below(m) /\ m \notin Below(c)
    BY <1>5, <2>1
  <2>3. Cardinality(Below(c)) \in T
    OBVIOUS
  <2> HIDE DEF Below, T
  <2>4. /\ Cardinality(Below(c)) <= Cardinality(Below(m))
        /\ Cardinality(Below(c)) # Cardinality(Below(m))
    <3>1. IsFiniteSet(Below(m)) /\ Below(c) \in SUBSET Below(m)
      BY <1>1, <2>2
    <3> QED
      BY <2>2, <3>1, FS_Subset
  <2>5. k <= Cardinality(Below(c))
    BY <1>3, <2>3
  <2> QED
    BY <1>1, <1>4, <2>4, <2>5
<1> QED
  BY <1>5

Above(f, a) == {b \in Exiting(f) \ {a} : PostDominates(f, b, a)}
Virtual(f) == IF \E a, b \in Exits(f) : a # b THEN {NoBlock} ELSE {}

LEMMA AboveFacts ==
    ASSUME NEW f, IsFlowGraph(f), NEW a
    PROVE  /\ IsFiniteSet(Above(f, a)) /\ Cardinality(Above(f, a)) \in Nat
           /\ Above(f, a) \subseteq Exiting(f) /\ a \notin Above(f, a)
           /\ \A b \in Above(f, a) :
                 /\ Above(f, b) \subseteq Above(f, a)
                 /\ Cardinality(Above(f, b)) < Cardinality(Above(f, a))
<1>1. \A x : IsFiniteSet(Above(f, x)) /\ Cardinality(Above(f, x)) \in Nat
  <2> TAKE x
  <2>1. Above(f, x) \in SUBSET Blocks(f)
    BY PostDominatesTypes DEF Above
  <2>2. IsFiniteSet(Above(f, x))
    BY <2>1, FlowGraphFacts, FS_Subset
  <2> QED
    BY <2>2, FS_CardinalityType
<1>2. ASSUME NEW b \in Above(f, a)
      PROVE  Above(f, b) \subseteq Above(f, a) /\ b \notin Above(f, b)
  <2>1. b # a /\ PostDominates(f, b, a)
    BY DEF Above
  <2>2. ASSUME NEW c \in Above(f, b) PROVE c \in Above(f, a)
    <3>1. PostDominates(f, c, b) /\ c \in Exiting(f)
      BY DEF Above
    <3>2. PostDominates(f, c, a)
      BY <2>1, <3>1, PostDominatesTransitive
    <3>3. c # a
      BY <2>1, <3>1, PostDominatesAntisymmetric
    <3> QED
      BY <3>1, <3>2, <3>3 DEF Above
  <2> QED
    BY <2>2 DEF Above
<1>3. ASSUME NEW b \in Above(f, a)
      PROVE  Cardinality(Above(f, b)) < Cardinality(Above(f, a))
  <2>1. Above(f, b) \in SUBSET Above(f, a) /\ Above(f, b) # Above(f, a)
    BY <1>2
  <2>2. /\ Cardinality(Above(f, b)) <= Cardinality(Above(f, a))
        /\ Cardinality(Above(f, b)) # Cardinality(Above(f, a))
    BY <1>1, <2>1, FS_Subset
  <2> QED
    BY <1>1, <2>2
<1> QED
  BY <1>1, <1>2, <1>3 DEF Above

\* A block with post-dominators has a nearest one, its immediate post-dominator.
LEMMA Nearest ==
    ASSUME NEW f, IsFlowGraph(f), NEW a, Above(f, a) # {}
    PROVE  \E b \in Above(f, a) : Above(f, a) = Above(f, b) \union {b}
<1> DEFINE S == Above(f, a)
           R == {p \in S \X S : PostDominates(f, p[2], p[1])}
<1>0. \A b, c \in S : <<b, c>> \in R <=> PostDominates(f, c, b)
  OBVIOUS
<1>1. \A b \in S : PostDominates(f, b, a) /\ PostDominates(f, b, b) /\ b \in Exiting(f)
  BY PostDominatesTypes DEF Above
<1>2. \A b, c, d \in S : <<b, c>> \in R /\ <<c, d>> \in R => <<b, d>> \in R
  BY PostDominatesTransitive
<1>3. \A b, c \in S : <<b, c>> \in R /\ <<c, b>> \in R => b = c
  BY PostDominatesAntisymmetric
<1>4. \A b, c \in S : <<b, c>> \in R \/ <<c, b>> \in R
  BY <1>1, PostDominatesLinear
<1>5. IsFiniteSet(S) /\ S # {} /\ \A b \in S : <<b, b>> \in R
  BY <1>1, AboveFacts
<1> HIDE DEF R, S
<1>6. PICK m \in S : \A c \in S : <<m, c>> \in R
  BY <1>2, <1>3, <1>4, <1>5, Lowest
<1>7. \A c \in S \ {m} : c \in Above(f, m)
  BY <1>0, <1>1, <1>6 DEF Above
<1>8. Above(f, m) \subseteq S /\ S = Above(f, a)
  BY AboveFacts DEF S
<1> QED
  BY <1>7, <1>8

LEMMA TreeFacts ==
    ASSUME NEW f, IsFlowGraph(f), NEW t, t = PostDominatorTree(f)
    PROVE  /\ DOMAIN t = Exiting(f) \union Virtual(f)
           /\ NoBlock \in DOMAIN t => t[NoBlock] = NoTreeNode
           /\ \A a \in Exiting(f) :
                 /\ Above(f, a) = {} =>
                       t[a] = IF Virtual(f) = {} THEN NoTreeNode ELSE NoBlock
                 /\ Above(f, a) # {} =>
                       t[a] \in Above(f, a) /\ Above(f, a) = Above(f, t[a]) \union {t[a]}
<1> DEFINE above == [a \in Exiting(f) |-> {b \in Exiting(f) \ {a} : PostDominates(f, b, a)}]
           idom(a) == IF a = NoBlock \/ (above[a] = {} /\ Virtual(f) = {}) THEN NoTreeNode
                      ELSE IF above[a] = {} THEN NoBlock
                      ELSE CHOOSE b \in above[a] : above[a] = above[b] \union {b}
<1>1. t = [a \in Exiting(f) \union Virtual(f) |-> idom(a)]
  BY DEF PostDominatorTree, Virtual
<1>2. \A a \in Exiting(f) : above[a] = Above(f, a) /\ a # NoBlock
  BY PostDominatesTypes DEF Above
<1>3. ASSUME NEW a \in Exiting(f), Above(f, a) # {}
      PROVE  idom(a) \in Above(f, a) /\ Above(f, a) = Above(f, idom(a)) \union {idom(a)}
  <2>1. idom(a) = CHOOSE b \in above[a] : above[a] = above[b] \union {b}
    BY <1>2, <1>3
  <2>2. \E b \in above[a] : above[a] = above[b] \union {b}
    <3>1. PICK b \in Above(f, a) : Above(f, a) = Above(f, b) \union {b}
      BY <1>3, Nearest
    <3>2. b \in Exiting(f)
      BY AboveFacts
    <3> HIDE DEF above
    <3> QED
      BY <1>2, <3>1, <3>2
  <2> HIDE DEF above, idom
  <2>3. idom(a) \in above[a] /\ above[a] = above[idom(a)] \union {idom(a)}
    BY <2>1, <2>2
  <2>4. idom(a) \in Exiting(f)
    BY <1>2, <2>3, AboveFacts
  <2> QED
    BY <1>2, <2>3, <2>4
<1>4. ASSUME NEW a \in Exiting(f), Above(f, a) = {}
      PROVE  idom(a) = IF Virtual(f) = {} THEN NoTreeNode ELSE NoBlock
  BY <1>2, <1>4
<1>5. idom(NoBlock) = NoTreeNode
  OBVIOUS
<1> HIDE DEF above, idom
<1> QED
  BY <1>1, <1>3, <1>4, <1>5

\* What a tree node has above it: the walk up from it meets all of them.
Higher(f, a) == IF a \in Exiting(f) THEN {a} \union Above(f, a) \union Virtual(f) ELSE {a}

LEMMA ChainFacts ==
    ASSUME NEW f, IsFlowGraph(f), NEW t, t = PostDominatorTree(f), NEW a \in DOMAIN t
    PROVE  Chain(t, a) = Higher(f, a)
<1> DEFINE steps == {<<b, t[b]>> : b \in DOMAIN t}
           S == Chain(t, a)
<1>0. S = Reached(DOMAIN t, {a}, steps)
  BY DEF Chain
<1>1. ASSUME NEW b \in S, t[b] \in DOMAIN t PROVE t[b] \in S
  <2>1. b \in DOMAIN t
    BY <1>0, ReachedCloses
  <2>2. <<b, t[b]>> \in steps
    BY <2>1
  <2> HIDE DEF steps, S
  <2> QED
    BY <1>0, <1>1, <2>2, ReachedCloses
<1>2. a \in S
  <2> HIDE DEF steps, S
  <2> QED
    BY <1>0, ReachedCloses
<1>t. /\ DOMAIN t = Exiting(f) \union Virtual(f)
      /\ NoBlock \in DOMAIN t => t[NoBlock] = NoTreeNode
      /\ Virtual(f) \subseteq {NoBlock}
      /\ NoBlock \notin Exiting(f) /\ NoTreeNode \notin DOMAIN t
      /\ \A b \in Exiting(f) :
            /\ Above(f, b) = {} => t[b] \in {NoTreeNode, NoBlock}
            /\ Above(f, b) # {} =>
                  t[b] \in Above(f, b) /\ Above(f, b) = Above(f, t[b]) \union {t[b]}
  <2>1. NoTreeNode \notin Exiting(f) /\ NoBlock \notin Exiting(f)
    BY PostDominatesTypes DEF IsFlowGraph
  <2>2. NoTreeNode # NoBlock
    BY ConstantsAssumption
  <2> QED
    BY <2>1, <2>2, TreeFacts DEF Virtual
<1>3. S \subseteq Higher(f, a)
  <2>1. ASSUME NEW s \in steps, s[1] \in Higher(f, a), s[1] \in DOMAIN t, s[2] \in DOMAIN t
        PROVE  s[2] \in Higher(f, a)
    <3>1. s[2] = t[s[1]]
      BY <2>1
    <3>2. s[1] \in Exiting(f)
      BY <1>t, <2>1, <3>1
    <3>3. a \in Exiting(f) /\ s[1] \in {a} \union Above(f, a)
      BY <1>t, <2>1, <3>2 DEF Higher
    <3>4. Above(f, s[1]) \subseteq Above(f, a)
      BY <3>3, AboveFacts
    <3>5. s[2] \in Above(f, s[1]) \/ s[2] \in Virtual(f)
      BY <1>t, <2>1, <3>1, <3>2
    <3> QED
      BY <3>3, <3>4, <3>5 DEF Higher
  <2>2. {a} \subseteq Higher(f, a)
    BY DEF Higher
  <2> HIDE DEF steps, S
  <2> QED
    BY <1>0, <2>1, <2>2, ReachedIsLeast
<1>4. ASSUME NEW c \in Higher(f, a), c \notin S PROVE FALSE
  <2>1. a \in Exiting(f) /\ (c \in Above(f, a) \/ c \in Virtual(f))
    BY <1>2, <1>4 DEF Higher
  <2> DEFINE Low == {d \in ({a} \union Above(f, a)) \intersect S :
                        c \in Above(f, d) \/ c \in Virtual(f)}
             T == {Cardinality(Above(f, d)) : d \in Low}
  <2>2. T \subseteq Nat /\ T # {}
    BY <1>2, <2>1, AboveFacts
  <2>3. PICK k \in T : \A n \in T : k <= n
    BY <2>2, LeastNumber
  <2>4. PICK d \in Low : k = Cardinality(Above(f, d))
    OBVIOUS
  <2>5. d \in Exiting(f) /\ Above(f, d) \subseteq Above(f, a)
    BY <2>1, <2>4, AboveFacts
  <2>6. CASE Above(f, d) = {}
    <3>1. c = NoBlock /\ t[d] = NoBlock /\ NoBlock \in DOMAIN t
      BY <1>t, <2>4, <2>5, <2>6, TreeFacts
    <3> QED
      BY <1>1, <1>4, <2>4, <3>1
  <2>7. CASE Above(f, d) # {}
    <3>1. t[d] \in Above(f, d) /\ Above(f, d) = Above(f, t[d]) \union {t[d]}
      BY <1>t, <2>5, <2>7
    <3>2. t[d] \in S
      BY <1>1, <1>t, <2>4, <3>1, AboveFacts
    <3>3. t[d] \in Low
      BY <1>4, <2>4, <2>5, <3>1, <3>2
    <3>4. k <= Cardinality(Above(f, t[d]))
      BY <2>3, <3>3
    <3>5. Cardinality(Above(f, t[d])) < Cardinality(Above(f, d))
      BY <3>1, AboveFacts
    <3> QED
      BY <2>4, <3>4, <3>5, AboveFacts
  <2> QED
    BY <2>6, <2>7
<1> QED
  BY <1>3, <1>4

\* The walks up the tree: a node is below itself, what is above a node has less
\* above it, two nodes above one are above one another.
LEMMA HigherFacts ==
    ASSUME NEW f, IsFlowGraph(f), NEW nodes, nodes = Exiting(f) \union Virtual(f)
    PROVE  /\ \A a \in nodes : a \in Higher(f, a) /\ Higher(f, a) \subseteq nodes
           /\ \A a \in nodes : \A b \in Higher(f, a) : Higher(f, b) \subseteq Higher(f, a)
           /\ \A a, b \in nodes : a \in Higher(f, b) /\ b \in Higher(f, a) => a = b
           /\ \A a \in nodes : \A b, c \in Higher(f, a) : b \in Higher(f, c) \/ c \in Higher(f, b)
           /\ \A a \in Exiting(f) : \A b \in Blocks(f) :
                 b \in Higher(f, a) <=> PostDominates(f, b, a)
<1>1. Virtual(f) \subseteq {NoBlock} /\ NoBlock \notin Exiting(f) /\ NoBlock \notin Blocks(f)
  BY PostDominatesTypes DEF Virtual
<1>2. ASSUME NEW a \in Exiting(f), NEW b \in Exiting(f)
      PROVE  b \in Higher(f, a) <=> PostDominates(f, b, a)
  BY <1>1, PostDominatesTypes DEF Higher, Above
<1>3. ASSUME NEW a \in nodes PROVE a \in Higher(f, a) /\ Higher(f, a) \subseteq nodes
  BY AboveFacts DEF Higher
<1>4. ASSUME NEW a \in nodes, NEW b \in Higher(f, a)
      PROVE  Higher(f, b) \subseteq Higher(f, a)
  <2>1. CASE b = a
    BY <2>1
  <2>2. CASE b # a /\ b \in Exiting(f)
    <3>1. a \in Exiting(f) /\ b \in Above(f, a)
      BY <1>1, <1>4, <2>2 DEF Higher
    <3> QED
      BY <2>2, <3>1, AboveFacts DEF Higher
  <2>3. CASE b # a /\ b \notin Exiting(f)
    <3>1. Higher(f, b) = {b}
      BY <2>3 DEF Higher
    <3> QED
      BY <1>4, <3>1
  <2> QED
    BY <2>1, <2>2, <2>3
<1>5. ASSUME NEW a \in nodes, NEW b \in nodes, a \in Higher(f, b), b \in Higher(f, a)
      PROVE  a = b
  <2>1. CASE a \in Exiting(f) /\ b \in Exiting(f)
    BY <1>2, <1>5, <2>1, PostDominatesAntisymmetric
  <2>2. CASE ~(a \in Exiting(f) /\ b \in Exiting(f))
    BY <1>5, <2>2 DEF Higher
  <2> QED
    BY <2>1, <2>2
<1>6. ASSUME NEW a \in nodes, NEW b \in Higher(f, a), NEW c \in Higher(f, a)
      PROVE  b \in Higher(f, c) \/ c \in Higher(f, b)
  <2>1. CASE b \in Exiting(f) /\ c \in Exiting(f)
    <3>1. a \in Exiting(f)
      BY <2>1 DEF Higher
    <3> QED
      BY <1>2, <1>6, <2>1, <3>1, PostDominatesLinear
  <2>2. CASE b \notin Exiting(f)
    BY <1>1, <1>3, <1>6, <2>2 DEF Higher
  <2>3. CASE c \notin Exiting(f)
    BY <1>1, <1>3, <1>6, <2>3 DEF Higher
  <2> QED
    BY <2>1, <2>2, <2>3
<1>7. ASSUME NEW a \in Exiting(f), NEW b \in Blocks(f)
      PROVE  b \in Higher(f, a) <=> PostDominates(f, b, a)
  <2>1. CASE b \in Exiting(f)
    BY <1>2, <2>1
  <2>2. CASE b \notin Exiting(f)
    <3>1. b \notin Higher(f, a)
      BY <1>1, <2>2 DEF Higher, Above
    <3> QED
      BY <2>2, <3>1, PostDominatesTypes
  <2> QED
    BY <2>1, <2>2
<1> QED
  BY <1>3, <1>4, <1>5, <1>6, <1>7

\* Two blocks that exit have a tree node above both: without a virtual root there
\* is one exit, and that post-dominates whatever exits.
LEMMA CommonExists ==
    ASSUME NEW f, IsFlowGraph(f), NEW a \in Exiting(f), NEW b \in Exiting(f)
    PROVE  Higher(f, a) \intersect Higher(f, b) # {}
<1>1. CASE Virtual(f) # {}
  BY <1>1 DEF Higher
<1>2. CASE Virtual(f) = {}
  <2>1. \A x, y \in Exits(f) : x = y
    BY <1>2 DEF Virtual
  <2>2. PICK x : Exits(f) \subseteq {x} /\ x \in Exits(f)
    <3>1. Exits(f) # {}
      <4>1. Exits(f) = {} => Exiting(f) \subseteq {}
        BY EscapingIsLeast DEF Exiting
      <4> QED
        BY <4>1
    <3> QED
      BY <2>1, <3>1
  <2>3. Escaping(f, x) \subseteq {}
    BY <2>2, EscapingIsLeast
  <2>4. PostDominates(f, x, a) /\ PostDominates(f, x, b)
    BY <2>3 DEF PostDominates
  <2>5. x \in Blocks(f)
    BY <2>2, FlowGraphFacts
  <2> QED
    BY <2>4, <2>5, HigherFacts
<1> QED
  BY <1>1, <1>2

\* Where the walk for an edge ends: what is above that is what is above both ends.
LEMMA StopFacts ==
    ASSUME NEW f, IsFlowGraph(f), NEW t, t = PostDominatorTree(f),
           NEW a \in Exiting(f), NEW b \in Blocks(f), ~Dominates(t, b, a),
           NEW stopAt, stopAt = FindNearestCommonDominator(t, a, b)
    PROVE  /\ b \notin Exiting(f) => stopAt = a
           /\ b \in Exiting(f) => /\ stopAt \in DOMAIN t
                                  /\ Higher(f, stopAt) = Higher(f, a) \intersect Higher(f, b)
<1> DEFINE nodes == Exiting(f) \union Virtual(f)
<1>1. DOMAIN t = nodes /\ \A x \in nodes : Chain(t, x) = Higher(f, x)
  BY TreeFacts, ChainFacts
<1>2. a # b /\ a \in nodes
  BY DEF Dominates
<1>3. b \notin Exiting(f) => b \notin nodes
  <2>1. NoBlock \notin Blocks(f)
    BY PostDominatesTypes
  <2> QED
    BY <2>1 DEF Virtual
<1> HIDE DEF nodes
<1>4. CASE b \notin Exiting(f)
  <2>1. Dominates(t, a, b)
    BY <1>1, <1>3, <1>4 DEF Dominates
  <2> QED
    BY <1>4, <2>1 DEF FindNearestCommonDominator
<1>5. CASE b \in Exiting(f) /\ Dominates(t, a, b)
  <2>1. stopAt = a
    BY <1>5 DEF FindNearestCommonDominator
  <2>2. b \in nodes
    BY <1>5 DEF nodes
  <2>3. a \in Higher(f, b)
    BY <1>1, <1>2, <1>5, <2>2 DEF Dominates
  <2>4. Higher(f, a) \subseteq Higher(f, b)
    BY <2>2, <2>3, HigherFacts DEF nodes
  <2> QED
    BY <1>1, <1>2, <1>5, <2>1, <2>4
<1>6. CASE b \in Exiting(f) /\ ~Dominates(t, a, b)
  <2> DEFINE S == Higher(f, a) \intersect Higher(f, b)
             R == {p \in S \X S : p[2] \in Higher(f, p[1])}
  <2>0. b \in nodes
    BY <1>6 DEF nodes
  <2>1. stopAt = CHOOSE c \in S : S = Chain(t, c)
    BY <1>1, <1>2, <1>6, <2>0 DEF FindNearestCommonDominator
  <2>2. S \subseteq nodes /\ S # {} /\ IsFiniteSet(S)
    <3>1. S # {}
      BY <1>6, CommonExists
    <3>2. S \subseteq nodes
      BY <1>2, HigherFacts DEF nodes
    <3>3. nodes \in SUBSET (Blocks(f) \union {NoBlock})
      BY PostDominatesTypes DEF nodes, Virtual
    <3>4. IsFiniteSet(Blocks(f) \union {NoBlock})
      BY FlowGraphFacts, FS_AddElement
    <3>5. S \in SUBSET (Blocks(f) \union {NoBlock})
      BY <3>2, <3>3
    <3> QED
      BY <3>1, <3>2, <3>4, <3>5, FS_Subset
  <2>3. \A x, y \in S : <<x, y>> \in R <=> y \in Higher(f, x)
    OBVIOUS
  <2>4. /\ \A x \in nodes : x \in Higher(f, x)
        /\ \A x \in nodes : \A y \in Higher(f, x) : Higher(f, y) \subseteq Higher(f, x)
        /\ \A x, y \in nodes : x \in Higher(f, y) /\ y \in Higher(f, x) => x = y
        /\ \A x, y \in Higher(f, a) : x \in Higher(f, y) \/ y \in Higher(f, x)
    BY <1>2, HigherFacts DEF nodes
  <2>5. S \subseteq Higher(f, a) /\ S \subseteq Higher(f, b)
    OBVIOUS
  <2>a. \A x \in S : Higher(f, x) \subseteq S
    <3>1. \A x \in S : Higher(f, x) \subseteq Higher(f, a) /\ Higher(f, x) \subseteq Higher(f, b)
      BY <1>2, <2>0, <2>4
    <3> QED
      BY <3>1
  <2> HIDE DEF S, R
  <2>6. \A x, y, z \in S : <<x, y>> \in R /\ <<y, z>> \in R => <<x, z>> \in R
    BY <2>2, <2>3, <2>4
  <2>7. \A x, y \in S : <<x, y>> \in R /\ <<y, x>> \in R => x = y
    BY <2>2, <2>3, <2>4
  <2>8. \A x, y \in S : <<x, y>> \in R \/ <<y, x>> \in R
    BY <2>3, <2>4, <2>5
  <2>9. \A x \in S : <<x, x>> \in R
    BY <2>2, <2>3, <2>4
  <2>10. PICK m \in S : \A c \in S : <<m, c>> \in R
    BY <2>2, <2>6, <2>7, <2>8, <2>9, Lowest
  <2>11. S \subseteq Higher(f, m) /\ Higher(f, m) \subseteq S
    BY <2>3, <2>10, <2>a
  <2>12. \E c \in S : S = Chain(t, c)
    BY <1>1, <2>2, <2>11
  <2>13. stopAt \in S /\ S = Chain(t, stopAt)
    BY <2>1, <2>12
  <2> QED
    BY <1>1, <1>6, <2>2, <2>13 DEF S
<1> QED
  BY <1>4, <1>5, <1>6

LEMMA WalkUp ==
    ASSUME NEW f, IsFlowGraph(f), NEW t, t = PostDominatorTree(f), NEW a \in DOMAIN t
    PROVE  IF t[a] \in DOMAIN t THEN Higher(f, a) = {a} \union Higher(f, t[a])
           ELSE t[a] = NoTreeNode /\ Higher(f, a) = {a}
<1>1. /\ DOMAIN t = Exiting(f) \union Virtual(f) /\ Virtual(f) \subseteq {NoBlock}
      /\ NoBlock \notin Exiting(f) /\ NoTreeNode \notin DOMAIN t
      /\ \A b \in Exiting(f) :
            Above(f, b) # {} =>
               t[b] \in Above(f, b) /\ Above(f, b) = Above(f, t[b]) \union {t[b]}
  <2>1. NoTreeNode \notin Exiting(f) /\ NoBlock \notin Exiting(f)
    BY PostDominatesTypes DEF IsFlowGraph
  <2>2. NoTreeNode # NoBlock
    BY ConstantsAssumption
  <2> QED
    BY <2>1, <2>2, TreeFacts DEF Virtual
<1>2. CASE a \notin Exiting(f)
  <2>1. t[a] = NoTreeNode
    BY <1>1, <1>2, TreeFacts
  <2> QED
    BY <1>1, <1>2, <2>1 DEF Higher
<1>3. CASE a \in Exiting(f) /\ Above(f, a) = {}
  <2>1. t[a] = IF Virtual(f) = {} THEN NoTreeNode ELSE NoBlock
    BY <1>3, TreeFacts
  <2> QED
    BY <1>1, <1>3, <2>1 DEF Higher
<1>4. CASE a \in Exiting(f) /\ Above(f, a) # {}
  <2>1. PICK b : b = t[a]
    OBVIOUS
  <2>2. b \in Above(f, a) /\ Above(f, a) = Above(f, b) \union {b}
    BY <1>1, <1>4, <2>1
  <2>3. b \in Exiting(f)
    BY <2>2, AboveFacts
  <2>4. Higher(f, a) = {a} \union Higher(f, b)
    BY <1>4, <2>2, <2>3 DEF Higher
  <2> QED
    BY <1>1, <2>1, <2>3, <2>4
<1> QED
  BY <1>2, <1>3, <1>4

-----------------------------------------------------------------------------
(***************************************************************************)
(* The loops that the model writes as recursive functions.                   *)
(***************************************************************************)

\* Joining sequences one after the other is well defined for any number of them.
LEMMA FlattenDefined ==
    ASSUME NEW seqs, NEW n \in Nat
    PROVE  \E g : g = [i \in 1..n |-> IF i = 1 THEN seqs[i] ELSE g[i - 1] \o seqs[i]]
<1> DEFINE P(k) == \E g : g = [i \in 1..k |-> IF i = 1 THEN seqs[i] ELSE g[i - 1] \o seqs[i]]
           T == {k \in Nat : ~P(k)}
<1>1. P(0)
  <2>1. [i \in 1..0 |-> seqs] = [i \in 1..0 |->
            IF i = 1 THEN seqs[i] ELSE [j \in 1..0 |-> seqs][i - 1] \o seqs[i]]
    OBVIOUS
  <2> QED
    BY <2>1
<1>2. ASSUME NEW k \in Nat, P(k) PROVE P(k + 1)
  <2>1. PICK g : g = [i \in 1..k |-> IF i = 1 THEN seqs[i] ELSE g[i - 1] \o seqs[i]]
    BY <1>2
  <2> DEFINE last == IF k = 0 THEN seqs[1] ELSE g[k] \o seqs[k + 1]
             h == [i \in 1..k + 1 |-> IF i = k + 1 THEN last ELSE g[i]]
  <2>2. ASSUME NEW i \in 1..k + 1
        PROVE  h[i] = IF i = 1 THEN seqs[i] ELSE h[i - 1] \o seqs[i]
    <3>1. CASE i = k + 1
      <4>1. CASE k = 0
        BY <3>1, <4>1
      <4>2. CASE k # 0
        <5>1. i # 1 /\ i - 1 = k /\ k \in 1..k + 1 /\ k # k + 1
          BY <3>1, <4>2
        <5> QED
          BY <3>1, <4>2, <5>1
      <4> QED
        BY <4>1, <4>2
    <3>2. CASE i # k + 1
      <4>1. i \in 1..k /\ (i # 1 => i - 1 \in 1..k /\ i - 1 # k + 1)
        BY <3>2
      <4> HIDE DEF last
      <4>2. h[i] = g[i] /\ (i # 1 => h[i - 1] = g[i - 1])
        BY <3>2, <4>1
      <4>3. g[i] = IF i = 1 THEN seqs[i] ELSE g[i - 1] \o seqs[i]
        BY <2>1, <4>1
      <4> HIDE DEF h
      <4> QED
        BY <4>2, <4>3
    <3> QED
      BY <3>1, <3>2
  <2> HIDE DEF last
  <2>3. h = [i \in 1..k + 1 |-> h[i]]
    OBVIOUS
  <2> HIDE DEF h
  <2>4. h = [i \in 1..k + 1 |-> IF i = 1 THEN seqs[i] ELSE h[i - 1] \o seqs[i]]
    BY <2>2, <2>3
  <2> QED
    BY <2>4
<1> HIDE DEF P
<1>3. ASSUME T # {} PROVE FALSE
  <2>1. PICK k \in T : \A j \in T : k <= j
    BY <1>3, LeastNumber
  <2>2. k \in Nat /\ k # 0 /\ ~P(k)
    BY <1>1
  <2>3. k - 1 \in Nat /\ k - 1 \notin T
    BY <2>1, <2>2
  <2>4. P(k - 1 + 1)
    BY <1>2, <2>3
  <2> QED
    BY <2>2, <2>4
<1> QED
  BY <1>3 DEF P

\* The members of the joined sequence are those of the sequences.
LEMMA FlattenMembers ==
    ASSUME NEW S, NEW seqs \in Seq(Seq(S))
    PROVE  /\ FlattenSeq(seqs) \in Seq(S)
           /\ ToSet(FlattenSeq(seqs)) = UNION {ToSet(s) : s \in ToSet(seqs)}
<1>0. Len(seqs) \in Nat /\ DOMAIN seqs = 1..Len(seqs) /\ \A i \in 1..Len(seqs) : seqs[i] \in Seq(S)
  BY ElementOfSeq, LenProperties
<1>1. CASE Len(seqs) = 0
  <2>1. seqs = <<>>
    BY <1>1, EmptySeq
  <2>2. FlattenSeq(seqs) = <<>>
    BY <1>1, <2>1 DEF FlattenSeq
  <2>3. ToSet(seqs) = {} /\ ToSet(<<>>) = {}
    BY <1>0, <1>1, <2>1 DEF ToSet
  <2>4. <<>> \in Seq(S)
    OBVIOUS
  <2> QED
    BY <2>2, <2>3, <2>4
<1>2. CASE Len(seqs) # 0
  <2> DEFINE n == Len(seqs)
             flatten == CHOOSE g : g = [i \in 1..n |->
                            IF i = 1 THEN seqs[i] ELSE g[i - 1] \o seqs[i]]
  <2>1. FlattenSeq(seqs) = flatten[n]
    BY <1>2 DEF FlattenSeq
  <2>2. flatten = [i \in 1..n |-> IF i = 1 THEN seqs[i] ELSE flatten[i - 1] \o seqs[i]]
    BY <1>0, FlattenDefined, Zenon
  <2> HIDE DEF flatten
  <2> DEFINE P(k) == /\ flatten[k] \in Seq(S)
                     /\ ToSet(flatten[k]) = UNION {ToSet(seqs[i]) : i \in 1..k}
             T == {k \in 1..n : ~P(k)}
  <2>3. P(1)
    <3>1. flatten[1] = seqs[1] /\ seqs[1] \in Seq(S) /\ 1..1 = {1}
      BY <1>0, <1>2, <2>2
    <3> QED
      BY <3>1
  <2>4. ASSUME NEW k \in 1..n, k - 1 \in 1..n, P(k - 1) PROVE P(k)
    <3>1. flatten[k] = flatten[k - 1] \o seqs[k]
      <4>1. k # 1 /\ k \in 1..n
        BY <1>0, <2>4
      <4> HIDE DEF n
      <4> QED
        BY <2>2, <4>1
    <3>2. PICK q, s \in Seq(S) : q = flatten[k - 1] /\ s = seqs[k]
      BY <1>0, <2>4
    <3>3. q \o s \in Seq(S) /\ ToSet(q \o s) = ToSet(q) \union ToSet(s)
      <4>1. /\ Len(q) \in Nat /\ Len(s) \in Nat
            /\ DOMAIN q = 1..Len(q) /\ DOMAIN s = 1..Len(s)
            /\ DOMAIN (q \o s) = 1..Len(q) + Len(s) /\ q \o s \in Seq(S)
            /\ \A i \in 1..Len(q) : (q \o s)[i] = q[i]
            /\ \A i \in 1..Len(s) : (q \o s)[Len(q) + i] = s[i]
        OBVIOUS
      <4>2. ASSUME NEW x \in ToSet(q \o s) PROVE x \in ToSet(q) \union ToSet(s)
        <5>1. PICK i \in 1..Len(q) + Len(s) : x = (q \o s)[i]
          BY <4>1 DEF ToSet
        <5>2. CASE i <= Len(q)
          BY <4>1, <5>1, <5>2 DEF ToSet
        <5>3. CASE i > Len(q)
          <6>1. i - Len(q) \in 1..Len(s) /\ Len(q) + (i - Len(q)) = i
            BY <4>1, <5>1, <5>3
          <6> QED
            BY <4>1, <5>1, <6>1 DEF ToSet
        <5> QED
          BY <4>1, <5>2, <5>3
      <4>3. ASSUME NEW x \in ToSet(q) PROVE x \in ToSet(q \o s)
        <5>1. PICK i \in 1..Len(q) : x = q[i]
          BY <4>1 DEF ToSet
        <5>2. i \in DOMAIN (q \o s) /\ (q \o s)[i] = x
          BY <4>1, <5>1
        <5> QED
          BY <5>2 DEF ToSet
      <4>4. ASSUME NEW x \in ToSet(s) PROVE x \in ToSet(q \o s)
        <5>1. PICK i \in 1..Len(s) : x = s[i]
          BY <4>1 DEF ToSet
        <5>2. Len(q) + i \in DOMAIN (q \o s) /\ (q \o s)[Len(q) + i] = x
          BY <4>1, <5>1
        <5> QED
          BY <5>2 DEF ToSet
      <4> QED
        BY <4>1, <4>2, <4>3, <4>4
    <3>4. 1..k = (1..k - 1) \union {k}
      BY <1>0, <2>4
    <3>5. UNION {ToSet(seqs[i]) : i \in 1..k}
             = (UNION {ToSet(seqs[i]) : i \in 1..k - 1}) \union ToSet(seqs[k])
      BY <3>4
    <3> QED
      BY <2>4, <3>1, <3>2, <3>3, <3>5
  <2> HIDE DEF P
  <2>5. ASSUME T # {} PROVE FALSE
    <3>1. T \subseteq Nat
      BY <1>0
    <3>2. PICK k \in T : \A j \in T : k <= j
      BY <2>5, <3>1, LeastNumber
    <3>3. k \in 1..n /\ k # 1 /\ ~P(k)
      BY <2>3
    <3>4. k - 1 \in 1..n /\ k - 1 < k
      BY <1>0, <3>3
    <3>5. P(k - 1)
      BY <3>1, <3>2, <3>4
    <3> QED
      BY <2>4, <3>3, <3>4, <3>5
  <2>6. P(n)
    BY <1>0, <1>2, <2>5
  <2>7. {ToSet(seqs[i]) : i \in 1..n} = {ToSet(s) : s \in ToSet(seqs)}
    <3>1. ToSet(seqs) = {seqs[i] : i \in 1..n}
      BY <1>0 DEF ToSet
    <3> QED
      BY <3>1
  <2> QED
    BY <2>1, <2>6, <2>7 DEF P
<1> QED
  BY <1>1, <1>2

\* Adding a dependence per instruction is well defined for any number of them.
Adds(g, g0, from, list, type, n) ==
    g = [i \in 0..n |-> IF i = 0 THEN g0
                        ELSE AddDependency(g[i - 1], from, list[i], type)]

LEMMA AddedDefined ==
    ASSUME NEW g0, NEW from, NEW list, NEW type, NEW n \in Nat
    PROVE  \E g : Adds(g, g0, from, list, type, n)
<1> DEFINE P(k) == \E g : g = [i \in 0..k |-> IF i = 0 THEN g0
                                ELSE AddDependency(g[i - 1], from, list[i], type)]
           T == {k \in Nat : ~P(k)}
<1>1. P(0)
  <2>1. [i \in 0..0 |-> g0] = [i \in 0..0 |-> IF i = 0 THEN g0
            ELSE AddDependency([j \in 0..0 |-> g0][i - 1], from, list[i], type)]
    OBVIOUS
  <2> QED
    BY <2>1
<1>2. ASSUME NEW k \in Nat, P(k) PROVE P(k + 1)
  <2>1. PICK g : g = [i \in 0..k |-> IF i = 0 THEN g0
                        ELSE AddDependency(g[i - 1], from, list[i], type)]
    BY <1>2
  <2> DEFINE last == AddDependency(g[k], from, list[k + 1], type)
             h == [i \in 0..k + 1 |-> IF i = k + 1 THEN last ELSE g[i]]
  <2>2. ASSUME NEW i \in 0..k + 1
        PROVE  h[i] = IF i = 0 THEN g0 ELSE AddDependency(h[i - 1], from, list[i], type)
    <3>1. CASE i = k + 1
      <4>1. i # 0 /\ i - 1 = k /\ k \in 0..k + 1 /\ k # k + 1
        BY <3>1
      <4>2. h[i] = last /\ h[k] = g[k]
        BY <3>1, <4>1
      <4> HIDE DEF h
      <4> QED
        BY <3>1, <4>1, <4>2
    <3>2. CASE i # k + 1
      <4>1. i \in 0..k /\ (i # 0 => i - 1 \in 0..k /\ i - 1 # k + 1)
        BY <3>2
      <4> HIDE DEF last
      <4>2. h[i] = g[i] /\ (i # 0 => h[i - 1] = g[i - 1])
        BY <3>2, <4>1
      <4>3. g[i] = IF i = 0 THEN g0 ELSE AddDependency(g[i - 1], from, list[i], type)
        BY <2>1, <4>1
      <4> HIDE DEF h
      <4> QED
        BY <4>2, <4>3
    <3> QED
      BY <3>1, <3>2
  <2> HIDE DEF last
  <2>3. h = [i \in 0..k + 1 |-> h[i]]
    OBVIOUS
  <2> HIDE DEF h
  <2>4. h = [i \in 0..k + 1 |-> IF i = 0 THEN g0
                ELSE AddDependency(h[i - 1], from, list[i], type)]
    BY <2>2, <2>3
  <2> QED
    BY <2>4
<1> HIDE DEF P
<1>3. ASSUME T # {} PROVE FALSE
  <2>1. PICK k \in T : \A j \in T : k <= j
    BY <1>3, LeastNumber
  <2>2. k \in Nat /\ k # 0 /\ ~P(k)
    BY <1>1
  <2>3. k - 1 \in Nat /\ k - 1 \notin T
    BY <2>1, <2>2
  <2>4. P(k - 1 + 1)
    BY <1>2, <2>3
  <2> QED
    BY <2>2, <2>4
<1> QED
  BY <1>3 DEF P, Adds

\* addDependency of a block adds one link for each of its instructions.
LEMMA BlockEffect ==
    ASSUME NEW D, NEW T, NoData \notin D, IsGraph(cdg, D, T), NEW from \in D, NEW type \in T,
           NEW to, func.size[to] \in Nat, \A i \in 1..func.size[to] : <<to, i>> \in D
    PROVE  /\ IsGraph(AddBlockDependency(from, to, type), D, T)
           /\ LinksOf(AddBlockDependency(from, to, type)) =
                LinksOf(cdg) \union {<<from, <<to, i>>, type>> : i \in 1..func.size[to]}
<1> DEFINE list == Instructions(to)
           n == Len(list)
           added == CHOOSE g : g = [i \in 0..n |-> IF i = 0 THEN cdg
                                    ELSE AddDependency(g[i - 1], from, list[i], type)]
<1>0. n = func.size[to] /\ n \in Nat /\ \A i \in 1..n : list[i] = <<to, i>> /\ list[i] \in D
  BY DEF Instructions
<1>1. AddBlockDependency(from, to, type) = added[n]
  BY DEF AddBlockDependency
<1> HIDE DEF list, n
<1>2. added = [i \in 0..n |-> IF i = 0 THEN cdg
                              ELSE AddDependency(added[i - 1], from, list[i], type)]
  <2>1. n \in Nat
    BY <1>0
  <2>2. \E g : Adds(g, cdg, from, list, type, n)
    BY <2>1, AddedDefined
  <2>3. added = CHOOSE g : Adds(g, cdg, from, list, type, n)
    BY DEF Adds
  <2> HIDE DEF added
  <2>4. Adds(added, cdg, from, list, type, n)
    BY <2>2, <2>3, Zenon
  <2> QED
    BY <2>4 DEF Adds
<1> HIDE DEF added
<1> DEFINE P(k) == /\ IsGraph(added[k], D, T)
                   /\ LinksOf(added[k]) =
                        LinksOf(cdg) \union {<<from, <<to, i>>, type>> : i \in 1..k}
           U == {k \in 0..n : ~P(k)}
<1>3. P(0)
  <2>1. added[0] = cdg /\ {<<from, <<to, i>>, type>> : i \in 1..0} = {}
    BY <1>0, <1>2
  <2> QED
    BY <2>1
<1>4. ASSUME NEW k \in 1..n, P(k - 1) PROVE P(k)
  <2>1. added[k] = AddDependency(added[k - 1], from, <<to, k>>, type)
    <3>1. k \in 0..n /\ k # 0 /\ list[k] = <<to, k>>
      BY <1>0, <1>4
    <3> QED
      BY <1>2, <3>1
  <2>2. PICK g, v : g = added[k - 1] /\ v = <<to, k>>
    OBVIOUS
  <2>3. v \in D
    BY <1>0, <2>2
  <2>4. /\ IsGraph(AddDependency(g, from, v, type), D, T)
        /\ LinksOf(AddDependency(g, from, v, type)) = LinksOf(g) \union {<<from, v, type>>}
    <3>1. IsGraph(g, D, T)
      BY <1>4, <2>2
    <3>2. /\ IsGraph(AddDependency(g, from, v, type), D, T)
          /\ LinkAdded(g, from, v, type, AddDependency(g, from, v, type))
      BY <2>3, <3>1, AddEffect
    <3> QED
      BY <3>2 DEF LinkAdded
  <2>5. 1..k = (1..k - 1) \union {k}
    BY <1>0
  <2>6. {<<from, <<to, i>>, type>> : i \in 1..k} =
            {<<from, <<to, i>>, type>> : i \in 1..k - 1} \union {<<from, <<to, k>>, type>>}
    BY <2>5
  <2> QED
    BY <1>4, <2>1, <2>2, <2>4, <2>6
<1> HIDE DEF P
<1>5. ASSUME U # {} PROVE FALSE
  <2>1. U \subseteq Nat
    BY <1>0
  <2>2. PICK k \in U : \A j \in U : k <= j
    BY <1>5, <2>1, LeastNumber
  <2>3. k \in 0..n /\ k # 0 /\ ~P(k)
    BY <1>3
  <2>4. k \in 1..n /\ k - 1 \in 0..n /\ k - 1 < k
    BY <1>0, <2>3
  <2>5. P(k - 1)
    BY <2>1, <2>2, <2>4
  <2> QED
    BY <1>4, <2>3, <2>4, <2>5
<1>6. P(n)
  BY <1>0, <1>5
<1> QED
  BY <1>0, <1>1, <1>6 DEF P

-----------------------------------------------------------------------------
(***************************************************************************)
(* The walks.                                                                *)
(***************************************************************************)
Types == {"CONTROL", "TRUE", "FALSE", "OTHER"}

\* The blocks whose dependence the edge e shows by definition.
Between(e) ==
    {c \in Blocks(func) : PostDominates(func, c, e[2]) /\ ~PostDominates(func, c, e[1])}

EntryLinks(c) == {<<Root, <<c, i>>, "CONTROL">> : i \in 1..func.size[c]}
EdgeLinks(e, c) ==
    {<<Terminator(e[1]), <<c, i>>, DependenceType(e[1], e[2])>> : i \in 1..func.size[c]}

\* The function, its tree and its graph are what they are, and the edges that are
\* left to do are edges whose target does not post-dominate their source.
DataOK ==
    /\ IsFlowGraph(func)
    /\ tree = PostDominatorTree(func)
    /\ IsGraph(cdg, Wrappers, Types)
    /\ edgeSet \in Seq(Blocks(func) \X Blocks(func))
    /\ \A e \in ToSet(edgeSet) : e \in FlowEdges(func) /\ NotPostDominated(e)

\* A walk is on its way up from its start, and has its end still above it.
WalkOK ==
    /\ pc \in {"entry", "edges", "next", "walk", "done"}
    /\ node \in DOMAIN tree \union {NoTreeNode}
    /\ stop \in Blocks(func) \union {NoBlock}
    /\ pc = "entry" =>
         \/ node = NoTreeNode
         \/ /\ EntryBlock(func) \in Exiting(func)
            /\ node \in Higher(func, EntryBlock(func))
    /\ pc = "walk" =>
         /\ edge \in FlowEdges(func)
         /\ edge[1] \in Exiting(func) /\ edge[2] \in Exiting(func)
         /\ node \in Higher(func, edge[2])
         /\ stop \in Higher(func, node)
         /\ Higher(func, stop) = Higher(func, edge[1]) \intersect Higher(func, edge[2])

\* No link has been added that should not be.
LinksSound ==
    \A l \in LinksOf(cdg) :
        \/ \E c \in Blocks(func) :
              PostDominates(func, c, EntryBlock(func)) /\ l \in EntryLinks(c)
        \/ \E e \in FlowEdges(func) : \E c \in Between(e) : l \in EdgeLinks(e, c)

\* Every link that should be there is, or is still ahead.
EntriesComplete ==
    \A c \in Blocks(func) : PostDominates(func, c, EntryBlock(func)) =>
        \/ EntryLinks(c) \subseteq LinksOf(cdg)
        \/ pc = "entry" /\ node # NoTreeNode /\ c \in Higher(func, node)
EdgesComplete ==
    pc \notin {"entry", "edges"} =>
        \A e \in FlowEdges(func) : \A c \in Between(e) :
            \/ EdgeLinks(e, c) \subseteq LinksOf(cdg)
            \/ e \in ToSet(edgeSet)
            \/ pc = "walk" /\ e = edge /\ c \in Higher(func, node)

\* A graph is finished only without edges left.
DoneOK == pc = "done" => edgeSet = <<>>

IInv == DataOK /\ WalkOK /\ LinksSound /\ EntriesComplete /\ EdgesComplete /\ DoneOK

\* What the assumptions say of the wrappers of a function.
LEMMA WrapperFacts ==
    ASSUME IsFlowGraph(func)
    PROVE  /\ NoData \notin Wrappers /\ Root \in Wrappers
           /\ \A b \in Blocks(func) : /\ func.size[b] \in Nat /\ func.size[b] >= 1
                                      /\ Terminator(b) \in Wrappers /\ Terminator(b) # Root
                                      /\ \A i \in 1..func.size[b] : <<b, i>> \in Wrappers
           /\ \A a, b : DependenceType(a, b) \in Types
<1>1. \A b \in Blocks(func) : func.size[b] \in Nat /\ func.size[b] >= 1
  BY DEF IsFlowGraph
<1>2. \A b \in Blocks(func) : \A i \in 1..func.size[b] :
        <<b, i>> \in Wrappers /\ <<b, i>> \in Blocks(func) \X Nat
  BY <1>1 DEF Wrappers
<1>3. \A b \in Blocks(func) : Terminator(b) \in Wrappers /\ Terminator(b) # Root
  <2>1. Root \notin Blocks(func) \X Nat
    BY DEF IsFlowGraph
  <2> QED
    BY <1>1, <1>2, <2>1 DEF Terminator
<1>4. NoData \notin Wrappers
  <2>1. NoData # Root /\ NoData \notin Blocks(func) \X Nat
    BY ConstantsAssumption DEF IsFlowGraph
  <2>2. ASSUME NEW b \in Blocks(func) PROVE NoData \notin {b} \X (1..func.size[b])
    BY <1>1, <2>1
  <2> QED
    BY <2>1, <2>2 DEF Wrappers
<1>5. \A a, b : DependenceType(a, b) \in Types
  BY DEF DependenceType, Types
<1> QED
  BY <1>1, <1>2, <1>3, <1>4, <1>5 DEF Wrappers

LEMMA TreeNodes ==
    ASSUME DataOK
    PROVE  /\ DOMAIN tree = Exiting(func) \union Virtual(func)
           /\ Exiting(func) \subseteq Blocks(func)
           /\ NoBlock \notin Exiting(func) /\ NoBlock \notin Blocks(func)
           /\ NoTreeNode \notin DOMAIN tree /\ NoBlock # NoTreeNode
           /\ \A a \in DOMAIN tree : a = NoBlock \/ a \in Exiting(func)
           /\ \A a \in DOMAIN tree : Chain(tree, a) = Higher(func, a)
<1>1. IsFlowGraph(func) /\ tree = PostDominatorTree(func)
  BY DEF DataOK
<1>2. DOMAIN tree = Exiting(func) \union Virtual(func)
  BY <1>1, TreeFacts
<1>3. \A a \in DOMAIN tree : Chain(tree, a) = Higher(func, a)
  BY <1>1, ChainFacts
<1>4. NoBlock \notin Blocks(func) /\ NoTreeNode \notin Blocks(func) /\ NoBlock # NoTreeNode
  BY <1>1, ConstantsAssumption DEF IsFlowGraph
<1>5. Exiting(func) \subseteq Blocks(func)
  BY <1>1, PostDominatesTypes
<1> QED
  BY <1>2, <1>3, <1>4, <1>5 DEF Virtual

\* What is above a node of the tree, in the terms of the state.
LEMMA HigherNodes ==
    ASSUME DataOK
    PROVE  /\ \A a \in DOMAIN tree : a \in Higher(func, a) /\ Higher(func, a) \subseteq DOMAIN tree
           /\ \A a \in DOMAIN tree : \A b \in Higher(func, a) :
                 Higher(func, b) \subseteq Higher(func, a)
           /\ \A a, b \in DOMAIN tree :
                 a \in Higher(func, b) /\ b \in Higher(func, a) => a = b
           /\ \A a \in Exiting(func) : \A b \in Blocks(func) :
                 b \in Higher(func, a) <=> PostDominates(func, b, a)
<1>1. IsFlowGraph(func) /\ DOMAIN tree = Exiting(func) \union Virtual(func)
  BY TreeNodes DEF DataOK
<1> QED
  BY <1>1, HigherFacts

\* One step up the tree leaves the node itself behind.
LEMMA OneUp ==
    ASSUME DataOK, NEW a \in DOMAIN tree
    PROVE  /\ tree[a] \in DOMAIN tree \union {NoTreeNode}
           /\ tree[a] # NoTreeNode => Higher(func, a) = {a} \union Higher(func, tree[a])
           /\ tree[a] = NoTreeNode => Higher(func, a) = {a}
<1>1. IsFlowGraph(func) /\ tree = PostDominatorTree(func) /\ NoTreeNode \notin DOMAIN tree
  BY TreeNodes DEF DataOK
<1>2. /\ tree[a] \in DOMAIN tree => Higher(func, a) = {a} \union Higher(func, tree[a])
      /\ tree[a] \notin DOMAIN tree => tree[a] = NoTreeNode /\ Higher(func, a) = {a}
  BY <1>1, WalkUp
<1> QED
  BY <1>1, <1>2

LEMMA InitIInv == Init => IInv
<1> SUFFICES ASSUME Init PROVE IInv
  OBVIOUS
<1>1. IsFlowGraph(func) /\ tree = PostDominatorTree(func)
  BY FlowGraphsAssumption DEF Init, IsFlowGraph
<1>2. /\ edgeSet = <<>> /\ edgeSet \in Seq(Blocks(func) \X Blocks(func))
      /\ ToSet(edgeSet) = {}
  BY DEF Init, ToSet
<1>3. IsGraph(cdg, Wrappers, Types) /\ LinksOf(cdg) = {}
  BY <1>1, WrapperFacts, EmptyIsGraph DEF Init
<1>4. DataOK
  BY <1>1, <1>2, <1>3 DEF DataOK
<1>5. EntryBlock(func) \in Blocks(func)
  BY <1>1, FlowGraphFacts
<1>6. EntryBlock(func) \in DOMAIN tree <=> EntryBlock(func) \in Exiting(func)
  BY <1>4, <1>5, TreeNodes
<1>7. node = IF EntryBlock(func) \in Exiting(func) THEN EntryBlock(func) ELSE NoTreeNode
  BY <1>6 DEF Init, GetNode
<1>8. WalkOK
  BY <1>4, <1>6, <1>7, HigherNodes DEF Init, WalkOK
<1>9. LinksSound /\ DoneOK
  BY <1>2, <1>3 DEF LinksSound, DoneOK
<1>10. EntriesComplete
  <2> SUFFICES ASSUME NEW c \in Blocks(func), PostDominates(func, c, EntryBlock(func))
               PROVE  pc = "entry" /\ node # NoTreeNode /\ c \in Higher(func, node)
    BY DEF EntriesComplete
  <2>1. EntryBlock(func) \in Exiting(func)
    BY DEF PostDominates
  <2>2. node = EntryBlock(func) /\ node \in DOMAIN tree
    BY <1>6, <1>7, <2>1
  <2>3. c \in Higher(func, node)
    BY <1>4, <2>1, <2>2, HigherNodes
  <2> QED
    BY <1>4, <2>2, <2>3, TreeNodes DEF Init
<1>11. EdgesComplete
  BY DEF Init, EdgesComplete
<1> QED
  BY <1>4, <1>8, <1>9, <1>10, <1>11 DEF IInv

-----------------------------------------------------------------------------
\* What only depends on the function and its tree stays what it is.
LEMMA Frame ==
    ASSUME func' = func, tree' = tree
    PROVE  /\ Wrappers' = Wrappers
           /\ \A e : Between(e)' = Between(e)
           /\ \A c : EntryLinks(c)' = EntryLinks(c)
           /\ \A e, c : EdgeLinks(e, c)' = EdgeLinks(e, c)
           /\ \A e : NotPostDominated(e)' = NotPostDominated(e)
<1>1. Wrappers' = Wrappers
  BY DEF Wrappers
<1>2. \A e : Between(e)' = Between(e)
  BY DEF Between
<1>3. \A c : EntryLinks(c)' = EntryLinks(c)
  BY DEF EntryLinks
<1>4. \A e, c : EdgeLinks(e, c)' = EdgeLinks(e, c)
  BY DEF EdgeLinks, Terminator, DependenceType
<1>5. \A e : NotPostDominated(e)' = NotPostDominated(e)
  BY DEF NotPostDominated
<1> QED
  BY <1>1, <1>2, <1>3, <1>4, <1>5

\* A step that adds only links that should be there leaves only such links.
LEMMA SoundStep ==
    ASSUME LinksSound, func' = func, tree' = tree, NEW more,
           LinksOf(cdg') \subseteq LinksOf(cdg) \union more,
           \/ \E c \in Blocks(func) :
                 PostDominates(func, c, EntryBlock(func)) /\ more \subseteq EntryLinks(c)
           \/ \E e \in FlowEdges(func) : \E c \in Between(e) : more \subseteq EdgeLinks(e, c)
           \/ more = {}
    PROVE  LinksSound'
<1>1. ASSUME NEW l \in LinksOf(cdg')
      PROVE  \/ \E c \in Blocks(func) :
                   PostDominates(func, c, EntryBlock(func)) /\ l \in EntryLinks(c)
             \/ \E e \in FlowEdges(func) : \E c \in Between(e) : l \in EdgeLinks(e, c)
  BY <1>1, Zenon DEF LinksSound
<1> QED
  BY <1>1, Frame DEF LinksSound

LEMMA EntryWalkKeeps ==
    ASSUME IInv, EntryWalk
    PROVE  IInv'
<1>1. /\ pc = "entry" /\ pc' = "entry" /\ node # NoTreeNode /\ node # NoBlock
      /\ cdg' = AddBlockDependency(Root, node, "CONTROL") /\ node' = tree[node]
      /\ func' = func /\ tree' = tree /\ edgeSet' = edgeSet /\ edge' = edge /\ stop' = stop
  BY DEF EntryWalk, HasBlock, IDom
<1>2. DataOK /\ WalkOK /\ LinksSound /\ EntriesComplete /\ EdgesComplete /\ IsFlowGraph(func)
  BY DEF IInv, DataOK
<1>3. /\ node \in DOMAIN tree /\ node \in Exiting(func) /\ node \in Blocks(func)
      /\ EntryBlock(func) \in Exiting(func) /\ EntryBlock(func) \in DOMAIN tree
      /\ node \in Higher(func, EntryBlock(func))
  BY <1>1, <1>2, TreeNodes DEF WalkOK
<1>4. PostDominates(func, node, EntryBlock(func))
  BY <1>2, <1>3, HigherNodes
<1>5. /\ IsGraph(cdg', Wrappers, Types)
      /\ LinksOf(cdg') = LinksOf(cdg) \union EntryLinks(node)
  <2>1. /\ NoData \notin Wrappers /\ Root \in Wrappers /\ "CONTROL" \in Types
        /\ func.size[node] \in Nat /\ \A i \in 1..func.size[node] : <<node, i>> \in Wrappers
        /\ IsGraph(cdg, Wrappers, Types)
    BY <1>2, <1>3, WrapperFacts DEF DataOK, Types
  <2>2. /\ IsGraph(AddBlockDependency(Root, node, "CONTROL"), Wrappers, Types)
        /\ LinksOf(AddBlockDependency(Root, node, "CONTROL")) =
             LinksOf(cdg) \union {<<Root, <<node, i>>, "CONTROL">> : i \in 1..func.size[node]}
    BY <2>1, BlockEffect
  <2> QED
    BY <1>1, <2>2 DEF EntryLinks
<1>6. DataOK'
  BY <1>1, <1>2, <1>5, Frame DEF DataOK
<1>7. /\ node' \in DOMAIN tree \union {NoTreeNode}
      /\ node' # NoTreeNode => Higher(func, node) = {node} \union Higher(func, node')
      /\ node' = NoTreeNode => Higher(func, node) = {node}
  BY <1>1, <1>2, <1>3, OneUp
<1>8. WalkOK'
  <2>1. node' # NoTreeNode => node' \in Higher(func, EntryBlock(func))
    <3>1. Higher(func, node) \subseteq Higher(func, EntryBlock(func))
      BY <1>2, <1>3, HigherNodes
    <3>2. node' # NoTreeNode => node' \in Higher(func, node')
      BY <1>2, <1>7, HigherNodes
    <3> QED
      BY <1>7, <3>1, <3>2
  <2> QED
    BY <1>1, <1>2, <1>3, <1>7, <2>1 DEF WalkOK
<1>9. LinksSound'
  BY <1>1, <1>2, <1>3, <1>4, <1>5, SoundStep
<1>10. EntriesComplete'
  <2>1. ASSUME NEW c \in Blocks(func), PostDominates(func, c, EntryBlock(func))
        PROVE  \/ EntryLinks(c) \subseteq LinksOf(cdg')
               \/ node' # NoTreeNode /\ c \in Higher(func, node')
    <3>1. EntryLinks(c) \subseteq LinksOf(cdg) \/ c \in Higher(func, node)
      BY <1>2, <2>1 DEF EntriesComplete
    <3>2. CASE EntryLinks(c) \subseteq LinksOf(cdg)
      BY <1>5, <3>2
    <3>3. CASE c = node
      BY <1>5, <3>3
    <3>4. CASE c \in Higher(func, node) /\ c # node
      BY <1>7, <3>4
    <3> QED
      BY <3>1, <3>2, <3>3, <3>4
  <2> QED
    BY <1>1, <2>1, Frame DEF EntriesComplete
<1>11. EdgesComplete' /\ DoneOK'
  BY <1>1 DEF EdgesComplete, DoneOK
<1> QED
  BY <1>6, <1>8, <1>9, <1>10, <1>11 DEF IInv

\* A step that leaves the graph alone only has to keep the edges that are left.
LEMMA GraphKept ==
    ASSUME DataOK, LinksSound, UNCHANGED <<func, tree, cdg>>,
           edgeSet' \in Seq(Blocks(func) \X Blocks(func)),
           \A e \in ToSet(edgeSet') : e \in FlowEdges(func) /\ NotPostDominated(e)
    PROVE  DataOK' /\ LinksSound'
<1>1. DataOK'
  BY Frame DEF DataOK
<1>2. LinksSound'
  <2>1. func' = func /\ tree' = tree /\ LinksOf(cdg') \subseteq LinksOf(cdg) \union {}
    OBVIOUS
  <2> QED
    BY <2>1, SoundStep
<1> QED
  BY <1>1, <1>2

LEMMA EntryDoneKeeps ==
    ASSUME IInv, EntryDone
    PROVE  IInv'
<1>1. /\ pc = "entry" /\ pc' = "edges" /\ (node = NoTreeNode \/ node = NoBlock)
      /\ node' = NoTreeNode /\ UNCHANGED <<func, tree, cdg>>
      /\ edgeSet' = edgeSet /\ edge' = edge /\ stop' = stop
  BY DEF EntryDone, HasBlock
<1>2. DataOK /\ WalkOK /\ LinksSound /\ EntriesComplete /\ EdgesComplete /\ IsFlowGraph(func)
  BY DEF IInv, DataOK
<1>3. DataOK' /\ LinksSound'
  BY <1>1, <1>2, GraphKept DEF DataOK
<1>4. WalkOK'
  BY <1>1, <1>2 DEF WalkOK
<1>5. EntriesComplete'
  <2>1. ASSUME NEW c \in Blocks(func), PostDominates(func, c, EntryBlock(func))
        PROVE  EntryLinks(c) \subseteq LinksOf(cdg')
    <3>1. \/ EntryLinks(c) \subseteq LinksOf(cdg)
          \/ node # NoTreeNode /\ c \in Higher(func, node)
      BY <1>2, <2>1 DEF EntriesComplete
    <3>2. node = NoBlock => c \notin Higher(func, node)
      BY <1>2, TreeNodes DEF Higher
    <3> QED
      BY <1>1, <3>1, <3>2
  <2> QED
    BY <1>1, <2>1, Frame DEF EntriesComplete
<1>6. EdgesComplete' /\ DoneOK'
  BY <1>1 DEF EdgesComplete, DoneOK
<1> QED
  BY <1>3, <1>4, <1>5, <1>6 DEF IInv

-----------------------------------------------------------------------------
\* The edges out of one block that are kept.
LEMMA EdgesFromMembers ==
    ASSUME IsFlowGraph(func), NEW b \in Blocks(func)
    PROVE  /\ EdgesFrom(b) \in Seq(Blocks(func) \X Blocks(func))
           /\ ToSet(EdgesFrom(b)) = {e \in FlowEdges(func) : e[1] = b /\ NotPostDominated(e)}
<1> DEFINE S == Blocks(func) \X Blocks(func)
           n == Len(func.succ[b])
           seqs == [j \in DOMAIN func.succ[b] |->
                      IF NotPostDominated(<<b, func.succ[b][j]>>)
                      THEN << <<b, func.succ[b][j]>> >> ELSE <<>>]
<1>1. /\ n \in Nat /\ DOMAIN func.succ[b] = 1..n
      /\ \A j \in 1..n : func.succ[b][j] \in Successors(func, b)
      /\ \A s \in Successors(func, b) : \E j \in 1..n : s = func.succ[b][j]
  <2>1. PICK q : q = func.succ[b] /\ q \in Seq(Blocks(func) \ {EntryBlock(func)})
    BY DEF IsFlowGraph
  <2>2. Len(q) \in Nat /\ DOMAIN q = 1..Len(q)
    BY <2>1
  <2> QED
    BY <2>1, <2>2 DEF Successors, ToSet
<1>2. Successors(func, b) \subseteq Blocks(func)
  BY FlowGraphFacts
<1>3. \A j \in 1..n : <<b, func.succ[b][j]>> \in S
  BY <1>1, <1>2
<1>4. \A j \in 1..n : /\ seqs[j] \in Seq(S)
                      /\ ToSet(seqs[j]) = {e \in {<<b, func.succ[b][j]>>} : NotPostDominated(e)}
  <2> TAKE j \in 1..n
  <2>1. PICK e \in S : e = <<b, func.succ[b][j]>>
    BY <1>3
  <2>2. seqs[j] = IF NotPostDominated(e) THEN <<e>> ELSE <<>>
    BY <1>1, <2>1
  <2>3. <<e>> \in Seq(S) /\ ToSet(<<e>>) = {e} /\ <<>> \in Seq(S) /\ ToSet(<<>>) = {}
    BY DEF ToSet
  <2> HIDE DEF seqs, S
  <2> QED
    BY <2>1, <2>2, <2>3
<1>5. DOMAIN seqs = 1..n
  BY <1>1
<1>6. seqs \in Seq(Seq(S))
  <2>1. seqs \in [1..n -> Seq(S)]
    <3>1. seqs = [j \in 1..n |-> seqs[j]]
      BY <1>1
    <3> HIDE DEF seqs
    <3> QED
      BY <1>4, <3>1
  <2> HIDE DEF seqs, S
  <2> QED
    BY <1>1, <2>1 DEF Seq
<1>7. EdgesFrom(b) = FlattenSeq(seqs)
  BY DEF EdgesFrom
<1> HIDE DEF seqs, n
<1>8. /\ FlattenSeq(seqs) \in Seq(S)
      /\ ToSet(FlattenSeq(seqs)) = UNION {ToSet(s) : s \in ToSet(seqs)}
  BY <1>6, FlattenMembers
<1>9. \A e : e \in UNION {ToSet(s) : s \in ToSet(seqs)} <=> \E j \in 1..n : e \in ToSet(seqs[j])
  <2>1. ToSet(seqs) = {seqs[j] : j \in 1..n}
    BY <1>5 DEF ToSet
  <2> QED
    BY <2>1
<1>10. \A e : (\E j \in 1..n : e \in ToSet(seqs[j])) <=>
              \E s \in Successors(func, b) : e = <<b, s>> /\ NotPostDominated(e)
  BY <1>1, <1>4
<1>11. \A e : e \in FlowEdges(func) /\ e[1] = b <=> \E s \in Successors(func, b) : e = <<b, s>>
  BY <1>2, FlowGraphFacts
<1> QED
  <2>1. ASSUME NEW e
        PROVE  e \in ToSet(FlattenSeq(seqs))
                 <=> e \in {x \in FlowEdges(func) : x[1] = b /\ NotPostDominated(x)}
    BY <1>8, <1>9, <1>10, <1>11
  <2> QED
    BY <1>7, <1>8, <2>1

\* The edges that are collected are those of the definition.
LEMMA EdgesCollected ==
    ASSUME IsFlowGraph(func),
           NEW all, all = FlattenSeq([i \in DOMAIN func.order |-> EdgesFrom(func.order[i])])
    PROVE  /\ all \in Seq(Blocks(func) \X Blocks(func))
           /\ ToSet(all) = {e \in FlowEdges(func) : NotPostDominated(e)}
<1> DEFINE S == Blocks(func) \X Blocks(func)
           n == Len(func.order)
           seqs == [i \in DOMAIN func.order |-> EdgesFrom(func.order[i])]
<1>1. /\ n \in Nat /\ DOMAIN func.order = 1..n
      /\ \A i \in 1..n : func.order[i] \in Blocks(func)
      /\ \A b \in Blocks(func) : \E i \in 1..n : b = func.order[i]
  <2>1. PICK q : q = func.order /\ q \in Seq(Blocks(func))
    BY DEF IsFlowGraph
  <2>2. Len(q) \in Nat /\ DOMAIN q = 1..Len(q)
    BY <2>1
  <2> QED
    BY <2>1, <2>2 DEF Blocks, ToSet
<1>2. DOMAIN seqs = 1..n /\ \A i \in 1..n : seqs[i] = EdgesFrom(func.order[i])
  BY <1>1
<1>3. seqs \in Seq(Seq(S))
  <2>1. \A i \in 1..n : seqs[i] \in Seq(S)
    BY <1>1, <1>2, EdgesFromMembers
  <2>2. seqs \in [1..n -> Seq(S)]
    <3>1. seqs = [i \in 1..n |-> seqs[i]]
      BY <1>1
    <3> HIDE DEF seqs
    <3> QED
      BY <2>1, <3>1
  <2> HIDE DEF seqs, S
  <2> QED
    BY <1>1, <2>2 DEF Seq
<1> HIDE DEF seqs, n
<1>4. /\ FlattenSeq(seqs) \in Seq(S)
      /\ ToSet(FlattenSeq(seqs)) = UNION {ToSet(s) : s \in ToSet(seqs)}
  BY <1>3, FlattenMembers
<1>5. ToSet(seqs) = {EdgesFrom(b) : b \in Blocks(func)}
  BY <1>1, <1>2 DEF ToSet
<1>6. \A e \in FlowEdges(func) : e[1] \in Blocks(func)
  BY FlowGraphFacts
<1>7. ToSet(FlattenSeq(seqs)) = {e \in FlowEdges(func) : NotPostDominated(e)}
  BY <1>4, <1>5, <1>6, EdgesFromMembers
<1> QED
  BY <1>4, <1>7 DEF seqs

\* An edge that is not kept shows no dependence.
LEMMA OtherEdges ==
    ASSUME DataOK, NEW e \in FlowEdges(func), ~NotPostDominated(e)
    PROVE  Between(e) = {}
<1> SUFFICES ASSUME NEW c \in Between(e) PROVE FALSE
  OBVIOUS
<1>1. /\ IsFlowGraph(func) /\ e[1] \in Blocks(func) /\ e[2] \in Successors(func, e[1])
      /\ e[2] \in Blocks(func)
  BY FlowGraphFacts DEF DataOK
<1>2. c \in Blocks(func) /\ PostDominates(func, c, e[2]) /\ ~PostDominates(func, c, e[1])
  BY DEF Between
<1>3. e[1] \in Exiting(func)
  BY <1>1, <1>2, ControlledByBranch
<1>4. e[1] = e[2] \/ e[2] \in Chain(tree, e[1])
  BY <1>3, TreeNodes DEF NotPostDominated, Dominates
<1>5. PostDominates(func, e[2], e[1])
  <2>1. e[1] = e[2] => PostDominates(func, e[2], e[1])
    BY <1>1, <1>3, PostDominatesTypes
  <2>2. e[2] \in Chain(tree, e[1]) => PostDominates(func, e[2], e[1])
    BY <1>1, <1>3, TreeNodes, HigherNodes
  <2> QED
    BY <1>4, <2>1, <2>2
<1> QED
  BY <1>1, <1>2, <1>5, PostDominatesTransitive

LEMMA CollectEdgesKeeps ==
    ASSUME IInv, CollectEdges
    PROVE  IInv'
<1>1. /\ pc = "edges" /\ pc' = "next" /\ UNCHANGED <<func, tree, cdg>>
      /\ edgeSet' = FlattenSeq([i \in DOMAIN func.order |-> EdgesFrom(func.order[i])])
      /\ node' = node /\ edge' = edge /\ stop' = stop
  BY DEF CollectEdges
<1>2. DataOK /\ WalkOK /\ LinksSound /\ EntriesComplete /\ IsFlowGraph(func)
  BY DEF IInv, DataOK
<1>3. /\ edgeSet' \in Seq(Blocks(func) \X Blocks(func))
      /\ ToSet(edgeSet') = {e \in FlowEdges(func) : NotPostDominated(e)}
  BY <1>1, <1>2, EdgesCollected
<1>4. DataOK' /\ LinksSound'
  BY <1>1, <1>2, <1>3, GraphKept
<1>5. WalkOK'
  BY <1>1, <1>2 DEF WalkOK
<1>6. EntriesComplete'
  BY <1>1, <1>2, Frame DEF EntriesComplete
<1>7. EdgesComplete'
  <2>1. ASSUME NEW e \in FlowEdges(func), NEW c \in Between(e) PROVE e \in ToSet(edgeSet')
    BY <1>2, <1>3, OtherEdges
  <2> QED
    BY <1>1, <2>1, Frame DEF EdgesComplete
<1>8. DoneOK'
  BY <1>1 DEF DoneOK
<1> QED
  BY <1>4, <1>5, <1>6, <1>7, <1>8 DEF IInv

LEMMA HeadAndTail ==
    ASSUME NEW S, NEW q \in Seq(S), q # <<>>
    PROVE  /\ Head(q) \in ToSet(q) /\ Tail(q) \in Seq(S)
           /\ ToSet(q) = {Head(q)} \union ToSet(Tail(q))
<1>1. /\ Len(q) \in Nat /\ Len(q) # 0 /\ DOMAIN q = 1..Len(q)
      /\ Head(q) = q[1] /\ Tail(q) \in Seq(S) /\ DOMAIN Tail(q) = 1..Len(q) - 1
      /\ \A i \in 1..Len(q) - 1 : Tail(q)[i] = q[i + 1]
  BY EmptySeq, LenProperties
<1>2. Head(q) \in ToSet(q)
  BY <1>1 DEF ToSet
<1>3. ASSUME NEW x \in ToSet(q) PROVE x = Head(q) \/ x \in ToSet(Tail(q))
  <2>1. PICK i \in 1..Len(q) : x = q[i]
    BY <1>1 DEF ToSet
  <2>2. i # 1 => i - 1 \in 1..Len(q) - 1 /\ i - 1 + 1 = i
    BY <1>1
  <2> QED
    BY <1>1, <2>1, <2>2 DEF ToSet
<1>4. ASSUME NEW x \in ToSet(Tail(q)) PROVE x \in ToSet(q)
  <2>1. PICK i \in 1..Len(q) - 1 : x = Tail(q)[i]
    BY <1>1 DEF ToSet
  <2>2. i + 1 \in 1..Len(q)
    BY <1>1
  <2> QED
    BY <1>1, <2>1, <2>2 DEF ToSet
<1> QED
  BY <1>1, <1>2, <1>3, <1>4

LEMMA TakeEdgeKeeps ==
    ASSUME IInv, TakeEdge
    PROVE  IInv'
<1> DEFINE e == Head(edgeSet)
<1>1. /\ pc = "next" /\ edgeSet # <<>> /\ edge' = e /\ edgeSet' = Tail(edgeSet)
      /\ stop' = StopAt(e) /\ node' = GetNode(tree, e[2])
      /\ pc' = (IF node' = NoTreeNode THEN "next" ELSE "walk")
      /\ UNCHANGED <<func, tree, cdg>>
  BY DEF TakeEdge
<1>2. DataOK /\ WalkOK /\ LinksSound /\ EntriesComplete /\ EdgesComplete /\ IsFlowGraph(func)
  BY DEF IInv, DataOK
<1>3. /\ e \in ToSet(edgeSet) /\ edgeSet' \in Seq(Blocks(func) \X Blocks(func))
      /\ ToSet(edgeSet) = {e} \union ToSet(edgeSet')
  BY <1>1, <1>2, HeadAndTail DEF DataOK
<1>4. /\ e \in FlowEdges(func) /\ NotPostDominated(e)
      /\ \A x \in ToSet(edgeSet') : x \in FlowEdges(func) /\ NotPostDominated(x)
  BY <1>2, <1>3 DEF DataOK
<1> HIDE DEF e
<1>5. DataOK' /\ LinksSound'
  BY <1>1, <1>2, <1>3, <1>4, GraphKept
<1>6. /\ e[1] \in Blocks(func) /\ e[2] \in Blocks(func) /\ ~Dominates(tree, e[2], e[1])
  BY <1>2, <1>4, FlowGraphFacts DEF NotPostDominated
<1>7. e[1] \in Exiting(func)
  BY <1>2, <1>6, TreeNodes DEF Dominates
<1>8. /\ e[2] \notin Exiting(func) => stop' = e[1]
      /\ e[2] \in Exiting(func) =>
            /\ stop' \in DOMAIN tree
            /\ Higher(func, stop') = Higher(func, e[1]) \intersect Higher(func, e[2])
  <2>1. PICK s : s = stop' /\ s = FindNearestCommonDominator(tree, e[1], e[2])
    BY <1>1 DEF StopAt
  <2>2. tree = PostDominatorTree(func)
    BY <1>2 DEF DataOK
  <2>3. /\ e[2] \notin Exiting(func) => s = e[1]
        /\ e[2] \in Exiting(func) =>
              /\ s \in DOMAIN tree
              /\ Higher(func, s) = Higher(func, e[1]) \intersect Higher(func, e[2])
    BY <1>2, <1>6, <1>7, <2>1, <2>2, StopFacts
  <2> QED
    BY <2>1, <2>3
<1>9. /\ e[2] \notin Exiting(func) => node' = NoTreeNode /\ pc' = "next"
      /\ e[2] \in Exiting(func) => node' = e[2] /\ node' \in DOMAIN tree /\ pc' = "walk"
  <2>1. /\ e[2] \in DOMAIN tree <=> e[2] \in Exiting(func)
        /\ NoTreeNode \notin DOMAIN tree
    BY <1>2, <1>6, TreeNodes
  <2> QED
    BY <1>1, <2>1 DEF GetNode
<1>10. WalkOK'
  <2>1. stop' \in Blocks(func) \union {NoBlock}
    BY <1>2, <1>6, <1>8, TreeNodes
  <2>2. ASSUME e[2] \in Exiting(func)
        PROVE  node' \in Higher(func, e[2]) /\ stop' \in Higher(func, node')
    BY <1>2, <1>8, <1>9, <2>2, HigherNodes
  <2>3. pc' = "walk" =>
          /\ edge' \in FlowEdges(func)
          /\ edge'[1] \in Exiting(func) /\ edge'[2] \in Exiting(func)
          /\ node' \in Higher(func, edge'[2])
          /\ stop' \in Higher(func, node')
          /\ Higher(func, stop') = Higher(func, edge'[1]) \intersect Higher(func, edge'[2])
    BY <1>1, <1>4, <1>7, <1>8, <1>9, <2>2
  <2>4. pc' \in {"next", "walk"} /\ node' \in DOMAIN tree \union {NoTreeNode}
    BY <1>9
  <2> QED
    BY <1>1, <2>1, <2>3, <2>4 DEF WalkOK
<1>11. EntriesComplete'
  BY <1>1, <1>2, Frame DEF EntriesComplete
<1>12. EdgesComplete'
  <2>1. ASSUME NEW x \in FlowEdges(func), NEW c \in Between(x)
        PROVE  \/ EdgeLinks(x, c) \subseteq LinksOf(cdg')
               \/ x \in ToSet(edgeSet')
               \/ pc' = "walk" /\ x = edge' /\ c \in Higher(func, node')
    <3>1. EdgeLinks(x, c) \subseteq LinksOf(cdg) \/ x = e \/ x \in ToSet(edgeSet')
      BY <1>1, <1>2, <1>3, <2>1 DEF EdgesComplete
    <3>2. CASE x = e
      <4>1. c \in Blocks(func) /\ PostDominates(func, c, e[2]) /\ e[2] \in Exiting(func)
        BY <2>1, <3>2 DEF Between, PostDominates
      <4>2. c \in Higher(func, e[2])
        BY <1>2, <4>1, HigherNodes
      <4> QED
        BY <1>1, <1>9, <3>2, <4>1, <4>2
    <3> QED
      BY <1>1, <3>1, <3>2
  <2> QED
    BY <1>1, <2>1, Frame DEF EdgesComplete
<1>13. DoneOK'
  BY <1>1 DEF DoneOK
<1> QED
  BY <1>5, <1>10, <1>11, <1>12, <1>13 DEF IInv

LEMMA WalkKeeps ==
    ASSUME IInv, Walk
    PROVE  IInv'
<1> DEFINE type == DependenceType(edge[1], edge[2])
<1>1. /\ pc = "walk" /\ pc' = "walk" /\ node # NoTreeNode /\ node # NoBlock /\ node # stop
      /\ cdg' = AddBlockDependency(Terminator(edge[1]), node, type) /\ node' = tree[node]
      /\ func' = func /\ tree' = tree /\ edgeSet' = edgeSet /\ edge' = edge /\ stop' = stop
  BY DEF Walk, HasBlock, IDom
<1>2. DataOK /\ WalkOK /\ LinksSound /\ EntriesComplete /\ EdgesComplete /\ IsFlowGraph(func)
  BY DEF IInv, DataOK
<1>3. /\ edge \in FlowEdges(func) /\ edge[1] \in Exiting(func) /\ edge[2] \in Exiting(func)
      /\ node \in Higher(func, edge[2]) /\ stop \in Higher(func, node)
      /\ Higher(func, stop) = Higher(func, edge[1]) \intersect Higher(func, edge[2])
      /\ node \in DOMAIN tree
  BY <1>1, <1>2 DEF WalkOK
<1>4. /\ node \in Exiting(func) /\ node \in Blocks(func)
      /\ edge[1] \in Blocks(func) /\ edge[2] \in Blocks(func)
      /\ edge[1] \in DOMAIN tree /\ edge[2] \in DOMAIN tree /\ stop \in DOMAIN tree
  BY <1>1, <1>2, <1>3, TreeNodes, HigherNodes
<1>5. node \in Between(edge)
  <2>1. PostDominates(func, node, edge[2])
    BY <1>2, <1>3, <1>4, HigherNodes
  <2>2. ASSUME PostDominates(func, node, edge[1]) PROVE FALSE
    <3>1. node \in Higher(func, edge[1])
      BY <1>2, <1>3, <1>4, <2>2, HigherNodes
    <3>2. node \in Higher(func, stop)
      BY <1>3, <3>1
    <3> QED
      BY <1>1, <1>2, <1>3, <1>4, <3>2, HigherNodes
  <2> QED
    BY <1>4, <2>1, <2>2 DEF Between
<1>6. /\ IsGraph(cdg', Wrappers, Types)
      /\ LinksOf(cdg') = LinksOf(cdg) \union EdgeLinks(edge, node)
  <2>1. PICK t, w : t = type /\ w = Terminator(edge[1])
    OBVIOUS
  <2>2. /\ NoData \notin Wrappers /\ w \in Wrappers /\ t \in Types
        /\ func.size[node] \in Nat /\ \A i \in 1..func.size[node] : <<node, i>> \in Wrappers
        /\ IsGraph(cdg, Wrappers, Types)
    BY <1>2, <1>4, <2>1, WrapperFacts DEF DataOK
  <2>3. /\ IsGraph(AddBlockDependency(w, node, t), Wrappers, Types)
        /\ LinksOf(AddBlockDependency(w, node, t)) =
             LinksOf(cdg) \union {<<w, <<node, i>>, t>> : i \in 1..func.size[node]}
    BY <2>2, BlockEffect
  <2> QED
    BY <1>1, <2>1, <2>3 DEF EdgeLinks
<1>7. DataOK'
  BY <1>1, <1>2, <1>6, Frame DEF DataOK
<1>8. /\ node' \in DOMAIN tree
      /\ Higher(func, node) = {node} \union Higher(func, node')
  <2>1. /\ node' \in DOMAIN tree \union {NoTreeNode}
        /\ node' # NoTreeNode => Higher(func, node) = {node} \union Higher(func, node')
        /\ node' = NoTreeNode => Higher(func, node) = {node}
    BY <1>1, <1>2, <1>3, OneUp
  <2> QED
    BY <1>1, <1>3, <2>1
<1>9. WalkOK'
  <2>1. stop \in Higher(func, node')
    BY <1>1, <1>3, <1>8
  <2>2. node' \in Higher(func, edge[2])
    <3>1. Higher(func, node) \subseteq Higher(func, edge[2])
      BY <1>2, <1>3, <1>4, HigherNodes
    <3>2. node' \in Higher(func, node')
      BY <1>2, <1>8, HigherNodes
    <3> QED
      BY <1>8, <3>1, <3>2
  <2> QED
    BY <1>1, <1>2, <1>3, <1>8, <2>1, <2>2 DEF WalkOK
<1>10. LinksSound'
  BY <1>1, <1>2, <1>3, <1>5, <1>6, SoundStep
<1>11. EntriesComplete'
  BY <1>1, <1>2, <1>6, Frame DEF EntriesComplete
<1>12. EdgesComplete'
  <2>1. ASSUME NEW e \in FlowEdges(func), NEW c \in Between(e)
        PROVE  \/ EdgeLinks(e, c) \subseteq LinksOf(cdg')
               \/ e \in ToSet(edgeSet')
               \/ e = edge /\ c \in Higher(func, node')
    <3>1. \/ EdgeLinks(e, c) \subseteq LinksOf(cdg)
          \/ e \in ToSet(edgeSet)
          \/ e = edge /\ c \in Higher(func, node)
      BY <1>1, <1>2, <2>1 DEF EdgesComplete
    <3>2. CASE e = edge /\ c \in Higher(func, node)
      BY <1>6, <1>8, <3>2
    <3> QED
      BY <1>1, <1>6, <3>1, <3>2
  <2> QED
    BY <1>1, <2>1, Frame DEF EdgesComplete
<1>13. DoneOK'
  BY <1>1 DEF DoneOK
<1> QED
  BY <1>7, <1>9, <1>10, <1>11, <1>12, <1>13 DEF IInv

LEMMA WalkDoneKeeps ==
    ASSUME IInv, WalkDone
    PROVE  IInv'
<1>1. /\ pc = "walk" /\ pc' = "next" /\ node = stop /\ UNCHANGED <<func, tree, cdg>>
      /\ node' = node /\ edgeSet' = edgeSet /\ edge' = edge /\ stop' = stop
  BY DEF WalkDone
<1>2. DataOK /\ WalkOK /\ LinksSound /\ EntriesComplete /\ EdgesComplete /\ IsFlowGraph(func)
  BY DEF IInv, DataOK
<1>3. DataOK' /\ LinksSound'
  BY <1>1, <1>2, GraphKept DEF DataOK
<1>4. WalkOK'
  BY <1>1, <1>2 DEF WalkOK
<1>5. EntriesComplete'
  BY <1>1, <1>2, Frame DEF EntriesComplete
<1>6. EdgesComplete'
  <2>1. ASSUME NEW e \in FlowEdges(func), NEW c \in Between(e)
        PROVE  EdgeLinks(e, c) \subseteq LinksOf(cdg) \/ e \in ToSet(edgeSet)
    <3>1. SUFFICES ASSUME e = edge, c \in Higher(func, node) PROVE FALSE
      BY <1>1, <1>2, <2>1 DEF EdgesComplete
    <3>2. /\ edge[1] \in Exiting(func)
          /\ Higher(func, node) = Higher(func, edge[1]) \intersect Higher(func, edge[2])
      BY <1>1, <1>2 DEF WalkOK
    <3>3. c \in Blocks(func) /\ ~PostDominates(func, c, edge[1])
      BY <2>1, <3>1 DEF Between
    <3> QED
      BY <1>2, <3>1, <3>2, <3>3, HigherNodes
  <2> QED
    BY <1>1, <2>1, Frame DEF EdgesComplete
<1>7. DoneOK'
  BY <1>1 DEF DoneOK
<1> QED
  BY <1>3, <1>4, <1>5, <1>6, <1>7 DEF IInv

LEMMA FinishKeeps ==
    ASSUME IInv, Finish
    PROVE  IInv'
<1>1. /\ pc = "next" /\ pc' = "done" /\ edgeSet = <<>> /\ UNCHANGED <<func, tree, cdg>>
      /\ node' = node /\ edgeSet' = edgeSet /\ edge' = edge /\ stop' = stop
  BY DEF Finish
<1>2. DataOK /\ WalkOK /\ LinksSound /\ EntriesComplete /\ EdgesComplete
  BY DEF IInv
<1>3. DataOK' /\ LinksSound'
  BY <1>1, <1>2, GraphKept DEF DataOK
<1>4. WalkOK' /\ DoneOK'
  BY <1>1, <1>2 DEF WalkOK, DoneOK
<1>5. EntriesComplete'
  BY <1>1, <1>2, Frame DEF EntriesComplete
<1>6. EdgesComplete'
  BY <1>1, <1>2, Frame DEF EdgesComplete
<1> QED
  BY <1>3, <1>4, <1>5, <1>6 DEF IInv

\* The invariant holds throughout, and the walks find their end.
LEMMA Invariance == Spec => []IInv
<1>1. IInv /\ [Next]_vars => IInv'
  <2> SUFFICES ASSUME IInv, [Next]_vars PROVE IInv'
    OBVIOUS
  <2>1. CASE UNCHANGED vars
    <3>1. /\ UNCHANGED <<func, tree, cdg>> /\ pc' = pc
          /\ node' = node /\ edgeSet' = edgeSet /\ edge' = edge /\ stop' = stop
      BY <2>1 DEF vars
    <3>2. DataOK /\ WalkOK /\ LinksSound /\ EntriesComplete /\ EdgesComplete /\ DoneOK
      BY DEF IInv
    <3>3. DataOK' /\ LinksSound'
      BY <3>1, <3>2, GraphKept DEF DataOK
    <3>4. WalkOK' /\ DoneOK'
      BY <3>1, <3>2 DEF WalkOK, DoneOK
    <3>5. EntriesComplete' /\ EdgesComplete'
      BY <3>1, <3>2, Frame DEF EntriesComplete, EdgesComplete
    <3> QED
      BY <3>3, <3>4, <3>5 DEF IInv
  <2> QED
    BY <2>1, EntryWalkKeeps, EntryDoneKeeps, CollectEdgesKeeps, TakeEdgeKeeps, WalkKeeps,
       WalkDoneKeeps, FinishKeeps DEF Next
<1> QED
  BY <1>1, InitIInv, PTL DEF Spec

-----------------------------------------------------------------------------
(***************************************************************************)
(* The properties.                                                           *)
(***************************************************************************)
LEMMA GraphOfWrappers ==
    ASSUME IInv
    PROVE  /\ DOMAIN cdg.links \subseteq Wrappers
           /\ \A w \in DOMAIN cdg.links : cdg.links[w] \in Seq([to : Wrappers, type : Types])
           /\ \A w, v, t : <<w, v, t>> \in LinksOf(cdg) <=> Link(v, t) \in LinksFrom(w)
           /\ \A w : \A k \in LinksFrom(w) : k = Link(k.to, k.type)
<1>1. IsGraph(cdg, Wrappers, Types)
  BY DEF IInv, DataOK
<1>2. ToSet(cdg.nodes) \subseteq Wrappers
  <2>1. PICK q : q = cdg.nodes /\ q \in Seq(Wrappers)
    BY <1>1 DEF IsGraph
  <2>2. DOMAIN q = 1..Len(q)
    BY <2>1
  <2> QED
    BY <2>1, <2>2 DEF ToSet
<1>3. DOMAIN cdg.links \subseteq Wrappers
  BY <1>1, <1>2 DEF IsGraph
<1>4. LinkSet(cdg, Types) \subseteq [to : Wrappers, type : Types]
  BY <1>3 DEF LinkSet
<1>5. \A w \in DOMAIN cdg.links : cdg.links[w] \in Seq(LinkSet(cdg, Types))
  BY <1>1 DEF IsGraph
<1>6. \A w \in DOMAIN cdg.links : cdg.links[w] \in Seq([to : Wrappers, type : Types])
  BY <1>4, <1>5, SeqMonotonic
<1>7. ASSUME NEW w, NEW k \in LinksFrom(w)
      PROVE  w \in DOMAIN cdg.links /\ k \in ToSet(cdg.links[w]) /\ k = Link(k.to, k.type)
  <2>1. w \in DOMAIN cdg.links /\ k \in ToSet(cdg.links[w])
    BY <1>7 DEF LinksFrom
  <2>2. PICK q : q = cdg.links[w] /\ q \in Seq(LinkSet(cdg, Types))
    BY <1>5, <2>1
  <2>3. DOMAIN q = 1..Len(q)
    BY <2>2
  <2>4. k \in LinkSet(cdg, Types)
    BY <2>1, <2>2, <2>3 DEF ToSet
  <2> QED
    BY <2>1, <2>4 DEF LinkSet, Link
<1>8. ASSUME NEW w, NEW v, NEW t
      PROVE  <<w, v, t>> \in LinksOf(cdg) <=> Link(v, t) \in LinksFrom(w)
  <2>1. ASSUME <<w, v, t>> \in LinksOf(cdg) PROVE Link(v, t) \in LinksFrom(w)
    <3>1. PICK k \in ToSet(cdg.links[w]) : w \in DOMAIN cdg.links /\ k.to = v /\ k.type = t
      BY <2>1 DEF LinksOf
    <3>2. k \in LinksFrom(w)
      BY <3>1 DEF LinksFrom
    <3> QED
      BY <1>7, <3>1, <3>2
  <2>2. ASSUME Link(v, t) \in LinksFrom(w) PROVE <<w, v, t>> \in LinksOf(cdg)
    <3>1. PICK k : k = Link(v, t) /\ k \in ToSet(cdg.links[w]) /\ w \in DOMAIN cdg.links
      BY <1>7, <2>2
    <3>2. k.to = v /\ k.type = t
      BY <3>1 DEF Link
    <3> QED
      BY <3>1, <3>2 DEF LinksOf
  <2> QED
    BY <2>1, <2>2
<1> QED
  BY <1>3, <1>6, <1>7, <1>8

\* The walks stay among the nodes of the tree and the wrappers of the function, and
\* link them by the four control types (lines 62 to 158).
THEOREM TypeInvariant == Spec => []TypeOK
<1>1. IInv => TypeOK
  <2> SUFFICES ASSUME IInv PROVE TypeOK
    OBVIOUS
  <2>1. WalkOK /\ edgeSet \in Seq(Blocks(func) \X Blocks(func))
    BY DEF IInv, DataOK
  <2>2. Types = {"CONTROL", "TRUE", "FALSE", "OTHER"}
    BY DEF Types
  <2> QED
    BY <2>1, <2>2, GraphOfWrappers DEF TypeOK, WalkOK
<1> QED
  BY <1>1, Invariance, PTL

\* No walk leaves the tree: above an edge's target the block or the root at which
\* it ends is met before the null node or the null block that getBlock would be
\* asked for (lines 120 to 156).
WalkInTree == pc = "walk" => node = stop \/ HasBlock
THEOREM WalksStayInTree == Spec => []WalkInTree
<1>1. IInv => WalkInTree
  <2> SUFFICES ASSUME IInv, pc = "walk", node # stop PROVE HasBlock
    BY DEF WalkInTree
  <2>1. DataOK /\ WalkOK
    BY DEF IInv
  <2>2. /\ node \in DOMAIN tree \union {NoTreeNode} /\ stop \in Higher(func, node)
        /\ edge[2] \in Exiting(func) /\ node \in Higher(func, edge[2])
    BY <2>1 DEF WalkOK
  <2>3. edge[2] \in DOMAIN tree
    BY <2>1, <2>2, TreeNodes
  <2>4. node \in DOMAIN tree /\ node # NoTreeNode
    BY <2>1, <2>2, <2>3, HigherNodes, TreeNodes
  <2>5. node # NoBlock
    BY <2>1, <2>2, TreeNodes DEF Higher
  <2> QED
    BY <2>4, <2>5 DEF HasBlock
<1> QED
  BY <1>1, Invariance, PTL

\* What the instructions of a block are.
LEMMA InstructionsOf ==
    ASSUME NEW b, func.size[b] \in Nat
    PROVE  ToSet(Instructions(b)) = {<<b, i>> : i \in 1..func.size[b]}
  BY DEF Instructions, ToSet

\* When the pass ends exactly the blocks that no complete run avoids depend on the
\* ENTRY wrapper (lines 83 to 93).
THEOREM EntryLinksAreRight == Spec => []EntryControlsUnavoidable
<1>1. IInv => EntryControlsUnavoidable
  <2> SUFFICES ASSUME IInv, pc = "done" PROVE EntryControlsUnavoidable
    BY DEF EntryControlsUnavoidable
  <2> DEFINE unavoidable == {c \in Blocks(func) : PostDominates(func, c, EntryBlock(func))}
             wanted == {Link(v, "CONTROL") : v \in
                           UNION {ToSet(Instructions(b)) : b \in unavoidable}}
  <2>1. DataOK /\ LinksSound /\ EntriesComplete /\ IsFlowGraph(func)
    BY DEF IInv, DataOK
  <2>2. \A b \in Blocks(func) : ToSet(Instructions(b)) = {<<b, i>> : i \in 1..func.size[b]}
    BY <2>1, WrapperFacts, InstructionsOf
  <2>3. ASSUME NEW k \in LinksFrom(Root) PROVE k \in wanted
    <3>1. k = Link(k.to, k.type) /\ <<Root, k.to, k.type>> \in LinksOf(cdg)
      BY <2>3, GraphOfWrappers
    <3>2. ASSUME NEW e \in FlowEdges(func), NEW c, <<Root, k.to, k.type>> \in EdgeLinks(e, c)
          PROVE  FALSE
      <4>1. e[1] \in Blocks(func)
        BY <2>1, FlowGraphFacts
      <4>2. Root = Terminator(e[1])
        BY <3>2 DEF EdgeLinks
      <4> QED
        BY <2>1, <4>1, <4>2, WrapperFacts
    <3>3. PICK c \in unavoidable : <<Root, k.to, k.type>> \in EntryLinks(c)
      BY <2>1, <3>1, <3>2 DEF LinksSound
    <3>4. k.to \in ToSet(Instructions(c)) /\ k.type = "CONTROL"
      BY <2>2, <3>3 DEF EntryLinks
    <3>5. k.to \in UNION {ToSet(Instructions(b)) : b \in unavoidable}
      BY <3>3, <3>4
    <3> QED
      BY <3>1, <3>4, <3>5
  <2>4. ASSUME NEW k \in wanted PROVE k \in LinksFrom(Root)
    <3>1. PICK b \in unavoidable : \E v \in ToSet(Instructions(b)) : k = Link(v, "CONTROL")
      OBVIOUS
    <3>2. PICK i \in 1..func.size[b] : k = Link(<<b, i>>, "CONTROL")
      BY <2>2, <3>1
    <3>3. EntryLinks(b) \subseteq LinksOf(cdg)
      BY <2>1 DEF EntriesComplete
    <3>4. <<Root, <<b, i>>, "CONTROL">> \in LinksOf(cdg)
      BY <3>2, <3>3 DEF EntryLinks
    <3> QED
      BY <3>2, <3>4, GraphOfWrappers
  <2>5. LinksFrom(Root) = wanted
    <3> HIDE DEF wanted
    <3> QED
      BY <2>3, <2>4
  <2> QED
    BY <2>5 DEF EntryControlsUnavoidable
<1> QED
  BY <1>1, Invariance, PTL

\* A link from a terminator is there exactly if the definition asks for it.
LEMMA EdgeLinksExact ==
    ASSUME IInv, pc = "done", NEW a \in Blocks(func), NEW b \in Blocks(func),
           NEW i \in 1..func.size[b], NEW t
    PROVE  <<Terminator(a), <<b, i>>, t>> \in LinksOf(cdg)
              <=> \E s \in Successors(func, a) :
                     /\ PostDominates(func, b, s) /\ ~PostDominates(func, b, a)
                     /\ t = DependenceType(a, s)
<1>1. DataOK /\ LinksSound /\ EdgesComplete /\ edgeSet = <<>> /\ IsFlowGraph(func)
  BY DEF IInv, DataOK, DoneOK
<1>2. \A e \in FlowEdges(func) :
        e[1] \in Blocks(func) /\ e[2] \in Successors(func, e[1]) /\ e = <<e[1], e[2]>>
  BY <1>1, FlowGraphFacts
<1>3. ASSUME <<Terminator(a), <<b, i>>, t>> \in LinksOf(cdg)
      PROVE  \E s \in Successors(func, a) :
                /\ PostDominates(func, b, s) /\ ~PostDominates(func, b, a)
                /\ t = DependenceType(a, s)
  <2>1. ASSUME NEW c \in Blocks(func), <<Terminator(a), <<b, i>>, t>> \in EntryLinks(c)
        PROVE  FALSE
    BY <1>1, <2>1, WrapperFacts DEF EntryLinks
  <2>2. PICK e \in FlowEdges(func) : \E c \in Between(e) :
            <<Terminator(a), <<b, i>>, t>> \in EdgeLinks(e, c)
    BY <1>1, <1>3, <2>1 DEF LinksSound
  <2>3. /\ Terminator(a) = Terminator(e[1]) /\ b \in Between(e)
        /\ t = DependenceType(e[1], e[2])
    BY <2>2 DEF EdgeLinks
  <2>4. a = e[1]
    BY <2>3 DEF Terminator
  <2>5. PostDominates(func, b, e[2]) /\ ~PostDominates(func, b, a)
    BY <2>3, <2>4 DEF Between
  <2> QED
    BY <1>2, <2>3, <2>4, <2>5
<1>4. ASSUME NEW s \in Successors(func, a),
             PostDominates(func, b, s), ~PostDominates(func, b, a), t = DependenceType(a, s)
      PROVE  <<Terminator(a), <<b, i>>, t>> \in LinksOf(cdg)
  <2>1. PICK e \in FlowEdges(func) : e = <<a, s>>
    BY <1>1, <1>4, FlowGraphFacts
  <2>2. b \in Between(e)
    BY <1>4, <2>1 DEF Between
  <2>3. e \notin ToSet(edgeSet)
    BY <1>1 DEF ToSet
  <2>4. EdgeLinks(e, b) \subseteq LinksOf(cdg)
    BY <1>1, <2>2, <2>3 DEF EdgesComplete
  <2>5. <<Terminator(a), <<b, i>>, t>> \in EdgeLinks(e, b)
    BY <1>4, <2>1 DEF EdgeLinks
  <2> QED
    BY <2>4, <2>5
<1> QED
  BY <1>3, <1>4

\* The types the walks give are those of the definition: where a dependence is
\* found the two successors of a branch differ.
LEMMA TypesOfDefinition ==
    ASSUME IsFlowGraph(func), NEW a \in Blocks(func), NEW b \in Blocks(func)
    PROVE  DefinedTypes(a, b) =
              {DependenceType(a, s) : s \in {x \in Successors(func, a) :
                  PostDominates(func, b, x) /\ ~PostDominates(func, b, a)}}
<1> DEFINE hits == {j \in DOMAIN func.succ[a] : /\ PostDominates(func, b, func.succ[a][j])
                                                /\ ~PostDominates(func, b, a)}
           type(j) == IF a \notin func.branches THEN "OTHER" ELSE <<"TRUE", "FALSE">>[j]
<1>1. DefinedTypes(a, b) = {type(j) : j \in hits}
  BY DEF DefinedTypes
<1>2. Successors(func, a) = {func.succ[a][j] : j \in DOMAIN func.succ[a]}
  BY DEF Successors, ToSet
<1>3. ASSUME NEW j \in hits PROVE type(j) = DependenceType(a, func.succ[a][j])
  <2>1. CASE a \notin func.branches
    BY <2>1 DEF DependenceType
  <2>2. CASE a \in func.branches
    <3>1. PICK q : q = func.succ[a] /\ q \in Seq(Blocks(func) \ {EntryBlock(func)}) /\ Len(q) = 2
      BY <2>2 DEF IsFlowGraph
    <3>2. DOMAIN q = {1, 2}
      BY <3>1
    <3>3. q[j] \in Successors(func, a)
      BY <1>2, <3>1
    <3>4. PICK t \in Successors(func, a) : t # q[j]
      BY <3>1, <3>3, ControlledByBranch
    <3>5. t = q[1] \/ t = q[2]
      BY <1>2, <3>1, <3>2
    <3>6. j = 1 \/ (j = 2 /\ q[1] # q[2])
      BY <3>1, <3>2, <3>4, <3>5
    <3> QED
      BY <2>2, <3>1, <3>6 DEF DependenceType
  <2> QED
    BY <2>1, <2>2
<1>4. {type(j) : j \in hits} = {DependenceType(a, func.succ[a][j]) : j \in hits}
  <2> HIDE DEF hits, type
  <2> QED
    BY <1>3
<1> QED
  BY <1>1, <1>2, <1>4

\* When the pass ends the graph holds the control dependences of the definition
\* over paths, with every type and for every instruction (lines 97 to 156).
THEOREM ControlDependencesAreDefined == Spec => []MatchesDefinition
<1>1. IInv => MatchesDefinition
  <2> SUFFICES ASSUME IInv, pc = "done", NEW a \in Blocks(func), NEW b \in Blocks(func),
                      NEW v \in ToSet(Instructions(b))
               PROVE  TypesOfLinks(Terminator(a), v) = DefinedTypes(a, b)
    BY DEF MatchesDefinition
  <2>1. IsFlowGraph(func)
    BY DEF IInv, DataOK
  <2>2. PICK i \in 1..func.size[b] : v = <<b, i>>
    BY <2>1, WrapperFacts, InstructionsOf
  <2>3. \A t : t \in TypesOfLinks(Terminator(a), v)
                 <=> Link(v, t) \in LinksFrom(Terminator(a))
    <3> TAKE t
    <3>1. ASSUME t \in TypesOfLinks(Terminator(a), v)
          PROVE  Link(v, t) \in LinksFrom(Terminator(a))
      <4>1. PICK k \in LinksFrom(Terminator(a)) : k.to = v /\ k.type = t
        BY <3>1 DEF TypesOfLinks
      <4> QED
        BY <4>1, GraphOfWrappers
    <3>2. ASSUME Link(v, t) \in LinksFrom(Terminator(a))
          PROVE  t \in TypesOfLinks(Terminator(a), v)
      <4>1. PICK k \in LinksFrom(Terminator(a)) : k = Link(v, t)
        BY <3>2
      <4>2. k.to = v /\ k.type = t
        BY <4>1 DEF Link
      <4> QED
        BY <4>1, <4>2 DEF TypesOfLinks
    <3> QED
      BY <3>1, <3>2
  <2>4. \A t : Link(v, t) \in LinksFrom(Terminator(a))
                 <=> <<Terminator(a), <<b, i>>, t>> \in LinksOf(cdg)
    BY <2>2, GraphOfWrappers
  <2>5. \A t : <<Terminator(a), <<b, i>>, t>> \in LinksOf(cdg) <=> t \in DefinedTypes(a, b)
    <3> TAKE t
    <3>1. <<Terminator(a), <<b, i>>, t>> \in LinksOf(cdg)
              <=> \E s \in Successors(func, a) :
                     /\ PostDominates(func, b, s) /\ ~PostDominates(func, b, a)
                     /\ t = DependenceType(a, s)
      BY EdgeLinksExact
    <3>2. t \in DefinedTypes(a, b)
              <=> \E s \in Successors(func, a) :
                     /\ PostDominates(func, b, s) /\ ~PostDominates(func, b, a)
                     /\ t = DependenceType(a, s)
      BY <2>1, TypesOfDefinition
    <3> QED
      BY <3>1, <3>2
  <2> QED
    BY <2>3, <2>4, <2>5
<1> QED
  BY <1>1, Invariance, PTL

\* When the pass ends every reachable block that can reach an exit hangs, through
\* a chain of dependences, below the ENTRY wrapper (lines 90 and 153).
THEOREM NothingOrphaned == Spec => []NoOrphans
<1>1. IInv => NoOrphans
  <2> SUFFICES ASSUME IInv, pc = "done" PROVE Reachable \intersect Exiting(func) \subseteq Governed
    BY DEF NoOrphans
  <2> DEFINE steps == UNION {{b} \X Targets(Terminator(b)) : b \in Blocks(func)}
             S == {b \in Blocks(func) : b \in Exiting(func) =>
                      \A c : PostDominates(func, c, b) => c \in Governed}
  <2>1. DataOK /\ EntriesComplete /\ IsFlowGraph(func)
    BY DEF IInv, DataOK
  <2>2. /\ EntryBlock(func) \in Blocks(func)
        /\ \A c, b : PostDominates(func, c, b) => c \in Blocks(func) /\ c \in Exiting(func)
        /\ \A b \in Blocks(func) : 1 \in 1..func.size[b]
    <3>1. \A c, b : PostDominates(func, c, b) => c \in Blocks(func) /\ c \in Exiting(func)
      BY <2>1, PostDominatesTypes
    <3>2. \A b \in Blocks(func) : 1 \in 1..func.size[b]
      BY <2>1, WrapperFacts
    <3> QED
      BY <2>1, <3>1, <3>2, FlowGraphFacts
  <2>3. /\ Targets(Root) \intersect Blocks(func) \subseteq Governed
        /\ \A b \in Governed : \A c \in Targets(Terminator(b)) : c \in Blocks(func) => c \in Governed
    <3>1. Governed = Reached(Blocks(func), Targets(Root), steps)
      BY DEF Governed
    <3>2. /\ Governed \subseteq Blocks(func)
          /\ Targets(Root) \intersect Blocks(func) \subseteq Governed
          /\ \A s \in steps : s[1] \in Governed /\ s[2] \in Blocks(func) => s[2] \in Governed
      <4> HIDE DEF steps
      <4> QED
        BY <3>1, ReachedCloses
    <3>3. ASSUME NEW b \in Governed, NEW c \in Targets(Terminator(b)), c \in Blocks(func)
          PROVE  c \in Governed
      <4>1. b \in Blocks(func)
        BY <3>2
      <4>2. <<b, c>> \in steps
        BY <3>3, <4>1
      <4> HIDE DEF steps
      <4> QED
        BY <3>2, <3>3, <4>2
    <3> QED
      BY <3>2, <3>3
  <2>4. \A w, c, t : <<w, <<c, 1>>, t>> \in LinksOf(cdg) => c \in Targets(w)
    <3> TAKE w, c, t
    <3> SUFFICES ASSUME <<w, <<c, 1>>, t>> \in LinksOf(cdg) PROVE c \in Targets(w)
      OBVIOUS
    <3>1. PICK k \in LinksFrom(w) : k = Link(<<c, 1>>, t)
      BY GraphOfWrappers
    <3>2. k.to = <<c, 1>>
      BY <3>1 DEF Link
    <3> QED
      BY <3>1, <3>2 DEF Targets
  <2>5. EntryBlock(func) \in S
    <3> SUFFICES ASSUME NEW c, PostDominates(func, c, EntryBlock(func)) PROVE c \in Governed
      BY <2>2
    <3>1. c \in Blocks(func)
      BY <2>2
    <3>2. EntryLinks(c) \subseteq LinksOf(cdg)
      BY <2>1, <3>1 DEF EntriesComplete
    <3>3. <<Root, <<c, 1>>, "CONTROL">> \in LinksOf(cdg)
      BY <2>2, <3>1, <3>2 DEF EntryLinks
    <3> QED
      BY <2>3, <2>4, <3>1, <3>3
  <2>6. ASSUME NEW e \in FlowEdges(func), e[1] \in S, e[2] \in Blocks(func)
        PROVE  e[2] \in S
    <3> SUFFICES ASSUME e[2] \in Exiting(func), NEW c, PostDominates(func, c, e[2])
                 PROVE  c \in Governed
      BY <2>6
    <3>0. PICK a \in Blocks(func) : \E s \in Successors(func, a) : e = <<a, s>>
      BY <2>1, FlowGraphFacts
    <3>1. PICK s \in Successors(func, a) : e = <<a, s>>
      BY <3>0
    <3>2. c \in Blocks(func) /\ a # NoBlock /\ a \in S
      BY <2>1, <2>2, <2>6, <3>1, PostDominatesTypes
    <3>3. a \in Exiting(func)
      BY <2>1, <3>1, <3>2, EscapingFacts DEF Exiting
    <3>4. CASE PostDominates(func, c, a)
      BY <3>2, <3>3, <3>4
    <3>5. CASE ~PostDominates(func, c, a)
      <4>1. a \in Governed
        <5>1. PostDominates(func, a, a)
          BY <2>1, <3>3, PostDominatesTypes
        <5> QED
          BY <3>2, <3>3, <5>1
      <4>2. PostDominates(func, c, s)
        BY <3>1
      <4>3. <<Terminator(a), <<c, 1>>, DependenceType(a, s)>> \in LinksOf(cdg)
        BY <2>2, <3>1, <3>2, <3>5, <4>2, EdgeLinksExact
      <4>4. c \in Targets(Terminator(a))
        BY <2>4, <4>3
      <4> QED
        BY <2>3, <3>2, <4>1, <4>4
    <3> QED
      BY <3>4, <3>5
  <2> HIDE DEF S
  <2>7. Reached(Blocks(func), {EntryBlock(func)}, FlowEdges(func)) \subseteq S
    BY <2>5, <2>6, ReachedIsLeast
  <2>8. ASSUME NEW x \in Reachable, x \in Exiting(func) PROVE x \in Governed
    <3>1. x \in S
      BY <2>7 DEF Reachable
    <3>2. PostDominates(func, x, x)
      BY <2>1, <2>8, PostDominatesTypes
    <3> QED
      BY <2>8, <3>1, <3>2 DEF S
  <2> QED
    BY <2>8
<1> QED
  BY <1>1, Invariance, PTL
=============================================================================
