------------------------ MODULE ParameterTreesProofs ------------------------
(***************************************************************************)
(* Proofs about the parameter trees, for any types, any programs over them    *)
(* and any bound on the wrappers.  First the linked tree and its iterator:    *)
(* what shape it has, in which order the iterator meets its nodes, and what   *)
(* appending a node or copying the tree does to both.  Then the invariant,    *)
(* IInv, with a lemma for every step: while the fields of an argument are put *)
(* into a tree it tells which node each activation of buildFormalTypeTree is  *)
(* at, of a finished tree that it unfolds the argument's type, and of every   *)
(* copy that its nodes stand for those of the tree it was copied from.        *)
(***************************************************************************)
EXTENDS ParameterTrees, FiniteSetTheorems, SequenceTheorems, TLAPS

(***************************************************************************)
(* Induction over an interval, by a least counterexample.                    *)
(***************************************************************************)
LEMMA LeastNumber ==
    ASSUME NEW T, T \subseteq Nat, T # {}
    PROVE  \E m \in T : \A n \in T : m <= n
<1>1. IsWellFoundedOn(OpToRel(<, Nat), Nat)
  BY NatLessThanWellFounded
<1>2. PICK m \in T : \A n \in T : ~ (<<n, m>> \in OpToRel(<, Nat))
  BY <1>1, WFMin, Zenon
<1>3. \A n \in Nat : n < m => <<n, m>> \in OpToRel(<, Nat)
  BY DEF OpToRel
<1>4. \A n \in T : ~ (n < m)
  BY <1>2, <1>3, Zenon
<1>5. m \in Nat /\ \A n \in T : m <= n
  BY <1>4
<1> QED BY <1>5

LEMMA Upwards ==
    ASSUME NEW N \in Nat, NEW S,
           \A k \in 1..N : (\A j \in 1..N : j < k => j \in S) => k \in S
    PROVE  1..N \subseteq S
<1> DEFINE T == {k \in 1..N : k \notin S}
<1>1. ASSUME T # {} PROVE FALSE
  <2>1. T \subseteq Nat
    OBVIOUS
  <2>2. PICK k \in T : \A j \in T : k <= j
    BY <1>1, <2>1, LeastNumber
  <2> QED
    BY <2>2
<1> QED
  BY <1>1

LEMMA Downwards ==
    ASSUME NEW N \in Nat, NEW S,
           \A k \in 1..N : (\A j \in 1..N : k < j => j \in S) => k \in S
    PROVE  1..N \subseteq S
<1> DEFINE T == {k \in 1..N : N + 1 - k \notin S}
<1>1. ASSUME T # {} PROVE FALSE
  <2>1. T \subseteq Nat
    OBVIOUS
  <2>2. PICK k \in T : \A j \in T : k <= j
    BY <1>1, <2>1, LeastNumber
  <2>3. N + 1 - k \in 1..N /\ N + 1 - k \notin S
    BY <2>2
  <2>4. ASSUME NEW j \in 1..N, N + 1 - k < j PROVE j \in S
    <3>1. N + 1 - j \in 1..N /\ N + 1 - j < k /\ N + 1 - (N + 1 - j) = j
      BY <2>2, <2>4
    <3> QED
      BY <2>2, <3>1
  <2> QED
    BY <2>3, <2>4
<1>2. ASSUME NEW j \in 1..N PROVE j \in S
  <2>1. PICK i \in 1..N : i = N + 1 - j
    OBVIOUS
  <2>2. N + 1 - i = j
    BY <2>1
  <2>3. N + 1 - i \in S
    BY <1>1
  <2> QED
    BY <2>2, <2>3
<1> QED
  BY <1>2

-----------------------------------------------------------------------------
(***************************************************************************)
(* The shape of a tree with the nodes 1 to N, of which 1 is the root: a      *)
(* parent and an elder sibling have smaller numbers.                         *)
(***************************************************************************)
EndsOK(t) ==
    /\ t[HeadNode].parent = NoNode /\ t[HeadNode].first = NoNode
    /\ t[HeadNode].last = NoNode /\ t[HeadNode].prev = NoNode /\ t[HeadNode].next = 1
    /\ t[FeetNode].parent = NoNode /\ t[FeetNode].first = NoNode
    /\ t[FeetNode].last = NoNode /\ t[FeetNode].prev = 1 /\ t[FeetNode].next = NoNode
    /\ t[1].parent = NoNode /\ t[1].prev = HeadNode /\ t[1].next = FeetNode

SiblingsOK(t, N, n) ==
    /\ t[n].parent \in 1..N /\ t[n].parent < n
    /\ t[n].next = NoNode => t[t[n].parent].last = n
    /\ t[n].next # NoNode =>
          /\ t[n].next \in 1..N /\ n < t[n].next
          /\ t[t[n].next].prev = n /\ t[t[n].next].parent = t[n].parent
    /\ t[n].prev = NoNode => t[t[n].parent].first = n
    /\ t[n].prev # NoNode =>
          /\ t[n].prev \in 1..N /\ t[n].prev < n
          /\ t[t[n].prev].next = n /\ t[t[n].prev].parent = t[n].parent

ChildrenOK(t, N, n) ==
    /\ t[n].first = NoNode <=> t[n].last = NoNode
    /\ t[n].first # NoNode =>
          /\ t[n].first \in 1..N /\ n < t[n].first
          /\ t[t[n].first].parent = n /\ t[t[n].first].prev = NoNode
    /\ t[n].last # NoNode =>
          /\ t[n].last \in 1..N /\ n < t[n].last
          /\ t[t[n].last].parent = n /\ t[t[n].last].next = NoNode

IsNode(r) ==
    r = [parent |-> r.parent, first |-> r.first, last |-> r.last,
         prev |-> r.prev, next |-> r.next, data |-> r.data]

Shape(t, N) ==
    /\ N \in Nat \ {0}
    /\ DOMAIN t = Sentinels \union 1..N
    /\ \A n \in DOMAIN t : IsNode(t[n])
    /\ EndsOK(t)
    /\ \A n \in 1..N : ChildrenOK(t, N, n)
    /\ \A n \in 2..N : SiblingsOK(t, N, n)

\* Pointers are no numbers, so the nodes and the pointers are told apart.
LEMMA Pointers ==
    ASSUME NEW N \in Nat
    PROVE  /\ HeadNode \notin 1..N /\ FeetNode \notin 1..N /\ NoNode \notin 1..N
           /\ HeadNode # FeetNode /\ NoNode # HeadNode /\ NoNode # FeetNode
           /\ NoNode \notin Sentinels /\ Sentinels \intersect 1..N = {}
           /\ HeadNode \in Sentinels /\ FeetNode \in Sentinels
<1>1. HeadNode \notin Nat /\ FeetNode \notin Nat /\ NoNode \notin Nat
  BY PointersAssumption
<1>2. 1..N \subseteq Nat
  OBVIOUS
<1> QED
  BY <1>1, <1>2, PointersAssumption DEF Sentinels

LEMMA ShapeFacts ==
    ASSUME NEW t, NEW N, Shape(t, N)
    PROVE  /\ N \in Nat /\ N >= 1 /\ Members(t) = 1..N /\ 1 \in 1..N
           /\ Begin(t) = 1 /\ ~IsEmpty(t) /\ Fresh(t) = N + 1
<1>1. N \in Nat /\ N >= 1
  BY DEF Shape
<1>2. Members(t) = 1..N
  BY <1>1, Pointers DEF Shape, Members
<1>3. Cardinality(1..N) = N
  BY <1>1, FS_Interval
<1> QED
  BY <1>1, <1>2, <1>3, Pointers DEF Shape, EndsOK, Begin, IsEmpty, Fresh

\* What append_child changes.
Appended(t, N, loc, data, u) ==
    /\ DOMAIN u = DOMAIN t \union {N + 1}
    /\ u[N + 1] = Node(loc, t[loc].last, NoNode, data)
    /\ \A m \in DOMAIN t :
          /\ IsNode(u[m])
          /\ u[m].parent = t[m].parent /\ u[m].prev = t[m].prev /\ u[m].data = t[m].data
          /\ u[m].next = IF m = t[loc].last THEN N + 1 ELSE t[m].next
          /\ u[m].last = IF m = loc THEN N + 1 ELSE t[m].last
          /\ u[m].first = IF m = loc /\ t[loc].last = NoNode THEN N + 1 ELSE t[m].first

LEMMA AppendFields ==
    ASSUME NEW t, NEW N, Shape(t, N), NEW loc \in 1..N, NEW data
    PROVE  Appended(t, N, loc, data, AppendChild(t, loc, data))
<1> DEFINE u == AppendChild(t, loc, data)
<1>1. N \in Nat /\ Fresh(t) = N + 1 /\ N + 1 \notin DOMAIN t /\ loc \in DOMAIN t
  <2>1. N + 1 \notin 1..N /\ N + 1 \notin Sentinels
    <3>1. N \in Nat /\ N + 1 \in Nat
      BY ShapeFacts
    <3> QED
      BY <3>1, PointersAssumption DEF Sentinels
  <2> QED
    BY <2>1, ShapeFacts DEF Shape
<1>2. u = [m \in DOMAIN t \union {N + 1} |->
            IF m = N + 1 THEN Node(loc, t[loc].last, NoNode, data)
            ELSE IF m = loc
            THEN [t[m] EXCEPT !.first = IF t[loc].last = NoNode THEN N + 1 ELSE @,
                              !.last = N + 1]
            ELSE IF m = t[loc].last THEN [t[m] EXCEPT !.next = N + 1]
            ELSE t[m]]
  BY <1>1 DEF AppendChild
<1>3. t[loc].last # loc
  BY Pointers, ShapeFacts DEF Shape, ChildrenOK
<1> HIDE DEF u
<1>4. ASSUME NEW m \in DOMAIN t
      PROVE  /\ IsNode(u[m])
             /\ u[m].parent = t[m].parent /\ u[m].prev = t[m].prev /\ u[m].data = t[m].data
             /\ u[m].next = IF m = t[loc].last THEN N + 1 ELSE t[m].next
             /\ u[m].last = IF m = loc THEN N + 1 ELSE t[m].last
             /\ u[m].first = IF m = loc /\ t[loc].last = NoNode THEN N + 1 ELSE t[m].first
  <2>1. m # N + 1
    BY <1>1
  <2>2. PICK r : r = t[m] /\ IsNode(r)
    BY DEF Shape
  <2>3. CASE m = loc
    <3>1. u[m] = [r EXCEPT !.first = IF t[loc].last = NoNode THEN N + 1 ELSE @,
                           !.last = N + 1]
      BY <1>2, <2>1, <2>2, <2>3
    <3> QED
      BY <1>3, <2>2, <2>3, <3>1 DEF IsNode
  <2>4. CASE m # loc /\ m = t[loc].last
    <3>1. u[m] = [r EXCEPT !.next = N + 1]
      BY <1>2, <2>1, <2>2, <2>4
    <3> QED
      BY <2>2, <2>4, <3>1 DEF IsNode
  <2>5. CASE m # loc /\ m # t[loc].last
    BY <1>2, <2>1, <2>2, <2>5
  <2> QED
    BY <2>3, <2>4, <2>5
<1> QED
  BY <1>1, <1>2, <1>4 DEF Appended, u

LEMMA AppendShape ==
    ASSUME NEW t, NEW N, Shape(t, N), NEW loc \in 1..N, NEW data,
           NEW u, Appended(t, N, loc, data, u)
    PROVE  Shape(u, N + 1)
<1> DEFINE last == t[loc].last
<1>1. /\ N \in Nat /\ N >= 1 /\ 1..N \subseteq DOMAIN t /\ Sentinels \subseteq DOMAIN t
      /\ 1..N + 1 = 1..N \union {N + 1} /\ N + 1 \notin 1..N
      /\ 2..N + 1 = 2..N \union {N + 1} /\ 2..N \subseteq 1..N
  BY ShapeFacts DEF Shape
<1>2. /\ last # NoNode => last \in 1..N /\ loc < last /\ t[last].parent = loc /\ t[last].next = NoNode
      /\ last \notin Sentinels /\ last # 1
  BY <1>1, Pointers DEF Shape, ChildrenOK, EndsOK
<1>3. /\ u[N + 1].parent = loc /\ u[N + 1].prev = last /\ u[N + 1].next = NoNode
      /\ u[N + 1].first = NoNode /\ u[N + 1].last = NoNode /\ IsNode(u[N + 1])
  BY DEF Appended, Node, IsNode
<1>4. DOMAIN u = Sentinels \union 1..N + 1
  BY <1>1 DEF Appended, Shape
<1>5. \A n \in DOMAIN u : IsNode(u[n])
  BY <1>1, <1>3, <1>4 DEF Appended, Shape
<1>6. EndsOK(u)
  <2>1. HeadNode \in DOMAIN t /\ FeetNode \in DOMAIN t /\ 1 \in DOMAIN t
    BY <1>1, Pointers
  <2>2. HeadNode # loc /\ FeetNode # loc
    BY <1>1, Pointers
  <2> QED
    BY <1>1, <1>2, <2>1, <2>2, Pointers DEF Appended, Shape, EndsOK
<1>7. ASSUME NEW n \in 1..N PROVE ChildrenOK(u, N + 1, n)
  <2>1. ChildrenOK(t, N, n) /\ ChildrenOK(t, N, loc)
    BY DEF Shape
  <2>2. CASE n = loc
    BY <1>1, <1>2, <1>3, <2>1, <2>2, Pointers DEF Appended, ChildrenOK
  <2>3. CASE n # loc
    BY <1>1, <1>2, <1>3, <2>1, <2>3, Pointers DEF Appended, ChildrenOK
  <2> QED
    BY <2>2, <2>3
<1>8. ASSUME NEW n \in 2..N PROVE SiblingsOK(u, N + 1, n)
  <2>1. SiblingsOK(t, N, n) /\ ChildrenOK(t, N, loc) /\ n \in 1..N /\ n # NoNode
    BY <1>1, Pointers DEF Shape
  <2>2. CASE n = last
    BY <1>1, <1>2, <1>3, <2>1, <2>2, Pointers DEF Appended, SiblingsOK, ChildrenOK
  <2>3. CASE n # last
    BY <1>1, <1>2, <1>3, <2>1, <2>3, Pointers DEF Appended, SiblingsOK, ChildrenOK
  <2> QED
    BY <2>2, <2>3
<1>9. ChildrenOK(u, N + 1, N + 1)
  BY <1>3 DEF ChildrenOK
<1>10. SiblingsOK(u, N + 1, N + 1)
  <2>1. ChildrenOK(t, N, loc)
    BY DEF Shape
  <2> QED
    BY <1>1, <1>2, <1>3, <2>1, Pointers DEF Appended, SiblingsOK, ChildrenOK
<1> QED
  BY <1>1, <1>4, <1>5, <1>6, <1>7, <1>8, <1>9, <1>10 DEF Shape

-----------------------------------------------------------------------------
(***************************************************************************)
(* The recursive walks are well defined: each goes on where a rank is lower. *)
(***************************************************************************)
Ranked(D, V, K, r, p, b, F) ==
    /\ K \in Nat /\ r \in [D -> 0..K] /\ b \in [D -> V] /\ F \in [D \X V -> V]
    /\ \A m \in D : p[m] \in D => r[p[m]] < r[m]

Solves(D, V, p, b, F, g) ==
    /\ g \in [D -> V]
    /\ \A m \in D : g[m] = IF p[m] \in D THEN F[<<m, g[p[m]]>>] ELSE b[m]

LEMMA Recursion ==
    ASSUME NEW D, NEW V, NEW K, NEW r, NEW p, NEW b, NEW F, Ranked(D, V, K, r, p, b, F)
    PROVE  \E g : Solves(D, V, p, b, F, g)
<1>0. /\ K \in Nat /\ r \in [D -> 0..K] /\ b \in [D -> V] /\ F \in [D \X V -> V]
      /\ \A m \in D : p[m] \in D => r[p[m]] < r[m]
  BY DEF Ranked
<1> DEFINE Level(k) == {m \in D : r[m] < k}
           Good(k, g) == /\ g \in [Level(k) -> V]
                         /\ \A m \in Level(k) :
                              g[m] = IF p[m] \in D THEN F[<<m, g[p[m]]>>] ELSE b[m]
           T == {k \in Nat : ~ \E g : Good(k, g)}
<1>1. \E g : Good(0, g)
  <2>1. Level(0) = {}
    BY <1>0
  <2>2. [m \in Level(0) |-> b[m]] \in [Level(0) -> V]
    BY <2>1
  <2> QED
    BY <2>1, <2>2
<1>2. ASSUME NEW k \in Nat, NEW g, Good(k, g) PROVE \E h : Good(k + 1, h)
  <2> DEFINE Value(m) == IF p[m] \in D THEN F[<<m, g[p[m]]>>] ELSE b[m]
             h == [m \in Level(k + 1) |-> IF r[m] < k THEN g[m] ELSE Value(m)]
  <2>1. ASSUME NEW m \in Level(k + 1), p[m] \in D
        PROVE  p[m] \in Level(k) /\ p[m] \in Level(k + 1) /\ h[p[m]] = g[p[m]] /\ g[p[m]] \in V
    <3>1. r[p[m]] \in Nat /\ r[m] \in Nat /\ r[p[m]] < r[m] /\ r[m] < k + 1
      BY <1>0, <2>1
    <3>2. r[p[m]] < k /\ r[p[m]] < k + 1
      BY <3>1
    <3>3. p[m] \in Level(k) /\ p[m] \in Level(k + 1)
      BY <2>1, <3>2
    <3> QED
      BY <1>2, <3>2, <3>3
  <2>2. \A m \in Level(k + 1) : Value(m) \in V
    <3> TAKE m \in Level(k + 1)
    <3>1. CASE p[m] \in D
      <4>1. PICK v \in V : v = g[p[m]]
        BY <2>1, <3>1
      <4>2. <<m, v>> \in D \X V
        BY <4>1
      <4>3. F[<<m, v>>] \in V
        BY <1>0, <4>2
      <4> QED
        BY <3>1, <4>1, <4>3
    <3>2. CASE p[m] \notin D
      BY <1>0, <3>2
    <3> QED
      BY <3>1, <3>2
  <2>3. \A m \in Level(k + 1) : r[m] < k => m \in Level(k) /\ g[m] = Value(m)
    BY <1>2
  <2>4. h \in [Level(k + 1) -> V]
    <3> HIDE DEF Value
    <3> QED
      BY <2>2, <2>3
  <2>5. ASSUME NEW m \in Level(k + 1)
        PROVE  h[m] = IF p[m] \in D THEN F[<<m, h[p[m]]>>] ELSE b[m]
    <3>1. h[m] = Value(m)
      BY <2>3
    <3> QED
      BY <2>1, <3>1
  <2> HIDE DEF h, Value
  <2> QED
    BY <2>4, <2>5
<1> HIDE DEF Good
<1>3. ASSUME T # {} PROVE FALSE
  <2>1. T \subseteq Nat
    OBVIOUS
  <2>2. PICK k \in T : \A j \in T : k <= j
    BY <1>3, <2>1, LeastNumber
  <2>3. k # 0 /\ k - 1 \in Nat /\ k - 1 \notin T /\ k - 1 + 1 = k
    BY <1>1, <2>2
  <2> QED
    BY <1>2, <2>2, <2>3
<1>4. PICK g : Good(K + 1, g)
  BY <1>0, <1>3
<1>5. Level(K + 1) = D
  BY <1>0
<1> QED
  BY <1>4, <1>5 DEF Good, Solves

\* A node is followed in its line by that of its parent, up to the root.
LEMMA LineageSteps ==
    ASSUME NEW t, NEW N, Shape(t, N)
    PROVE  /\ \A n \in 1..N : Lineage(t, n) \in Seq(1..N)
           /\ Lineage(t, 1) = <<1>>
           /\ \A n \in 2..N : Lineage(t, n) = <<n>> \o Lineage(t, t[n].parent)
<1> DEFINE Climbs(g) == g = [m \in Members(t) |-> IF t[m].parent = NoNode THEN <<m>>
                                                  ELSE <<m>> \o g[t[m].parent]]
           up == CHOOSE g : Climbs(g)
           V == Seq(1..N)
<1>1. /\ N \in Nat /\ Members(t) = 1..N /\ NoNode \notin 1..N /\ t[1].parent = NoNode
      /\ \A n \in 1..N : n = 1 \/ (n \in 2..N /\ t[n].parent \in 1..N /\ t[n].parent < n)
      /\ 1 \in 1..N /\ \A n \in 2..N : n # 1 /\ n \in 1..N
  <2>1. /\ N \in Nat /\ Members(t) = 1..N /\ 1 \in 1..N /\ t[1].parent = NoNode
        /\ \A n \in 2..N : t[n].parent \in 1..N /\ t[n].parent < n
    BY ShapeFacts DEF Shape, SiblingsOK, EndsOK
  <2>2. NoNode \notin 1..N
    BY <2>1, Pointers
  <2>3. \A n \in 1..N : n = 1 \/ n \in 2..N
    BY <2>1
  <2>4. \A n \in 2..N : n # 1 /\ n \in 1..N
    BY <2>1
  <2> QED
    BY <2>1, <2>2, <2>3, <2>4
<1>2. \E g \in [1..N -> V] : \A m \in 1..N :
          g[m] = IF t[m].parent \in 1..N THEN <<m>> \o g[t[m].parent] ELSE <<m>>
  <2> DEFINE r == [m \in 1..N |-> m]
             p == [m \in 1..N |-> t[m].parent]
             b == [m \in 1..N |-> <<m>>]
             F == [x \in (1..N) \X V |-> <<x[1]>> \o x[2]]
  <2>1. r \in [1..N -> 0..N] /\ b \in [1..N -> V]
    BY <1>1
  <2>2. F \in [(1..N) \X V -> V]
    <3>1. ASSUME NEW x \in (1..N) \X V PROVE <<x[1]>> \o x[2] \in V
      <4>1. PICK m \in 1..N, v \in V : x[1] = m /\ x[2] = v
        OBVIOUS
      <4>2. <<m>> \o v \in V
        OBVIOUS
      <4> QED
        BY <4>1, <4>2
    <3> HIDE DEF V
    <3> QED
      BY <3>1
  <2>3. \A m \in 1..N : p[m] \in 1..N => r[p[m]] < r[m]
    BY <1>1
  <2> HIDE DEF r, p, b, F, V
  <2>4. PICK g : Solves(1..N, V, p, b, F, g)
    <3>1. Ranked(1..N, V, N, r, p, b, F)
      BY <1>1, <2>1, <2>2, <2>3 DEF Ranked
    <3> QED
      BY <3>1, Recursion
  <2>5. ASSUME NEW m \in 1..N
        PROVE  g[m] = IF t[m].parent \in 1..N THEN <<m>> \o g[t[m].parent] ELSE <<m>>
    <3>1. p[m] = t[m].parent /\ b[m] = <<m>>
      BY DEF p, b
    <3>2. CASE p[m] \in 1..N
      <4>1. PICK v \in V : v = g[p[m]]
        BY <2>4, <3>2 DEF Solves
      <4>2. F[<<m, v>>] = <<m>> \o v
        BY DEF F
      <4> QED
        BY <2>4, <3>1, <3>2, <4>1, <4>2 DEF Solves
    <3> QED
      BY <2>4, <3>1, <3>2 DEF Solves
  <2> QED
    BY <2>4, <2>5 DEF Solves
<1>3. PICK g \in [1..N -> V] : \A m \in 1..N :
          g[m] = IF t[m].parent \in 1..N THEN <<m>> \o g[t[m].parent] ELSE <<m>>
  BY <1>2
<1> HIDE DEF V
<1>4. Climbs(g)
  <2>1. g = [m \in 1..N |-> g[m]]
    OBVIOUS
  <2>2. \A m \in 1..N : g[m] = IF t[m].parent = NoNode THEN <<m>> ELSE <<m>> \o g[t[m].parent]
    BY <1>1, <1>3
  <2> QED
    BY <1>1, <2>1, <2>2
<1>5. \A n : Lineage(t, n) = up[n]
  BY DEF Lineage
<1> HIDE DEF Climbs
<1>6. Climbs(up)
  BY <1>4
<1> HIDE DEF up
<1>7. /\ up[1] = <<1>>
      /\ \A n \in 2..N : up[n] = <<n>> \o up[t[n].parent]
  BY <1>1, <1>6 DEF Climbs
<1>8. 1..N \subseteq {n \in 1..N : up[n] \in Seq(1..N)}
  <2> DEFINE S == {n \in 1..N : up[n] \in Seq(1..N)}
  <2>1. ASSUME NEW k \in 1..N, \A j \in 1..N : j < k => j \in S PROVE k \in S
    <3>1. CASE k = 1
      <4>1. <<k>> \in Seq(1..N)
        OBVIOUS
      <4> QED
        BY <1>7, <3>1, <4>1
    <3>2. CASE k # 1
      <4>1. k \in 2..N /\ t[k].parent \in S
        BY <1>1, <2>1, <3>2
      <4>2. PICK v \in Seq(1..N) : v = up[t[k].parent]
        BY <4>1
      <4>3. <<k>> \o v \in Seq(1..N)
        OBVIOUS
      <4> QED
        BY <1>7, <4>1, <4>2, <4>3
    <3> QED
      BY <3>1, <3>2
  <2> HIDE DEF S
  <2>2. 1..N \subseteq S
    BY <1>1, <2>1, Upwards
  <2> QED
    BY <2>2 DEF S
<1> QED
  BY <1>1, <1>5, <1>7, <1>8

\* What follows a node and all below it: its younger sibling, or what follows its
\* parent; after the root, the end.
LEMMA AfterSteps ==
    ASSUME NEW t, NEW N, Shape(t, N)
    PROVE  /\ After(t, 1) = FeetNode
           /\ \A n \in 2..N : After(t, n) = IF t[n].next # NoNode THEN t[n].next
                                            ELSE After(t, t[n].parent)
           /\ \A n \in 1..N : After(t, n) \in 1..N \union {FeetNode}
<1> DEFINE Climbs(g) == g = [m \in Members(t) |-> IF t[m].next # NoNode THEN t[m].next
                                                  ELSE g[t[m].parent]]
           up == CHOOSE g : Climbs(g)
           V == 1..N \union {FeetNode}
           D == 1..N
           r == [m \in D |-> m]
           p == [m \in D |-> IF t[m].next # NoNode THEN NoNode ELSE t[m].parent]
           b == [m \in D |-> IF t[m].next # NoNode THEN t[m].next ELSE FeetNode]
           F == [x \in D \X V |-> x[2]]
<1>1. /\ N \in Nat /\ Members(t) = 1..N /\ 1 \in 1..N /\ t[1].next = FeetNode
      /\ \A n \in 2..N : t[n].parent \in 1..N /\ t[n].parent < n
      /\ \A n \in 2..N : t[n].next # NoNode => t[n].next \in 1..N
  BY ShapeFacts DEF Shape, SiblingsOK, EndsOK
<1>2. NoNode \notin 1..N /\ FeetNode # NoNode
  BY <1>1, Pointers
<1>3. (\A n \in 1..N : n = 1 \/ n \in 2..N) /\ \A n \in 2..N : n # 1 /\ n \in 1..N
  BY <1>1
<1>4. \E g : Solves(D, V, p, b, F, g)
  <2>1. r \in [D -> 0..N] /\ F \in [D \X V -> V]
    BY <1>1
  <2>2. b \in [D -> V]
    BY <1>1, <1>3
  <2>3. \A m \in D : p[m] \in D => r[p[m]] < r[m]
    BY <1>1, <1>2, <1>3
  <2> HIDE DEF r, p, b, F, V, D
  <2>4. Ranked(D, V, N, r, p, b, F)
    BY <1>1, <2>1, <2>2, <2>3 DEF Ranked
  <2> QED
    BY <2>4, Recursion
<1>5. PICK g : Solves(D, V, p, b, F, g)
  BY <1>4
<1>6. \A m \in D : g[m] \in V /\ g[m] = IF t[m].next # NoNode THEN t[m].next ELSE g[t[m].parent]
  <2> TAKE m \in D
  <2>1. /\ g[m] \in V
        /\ g[m] = IF p[m] \in D THEN F[<<m, g[p[m]]>>] ELSE b[m]
    <3> HIDE DEF D, V, p, b, F
    <3> QED
      BY <1>5 DEF Solves
  <2>2. CASE t[m].next # NoNode
    BY <1>2, <2>1, <2>2
  <2>3. CASE t[m].next = NoNode
    <3>1. p[m] = t[m].parent /\ p[m] \in D
      BY <1>1, <1>2, <1>3, <2>3
    <3>2. g[p[m]] \in V
      <4> HIDE DEF D, V, p, b, F
      <4> QED
        BY <1>5, <3>1 DEF Solves
    <3> QED
      BY <2>1, <2>3, <3>1, <3>2
  <2> QED
    BY <2>1, <2>2, <2>3
<1>7. Climbs(g)
  <2>1. g = [m \in D |-> g[m]]
    <3> HIDE DEF D, V, p, b, F
    <3> QED
      BY <1>5 DEF Solves
  <2> QED
    BY <1>1, <1>6, <2>1
<1>8. \A n : After(t, n) = up[n]
  BY DEF After
<1> HIDE DEF Climbs
<1>9. Climbs(up)
  BY <1>7
<1> HIDE DEF up
<1>10. \A n \in 1..N : up[n] = IF t[n].next # NoNode THEN t[n].next ELSE up[t[n].parent]
  BY <1>1, <1>9 DEF Climbs
<1>11. 1..N \subseteq {n \in 1..N : up[n] \in V}
  <2> DEFINE S == {n \in 1..N : up[n] \in V}
  <2>1. ASSUME NEW k \in 1..N, \A j \in 1..N : j < k => j \in S PROVE k \in S
    <3>1. CASE k = 1
      BY <1>1, <1>2, <1>10, <3>1
    <3>2. CASE k # 1
      BY <1>1, <1>3, <1>10, <2>1, <3>2
    <3> QED
      BY <3>1, <3>2
  <2> HIDE DEF S
  <2>2. 1..N \subseteq S
    BY <1>1, <2>1, Upwards
  <2> QED
    BY <2>2 DEF S
<1> QED
  BY <1>1, <1>2, <1>3, <1>8, <1>10, <1>11

\* A node and its younger siblings: what Children starts from a first child.
Siblings(t) ==
    CHOOSE g : g = [m \in DOMAIN t \union {NoNode} |->
                        IF m = NoNode THEN <<>> ELSE <<m>> \o g[t[m].next]]

LEMMA SiblingSteps ==
    ASSUME NEW t, NEW N, Shape(t, N)
    PROVE  /\ Siblings(t)[NoNode] = <<>>
           /\ \A n \in 2..N : Siblings(t)[n] = <<n>> \o Siblings(t)[t[n].next]
           /\ \A n \in 2..N :
                 Siblings(t)[n] \in Seq({c \in 2..N : t[c].parent = t[n].parent})
<1> DEFINE Runs(g) == g = [m \in DOMAIN t \union {NoNode} |->
                              IF m = NoNode THEN <<>> ELSE <<m>> \o g[t[m].next]]
           D == DOMAIN t \union {NoNode}
           V == Seq(D)
           r == [m \in D |-> IF m = NoNode THEN 0 ELSE IF m = FeetNode THEN 1
                             ELSE IF m = HeadNode THEN N + 2 ELSE N + 2 - m]
           p == [m \in D |-> IF m = NoNode THEN N + 1 ELSE t[m].next]
           b == [m \in D |-> <<>>]
           F == [x \in D \X V |-> <<x[1]>> \o x[2]]
<1>1. /\ N \in Nat /\ 1 \in 1..N /\ N + 1 \notin 1..N
      /\ DOMAIN t = {HeadNode, FeetNode} \union 1..N
      /\ t[HeadNode].next = 1 /\ t[FeetNode].next = NoNode /\ t[1].next = FeetNode
      /\ \A n \in 2..N : /\ t[n].parent \in 1..N
                         /\ t[n].next # NoNode => /\ t[n].next \in 1..N /\ n < t[n].next
                                                  /\ t[t[n].next].parent = t[n].parent
  BY ShapeFacts DEF Shape, SiblingsOK, EndsOK, Sentinels
<1>2. /\ NoNode \notin 1..N /\ FeetNode # NoNode /\ HeadNode # NoNode /\ HeadNode # FeetNode
      /\ HeadNode \notin 1..N /\ FeetNode \notin 1..N
      /\ N + 1 \notin {HeadNode, FeetNode, NoNode}
  <2>1. N + 1 \in Nat
    BY <1>1
  <2> QED
    BY <1>1, <2>1, Pointers, PointersAssumption
<1>3. (\A n \in 1..N : n = 1 \/ n \in 2..N) /\ \A n \in 2..N : n # 1 /\ n \in 1..N
  BY <1>1
<1>4. \A m \in D : m # NoNode => t[m].next \in D
  BY <1>1, <1>3
<1>5. \E g : Solves(D, V, p, b, F, g)
  <2>1. r \in [D -> 0..N + 2]
    BY <1>1, <1>2
  <2>2. b \in [D -> V]
    OBVIOUS
  <2>3. F \in [D \X V -> V]
    <3>1. ASSUME NEW x \in D \X V PROVE <<x[1]>> \o x[2] \in V
      <4> HIDE DEF D
      <4>1. PICK m \in D, v \in V : x[1] = m /\ x[2] = v
        OBVIOUS
      <4>2. <<m>> \o v \in V
        OBVIOUS
      <4> QED
        BY <4>1, <4>2
    <3> HIDE DEF V, D
    <3> QED
      BY <3>1
  <2>4. ASSUME NEW m \in D, p[m] \in D PROVE r[p[m]] < r[m]
    <3>1. m # NoNode /\ p[m] = t[m].next
      BY <1>1, <1>2, <2>4
    <3>2. CASE m = HeadNode
      <4>1. p[m] = 1 /\ 1 \in D /\ r[1] = N + 1 /\ r[m] = N + 2
        BY <1>1, <1>2, <3>1, <3>2
      <4> QED
        BY <1>1, <4>1
    <3>3. CASE m = FeetNode
      BY <1>1, <1>2, <3>1, <3>3
    <3>4. CASE m = 1
      <4>1. p[m] = FeetNode /\ FeetNode \in D /\ r[FeetNode] = 1 /\ r[m] = N + 1
        BY <1>1, <1>2, <3>1, <3>4
      <4> QED
        BY <1>1, <4>1
    <3>5. CASE m \in 2..N
      <4>1. r[m] = N + 2 - m
        BY <1>1, <1>2, <1>3, <3>5
      <4>2. CASE t[m].next = NoNode
        BY <1>1, <3>1, <3>5, <4>1, <4>2
      <4>3. CASE t[m].next # NoNode
        <5>1. t[m].next \in 1..N /\ m < t[m].next /\ r[t[m].next] = N + 2 - t[m].next
          BY <1>1, <1>2, <1>4, <3>5, <4>3
        <5> QED
          BY <1>1, <3>1, <3>5, <4>1, <5>1
      <4> QED
        BY <4>2, <4>3
    <3> QED
      BY <1>1, <1>3, <3>1, <3>2, <3>3, <3>4, <3>5
  <2> HIDE DEF r, p, b, F, V, D
  <2>5. N + 2 \in Nat
    BY <1>1
  <2>6. Ranked(D, V, N + 2, r, p, b, F)
    BY <2>1, <2>2, <2>3, <2>4, <2>5 DEF Ranked
  <2> QED
    BY <2>6, Recursion
<1>6. PICK g : Solves(D, V, p, b, F, g)
  BY <1>5
<1>7. Runs(g)
  <2>1. ASSUME NEW m \in D PROVE g[m] = IF m = NoNode THEN <<>> ELSE <<m>> \o g[t[m].next]
    <3>1. g[m] = IF p[m] \in D THEN F[<<m, g[p[m]]>>] ELSE b[m]
      <4> HIDE DEF D, V, p, b, F
      <4> QED
        BY <1>6 DEF Solves
    <3>2. CASE m = NoNode
      BY <1>1, <1>2, <3>1, <3>2
    <3>3. CASE m # NoNode
      <4>1. p[m] = t[m].next /\ p[m] \in D
        BY <1>4, <3>3
      <4>2. PICK v \in V : v = g[p[m]]
        <5> HIDE DEF D, V, p, b, F
        <5> QED
          BY <1>6, <4>1 DEF Solves
      <4>3. F[<<m, v>>] = <<m>> \o v
        <5> HIDE DEF V, D
        <5> QED
          BY DEF F
      <4> HIDE DEF F, p, D, V
      <4> QED
        BY <3>1, <3>3, <4>1, <4>2, <4>3
    <3> QED
      BY <3>2, <3>3
  <2>2. g = [m \in D |-> g[m]]
    <3> HIDE DEF D, V, p, b, F
    <3> QED
      BY <1>6 DEF Solves
  <2> QED
    BY <2>1, <2>2
<1> DEFINE s == Siblings(t)
<1>8. s = CHOOSE h : Runs(h)
  BY DEF Siblings
<1> HIDE DEF Runs, s
<1>9. Runs(s)
  BY <1>7, <1>8
<1>10. /\ s[NoNode] = <<>>
       /\ \A n \in 2..N : s[n] = <<n>> \o s[t[n].next]
  BY <1>1, <1>2, <1>3, <1>9 DEF Runs
<1>11. 1..N \subseteq {n \in 1..N : n \in 2..N =>
                          s[n] \in Seq({c \in 2..N : t[c].parent = t[n].parent})}
  <2> DEFINE S == {n \in 1..N : n \in 2..N =>
                      s[n] \in Seq({c \in 2..N : t[c].parent = t[n].parent})}
  <2>1. ASSUME NEW k \in 1..N, \A j \in 1..N : k < j => j \in S PROVE k \in S
    <3> SUFFICES ASSUME k \in 2..N
                 PROVE  s[k] \in Seq({c \in 2..N : t[c].parent = t[k].parent})
      OBVIOUS
    <3>1. CASE t[k].next = NoNode
      <4>1. s[k] = <<k>> \o <<>>
        BY <1>10, <3>1
      <4> QED
        BY <4>1
    <3>2. CASE t[k].next # NoNode
      <4>1. PICK j : j = t[k].next /\ j \in 1..N /\ k < j /\ t[j].parent = t[k].parent
        BY <1>1, <3>2
      <4>2. j \in 2..N /\ j \in S
        BY <1>1, <2>1, <4>1
      <4>3. s[j] \in Seq({c \in 2..N : t[c].parent = t[k].parent})
        BY <4>1, <4>2
      <4>4. s[k] = <<k>> \o s[j]
        BY <1>10, <4>1
      <4>5. <<k>> \in Seq({c \in 2..N : t[c].parent = t[k].parent})
        OBVIOUS
      <4> QED
        BY <4>3, <4>4, <4>5
    <3> QED
      BY <3>1, <3>2
  <2> HIDE DEF S
  <2>2. 1..N \subseteq S
    BY <1>1, <2>1, Downwards
  <2> QED
    BY <2>2 DEF S
<1> QED
  BY <1>3, <1>10, <1>11 DEF s

-----------------------------------------------------------------------------
(***************************************************************************)
(* The order in which pre_order_iterator meets the nodes: each once, a node   *)
(* after its parent and before its younger siblings.                         *)
(***************************************************************************)
Order(t, N, q) ==
    /\ q \in [1..N -> 1..N] /\ q[1] = 1
    /\ \A i, j \in 1..N : q[i] = q[j] => i = j
    /\ \A m \in 1..N : \E i \in 1..N : q[i] = m
    /\ \A i \in 1..N : PreOrderNext(t, q[i]) = IF i = N THEN FeetNode ELSE q[i + 1]
    /\ \A i \in 1..N : q[i] # 1 => \E j \in 1..N : j < i /\ q[j] = t[q[i]].parent
    /\ \A i \in 1..N : t[q[i]].next \in 1..N => \E j \in 1..N : i < j /\ q[j] = t[q[i]].next

LEMMA FunctionIsSeq ==
    ASSUME NEW S, NEW n \in Nat, NEW s \in [1..n -> S]
    PROVE  s \in Seq(S) /\ Len(s) = n /\ DOMAIN s = 1..n
<1>1. s \in Seq(S)
  OBVIOUS
<1> QED
  BY <1>1

LEMMA Prefixed ==
    ASSUME NEW S, NEW x \in S, NEW s \in Seq(S)
    PROVE  /\ <<x>> \o s \in Seq(S) /\ Len(<<x>> \o s) = Len(s) + 1
           /\ <<x>> \o s = [i \in 1..Len(s) + 1 |-> IF i = 1 THEN x ELSE s[i - 1]]
<1>1. /\ <<x>> \in Seq(S) /\ Len(<<x>>) = 1 /\ Len(s) \in Nat
      /\ <<x>> \o s \in Seq(S) /\ Len(<<x>> \o s) = Len(s) + 1
      /\ DOMAIN (<<x>> \o s) = 1..Len(s) + 1
  OBVIOUS
<1>2. \A i \in 1..Len(s) + 1 : (<<x>> \o s)[i] = IF i = 1 THEN x ELSE s[i - 1]
  BY <1>1
<1>3. <<x>> \o s = [i \in 1..Len(s) + 1 |-> (<<x>> \o s)[i]]
  BY <1>1
<1> QED
  BY <1>1, <1>2, <1>3

LEMMA PreOrderIs ==
    ASSUME NEW t, NEW N, Shape(t, N), NEW q, Order(t, N, q)
    PROVE  /\ PreOrder(t) = q
           /\ q \in Seq(1..N) /\ Len(q) = N /\ DOMAIN q = 1..N
<1> DEFINE Starts(g) == g = [n \in Members(t) \union {FeetNode} |->
                               IF n = FeetNode THEN <<>> ELSE <<n>> \o g[PreOrderNext(t, n)]]
           from == CHOOSE g : Starts(g)
           D == 1..N \union {FeetNode}
           V == Seq(1..N)
           index == [m \in 1..N |-> CHOOSE i \in 1..N : q[i] = m]
           r == [m \in D |-> IF m = FeetNode THEN 0 ELSE N + 1 - index[m]]
           p == [m \in D |-> IF m = FeetNode THEN NoNode ELSE PreOrderNext(t, m)]
           b == [m \in D |-> <<>>]
           F == [x \in D \X V |-> IF x[1] = FeetNode THEN <<>> ELSE <<x[1]>> \o x[2]]
<1>1. /\ N \in Nat /\ N >= 1 /\ Members(t) = 1..N /\ 1 \in 1..N /\ Begin(t) = 1
      /\ FeetNode \notin 1..N /\ NoNode \notin 1..N /\ FeetNode # NoNode
  BY ShapeFacts, Pointers
<1>2. /\ q \in [1..N -> 1..N] /\ q[1] = 1
      /\ \A i, j \in 1..N : q[i] = q[j] => i = j
      /\ \A m \in 1..N : \E i \in 1..N : q[i] = m
      /\ \A i \in 1..N : PreOrderNext(t, q[i]) = IF i = N THEN FeetNode ELSE q[i + 1]
  BY DEF Order
<1>3. \A m \in 1..N : index[m] \in 1..N /\ q[index[m]] = m
  BY <1>2
<1>4. \A i \in 1..N : index[q[i]] = i
  BY <1>2, <1>3
<1>5. \A m \in 1..N : /\ PreOrderNext(t, m) \in D
                      /\ PreOrderNext(t, m) \in 1..N => index[PreOrderNext(t, m)] = index[m] + 1
  <2> TAKE m \in 1..N
  <2>1. PICK i \in 1..N : q[i] = m /\ index[m] = i
    BY <1>2, <1>4
  <2>2. PreOrderNext(t, m) = IF i = N THEN FeetNode ELSE q[i + 1]
    BY <1>2, <2>1
  <2>3. i # N => i + 1 \in 1..N
    BY <1>1
  <2> HIDE DEF index
  <2>4. CASE i = N
    BY <1>1, <2>2, <2>4
  <2>5. CASE i # N
    <3>1. PICK j \in 1..N : j = i + 1
      BY <2>3, <2>5
    <3>2. PreOrderNext(t, m) = q[j] /\ q[j] \in 1..N /\ index[q[j]] = j
      BY <1>2, <1>4, <2>2, <2>5, <3>1
    <3> QED
      BY <2>1, <3>1, <3>2
  <2> QED
    BY <2>4, <2>5
<1> HIDE DEF index
<1>6. \E g : Solves(D, V, p, b, F, g)
  <2>1. r \in [D -> 0..N]
    BY <1>1, <1>3
  <2>2. b \in [D -> V]
    OBVIOUS
  <2>3. F \in [D \X V -> V]
    <3>1. ASSUME NEW x \in D \X V
          PROVE  (IF x[1] = FeetNode THEN <<>> ELSE <<x[1]>> \o x[2]) \in V
      <4>1. PICK m \in D, v \in V : x[1] = m /\ x[2] = v
        OBVIOUS
      <4>2. CASE m = FeetNode
        <5>1. <<>> \in V
          OBVIOUS
        <5> HIDE DEF V
        <5> QED
          BY <4>1, <4>2, <5>1
      <4>3. CASE m # FeetNode
        <5>1. m \in 1..N
          BY <4>3
        <5>2. <<m>> \o v \in V
          BY <5>1
        <5> HIDE DEF V
        <5> QED
          BY <4>1, <4>3, <5>2
      <4> QED
        BY <4>2, <4>3
    <3> HIDE DEF V, D
    <3> QED
      BY <3>1
  <2>4. ASSUME NEW m \in D, p[m] \in D PROVE r[p[m]] < r[m]
    <3>1. m # FeetNode /\ m \in 1..N /\ p[m] = PreOrderNext(t, m)
      BY <1>1, <2>4
    <3>2. r[m] = N + 1 - index[m] /\ index[m] \in 1..N
      BY <1>1, <1>3, <3>1
    <3>3. CASE p[m] = FeetNode
      BY <1>1, <3>2, <3>3
    <3>4. CASE p[m] \in 1..N
      <4>1. r[p[m]] = N + 1 - index[p[m]] /\ index[p[m]] \in 1..N
        BY <1>1, <1>3, <3>4
      <4> QED
        BY <1>1, <1>5, <3>1, <3>2, <3>4, <4>1
    <3> QED
      BY <2>4, <3>3, <3>4
  <2> HIDE DEF r, p, b, F, V, D
  <2>5. Ranked(D, V, N, r, p, b, F)
    BY <1>1, <2>1, <2>2, <2>3, <2>4 DEF Ranked
  <2> QED
    BY <2>5, Recursion
<1>7. PICK g : Solves(D, V, p, b, F, g)
  BY <1>6
<1>8. Starts(g)
  <2>1. ASSUME NEW m \in D
        PROVE  g[m] = IF m = FeetNode THEN <<>> ELSE <<m>> \o g[PreOrderNext(t, m)]
    <3>1. g[m] = IF p[m] \in D THEN F[<<m, g[p[m]]>>] ELSE b[m]
      <4> HIDE DEF D, V, p, b, F
      <4> QED
        BY <1>7 DEF Solves
    <3>2. CASE m = FeetNode
      BY <1>1, <3>1, <3>2
    <3>3. CASE m # FeetNode
      <4>1. p[m] = PreOrderNext(t, m) /\ p[m] \in D /\ m \in 1..N
        BY <1>5, <3>3
      <4>2. PICK v \in V : v = g[p[m]]
        <5> HIDE DEF D, V, p, b, F
        <5> QED
          BY <1>7, <4>1 DEF Solves
      <4>3. F[<<m, v>>] = <<m>> \o v
        <5> HIDE DEF V, D
        <5> QED
          BY <3>3 DEF F
      <4> HIDE DEF F, p, D, V
      <4> QED
        BY <3>1, <3>3, <4>1, <4>2, <4>3
    <3> QED
      BY <3>2, <3>3
  <2>2. g = [m \in D |-> g[m]]
    <3> HIDE DEF D, V, p, b, F
    <3> QED
      BY <1>7 DEF Solves
  <2> QED
    BY <1>1, <2>1, <2>2
<1>9. PreOrder(t) = from[1]
  BY <1>1 DEF PreOrder
<1> HIDE DEF Starts
<1>10. Starts(from)
  BY <1>8
<1> HIDE DEF from
<1>11. /\ from[FeetNode] = <<>>
       /\ \A m \in 1..N : from[m] = <<m>> \o from[PreOrderNext(t, m)]
  BY <1>1, <1>10 DEF Starts
<1> DEFINE Rest(k) == [i \in 1..N - k + 1 |-> q[k + i - 1]]
           S == {k \in 1..N : from[q[k]] = Rest(k)}
<1>12. ASSUME NEW k \in 1..N, \A j \in 1..N : k < j => j \in S PROVE k \in S
  <2>1. from[q[k]] = <<q[k]>> \o from[PreOrderNext(t, q[k])]
    BY <1>2, <1>11
  <2>2. CASE k = N
    <3>1. from[q[k]] = <<q[k]>> \o <<>>
      BY <1>2, <1>11, <2>1, <2>2
    <3>2. q[k] \in 1..N /\ N - k + 1 = 1 /\ <<>> \in Seq(1..N) /\ Len(<<>>) = 0
      BY <1>1, <1>2, <2>2
    <3>3. <<q[k]>> \o <<>> = [i \in 1..0 + 1 |-> IF i = 1 THEN q[k] ELSE <<>>[i - 1]]
      BY <3>2, Prefixed
    <3>4. Rest(k) = [i \in 1..0 + 1 |-> IF i = 1 THEN q[k] ELSE <<>>[i - 1]]
      BY <1>1, <2>2
    <3> HIDE DEF Rest
    <3> QED
      BY <3>1, <3>3, <3>4
  <2>3. CASE k # N
    <3>1. k + 1 \in 1..N /\ k < k + 1
      BY <1>1, <2>3
    <3>2. from[q[k]] = <<q[k]>> \o Rest(k + 1)
      <4> HIDE DEF Rest
      <4>1. from[q[k + 1]] = Rest(k + 1)
        BY <1>12, <3>1
      <4> QED
        BY <1>2, <2>1, <2>3, <4>1
    <3>3. q[k] \in 1..N /\ Rest(k + 1) \in Seq(1..N) /\ Len(Rest(k + 1)) = N - k
      <4>1. N - k \in Nat /\ N - (k + 1) + 1 = N - k
        BY <1>1, <3>1
      <4>2. Rest(k + 1) = [i \in 1..N - k |-> q[k + 1 + i - 1]]
        BY <4>1
      <4>3. \A i \in 1..N - k : q[k + 1 + i - 1] \in 1..N
        <5> TAKE i \in 1..N - k
        <5>1. PICK j \in 1..N : j = k + 1 + i - 1
          BY <1>1, <3>1
        <5> QED
          BY <1>2, <5>1
      <4>4. Rest(k + 1) \in [1..N - k -> 1..N]
        BY <4>2, <4>3
      <4> HIDE DEF Rest
      <4>5. Rest(k + 1) \in Seq(1..N) /\ Len(Rest(k + 1)) = N - k
        BY <4>1, <4>4, FunctionIsSeq
      <4> QED
        BY <1>2, <4>5
    <3>4. <<q[k]>> \o Rest(k + 1)
            = [i \in 1..N - k + 1 |-> IF i = 1 THEN q[k] ELSE Rest(k + 1)[i - 1]]
      <4> HIDE DEF Rest
      <4> QED
        BY <3>3, Prefixed
    <3>5. \A i \in 1..N - k + 1 : (IF i = 1 THEN q[k] ELSE Rest(k + 1)[i - 1]) = q[k + i - 1]
      <4> TAKE i \in 1..N - k + 1
      <4>1. CASE i = 1
        BY <1>1, <4>1
      <4>2. CASE i # 1
        <5>1. i - 1 \in 1..N - (k + 1) + 1 /\ k + 1 + (i - 1) - 1 = k + i - 1
          BY <1>1, <3>1, <4>2
        <5> QED
          BY <4>2, <5>1
      <4> QED
        BY <4>1, <4>2
    <3>6. Rest(k) = [i \in 1..N - k + 1 |-> IF i = 1 THEN q[k] ELSE Rest(k + 1)[i - 1]]
      BY <3>5
    <3> HIDE DEF Rest
    <3> QED
      BY <3>2, <3>4, <3>6
  <2> QED
    BY <2>2, <2>3
<1> HIDE DEF S
<1>13. 1..N \subseteq S
  BY <1>1, <1>12, Downwards
<1>14. from[1] = Rest(1)
  <2> HIDE DEF Rest
  <2> QED
    BY <1>1, <1>2, <1>13 DEF S
<1>15. Rest(1) = q
  <2>1. N - 1 + 1 = N /\ \A i \in 1..N : 1 + i - 1 = i
    BY <1>1
  <2>2. Rest(1) = [i \in 1..N |-> q[i]]
    BY <2>1
  <2> QED
    BY <1>2, <2>2
<1>16. q \in Seq(1..N) /\ Len(q) = N /\ DOMAIN q = 1..N
  BY <1>1, <1>2, FunctionIsSeq
<1> QED
  BY <1>9, <1>14, <1>15, <1>16

Precedes(q, N, a, b) == \E i, j \in 1..N : i < j /\ q[i] = a /\ q[j] = b

LEMMA PrecedesTransitive ==
    ASSUME NEW t, NEW N \in Nat, NEW q, Order(t, N, q),
           NEW a, NEW b, NEW c, Precedes(q, N, a, b), Precedes(q, N, b, c)
    PROVE  Precedes(q, N, a, c)
<1>1. PICK i, j \in 1..N : i < j /\ q[i] = a /\ q[j] = b
  BY DEF Precedes
<1>2. PICK k, l \in 1..N : k < l /\ q[k] = b /\ q[l] = c
  BY DEF Precedes
<1>3. j = k
  BY <1>1, <1>2 DEF Order
<1>4. i < l
  BY <1>1, <1>2, <1>3
<1> QED
  BY <1>1, <1>2, <1>4 DEF Precedes

\* append_child changes what follows only the last child of loc and the nodes
\* at the end of what is below it: there comes the new node, and after it what
\* followed loc.
AfterMoves(t, N, q, loc, u, m) ==
    /\ After(u, m) = N + 1 /\ After(t, m) = After(t, loc)
    /\ t[loc].last \in 1..N /\ t[loc].last <= m
    /\ Precedes(q, N, loc, m)
    /\ m = t[loc].last \/ Precedes(q, N, t[loc].last, m)

LEMMA AfterAppend ==
    ASSUME NEW t, NEW N, Shape(t, N), NEW q, Order(t, N, q), NEW loc \in 1..N, NEW data,
           NEW u, Appended(t, N, loc, data, u)
    PROVE  /\ \A m \in 1..N : After(u, m) = After(t, m) \/ AfterMoves(t, N, q, loc, u, m)
           /\ After(u, N + 1) = After(t, loc)
           /\ After(u, loc) = After(t, loc)
<1> DEFINE last == t[loc].last
           Same(m) == After(u, m) = After(t, m)
           Moves(m) == AfterMoves(t, N, q, loc, u, m)
           S == {m \in 1..N : Same(m) \/ Moves(m)}
<1>1. /\ N \in Nat /\ N >= 1 /\ 1 \in 1..N /\ N + 1 \notin 1..N /\ N + 1 # NoNode /\ N + 1 # FeetNode
      /\ N + 1 \in 2..N + 1 /\ 2..N \subseteq 2..N + 1 /\ 1..N \subseteq DOMAIN t
      /\ (\A n \in 1..N : n = 1 \/ n \in 2..N) /\ \A n \in 2..N : n # 1 /\ n \in 1..N
      /\ NoNode \notin 1..N
  <2>1. N \in Nat /\ N >= 1 /\ 1 \in 1..N /\ 1..N \subseteq DOMAIN t
    BY ShapeFacts DEF Shape
  <2>2. N + 1 \in Nat
    BY <2>1
  <2>3. N + 1 # NoNode /\ N + 1 # FeetNode /\ NoNode \notin 1..N
    BY <2>1, <2>2, Pointers, PointersAssumption
  <2>4. N + 1 \notin 1..N /\ N + 1 \in 2..N + 1 /\ 2..N \subseteq 2..N + 1
    BY <2>1
  <2>5. (\A n \in 1..N : n = 1 \/ n \in 2..N) /\ \A n \in 2..N : n # 1 /\ n \in 1..N
    BY <2>1
  <2> QED
    BY <2>1, <2>3, <2>4, <2>5
<1>2. Shape(u, N + 1)
  BY AppendShape
<1>3. /\ last # NoNode => last \in 2..N /\ loc < last /\ t[last].parent = loc /\ t[last].next = NoNode
      /\ \A n \in 2..N : t[n].parent \in 1..N /\ t[n].parent < n
  BY <1>1, Pointers DEF Shape, ChildrenOK, SiblingsOK, EndsOK
<1>4. /\ \A m \in 1..N : u[m].next = IF m = last THEN N + 1 ELSE t[m].next
      /\ \A m \in 1..N : u[m].parent = t[m].parent
      /\ u[N + 1].next = NoNode /\ u[N + 1].parent = loc
  BY <1>1 DEF Appended, Node
<1>5. /\ After(t, 1) = FeetNode /\ After(u, 1) = FeetNode
      /\ \A n \in 2..N : After(t, n) = IF t[n].next # NoNode THEN t[n].next
                                       ELSE After(t, t[n].parent)
      /\ \A n \in 2..N + 1 : After(u, n) = IF u[n].next # NoNode THEN u[n].next
                                           ELSE After(u, u[n].parent)
      /\ \A n \in 1..N : After(t, n) \in 1..N \union {FeetNode}
  BY <1>2, AfterSteps
<1>6. \A n \in 2..N : Precedes(q, N, t[n].parent, n)
  <2> TAKE n \in 2..N
  <2>1. PICK i \in 1..N : q[i] = n
    BY <1>1 DEF Order
  <2>2. PICK j \in 1..N : j < i /\ q[j] = t[n].parent
    BY <1>1, <2>1 DEF Order
  <2> QED
    BY <2>1, <2>2 DEF Precedes
<1>7. ASSUME NEW k \in 1..N, \A j \in 1..N : j < k => j \in S PROVE k \in S
  <2>1. CASE k = 1
    BY <1>5, <2>1
  <2>2. CASE k # 1 /\ k = last
    <3>1. k \in 2..N /\ last # NoNode
      BY <1>1, <2>2
    <3>2. After(u, k) = N + 1
      BY <1>1, <1>4, <1>5, <2>2, <3>1
    <3>3. After(t, k) = After(t, loc)
      BY <1>3, <1>5, <2>2, <3>1
    <3>4. Precedes(q, N, loc, k)
      BY <1>3, <1>6, <2>2, <3>1
    <3> QED
      BY <2>2, <3>2, <3>3, <3>4 DEF AfterMoves
  <2>3. CASE k # 1 /\ k # last
    <3>1. k \in 2..N /\ u[k].next = t[k].next /\ u[k].parent = t[k].parent
      BY <1>1, <1>4, <2>3
    <3>2. CASE t[k].next # NoNode
      BY <1>1, <1>5, <3>1, <3>2
    <3>3. CASE t[k].next = NoNode
      <4>1. PICK j \in 1..N : j = t[k].parent /\ j < k
        BY <1>3, <3>1
      <4>2. After(u, k) = After(u, j) /\ After(t, k) = After(t, j)
        BY <1>1, <1>5, <3>1, <3>3, <4>1
      <4>3. Same(j) \/ Moves(j)
        BY <1>7, <4>1
      <4>4. Precedes(q, N, j, k)
        BY <1>6, <3>1, <4>1
      <4>5. CASE Moves(j)
        <5>1. /\ After(u, j) = N + 1 /\ After(t, j) = After(t, loc)
              /\ last \in 1..N /\ last <= j /\ Precedes(q, N, loc, j)
              /\ j = last \/ Precedes(q, N, last, j)
          BY <4>5 DEF AfterMoves
        <5>2. last <= k
          BY <1>1, <4>1, <5>1
        <5>3. Precedes(q, N, loc, k) /\ Precedes(q, N, last, k)
          BY <1>1, <4>4, <5>1, PrecedesTransitive
        <5> QED
          BY <4>2, <5>1, <5>2, <5>3 DEF AfterMoves
      <4> HIDE DEF Moves
      <4> QED
        BY <4>2, <4>3, <4>5
    <3> QED
      BY <3>2, <3>3
  <2> QED
    BY <2>1, <2>2, <2>3
<1>8. \A m \in 1..N : Same(m) \/ Moves(m)
  <2> HIDE DEF S
  <2>1. 1..N \subseteq S
    BY <1>1, <1>7, Upwards
  <2> QED
    BY <2>1 DEF S
<1>9. After(u, loc) = After(t, loc)
  <2>1. ~Moves(loc)
    <3> SUFFICES ASSUME Moves(loc) PROVE FALSE
      OBVIOUS
    <3>1. last \in 1..N /\ last <= loc
      BY DEF AfterMoves
    <3>2. loc < last
      BY <1>1, <1>3, <3>1
    <3> QED
      BY <1>1, <3>1, <3>2
  <2> HIDE DEF Moves
  <2> QED
    BY <1>8, <2>1
<1>10. After(u, N + 1) = After(u, loc)
  BY <1>1, <1>4, <1>5
<1> QED
  BY <1>8, <1>9, <1>10

\* The node that the new one comes after: loc itself, or the last below it.
LEMMA LastBelow ==
    ASSUME NEW t, NEW N, Shape(t, N), NEW q, Order(t, N, q), NEW loc \in 1..N, NEW data,
           NEW u, Appended(t, N, loc, data, u)
    PROVE  \E d \in 1..N :
              /\ PreOrderNext(u, d) = N + 1 /\ PreOrderNext(u, N + 1) = PreOrderNext(t, d)
              /\ \A m \in 1..N \ {d} : PreOrderNext(u, m) = PreOrderNext(t, m)
              /\ d = loc \/ Precedes(q, N, loc, d)
              /\ t[loc].last \in 1..N => d = t[loc].last \/ Precedes(q, N, t[loc].last, d)
<1> DEFINE last == t[loc].last
           Moves(m) == AfterMoves(t, N, q, loc, u, m)
<1>1. /\ N \in Nat /\ N + 1 \notin 1..N /\ N + 1 # NoNode /\ N + 1 # FeetNode
      /\ NoNode \notin 1..N /\ FeetNode \notin 1..N /\ 1..N \subseteq DOMAIN t
  <2>1. N \in Nat /\ 1..N \subseteq DOMAIN t /\ N + 1 \in Nat
    BY ShapeFacts DEF Shape
  <2> QED
    BY <2>1, Pointers, PointersAssumption
<1>2. /\ \A m \in 1..N : After(u, m) = After(t, m) \/ Moves(m)
      /\ After(u, N + 1) = After(t, loc) /\ After(u, loc) = After(t, loc)
  BY AfterAppend
<1>3. /\ \A m \in 1..N : u[m].first = IF m = loc /\ last = NoNode THEN N + 1 ELSE t[m].first
      /\ u[N + 1].first = NoNode
  BY <1>1 DEF Appended, Node
<1>4. /\ \A m \in 1..N : t[m].first = NoNode <=> t[m].last = NoNode
      /\ \A m \in 1..N : t[m].last # NoNode => /\ t[m].last \in 2..N /\ m < t[m].last
                                               /\ t[t[m].last].parent = m
                                               /\ t[t[m].last].next = NoNode
  BY <1>1 DEF Shape, ChildrenOK
<1>5. PreOrderNext(u, N + 1) = After(t, loc)
  BY <1>2, <1>3 DEF PreOrderNext
<1>6. \E d \in 1..N : /\ t[d].first = NoNode /\ PreOrderNext(u, d) = N + 1
                      /\ After(t, d) = After(t, loc) /\ (d = loc \/ Moves(d))
  <2>1. CASE last = NoNode
    BY <1>1, <1>3, <1>4, <2>1 DEF PreOrderNext
  <2>2. CASE last # NoNode
    <3> DEFINE T == {m \in 1..N : Moves(m)}
    <3> HIDE DEF Moves
    <3>1. last \in 2..N /\ last \in 1..N /\ Shape(u, N + 1)
      BY <1>1, <1>4, <2>2, AppendShape
    <3>2. /\ \A n \in 2..N : After(t, n) = IF t[n].next # NoNode THEN t[n].next
                                           ELSE After(t, t[n].parent)
          /\ \A n \in 2..N + 1 : After(u, n) = IF u[n].next # NoNode THEN u[n].next
                                               ELSE After(u, u[n].parent)
          /\ \A n \in 1..N : After(t, n) \in 1..N \union {FeetNode}
      BY <3>1, AfterSteps
    <3>3. \A m \in 1..N : After(u, m) = N + 1 => m \in T
      BY <1>1, <1>2, <3>2
    <3>4. u[last].next = N + 1
      BY <1>1, <3>1 DEF Appended
    <3>5. last \in T
      <4>1. last \in 2..N + 1
        BY <1>1, <3>1
      <4> QED
        BY <1>1, <3>1, <3>2, <3>3, <3>4, <4>1
    <3>6. \E d \in T : \A m \in T : m <= d
      <4> DEFINE R == {N - m : m \in T}
      <4>1. R \subseteq Nat /\ R # {}
        BY <1>1, <3>5
      <4>2. PICK k \in R : \A j \in R : k <= j
        BY <4>1, LeastNumber
      <4>3. PICK d \in T : k = N - d
        BY <4>2
      <4>4. ASSUME NEW m \in T PROVE m <= d
        <5>1. N - d <= N - m
          BY <4>2, <4>3
        <5> QED
          BY <1>1, <5>1
      <4> QED
        BY <4>3, <4>4
    <3>7. PICK d \in T : \A m \in T : m <= d
      BY <3>6
    <3>8. d \in 1..N /\ After(u, d) = N + 1 /\ After(t, d) = After(t, loc)
      BY <3>7 DEF AfterMoves, Moves
    <3>9. t[d].first = NoNode
      <4> SUFFICES ASSUME t[d].first # NoNode PROVE FALSE
        OBVIOUS
      <4>1. PICK e \in 2..N : e = t[d].last /\ d < e /\ t[e].parent = d /\ t[e].next = NoNode
        BY <1>4, <3>8
      <4>2. e # last
        <5> SUFFICES ASSUME e = last PROVE FALSE
          OBVIOUS
        <5>1. d = loc
          BY <1>4, <2>2, <4>1
        <5> QED
          BY <1>1, <1>2, <3>2, <3>8, <5>1
      <4>3. u[e].next = NoNode /\ u[e].parent = d
        BY <1>1, <4>1, <4>2 DEF Appended
      <4>4. e \in 2..N + 1 /\ e \in 1..N
        BY <1>1, <4>1
      <4>5. After(u, e) = N + 1
        BY <3>2, <3>8, <4>3, <4>4
      <4>6. e <= d
        BY <3>3, <3>7, <4>4, <4>5
      <4> QED
        BY <1>1, <3>8, <4>1, <4>6
    <3>10. PreOrderNext(u, d) = N + 1
      BY <1>3, <2>2, <3>8, <3>9 DEF PreOrderNext
    <3> QED
      BY <3>7, <3>8, <3>9, <3>10
  <2> QED
    BY <2>1, <2>2
<1>7. PICK d \in 1..N : /\ t[d].first = NoNode /\ PreOrderNext(u, d) = N + 1
                        /\ After(t, d) = After(t, loc) /\ (d = loc \/ Moves(d))
  BY <1>6
<1>8. PreOrderNext(t, d) = After(t, loc)
  BY <1>7 DEF PreOrderNext
<1>9. ASSUME NEW m \in 1..N, PreOrderNext(t, m) = PreOrderNext(t, d) PROVE m = d
  <2>1. PICK i, j \in 1..N : q[i] = m /\ q[j] = d
    BY <1>9 DEF Order
  <2>2. \A k \in 1..N : PreOrderNext(t, q[k]) = IF k = N THEN FeetNode ELSE q[k + 1]
    BY DEF Order
  <2>3. \A k \in 1..N : k # N => k + 1 \in 1..N /\ q[k + 1] \in 1..N
    <3>1. \A k \in 1..N : k # N => k + 1 \in 1..N
      BY <1>1
    <3> QED
      BY <3>1 DEF Order
  <2>4. i = N <=> j = N
    BY <1>1, <1>9, <2>1, <2>2, <2>3
  <2>5. CASE i # N /\ j # N
    <3>1. q[i + 1] = q[j + 1] /\ i + 1 \in 1..N /\ j + 1 \in 1..N
      BY <1>9, <2>1, <2>2, <2>3, <2>5
    <3>2. i + 1 = j + 1
      BY <3>1 DEF Order
    <3> QED
      BY <2>1, <3>2
  <2> QED
    BY <2>1, <2>4, <2>5
<1>10. ASSUME NEW m \in 1..N \ {d} PROVE PreOrderNext(u, m) = PreOrderNext(t, m)
  <2>1. CASE t[m].first # NoNode
    BY <1>3, <1>4, <2>1 DEF PreOrderNext
  <2>2. CASE t[m].first = NoNode
    <3>1. PreOrderNext(t, m) = After(t, m)
      BY <2>2 DEF PreOrderNext
    <3>2. m # loc /\ ~Moves(m)
      BY <1>8, <1>9, <3>1 DEF AfterMoves
    <3>3. u[m].first = NoNode /\ After(u, m) = After(t, m)
      <4> HIDE DEF Moves
      <4> QED
        BY <1>2, <1>3, <2>2, <3>2
    <3> QED
      BY <3>1, <3>3 DEF PreOrderNext
  <2> QED
    BY <2>1, <2>2
<1>11. d = loc \/ Precedes(q, N, loc, d)
  BY <1>7 DEF AfterMoves
<1>12. last \in 1..N => d = last \/ Precedes(q, N, last, d)
  <2>1. CASE d = loc
    BY <1>1, <1>4, <1>7, <2>1
  <2>2. CASE Moves(d)
    BY <2>2 DEF AfterMoves
  <2> QED
    BY <1>7, <2>1, <2>2
<1> QED
  BY <1>5, <1>7, <1>8, <1>10, <1>11, <1>12

\* A place further right for all that stood behind the p-th.
Shift(p, i) == IF i <= p THEN i ELSE i + 1

LEMMA AppendOrder ==
    ASSUME NEW t, NEW N, Shape(t, N), NEW q, Order(t, N, q), NEW loc \in 1..N, NEW data,
           NEW u, Appended(t, N, loc, data, u)
    PROVE  \E z : Order(u, N + 1, z)
<1> DEFINE last == t[loc].last
<1>1. PICK d \in 1..N :
              /\ PreOrderNext(u, d) = N + 1 /\ PreOrderNext(u, N + 1) = PreOrderNext(t, d)
              /\ \A m \in 1..N \ {d} : PreOrderNext(u, m) = PreOrderNext(t, m)
              /\ d = loc \/ Precedes(q, N, loc, d)
              /\ last \in 1..N => d = last \/ Precedes(q, N, last, d)
  BY LastBelow
<1>2. PICK p \in 1..N : q[p] = d
  BY DEF Order
<1>3. /\ q \in [1..N -> 1..N] /\ q[1] = 1
      /\ \A i, j \in 1..N : q[i] = q[j] => i = j
      /\ \A m \in 1..N : \E i \in 1..N : q[i] = m
      /\ \A i \in 1..N : PreOrderNext(t, q[i]) = IF i = N THEN FeetNode ELSE q[i + 1]
      /\ \A i \in 1..N : q[i] # 1 => \E j \in 1..N : j < i /\ q[j] = t[q[i]].parent
      /\ \A i \in 1..N : t[q[i]].next \in 1..N => \E j \in 1..N : i < j /\ q[j] = t[q[i]].next
  BY DEF Order
<1>4. /\ N \in Nat /\ N >= 1 /\ 1 \in 1..N /\ N + 1 \notin 1..N
      /\ 1..N + 1 = 1..N \union {N + 1} /\ 1..N \subseteq DOMAIN t
      /\ NoNode \notin 1..N + 1 /\ FeetNode \notin 1..N + 1
  <2>1. N \in Nat /\ N >= 1 /\ 1 \in 1..N /\ 1..N \subseteq DOMAIN t
    BY ShapeFacts DEF Shape
  <2>2. N + 1 \notin 1..N /\ 1..N + 1 = 1..N \union {N + 1} /\ N + 1 \in Nat
    BY <2>1
  <2>3. NoNode \notin 1..N + 1 /\ FeetNode \notin 1..N + 1
    BY <2>2, Pointers
  <2> QED
    BY <2>1, <2>2, <2>3
<1> DEFINE z == [i \in 1..N + 1 |-> IF i <= p THEN q[i] ELSE IF i = p + 1 THEN N + 1 ELSE q[i - 1]]
\* what stood at i stands at Shift(p, i), and p + 1 is the one new place
<1>5. /\ z[p + 1] = N + 1 /\ p + 1 \in 1..N + 1
      /\ \A i \in 1..N : /\ Shift(p, i) \in 1..N + 1 /\ Shift(p, i) # p + 1
                         /\ z[Shift(p, i)] = q[i]
      /\ \A k \in 1..N + 1 : k = p + 1 \/ \E i \in 1..N : k = Shift(p, i)
      /\ \A i, j \in 1..N : i < j => Shift(p, i) < Shift(p, j)
      /\ \A i \in 1..N : i <= p => Shift(p, i) < p + 1
  <2>1. z[p + 1] = N + 1 /\ p + 1 \in 1..N + 1
    BY <1>4
  <2>2. ASSUME NEW i \in 1..N
        PROVE  /\ Shift(p, i) \in 1..N + 1 /\ Shift(p, i) # p + 1
               /\ z[Shift(p, i)] = q[i]
    <3>1. CASE i <= p
      BY <1>4, <3>1 DEF Shift
    <3>2. CASE ~(i <= p)
      <4>1. Shift(p, i) = i + 1 /\ i + 1 \in 1..N + 1 /\ i + 1 # p + 1 /\ ~(i + 1 <= p)
            /\ i + 1 - 1 = i
        BY <1>4, <3>2 DEF Shift
      <4> QED
        BY <4>1
    <3> QED
      BY <3>1, <3>2
  <2>3. ASSUME NEW k \in 1..N + 1, k # p + 1 PROVE \E i \in 1..N : k = Shift(p, i)
    <3>1. CASE k <= p
      BY <1>4, <3>1 DEF Shift
    <3>2. CASE ~(k <= p)
      <4>1. k - 1 \in 1..N /\ ~(k - 1 <= p) /\ k - 1 + 1 = k
        BY <1>4, <2>3, <3>2
      <4> QED
        BY <4>1 DEF Shift
    <3> QED
      BY <3>1, <3>2
  <2>4. /\ \A i, j \in 1..N : i < j => Shift(p, i) < Shift(p, j)
        /\ \A i \in 1..N : i <= p => Shift(p, i) < p + 1
    BY <1>4 DEF Shift
  <2> QED
    BY <2>1, <2>2, <2>3, <2>4
<1>r. \A i \in 1..N : q[i] \in 1..N /\ q[i] \in 1..N + 1 /\ q[i] # N + 1
  <2> TAKE i \in 1..N
  <2>1. PICK m \in 1..N : m = q[i]
    BY <1>3
  <2>2. m \in 1..N + 1 /\ m # N + 1
    BY <1>4
  <2> QED
    BY <2>1, <2>2
<1>o. \A i, j \in 1..N : q[i] = q[j] => i = j
  BY <1>3
<1>s. \A i \in 1..N : z[Shift(p, i)] = q[i]
  BY <1>5
<1>6. z \in [1..N + 1 -> 1..N + 1]
  <2>1. \A k \in 1..N + 1 : z[k] \in 1..N + 1
    <3> TAKE k \in 1..N + 1
    <3> HIDE DEF z
    <3>1. CASE k = p + 1
      BY <1>4, <1>5, <3>1
    <3>2. CASE k # p + 1
      <4>1. PICK i \in 1..N : k = Shift(p, i)
        BY <1>5, <3>2
      <4> QED
        BY <1>r, <1>s, <4>1
    <3> QED
      BY <3>1, <3>2
  <2> QED
    BY <2>1
<1>7. z[1] = 1
  BY <1>3, <1>4
<1> HIDE DEF z
<1>8. ASSUME NEW i \in 1..N + 1, NEW j \in 1..N + 1, z[i] = z[j] PROVE i = j
  <2>1. CASE i = p + 1 \/ j = p + 1
    <3>1. ASSUME NEW k \in 1..N + 1, z[k] = N + 1 PROVE k = p + 1
      <4> SUFFICES ASSUME k # p + 1 PROVE FALSE
        OBVIOUS
      <4>1. PICK l \in 1..N : k = Shift(p, l)
        BY <1>5
      <4> QED
        BY <1>r, <1>s, <3>1, <4>1
    <3> QED
      BY <1>5, <1>8, <2>1, <3>1
  <2>2. CASE i # p + 1 /\ j # p + 1
    <3>1. PICK k \in 1..N : i = Shift(p, k)
      BY <1>5, <2>2
    <3>2. PICK l \in 1..N : j = Shift(p, l)
      BY <1>5, <2>2
    <3> QED
      BY <1>o, <1>s, <1>8, <3>1, <3>2
  <2> QED
    BY <2>1, <2>2
<1>9. ASSUME NEW m \in 1..N + 1 PROVE \E i \in 1..N + 1 : z[i] = m
  <2>1. CASE m = N + 1
    BY <1>5, <2>1
  <2>2. CASE m \in 1..N
    <3>1. PICK i \in 1..N : q[i] = m
      BY <1>3, <2>2
    <3> QED
      BY <1>5, <3>1
  <2> QED
    BY <1>4, <2>1, <2>2
<1>10. ASSUME NEW k \in 1..N + 1
       PROVE  PreOrderNext(u, z[k]) = IF k = N + 1 THEN FeetNode ELSE z[k + 1]
  <2>1. CASE k = p + 1
    <3>1. PreOrderNext(u, z[k]) = IF p = N THEN FeetNode ELSE q[p + 1]
      BY <1>1, <1>2, <1>3, <1>5, <2>1
    <3>2. p # N => p + 1 \in 1..N /\ Shift(p, p + 1) = p + 1 + 1
      BY <1>4 DEF Shift
    <3>3. p = N <=> k = N + 1
      BY <1>4, <2>1
    <3> QED
      BY <1>5, <2>1, <3>1, <3>2, <3>3
  <2>2. CASE k # p + 1
    <3>1. PICK i \in 1..N : k = Shift(p, i)
      BY <1>5, <2>2
    <3>2. z[k] = q[i]
      BY <1>5, <3>1
    <3>3. CASE i = p
      <4>1. k = p /\ k # N + 1
        BY <1>4, <3>1, <3>3 DEF Shift
      <4> QED
        BY <1>1, <1>2, <1>5, <3>2, <3>3, <4>1
    <3>4. CASE i # p
      <4>1. q[i] \in 1..N \ {d}
        BY <1>2, <1>3, <3>4
      <4>2. PreOrderNext(u, z[k]) = IF i = N THEN FeetNode ELSE q[i + 1]
        BY <1>1, <1>3, <3>2, <4>1
      <4>3. /\ i = N <=> k = N + 1
            /\ i # N => i + 1 \in 1..N /\ Shift(p, i + 1) = k + 1
        BY <1>4, <3>1, <3>4 DEF Shift
      <4>4. i # N => z[k + 1] = q[i + 1]
        BY <1>5, <4>3
      <4> QED
        BY <4>2, <4>3, <4>4
    <3> QED
      BY <3>3, <3>4
  <2> QED
    BY <2>1, <2>2
<1>11. ASSUME NEW k \in 1..N + 1, z[k] # 1
       PROVE  \E j \in 1..N + 1 : j < k /\ z[j] = u[z[k]].parent
  <2>1. CASE k = p + 1
    <3>1. u[z[k]].parent = loc
      BY <1>5, <2>1 DEF Appended, Node
    <3>2. PICK i \in 1..N : i <= p /\ q[i] = loc
      <4>1. CASE d = loc
        BY <1>2, <1>4, <4>1
      <4>2. CASE Precedes(q, N, loc, d)
        <5>1. PICK i, j \in 1..N : i < j /\ q[i] = loc /\ q[j] = d
          BY <4>2 DEF Precedes
        <5>2. j = p
          BY <1>2, <1>3, <5>1
        <5>3. i <= p
          BY <1>4, <5>1, <5>2
        <5> QED
          BY <5>1, <5>3
      <4> QED
        BY <1>1, <4>1, <4>2
    <3> QED
      BY <1>5, <2>1, <3>1, <3>2
  <2>2. CASE k # p + 1
    <3>1. PICK i \in 1..N : k = Shift(p, i)
      BY <1>5, <2>2
    <3>2. z[k] = q[i] /\ q[i] \in 1..N /\ q[i] \in DOMAIN t
      BY <1>3, <1>4, <1>5, <3>1
    <3>3. u[z[k]].parent = t[q[i]].parent
      BY <3>2 DEF Appended
    <3>4. PICK j \in 1..N : j < i /\ q[j] = t[q[i]].parent
      BY <1>3, <1>11, <3>2
    <3> QED
      BY <1>5, <3>1, <3>3, <3>4
  <2> QED
    BY <2>1, <2>2
<1>12. ASSUME NEW k \in 1..N + 1, u[z[k]].next \in 1..N + 1
       PROVE  \E j \in 1..N + 1 : k < j /\ z[j] = u[z[k]].next
  <2>1. CASE k = p + 1
    <3>1. u[z[k]].next = NoNode
      BY <1>5, <2>1 DEF Appended, Node
    <3> QED
      BY <1>4, <1>12, <3>1
  <2>2. CASE k # p + 1
    <3>1. PICK i \in 1..N : k = Shift(p, i)
      BY <1>5, <2>2
    <3>2. z[k] = q[i] /\ q[i] \in 1..N /\ q[i] \in DOMAIN t
      BY <1>3, <1>4, <1>5, <3>1
    <3>3. u[z[k]].next = IF q[i] = last THEN N + 1 ELSE t[q[i]].next
      BY <3>2 DEF Appended
    <3>4. CASE q[i] = last
      <4>1. last \in 1..N
        BY <3>2, <3>4
      <4>2. i <= p
        <5>1. CASE d = last
          <6>1. i = p
            BY <1>2, <1>o, <3>4, <5>1
          <6> QED
            BY <1>4, <6>1
        <5>2. CASE Precedes(q, N, last, d)
          <6>1. PICK l, j \in 1..N : l < j /\ q[l] = last /\ q[j] = d
            BY <5>2 DEF Precedes
          <6>2. j = p /\ l = i
            BY <1>2, <1>o, <3>4, <6>1
          <6> QED
            BY <1>4, <6>1, <6>2
        <5> QED
          BY <1>1, <4>1, <5>1, <5>2
      <4> QED
        BY <1>5, <3>1, <3>3, <3>4, <4>2
    <3>5. CASE q[i] # last
      <4>1. t[q[i]].next \in 1..N
        <5>1. q[i] = 1 \/ q[i] \in 2..N
          BY <1>4, <3>2
        <5>2. t[1].next = FeetNode /\ \A n \in 2..N : t[n].next # NoNode => t[n].next \in 1..N
          BY DEF Shape, EndsOK, SiblingsOK
        <5> QED
          BY <1>4, <1>12, <3>3, <3>5, <5>1, <5>2
      <4>2. PICK j \in 1..N : i < j /\ q[j] = t[q[i]].next
        BY <1>3, <4>1
      <4> QED
        BY <1>5, <3>1, <3>3, <3>5, <4>2
    <3> QED
      BY <3>4, <3>5
  <2> QED
    BY <2>1, <2>2
<1>13. Order(u, N + 1, z)
  BY <1>6, <1>7, <1>8, <1>9, <1>10, <1>11, <1>12 DEF Order
<1> QED
  BY <1>13

LEMMA EmptyFacts ==
    /\ DOMAIN EmptyTree = Sentinels /\ Members(EmptyTree) = {} /\ IsEmpty(EmptyTree)
    /\ PreOrder(EmptyTree) = <<>> /\ Fresh(EmptyTree) = 1
<1> DEFINE Starts(g) == g = [n \in Members(EmptyTree) \union {FeetNode} |->
                               IF n = FeetNode THEN <<>>
                               ELSE <<n>> \o g[PreOrderNext(EmptyTree, n)]]
           from == CHOOSE g : Starts(g)
           g == [n \in {FeetNode} |-> <<>>]
<1>1. DOMAIN EmptyTree = Sentinels /\ Members(EmptyTree) = {}
  BY DEF EmptyTree, Members
<1>2. Begin(EmptyTree) = FeetNode
  BY DEF EmptyTree, Begin, Sentinels, Node
<1>3. PreOrder(EmptyTree) = from[FeetNode]
  BY <1>2 DEF PreOrder
<1>4. Starts(g)
  BY <1>1
<1> HIDE DEF Starts, g
<1>5. Starts(from)
  BY <1>4
<1> HIDE DEF from
<1>6. from[FeetNode] = <<>>
  BY <1>1, <1>5 DEF Starts
<1>7. Fresh(EmptyTree) = 1
  BY <1>1, FS_EmptySet DEF Fresh
<1> QED
  BY <1>1, <1>2, <1>3, <1>6, <1>7 DEF IsEmpty

\* set_head on an empty tree makes a root.
LEMMA HeadShape ==
    ASSUME NEW data, NEW u, u = SetHead(EmptyTree, data)
    PROVE  /\ Shape(u, 1) /\ Order(u, 1, [i \in 1..1 |-> 1])
           /\ u[1].data = data
<1>1. /\ 1 \in Nat /\ 1 \notin Sentinels /\ NoNode # 1 /\ 1 # HeadNode /\ 1 # FeetNode
      /\ HeadNode # FeetNode /\ NoNode # HeadNode /\ NoNode # FeetNode
  BY PointersAssumption DEF Sentinels
<1>2. /\ EmptyTree[HeadNode] = Node(NoNode, NoNode, FeetNode, NoData)
      /\ EmptyTree[FeetNode] = Node(NoNode, HeadNode, NoNode, NoData)
      /\ EmptyTree[FeetNode].prev = HeadNode
  BY <1>1 DEF EmptyTree, Sentinels, Node
<1>3. u = [m \in Sentinels \union {1} |->
              IF m = 1 THEN Node(NoNode, HeadNode, FeetNode, data)
              ELSE IF m = HeadNode THEN [EmptyTree[m] EXCEPT !.next = 1]
              ELSE IF m = FeetNode THEN [EmptyTree[m] EXCEPT !.prev = 1]
              ELSE EmptyTree[m]]
  BY <1>2, EmptyFacts DEF SetHead, Insert
<1>4. /\ u[1] = Node(NoNode, HeadNode, FeetNode, data)
      /\ u[HeadNode] = [Node(NoNode, NoNode, FeetNode, NoData) EXCEPT !.next = 1]
      /\ u[FeetNode] = [Node(NoNode, HeadNode, NoNode, NoData) EXCEPT !.prev = 1]
  BY <1>1, <1>2, <1>3 DEF Sentinels
<1>5. /\ u[HeadNode].parent = NoNode /\ u[HeadNode].first = NoNode /\ u[HeadNode].last = NoNode
      /\ u[HeadNode].prev = NoNode /\ u[HeadNode].next = 1 /\ IsNode(u[HeadNode])
      /\ u[FeetNode].parent = NoNode /\ u[FeetNode].first = NoNode /\ u[FeetNode].last = NoNode
      /\ u[FeetNode].prev = 1 /\ u[FeetNode].next = NoNode /\ IsNode(u[FeetNode])
      /\ u[1].parent = NoNode /\ u[1].first = NoNode /\ u[1].last = NoNode
      /\ u[1].prev = HeadNode /\ u[1].next = FeetNode /\ u[1].data = data /\ IsNode(u[1])
  BY <1>4 DEF Node, IsNode
<1>6. DOMAIN u = Sentinels \union 1..1 /\ 2..1 = {} /\ 1..1 = {1}
  BY <1>3
<1>7. Shape(u, 1)
  <2>1. \A n \in DOMAIN u : IsNode(u[n])
    BY <1>5, <1>6 DEF Sentinels
  <2>2. EndsOK(u)
    BY <1>5 DEF EndsOK
  <2>3. \A n \in 1..1 : ChildrenOK(u, 1, n)
    BY <1>5, <1>6 DEF ChildrenOK
  <2>4. \A n \in 2..1 : SiblingsOK(u, 1, n)
    BY <1>6
  <2> QED
    BY <1>6, <2>1, <2>2, <2>3, <2>4 DEF Shape
<1>8. PreOrderNext(u, 1) = FeetNode
  BY <1>5, <1>7, AfterSteps DEF PreOrderNext
<1> DEFINE q == [i \in 1..1 |-> 1]
<1>9. q \in [1..1 -> 1..1] /\ \A i \in 1..1 : i = 1 /\ q[i] = 1
  OBVIOUS
<1> HIDE DEF q
<1>10. u[1].next \notin 1..1
  BY <1>1, <1>5, <1>6
<1>11. Order(u, 1, q)
  BY <1>6, <1>8, <1>9, <1>10 DEF Order
<1> QED
  BY <1>5, <1>7, <1>11 DEF q

Size(t) == Len(PreOrder(t))
IsTree(t) == Shape(t, Size(t)) /\ Order(t, Size(t), PreOrder(t))

LEMMA TreeIs ==
    ASSUME NEW t, NEW N, Shape(t, N), NEW q, Order(t, N, q)
    PROVE  IsTree(t) /\ Size(t) = N /\ PreOrder(t) = q
<1>1. PreOrder(t) = q /\ Len(q) = N
  BY PreOrderIs
<1> QED
  BY <1>1 DEF IsTree, Size

LEMMA TreeFacts ==
    ASSUME NEW t, IsTree(t)
    PROVE  /\ Consistent(t) /\ VisitsEachOnce(t) /\ ~IsEmpty(t)
           /\ Begin(t) = 1 /\ 1 \in Members(t) /\ Members(t) = 1..Size(t) /\ Size(t) \in Nat
           /\ Size(t) >= 1 /\ DOMAIN PreOrder(t) = 1..Size(t)
           /\ \A k \in 1..Size(t) : PreOrder(t)[k] \in 1..Size(t)
<1>1. PICK N, q : Shape(t, N) /\ Order(t, N, q) /\ N = Size(t) /\ q = PreOrder(t)
  BY DEF IsTree
<1>2. /\ N \in Nat /\ N >= 1 /\ Members(t) = 1..N /\ Begin(t) = 1 /\ 1 \in 1..N /\ ~IsEmpty(t)
      /\ \A n \in 1..N : n = 1 \/ n \in 2..N
  BY <1>1, ShapeFacts
<1>3. PreOrder(t) = q /\ DOMAIN q = 1..N
  BY <1>1, PreOrderIs
<1>4. IsInjective(q)
  BY <1>1, <1>3 DEF IsInjective, Order
<1>5. ToSet(q) = 1..N
  <2>1. (\A i \in 1..N : q[i] \in 1..N) /\ \A m \in 1..N : \E i \in 1..N : q[i] = m
    BY <1>1 DEF Order
  <2>2. ToSet(q) = {q[i] : i \in 1..N}
    BY <1>3 DEF ToSet
  <2> QED
    BY <2>1, <2>2
<1>6. Consistent(t)
  BY <1>1, <1>2 DEF Consistent, Shape, SiblingsOK, EndsOK
<1>7. \A k \in 1..N : q[k] \in 1..N
  BY <1>1 DEF Order
<1> QED
  BY <1>1, <1>2, <1>3, <1>4, <1>5, <1>6, <1>7 DEF VisitsEachOnce

LEMMA EmptyIsConsistent == Consistent(EmptyTree) /\ VisitsEachOnce(EmptyTree)
<1>1. DOMAIN <<>> = {}
  OBVIOUS
<1>2. IsInjective(<<>>) /\ ToSet(<<>>) = {}
  BY <1>1 DEF IsInjective, ToSet
<1> QED
  BY <1>2, EmptyFacts DEF Consistent, VisitsEachOnce

-----------------------------------------------------------------------------
(***************************************************************************)
(* A copy of a tree: the k-th node it allocates stands for the k-th of the    *)
(* source, and its links lead to what stands for the ends of the source's.    *)
(***************************************************************************)
Image(N, q, x) == IF x \in 1..N THEN CHOOSE k \in 1..N : q[k] = x ELSE x

ImageLinks(c, t, N, q, m, n) ==
    /\ IsNode(c[m])
    /\ c[m].parent = Image(N, q, t[n].parent)
    /\ c[m].first = Image(N, q, t[n].first) /\ c[m].last = Image(N, q, t[n].last)
    /\ c[m].prev = Image(N, q, t[n].prev) /\ c[m].next = Image(N, q, t[n].next)

IsImage(c, t, N, q) ==
    /\ DOMAIN c = Sentinels \union 1..N
    /\ \A m \in Sentinels : ImageLinks(c, t, N, q, m, m)
    /\ \A k \in 1..N : ImageLinks(c, t, N, q, k, q[k])

LEMMA Images ==
    ASSUME NEW t, NEW N \in Nat, NEW q, Order(t, N, q)
    PROVE  /\ \A n \in 1..N : Image(N, q, n) \in 1..N /\ q[Image(N, q, n)] = n
           /\ \A k \in 1..N : Image(N, q, q[k]) = k
           /\ \A x : x \notin 1..N => Image(N, q, x) = x
           /\ N >= 1 => Image(N, q, 1) = 1
           /\ Image(N, q, NoNode) = NoNode
           /\ \A x : Image(N, q, x) = NoNode <=> x = NoNode
<1>1. \A m \in 1..N : \E i \in 1..N : q[i] = m
  BY DEF Order
<1>2. \A n \in 1..N : Image(N, q, n) \in 1..N /\ q[Image(N, q, n)] = n
  BY <1>1 DEF Image
<1>3. ASSUME NEW k \in 1..N PROVE Image(N, q, q[k]) = k
  <2>1. q[k] \in 1..N /\ \A i, j \in 1..N : q[i] = q[j] => i = j
    BY DEF Order
  <2> QED
    BY <1>2, <2>1
<1>4. \A x : x \notin 1..N => Image(N, q, x) = x
  BY DEF Image
<1>5. N >= 1 => Image(N, q, 1) = 1
  <2> SUFFICES ASSUME N >= 1 PROVE Image(N, q, 1) = 1
    OBVIOUS
  <2>1. 1 \in 1..N /\ q[1] = 1
    BY DEF Order
  <2> QED
    BY <1>3, <2>1
<1>6. NoNode \notin 1..N
  BY Pointers
<1> QED
  BY <1>2, <1>3, <1>4, <1>5, <1>6

LEMMA CopyIsImage ==
    ASSUME NEW t, NEW N, Shape(t, N), NEW q, Order(t, N, q)
    PROVE  IsImage(Copy(t), t, N, q)
<1> DEFINE c == Copy(t)
<1>1. PreOrder(t) = q /\ DOMAIN q = 1..N /\ Members(t) = 1..N /\ N \in Nat
  BY ShapeFacts, PreOrderIs
<1>2. c = [m \in Sentinels \union 1..N |-> Replace(t, q, m)]
  BY <1>1 DEF Copy
<1>3. \A m \in 1..N : m \notin Sentinels
  BY <1>1, Pointers
<1>4. \A m : Replace(t, q, m) =
          [t[IF m \in Sentinels THEN m ELSE q[m]] EXCEPT
              !.parent = Image(N, q, @), !.first = Image(N, q, @), !.last = Image(N, q, @),
              !.prev = Image(N, q, @), !.next = Image(N, q, @)]
  BY <1>1 DEF Replace, Image
<1>5. ASSUME NEW m \in Sentinels \union 1..N, NEW n \in DOMAIN t,
             n = IF m \in Sentinels THEN m ELSE q[m]
      PROVE  ImageLinks(c, t, N, q, m, n)
  <2>1. PICK r : r = t[n] /\ IsNode(r)
    BY DEF Shape
  <2>2. c[m] = [r EXCEPT
              !.parent = Image(N, q, @), !.first = Image(N, q, @), !.last = Image(N, q, @),
              !.prev = Image(N, q, @), !.next = Image(N, q, @)]
    BY <1>2, <1>4, <1>5, <2>1
  <2> HIDE DEF c
  <2> QED
    BY <2>1, <2>2 DEF ImageLinks, IsNode
<1>6. /\ \A m \in Sentinels : m \in DOMAIN t
      /\ \A k \in 1..N : q[k] \in DOMAIN t
  BY DEF Shape, Order
<1> HIDE DEF c
<1>7. \A m \in Sentinels : ImageLinks(c, t, N, q, m, m)
  BY <1>5, <1>6
<1>8. \A k \in 1..N : ImageLinks(c, t, N, q, k, q[k])
  BY <1>3, <1>5, <1>6
<1>9. DOMAIN c = Sentinels \union 1..N
  BY <1>2
<1> QED
  BY <1>7, <1>8, <1>9 DEF IsImage, c

\* The image of a tree is a tree, numbered in the order of its iterator.
Counting(N) == [i \in 1..N |-> i]

LEMMA ImageShape ==
    ASSUME NEW t, NEW N, Shape(t, N), NEW q, Order(t, N, q), NEW c, IsImage(c, t, N, q)
    PROVE  Shape(c, N)
<1>1. /\ N \in Nat /\ N >= 1 /\ 1 \in 1..N /\ \A n \in 2..N : n \in 1..N /\ n # 1
      /\ NoNode \notin 1..N /\ HeadNode \notin 1..N /\ FeetNode \notin 1..N
      /\ HeadNode \in Sentinels /\ FeetNode \in Sentinels
  <2>1. N \in Nat /\ N >= 1 /\ 1 \in 1..N
    BY ShapeFacts
  <2>2. \A n \in 2..N : n \in 1..N /\ n # 1
    BY <2>1
  <2> QED
    BY <2>1, <2>2, Pointers
<1>2. /\ \A n \in 1..N : Image(N, q, n) \in 1..N /\ q[Image(N, q, n)] = n
      /\ \A k \in 1..N : Image(N, q, q[k]) = k
      /\ \A x : x \notin 1..N => Image(N, q, x) = x
      /\ Image(N, q, 1) = 1 /\ Image(N, q, NoNode) = NoNode
      /\ \A x : Image(N, q, x) = NoNode <=> x = NoNode
  BY <1>1, Images
<1>3. /\ \A k \in 1..N : q[k] \in 1..N
      /\ \A k \in 2..N : q[k] \in 2..N
      /\ q[1] = 1
  <2>1. (\A k \in 1..N : q[k] \in 1..N) /\ q[1] = 1 /\ \A i, j \in 1..N : q[i] = q[j] => i = j
    BY DEF Order
  <2>2. \A k \in 2..N : q[k] # 1
    BY <1>1, <2>1
  <2>3. \A n \in 1..N : n # 1 => n \in 2..N
    BY <1>1
  <2> QED
    BY <1>1, <2>1, <2>2, <2>3
<1>4. /\ \A m \in Sentinels : ImageLinks(c, t, N, q, m, m)
      /\ \A k \in 1..N : ImageLinks(c, t, N, q, k, q[k])
      /\ DOMAIN c = Sentinels \union 1..N
  BY DEF IsImage
<1>5. EndsOK(c)
  <2>1. ImageLinks(c, t, N, q, HeadNode, HeadNode) /\ ImageLinks(c, t, N, q, FeetNode, FeetNode)
        /\ ImageLinks(c, t, N, q, 1, 1)
    BY <1>1, <1>3, <1>4
  <2> QED
    BY <1>1, <1>2, <2>1 DEF Shape, EndsOK, ImageLinks
<1>q. /\ \A i \in 1..N : q[i] # 1 => \E j \in 1..N : j < i /\ q[j] = t[q[i]].parent
      /\ \A i \in 1..N : t[q[i]].next \in 1..N => \E j \in 1..N : i < j /\ q[j] = t[q[i]].next
  BY DEF Order
\* parents and elder siblings come first
<1>6. /\ \A n \in 2..N : Image(N, q, t[n].parent) < Image(N, q, n)
      /\ \A n \in 2..N : t[n].next # NoNode => Image(N, q, n) < Image(N, q, t[n].next)
  <2>1. ASSUME NEW n \in 2..N PROVE Image(N, q, t[n].parent) < Image(N, q, n)
    <3>1. PICK i \in 1..N : i = Image(N, q, n) /\ q[i] = n /\ q[i] # 1
      BY <1>1, <1>2
    <3>2. PICK j \in 1..N : j < i /\ q[j] = t[n].parent
      BY <1>q, <3>1
    <3> QED
      BY <1>2, <3>1, <3>2
  <2>2. ASSUME NEW n \in 2..N, t[n].next # NoNode PROVE Image(N, q, n) < Image(N, q, t[n].next)
    <3>1. PICK i \in 1..N : i = Image(N, q, n) /\ q[i] = n
      BY <1>1, <1>2
    <3>2. t[n].next \in 1..N
      BY <2>2 DEF Shape, SiblingsOK
    <3>3. PICK j \in 1..N : i < j /\ q[j] = t[n].next
      BY <1>q, <3>1, <3>2
    <3> QED
      BY <1>2, <3>1, <3>3
  <2> QED
    BY <2>1, <2>2
<1>7. ASSUME NEW k \in 1..N PROVE ChildrenOK(c, N, k)
  <2>1. PICK n \in 1..N : n = q[k] /\ Image(N, q, n) = k
    BY <1>2, <1>3
  <2>2. ChildrenOK(t, N, n) /\ ImageLinks(c, t, N, q, k, n)
    BY <1>4, <2>1 DEF Shape
  <2>3. ASSUME NEW m \in 1..N, n < m, t[m].parent = n
        PROVE  /\ Image(N, q, m) \in 1..N /\ k < Image(N, q, m)
               /\ c[Image(N, q, m)].parent = k
               /\ ImageLinks(c, t, N, q, Image(N, q, m), m)
    <3>1. m \in 2..N
      BY <1>1, <2>3
    <3>2. PICK i \in 1..N : i = Image(N, q, m) /\ q[i] = m
      BY <1>2
    <3>3. ImageLinks(c, t, N, q, i, m)
      BY <1>4, <3>2
    <3>4. k < i
      BY <1>6, <2>1, <2>3, <3>1, <3>2
    <3>5. c[i].parent = k
      BY <2>1, <2>3, <3>3 DEF ImageLinks
    <3> QED
      BY <3>2, <3>3, <3>4, <3>5
  <2>4. c[k].first = NoNode <=> c[k].last = NoNode
    BY <1>2, <2>2 DEF ImageLinks, ChildrenOK
  <2>5. ASSUME c[k].first # NoNode
        PROVE  /\ c[k].first \in 1..N /\ k < c[k].first
               /\ c[c[k].first].parent = k /\ c[c[k].first].prev = NoNode
    <3>1. PICK m \in 1..N : m = t[n].first /\ n < m /\ t[m].parent = n /\ t[m].prev = NoNode
      BY <1>2, <2>2, <2>5 DEF ImageLinks, ChildrenOK
    <3>2. c[k].first = Image(N, q, m)
      BY <2>2, <3>1 DEF ImageLinks
    <3>3. c[Image(N, q, m)].prev = NoNode
      BY <1>2, <2>3, <3>1 DEF ImageLinks
    <3> QED
      BY <2>3, <3>1, <3>2, <3>3
  <2>6. ASSUME c[k].last # NoNode
        PROVE  /\ c[k].last \in 1..N /\ k < c[k].last
               /\ c[c[k].last].parent = k /\ c[c[k].last].next = NoNode
    <3>1. PICK m \in 1..N : m = t[n].last /\ n < m /\ t[m].parent = n /\ t[m].next = NoNode
      BY <1>2, <2>2, <2>6 DEF ImageLinks, ChildrenOK
    <3>2. c[k].last = Image(N, q, m)
      BY <2>2, <3>1 DEF ImageLinks
    <3>3. c[Image(N, q, m)].next = NoNode
      BY <1>2, <2>3, <3>1 DEF ImageLinks
    <3> QED
      BY <2>3, <3>1, <3>2, <3>3
  <2> QED
    BY <2>4, <2>5, <2>6 DEF ChildrenOK
<1>8. ASSUME NEW k \in 2..N PROVE SiblingsOK(c, N, k)
  <2>1. PICK n \in 2..N : n = q[k] /\ Image(N, q, n) = k
    BY <1>1, <1>2, <1>3
  <2>2. SiblingsOK(t, N, n) /\ ImageLinks(c, t, N, q, k, n)
    BY <1>1, <1>4, <2>1 DEF Shape
  <2>3. PICK p \in 1..N : p = t[n].parent
    BY <2>2 DEF SiblingsOK
  <2>4. PICK j \in 1..N : j = Image(N, q, p) /\ q[j] = p
    BY <1>2
  <2>5. ImageLinks(c, t, N, q, j, p)
    BY <1>4, <2>4
  <2>6. c[k].parent = j /\ j < k
    BY <1>6, <2>1, <2>2, <2>3, <2>4 DEF ImageLinks
  <2>7. c[k].next = NoNode => c[j].last = k
    <3>1. c[k].next = NoNode => t[n].next = NoNode
      BY <1>2, <2>2 DEF ImageLinks
    <3>2. t[n].next = NoNode => t[p].last = n
      BY <2>2, <2>3 DEF SiblingsOK
    <3>3. c[j].last = Image(N, q, t[p].last)
      BY <2>5 DEF ImageLinks
    <3> QED
      BY <2>1, <3>1, <3>2, <3>3
  <2>8. c[k].prev = NoNode => c[j].first = k
    <3>1. c[k].prev = NoNode => t[n].prev = NoNode
      BY <1>2, <2>2 DEF ImageLinks
    <3>2. t[n].prev = NoNode => t[p].first = n
      BY <2>2, <2>3 DEF SiblingsOK
    <3>3. c[j].first = Image(N, q, t[p].first)
      BY <2>5 DEF ImageLinks
    <3> QED
      BY <2>1, <3>1, <3>2, <3>3
  <2>9. ASSUME c[k].next # NoNode
        PROVE  /\ c[k].next \in 1..N /\ k < c[k].next
               /\ c[c[k].next].prev = k /\ c[c[k].next].parent = j
    <3>1. PICK m \in 1..N : m = t[n].next /\ n < m /\ t[m].prev = n /\ t[m].parent = p
      BY <1>2, <2>2, <2>3, <2>9 DEF ImageLinks, SiblingsOK
    <3>2. PICK i \in 1..N : i = Image(N, q, m) /\ q[i] = m
      BY <1>2
    <3>3. ImageLinks(c, t, N, q, i, m) /\ k < i /\ c[k].next = i
      BY <1>2, <1>4, <1>6, <2>1, <2>2, <2>9, <3>1, <3>2 DEF ImageLinks
    <3> QED
      BY <2>1, <2>4, <3>1, <3>3 DEF ImageLinks
  <2>10. ASSUME c[k].prev # NoNode
         PROVE  /\ c[k].prev \in 1..N /\ c[k].prev < k
                /\ c[c[k].prev].next = k /\ c[c[k].prev].parent = j
    <3>1. PICK m \in 1..N : m = t[n].prev /\ m < n /\ t[m].next = n /\ t[m].parent = p
      BY <1>2, <2>2, <2>3, <2>10 DEF ImageLinks, SiblingsOK
    <3>2. PICK i \in 1..N : i = Image(N, q, m) /\ q[i] = m
      BY <1>2
    <3>3. ImageLinks(c, t, N, q, i, m) /\ c[k].prev = i
      BY <1>4, <2>2, <3>1, <3>2 DEF ImageLinks
    <3>4. m \in 2..N
      <4>1. t[1].parent = NoNode /\ p # NoNode
        BY <1>1 DEF Shape, EndsOK
      <4> QED
        BY <1>1, <3>1, <4>1
    <3>5. i < k
      <4>1. t[m].next # NoNode
        BY <1>1, <3>1
      <4> QED
        BY <1>6, <2>1, <3>1, <3>2, <3>4, <4>1
    <3> QED
      BY <2>1, <2>4, <3>1, <3>3, <3>5 DEF ImageLinks
  <2> QED
    BY <2>6, <2>7, <2>8, <2>9, <2>10 DEF SiblingsOK
<1>9. \A n \in DOMAIN c : IsNode(c[n])
  BY <1>4 DEF ImageLinks
<1> QED
  BY <1>1, <1>4, <1>5, <1>7, <1>8, <1>9 DEF Shape

LEMMA ImageOrder ==
    ASSUME NEW t, NEW N, Shape(t, N), NEW q, Order(t, N, q), NEW c, IsImage(c, t, N, q)
    PROVE  Order(c, N, Counting(N))
<1> DEFINE I(x) == Image(N, q, x)
           S == {k \in 1..N : After(c, k) = I(After(t, q[k]))}
<1>1. /\ N \in Nat /\ N >= 1 /\ 1 \in 1..N
      /\ \A n \in 1..N : n = 1 \/ n \in 2..N
      /\ \A n \in 2..N : n \in 1..N
      /\ NoNode \notin 1..N /\ FeetNode \notin 1..N
  <2>1. N \in Nat /\ N >= 1 /\ 1 \in 1..N
    BY ShapeFacts
  <2>2. \A n \in 1..N : n = 1 \/ n \in 2..N
    BY <2>1
  <2>3. \A n \in 2..N : n \in 1..N
    BY <2>1
  <2> QED
    BY <2>1, <2>2, <2>3, Pointers
<1>2. /\ \A n \in 1..N : I(n) \in 1..N /\ q[I(n)] = n
      /\ \A k \in 1..N : I(q[k]) = k
      /\ I(FeetNode) = FeetNode
      /\ \A x : I(x) = NoNode <=> x = NoNode
  BY <1>1, Images
<1>3. /\ \A k \in 1..N : q[k] \in 1..N
      /\ q[1] = 1
      /\ \A i \in 1..N : PreOrderNext(t, q[i]) = IF i = N THEN FeetNode ELSE q[i + 1]
  BY DEF Order
<1>4. Shape(c, N)
  BY ImageShape
<1>5. /\ After(t, 1) = FeetNode /\ After(c, 1) = FeetNode
      /\ \A n \in 2..N : After(t, n) = IF t[n].next # NoNode THEN t[n].next
                                       ELSE After(t, t[n].parent)
      /\ \A n \in 2..N : After(c, n) = IF c[n].next # NoNode THEN c[n].next
                                       ELSE After(c, c[n].parent)
  BY <1>4, AfterSteps
<1>6. \A k \in 1..N : /\ c[k].first = I(t[q[k]].first) /\ c[k].next = I(t[q[k]].next)
                      /\ c[k].parent = I(t[q[k]].parent)
  BY DEF IsImage, ImageLinks
<1>7. \A k \in 2..N : c[k].parent \in 1..N /\ c[k].parent < k
  BY <1>4 DEF Shape, SiblingsOK
<1>8. \A n \in 2..N : t[n].parent \in 1..N
  BY DEF Shape, SiblingsOK
<1> HIDE DEF I
<1>9. ASSUME NEW k \in 1..N, \A j \in 1..N : j < k => j \in S PROVE k \in S
  <2>1. CASE k = 1
    BY <1>2, <1>3, <1>5, <2>1
  <2>2. CASE k # 1
    <3>1. k \in 2..N
      BY <1>1, <2>2
    <3>2. PICK n \in 1..N : n = q[k] /\ I(n) = k
      BY <1>2, <1>3
    <3>3. n \in 2..N
      BY <1>1, <1>2, <1>3, <2>2, <3>2
    <3>4. CASE t[n].next # NoNode
      BY <1>2, <1>5, <1>6, <3>1, <3>2, <3>3, <3>4
    <3>5. CASE t[n].next = NoNode
      <4>1. PICK j \in 1..N : j = c[k].parent /\ j < k
        BY <1>7, <3>1
      <4>2. q[j] = t[n].parent
        BY <1>2, <1>6, <1>8, <3>2, <3>3, <4>1
      <4>3. After(c, k) = After(c, j)
        BY <1>2, <1>5, <1>6, <3>1, <3>2, <3>5, <4>1
      <4>4. After(t, n) = After(t, q[j])
        BY <1>5, <3>3, <3>5, <4>2
      <4>5. After(c, j) = I(After(t, q[j]))
        BY <1>9, <4>1
      <4> QED
        BY <3>2, <4>3, <4>4, <4>5
    <3> QED
      BY <3>4, <3>5
  <2> QED
    BY <2>1, <2>2
<1>10. \A k \in 1..N : After(c, k) = I(After(t, q[k]))
  <2> HIDE DEF S
  <2>1. 1..N \subseteq S
    BY <1>1, <1>9, Upwards
  <2> QED
    BY <2>1 DEF S
<1>11. \A k \in 1..N : PreOrderNext(c, k) = I(PreOrderNext(t, q[k]))
  BY <1>2, <1>6, <1>10 DEF PreOrderNext
<1>12. ASSUME NEW k \in 1..N PROVE PreOrderNext(c, k) = IF k = N THEN FeetNode ELSE k + 1
  <2>1. CASE k = N
    BY <1>2, <1>3, <1>11, <2>1
  <2>2. CASE k # N
    <3>1. PICK j \in 1..N : j = k + 1
      BY <1>1, <2>2
    <3>2. PreOrderNext(t, q[k]) = q[j]
      BY <1>3, <2>2, <3>1
    <3> QED
      BY <1>2, <1>11, <2>2, <3>1, <3>2
  <2> QED
    BY <2>1, <2>2
<1> DEFINE z == Counting(N)
<1>13. z \in [1..N -> 1..N] /\ \A i \in 1..N : z[i] = i
  BY DEF Counting
<1> HIDE DEF z
<1>14. \A i \in 1..N : z[i] # 1 => \E j \in 1..N : j < i /\ z[j] = c[z[i]].parent
  BY <1>1, <1>7, <1>13
<1>15. ASSUME NEW i \in 1..N, c[z[i]].next \in 1..N
       PROVE  \E j \in 1..N : i < j /\ z[j] = c[z[i]].next
  <2>1. i # 1
    BY <1>1, <1>4, <1>13, <1>15 DEF Shape, EndsOK
  <2>2. i \in 2..N /\ c[i].next # NoNode /\ c[i].next \in 1..N
    BY <1>1, <1>13, <1>15, <2>1
  <2>3. i < c[i].next
    BY <1>4, <2>2 DEF Shape, SiblingsOK
  <2> QED
    BY <1>13, <2>2, <2>3
<1>16. \A i \in 1..N : PreOrderNext(c, z[i]) = IF i = N THEN FeetNode ELSE z[i + 1]
  <2> TAKE i \in 1..N
  <2>1. i # N => i + 1 \in 1..N
    BY <1>1
  <2> QED
    BY <1>12, <1>13, <2>1
<1>17. /\ z \in [1..N -> 1..N] /\ z[1] = 1
       /\ \A i, j \in 1..N : z[i] = z[j] => i = j
       /\ \A m \in 1..N : \E i \in 1..N : z[i] = m
  BY <1>1, <1>13
<1>18. Order(c, N, z)
  BY <1>14, <1>15, <1>16, <1>17 DEF Order
<1> QED
  BY <1>18 DEF z

\* Giving the nodes new wrappers leaves the links as they are.
LEMMA RenewedIsImage ==
    ASSUME NEW t, NEW N, Shape(t, N), NEW q, Order(t, N, q), NEW first
    PROVE  LET c == Renewed(Copy(t), t, first)
           IN  /\ IsImage(c, t, N, q)
               /\ \A k \in 1..N : c[k].data = first + k
<1> DEFINE b == Copy(t)
           c == Renewed(b, t, first)
<1>1. IsImage(b, t, N, q)
  BY CopyIsImage
<1>2. Shape(b, N) /\ Order(b, N, Counting(N))
  BY <1>1, ImageShape, ImageOrder
<1>3. /\ PreOrder(b) = Counting(N) /\ DOMAIN Counting(N) = 1..N
      /\ PreOrder(t) = q /\ Len(q) = N /\ N \in Nat
  BY <1>2, PreOrderIs, ShapeFacts
<1>4. \A k \in 1..N : Counting(N)[k] = k
  BY DEF Counting
<1>5. DOMAIN b = Sentinels \union 1..N /\ Sentinels \intersect 1..N = {}
  BY <1>1, <1>3, Pointers DEF IsImage
<1>6. {k \in DOMAIN PreOrder(b) : k <= Len(PreOrder(t))} = 1..N
  BY <1>3
<1>7. c = [n \in DOMAIN b |->
            IF \E k \in 1..N : Counting(N)[k] = n
            THEN [b[n] EXCEPT !.data = first + (CHOOSE k \in 1..N : Counting(N)[k] = n)]
            ELSE b[n]]
  BY <1>3, <1>6 DEF Renewed
<1> HIDE DEF b
<1>8. \A n \in 1..N : (CHOOSE k \in 1..N : Counting(N)[k] = n) = n
  BY <1>4
<1>9. ASSUME NEW n \in 1..N PROVE c[n] = [b[n] EXCEPT !.data = first + n]
  BY <1>4, <1>5, <1>7, <1>8
<1>10. ASSUME NEW n \in Sentinels PROVE c[n] = b[n]
  BY <1>4, <1>5, <1>7
<1>11. DOMAIN c = Sentinels \union 1..N
  BY <1>5, <1>7
<1> HIDE DEF c
<1>12. ASSUME NEW k \in 1..N PROVE ImageLinks(c, t, N, q, k, q[k]) /\ c[k].data = first + k
  <2>1. ImageLinks(b, t, N, q, k, q[k])
    BY <1>1 DEF IsImage
  <2>2. PICK r : r = b[k] /\ IsNode(r)
    BY <2>1 DEF ImageLinks
  <2>3. c[k] = [r EXCEPT !.data = first + k]
    BY <1>9, <2>2
  <2> QED
    BY <2>1, <2>2, <2>3 DEF ImageLinks, IsNode
<1>13. \A m \in Sentinels : ImageLinks(c, t, N, q, m, m)
  BY <1>1, <1>10 DEF IsImage, ImageLinks
<1>14. IsImage(c, t, N, q)
  BY <1>11, <1>12, <1>13 DEF IsImage
<1> QED
  BY <1>12, <1>14 DEF c, b

-----------------------------------------------------------------------------
(***************************************************************************)
(* The lines and the children of nodes, after append_child and in a copy.     *)
(***************************************************************************)
LEMMA ChildrenFacts ==
    ASSUME NEW t, NEW N, Shape(t, N), NEW n \in 1..N
    PROVE  /\ Children(t, n) = Siblings(t)[t[n].first]
           /\ t[n].first = NoNode => Children(t, n) = <<>>
           /\ Children(t, n) \in Seq({c \in 2..N : t[c].parent = n})
<1>1. Children(t, n) = Siblings(t)[t[n].first]
  BY DEF Children, Siblings
<1>2. /\ Siblings(t)[NoNode] = <<>>
      /\ \A m \in 2..N : Siblings(t)[m] \in Seq({c \in 2..N : t[c].parent = t[m].parent})
  BY SiblingSteps
<1>3. CASE t[n].first = NoNode
  <2> DEFINE C == {c \in 2..N : t[c].parent = n}
  <2>1. <<>> \in Seq(C)
    BY EmptySeq
  <2> HIDE DEF C
  <2>2. Children(t, n) = <<>>
    BY <1>1, <1>2, <1>3
  <2>3. Children(t, n) \in Seq(C)
    BY <2>1, <2>2
  <2> QED
    BY <1>1, <2>2, <2>3 DEF C
<1>4. CASE t[n].first # NoNode
  <2>1. PICK m \in 1..N : m = t[n].first /\ n < m /\ t[m].parent = n
    BY <1>4 DEF Shape, ChildrenOK
  <2>2. m \in 2..N
    BY <2>1, ShapeFacts
  <2>3. Siblings(t)[m] \in Seq({c \in 2..N : t[c].parent = n})
    BY <1>2, <2>1, <2>2
  <2> QED
    BY <1>1, <1>4, <2>1, <2>3
<1> QED
  BY <1>1, <1>3, <1>4

LEMMA AppendLineage ==
    ASSUME NEW t, NEW N, Shape(t, N), NEW loc \in 1..N, NEW data,
           NEW u, Appended(t, N, loc, data, u)
    PROVE  /\ \A n \in 1..N : Lineage(u, n) = Lineage(t, n)
           /\ Lineage(u, N + 1) = <<N + 1>> \o Lineage(t, loc)
<1>1. /\ N \in Nat /\ (\A n \in 1..N : n = 1 \/ n \in 2..N) /\ 1..N \subseteq DOMAIN t
      /\ N + 1 \in 2..N + 1 /\ \A n \in 2..N : n \in 2..N + 1 /\ n \in 1..N
  BY ShapeFacts DEF Shape
<1>2. Shape(u, N + 1)
  BY AppendShape
<1>3. /\ Lineage(t, 1) = <<1>> /\ Lineage(u, 1) = <<1>>
      /\ \A n \in 2..N : Lineage(t, n) = <<n>> \o Lineage(t, t[n].parent)
      /\ \A n \in 2..N + 1 : Lineage(u, n) = <<n>> \o Lineage(u, u[n].parent)
  BY <1>2, LineageSteps
<1>4. (\A n \in 1..N : u[n].parent = t[n].parent) /\ u[N + 1].parent = loc
  BY <1>1 DEF Appended, Node
<1>5. \A n \in 2..N : t[n].parent \in 1..N /\ t[n].parent < n
  BY DEF Shape, SiblingsOK
<1> DEFINE S == {n \in 1..N : Lineage(u, n) = Lineage(t, n)}
<1>6. ASSUME NEW k \in 1..N, \A j \in 1..N : j < k => j \in S PROVE k \in S
  <2>1. CASE k = 1
    BY <1>3, <2>1
  <2>2. CASE k # 1
    <3>1. k \in 2..N /\ k \in 2..N + 1
      BY <1>1, <2>2
    <3>2. Lineage(u, t[k].parent) = Lineage(t, t[k].parent)
      BY <1>5, <1>6, <3>1
    <3> QED
      BY <1>3, <1>4, <3>1, <3>2
  <2> QED
    BY <2>1, <2>2
<1> HIDE DEF S
<1>7. 1..N \subseteq S
  BY <1>1, <1>6, Upwards
<1>8. \A n \in 1..N : Lineage(u, n) = Lineage(t, n)
  BY <1>7 DEF S
<1> QED
  BY <1>1, <1>3, <1>4, <1>8

LEMMA ConcatNumbers ==
    ASSUME NEW a \in Seq(Nat), NEW b \in Seq(Nat), NEW c \in Seq(Nat)
    PROVE  (a \o b) \o c = a \o (b \o c)
BY ConcatAssociative

LEMMA AppendSiblings ==
    ASSUME NEW t, NEW N, Shape(t, N), NEW loc \in 1..N, NEW data,
           NEW u, Appended(t, N, loc, data, u)
    PROVE  \A n \in 2..N :
              Siblings(u)[n] = IF t[n].parent = loc THEN Siblings(t)[n] \o <<N + 1>>
                               ELSE Siblings(t)[n]
<1> DEFINE last == t[loc].last
           s == Siblings(t)
           r == Siblings(u)
           S == {n \in 1..N : n \in 2..N =>
                    r[n] = IF t[n].parent = loc THEN s[n] \o <<N + 1>> ELSE s[n]}
<1>1. /\ N \in Nat /\ 1..N \subseteq DOMAIN t /\ N + 1 # NoNode
      /\ N + 1 \in 2..N + 1 /\ \A n \in 2..N : n \in 2..N + 1 /\ n \in 1..N
  <2>1. N \in Nat /\ 1..N \subseteq DOMAIN t /\ N + 1 \in Nat
    BY ShapeFacts DEF Shape
  <2>2. N + 1 # NoNode
    BY <2>1, PointersAssumption
  <2>3. N + 1 \in 2..N + 1 /\ \A n \in 2..N : n \in 2..N + 1 /\ n \in 1..N
    BY <2>1, ShapeFacts
  <2> QED
    BY <2>1, <2>2, <2>3
<1>2. Shape(u, N + 1)
  BY AppendShape
<1>3. /\ s[NoNode] = <<>> /\ r[NoNode] = <<>>
      /\ \A n \in 2..N : s[n] = <<n>> \o s[t[n].next]
      /\ \A n \in 2..N + 1 : r[n] = <<n>> \o r[u[n].next]
      /\ \A n \in 2..N : s[n] \in Seq({c \in 2..N : t[c].parent = t[n].parent})
  BY <1>2, SiblingSteps
<1>4. /\ \A n \in 1..N : u[n].next = IF n = last THEN N + 1 ELSE t[n].next
      /\ u[N + 1].next = NoNode
  BY <1>1 DEF Appended, Node
<1>5. /\ \A n \in 2..N : t[n].next = NoNode => t[t[n].parent].last = n
      /\ \A n \in 2..N : t[n].next # NoNode => /\ t[n].next \in 1..N /\ n < t[n].next
                                               /\ t[t[n].next].parent = t[n].parent
      /\ last # NoNode => t[last].parent = loc /\ t[last].next = NoNode
  BY DEF Shape, SiblingsOK, ChildrenOK
<1>6. r[N + 1] = <<N + 1>>
  <2>1. r[N + 1] = <<N + 1>> \o <<>>
    BY <1>1, <1>3, <1>4
  <2>2. <<N + 1>> \in Seq(Nat)
    BY <1>1
  <2> QED
    BY <2>1, <2>2, ConcatEmptySeq
<1>7. ASSUME NEW k \in 1..N, \A j \in 1..N : k < j => j \in S PROVE k \in S
  <2> SUFFICES ASSUME k \in 2..N
               PROVE  r[k] = IF t[k].parent = loc THEN s[k] \o <<N + 1>> ELSE s[k]
    OBVIOUS
  <2>1. /\ s[k] = <<k>> \o s[t[k].next] /\ r[k] = <<k>> \o r[u[k].next]
        /\ u[k].next = IF k = last THEN N + 1 ELSE t[k].next
    BY <1>1, <1>3, <1>4
  <2>4. k \in Nat /\ N + 1 \in Nat /\ <<k>> \in Seq(Nat) /\ <<N + 1>> \in Seq(Nat)
    BY <1>1
  <2>2. CASE t[k].next = NoNode
    <3>1. s[k] = <<k>>
      BY <1>3, <2>1, <2>2, <2>4, ConcatEmptySeq
    <3>2. CASE t[k].parent = loc
      <4>1. k = last
        BY <1>5, <2>2, <3>2
      <4> QED
        BY <1>6, <2>1, <3>1, <3>2, <4>1
    <3>3. CASE t[k].parent # loc
      <4>1. k # last
        BY <1>1, <1>5, <3>3, Pointers
      <4>2. r[k] = <<k>> \o <<>>
        BY <1>3, <2>1, <2>2, <4>1
      <4> QED
        BY <2>1, <2>4, <3>1, <3>3, <4>2, ConcatEmptySeq
    <3> QED
      BY <3>2, <3>3
  <2>3. CASE t[k].next # NoNode
    <3>1. PICK j \in 1..N : j = t[k].next /\ k < j /\ t[j].parent = t[k].parent
      BY <1>5, <2>3
    <3>2. j \in 2..N /\ j \in S
      BY <1>1, <1>7, <3>1
    <3>3. r[j] = IF t[k].parent = loc THEN s[j] \o <<N + 1>> ELSE s[j]
      BY <3>1, <3>2
    <3>4. k # last
      BY <1>1, <1>5, <2>3, Pointers
    <3>5. s[k] = <<k>> \o s[j] /\ r[k] = <<k>> \o r[j]
      BY <2>1, <3>1, <3>4
    <3>6. s[j] \in Seq(Nat)
      <4>1. {c \in 2..N : t[c].parent = t[j].parent} \subseteq Nat
        BY <1>1
      <4> QED
        BY <1>3, <3>2, <4>1, SeqMonotonic
    <3>7. (<<k>> \o s[j]) \o <<N + 1>> = <<k>> \o (s[j] \o <<N + 1>>)
      <4>1. PICK v \in Seq(Nat) : v = s[j]
        BY <3>6
      <4>2. (<<k>> \o v) \o <<N + 1>> = <<k>> \o (v \o <<N + 1>>)
        BY <2>4, ConcatNumbers
      <4> QED
        BY <4>1, <4>2
    <3> HIDE DEF s, r
    <3> QED
      BY <3>3, <3>5, <3>7
  <2> QED
    BY <2>2, <2>3
<1> HIDE DEF S
<1>8. 1..N \subseteq S
  BY <1>1, <1>7, Downwards
<1> QED
  BY <1>1, <1>8 DEF S

LEMMA AppendChildren ==
    ASSUME NEW t, NEW N, Shape(t, N), NEW loc \in 1..N, NEW data,
           NEW u, Appended(t, N, loc, data, u)
    PROVE  /\ \A n \in 1..N \ {loc} : Children(u, n) = Children(t, n)
           /\ Children(u, loc) = Children(t, loc) \o <<N + 1>>
           /\ Children(u, N + 1) = <<>>
<1>1. /\ N \in Nat /\ 1..N \subseteq DOMAIN t /\ NoNode # N + 1
      /\ N + 1 \in 2..N + 1 /\ N + 1 \in 1..N + 1
      /\ \A n \in 1..N : n \in 1..N + 1
  <2>1. N \in Nat /\ 1..N \subseteq DOMAIN t /\ N + 1 \in Nat
    BY ShapeFacts DEF Shape
  <2>2. N + 1 # NoNode
    BY <2>1, PointersAssumption
  <2>3. N + 1 \in 2..N + 1 /\ N + 1 \in 1..N + 1 /\ \A n \in 1..N : n \in 1..N + 1
    BY <2>1, ShapeFacts
  <2> QED
    BY <2>1, <2>2, <2>3
<1>2. Shape(u, N + 1)
  BY AppendShape
<1>3. \A n \in 2..N :
          Siblings(u)[n] = IF t[n].parent = loc THEN Siblings(t)[n] \o <<N + 1>>
                           ELSE Siblings(t)[n]
  BY AppendSiblings
<1>4. /\ \A n \in 1..N : Children(t, n) = Siblings(t)[t[n].first]
      /\ \A n \in 1..N : t[n].first = NoNode => Children(t, n) = <<>>
      /\ \A n \in 1..N + 1 : Children(u, n) = Siblings(u)[u[n].first]
      /\ \A n \in 1..N + 1 : u[n].first = NoNode => Children(u, n) = <<>>
  BY <1>2, ChildrenFacts
<1>5. /\ \A n \in 1..N : u[n].first = IF n = loc /\ t[loc].last = NoNode THEN N + 1 ELSE t[n].first
      /\ u[N + 1].first = NoNode /\ u[N + 1].next = NoNode
  BY <1>1 DEF Appended, Node
<1>6. /\ \A n \in 1..N : t[n].first # NoNode => t[n].first \in 2..N /\ t[t[n].first].parent = n
      /\ t[loc].first = NoNode <=> t[loc].last = NoNode
  BY <1>1 DEF Shape, ChildrenOK
<1>7. ASSUME NEW n \in 1..N \ {loc} PROVE Children(u, n) = Children(t, n)
  <2>1. CASE t[n].first = NoNode
    BY <1>1, <1>4, <1>5, <2>1
  <2>2. CASE t[n].first # NoNode
    <3>1. PICK m \in 2..N : m = t[n].first /\ t[m].parent # loc
      BY <1>6, <2>2
    <3>2. Children(t, n) = Siblings(t)[m] /\ Children(u, n) = Siblings(u)[m]
      BY <1>1, <1>4, <1>5, <3>1
    <3> QED
      BY <1>3, <3>1, <3>2
  <2> QED
    BY <2>1, <2>2
<1>8. Children(u, loc) = Children(t, loc) \o <<N + 1>>
  <2>1. <<N + 1>> \in Seq(Nat)
    BY <1>1
  <2>2. CASE t[loc].first = NoNode
    <3>1. Children(t, loc) = <<>> /\ Children(u, loc) = Siblings(u)[N + 1]
      BY <1>1, <1>4, <1>5, <1>6, <2>2
    <3>2. Siblings(u)[N + 1] = <<N + 1>> \o <<>>
      <4>1. /\ Siblings(u)[NoNode] = <<>>
            /\ \A n \in 2..N + 1 : Siblings(u)[n] = <<n>> \o Siblings(u)[u[n].next]
        BY <1>2, SiblingSteps
      <4> QED
        BY <1>1, <1>5, <4>1
    <3>3. <<N + 1>> \o <<>> = <<>> \o <<N + 1>>
      BY <2>1, ConcatEmptySeq
    <3> QED
      BY <3>1, <3>2, <3>3
  <2>3. CASE t[loc].first # NoNode
    <3>1. PICK m \in 2..N : m = t[loc].first /\ t[m].parent = loc
      BY <1>6, <2>3
    <3>2. Children(t, loc) = Siblings(t)[m] /\ Children(u, loc) = Siblings(u)[m]
      BY <1>1, <1>4, <1>5, <1>6, <2>3, <3>1
    <3> QED
      BY <1>3, <3>1, <3>2
  <2> QED
    BY <2>2, <2>3
<1>9. Children(u, N + 1) = <<>>
  BY <1>1, <1>4, <1>5
<1> QED
  BY <1>7, <1>8, <1>9

\* a is a line of numbers of nodes of a copy, b that of the nodes they stand for.
StandsFor(q, a, b) ==
    /\ Len(a) = Len(b)
    /\ \A i \in 1..Len(a) : q[a[i]] = b[i]

LEMMA StandsForLonger ==
    ASSUME NEW N \in Nat, NEW q, NEW k \in 1..N, NEW n \in 1..N, q[k] = n,
           NEW a \in Seq(1..N), NEW b \in Seq(1..N), StandsFor(q, a, b)
    PROVE  StandsFor(q, <<k>> \o a, <<n>> \o b)
<1>1. /\ Len(<<k>> \o a) = Len(a) + 1
      /\ <<k>> \o a = [i \in 1..Len(a) + 1 |-> IF i = 1 THEN k ELSE a[i - 1]]
  BY Prefixed
<1>2. /\ Len(<<n>> \o b) = Len(b) + 1
      /\ <<n>> \o b = [i \in 1..Len(b) + 1 |-> IF i = 1 THEN n ELSE b[i - 1]]
  BY Prefixed
<1>3. Len(a) = Len(b) /\ Len(a) \in Nat /\ \A i \in 1..Len(a) : q[a[i]] = b[i]
  BY DEF StandsFor
<1>4. ASSUME NEW i \in 1..Len(a) + 1 PROVE q[(<<k>> \o a)[i]] = (<<n>> \o b)[i]
  <2>1. /\ (<<k>> \o a)[i] = IF i = 1 THEN k ELSE a[i - 1]
        /\ (<<n>> \o b)[i] = IF i = 1 THEN n ELSE b[i - 1]
    BY <1>1, <1>2, <1>3
  <2>2. i # 1 => i - 1 \in 1..Len(a)
    BY <1>3
  <2>3. CASE i = 1
    BY <2>1, <2>3
  <2>4. CASE i # 1
    BY <1>3, <2>1, <2>2, <2>4
  <2> QED
    BY <2>3, <2>4
<1> QED
  BY <1>1, <1>2, <1>3, <1>4 DEF StandsFor

LEMMA ImageLineage ==
    ASSUME NEW t, NEW N, Shape(t, N), NEW q, Order(t, N, q), NEW c, IsImage(c, t, N, q)
    PROVE  \A k \in 1..N : StandsFor(q, Lineage(c, k), Lineage(t, q[k]))
<1> DEFINE S == {k \in 1..N : StandsFor(q, Lineage(c, k), Lineage(t, q[k]))}
<1>1. /\ N \in Nat /\ N >= 1 /\ 1 \in 1..N
      /\ \A n \in 1..N : n = 1 \/ n \in 2..N
      /\ \A n \in 2..N : n \in 1..N
  BY ShapeFacts
<1>2. /\ \A n \in 1..N : Image(N, q, n) \in 1..N /\ q[Image(N, q, n)] = n
      /\ \A k \in 1..N : Image(N, q, q[k]) = k
  BY <1>1, Images
<1>3. (\A k \in 1..N : q[k] \in 1..N) /\ q[1] = 1
  BY DEF Order
<1>4. Shape(c, N)
  BY ImageShape
<1>5. /\ \A n \in 1..N : Lineage(t, n) \in Seq(1..N)
      /\ Lineage(t, 1) = <<1>>
      /\ \A n \in 2..N : Lineage(t, n) = <<n>> \o Lineage(t, t[n].parent)
  BY LineageSteps
<1>6. /\ \A n \in 1..N : Lineage(c, n) \in Seq(1..N)
      /\ Lineage(c, 1) = <<1>>
      /\ \A n \in 2..N : Lineage(c, n) = <<n>> \o Lineage(c, c[n].parent)
  BY <1>4, LineageSteps
<1>7. \A k \in 1..N : c[k].parent = Image(N, q, t[q[k]].parent)
  BY DEF IsImage, ImageLinks
<1>8. /\ \A k \in 2..N : c[k].parent \in 1..N /\ c[k].parent < k
      /\ \A n \in 2..N : t[n].parent \in 1..N
  BY <1>4 DEF Shape, SiblingsOK
<1>9. ASSUME NEW k \in 1..N, \A j \in 1..N : j < k => j \in S PROVE k \in S
  <2>1. CASE k = 1
    <3>1. Lineage(c, k) = <<1>> /\ Lineage(t, q[k]) = <<1>>
      BY <1>3, <1>5, <1>6, <2>1
    <3>2. StandsFor(q, <<1>>, <<1>>)
      BY <1>3 DEF StandsFor
    <3> QED
      BY <3>1, <3>2
  <2>2. CASE k # 1
    <3>1. k \in 2..N
      BY <1>1, <2>2
    <3>2. PICK n \in 1..N : n = q[k] /\ Image(N, q, n) = k
      BY <1>2, <1>3
    <3>3. n \in 2..N
      BY <1>1, <1>2, <1>3, <2>2, <3>2
    <3>4. PICK j \in 1..N : j = c[k].parent /\ j < k
      BY <1>8, <3>1
    <3>5. q[j] = t[n].parent
      BY <1>2, <1>7, <1>8, <3>2, <3>3, <3>4
    <3>6. StandsFor(q, Lineage(c, j), Lineage(t, q[j]))
      BY <1>9, <3>4
    <3>7. Lineage(c, j) \in Seq(1..N) /\ Lineage(t, q[j]) \in Seq(1..N)
      BY <1>3, <1>5, <1>6
    <3>8. StandsFor(q, <<k>> \o Lineage(c, j), <<n>> \o Lineage(t, q[j]))
      BY <1>1, <3>2, <3>6, <3>7, StandsForLonger
    <3> QED
      BY <1>5, <1>6, <3>1, <3>2, <3>3, <3>4, <3>5, <3>8
  <2> QED
    BY <2>1, <2>2
<1> HIDE DEF S
<1>10. 1..N \subseteq S
  BY <1>1, <1>9, Upwards
<1> QED
  BY <1>10 DEF S

LEMMA ImageChildren ==
    ASSUME NEW t, NEW N, Shape(t, N), NEW q, Order(t, N, q), NEW c, IsImage(c, t, N, q)
    PROVE  \A k \in 1..N : StandsFor(q, Children(c, k), Children(t, q[k]))
<1> DEFINE S == {k \in 1..N : k \in 2..N => StandsFor(q, Siblings(c)[k], Siblings(t)[q[k]])}
<1>1. /\ N \in Nat /\ N >= 1 /\ 1 \in 1..N
      /\ \A n \in 1..N : n = 1 \/ n \in 2..N
      /\ \A n \in 2..N : n \in 1..N
      /\ NoNode \notin 1..N
  <2>1. N \in Nat /\ N >= 1 /\ 1 \in 1..N
    BY ShapeFacts
  <2>2. \A n \in 1..N : n = 1 \/ n \in 2..N
    BY <2>1
  <2>3. \A n \in 2..N : n \in 1..N
    BY <2>1
  <2> QED
    BY <2>1, <2>2, <2>3, Pointers
<1>2. /\ \A n \in 1..N : Image(N, q, n) \in 1..N /\ q[Image(N, q, n)] = n
      /\ \A k \in 1..N : Image(N, q, q[k]) = k
      /\ \A x : Image(N, q, x) = NoNode <=> x = NoNode
  BY <1>1, Images
<1>3. (\A k \in 1..N : q[k] \in 1..N) /\ q[1] = 1
  BY DEF Order
<1>4. Shape(c, N)
  BY ImageShape
<1>5. /\ Siblings(t)[NoNode] = <<>> /\ Siblings(c)[NoNode] = <<>>
      /\ \A n \in 2..N : Siblings(t)[n] = <<n>> \o Siblings(t)[t[n].next]
      /\ \A n \in 2..N : Siblings(c)[n] = <<n>> \o Siblings(c)[c[n].next]
  BY <1>4, SiblingSteps
<1>6. /\ \A n \in 2..N : Siblings(t)[n] \in Seq(1..N)
      /\ \A n \in 2..N : Siblings(c)[n] \in Seq(1..N)
  <2>1. ASSUME NEW n \in 2..N, NEW b, Shape(b, N) PROVE Siblings(b)[n] \in Seq(1..N)
    <3> DEFINE D == {m \in 2..N : b[m].parent = b[n].parent}
    <3>1. Siblings(b)[n] \in Seq(D)
      BY <2>1, SiblingSteps
    <3>2. D \subseteq 1..N
      BY <1>1
    <3> HIDE DEF D
    <3> QED
      BY <3>1, <3>2, SeqMonotonic
  <2> QED
    BY <1>4, <2>1
<1>7. \A k \in 1..N : /\ c[k].next = Image(N, q, t[q[k]].next)
                      /\ c[k].first = Image(N, q, t[q[k]].first)
  BY DEF IsImage, ImageLinks
<1>8. /\ \A k \in 2..N : c[k].next # NoNode => c[k].next \in 1..N /\ k < c[k].next
      /\ \A n \in 2..N : t[n].next # NoNode => t[n].next \in 1..N
  BY <1>4 DEF Shape, SiblingsOK
<1>9. ASSUME NEW k \in 1..N, \A j \in 1..N : k < j => j \in S PROVE k \in S
  <2> SUFFICES ASSUME k \in 2..N PROVE StandsFor(q, Siblings(c)[k], Siblings(t)[q[k]])
    OBVIOUS
  <2>1. PICK n \in 1..N : n = q[k] /\ Image(N, q, n) = k
    BY <1>2, <1>3
  <2>2. n \in 2..N
    <3>1. Image(N, q, 1) = 1 /\ k # 1
      BY <1>1, <1>2, <1>3
    <3> QED
      BY <1>1, <2>1, <3>1
  <2>3. /\ Siblings(c)[k] = <<k>> \o Siblings(c)[c[k].next]
        /\ Siblings(t)[n] = <<n>> \o Siblings(t)[t[n].next]
    BY <1>5, <2>2
  <2>4. CASE t[n].next = NoNode
    <3>1. c[k].next = NoNode
      BY <1>2, <1>7, <2>1, <2>4
    <3>2. <<>> \in Seq(1..N) /\ StandsFor(q, <<>>, <<>>)
      BY DEF StandsFor
    <3>3. StandsFor(q, <<k>> \o <<>>, <<n>> \o <<>>)
      BY <1>1, <2>1, <3>2, StandsForLonger
    <3> QED
      BY <1>5, <2>1, <2>3, <2>4, <3>1, <3>3
  <2>5. CASE t[n].next # NoNode
    <3>1. c[k].next # NoNode
      BY <1>2, <1>7, <2>1, <2>5
    <3>2. PICK j \in 1..N : j = c[k].next /\ k < j
      BY <1>8, <3>1
    <3>3. q[j] = t[n].next /\ q[j] \in 1..N
      BY <1>2, <1>3, <1>7, <1>8, <2>1, <2>2, <2>5, <3>2
    <3>4. j \in 2..N /\ j \in S
      BY <1>1, <1>9, <3>2
    <3>5. StandsFor(q, Siblings(c)[j], Siblings(t)[q[j]])
      BY <3>4
    <3>6. q[j] \in 2..N
      <4>1. q[j] # 1
        <5>1. Image(N, q, 1) = 1 /\ j # 1
          BY <1>1, <1>2, <1>3, <3>4
        <5> QED
          BY <1>2, <5>1
      <4> QED
        BY <1>1, <3>3, <4>1
    <3>7. Siblings(c)[j] \in Seq(1..N) /\ Siblings(t)[q[j]] \in Seq(1..N)
      BY <1>6, <3>4, <3>6
    <3>8. StandsFor(q, <<k>> \o Siblings(c)[j], <<n>> \o Siblings(t)[q[j]])
      BY <1>1, <2>1, <3>5, <3>7, StandsForLonger
    <3> QED
      BY <2>1, <2>3, <3>2, <3>3, <3>8
  <2> QED
    BY <2>4, <2>5
<1> HIDE DEF S
<1>10. 1..N \subseteq S
  BY <1>1, <1>9, Downwards
<1>11. ASSUME NEW k \in 1..N PROVE StandsFor(q, Children(c, k), Children(t, q[k]))
  <2>1. PICK n \in 1..N : n = q[k]
    BY <1>3
  <2>2. /\ Children(c, k) = Siblings(c)[c[k].first] /\ Children(t, n) = Siblings(t)[t[n].first]
    BY <1>4, ChildrenFacts
  <2>3. CASE t[n].first = NoNode
    <3>1. Children(c, k) = <<>> /\ Children(t, n) = <<>>
      BY <1>2, <1>5, <1>7, <2>1, <2>2, <2>3
    <3>2. StandsFor(q, <<>>, <<>>)
      BY DEF StandsFor
    <3> QED
      BY <2>1, <3>1, <3>2
  <2>4. CASE t[n].first # NoNode
    <3>1. c[k].first # NoNode
      BY <1>2, <1>7, <2>1, <2>4
    <3>2. PICK j \in 1..N : j = c[k].first /\ k < j
      BY <1>4, <3>1 DEF Shape, ChildrenOK
    <3>3. t[n].first \in 1..N
      BY <2>4 DEF Shape, ChildrenOK
    <3>4. q[j] = t[n].first
      BY <1>2, <1>7, <2>1, <3>2, <3>3
    <3>5. j \in 2..N
      BY <1>1, <3>2
    <3>6. StandsFor(q, Siblings(c)[j], Siblings(t)[q[j]])
      BY <1>10, <3>5 DEF S
    <3> QED
      BY <2>1, <2>2, <3>2, <3>4, <3>6
  <2> QED
    BY <2>3, <2>4
<1> QED
  BY <1>11

-----------------------------------------------------------------------------
(***************************************************************************)
(* The place of a node, in a copy and below another node.                     *)
(***************************************************************************)
IndexIn(t, line, k) ==
    CHOOSE i \in DOMAIN Children(t, line[k + 1]) : Children(t, line[k + 1])[i] = line[k]

Indices(t, line, d) == [j \in 1..d |-> IndexIn(t, line, d - j + 1)]

LEMMA PlaceIs ==
    ASSUME NEW t, NEW N, Shape(t, N), NEW n \in 1..N
    PROVE  /\ Depth(t, n) \in Nat /\ Len(Lineage(t, n)) = Depth(t, n) + 1
           /\ Place(t, n) = Indices(t, Lineage(t, n), Depth(t, n))
           /\ Len(Place(t, n)) = Depth(t, n)
<1> DEFINE D == Depth(t, n)
           F == [k \in 1..D |-> IndexIn(t, Lineage(t, n), k)]
<1>1. D \in Nat /\ Len(Lineage(t, n)) = D + 1
  <2>1. /\ \A m \in 1..N : Lineage(t, m) \in Seq(1..N)
        /\ Lineage(t, 1) = <<1>>
        /\ \A m \in 2..N : Lineage(t, m) = <<m>> \o Lineage(t, t[m].parent)
    BY LineageSteps
  <2>2. N \in Nat /\ N >= 1
    BY ShapeFacts
  <2>3. CASE n = 1
    <3>1. Lineage(t, n) = <<1>> /\ Len(<<1>>) = 1
      BY <2>1, <2>3
    <3> QED
      BY <3>1 DEF Depth
  <2>4. CASE n # 1
    <3>1. n \in 2..N /\ t[n].parent \in 1..N
      BY <2>2, <2>4 DEF Shape, SiblingsOK
    <3>2. Len(Lineage(t, n)) = Len(Lineage(t, t[n].parent)) + 1
      <4>1. PICK v \in Seq(1..N) : v = Lineage(t, t[n].parent)
        BY <2>1, <3>1
      <4>2. Len(<<n>> \o v) = Len(v) + 1
        BY Prefixed
      <4> QED
        BY <2>1, <3>1, <4>1, <4>2
    <3>3. Len(Lineage(t, t[n].parent)) \in Nat
      BY <2>1, <3>1
    <3> QED
      BY <3>2, <3>3 DEF Depth
  <2> QED
    BY <2>3, <2>4
<1>2. Place(t, n) = Reverse(F)
  BY DEF Place, IndexIn
<1>3. Len(F) = D
  <2>1. F \in [1..D -> {F[k] : k \in 1..D}]
    OBVIOUS
  <2> HIDE DEF F, D
  <2> QED
    BY <1>1, <2>1, FunctionIsSeq
<1>4. \A j \in 1..D : D - j + 1 \in 1..D
  BY <1>1
<1>5. Reverse(F) = [j \in 1..D |-> F[D - j + 1]]
  <2> HIDE DEF F, D
  <2> QED
    BY <1>3 DEF Reverse
<1>6. Reverse(F) = [j \in 1..D |-> IndexIn(t, Lineage(t, n), D - j + 1)]
  <2>1. \A j \in 1..D : F[D - j + 1] = IndexIn(t, Lineage(t, n), D - j + 1)
    BY <1>4
  <2> HIDE DEF F, D
  <2> QED
    BY <1>5, <2>1
<1>7. Len(Reverse(F)) = D
  <2> DEFINE R == Reverse(F)
  <2>1. R \in [1..D -> {R[k] : k \in 1..D}]
    <3> HIDE DEF F, D
    <3> QED
      BY <1>5
  <2> HIDE DEF R, F, D
  <2>2. Len(R) = D
    BY <1>1, <2>1, FunctionIsSeq
  <2> QED
    BY <2>2 DEF R
<1> HIDE DEF F
<1> QED
  BY <1>1, <1>2, <1>6, <1>7 DEF Indices

LEMMA ImagePlace ==
    ASSUME NEW t, NEW N, Shape(t, N), NEW q, Order(t, N, q), NEW c, IsImage(c, t, N, q),
           NEW k \in 1..N
    PROVE  Place(c, k) = Place(t, q[k])
<1>1. /\ \A m \in 1..N : q[m] \in 1..N
      /\ \A i, j \in 1..N : q[i] = q[j] => i = j
  BY DEF Order
<1>2. Shape(c, N)
  BY ImageShape
<1>3. PICK n \in 1..N : n = q[k]
  BY <1>1
<1> DEFINE a == Lineage(c, k)
           b == Lineage(t, n)
<1>4. /\ a \in Seq(1..N) /\ b \in Seq(1..N)
      /\ Len(a) = Len(b) /\ \A i \in 1..Len(a) : q[a[i]] = b[i]
  BY <1>2, <1>3, LineageSteps, ImageLineage DEF StandsFor
<1> HIDE DEF a, b
<1>e. Len(a) \in Nat /\ \A i \in 1..Len(a) : a[i] \in 1..N
  <2>1. a \in Seq(1..N)
    BY <1>4
  <2>2. Len(a) \in Nat
    BY <2>1
  <2>3. ASSUME NEW i \in 1..Len(a) PROVE a[i] \in 1..N
    BY <2>1, <2>3, ElementOfSeq
  <2> QED
    BY <2>2, <2>3
<1>5. ASSUME NEW j \in 1..Len(a) - 1 PROVE IndexIn(c, a, j) = IndexIn(t, b, j)
  <2>1. j + 1 \in 1..Len(a) /\ j \in 1..Len(a)
    BY <1>e
  <2>2. PICK p \in 1..N : p = a[j + 1] /\ q[p] = b[j + 1]
    BY <1>4, <1>e, <2>1
  <2>3. PICK m \in 1..N : m = a[j] /\ q[m] = b[j]
    BY <1>4, <1>e, <2>1
  <2> DEFINE x == Children(c, p)
             y == Children(t, q[p])
  <2>4. x \in Seq(1..N) /\ y \in Seq(1..N)
    <3>1. ASSUME NEW s, Shape(s, N), NEW r \in 1..N PROVE Children(s, r) \in Seq(1..N)
      <4> DEFINE C == {e \in 2..N : s[e].parent = r}
      <4>1. Children(s, r) \in Seq(C)
        BY <3>1, ChildrenFacts
      <4>2. C \subseteq 1..N
        BY ShapeFacts
      <4> HIDE DEF C
      <4> QED
        BY <4>1, <4>2, SeqMonotonic
    <3> QED
      BY <1>1, <1>2, <3>1
  <2>5. Len(x) = Len(y) /\ \A i \in 1..Len(x) : q[x[i]] = y[i]
    BY ImageChildren DEF StandsFor
  <2> HIDE DEF x, y
  <2>6. DOMAIN x = 1..Len(x) /\ DOMAIN y = 1..Len(x)
    BY <2>4, <2>5
  <2>7. \A i \in 1..Len(x) : x[i] = m <=> y[i] = q[m]
    <3>1. \A i \in 1..Len(x) : x[i] \in 1..N
      BY <2>4, ElementOfSeq
    <3> QED
      BY <1>1, <2>5, <3>1
  <2>8. (CHOOSE i \in DOMAIN x : x[i] = m) = (CHOOSE i \in DOMAIN y : y[i] = q[m])
    BY <2>6, <2>7
  <2> QED
    BY <2>2, <2>3, <2>8 DEF IndexIn, x, y
<1>6. /\ Depth(c, k) \in Nat /\ Depth(c, k) = Depth(t, n) /\ Depth(c, k) = Len(a) - 1
      /\ Place(c, k) = [j \in 1..Depth(c, k) |-> IndexIn(c, a, Depth(c, k) - j + 1)]
      /\ Place(t, n) = [j \in 1..Depth(c, k) |-> IndexIn(t, b, Depth(c, k) - j + 1)]
  <2>1. /\ Depth(c, k) \in Nat /\ Len(a) = Depth(c, k) + 1
        /\ Place(c, k) = Indices(c, a, Depth(c, k))
    BY <1>2, PlaceIs DEF a
  <2>2. /\ Depth(t, n) \in Nat /\ Len(b) = Depth(t, n) + 1
        /\ Place(t, n) = Indices(t, b, Depth(t, n))
    BY PlaceIs DEF b
  <2>3. Depth(c, k) = Depth(t, n) /\ Depth(c, k) = Len(a) - 1
    <3>1. Len(a) = Len(b)
      BY <1>4
    <3> QED
      BY <2>1, <2>2, <3>1
  <2> QED
    BY <2>1, <2>2, <2>3 DEF Indices
<1>7. \A j \in 1..Depth(c, k) : Depth(c, k) - j + 1 \in 1..Len(a) - 1
  BY <1>6
<1> QED
  BY <1>3, <1>5, <1>6, <1>7

LEMMA PlaceBelow ==
    ASSUME NEW t, NEW N, Shape(t, N), NEW n \in 1..N, NEW m \in 2..N, t[m].parent = n
    PROVE  /\ Len(Place(t, m)) = Len(Place(t, n)) + 1
           /\ Front(Place(t, m)) = Place(t, n)
<1> DEFINE a == Lineage(t, n)
           b == Lineage(t, m)
           D == Depth(t, n)
<1>1. /\ D \in Nat /\ Len(a) = D + 1 /\ Len(Place(t, n)) = D
      /\ Place(t, n) = [j \in 1..D |-> IndexIn(t, a, D - j + 1)]
  BY PlaceIs DEF Indices
<1>2. m \in 1..N /\ m \in Nat
  BY ShapeFacts
<1>3. a \in Seq(1..N) /\ b = <<m>> \o a
  BY LineageSteps
<1>4. Len(b) = Len(a) + 1 /\ b = [i \in 1..Len(a) + 1 |-> IF i = 1 THEN m ELSE a[i - 1]]
  BY <1>2, <1>3, Prefixed
<1>5. /\ Depth(t, m) \in Nat /\ Len(b) = Depth(t, m) + 1 /\ Len(Place(t, m)) = Depth(t, m)
      /\ Place(t, m) = Indices(t, b, Depth(t, m))
  BY <1>2, PlaceIs
<1> HIDE DEF a, b, D
<1>6. Depth(t, m) = D + 1
  BY <1>1, <1>4, <1>5
<1>7. \A j \in 1..D : IndexIn(t, b, (D + 1) - j + 1) = IndexIn(t, a, D - j + 1)
  <2> TAKE j \in 1..D
  <2>1. PICK i \in 1..D : i = D - j + 1
    BY <1>1
  <2>2. (D + 1) - j + 1 = i + 1 /\ i + 1 \in 1..Len(a) + 1 /\ i + 1 + 1 \in 1..Len(a) + 1
        /\ i + 1 # 1 /\ i + 1 + 1 # 1 /\ i + 1 - 1 = i /\ i + 1 + 1 - 1 = i + 1
    BY <1>1, <2>1
  <2>3. b[i + 1] = a[i] /\ b[i + 1 + 1] = a[i + 1]
    BY <1>4, <2>2
  <2> QED
    BY <2>1, <2>2, <2>3 DEF IndexIn
<1> DEFINE P == Place(t, m)
<1>8. P = [j \in 1..D + 1 |-> IndexIn(t, b, (D + 1) - j + 1)] /\ Len(P) = D + 1
  <2>1. P = Indices(t, b, D + 1) /\ Len(P) = D + 1
    BY <1>5, <1>6
  <2> HIDE DEF P
  <2> QED
    BY <2>1 DEF Indices
<1>9. P \in Seq({P[j] : j \in 1..D + 1})
  <2>1. P \in [1..D + 1 -> {P[j] : j \in 1..D + 1}]
    BY <1>8
  <2> HIDE DEF P
  <2> QED
    BY <1>1, <2>1, FunctionIsSeq
<1> HIDE DEF P
<1>10. Front(P) = SubSeq(P, 1, D)
  BY <1>1, <1>8 DEF Front
<1>11. SubSeq(P, 1, D) = [j \in 1..D |-> P[j]]
  BY <1>1, <1>8, <1>9
<1>12. \A j \in 1..D : P[j] = IndexIn(t, a, D - j + 1)
  <2> TAKE j \in 1..D
  <2>1. j \in 1..D + 1
    BY <1>1
  <2> QED
    BY <1>7, <1>8, <2>1
<1>13. Front(P) = Place(t, n)
  BY <1>1, <1>10, <1>11, <1>12
<1> QED
  BY <1>1, <1>8, <1>13 DEF P

-----------------------------------------------------------------------------
(***************************************************************************)
(* The invariant.  ns and ts are wrappers and trees: those of a state, or     *)
(* those of a state in the middle of a row of copies.                         *)
(***************************************************************************)
DataOf(ts, key, n) == ts[key][n].data

\* every node has a wrapper of its own, made for it
StoreOK(ns, ts) ==
    /\ ns \in Seq(Wrappers) /\ Len(prog.wrappers) <= Len(ns)
    /\ DOMAIN ts = Keys
    /\ \A key \in Keys : ts[key] = EmptyTree \/ IsTree(ts[key])
    /\ \A key \in Keys : \A n \in Members(ts[key]) :
          DataOf(ts, key, n) \in Len(prog.wrappers) + 1..Len(ns)
    /\ \A a, b \in Keys : \A n \in Members(ts[a]), m \in Members(ts[b]) :
          DataOf(ts, a, n) = DataOf(ts, b, m) => a = b /\ n = m

\* to is the image of from, with fields of the same types
CopyLike(ns, ts, from, to) ==
    LET t == ts[from]
    IN  /\ IsTree(t)
        /\ IsImage(ts[to], t, Size(t), PreOrder(t))
        /\ \A k \in 1..Size(t) :
              ns[ts[to][k].data].type = ns[t[PreOrder(t)[k]].data].type

Complete(func, pos) == func \in hasTrees \/ (arg.func = func /\ pos < arg.pos)

NodeType(ns, t, n) == ns[t[n].data].type
PathOf(ns, t, n) == Reverse([k \in DOMAIN Lineage(t, n) |-> NodeType(ns, t, Lineage(t, n)[k])])
FieldTypes(ns, t, n) == [k \in DOMAIN Children(t, n) |-> NodeType(ns, t, Children(t, n)[k])]
Unfolding(ns, t, n) ==
    FieldTypes(ns, t, n) = IF Continues(PathOf(ns, t, n)) THEN Fields(NodeType(ns, t, n)) ELSE <<>>

\* A formal-in tree that is complete unfolds the type of its argument, and the
\* formal-out tree is a copy.
Finished(ns, ts, func, pos) ==
    LET t == ts[<<func, pos, "FORMAL_IN">>]
    IN  /\ CopyLike(ns, ts, <<func, pos, "FORMAL_IN">>, <<func, pos, "FORMAL_OUT">>)
        /\ NodeType(ns, t, 1) = prog.args[func][pos]
        /\ \A n \in 1..Size(t) : Unfolding(ns, t, n)

FormalsOK ==
    \A func \in Functions : \A pos \in Positions(func) :
        Complete(func, pos) => Finished(nodes, trees, func, pos)

ActualsOK ==
    \A call \in Calls : builds[call] > 0 =>
        /\ Callee(call) \in hasTrees
        /\ \A pos \in Positions(call) : \A treeTy \in {"ACTUAL_IN", "ACTUAL_OUT"} :
              CopyLike(nodes, trees, <<Callee(call), pos, "FORMAL_IN">>, <<call, pos, treeTy>>)

ControlOK ==
    /\ prog \in Programs
    /\ Len(nodes) <= MaxNodes /\ id \in 0..Len(nodes)
    /\ arg = NoArgument \/
          /\ arg = [func |-> arg.func, pos |-> arg.pos]
          /\ arg.func \in Functions \ hasTrees
          /\ arg.pos \in 1..Len(prog.args[arg.func]) + 1
    /\ frames \in Seq([type : Types, fieldId : Int, i : Nat])
    /\ frames # <<>> => /\ ~Idle /\ arg.pos \in Positions(arg.func)
                        /\ ~IsEmpty(trees[Building])
    /\ hasTrees \subseteq Functions
    /\ builds \in [Calls -> Nat]
    /\ connected \subseteq hasTrees \union {call \in Calls : builds[call] > 0}

\* The node at which an activation of buildFormalTypeTree is, once d ids are
\* given: ids count the nodes of the tree.
At(t, d, f) == f.fieldId + Size(t) + 1 - d

\* it has put the first of the fields below its node
ActivationOK(ns, t, d, f) ==
    /\ At(t, d, f) \in 1..Size(t)
    /\ NodeType(ns, t, At(t, d, f)) = f.type
    /\ Continues(PathOf(ns, t, At(t, d, f)))
    /\ f.i \in 1..Len(Fields(f.type)) + 1
    /\ FieldTypes(ns, t, At(t, d, f)) = SubSeq(Fields(f.type), 1, f.i - 1)

\* The tree at hand, for an argument of a type: below the nodes at which no
\* activation is stands all there will be.
Underway(ns, t, type, d, fs) ==
    /\ \A n \in 1..Size(t) : ns[t[n].data].fieldId = d - Size(t) + n - 1
    /\ NodeType(ns, t, 1) = type
    /\ \A k \in DOMAIN fs : ActivationOK(ns, t, d, fs[k])
    /\ \A j, k \in DOMAIN fs : j < k => At(t, d, fs[j]) < At(t, d, fs[k])
    /\ \A n \in 1..Size(t) : (\A k \in DOMAIN fs : At(t, d, fs[k]) # n) => Unfolding(ns, t, n)

BuildOK ==
    (~Idle /\ arg.pos \in Positions(arg.func) /\ ~IsEmpty(trees[Building])) =>
        Underway(nodes, trees[Building], prog.args[arg.func][arg.pos], id, frames)

FreshOK ==
    \A func \in Functions : \A pos \in Positions(func) :
        (~Complete(func, pos) /\ ~(arg.func = func /\ arg.pos = pos))
            => trees[<<func, pos, "FORMAL_IN">>] = EmptyTree

\* the trees that edges may lead to: no step changes them
Settled(key) ==
    \/ key[1] \in hasTrees /\ key[3] \in {"FORMAL_IN", "FORMAL_OUT"}
    \/ key[1] \in connected /\ key[3] \in {"ACTUAL_IN", "ACTUAL_OUT"}

FieldEdge(e) ==
    \E a, b \in Keys : \E n \in Members(trees[a]), m \in Members(trees[b]) :
        /\ Settled(a) /\ Settled(b)
        /\ e.from = DataOf(trees, a, n) /\ e.to = DataOf(trees, b, m)
        /\ SameField([key |-> a, place |-> Place(trees[a], n)],
                     [key |-> b, place |-> Place(trees[b], m)])

EdgesOK ==
    \A e \in deps :
        /\ {e.from, e.to} \subseteq DOMAIN nodes
        /\ e.type = "PARAMETER" => e.from \in 1..Len(prog.wrappers) \/ FieldEdge(e)

LinkedOK ==
    /\ \A func \in connected \intersect Functions : \A pos \in Positions(func) :
          Lockstep(TreeOf(func, pos, "FORMAL_IN"), TreeOf(func, pos, "FORMAL_OUT")) \subseteq deps
    /\ \A call \in connected \intersect Calls : \A pos \in Positions(call) :
          /\ Lockstep(TreeOf(call, pos, "ACTUAL_IN"), TreeOf(Callee(call), pos, "FORMAL_IN")) \subseteq deps
          /\ Lockstep(TreeOf(Callee(call), pos, "FORMAL_OUT"), TreeOf(call, pos, "ACTUAL_OUT")) \subseteq deps

IInv ==
    /\ StoreOK(nodes, trees) /\ ControlOK /\ FormalsOK /\ ActualsOK
    /\ BuildOK /\ FreshOK /\ EdgesOK /\ LinkedOK

LEMMA SameProgram ==
    ASSUME prog' = prog
    PROVE  /\ Keys' = Keys /\ Functions' = Functions /\ Calls' = Calls
           /\ \A owner : (Callee(owner))' = Callee(owner)
           /\ \A owner : (Positions(owner))' = Positions(owner)
BY DEF Keys, Functions, Calls, Callee, Positions

Extends(ns, ms) == Len(ns) <= Len(ms) /\ \A w \in 1..Len(ns) : ms[w] = ns[w]

LEMMA ProgramFacts ==
    ASSUME prog \in Programs
    PROVE  /\ prog.wrappers \in Seq(Wrappers) /\ Len(prog.wrappers) \in Nat
           /\ Len(prog.wrappers) <= MaxNodes
           /\ \A func \in Functions : Callee(func) = func
           /\ \A func \in Functions : prog.args[func] \in Seq(Types)
           /\ \A call \in Calls : Callee(call) \in Functions
           /\ \A owner \in Functions \union Calls :
                 /\ owner \in 1..Len(prog.wrappers)
                 /\ Callee(owner) \in Functions
                 /\ Positions(owner) = Positions(Callee(owner))
                 /\ Positions(owner) = 1..Len(prog.args[Callee(owner)])
           /\ \A owner \in Functions \union Calls : \A pos \in Positions(owner) :
                 \A treeTy \in TreeTypes : <<owner, pos, treeTy>> \in Keys
           /\ \A key \in Keys :
                 \E owner \in Functions \union Calls : \E pos \in Positions(owner) :
                    \E treeTy \in TreeTypes : key = <<owner, pos, treeTy>>
<1>1. /\ prog.wrappers \in Seq(Wrappers) /\ Len(prog.wrappers) <= MaxNodes
      /\ prog.args \in [DOMAIN prog.args -> Seq(Types)]
      /\ prog.callee \in [DOMAIN prog.callee -> DOMAIN prog.args]
      /\ DOMAIN prog.args \union DOMAIN prog.callee \subseteq DOMAIN prog.wrappers
      /\ DOMAIN prog.args \intersect DOMAIN prog.callee = {}
  BY ProgramsAssumption
<1>2. DOMAIN prog.wrappers = 1..Len(prog.wrappers) /\ Len(prog.wrappers) \in Nat
  BY <1>1
<1>3. /\ \A func \in Functions : Callee(func) = func /\ prog.args[func] \in Seq(Types)
      /\ \A call \in Calls : Callee(call) \in Functions
  BY <1>1 DEF Functions, Calls, Callee
<1>4. ASSUME NEW owner \in Functions \union Calls
      PROVE  /\ owner \in 1..Len(prog.wrappers)
             /\ Callee(owner) \in Functions
             /\ Positions(owner) = Positions(Callee(owner))
             /\ Positions(owner) = 1..Len(prog.args[Callee(owner)])
  <2>1. Callee(owner) \in Functions
    BY <1>3
  <2>2. prog.args[Callee(owner)] \in Seq(Types) /\ Callee(Callee(owner)) = Callee(owner)
    BY <1>3, <2>1
  <2>3. DOMAIN prog.args[Callee(owner)] = 1..Len(prog.args[Callee(owner)])
    BY <2>2
  <2> QED
    BY <1>1, <1>2, <2>1, <2>2, <2>3 DEF Positions, Functions, Calls
<1>5. \A owner \in Functions \union Calls : \A pos \in Positions(owner) :
          \A treeTy \in TreeTypes : <<owner, pos, treeTy>> \in Keys
  BY DEF Keys
<1>6. ASSUME NEW key \in Keys
      PROVE  \E owner \in Functions \union Calls : \E pos \in Positions(owner) :
                \E treeTy \in TreeTypes : key = <<owner, pos, treeTy>>
  BY DEF Keys
<1> QED
  BY <1>1, <1>2, <1>3, <1>4, <1>5, <1>6

\* One tree is replaced by one whose nodes keep their wrappers or have new ones.
LEMMA StoreStep ==
    ASSUME prog \in Programs, NEW ns, NEW ts, StoreOK(ns, ts), NEW ms \in Seq(Wrappers), Extends(ns, ms),
           NEW key \in Keys, NEW u, IsTree(u),
           \A n \in Members(u) :
              /\ u[n].data \in Len(prog.wrappers) + 1..Len(ms)
              /\ u[n].data <= Len(ns) => n \in Members(ts[key]) /\ u[n].data = DataOf(ts, key, n),
           \A n, m \in Members(u) : u[n].data = u[m].data => n = m
    PROVE  StoreOK(ms, [ts EXCEPT ![key] = u])
<1> DEFINE us == [ts EXCEPT ![key] = u]
<1>1. /\ DOMAIN ts = Keys /\ DOMAIN us = Keys /\ us[key] = u
      /\ \A k \in Keys \ {key} : us[k] = ts[k]
      /\ Len(ns) \in Nat /\ Len(ms) \in Nat /\ Len(prog.wrappers) <= Len(ns) /\ Len(ns) <= Len(ms)
  BY DEF StoreOK, Extends
<1>2. /\ \A k \in Keys : ts[k] = EmptyTree \/ IsTree(ts[k])
      /\ \A k \in Keys : \A n \in Members(ts[k]) :
            DataOf(ts, k, n) \in Len(prog.wrappers) + 1..Len(ns)
      /\ \A a, b \in Keys : \A n \in Members(ts[a]), m \in Members(ts[b]) :
            DataOf(ts, a, n) = DataOf(ts, b, m) => a = b /\ n = m
  BY DEF StoreOK
<1> HIDE DEF us
<1>3. \A k \in Keys : us[k] = EmptyTree \/ IsTree(us[k])
  BY <1>1, <1>2
<1>4. ASSUME NEW k \in Keys, NEW n \in Members(us[k])
      PROVE  DataOf(us, k, n) \in Len(prog.wrappers) + 1..Len(ms)
  <2>1. CASE k = key
    BY <1>1, <2>1 DEF DataOf
  <2>2. CASE k # key
    <3>1. DataOf(us, k, n) \in Len(prog.wrappers) + 1..Len(ns)
      BY <1>1, <1>2, <2>2 DEF DataOf
    <3>2. Len(prog.wrappers) + 1..Len(ns) \subseteq Len(prog.wrappers) + 1..Len(ms)
      BY <1>1
    <3> QED
      BY <3>1, <3>2
  <2> QED
    BY <2>1, <2>2
<1>5. ASSUME NEW b \in Keys \ {key}, NEW n \in Members(u), NEW m \in Members(us[b]),
             u[n].data = DataOf(us, b, m)
      PROVE  FALSE
  <2>1. m \in Members(ts[b]) /\ DataOf(us, b, m) = DataOf(ts, b, m)
    BY <1>1 DEF DataOf
  <2>2. u[n].data <= Len(ns)
    <3>1. DataOf(ts, b, m) \in Len(prog.wrappers) + 1..Len(ns)
      BY <1>2, <2>1
    <3>2. u[n].data = DataOf(ts, b, m)
      BY <1>5, <2>1
    <3>3. \A x \in Len(prog.wrappers) + 1..Len(ns) : x <= Len(ns)
      OBVIOUS
    <3> QED
      BY <3>1, <3>2, <3>3
  <2>3. n \in Members(ts[key]) /\ u[n].data = DataOf(ts, key, n)
    BY <2>2
  <2> QED
    BY <1>2, <1>5, <2>1, <2>3
<1>6. ASSUME NEW a \in Keys, NEW b \in Keys, NEW n \in Members(us[a]), NEW m \in Members(us[b]),
             DataOf(us, a, n) = DataOf(us, b, m)
      PROVE  a = b /\ n = m
  <2>1. CASE a = key /\ b = key
    BY <1>1, <1>6, <2>1 DEF DataOf
  <2>2. CASE a = key /\ b # key
    BY <1>1, <1>5, <1>6, <2>2 DEF DataOf
  <2>3. CASE a # key /\ b = key
    BY <1>1, <1>5, <1>6, <2>3 DEF DataOf
  <2>4. CASE a # key /\ b # key
    BY <1>1, <1>2, <1>6, <2>4 DEF DataOf
  <2> QED
    BY <2>1, <2>2, <2>3, <2>4
<1>7. Len(prog.wrappers) <= Len(ms)
  <2>1. Len(prog.wrappers) <= Len(ns) /\ Len(ns) <= Len(ms)
    BY <1>1
  <2> QED
    BY <1>1, ProgramFacts, <2>1
<1> QED
  BY <1>1, <1>3, <1>4, <1>6, <1>7 DEF StoreOK, us

LEMMA Longer ==
    ASSUME NEW S, NEW a \in Seq(S), NEW b \in Seq(S), NEW c, c = a \o b
    PROVE  /\ c \in Seq(S) /\ Len(c) = Len(a) + Len(b)
           /\ \A w \in 1..Len(a) : c[w] = a[w]
           /\ \A k \in 1..Len(b) : c[Len(a) + k] = b[k]
<1>1. /\ c \in Seq(S) /\ Len(c) = Len(a) + Len(b) /\ Len(a) \in Nat /\ Len(b) \in Nat
      /\ \A i \in 1..Len(a) + Len(b) : c[i] = IF i <= Len(a) THEN a[i] ELSE b[i - Len(a)]
  BY ConcatProperties
<1>2. \A w \in 1..Len(a) : w \in 1..Len(a) + Len(b) /\ w <= Len(a)
  BY <1>1
<1>3. \A k \in 1..Len(b) :
          Len(a) + k \in 1..Len(a) + Len(b) /\ ~(Len(a) + k <= Len(a)) /\ Len(a) + k - Len(a) = k
  BY <1>1
<1> QED
  BY <1>1, <1>2, <1>3

\* What copyTree does to wrappers and trees.
Copies(s, r, from, to) ==
    /\ StoreOK(r.nodes, r.trees) /\ Extends(s.nodes, r.nodes)
    /\ r.id \in 0..Len(r.nodes)
    /\ DOMAIN r.trees = Keys /\ \A key \in Keys \ {to} : r.trees[key] = s.trees[key]
    /\ CopyLike(r.nodes, r.trees, from, to)

\* copyTree makes an image of the source, with a new wrapper for every node.
LEMMA CopyEffect ==
    ASSUME prog \in Programs, NEW s, StoreOK(s.nodes, s.trees),
           NEW from \in Keys, NEW to \in Keys, from # to, IsTree(s.trees[from]),
           s.id \in 0..Len(s.nodes)
    PROVE  Copies(s, CopyTree(s, from, to), from, to)
<1>0. PICK r : r = CopyTree(s, from, to)
  OBVIOUS
<1> DEFINE t == s.trees[from]
           N == Size(t)
           q == PreOrder(t)
           L == Len(s.nodes)
           c == Renewed(Copy(t), t, L)
           counter == IF shared THEN s.id ELSE 0
           W(k) == Wrapper(to[3], s.nodes[t[q[k]].data].func, s.nodes[t[q[k]].data].type,
                           counter + k - 1)
           added == [k \in 1..N |-> W(k)]
<1>1. /\ Shape(t, N) /\ Order(t, N, q) /\ N \in Nat /\ N >= 1 /\ DOMAIN q = 1..N
      /\ Members(t) = 1..N /\ Len(q) = N /\ \A k \in 1..N : q[k] \in 1..N
  BY TreeFacts DEF IsTree, Size
<1>2. /\ IsImage(c, t, N, q) /\ \A k \in 1..N : c[k].data = L + k
  BY <1>1, RenewedIsImage
<1>3. IsTree(c) /\ Size(c) = N /\ Members(c) = 1..N
  <2>1. Shape(c, N) /\ Order(c, N, Counting(N))
    BY <1>1, <1>2, ImageShape, ImageOrder
  <2> QED
    BY <2>1, TreeIs, ShapeFacts
<1>4. /\ s.nodes \in Seq(Wrappers) /\ L \in Nat /\ Len(prog.wrappers) \in Nat
      /\ Len(prog.wrappers) <= L /\ DOMAIN s.trees = Keys
      /\ \A n \in 1..N : t[n].data \in Len(prog.wrappers) + 1..L
  BY <1>1, ProgramFacts DEF StoreOK, DataOf
<1>15. \A k \in 1..N : t[q[k]].data \in 1..L
  <2>1. \A w \in Len(prog.wrappers) + 1..L : w \in 1..L
    <3> HIDE DEF L
    <3> QED
      BY <1>4
  <2>2. \A n \in 1..N : t[n].data \in 1..L
    BY <1>4, <2>1
  <2>3. \A k \in 1..N : q[k] \in 1..N
    BY <1>1
  <2> HIDE DEF N, L, t, q
  <2> QED
    BY <2>2, <2>3
<1>5. /\ r.nodes = s.nodes \o added
      /\ r.trees = [s.trees EXCEPT ![to] = c]
      /\ r.id = IF shared THEN s.id + N ELSE s.id
  <2> HIDE DEF c, q
  <2> QED
    BY <1>0, <1>1 DEF CopyTree, c, q
<1>6. ASSUME NEW k \in 1..N PROVE W(k) \in Wrappers
  <2>1. PICK w \in 1..L : w = t[q[k]].data
    BY <1>15
  <2>2. s.nodes[w] \in Wrappers
    BY <1>4, <2>1, ElementOfSeq
  <2>3. to[3] \in Kinds
    <3>1. to[3] \in TreeTypes
      BY ProgramFacts
    <3> QED
      BY <3>1 DEF Kinds
  <2>4. counter + k - 1 \in Int
    BY <1>1, <1>4
  <2> HIDE DEF counter
  <2> QED
    BY <2>1, <2>2, <2>3, <2>4 DEF Wrapper, Wrappers
<1> HIDE DEF W
<1>7. added \in Seq(Wrappers) /\ Len(added) = N
  <2>1. added \in [1..N -> Wrappers]
    BY <1>6
  <2> HIDE DEF added, N
  <2> QED
    BY <1>1, <2>1, FunctionIsSeq
<1>8. /\ r.nodes \in Seq(Wrappers) /\ Len(r.nodes) = L + N
      /\ \A w \in 1..L : r.nodes[w] = s.nodes[w]
      /\ \A k \in 1..N : r.nodes[L + k] = W(k)
  <2>1. \A k \in 1..N : added[k] = W(k)
    OBVIOUS
  <2>2. PICK a, b, x : a = s.nodes /\ b = added /\ x = r.nodes
    OBVIOUS
  <2> HIDE DEF added, N
  <2>3. a \in Seq(Wrappers) /\ b \in Seq(Wrappers) /\ x = a \o b /\ Len(a) = L /\ Len(b) = N
    BY <1>4, <1>5, <1>7, <2>2
  <2>4. /\ x \in Seq(Wrappers) /\ Len(x) = L + N
        /\ \A w \in 1..L : x[w] = a[w]
        /\ \A k \in 1..N : x[L + k] = b[k]
    <3>1. /\ x \in Seq(Wrappers) /\ Len(x) = Len(a) + Len(b)
          /\ \A w \in 1..Len(a) : x[w] = a[w]
          /\ \A k \in 1..Len(b) : x[Len(a) + k] = b[k]
      <4>1. a \in Seq(Wrappers) /\ b \in Seq(Wrappers) /\ x = a \o b
        BY <2>3
      <4> QED
        BY <4>1, Longer
    <3> HIDE DEF L
    <3> QED
      BY <2>3, <3>1
  <2> QED
    BY <2>1, <2>2, <2>4
<1> HIDE DEF added
<1>9. Extends(s.nodes, r.nodes)
  BY <1>1, <1>4, <1>8 DEF Extends
<1>10. StoreOK(r.nodes, r.trees)
  <2> HIDE DEF N, c, L
  <2>1. \A n \in Members(c) :
            /\ c[n].data \in Len(prog.wrappers) + 1..Len(r.nodes)
            /\ ~(c[n].data <= Len(s.nodes))
    BY <1>1, <1>2, <1>3, <1>4, <1>8 DEF L
  <2>2. \A n, m \in Members(c) : c[n].data = c[m].data => n = m
    BY <1>2, <1>3, <1>4
  <2>3. ASSUME NEW n \in Members(c)
        PROVE  /\ c[n].data \in Len(prog.wrappers) + 1..Len(r.nodes)
               /\ c[n].data <= Len(s.nodes) =>
                     n \in Members(s.trees[to]) /\ c[n].data = DataOf(s.trees, to, n)
    BY <2>1
  <2>4. PICK ms \in Seq(Wrappers) : ms = r.nodes
    BY <1>8
  <2>5. IsTree(c) /\ Extends(s.nodes, ms)
    BY <1>3, <1>9, <2>4
  <2>6. StoreOK(ms, [s.trees EXCEPT ![to] = c])
    BY <2>2, <2>3, <2>4, <2>5, StoreStep
  <2> QED
    BY <1>5, <2>4, <2>6
<1>11. r.id \in 0..Len(r.nodes)
  <2>1. s.id \in 0..L
    OBVIOUS
  <2> HIDE DEF N, L
  <2> QED
    BY <1>1, <1>4, <1>5, <1>8, <2>1
<1>12. DOMAIN r.trees = Keys /\ r.trees[to] = c /\ \A key \in Keys \ {to} : r.trees[key] = s.trees[key]
  <2> HIDE DEF c
  <2> QED
    BY <1>4, <1>5
<1>13. ASSUME NEW k \in 1..N
       PROVE r.nodes[c[k].data].type = r.nodes[t[q[k]].data].type
  <2>1. PICK w \in 1..L : w = t[q[k]].data
    BY <1>15
  <2>2. W(k).type = s.nodes[w].type
    BY <2>1 DEF W, Wrapper
  <2>3. r.nodes[c[k].data] = W(k)
    BY <1>2, <1>8
  <2>4. r.nodes[w] = s.nodes[w]
    BY <1>8
  <2> QED
    BY <2>1, <2>2, <2>3, <2>4
<1>14. CopyLike(r.nodes, r.trees, from, to)
  <2>1. r.trees[from] = t
    BY <1>12
  <2> HIDE DEF c
  <2> QED
    BY <1>2, <1>12, <1>13, <2>1 DEF CopyLike
<1> QED
  BY <1>0, <1>9, <1>10, <1>11, <1>12, <1>14 DEF Copies

LEMMA ExtendsTransitive ==
    ASSUME NEW a, NEW b, NEW c, Len(a) \in Nat, Len(b) \in Nat, Len(c) \in Nat,
           Extends(a, b), Extends(b, c)
    PROVE  Extends(a, c)
<1>1. \A w \in 1..Len(a) : w \in 1..Len(b)
  BY DEF Extends
<1> QED
  BY <1>1 DEF Extends

LEMMA ImageMembers ==
    ASSUME NEW t, IsTree(t), NEW c, IsImage(c, t, Size(t), PreOrder(t))
    PROVE  /\ IsTree(c) /\ Size(c) = Size(t) /\ Members(c) = 1..Size(t)
           /\ PreOrder(c) = Counting(Size(t))
<1>1. Shape(t, Size(t)) /\ Order(t, Size(t), PreOrder(t))
  BY DEF IsTree
<1>2. Shape(c, Size(t)) /\ Order(c, Size(t), Counting(Size(t)))
  BY <1>1, ImageShape, ImageOrder
<1> QED
  BY <1>2, TreeIs, ShapeFacts

\* A wrapper keeps its type, so a copy stays one while its tree and its source do.
LEMMA CopyKept ==
    ASSUME prog \in Programs, NEW ns, NEW ts, StoreOK(ns, ts), NEW ms, NEW us, Extends(ns, ms),
           NEW from \in Keys, NEW to \in Keys, us[from] = ts[from], us[to] = ts[to],
           CopyLike(ns, ts, from, to)
    PROVE  CopyLike(ms, us, from, to)
<1> DEFINE t == ts[from]
           N == Size(t)
<1>1. IsTree(t) /\ IsImage(ts[to], t, N, PreOrder(t))
  BY DEF CopyLike
<1>2. Members(t) = 1..N /\ Members(ts[to]) = 1..N /\ \A k \in 1..N : PreOrder(t)[k] \in 1..N
  BY <1>1, ImageMembers, TreeFacts
<1>3. ASSUME NEW key \in Keys, NEW n \in Members(ts[key])
      PROVE  ms[ts[key][n].data] = ns[ts[key][n].data]
  <2>1. ts[key][n].data \in Len(prog.wrappers) + 1..Len(ns)
    BY DEF StoreOK, DataOf
  <2>2. \A w \in Len(prog.wrappers) + 1..Len(ns) : w \in 1..Len(ns)
    BY ProgramFacts
  <2> QED
    BY <2>1, <2>2 DEF Extends
<1>5. ASSUME NEW k \in 1..N
      PROVE  /\ ms[us[to][k].data] = ns[ts[to][k].data]
             /\ ms[us[from][PreOrder(t)[k]].data] = ns[t[PreOrder(t)[k]].data]
  <2>1. PICK n \in Members(t) : n = PreOrder(t)[k]
    BY <1>2
  <2>2. k \in Members(ts[to])
    BY <1>2
  <2>3. ms[ts[to][k].data] = ns[ts[to][k].data]
    BY <1>3, <2>2
  <2>4. ms[t[n].data] = ns[t[n].data]
    BY <1>3
  <2> QED
    BY <2>1, <2>3, <2>4
<1>4. ASSUME NEW k \in 1..N
      PROVE  ms[us[to][k].data].type = ms[us[from][PreOrder(t)[k]].data].type
  <2>1. ns[ts[to][k].data].type = ns[t[PreOrder(t)[k]].data].type
    BY DEF CopyLike
  <2> QED
    BY <1>5, <2>1
<1> QED
  BY <1>1, <1>4 DEF CopyLike

FormalIn(call, pos) == <<Callee(call), pos, "FORMAL_IN">>

\* the copies for one argument of a call
Both(s, call, pos) ==
    CopyTree(CopyTree(s, FormalIn(call, pos), <<call, pos, "ACTUAL_IN">>),
             FormalIn(call, pos), <<call, pos, "ACTUAL_OUT">>)

\* what the copies for the first p arguments have made
MadeOK(call, p, s) ==
    /\ StoreOK(s.nodes, s.trees) /\ Extends(nodes, s.nodes)
    /\ s.id \in 0..Len(s.nodes)
    /\ \A key \in Keys : key[1] # call => s.trees[key] = trees[key]
    /\ \A pos \in 1..p : \A treeTy \in {"ACTUAL_IN", "ACTUAL_OUT"} :
          CopyLike(s.nodes, s.trees, FormalIn(call, pos), <<call, pos, treeTy>>)

LEMMA BothEffect ==
    ASSUME prog \in Programs, StoreOK(nodes, trees), NEW call \in Calls,
           NEW p \in Nat, p + 1 \in Positions(call), IsTree(trees[FormalIn(call, p + 1)]),
           \A pos \in 1..p : pos \in Positions(call),
           NEW s, MadeOK(call, p, s)
    PROVE  MadeOK(call, p + 1, Both(s, call, p + 1))
<1> DEFINE from == FormalIn(call, p + 1)
           in == <<call, p + 1, "ACTUAL_IN">>
           out == <<call, p + 1, "ACTUAL_OUT">>
<1>1. /\ Callee(call) \in Functions /\ Callee(call) # call
      /\ \A pos \in Positions(call) : \A treeTy \in {"ACTUAL_IN", "ACTUAL_OUT"} :
            /\ <<call, pos, treeTy>> \in Keys /\ FormalIn(call, pos) \in Keys
            /\ FormalIn(call, pos)[1] # call
  <2>1. Callee(call) \in Functions /\ Positions(call) = Positions(Callee(call))
    BY ProgramFacts
  <2>2. Callee(call) # call
    BY <2>1, ProgramsAssumption DEF Functions, Calls
  <2>3. {"ACTUAL_IN", "ACTUAL_OUT", "FORMAL_IN"} \subseteq TreeTypes
    BY DEF TreeTypes
  <2>4. \A owner \in Functions \union Calls : \A pos \in Positions(owner) :
            \A treeTy \in TreeTypes : <<owner, pos, treeTy>> \in Keys
    BY ProgramFacts
  <2>5. \A pos \in Positions(call) : FormalIn(call, pos) \in Keys
    BY <2>1, <2>3, <2>4 DEF FormalIn
  <2> QED
    BY <2>1, <2>2, <2>3, <2>4, <2>5 DEF FormalIn
<1>2. /\ from \in Keys /\ in \in Keys /\ out \in Keys /\ from # in /\ from # out /\ in # out
      /\ from[1] # call /\ in[1] = call /\ out[1] = call
  BY <1>1
<1>3. /\ StoreOK(s.nodes, s.trees) /\ Extends(nodes, s.nodes) /\ s.id \in 0..Len(s.nodes)
      /\ \A key \in Keys : key[1] # call => s.trees[key] = trees[key]
      /\ \A pos \in 1..p : \A treeTy \in {"ACTUAL_IN", "ACTUAL_OUT"} :
            CopyLike(s.nodes, s.trees, FormalIn(call, pos), <<call, pos, treeTy>>)
  BY DEF MadeOK
<1> HIDE DEF from, in, out
<1>4. IsTree(s.trees[from])
  BY <1>2, <1>3 DEF from
<1>5. PICK a : a = CopyTree(s, from, in)
  OBVIOUS
<1>6. /\ StoreOK(a.nodes, a.trees) /\ Extends(s.nodes, a.nodes) /\ a.id \in 0..Len(a.nodes)
      /\ \A key \in Keys \ {in} : a.trees[key] = s.trees[key]
      /\ CopyLike(a.nodes, a.trees, from, in)
  BY <1>2, <1>3, <1>4, <1>5, CopyEffect DEF Copies
<1>7. PICK b : b = CopyTree(a, from, out)
  OBVIOUS
<1>8. /\ StoreOK(b.nodes, b.trees) /\ Extends(a.nodes, b.nodes) /\ b.id \in 0..Len(b.nodes)
      /\ \A key \in Keys \ {out} : b.trees[key] = a.trees[key]
      /\ CopyLike(b.nodes, b.trees, from, out)
  <2>1. IsTree(a.trees[from])
    BY <1>2, <1>4, <1>6
  <2> QED
    BY <1>2, <1>6, <1>7, <2>1, CopyEffect DEF Copies
<1>9. Len(nodes) \in Nat /\ Len(s.nodes) \in Nat /\ Len(a.nodes) \in Nat /\ Len(b.nodes) \in Nat
  <2>1. nodes \in Seq(Wrappers) /\ s.nodes \in Seq(Wrappers) /\ a.nodes \in Seq(Wrappers)
        /\ b.nodes \in Seq(Wrappers)
    BY <1>3, <1>6, <1>8 DEF StoreOK
  <2> QED
    BY <2>1
<1>10. Extends(s.nodes, b.nodes) /\ Extends(nodes, b.nodes)
  BY <1>3, <1>6, <1>8, <1>9, ExtendsTransitive
<1>11. \A key \in Keys : key[1] # call => b.trees[key] = trees[key]
  BY <1>2, <1>3, <1>6, <1>8
<1>12. CopyLike(b.nodes, b.trees, from, in)
  <2>1. b.trees[from] = a.trees[from] /\ b.trees[in] = a.trees[in]
    BY <1>2, <1>8
  <2> QED
    BY <1>2, <1>6, <1>8, <2>1, CopyKept
<1>13. ASSUME NEW pos \in 1..p, NEW treeTy \in {"ACTUAL_IN", "ACTUAL_OUT"}
       PROVE  CopyLike(b.nodes, b.trees, FormalIn(call, pos), <<call, pos, treeTy>>)
  <2>1. PICK f, g \in Keys : f = FormalIn(call, pos) /\ g = <<call, pos, treeTy>> /\ f[1] # call
    BY <1>1
  <2>2. pos # p + 1
    OBVIOUS
  <2>3. g # in /\ g # out /\ f # in /\ f # out
    BY <1>2, <2>1, <2>2 DEF in, out
  <2>4. b.trees[f] = s.trees[f] /\ b.trees[g] = s.trees[g]
    BY <1>6, <1>8, <2>1, <2>3
  <2>5. CopyLike(s.nodes, s.trees, f, g)
    BY <1>3, <2>1
  <2>6. CopyLike(b.nodes, b.trees, f, g)
    BY <1>3, <1>10, <2>1, <2>4, <2>5, CopyKept
  <2> QED
    BY <2>1, <2>6
<1>14. \A pos \in 1..p + 1 : \A treeTy \in {"ACTUAL_IN", "ACTUAL_OUT"} :
           CopyLike(b.nodes, b.trees, FormalIn(call, pos), <<call, pos, treeTy>>)
  <2>1. \A pos \in 1..p + 1 : pos \in 1..p \/ pos = p + 1
    OBVIOUS
  <2> QED
    BY <1>8, <1>12, <1>13, <2>1 DEF from, in, out
<1>15. Both(s, call, p + 1) = b
  BY <1>5, <1>7 DEF Both, from, in, out
<1> QED
  BY <1>8, <1>10, <1>11, <1>14, <1>15 DEF MadeOK

\* The copies are made one argument after another.
Current == [nodes |-> nodes, trees |-> trees, id |-> id]
MadeRow(call, k, g) ==
    g = [pos \in 0..k |-> IF pos = 0 THEN Current ELSE Both(g[pos - 1], call, pos)]

LEMMA ActualsMade ==
    ASSUME NEW call, NEW L \in Nat, L = Len(prog.args[Callee(call)])
    PROVE  \E g : MadeRow(call, L, g) /\ WithActualTrees(call) = g[L]
<1> DEFINE T == {k \in Nat : ~ \E g : MadeRow(call, k, g)}
<1>1. \E g : MadeRow(call, 0, g)
  <2> DEFINE g == [pos \in 0..0 |-> Current]
  <2>1. \A pos \in 0..0 : pos = 0
    OBVIOUS
  <2>2. g = [pos \in 0..0 |-> IF pos = 0 THEN Current ELSE Both(g[pos - 1], call, pos)]
    BY <2>1
  <2> QED
    BY <2>2 DEF MadeRow
<1>2. ASSUME NEW k \in Nat, NEW g, MadeRow(call, k, g) PROVE \E h : MadeRow(call, k + 1, h)
  <2> DEFINE h == [pos \in 0..k + 1 |-> IF pos = k + 1 THEN Both(g[k], call, k + 1) ELSE g[pos]]
  <2>1. \A pos \in 0..k : g[pos] = IF pos = 0 THEN Current ELSE Both(g[pos - 1], call, pos)
    BY <1>2 DEF MadeRow
  <2>2. ASSUME NEW pos \in 0..k + 1
        PROVE  h[pos] = IF pos = 0 THEN Current ELSE Both(h[pos - 1], call, pos)
    <3>1. CASE pos = k + 1
      <4>1. pos # 0 /\ pos - 1 = k /\ k \in 0..k + 1 /\ k # k + 1
        BY <3>1
      <4>2. h[pos] = Both(g[k], call, k + 1) /\ h[k] = g[k]
        BY <3>1, <4>1
      <4> HIDE DEF h
      <4> QED
        BY <3>1, <4>1, <4>2
    <3>2. CASE pos # k + 1
      <4>1. pos \in 0..k /\ (pos # 0 => pos - 1 \in 0..k + 1 /\ pos - 1 # k + 1)
        BY <3>2
      <4>2. h[pos] = g[pos] /\ (pos # 0 => h[pos - 1] = g[pos - 1])
        BY <3>2, <4>1
      <4> HIDE DEF h
      <4> QED
        BY <2>1, <4>1, <4>2
    <3> QED
      BY <3>1, <3>2
  <2>3. h = [pos \in 0..k + 1 |-> h[pos]]
    OBVIOUS
  <2> HIDE DEF h
  <2>4. h = [pos \in 0..k + 1 |-> IF pos = 0 THEN Current ELSE Both(h[pos - 1], call, pos)]
    BY <2>2, <2>3
  <2> QED
    BY <2>4 DEF MadeRow
<1>3. ASSUME T # {} PROVE FALSE
  <2>1. T \subseteq Nat
    OBVIOUS
  <2>2. PICK k \in T : \A j \in T : k <= j
    BY <1>3, <2>1, LeastNumber
  <2>3. k # 0 /\ k - 1 \in Nat /\ k - 1 \notin T /\ k - 1 + 1 = k
    BY <1>1, <2>2
  <2> QED
    BY <1>2, <2>2, <2>3
<1>4. \E g : MadeRow(call, L, g)
  BY <1>3
<1> DEFINE made == CHOOSE g : MadeRow(call, L, g)
<1>5. MadeRow(call, L, made)
  BY <1>4
<1>6. WithActualTrees(call) = made[L]
  BY DEF WithActualTrees, MadeRow, Both, Current, FormalIn
<1> HIDE DEF made
<1> QED
  BY <1>5, <1>6

LEMMA ActualsEffect ==
    ASSUME prog \in Programs, StoreOK(nodes, trees), id \in 0..Len(nodes), NEW call \in Calls,
           \A pos \in Positions(call) : IsTree(trees[FormalIn(call, pos)])
    PROVE  MadeOK(call, Len(prog.args[Callee(call)]), WithActualTrees(call))
<1>1. PICK L \in Nat : L = Len(prog.args[Callee(call)]) /\ Positions(call) = 1..L
  <2>1. Callee(call) \in Functions /\ Positions(call) = 1..Len(prog.args[Callee(call)])
    BY ProgramFacts
  <2>2. prog.args[Callee(call)] \in Seq(Types)
    BY <2>1, ProgramFacts
  <2> QED
    BY <2>1, <2>2
<1>2. PICK g : MadeRow(call, L, g) /\ WithActualTrees(call) = g[L]
  BY <1>1, ActualsMade
<1>3. g[0] = Current /\ \A pos \in 1..L : g[pos] = Both(g[pos - 1], call, pos)
  <2>1. \A pos \in 0..L : g[pos] = IF pos = 0 THEN Current ELSE Both(g[pos - 1], call, pos)
    BY <1>2 DEF MadeRow
  <2>2. 0 \in 0..L /\ \A pos \in 1..L : pos \in 0..L /\ pos # 0
    OBVIOUS
  <2> QED
    BY <2>1, <2>2
<1>4. MadeOK(call, 0, g[0])
  <2>1. Extends(nodes, nodes)
    <3>1. nodes \in Seq(Wrappers)
      BY DEF StoreOK
    <3> QED
      BY <3>1 DEF Extends
  <2> QED
    BY <1>3, <2>1 DEF MadeOK, Current
<1> DEFINE S == {k \in 1..L : MadeOK(call, k, g[k])}
<1>5. ASSUME NEW k \in 1..L, \A j \in 1..L : j < k => j \in S PROVE k \in S
  <2>1. PICK p \in Nat : k = p + 1 /\ p = k - 1
    OBVIOUS
  <2>2. MadeOK(call, p, g[p])
    <3>1. CASE p = 0
      BY <1>4, <3>1
    <3>2. CASE p # 0
      <4>1. p \in 1..L /\ p < k
        BY <2>1, <3>2
      <4> QED
        BY <1>5, <4>1
    <3> QED
      BY <3>1, <3>2
  <2>3. p + 1 \in Positions(call) /\ (\A pos \in 1..p : pos \in Positions(call))
    BY <1>1, <2>1
  <2>4. IsTree(trees[FormalIn(call, p + 1)])
    BY <2>3
  <2>5. MadeOK(call, p + 1, Both(g[p], call, p + 1))
    BY <2>2, <2>3, <2>4, BothEffect
  <2>6. g[k] = Both(g[p], call, p + 1)
    BY <1>3, <2>1
  <2> QED
    BY <2>1, <2>5, <2>6
<1> HIDE DEF S
<1>6. 1..L \subseteq S
  BY <1>5, Upwards
<1>7. MadeOK(call, L, g[L])
  <2>1. CASE L = 0
    BY <1>4, <2>1
  <2>2. CASE L # 0
    <3>1. L \in 1..L
      BY <2>2
    <3> QED
      BY <1>6, <3>1 DEF S
  <2> QED
    BY <2>1, <2>2
<1> QED
  BY <1>1, <1>2, <1>7

-----------------------------------------------------------------------------
(***************************************************************************)
(* What a step leaves as it is.                                              *)
(***************************************************************************)
LEMMA StorePrimed ==
    ASSUME prog' = prog, StoreOK(nodes', trees')
    PROVE  StoreOK(nodes, trees)'
BY SameProgram DEF StoreOK, DataOf

LEMMA ConnectedFacts ==
    ASSUME prog \in Programs, ControlOK, ActualsOK
    PROVE  /\ \A func \in connected \intersect Functions : func \in hasTrees
           /\ \A call \in connected \intersect Calls : builds[call] > 0 /\ Callee(call) \in hasTrees
           /\ Functions \intersect Calls = {} /\ hasTrees \subseteq Functions
           /\ \A call \in Calls : Callee(call) # call /\ Callee(call) \in Functions
<1>1. Functions \intersect Calls = {}
  BY ProgramsAssumption DEF Functions, Calls
<1>2. hasTrees \subseteq Functions /\ connected \subseteq hasTrees \union {call \in Calls : builds[call] > 0}
  BY DEF ControlOK
<1>3. \A call \in Calls : Callee(call) \in Functions
  BY ProgramFacts
<1>4. \A call \in Calls : builds[call] > 0 => Callee(call) \in hasTrees
  BY DEF ActualsOK
<1> QED
  BY <1>1, <1>2, <1>3, <1>4

\* the keys of the trees that are drawn and connected
LEMMA SettledKeys ==
    ASSUME prog \in Programs, ControlOK, ActualsOK
    PROVE  /\ \A func \in connected \intersect Functions : \A pos \in Positions(func) :
                 \A treeTy \in {"FORMAL_IN", "FORMAL_OUT"} :
                    <<func, pos, treeTy>> \in Keys /\ Settled(<<func, pos, treeTy>>)
           /\ \A call \in connected \intersect Calls : \A pos \in Positions(call) :
                 /\ \A treeTy \in {"FORMAL_IN", "FORMAL_OUT"} :
                       <<Callee(call), pos, treeTy>> \in Keys /\ Settled(<<Callee(call), pos, treeTy>>)
                 /\ \A treeTy \in {"ACTUAL_IN", "ACTUAL_OUT"} :
                       <<call, pos, treeTy>> \in Keys /\ Settled(<<call, pos, treeTy>>)
<1>1. \A owner \in Functions \union Calls : \A pos \in Positions(owner) :
          \A treeTy \in TreeTypes :
              <<owner, pos, treeTy>> \in Keys
  BY ProgramFacts
<1>2. \A call \in Calls : Callee(call) \in Functions /\ Positions(call) = Positions(Callee(call))
  BY ProgramFacts
<1>3. /\ \A func \in connected \intersect Functions : func \in hasTrees
      /\ \A call \in connected \intersect Calls : Callee(call) \in hasTrees
  BY ConnectedFacts
<1>4. \A owner \in hasTrees : \A pos : \A treeTy \in {"FORMAL_IN", "FORMAL_OUT"} :
          Settled(<<owner, pos, treeTy>>) /\ treeTy \in TreeTypes
  BY DEF Settled, TreeTypes
<1>5. \A owner \in connected : \A pos : \A treeTy \in {"ACTUAL_IN", "ACTUAL_OUT"} :
          Settled(<<owner, pos, treeTy>>) /\ treeTy \in TreeTypes
  BY DEF Settled, TreeTypes
<1> QED
  BY <1>1, <1>2, <1>3, <1>4, <1>5

\* The edges stay right while the trees they lead to are left alone.
LEMMA LinksKept ==
    ASSUME IInv, prog' = prog, deps' = deps, connected' = connected, hasTrees \subseteq hasTrees',
           nodes' \in Seq(Wrappers), Extends(nodes, nodes'),
           \A key \in Keys : Settled(key) => trees'[key] = trees[key]
    PROVE  EdgesOK' /\ LinkedOK'
<1>1. prog \in Programs /\ ControlOK /\ ActualsOK /\ EdgesOK /\ LinkedOK /\ nodes \in Seq(Wrappers)
  BY DEF IInv, ControlOK, StoreOK
<1>2. /\ Keys' = Keys /\ Functions' = Functions /\ Calls' = Calls
      /\ \A owner : (Callee(owner))' = Callee(owner)
      /\ \A owner : (Positions(owner))' = Positions(owner)
  BY SameProgram
<1>3. \A key : Settled(key) => Settled(key)'
  BY DEF Settled
<1>4. ASSUME NEW e, FieldEdge(e) PROVE FieldEdge(e)'
  <2>1. PICK a \in Keys, b \in Keys : \E n \in Members(trees[a]), m \in Members(trees[b]) :
            /\ Settled(a) /\ Settled(b)
            /\ e.from = DataOf(trees, a, n) /\ e.to = DataOf(trees, b, m)
            /\ SameField([key |-> a, place |-> Place(trees[a], n)],
                         [key |-> b, place |-> Place(trees[b], m)])
    BY <1>4 DEF FieldEdge
  <2>2. trees'[a] = trees[a] /\ trees'[b] = trees[b] /\ Settled(a)' /\ Settled(b)'
    BY <1>3, <2>1
  <2>3. \E n \in Members(trees'[a]), m \in Members(trees'[b]) :
            /\ Settled(a)' /\ Settled(b)'
            /\ e.from = DataOf(trees', a, n) /\ e.to = DataOf(trees', b, m)
            /\ SameField([key |-> a, place |-> Place(trees'[a], n)],
                         [key |-> b, place |-> Place(trees'[b], m)])
    BY <2>1, <2>2 DEF DataOf
  <2> QED
    BY <1>2, <2>3 DEF FieldEdge
<1>5. ASSUME NEW e \in deps
      PROVE  /\ {e.from, e.to} \subseteq DOMAIN nodes'
             /\ e.type = "PARAMETER" => e.from \in 1..Len(prog'.wrappers) \/ FieldEdge(e)'
  <2>1. /\ {e.from, e.to} \subseteq DOMAIN nodes
        /\ e.type = "PARAMETER" => e.from \in 1..Len(prog.wrappers) \/ FieldEdge(e)
    BY <1>1 DEF EdgesOK
  <2>2. DOMAIN nodes \subseteq DOMAIN nodes'
    BY <1>1 DEF Extends
  <2> QED
    BY <1>4, <2>1, <2>2
<1>6. EdgesOK'
  BY <1>5 DEF EdgesOK
<1>7. /\ \A func \in connected \intersect Functions : \A pos \in Positions(func) :
            \A treeTy \in {"FORMAL_IN", "FORMAL_OUT"} :
               TreeOf(func, pos, treeTy)' = TreeOf(func, pos, treeTy)
      /\ \A call \in connected \intersect Calls : \A pos \in Positions(call) :
            /\ \A treeTy \in {"FORMAL_IN", "FORMAL_OUT"} :
                  TreeOf(Callee(call), pos, treeTy)' = TreeOf(Callee(call), pos, treeTy)
            /\ \A treeTy \in {"ACTUAL_IN", "ACTUAL_OUT"} :
                  TreeOf(call, pos, treeTy)' = TreeOf(call, pos, treeTy)
  BY <1>1, <1>2, SettledKeys DEF TreeOf
<1>8. LinkedOK'
  BY <1>1, <1>2, <1>7 DEF LinkedOK
<1> QED
  BY <1>6, <1>8

\* Nodes whose wrappers have the same types, with the same line or the same
\* children in two trees, have the same paths or fields.
Typed(ns, t, N, ms, u) == \A n \in 1..N : NodeType(ms, u, n) = NodeType(ns, t, n)

LEMMA PathsAgree ==
    ASSUME NEW t, NEW N, Shape(t, N), NEW ns, NEW u, NEW ms, Typed(ns, t, N, ms, u),
           NEW n \in 1..N, Lineage(u, n) = Lineage(t, n)
    PROVE  PathOf(ms, u, n) = PathOf(ns, t, n)
<1>1. PICK line \in Seq(1..N) : line = Lineage(t, n) /\ line = Lineage(u, n)
  BY LineageSteps
<1>2. \A k \in DOMAIN line : line[k] \in 1..N
  <2>1. DOMAIN line = 1..Len(line)
    BY <1>1
  <2>2. ASSUME NEW k \in 1..Len(line) PROVE line[k] \in 1..N
    BY <2>2, ElementOfSeq
  <2> QED
    BY <2>1, <2>2
<1>3. \A k \in DOMAIN line : NodeType(ms, u, line[k]) = NodeType(ns, t, line[k])
  BY <1>2 DEF Typed
<1>4. [k \in DOMAIN line |-> NodeType(ms, u, line[k])] = [k \in DOMAIN line |-> NodeType(ns, t, line[k])]
  BY <1>3
<1> QED
  BY <1>1, <1>4 DEF PathOf

LEMMA FieldsAgree ==
    ASSUME NEW t, NEW N, Shape(t, N), NEW ns, NEW u, NEW ms, Typed(ns, t, N, ms, u),
           NEW n \in 1..N, Children(u, n) = Children(t, n)
    PROVE  FieldTypes(ms, u, n) = FieldTypes(ns, t, n)
<1>1. PICK line : line = Children(t, n) /\ line = Children(u, n)
  OBVIOUS
<1>2. \A k \in DOMAIN line : line[k] \in 1..N
  <2> DEFINE C == {c \in 2..N : t[c].parent = n}
  <2>1. line \in Seq(C)
    BY <1>1, ChildrenFacts
  <2> HIDE DEF C
  <2>2. \A k \in DOMAIN line : line[k] \in C
    BY <2>1, ElementOfSeq
  <2>3. C \subseteq 1..N
    BY ShapeFacts DEF C
  <2> QED
    BY <2>2, <2>3
<1>3. \A k \in DOMAIN line : NodeType(ms, u, line[k]) = NodeType(ns, t, line[k])
  BY <1>2 DEF Typed
<1>4. [k \in DOMAIN line |-> NodeType(ms, u, line[k])] = [k \in DOMAIN line |-> NodeType(ns, t, line[k])]
  BY <1>3
<1> QED
  BY <1>1, <1>4 DEF FieldTypes

LEMMA UnfoldingAgrees ==
    ASSUME NEW t, NEW N, Shape(t, N), NEW ns, NEW u, NEW ms, Typed(ns, t, N, ms, u),
           NEW n \in 1..N, Lineage(u, n) = Lineage(t, n), Children(u, n) = Children(t, n),
           Unfolding(ns, t, n)
    PROVE  Unfolding(ms, u, n)
<1>1. PathOf(ms, u, n) = PathOf(ns, t, n) /\ FieldTypes(ms, u, n) = FieldTypes(ns, t, n)
  BY PathsAgree, FieldsAgree
<1>2. NodeType(ms, u, n) = NodeType(ns, t, n)
  BY DEF Typed
<1> QED
  BY <1>1, <1>2 DEF Unfolding

\* The wrappers of a tree keep their types.
LEMMA TypesKept ==
    ASSUME prog \in Programs, NEW ns, NEW ts, StoreOK(ns, ts), NEW ms, Extends(ns, ms),
           NEW key \in Keys
    PROVE  /\ \A n \in Members(ts[key]) : DataOf(ts, key, n) \in 1..Len(ns)
           /\ \A n \in Members(ts[key]) : NodeType(ms, ts[key], n) = NodeType(ns, ts[key], n)
           /\ IsTree(ts[key]) => Typed(ns, ts[key], Size(ts[key]), ms, ts[key])
<1>1. \A n \in Members(ts[key]) : DataOf(ts, key, n) \in Len(prog.wrappers) + 1..Len(ns)
  BY DEF StoreOK
<1>2. \A w \in Len(prog.wrappers) + 1..Len(ns) : w \in 1..Len(ns)
  BY ProgramFacts
<1>3. \A n \in Members(ts[key]) : DataOf(ts, key, n) \in 1..Len(ns)
  BY <1>1, <1>2
<1>4. \A n \in Members(ts[key]) : NodeType(ms, ts[key], n) = NodeType(ns, ts[key], n)
  BY <1>3 DEF Extends, NodeType, DataOf
<1>5. IsTree(ts[key]) => Members(ts[key]) = 1..Size(ts[key])
  BY TreeFacts
<1> QED
  BY <1>3, <1>4, <1>5 DEF Typed

LEMMA FinishedKept ==
    ASSUME prog \in Programs, NEW ns, NEW ts, StoreOK(ns, ts), NEW ms, NEW us, Extends(ns, ms),
           NEW func \in Functions, NEW pos \in Positions(func), Finished(ns, ts, func, pos),
           us[<<func, pos, "FORMAL_IN">>] = ts[<<func, pos, "FORMAL_IN">>],
           us[<<func, pos, "FORMAL_OUT">>] = ts[<<func, pos, "FORMAL_OUT">>]
    PROVE  Finished(ms, us, func, pos)
<1> DEFINE from == <<func, pos, "FORMAL_IN">>
           to == <<func, pos, "FORMAL_OUT">>
           t == ts[from]
<1>1. from \in Keys /\ to \in Keys
  BY ProgramFacts DEF TreeTypes
<1>2. /\ CopyLike(ns, ts, from, to) /\ NodeType(ns, t, 1) = prog.args[func][pos]
      /\ \A n \in 1..Size(t) : Unfolding(ns, t, n)
  BY DEF Finished
<1> HIDE DEF from, to
<1>3. us[from] = t /\ us[to] = ts[to]
  BY DEF from, to
<1>4. CopyLike(ms, us, from, to)
  BY <1>1, <1>2, <1>3, CopyKept
<1>5. IsTree(t) /\ Shape(t, Size(t)) /\ 1 \in Members(t) /\ Members(t) = 1..Size(t)
  BY <1>2, TreeFacts DEF CopyLike, IsTree
<1>6. Typed(ns, t, Size(t), ms, t) /\ NodeType(ms, t, 1) = NodeType(ns, t, 1)
  <2>1. /\ \A n \in Members(ts[from]) : NodeType(ms, ts[from], n) = NodeType(ns, ts[from], n)
        /\ IsTree(ts[from]) => Typed(ns, ts[from], Size(ts[from]), ms, ts[from])
    BY <1>1, TypesKept
  <2> QED
    BY <1>5, <2>1
<1>7. \A n \in 1..Size(t) : Unfolding(ms, t, n)
  BY <1>2, <1>5, <1>6, UnfoldingAgrees
<1> QED
  BY <1>2, <1>3, <1>4, <1>6, <1>7 DEF Finished, from, to

LEMMA FormalsKept ==
    ASSUME IInv, prog' = prog, Extends(nodes, nodes'),
           \A func \in Functions : \A pos \in Positions(func) :
              Complete(func, pos)' =>
                 /\ Complete(func, pos)
                 /\ \A treeTy \in {"FORMAL_IN", "FORMAL_OUT"} :
                       trees'[<<func, pos, treeTy>>] = trees[<<func, pos, treeTy>>]
    PROVE  FormalsOK'
<1>1. prog \in Programs /\ StoreOK(nodes, trees) /\ FormalsOK
  BY DEF IInv, ControlOK
<1>2. /\ Keys' = Keys /\ Functions' = Functions /\ \A owner : (Positions(owner))' = Positions(owner)
  BY SameProgram
<1>3. ASSUME NEW func \in Functions, NEW pos \in Positions(func), Complete(func, pos)'
      PROVE  Finished(nodes', trees', func, pos)
  <2>1. Finished(nodes, trees, func, pos)
    BY <1>1, <1>3 DEF FormalsOK
  <2>2. /\ trees'[<<func, pos, "FORMAL_IN">>] = trees[<<func, pos, "FORMAL_IN">>]
        /\ trees'[<<func, pos, "FORMAL_OUT">>] = trees[<<func, pos, "FORMAL_OUT">>]
    BY <1>3
  <2> QED
    BY <1>1, <2>1, <2>2, FinishedKept
<1>4. ASSUME NEW func, NEW pos, Finished(nodes', trees', func, pos)
      PROVE  Finished(nodes, trees, func, pos)'
  BY <1>4 DEF Finished
<1> QED
  BY <1>2, <1>3, <1>4 DEF FormalsOK

\* Building a function's trees does not touch what other trees were copied from
\* or connected to.
LEMMA QuietStep ==
    ASSUME IInv, prog' = prog, deps' = deps, connected' = connected, builds' = builds,
           hasTrees \subseteq hasTrees', nodes' \in Seq(Wrappers), Extends(nodes, nodes'),
           \A key \in Keys : key[1] \in hasTrees \union Calls => trees'[key] = trees[key]
    PROVE  EdgesOK' /\ LinkedOK' /\ ActualsOK'
<1>1. prog \in Programs /\ ControlOK /\ ActualsOK /\ StoreOK(nodes, trees)
  BY DEF IInv, ControlOK
<1>2. /\ Keys' = Keys /\ Calls' = Calls /\ Functions' = Functions
      /\ \A owner : (Callee(owner))' = Callee(owner)
      /\ \A owner : (Positions(owner))' = Positions(owner)
  BY SameProgram
<1>3. connected \subseteq hasTrees \union Calls
  BY <1>1 DEF ControlOK
<1>4. \A key \in Keys : Settled(key) => trees'[key] = trees[key]
  BY <1>3 DEF Settled
<1>5. EdgesOK' /\ LinkedOK'
  BY <1>4, LinksKept
<1>6. ASSUME NEW call \in Calls, builds[call] > 0,
             NEW pos \in Positions(call), NEW treeTy \in {"ACTUAL_IN", "ACTUAL_OUT"}
      PROVE  CopyLike(nodes', trees', <<Callee(call), pos, "FORMAL_IN">>, <<call, pos, treeTy>>)
  <2>1. PICK from, to \in Keys : from = <<Callee(call), pos, "FORMAL_IN">> /\ to = <<call, pos, treeTy>>
    <3>1. Callee(call) \in Functions /\ pos \in Positions(Callee(call))
      BY <1>1, ProgramFacts
    <3> QED
      BY <1>1, <3>1, ProgramFacts DEF TreeTypes
  <2>2. Callee(call) \in hasTrees
    BY <1>1, <1>6 DEF ActualsOK
  <2>3. CopyLike(nodes, trees, from, to)
    BY <1>1, <1>6, <2>1 DEF ActualsOK
  <2>4. trees'[from] = trees[from] /\ trees'[to] = trees[to]
    BY <2>1, <2>2
  <2>5. CopyLike(nodes', trees', from, to)
    BY <1>1, <2>1, <2>3, <2>4, CopyKept
  <2> QED
    BY <2>1, <2>5
<1>7. \A call \in Calls : builds[call] > 0 => Callee(call) \in hasTrees'
  BY <1>1 DEF ActualsOK
<1>8. ActualsOK'
  BY <1>2, <1>6, <1>7 DEF ActualsOK
<1> QED
  BY <1>5, <1>8

LEMMA SameNodes ==
    ASSUME StoreOK(nodes, trees), prog' = prog, nodes' = nodes, trees' = trees
    PROVE  /\ StoreOK(nodes, trees)' /\ Extends(nodes, nodes') /\ nodes' \in Seq(Wrappers)
           /\ \A key \in Keys : trees'[key] = trees[key]
<1>1. StoreOK(nodes', trees') /\ nodes' \in Seq(Wrappers) /\ Len(nodes) \in Nat
  BY DEF StoreOK
<1> QED
  BY <1>1, StorePrimed DEF Extends

-----------------------------------------------------------------------------
(***************************************************************************)
(* The steps, one after another.                                            *)
(***************************************************************************)
LEMMA BeginKeeps ==
    ASSUME IInv, NEW func \in Functions, BuildFormalParameterTrees(func)
    PROVE  IInv'
<1>1. /\ arg = NoArgument /\ func \notin hasTrees /\ arg' = [func |-> func, pos |-> 1]
      /\ prog' = prog /\ nodes' = nodes /\ trees' = trees /\ id' = id /\ frames' = frames
      /\ hasTrees' = hasTrees /\ builds' = builds /\ connected' = connected /\ deps' = deps
  BY DEF BuildFormalParameterTrees, Idle
<1>2. prog \in Programs /\ StoreOK(nodes, trees) /\ ControlOK /\ FreshOK
  BY DEF IInv, ControlOK
<1>3. /\ Keys' = Keys /\ Functions' = Functions /\ Calls' = Calls
      /\ \A owner : (Positions(owner))' = Positions(owner)
  BY <1>1, SameProgram
<1>4. /\ StoreOK(nodes, trees)' /\ Extends(nodes, nodes') /\ nodes' \in Seq(Wrappers)
      /\ \A key \in Keys : trees'[key] = trees[key]
  BY <1>1, <1>2, SameNodes
<1>5. arg.func = 0 /\ func # 0 /\ \A f \in Functions : f # 0 /\ \A pos \in Positions(f) : pos \in Nat \ {0}
  <2>1. \A f \in Functions : f \in 1..Len(prog.wrappers)
    BY <1>2, ProgramFacts
  <2>2. \A f \in Functions : Positions(f) = 1..Len(prog.args[Callee(f)])
    BY <1>2, ProgramFacts
  <2>3. \A f \in Functions : f # 0
    BY <2>1
  <2>4. ASSUME NEW f \in Functions, NEW pos \in Positions(f) PROVE pos \in Nat \ {0}
    <3>1. pos \in 1..Len(prog.args[Callee(f)])
      BY <2>2
    <3> QED
      BY <3>1
  <2> QED
    BY <1>1, <2>3, <2>4 DEF NoArgument
<1>6. \A f \in Functions : \A pos \in Positions(f) :
          /\ Complete(f, pos)' <=> Complete(f, pos)
          /\ ~(arg.func = f /\ arg.pos = pos)
  <2>1. \A f \in Functions : \A pos \in Positions(f) : ~ (pos < 1)
    BY <1>5
  <2> QED
    BY <1>1, <1>5, <2>1 DEF Complete
<1>7. FormalsOK'
  BY <1>1, <1>4, <1>6, FormalsKept
<1>8. EdgesOK' /\ LinkedOK' /\ ActualsOK'
  BY <1>1, <1>4, QuietStep
<1>9. ControlOK'
  <2>1. /\ id \in 0..Len(nodes) /\ Len(nodes) <= MaxNodes
        /\ frames \in Seq([type : Types, fieldId : Int, i : Nat]) /\ frames = <<>>
        /\ hasTrees \subseteq Functions /\ builds \in [Calls -> Nat]
        /\ connected \subseteq hasTrees \union {call \in Calls : builds[call] > 0}
    BY <1>1, <1>2 DEF ControlOK, Idle
  <2>2. arg'.func \in Functions \ hasTrees /\ 1 \in 1..Len(prog.args[func]) + 1
    <3>1. prog.args[func] \in Seq(Types)
      BY <1>2, ProgramFacts
    <3> QED
      BY <1>1, <3>1
  <2> QED
    BY <1>1, <1>2, <1>3, <2>1, <2>2 DEF ControlOK
<1>10. FreshOK'
  BY <1>1, <1>2, <1>3, <1>6 DEF FreshOK
<1>11. BuildOK'
  <2>1. ASSUME 1 \in Positions(func) PROVE trees[<<func, 1, "FORMAL_IN">>] = EmptyTree
    <3>1. ~Complete(func, 1)
      BY <1>1, <1>5 DEF Complete
    <3> QED
      BY <1>2, <1>6, <2>1, <3>1 DEF FreshOK
  <2>2. (~Idle /\ arg.pos \in Positions(arg.func) /\ ~IsEmpty(trees[Building]))' = FALSE
    BY <1>1, <1>3, <2>1, EmptyFacts DEF Building
  <2> QED
    BY <2>2 DEF BuildOK
<1> QED
  BY <1>4, <1>7, <1>8, <1>9, <1>10, <1>11 DEF IInv

LEMMA StutterKeeps ==
    ASSUME IInv, UNCHANGED vars
    PROVE  IInv'
<1>1. /\ prog' = prog /\ nodes' = nodes /\ trees' = trees /\ id' = id /\ frames' = frames
      /\ arg' = arg /\ hasTrees' = hasTrees /\ builds' = builds
      /\ connected' = connected /\ deps' = deps
  BY DEF vars
<1>2. prog \in Programs /\ StoreOK(nodes, trees) /\ ControlOK /\ FreshOK /\ BuildOK
  BY DEF IInv, ControlOK
<1>3. /\ Keys' = Keys /\ Functions' = Functions /\ Calls' = Calls
      /\ \A owner : (Positions(owner))' = Positions(owner)
  BY <1>1, SameProgram
<1>4. /\ StoreOK(nodes, trees)' /\ Extends(nodes, nodes') /\ nodes' \in Seq(Wrappers)
      /\ \A key \in Keys : trees'[key] = trees[key]
  BY <1>1, <1>2, SameNodes
<1>5. \A f, pos : Complete(f, pos)' <=> Complete(f, pos)
  BY <1>1 DEF Complete
<1>6. FormalsOK'
  BY <1>1, <1>4, <1>5, FormalsKept
<1>7. EdgesOK' /\ LinkedOK' /\ ActualsOK'
  BY <1>1, <1>4, QuietStep
<1>8. ControlOK'
  BY <1>1, <1>2, <1>3 DEF ControlOK, Idle, Building
<1>9. FreshOK' /\ BuildOK'
  BY <1>1, <1>2, <1>3, <1>5 DEF FreshOK, BuildOK, Idle, Building
<1> QED
  BY <1>4, <1>6, <1>7, <1>8, <1>9 DEF IInv

\* While an argument is at hand, its function has no flag yet.
LEMMA AtHand ==
    ASSUME ControlOK, ~Idle
    PROVE  /\ arg = [func |-> arg.func, pos |-> arg.pos]
           /\ arg.func \in Functions /\ arg.func \notin hasTrees
           /\ arg.pos \in 1..Len(prog.args[arg.func]) + 1
           /\ Positions(arg.func) = 1..Len(prog.args[arg.func])
           /\ Len(prog.args[arg.func]) \in Nat
<1>1. prog \in Programs
  BY DEF ControlOK
<1>2. /\ arg = [func |-> arg.func, pos |-> arg.pos]
      /\ arg.func \in Functions \ hasTrees
      /\ arg.pos \in 1..Len(prog.args[arg.func]) + 1
  BY DEF ControlOK, Idle
<1>3. prog.args[arg.func] \in Seq(Types)
  BY <1>1, <1>2, ProgramFacts
<1>4. Callee(arg.func) = arg.func /\ Positions(arg.func) = 1..Len(prog.args[Callee(arg.func)])
  BY <1>1, <1>2, ProgramFacts
<1> QED
  BY <1>2, <1>3, <1>4

LEMMA ArgumentsDoneKeeps ==
    ASSUME IInv, ArgumentsDone
    PROVE  IInv'
<1>1. /\ ~Idle /\ arg.pos \notin Positions(arg.func) /\ arg' = NoArgument
      /\ prog' = prog /\ nodes' = nodes /\ trees' = trees /\ id' = id /\ frames' = frames
      /\ hasTrees' = hasTrees \union {arg.func} /\ builds' = builds
      /\ connected' = connected /\ deps' = deps
  BY DEF ArgumentsDone
<1>2. prog \in Programs /\ StoreOK(nodes, trees) /\ ControlOK /\ FreshOK
  BY DEF IInv, ControlOK
<1>3. /\ Keys' = Keys /\ Functions' = Functions /\ Calls' = Calls
      /\ \A owner : (Positions(owner))' = Positions(owner)
  BY <1>1, SameProgram
<1>4. /\ StoreOK(nodes, trees)' /\ Extends(nodes, nodes') /\ nodes' \in Seq(Wrappers)
      /\ \A key \in Keys : trees'[key] = trees[key]
  BY <1>1, <1>2, SameNodes
<1>5. /\ arg.func \in Functions /\ Positions(arg.func) = 1..Len(prog.args[arg.func])
      /\ \A pos \in Positions(arg.func) : pos < arg.pos
  BY <1>1, <1>2, AtHand
<1>6. \A f \in Functions : f # 0
  <2>1. \A f \in Functions : f \in 1..Len(prog.wrappers)
    BY <1>2, ProgramFacts
  <2> QED
    BY <2>1
<1>7. \A f \in Functions : \A pos \in Positions(f) :
          /\ Complete(f, pos)' <=> Complete(f, pos)
          /\ ~Complete(f, pos) => ~(arg.func = f /\ arg.pos = pos)
  BY <1>1, <1>5, <1>6 DEF Complete, NoArgument
<1>8. FormalsOK'
  BY <1>1, <1>4, <1>7, FormalsKept
<1>9. EdgesOK' /\ LinkedOK' /\ ActualsOK'
  BY <1>1, <1>4, QuietStep
<1>10. frames = <<>>
  BY <1>1, <1>2 DEF ControlOK
<1>11. ControlOK'
  BY <1>1, <1>2, <1>3, <1>5, <1>10 DEF ControlOK
<1>12. FreshOK'
  BY <1>1, <1>2, <1>3, <1>7 DEF FreshOK
<1>13. BuildOK'
  BY <1>1 DEF BuildOK, Idle
<1> QED
  BY <1>4, <1>8, <1>9, <1>11, <1>12, <1>13 DEF IInv

\* The activations of buildFormalTypeTree are those of the argument at hand.
LEMMA ActiveFrame ==
    ASSUME IInv, frames # <<>>
    PROVE  /\ ~Idle /\ arg.pos \in Positions(arg.func) /\ Building \in Keys
           /\ IsTree(trees[Building]) /\ arg.func \in Functions /\ arg.func \notin hasTrees
           /\ frames \in Seq([type : Types, fieldId : Int, i : Nat])
           /\ Len(frames) \in Nat \ {0} /\ DOMAIN frames = 1..Len(frames)
           /\ Top = frames[Len(frames)] /\ Top \in [type : Types, fieldId : Int, i : Nat]
           /\ Underway(nodes, trees[Building], prog.args[arg.func][arg.pos], id, frames)
<1>1. prog \in Programs /\ ControlOK /\ BuildOK /\ StoreOK(nodes, trees)
  BY DEF IInv, ControlOK
<1>2. /\ ~Idle /\ arg.pos \in Positions(arg.func) /\ ~IsEmpty(trees[Building])
      /\ frames \in Seq([type : Types, fieldId : Int, i : Nat])
  BY <1>1 DEF ControlOK
<1>3. arg.func \in Functions /\ arg.func \notin hasTrees
  BY <1>1, <1>2, AtHand
<1>4. Building \in Keys
  BY <1>1, <1>2, <1>3, ProgramFacts DEF Building, TreeTypes
<1>5. IsTree(trees[Building])
  BY <1>1, <1>2, <1>4, EmptyFacts DEF StoreOK
<1>6. Len(frames) \in Nat \ {0} /\ DOMAIN frames = 1..Len(frames)
  BY <1>2, EmptySeq
<1>7. Top = frames[Len(frames)] /\ Top \in [type : Types, fieldId : Int, i : Nat]
  <2>1. Top = frames[Len(frames)]
    BY DEF Top, Last
  <2> QED
    <3> DEFINE A == [type : Types, fieldId : Int, i : Nat]
    <3>1. frames \in Seq(A) /\ Len(frames) \in 1..Len(frames)
      BY <1>2, <1>6
    <3> HIDE DEF A
    <3>2. frames[Len(frames)] \in A
      BY <3>1, ElementOfSeq
    <3> QED
      BY <2>1, <3>2 DEF A
<1>8. Underway(nodes, trees[Building], prog.args[arg.func][arg.pos], id, frames)
  BY <1>1, <1>2 DEF BuildOK
<1> QED
  BY <1>2, <1>3, <1>4, <1>5, <1>6, <1>7, <1>8

\* The path to a node has its type at the end, and the types of its ancestors
\* before.
LEMMA PathIs ==
    ASSUME NEW t, NEW N, Shape(t, N), NEW n \in 1..N, NEW ns
    PROVE  LET line == Lineage(t, n)
               path == PathOf(ns, t, n)
           IN  /\ line \in Seq(1..N) /\ Len(line) \in Nat \ {0} /\ line[1] = n
               /\ Len(path) = Len(line) /\ DOMAIN path = 1..Len(line)
               /\ \A k \in 1..Len(line) : path[k] = NodeType(ns, t, line[Len(line) - k + 1])
               /\ path[Len(line)] = NodeType(ns, t, n)
<1>1. PICK line \in Seq(1..N) : line = Lineage(t, n)
  BY LineageSteps
<1>2. Len(line) \in Nat \ {0} /\ line[1] = n
  <2>1. /\ Lineage(t, 1) = <<1>>
        /\ \A m \in 2..N : Lineage(t, m) = <<m>> \o Lineage(t, t[m].parent)
        /\ \A m \in 1..N : Lineage(t, m) \in Seq(1..N)
    BY LineageSteps
  <2>2. CASE n = 1
    BY <1>1, <2>1, <2>2
  <2>3. CASE n # 1
    <3>1. n \in 2..N /\ t[n].parent \in 1..N
      BY <2>3, ShapeFacts DEF Shape, SiblingsOK
    <3>2. PICK v \in Seq(1..N) : v = Lineage(t, t[n].parent)
      BY <2>1, <3>1
    <3>3. Len(<<n>> \o v) = Len(v) + 1 /\ <<n>> \o v = [i \in 1..Len(v) + 1 |-> IF i = 1 THEN n ELSE v[i - 1]]
      BY Prefixed
    <3>4. Len(v) \in Nat
      OBVIOUS
    <3>5. line = <<n>> \o v
      BY <1>1, <2>1, <3>1, <3>2
    <3> QED
      BY <3>3, <3>4, <3>5
  <2> QED
    BY <2>2, <2>3
<1> DEFINE F == [k \in 1..Len(line) |-> NodeType(ns, t, line[k])]
           R == Reverse(F)
<1>3. Len(F) = Len(line)
  <2>1. F \in [1..Len(line) -> {F[k] : k \in 1..Len(line)}]
    OBVIOUS
  <2> HIDE DEF F
  <2> QED
    BY <1>2, <2>1, FunctionIsSeq
<1>4. DOMAIN line = 1..Len(line)
  BY <1>1
<1>5. PathOf(ns, t, n) = R
  BY <1>1, <1>4 DEF PathOf
<1>6. R = [k \in 1..Len(line) |-> F[Len(line) - k + 1]]
  <2> HIDE DEF F
  <2> QED
    BY <1>3 DEF Reverse
<1>7. \A k \in 1..Len(line) : Len(line) - k + 1 \in 1..Len(line)
  BY <1>2
<1>8. \A k \in 1..Len(line) : R[k] = NodeType(ns, t, line[Len(line) - k + 1])
  <2>1. \A k \in 1..Len(line) : F[k] = NodeType(ns, t, line[k])
    OBVIOUS
  <2> HIDE DEF F, R
  <2> QED
    BY <1>6, <1>7, <2>1
<1>9. Len(R) = Len(line)
  <2>1. R \in [1..Len(line) -> {R[k] : k \in 1..Len(line)}]
    <3> HIDE DEF F
    <3> QED
      BY <1>6
  <2> HIDE DEF F, R
  <2> QED
    BY <1>2, <2>1, FunctionIsSeq
<1>10. DOMAIN R = 1..Len(line)
  <2> HIDE DEF F
  <2> QED
    BY <1>6
<1> HIDE DEF R
<1>11. R[Len(line)] = NodeType(ns, t, n)
  <2>1. Len(line) \in 1..Len(line) /\ Len(line) - Len(line) + 1 = 1
    BY <1>2
  <2> QED
    BY <1>2, <1>8, <2>1
<1> QED
  BY <1>1, <1>2, <1>5, <1>8, <1>9, <1>10, <1>11

LEMMA PointerFacts ==
    ASSUME NEW type \in Types, IsPointer(type)
    PROVE  Pointee(type) \in Types /\ Fields(type) \in Seq(Types) /\ Len(Fields(type)) \in Nat
<1>1. PICK c \in Seq(Types) : c = TypeTable[type].contained /\ Len(c) = 1
  BY TypesAssumption DEF IsPointer
<1>2. Pointee(type) = c[1]
  BY <1>1 DEF Pointee
<1>3. Pointee(type) \in Types
  BY <1>1, <1>2, ElementOfSeq
<1>4. Fields(type) \in Seq(Types)
  BY <1>3, TypesAssumption DEF Fields
<1> QED
  BY <1>3, <1>4

LEMMA FrontFacts ==
    ASSUME NEW S, NEW s \in Seq(S), Len(s) \in Nat \ {0}
    PROVE  /\ Front(s) \in Seq(S) /\ Len(Front(s)) = Len(s) - 1
           /\ DOMAIN Front(s) = 1..Len(s) - 1
           /\ \A k \in 1..Len(s) - 1 : Front(s)[k] = s[k]
<1>1. Front(s) = SubSeq(s, 1, Len(s) - 1)
  BY DEF Front
<1>2. Len(s) - 1 \in Nat /\ Len(s) \in Nat /\ \A k \in 1..Len(s) - 1 : k \in 1..Len(s)
  OBVIOUS
<1>3. SubSeq(s, 1, Len(s) - 1) = [k \in 1..Len(s) - 1 |-> s[k]]
  BY <1>2
<1>4. \A k \in 1..Len(s) - 1 : s[k] \in S
  BY <1>2, ElementOfSeq
<1> DEFINE f == Front(s)
           n == Len(s) - 1
<1>5. f \in [1..n -> S]
  BY <1>1, <1>3, <1>4
<1>6. n \in Nat
  BY <1>2
<1> HIDE DEF f, n
<1>7. f \in Seq(S) /\ Len(f) = n /\ DOMAIN f = 1..n
  BY <1>5, <1>6, FunctionIsSeq
<1> QED
  BY <1>1, <1>3, <1>7 DEF f, n

LEMMA FieldsDoneKeeps ==
    ASSUME IInv, FieldsDone
    PROVE  IInv'
<1>1. /\ frames # <<>> /\ Top.i > Len(Fields(Top.type)) /\ frames' = Front(frames)
      /\ prog' = prog /\ nodes' = nodes /\ trees' = trees /\ id' = id
      /\ arg' = arg /\ hasTrees' = hasTrees /\ builds' = builds
      /\ connected' = connected /\ deps' = deps
  BY DEF FieldsDone
<1>2. prog \in Programs /\ StoreOK(nodes, trees) /\ ControlOK /\ FreshOK /\ BuildOK
  BY DEF IInv, ControlOK
<1>3. /\ Keys' = Keys /\ Functions' = Functions /\ Calls' = Calls
      /\ \A owner : (Positions(owner))' = Positions(owner)
  BY <1>1, SameProgram
<1>4. /\ StoreOK(nodes, trees)' /\ Extends(nodes, nodes') /\ nodes' \in Seq(Wrappers)
      /\ \A key \in Keys : trees'[key] = trees[key]
  BY <1>1, <1>2, SameNodes
<1>5. \A f, pos : Complete(f, pos)' <=> Complete(f, pos)
  BY <1>1 DEF Complete
<1>6. FormalsOK'
  BY <1>1, <1>4, <1>5, FormalsKept
<1>7. EdgesOK' /\ LinkedOK' /\ ActualsOK'
  BY <1>1, <1>4, QuietStep
<1> DEFINE t == trees[Building]
           K == Len(frames)
<1>8. /\ ~Idle /\ arg.pos \in Positions(arg.func) /\ IsTree(t)
      /\ K \in Nat \ {0} /\ DOMAIN frames = 1..K /\ Top = frames[K]
      /\ frames \in Seq([type : Types, fieldId : Int, i : Nat])
      /\ Top \in [type : Types, fieldId : Int, i : Nat]
      /\ Underway(nodes, t, prog.args[arg.func][arg.pos], id, frames)
  BY <1>1, ActiveFrame
<1>9. /\ frames' \in Seq([type : Types, fieldId : Int, i : Nat])
      /\ DOMAIN frames' = 1..K - 1 /\ \A k \in 1..K - 1 : frames'[k] = frames[k]
  BY <1>1, <1>8, FrontFacts
<1> HIDE DEF K
<1>10. ControlOK'
  <2>1. ~IsEmpty(t)
    BY <1>8, TreeFacts
  <2> QED
    BY <1>1, <1>2, <1>3, <1>8, <1>9, <2>1 DEF ControlOK, Idle, Building
<1>11. FreshOK'
  BY <1>1, <1>2, <1>3, <1>5 DEF FreshOK
<1>12. Unfolding(nodes, t, At(t, id, Top))
  <2>1. ActivationOK(nodes, t, id, Top)
    BY <1>8 DEF Underway
  <2>2. PICK n \in 1..Size(t) : n = At(t, id, Top)
    BY <2>1 DEF ActivationOK
  <2>3. /\ NodeType(nodes, t, n) = Top.type /\ Continues(PathOf(nodes, t, n))
        /\ Top.i \in 1..Len(Fields(Top.type)) + 1
        /\ FieldTypes(nodes, t, n) = SubSeq(Fields(Top.type), 1, Top.i - 1)
    BY <2>1, <2>2 DEF ActivationOK
  <2>4. PICK fs \in Seq(Types) : fs = Fields(Top.type)
    <3>1. IsPointer(Top.type)
      <4>1. Shape(t, Size(t))
        BY <1>8 DEF IsTree
      <4>2. PICK path : path = PathOf(nodes, t, n) /\ path[Len(path)] = NodeType(nodes, t, n)
        BY <4>1, PathIs
      <4> QED
        BY <2>3, <4>2 DEF Continues
    <3> QED
      BY <1>8, <3>1, PointerFacts
  <2>5. Len(fs) \in Nat /\ Top.i - 1 = Len(fs)
    <3>1. Top.i > Len(fs) /\ Top.i \in 1..Len(fs) + 1
      BY <1>1, <2>3, <2>4
    <3>2. PICK i, L : i = Top.i /\ L = Len(fs) /\ L \in Nat
      BY <2>4
    <3>3. i > L /\ i \in 1..L + 1
      BY <3>1, <3>2
    <3>4. i - 1 = L
      BY <3>2, <3>3
    <3> QED
      BY <3>2, <3>4
  <2>6. SubSeq(fs, 1, Len(fs)) = fs
    BY <2>4
  <2>7. FieldTypes(nodes, t, n) = fs
    BY <2>3, <2>4, <2>5, <2>6
  <2> QED
    BY <2>2, <2>3, <2>4, <2>7 DEF Unfolding
<1>13. Underway(nodes, t, prog.args[arg.func][arg.pos], id, frames')
  <2>1. \A k \in 1..K - 1 : k \in 1..K
    BY <1>8 DEF K
  <2>2. /\ \A n \in 1..Size(t) : nodes[t[n].data].fieldId = id - Size(t) + n - 1
        /\ NodeType(nodes, t, 1) = prog.args[arg.func][arg.pos]
    BY <1>8 DEF Underway
  <2>3. \A k \in DOMAIN frames' : ActivationOK(nodes, t, id, frames'[k])
    BY <1>8, <1>9, <2>1 DEF Underway
  <2>4. \A j, k \in DOMAIN frames' : j < k => At(t, id, frames'[j]) < At(t, id, frames'[k])
    BY <1>8, <1>9, <2>1 DEF Underway
  <2>5. ASSUME NEW n \in 1..Size(t), \A k \in DOMAIN frames' : At(t, id, frames'[k]) # n
        PROVE  Unfolding(nodes, t, n)
    <3>1. CASE At(t, id, Top) = n
      BY <1>12, <3>1
    <3>2. CASE At(t, id, Top) # n
      <4>1. \A k \in 1..K : k \in 1..K - 1 \/ k = K
        BY <1>8
      <4>2. \A k \in 1..K : At(t, id, frames[k]) # n
        BY <1>8, <1>9, <2>5, <3>2, <4>1
      <4> QED
        BY <1>8, <4>2 DEF Underway
    <3> QED
      BY <3>1, <3>2
  <2> QED
    BY <2>2, <2>3, <2>4, <2>5 DEF Underway
<1>14. BuildOK'
  BY <1>1, <1>13 DEF BuildOK, Building
<1> QED
  BY <1>4, <1>6, <1>7, <1>10, <1>11, <1>14 DEF IInv

LEMMA BuildActualKeeps ==
    ASSUME IInv, NEW call \in Calls, BuildActualParameterTrees(call)
    PROVE  IInv'
<1> DEFINE s == WithActualTrees(call)
<1>1. /\ Idle /\ Callee(call) \in hasTrees /\ call \notin connected
      /\ Len(s.nodes) <= MaxNodes /\ nodes' = s.nodes /\ trees' = s.trees /\ id' = s.id
      /\ builds' = [builds EXCEPT ![call] = @ + 1]
      /\ prog' = prog /\ frames' = frames /\ arg' = arg /\ hasTrees' = hasTrees
      /\ connected' = connected /\ deps' = deps
  BY DEF BuildActualParameterTrees, Become
<1> HIDE DEF s
<1>2. /\ prog \in Programs /\ StoreOK(nodes, trees) /\ ControlOK /\ FreshOK /\ FormalsOK
      /\ ActualsOK /\ id \in 0..Len(nodes)
  BY DEF IInv, ControlOK
<1>3. /\ Keys' = Keys /\ Functions' = Functions /\ Calls' = Calls
      /\ \A owner : (Callee(owner))' = Callee(owner)
      /\ \A owner : (Positions(owner))' = Positions(owner)
  BY <1>1, SameProgram
<1>4. /\ Callee(call) \in Functions /\ Callee(call) # call /\ call \notin Functions
      /\ Positions(call) = Positions(Callee(call))
      /\ Positions(call) = 1..Len(prog.args[Callee(call)])
      /\ hasTrees \subseteq Functions
  BY <1>2, ConnectedFacts, ProgramFacts
<1>5. \A pos \in Positions(call) : IsTree(trees[FormalIn(call, pos)])
  BY <1>1, <1>2, <1>4 DEF FormalsOK, Complete, Finished, CopyLike, FormalIn
<1>6. MadeOK(call, Len(prog.args[Callee(call)]), s)
  BY <1>2, <1>5, ActualsEffect DEF s
<1>7. /\ StoreOK(nodes', trees') /\ Extends(nodes, nodes') /\ id' \in 0..Len(nodes')
      /\ nodes' \in Seq(Wrappers)
      /\ \A key \in Keys : key[1] # call => trees'[key] = trees[key]
      /\ \A pos \in Positions(call) : \A treeTy \in {"ACTUAL_IN", "ACTUAL_OUT"} :
            CopyLike(nodes', trees', FormalIn(call, pos), <<call, pos, treeTy>>)
  <2>1. PICK p : p = Len(prog.args[Callee(call)])
    OBVIOUS
  <2>2. /\ StoreOK(s.nodes, s.trees) /\ Extends(nodes, s.nodes) /\ s.id \in 0..Len(s.nodes)
        /\ \A key \in Keys : key[1] # call => s.trees[key] = trees[key]
        /\ \A pos \in 1..p : \A treeTy \in {"ACTUAL_IN", "ACTUAL_OUT"} :
              CopyLike(s.nodes, s.trees, FormalIn(call, pos), <<call, pos, treeTy>>)
    BY <1>6, <2>1 DEF MadeOK
  <2>3. s.nodes \in Seq(Wrappers)
    BY <2>2 DEF StoreOK
  <2> QED
    BY <1>1, <1>4, <2>1, <2>2, <2>3
<1>8. StoreOK(nodes, trees)'
  BY <1>1, <1>7, StorePrimed
<1>9. \A f, pos : Complete(f, pos)' <=> Complete(f, pos)
  BY <1>1 DEF Complete
<1>10. FormalsOK'
  <2>1. ASSUME NEW f \in Functions, NEW pos \in Positions(f), NEW treeTy \in {"FORMAL_IN", "FORMAL_OUT"}
        PROVE  trees'[<<f, pos, treeTy>>] = trees[<<f, pos, treeTy>>]
    <3>1. <<f, pos, treeTy>> \in Keys /\ f # call
      BY <1>2, <1>4, ProgramFacts DEF TreeTypes
    <3> QED
      BY <1>7, <3>1
  <2> QED
    BY <1>1, <1>7, <1>9, <2>1, FormalsKept
<1>11. EdgesOK' /\ LinkedOK'
  <2>1. \A key \in Keys : Settled(key) => trees'[key] = trees[key]
    BY <1>1, <1>4, <1>7 DEF Settled
  <2> QED
    BY <1>1, <1>7, <2>1, LinksKept
<1>12. /\ builds \in [Calls -> Nat] /\ builds' \in [Calls -> Nat] /\ builds'[call] > 0
       /\ \A c \in Calls : builds[c] > 0 => builds'[c] > 0
       /\ \A c \in Calls \ {call} : builds'[c] = builds[c]
  <2>1. builds \in [Calls -> Nat]
    BY <1>2 DEF ControlOK
  <2> QED
    BY <1>1, <2>1
<1>13. ASSUME NEW c \in Calls, builds'[c] > 0,
              NEW pos \in Positions(c), NEW treeTy \in {"ACTUAL_IN", "ACTUAL_OUT"}
       PROVE  CopyLike(nodes', trees', <<Callee(c), pos, "FORMAL_IN">>, <<c, pos, treeTy>>)
  <2>1. CASE c = call
    BY <1>7, <2>1 DEF FormalIn
  <2>2. CASE c # call
    <3>1. Callee(c) \in Functions /\ pos \in Positions(Callee(c)) /\ Callee(c) # call
      BY <1>2, <1>4, ProgramFacts
    <3>2. PICK from, to \in Keys : from = <<Callee(c), pos, "FORMAL_IN">> /\ to = <<c, pos, treeTy>>
      BY <1>2, <3>1, ProgramFacts DEF TreeTypes
    <3>6. builds[c] > 0
      BY <1>12, <1>13, <2>2
    <3>3. CopyLike(nodes, trees, from, to)
      BY <1>2, <3>2, <3>6 DEF ActualsOK
    <3>4. trees'[from] = trees[from] /\ trees'[to] = trees[to]
      BY <1>7, <2>2, <3>1, <3>2
    <3>5. CopyLike(nodes', trees', from, to)
      BY <1>2, <1>7, <3>2, <3>3, <3>4, CopyKept
    <3> QED
      BY <3>2, <3>5
  <2> QED
    BY <2>1, <2>2
<1>14. \A c \in Calls : builds'[c] > 0 => Callee(c) \in hasTrees'
  BY <1>1, <1>2, <1>12 DEF ActualsOK
<1>15. ActualsOK'
  BY <1>3, <1>13, <1>14 DEF ActualsOK
<1>16. ControlOK'
  <2>1. frames = <<>>
    BY <1>1, <1>2 DEF ControlOK
  <2>2. connected \subseteq hasTrees \union {c \in Calls : builds'[c] > 0}
    BY <1>2, <1>12 DEF ControlOK
  <2> QED
    BY <1>1, <1>2, <1>3, <1>7, <1>12, <2>1, <2>2 DEF ControlOK, Idle
<1>17. FreshOK'
  <2>1. ASSUME NEW f \in Functions, NEW pos \in Positions(f)
        PROVE  trees'[<<f, pos, "FORMAL_IN">>] = trees[<<f, pos, "FORMAL_IN">>]
    <3>1. <<f, pos, "FORMAL_IN">> \in Keys /\ f # call
      BY <1>2, <1>4, ProgramFacts DEF TreeTypes
    <3> QED
      BY <1>7, <3>1
  <2> QED
    BY <1>1, <1>2, <1>3, <1>9, <2>1 DEF FreshOK
<1>18. BuildOK'
  BY <1>1 DEF BuildOK, Idle
<1> QED
  BY <1>8, <1>10, <1>11, <1>15, <1>16, <1>17, <1>18 DEF IInv

LEMMA CopyFormalKeeps ==
    ASSUME IInv, CopyFormalTree
    PROVE  IInv'
<1> DEFINE s == [nodes |-> nodes, trees |-> trees, id |-> 0]
           from == Building
           to == <<arg.func, arg.pos, "FORMAL_OUT">>
           r == CopyTree(s, from, to)
<1>1. /\ ~Idle /\ frames = <<>> /\ arg.pos \in Positions(arg.func) /\ ~IsEmpty(trees[from])
      /\ Len(r.nodes) <= MaxNodes /\ nodes' = r.nodes /\ trees' = r.trees /\ id' = r.id
      /\ arg' = [arg EXCEPT !.pos = @ + 1]
      /\ prog' = prog /\ frames' = frames /\ hasTrees' = hasTrees /\ builds' = builds
      /\ connected' = connected /\ deps' = deps
  BY DEF CopyFormalTree, Become
<1>2. /\ prog \in Programs /\ StoreOK(nodes, trees) /\ ControlOK /\ FreshOK /\ FormalsOK
      /\ ActualsOK /\ BuildOK
  BY DEF IInv, ControlOK
<1>3. /\ Keys' = Keys /\ Functions' = Functions /\ Calls' = Calls
      /\ \A owner : (Callee(owner))' = Callee(owner)
      /\ \A owner : (Positions(owner))' = Positions(owner)
  BY <1>1, SameProgram
<1>4. /\ arg = [func |-> arg.func, pos |-> arg.pos]
      /\ arg.func \in Functions /\ arg.func \notin hasTrees /\ arg.func \notin Calls
      /\ arg.pos \in 1..Len(prog.args[arg.func])
      /\ Positions(arg.func) = 1..Len(prog.args[arg.func]) /\ Len(prog.args[arg.func]) \in Nat
      /\ arg'.func = arg.func /\ arg'.pos = arg.pos + 1
      /\ arg' = [func |-> arg.func, pos |-> arg.pos + 1]
  BY <1>1, <1>2, AtHand, ConnectedFacts
<1>5. from \in Keys /\ to \in Keys /\ from # to /\ IsTree(trees[from])
  <2>1. from \in Keys /\ to \in Keys /\ from # to
    BY <1>1, <1>2, <1>4, ProgramFacts DEF Building, TreeTypes
  <2> QED
    BY <1>1, <1>2, <2>1, EmptyFacts DEF StoreOK
<1>6. Copies(s, r, from, to)
  <2>1. StoreOK(s.nodes, s.trees) /\ IsTree(s.trees[from]) /\ s.id \in 0..Len(s.nodes)
    <3>1. Len(nodes) \in Nat
      BY <1>2 DEF StoreOK
    <3> QED
      BY <1>2, <1>5, <3>1
  <2> HIDE DEF s, from, to
  <2> QED
    BY <1>2, <1>5, <2>1, CopyEffect
<1>7. /\ StoreOK(nodes', trees') /\ Extends(nodes, nodes') /\ id' \in 0..Len(nodes')
      /\ nodes' \in Seq(Wrappers)
      /\ \A key \in Keys \ {to} : trees'[key] = trees[key]
      /\ CopyLike(nodes', trees', from, to)
  <2>1. s.nodes = nodes /\ s.trees = trees
    OBVIOUS
  <2> HIDE DEF r, s, from, to
  <2> QED
    BY <1>1, <1>6, <2>1 DEF Copies, StoreOK
<1> HIDE DEF r, s
<1>8. StoreOK(nodes, trees)'
  BY <1>1, <1>7, StorePrimed
<1>9. \A f \in Functions : \A pos \in Positions(f) :
          Complete(f, pos)' <=> Complete(f, pos) \/ (f = arg.func /\ pos = arg.pos)
  <2>1. \A pos \in Positions(arg.func) : pos < arg.pos + 1 <=> pos < arg.pos \/ pos = arg.pos
    BY <1>4
  <2> QED
    BY <1>1, <1>4, <2>1 DEF Complete
<1>10. FormalsOK'
  <2>1. ASSUME NEW f \in Functions, NEW pos \in Positions(f), Complete(f, pos)'
        PROVE  Finished(nodes', trees', f, pos)
    <3>1. CASE Complete(f, pos)
      <4>1. Finished(nodes, trees, f, pos)
        BY <1>2, <3>1 DEF FormalsOK
      <4>2. /\ <<f, pos, "FORMAL_IN">> \in Keys /\ <<f, pos, "FORMAL_OUT">> \in Keys
        BY <1>2, ProgramFacts DEF TreeTypes
      <4>3. ~(f = arg.func /\ pos = arg.pos)
        BY <1>4, <3>1 DEF Complete
      <4>4. <<f, pos, "FORMAL_IN">> # to /\ <<f, pos, "FORMAL_OUT">> # to
        BY <4>3
      <4> QED
        BY <1>2, <1>7, <4>1, <4>2, <4>4, FinishedKept
    <3>2. CASE f = arg.func /\ pos = arg.pos
      <4> DEFINE t == trees[from]
      <4>1. from = <<f, pos, "FORMAL_IN">> /\ to = <<f, pos, "FORMAL_OUT">> /\ trees'[from] = t
        BY <1>5, <1>7, <3>2 DEF Building
      <4>2. Underway(nodes, t, prog.args[f][pos], id, frames)
        BY <1>1, <1>2, <3>2 DEF BuildOK
      <4>3. \A n \in 1..Size(t) : Unfolding(nodes, t, n)
        BY <1>1, <4>2 DEF Underway
      <4>4. Shape(t, Size(t)) /\ 1 \in Members(t) /\ Members(t) = 1..Size(t)
        BY <1>5, TreeFacts DEF IsTree
      <4>5. Typed(nodes, t, Size(t), nodes', t) /\ NodeType(nodes', t, 1) = NodeType(nodes, t, 1)
        <5>1. /\ \A n \in Members(trees[from]) : NodeType(nodes', trees[from], n) = NodeType(nodes, trees[from], n)
              /\ Typed(nodes, trees[from], Size(trees[from]), nodes', trees[from])
          BY <1>2, <1>5, <1>7, TypesKept
        <5> QED
          BY <4>4, <5>1
      <4>6. \A n \in 1..Size(t) : Unfolding(nodes', t, n)
        BY <4>3, <4>4, <4>5, UnfoldingAgrees
      <4>7. NodeType(nodes', t, 1) = prog.args[f][pos]
        BY <4>2, <4>5 DEF Underway
      <4> HIDE DEF t, from, to
      <4> QED
        BY <1>7, <4>1, <4>6, <4>7 DEF Finished
    <3> QED
      BY <1>9, <2>1, <3>1, <3>2
  <2>2. ASSUME NEW f, NEW pos, Finished(nodes', trees', f, pos)
        PROVE  Finished(nodes, trees, f, pos)'
    BY <1>1, <2>2 DEF Finished
  <2> QED
    BY <1>3, <2>1, <2>2 DEF FormalsOK
<1>11. EdgesOK' /\ LinkedOK' /\ ActualsOK'
  <2>1. \A key \in Keys : key[1] \in hasTrees \union Calls => trees'[key] = trees[key]
    BY <1>4, <1>7
  <2> QED
    BY <1>1, <1>7, <2>1, QuietStep
<1>12. ControlOK'
  <2>1. arg.pos + 1 \in 1..Len(prog.args[arg.func]) + 1
    BY <1>4
  <2> QED
    BY <1>1, <1>2, <1>3, <1>4, <1>7, <2>1 DEF ControlOK
<1>13. ASSUME NEW f \in Functions, NEW pos \in Positions(f), ~Complete(f, pos)'
       PROVE  trees'[<<f, pos, "FORMAL_IN">>] = EmptyTree
  <2>1. ~Complete(f, pos) /\ ~(arg.func = f /\ arg.pos = pos)
    BY <1>9, <1>13
  <2>2. <<f, pos, "FORMAL_IN">> \in Keys \ {to}
    BY <1>2, ProgramFacts DEF TreeTypes
  <2> QED
    BY <1>2, <1>7, <2>1, <2>2 DEF FreshOK
<1>14. FreshOK'
  BY <1>3, <1>13 DEF FreshOK
<1>15. BuildOK'
  <2>1. ASSUME arg.pos + 1 \in Positions(arg.func)
        PROVE  trees'[<<arg.func, arg.pos + 1, "FORMAL_IN">>] = EmptyTree
    <3>1. PICK f, p : f = arg.func /\ p = arg.pos + 1 /\ f \in Functions
      BY <1>4
    <3>2. p \in Positions(f) /\ ~Complete(f, p)'
      BY <1>1, <1>4, <2>1, <3>1 DEF Complete
    <3> QED
      BY <1>13, <3>1, <3>2
  <2>2. (~Idle /\ arg.pos \in Positions(arg.func) /\ ~IsEmpty(trees[Building]))' = FALSE
    BY <1>3, <1>4, <2>1, EmptyFacts DEF Building
  <2> QED
    BY <2>2 DEF BuildOK
<1> QED
  BY <1>8, <1>10, <1>11, <1>12, <1>14, <1>15 DEF IInv

\* A step that gives the tree at hand a node touches nothing else.
LEMMA GrowStep ==
    ASSUME IInv, ~Idle, arg.pos \in Positions(arg.func),
           NEW w \in Wrappers, nodes' = Append(nodes, w),
           NEW u, IsTree(u), trees' = [trees EXCEPT ![Building] = u],
           \A n \in Members(u) :
              \/ u[n].data = Len(nodes) + 1
              \/ n \in Members(trees[Building]) /\ u[n].data = DataOf(trees, Building, n),
           \A n, m \in Members(u) : u[n].data = u[m].data => n = m,
           prog' = prog, arg' = arg, hasTrees' = hasTrees, builds' = builds,
           connected' = connected, deps' = deps
    PROVE  /\ StoreOK(nodes, trees)' /\ FormalsOK' /\ ActualsOK' /\ FreshOK'
           /\ EdgesOK' /\ LinkedOK'
           /\ Building \in Keys /\ trees'[Building] = u
           /\ nodes' \in Seq(Wrappers) /\ Extends(nodes, nodes')
           /\ Len(nodes') = Len(nodes) + 1 /\ nodes'[Len(nodes) + 1] = w
<1>1. prog \in Programs /\ StoreOK(nodes, trees) /\ ControlOK /\ FreshOK /\ ActualsOK
  BY DEF IInv, ControlOK
<1>2. /\ Keys' = Keys /\ Functions' = Functions
      /\ \A owner : (Positions(owner))' = Positions(owner)
  BY SameProgram
<1>3. /\ arg.func \in Functions /\ arg.func \notin hasTrees /\ arg.func \notin Calls
  BY <1>1, AtHand, ConnectedFacts
<1>4. Building \in Keys /\ Building[1] = arg.func
  BY <1>1, <1>3, ProgramFacts DEF Building, TreeTypes
<1>5. /\ nodes \in Seq(Wrappers) /\ nodes' \in Seq(Wrappers) /\ Len(nodes) \in Nat
      /\ Len(nodes') = Len(nodes) + 1 /\ Extends(nodes, nodes') /\ nodes'[Len(nodes) + 1] = w
      /\ Len(prog.wrappers) \in Nat /\ Len(prog.wrappers) <= Len(nodes)
  <2>1. nodes \in Seq(Wrappers) /\ Len(prog.wrappers) <= Len(nodes)
    BY <1>1 DEF StoreOK
  <2> QED
    BY <1>1, <2>1, ProgramFacts DEF Extends
<1>6. StoreOK(nodes', trees')
  <2>1. ASSUME NEW n \in Members(u)
        PROVE  /\ u[n].data \in Len(prog.wrappers) + 1..Len(nodes')
               /\ u[n].data <= Len(nodes) =>
                     n \in Members(trees[Building]) /\ u[n].data = DataOf(trees, Building, n)
    <3>1. CASE u[n].data = Len(nodes) + 1
      BY <1>5, <3>1
    <3>2. CASE n \in Members(trees[Building]) /\ u[n].data = DataOf(trees, Building, n)
      <4>1. u[n].data \in Len(prog.wrappers) + 1..Len(nodes)
        BY <1>1, <1>4, <3>2 DEF StoreOK
      <4> QED
        BY <1>5, <3>2, <4>1
    <3> QED
      BY <3>1, <3>2
  <2>2. PICK ms \in Seq(Wrappers) : ms = nodes' /\ Extends(nodes, ms)
    BY <1>5
  <2>3. StoreOK(ms, [trees EXCEPT ![Building] = u])
    BY <1>1, <1>4, <2>1, <2>2, StoreStep
  <2> QED
    BY <2>2, <2>3
<1>7. StoreOK(nodes, trees)'
  BY <1>6, StorePrimed
<1>8. DOMAIN trees = Keys
  BY <1>1 DEF StoreOK
<1>9. trees'[Building] = u /\ \A key \in Keys \ {Building} : trees'[key] = trees[key]
  BY <1>4, <1>8
<1>10. \A f, pos : Complete(f, pos)' <=> Complete(f, pos)
  BY DEF Complete
<1>11. \A f, pos, treeTy :
           Complete(f, pos) \/ ~(arg.func = f /\ arg.pos = pos) => <<f, pos, treeTy>> # Building
  <2>1. ~ (arg.pos < arg.pos)
    <3>1. arg.pos \in Nat
      BY <1>1, AtHand
    <3> QED
      BY <3>1
  <2> QED
    BY <1>3, <2>1 DEF Complete, Building
<1>12. \A f \in Functions : \A pos \in Positions(f) : \A treeTy \in TreeTypes :
           <<f, pos, treeTy>> \in Keys
  BY <1>1, ProgramFacts
<1>13. {"FORMAL_IN", "FORMAL_OUT"} \subseteq TreeTypes
  BY DEF TreeTypes
<1>14. FormalsOK'
  BY <1>5, <1>9, <1>10, <1>11, <1>12, <1>13, FormalsKept
<1>15. EdgesOK' /\ LinkedOK' /\ ActualsOK'
  <2>1. \A key \in Keys : key[1] \in hasTrees \union Calls => trees'[key] = trees[key]
    BY <1>3, <1>4, <1>9
  <2> QED
    BY <1>5, <2>1, QuietStep
<1>16. FreshOK'
  <2>1. ASSUME NEW f \in Functions, NEW pos \in Positions(f),
               ~Complete(f, pos), ~(arg.func = f /\ arg.pos = pos)
        PROVE  trees'[<<f, pos, "FORMAL_IN">>] = EmptyTree
    BY <1>1, <1>9, <1>11, <1>12, <1>13, <2>1 DEF FreshOK
  <2> QED
    BY <1>2, <1>10, <2>1 DEF FreshOK
<1> QED
  BY <1>4, <1>5, <1>7, <1>9, <1>14, <1>15, <1>16

LEMMA ActivationTypes ==
    ASSUME NEW type \in Types, NEW fieldId \in Int
    PROVE  /\ Activation(type, fieldId) \in Seq([type : Types, fieldId : Int, i : Nat])
           /\ <<>> \in Seq([type : Types, fieldId : Int, i : Nat])
<1> DEFINE A == [type : Types, fieldId : Int, i : Nat]
           f == [type |-> type, fieldId |-> fieldId, i |-> 1]
<1>1. f \in A
  OBVIOUS
<1> HIDE DEF A, f
<1>2. <<f>> \in Seq(A) /\ <<>> \in Seq(A)
  BY <1>1
<1> QED
  BY <1>2 DEF Activation, A, f

LEMMA RootKeeps ==
    ASSUME IInv, BuildFormalTree
    PROVE  IInv'
<1> DEFINE type == prog.args[arg.func][arg.pos]
           w == Wrapper("FORMAL_IN", arg.func, type, id)
           L == Len(nodes) + 1
           u == SetHead(EmptyTree, L)
           d == id + 1
           fs == IF IsOpaque(type) THEN <<>> ELSE Activation(type, id)
<1>1. prog \in Programs /\ StoreOK(nodes, trees) /\ ControlOK /\ BuildOK /\ id \in Nat
      /\ Len(nodes) \in Nat /\ nodes \in Seq(Wrappers) /\ id <= Len(nodes)
  <2>1. prog \in Programs /\ StoreOK(nodes, trees) /\ ControlOK /\ BuildOK
    BY DEF IInv, ControlOK
  <2>2. id \in 0..Len(nodes) /\ nodes \in Seq(Wrappers)
    BY <2>1 DEF ControlOK, StoreOK
  <2> QED
    BY <2>1, <2>2
<1>2. /\ ~Idle /\ arg.pos \in Positions(arg.func) /\ IsEmpty(trees[Building]) /\ Room(1)
      /\ nodes' = Append(nodes, w)
      /\ trees' = [trees EXCEPT ![Building] = SetHead(@, Len(nodes'))]
      /\ frames' = fs /\ id' = d
      /\ prog' = prog /\ arg' = arg /\ hasTrees' = hasTrees /\ builds' = builds
      /\ connected' = connected /\ deps' = deps
  BY DEF BuildFormalTree
<1>3. /\ arg.func \in Functions /\ type \in Types /\ arg.func \in Nat
  <2>1. arg.func \in Functions /\ Positions(arg.func) = 1..Len(prog.args[arg.func])
    BY <1>1, <1>2, AtHand
  <2>2. prog.args[arg.func] \in Seq(Types) /\ arg.func \in 1..Len(prog.wrappers)
    BY <1>1, <2>1, ProgramFacts
  <2>3. type \in Types
    BY <1>2, <2>1, <2>2, ElementOfSeq
  <2> QED
    BY <2>1, <2>2, <2>3
<1>4. w \in Wrappers /\ w.type = type /\ w.fieldId = id
  BY <1>1, <1>3 DEF Wrapper, Wrappers, Kinds, TreeTypes
<1> HIDE DEF w, type
<1>5. Building \in Keys /\ trees[Building] = EmptyTree
  <2>1. Building \in Keys
    BY <1>1, <1>2, <1>3, ProgramFacts DEF Building, TreeTypes
  <2> QED
    BY <1>1, <1>2, <2>1, TreeFacts DEF StoreOK
<1>6. Len(nodes') = L
  BY <1>1, <1>2, <1>4
<1>7. trees' = [trees EXCEPT ![Building] = u]
  BY <1>2, <1>5, <1>6
<1>8. Shape(u, 1) /\ Order(u, 1, [i \in 1..1 |-> 1]) /\ u[1].data = L
  BY HeadShape
<1> HIDE DEF u
<1>9. IsTree(u) /\ Size(u) = 1 /\ Members(u) = {1}
  <2>1. IsTree(u) /\ Size(u) = 1
    BY <1>8, TreeIs
  <2> QED
    BY <1>8, <2>1, ShapeFacts
<1>10. /\ StoreOK(nodes, trees)' /\ FormalsOK' /\ ActualsOK' /\ FreshOK' /\ EdgesOK' /\ LinkedOK'
       /\ trees'[Building] = u /\ nodes' \in Seq(Wrappers) /\ nodes'[L] = w
  <2>1. \A n \in Members(u) : u[n].data = Len(nodes) + 1
    BY <1>8, <1>9
  <2>2. \A n, m \in Members(u) : u[n].data = u[m].data => n = m
    BY <1>9
  <2> HIDE DEF L
  <2> QED
    BY <1>2, <1>4, <1>7, <1>9, <2>1, <2>2, GrowStep DEF L
<1>11. frames = <<>>
  BY <1>1, <1>2 DEF ControlOK
<1>12. /\ Lineage(u, 1) = <<1>> /\ Children(u, 1) = <<>>
  <2>1. u[1].first = NoNode
    BY <1>8 DEF Shape, ChildrenOK
  <2>2. 1 \in 1..1
    OBVIOUS
  <2>3. Children(u, 1) = <<>>
    BY <1>8, <2>1, <2>2, ChildrenFacts
  <2> QED
    BY <1>8, <2>3, LineageSteps
<1>13. /\ NodeType(nodes', u, 1) = type /\ nodes'[u[1].data].fieldId = id
       /\ FieldTypes(nodes', u, 1) = <<>>
  BY <1>4, <1>8, <1>10, <1>12 DEF NodeType, FieldTypes
<1>14. Continues(PathOf(nodes', u, 1)) <=> IsPointer(type) /\ ~IsOpaque(type)
  <2>1. PICK path : path = PathOf(nodes', u, 1) /\ Len(path) = 1 /\ path[1] = type
    BY <1>8, <1>12, <1>13, PathIs
  <2> QED
    BY <2>1 DEF Continues
<1>15. fs \in Seq([type : Types, fieldId : Int, i : Nat])
  <2>1. /\ Activation(type, id) \in Seq([type : Types, fieldId : Int, i : Nat])
        /\ <<>> \in Seq([type : Types, fieldId : Int, i : Nat])
    <3>1. id \in Int
      BY <1>1
    <3> QED
      BY <1>3, <3>1, ActivationTypes
  <2> QED
    BY <2>1
<1>16. ControlOK'
  <2>1. id' \in 0..Len(nodes') /\ Len(nodes') <= MaxNodes
    BY <1>1, <1>2, <1>6, BoundsAssumption DEF Room
  <2>2. ~IsEmpty(u)
    BY <1>9, TreeFacts
  <2>3. /\ Keys' = Keys /\ Functions' = Functions /\ Calls' = Calls
        /\ \A owner : (Positions(owner))' = Positions(owner)
    BY <1>2, SameProgram
  <2> HIDE DEF fs
  <2> QED
    BY <1>1, <1>2, <1>10, <1>15, <2>1, <2>2, <2>3 DEF ControlOK, Idle, Building
<1>17. Underway(nodes', u, type, d, fs)
  <2>1. CASE IsPointer(type) /\ ~IsOpaque(type)
    <3>1. fs = <<[type |-> type, fieldId |-> id, i |-> 1]>>
      BY <2>1 DEF Activation
    <3>2. PICK f : f = [type |-> type, fieldId |-> id, i |-> 1]
      OBVIOUS
    <3>3. DOMAIN fs = {1} /\ fs[1] = f
      BY <3>1, <3>2
    <3> HIDE DEF fs
    <3>4. At(u, d, f) = 1
      BY <1>1, <1>9, <3>2 DEF At
    <3>5. ActivationOK(nodes', u, d, f)
      <4>1. Fields(type) \in Seq(Types) /\ Len(Fields(type)) \in Nat
        BY <1>3, <2>1, PointerFacts
      <4>2. SubSeq(Fields(type), 1, 1 - 1) = <<>> /\ 1 \in 1..Len(Fields(type)) + 1
        BY <4>1
      <4>3. f.type = type /\ f.i = 1
        BY <3>2
      <4>4. 1 \in 1..Size(u) /\ Continues(PathOf(nodes', u, 1))
        BY <1>9, <1>14, <2>1
      <4> QED
        BY <1>13, <3>4, <4>2, <4>3, <4>4 DEF ActivationOK
    <3> QED
      BY <1>1, <1>9, <1>13, <3>3, <3>4, <3>5 DEF Underway
  <2>2. CASE ~(IsPointer(type) /\ ~IsOpaque(type))
    <3>1. fs = <<>>
      BY <2>2 DEF Activation
    <3>2. Unfolding(nodes', u, 1)
      BY <1>13, <1>14, <2>2 DEF Unfolding
    <3> HIDE DEF fs
    <3> QED
      BY <1>1, <1>9, <1>13, <3>1, <3>2 DEF Underway
  <2> QED
    BY <2>1, <2>2
<1>18. BuildOK'
  <2> HIDE DEF fs
  <2> QED
    BY <1>2, <1>10, <1>17 DEF BuildOK, Building, type
<1> QED
  BY <1>10, <1>16, <1>18 DEF IInv

\* As ids are unique in a tree, the place for a field is the node with its id.
LEMMA InsertLocationIs ==
    ASSUME NEW t, IsTree(t), NEW m \in 1..Size(t),
           \A n \in 1..Size(t) : FieldId(t, n) = Top.fieldId <=> n = m
    PROVE  InsertLocation(t) = m
<1> DEFINE q == PreOrder(t)
           N == Size(t)
           I == {i \in 1..N : FieldId(t, q[i]) = Top.fieldId}
<1>1. Order(t, N, q) /\ N \in Nat /\ Len(q) = N
  BY TreeFacts DEF IsTree, Size
<1>2. PICK k \in 1..N : q[k] = m
  BY <1>1 DEF Order
<1>3. \A i \in 1..N : q[i] \in 1..N /\ (q[i] = m => i = k)
  <2>1. /\ \A i \in 1..N : q[i] \in 1..N
        /\ \A i, j \in 1..N : q[i] = q[j] => i = j
    BY <1>1 DEF Order
  <2> QED
    BY <1>2, <2>1
<1>4. I = {k}
  BY <1>2, <1>3
<1> HIDE DEF I
<1>5. Min(I) = k
  BY <1>1, <1>2, <1>4 DEF Min
<1>6. InsertLocation(t) = q[IF I # {} THEN Min(I) ELSE 0]
  BY <1>1 DEF InsertLocation, SelectInSeq, I
<1> QED
  BY <1>2, <1>4, <1>5, <1>6

\* What a field adds to the tree at hand.
Grown(t, N, loc, data, u) ==
    /\ N \in Nat \ {0} /\ Shape(t, N)
    /\ IsTree(u) /\ Shape(u, N + 1) /\ Size(u) = N + 1 /\ Members(u) = 1..N + 1
    /\ \A n \in 1..N : u[n].data = t[n].data
    /\ u[N + 1].data = data
    /\ \A n \in 1..N : Lineage(u, n) = Lineage(t, n)
    /\ Lineage(u, N + 1) = <<N + 1>> \o Lineage(t, loc)
    /\ \A n \in 1..N \ {loc} : Children(u, n) = Children(t, n)
    /\ Children(u, loc) = Children(t, loc) \o <<N + 1>>
    /\ Children(u, N + 1) = <<>>

LEMMA NewField ==
    ASSUME NEW t, IsTree(t), NEW loc \in 1..Size(t), NEW data, NEW u, u = AppendChild(t, loc, data)
    PROVE  Grown(t, Size(t), loc, data, u)
<1> DEFINE N == Size(t)
           q == PreOrder(t)
<1>1. Shape(t, N) /\ Order(t, N, q)
  BY DEF IsTree
<1>2. N \in Nat \ {0} /\ 1..N \subseteq DOMAIN t
  BY <1>1, ShapeFacts DEF Shape
<1> HIDE DEF N, q
<1>3. loc \in 1..N
  BY DEF N
<1>4. Appended(t, N, loc, data, u)
  BY <1>1, <1>3, AppendFields
<1>5. Shape(u, N + 1)
  BY <1>1, <1>3, <1>4, AppendShape
<1>6. \E z : Order(u, N + 1, z)
  BY <1>1, <1>3, <1>4, AppendOrder
<1>7. IsTree(u) /\ Size(u) = N + 1
  BY <1>5, <1>6, TreeIs
<1>8. Members(u) = 1..N + 1
  BY <1>5, ShapeFacts
<1>9. (\A n \in 1..N : u[n].data = t[n].data) /\ u[N + 1].data = data
  BY <1>2, <1>4 DEF Appended, Node
<1>10. /\ \A n \in 1..N : Lineage(u, n) = Lineage(t, n)
       /\ Lineage(u, N + 1) = <<N + 1>> \o Lineage(t, loc)
  BY <1>1, <1>3, <1>4, AppendLineage
<1>11. /\ \A n \in 1..N \ {loc} : Children(u, n) = Children(t, n)
       /\ Children(u, loc) = Children(t, loc) \o <<N + 1>>
       /\ Children(u, N + 1) = <<>>
  BY <1>1, <1>3, <1>4, AppendChildren
<1> QED
  BY <1>1, <1>2, <1>5, <1>7, <1>8, <1>9, <1>10, <1>11 DEF N, Grown

\* The path to a new field may go on below it unless the type above it recurs.
Recurs(ns, t, n) ==
    \E k \in 3..Len(Lineage(t, n)) : NodeType(ns, t, Lineage(t, n)[k]) = NodeType(ns, t, n)

LEMMA PathToField ==
    ASSUME NEW t, NEW N, Shape(t, N), NEW u, Shape(u, N + 1), NEW loc \in 1..N,
           Lineage(u, N + 1) = <<N + 1>> \o Lineage(t, loc),
           NEW ns, NEW ms, Typed(ns, t, N, ms, u),
           NEW type, NodeType(ms, u, N + 1) = type
    PROVE  Continues(PathOf(ms, u, N + 1))
              <=> IsPointer(type) /\ ~IsOpaque(type) /\ ~Recurs(ns, t, loc)
<1>1. N \in Nat /\ N + 1 \in 1..N + 1
  BY ShapeFacts
<1>2. PICK line \in Seq(1..N) : line = Lineage(t, loc) /\ Len(line) \in Nat \ {0} /\ line[1] = loc
  BY PathIs
<1>3. PICK M \in Nat \ {0} : M = Len(line)
  BY <1>2
<1>4. PICK longer : longer = Lineage(u, N + 1)
  OBVIOUS
<1>5. /\ Len(longer) = M + 1 /\ longer[1] = N + 1
      /\ \A i \in 1..M : longer[i + 1] = line[i]
  <2>1. longer = <<N + 1>> \o line
    BY <1>2, <1>4
  <2>2. /\ Len(longer) = M + 1
        /\ longer = [i \in 1..M + 1 |-> IF i = 1 THEN N + 1 ELSE line[i - 1]]
    BY <1>2, <1>3, <2>1, Prefixed
  <2>3. \A i \in 1..M : i + 1 \in 1..M + 1 /\ i + 1 # 1 /\ i + 1 - 1 = i
    OBVIOUS
  <2>4. 1 \in 1..M + 1
    OBVIOUS
  <2> QED
    BY <2>2, <2>3, <2>4
<1>6. PICK path : path = PathOf(ms, u, N + 1)
  OBVIOUS
<1>7. /\ Len(path) = M + 1 /\ path[M + 1] = type
      /\ \A k \in 1..M + 1 : path[k] = NodeType(ms, u, longer[M + 1 - k + 1])
  <2>1. PICK len : len = M + 1
    OBVIOUS
  <2>2. /\ Len(path) = Len(longer) /\ path[Len(longer)] = NodeType(ms, u, N + 1)
        /\ \A k \in 1..Len(longer) : path[k] = NodeType(ms, u, longer[Len(longer) - k + 1])
    <3>1. PICK P, m : P = N + 1 /\ m = N + 1 /\ m \in 1..P /\ Shape(u, P)
      BY <1>1
    <3>2. longer = Lineage(u, m) /\ path = PathOf(ms, u, m)
      BY <1>4, <1>6, <3>1
    <3>3. /\ Len(PathOf(ms, u, m)) = Len(Lineage(u, m))
          /\ PathOf(ms, u, m)[Len(Lineage(u, m))] = NodeType(ms, u, m)
      BY <3>1, PathIs
    <3>4. \A k \in 1..Len(Lineage(u, m)) :
              PathOf(ms, u, m)[k] = NodeType(ms, u, Lineage(u, m)[Len(Lineage(u, m)) - k + 1])
      BY <3>1, PathIs
    <3> QED
      BY <3>1, <3>2, <3>3, <3>4
  <2>3. Len(longer) = len
    BY <1>5, <2>1
  <2>4. /\ Len(path) = len /\ path[len] = type
        /\ \A k \in 1..len : path[k] = NodeType(ms, u, longer[len - k + 1])
    BY <2>2, <2>3
  <2>5. \A k \in 1..M + 1 : len - k + 1 = M + 1 - k + 1
    BY <2>1
  <2> QED
    BY <2>1, <2>4, <2>5
<1>8. \A i \in 1..M : line[i] \in 1..N
  BY <1>3, <1>2, ElementOfSeq
<1>9. ASSUME NEW k \in 1..M PROVE path[k] = NodeType(ns, t, line[M + 1 - k])
  <2>1. PICK i \in 1..M : i = M + 1 - k
    OBVIOUS
  <2>2. M + 1 - k + 1 = i + 1 /\ k \in 1..M + 1
    BY <2>1
  <2>3. path[k] = NodeType(ms, u, longer[i + 1])
    BY <1>7, <2>2
  <2> QED
    BY <1>5, <1>8, <2>1, <2>3 DEF Typed
<1>10. path[M] = NodeType(ns, t, loc)
  <2>1. M \in 1..M /\ M + 1 - M = 1
    OBVIOUS
  <2> QED
    BY <1>2, <1>9, <2>1
<1>11. (\A k \in 1..M + 1 - 3 : path[k] # path[M + 1 - 1]) <=> ~Recurs(ns, t, loc)
  <2>1. M + 1 - 1 = M
    OBVIOUS
  <2>2. Recurs(ns, t, loc) <=> \E i \in 3..M : NodeType(ns, t, line[i]) = path[M]
    BY <1>2, <1>3, <1>10 DEF Recurs
  <2>3. ASSUME NEW i \in 3..M
        PROVE  M + 1 - i \in 1..M + 1 - 3 /\ path[M + 1 - i] = NodeType(ns, t, line[i])
    <3>1. M + 1 - i \in 1..M /\ M + 1 - i \in 1..M + 1 - 3 /\ M + 1 - (M + 1 - i) = i
      OBVIOUS
    <3> QED
      BY <1>9, <3>1
  <2>4. ASSUME NEW k \in 1..M + 1 - 3
        PROVE  M + 1 - k \in 3..M /\ path[k] = NodeType(ns, t, line[M + 1 - k])
    <3>1. k \in 1..M /\ M + 1 - k \in 3..M
      OBVIOUS
    <3> QED
      BY <1>9, <3>1
  <2> QED
    BY <2>1, <2>2, <2>3, <2>4
<1> QED
  BY <1>6, <1>7, <1>11 DEF Continues

FirstOf(fs, n) == SubSeq(fs, 1, n)

FieldPut(t, N, u, loc, ns, ms, types, fs, i) ==
    /\ Shape(t, N) /\ loc \in 1..N
    /\ Children(u, loc) = Children(t, loc) \o <<N + 1>>
    /\ Typed(ns, t, N, ms, u)
    /\ fs \in Seq(types) /\ i \in 1..Len(fs)
    /\ NodeType(ms, u, N + 1) = fs[i]
    /\ FieldTypes(ns, t, loc) = FirstOf(fs, i - 1)

LEMMA FieldAdded ==
    ASSUME NEW t, NEW N, NEW u, NEW loc, NEW ns, NEW ms, NEW types, NEW fs, NEW i,
           FieldPut(t, N, u, loc, ns, ms, types, fs, i)
    PROVE  FieldTypes(ms, u, loc) = FirstOf(fs, i)
<1> USE DEF FieldPut
<1>1. N \in Nat /\ Len(fs) \in Nat /\ i \in Nat /\ i - 1 \in Nat
  BY ShapeFacts
<1>2. PICK c \in Seq(1..N) : c = Children(t, loc)
  <2> DEFINE C == {e \in 2..N : t[e].parent = loc}
  <2>1. Children(t, loc) \in Seq(C)
    BY ChildrenFacts
  <2>2. C \subseteq 1..N
    BY ShapeFacts
  <2> HIDE DEF C
  <2>3. Children(t, loc) \in Seq(1..N)
    BY <2>1, <2>2, SeqMonotonic
  <2> QED
    BY <2>3
<1>3. DOMAIN c = 1..Len(c) /\ Len(c) \in Nat /\ \A k \in 1..Len(c) : c[k] \in 1..N
  <2>1. \A k \in 1..Len(c) : c[k] \in 1..N
    BY ElementOfSeq
  <2> QED
    BY <2>1
<1>4. FirstOf(fs, i - 1) = [k \in 1..i - 1 |-> fs[k]] /\ FirstOf(fs, i) = [k \in 1..i |-> fs[k]]
  BY <1>1 DEF FirstOf
<1>5. FieldTypes(ns, t, loc) = [k \in 1..Len(c) |-> NodeType(ns, t, c[k])]
  BY <1>2, <1>3 DEF FieldTypes
<1>6. Len(c) = i - 1 /\ \A k \in 1..i - 1 : NodeType(ns, t, c[k]) = fs[k]
  <2>1. [k \in 1..Len(c) |-> NodeType(ns, t, c[k])] = [k \in 1..i - 1 |-> fs[k]]
    BY <1>4, <1>5
  <2>2. 1..Len(c) = 1..i - 1
    BY <2>1
  <2>3. Len(c) = i - 1
    BY <1>1, <1>3, <2>2
  <2> QED
    BY <2>1, <2>3
<1>7. PICK e : e = Children(u, loc) /\ DOMAIN e = 1..i /\ e[i] = N + 1 /\ \A k \in 1..i - 1 : e[k] = c[k]
  <2>1. PICK e \in Seq(Nat) : e = c \o <<N + 1>> /\ e = Children(u, loc)
    <3>1. c \in Seq(Nat) /\ <<N + 1>> \in Seq(Nat)
      BY <1>1, SeqMonotonic
    <3>2. c \o <<N + 1>> \in Seq(Nat)
      BY <3>1, ConcatProperties
    <3> QED
      BY <1>2, <3>2
  <2>2. c \in Seq(Nat) /\ <<N + 1>> \in Seq(Nat) /\ Len(<<N + 1>>) = 1 /\ <<N + 1>>[1] = N + 1
    BY <1>1, SeqMonotonic
  <2>3. /\ Len(e) = Len(c) + 1 /\ \A k \in 1..Len(c) : e[k] = c[k]
        /\ e[Len(c) + 1] = N + 1
    BY <2>1, <2>2, Longer
  <2>4. DOMAIN e = 1..i /\ Len(c) + 1 = i
    BY <1>1, <1>6, <2>1, <2>3
  <2> QED
    BY <1>6, <2>1, <2>3, <2>4
<1>8. \A k \in 1..i : NodeType(ms, u, e[k]) = fs[k]
  <2>1. \A k \in 1..i : k = i \/ k \in 1..i - 1
    BY <1>1
  <2>2. \A k \in 1..i - 1 : NodeType(ms, u, c[k]) = NodeType(ns, t, c[k])
    BY <1>3, <1>6 DEF Typed
  <2> QED
    BY <1>6, <1>7, <2>1, <2>2
<1>9. FieldTypes(ms, u, loc) = [k \in 1..i |-> fs[k]]
  BY <1>7, <1>8 DEF FieldTypes
<1> QED
  BY <1>1, <1>4, <1>9

\* A field and the activation for it keep the tree underway.
Step(fs, goes, type, d) ==
    [fs EXCEPT ![Len(fs)].i = @ + 1]
        \o (IF goes THEN <<[type |-> type, fieldId |-> d, i |-> 1]>> ELSE <<>>)

Stepped(fs, K, goes, type, d, gs) ==
    /\ gs \in Seq([type : Types, fieldId : Int, i : Nat])
    /\ \A k \in 1..K - 1 : gs[k] = fs[k]
    /\ gs[K] = [fs[K] EXCEPT !.i = @ + 1]
    /\ goes => Len(gs) = K + 1 /\ gs[K + 1] = [type |-> type, fieldId |-> d, i |-> 1]
    /\ ~goes => Len(gs) = K

LEMMA StepFacts ==
    ASSUME NEW fs \in Seq([type : Types, fieldId : Int, i : Nat]), NEW K \in Nat \ {0},
           Len(fs) = K, NEW goes, NEW type \in Types, NEW d \in Int
    PROVE  Stepped(fs, K, goes, type, d, Step(fs, goes, type, d))
<1> DEFINE A == [type : Types, fieldId : Int, i : Nat]
           g == [type |-> type, fieldId |-> d, i |-> 1]
           h == [fs[K] EXCEPT !.i = @ + 1]
<1>1. g \in A
  OBVIOUS
<1>2. K \in 1..Len(fs)
  OBVIOUS
<1>3. fs[K] \in A
  <2> HIDE DEF A
  <2>1. fs \in Seq(A)
    BY DEF A
  <2> QED
    BY <1>2, <2>1, ElementOfSeq
<1>4. h \in A
  BY <1>3
<1>5. Step(fs, goes, type, d) = [fs EXCEPT ![K] = h] \o (IF goes THEN <<g>> ELSE <<>>)
  BY DEF Step
<1>6. fs \in Seq(A)
  OBVIOUS
<1> HIDE DEF A, g, h
<1>7. PICK hs \in Seq(A) : hs = [fs EXCEPT ![K] = h] /\ Len(hs) = K
  <2>1. /\ [fs EXCEPT ![K] = h] \in Seq(A)
        /\ Len([fs EXCEPT ![K] = h]) = Len(fs)
    BY <1>2, <1>4, <1>6, ExceptSeq
  <2> QED
    BY <2>1
<1>8. hs[K] = h /\ \A k \in 1..K - 1 : hs[k] = fs[k]
  <2>1. \A j \in 1..Len(fs) : [fs EXCEPT ![K] = h][j] = IF j = K THEN h ELSE fs[j]
    BY <1>2, <1>4, <1>6, ExceptSeq
  <2>2. \A j \in 1..K - 1 : j \in 1..Len(fs) /\ j # K
    BY <1>2
  <2> QED
    BY <1>2, <1>7, <2>1, <2>2
<1>9. CASE goes
  <2>1. PICK gs : gs = hs \o <<g>>
    OBVIOUS
  <2>2. gs \in Seq(A) /\ Len(gs) = K + 1 /\ gs[K + 1] = g /\ \A k \in 1..K : gs[k] = hs[k]
    <3>1. <<g>> \in Seq(A) /\ Len(<<g>>) = 1 /\ <<g>>[1] = g
      BY <1>1
    <3>2. gs \in Seq(A)
      BY <2>1, <3>1, ConcatProperties
    <3>3. Len(gs) = Len(hs) + 1 /\ gs[Len(hs) + 1] = g /\ \A k \in 1..Len(hs) : gs[k] = hs[k]
      BY <1>7, <2>1, <3>1, Longer
    <3> QED
      BY <1>7, <3>2, <3>3
  <2>3. gs = Step(fs, goes, type, d)
    BY <1>5, <1>7, <1>9, <2>1
  <2>4. \A k \in 1..K - 1 : gs[k] = fs[k]
    BY <1>8, <2>2
  <2>5. gs[K] = h
    BY <1>8, <2>2
  <2> QED
    BY <1>9, <2>2, <2>3, <2>4, <2>5 DEF A, g, h, Stepped
<1>10. CASE ~goes
  <2>1. hs \o <<>> = hs
    OBVIOUS
  <2>2. hs = Step(fs, goes, type, d)
    BY <1>5, <1>7, <1>10, <2>1
  <2> QED
    BY <1>7, <1>8, <1>10, <2>2 DEF A, h, Stepped
<1> QED
  BY <1>9, <1>10

LEMMA ActivePointer ==
    ASSUME NEW t, Shape(t, Size(t)), NEW ns, NEW d, NEW f, f.type \in Types,
           ActivationOK(ns, t, d, f)
    PROVE  IsPointer(f.type) /\ Fields(f.type) \in Seq(Types) /\ Len(Fields(f.type)) \in Nat
<1>1. PICK n : n = At(t, d, f) /\ n \in 1..Size(t)
  BY DEF ActivationOK
<1>2. NodeType(ns, t, n) = f.type /\ Continues(PathOf(ns, t, n))
  BY <1>1 DEF ActivationOK
<1>3. PathOf(ns, t, n)[Len(PathOf(ns, t, n))] = NodeType(ns, t, n)
  <2>1. /\ Len(PathOf(ns, t, n)) = Len(Lineage(t, n))
        /\ PathOf(ns, t, n)[Len(Lineage(t, n))] = NodeType(ns, t, n)
    BY <1>1, PathIs
  <2> QED
    BY <2>1
<1>4. IsPointer(f.type)
  BY <1>2, <1>3 DEF Continues
<1> QED
  BY <1>4, PointerFacts

FieldDue(t, ns, type0, d, fs, K, loc, type, data, u, ms, goes) ==
    /\ IsTree(t) /\ type0 \in Types /\ d \in Nat /\ type \in Types
    /\ fs \in Seq([type : Types, fieldId : Int, i : Nat]) /\ K \in Nat \ {0} /\ Len(fs) = K
    /\ Underway(ns, t, type0, d, fs)
    /\ loc = At(t, d, fs[K]) /\ fs[K].i <= Len(Fields(fs[K].type))
    /\ type = Fields(fs[K].type)[fs[K].i]
    /\ u = AppendChild(t, loc, data)
    /\ \A n \in 1..Size(t) : ms[t[n].data] = ns[t[n].data]
    /\ ms[data].type = type /\ ms[data].fieldId = d
    /\ goes <=> IsPointer(type) /\ ~IsOpaque(type) /\ ~Recurs(ns, t, loc)

LEMMA FieldStep ==
    ASSUME NEW t, NEW ns, NEW type0, NEW d, NEW fs, NEW K, NEW loc, NEW type, NEW data,
           NEW u, NEW ms, NEW goes,
           FieldDue(t, ns, type0, d, fs, K, loc, type, data, u, ms, goes)
    PROVE  Underway(ms, u, type0, d + 1, Step(fs, goes, type, d))
<1>0. /\ IsTree(t) /\ type0 \in Types /\ d \in Nat /\ type \in Types
      /\ fs \in Seq([type : Types, fieldId : Int, i : Nat]) /\ K \in Nat \ {0} /\ Len(fs) = K
      /\ Underway(ns, t, type0, d, fs)
      /\ loc = At(t, d, fs[K]) /\ fs[K].i <= Len(Fields(fs[K].type))
      /\ type = Fields(fs[K].type)[fs[K].i]
      /\ u = AppendChild(t, loc, data)
      /\ \A n \in 1..Size(t) : ms[t[n].data] = ns[t[n].data]
      /\ ms[data].type = type /\ ms[data].fieldId = d
      /\ goes <=> IsPointer(type) /\ ~IsOpaque(type) /\ ~Recurs(ns, t, loc)
  BY DEF FieldDue
<1> USE <1>0
<1> DEFINE N == Size(t)
           A == [type : Types, fieldId : Int, i : Nat]
           f == fs[K]
<1>1. fs \in Seq(A) /\ DOMAIN fs = 1..K /\ K \in 1..K
  OBVIOUS
<1>2. \A k \in 1..K : fs[k] \in A
  <2> HIDE DEF A
  <2> QED
    BY <1>1, ElementOfSeq
<1>3. /\ \A n \in 1..N : ns[t[n].data].fieldId = d - N + n - 1
      /\ NodeType(ns, t, 1) = type0
      /\ \A k \in 1..K : ActivationOK(ns, t, d, fs[k])
      /\ \A j, k \in 1..K : j < k => At(t, d, fs[j]) < At(t, d, fs[k])
      /\ \A n \in 1..N : (\A k \in 1..K : At(t, d, fs[k]) # n) => Unfolding(ns, t, n)
  BY <1>1 DEF Underway
<1>4. \A k \in 1..K : At(t, d, fs[k]) \in 1..N
  BY <1>3 DEF ActivationOK
<1>5. loc \in 1..Size(t) /\ f \in A
  BY <1>1, <1>2, <1>4
<1>6. /\ N \in Nat \ {0} /\ Shape(t, N)
      /\ IsTree(u) /\ Shape(u, N + 1) /\ Size(u) = N + 1
      /\ \A n \in 1..N : u[n].data = t[n].data
      /\ u[N + 1].data = data
      /\ \A n \in 1..N : Lineage(u, n) = Lineage(t, n)
      /\ Lineage(u, N + 1) = <<N + 1>> \o Lineage(t, loc)
      /\ \A n \in 1..N \ {loc} : Children(u, n) = Children(t, n)
      /\ Children(u, loc) = Children(t, loc) \o <<N + 1>>
      /\ Children(u, N + 1) = <<>>
  <2>1. Grown(t, Size(t), loc, data, u)
    BY <1>5, NewField
  <2> QED
    BY <2>1 DEF Grown
<1> DEFINE gs == Step(fs, goes, type, d)
<1>7. /\ gs \in Seq(A)
      /\ \A k \in 1..K - 1 : gs[k] = fs[k]
      /\ gs[K] = [f EXCEPT !.i = @ + 1]
      /\ goes => Len(gs) = K + 1 /\ gs[K + 1] = [type |-> type, fieldId |-> d, i |-> 1]
      /\ ~goes => Len(gs) = K
  <2>1. Stepped(fs, K, goes, type, d, Step(fs, goes, type, d))
    <3>1. d \in Int
      OBVIOUS
    <3> QED
      BY <3>1, StepFacts
  <2> QED
    BY <2>1 DEF Stepped
<1> HIDE DEF gs, N
<1>8. Typed(ns, t, N, ms, u)
  BY <1>6 DEF Typed, NodeType, N
<1>9. NodeType(ms, u, N + 1) = type
  BY <1>6 DEF NodeType
<1>10. /\ \A k \in 1..K : At(u, d + 1, gs[k]) = At(t, d, fs[k])
       /\ goes => At(u, d + 1, gs[K + 1]) = N + 1
  <2>1. ASSUME NEW k \in 1..K PROVE gs[k].fieldId = fs[k].fieldId /\ fs[k].fieldId \in Int
    <3>1. fs[k] \in A
      BY <1>2
    <3>2. CASE k = K
      BY <1>7, <3>1, <3>2
    <3>3. CASE k # K
      <4>1. k \in 1..K - 1
        BY <3>3
      <4> QED
        BY <1>7, <3>1, <4>1
    <3> QED
      BY <3>2, <3>3
  <2>2. \A x \in Int : x + (N + 1) + 1 - (d + 1) = x + N + 1 - d
    BY <1>6
  <2>3. d + (N + 1) + 1 - (d + 1) = N + 1
    BY <1>6
  <2>4. \A g : At(u, d + 1, g) = g.fieldId + (N + 1) + 1 - (d + 1)
    BY <1>6 DEF At
  <2>5. \A g : At(t, d, g) = g.fieldId + N + 1 - d
    BY DEF At, N
  <2>6. goes => gs[K + 1].fieldId = d
    BY <1>7
  <2> QED
    BY <2>1, <2>2, <2>3, <2>4, <2>5, <2>6
<1>11. \A n \in 1..N : PathOf(ms, u, n) = PathOf(ns, t, n)
  BY <1>6, <1>8, PathsAgree
<1>12. \A n \in 1..N : NodeType(ms, u, n) = NodeType(ns, t, n)
  BY <1>8 DEF Typed
<1>13. \A n \in 1..N \ {loc} : FieldTypes(ms, u, n) = FieldTypes(ns, t, n)
  BY <1>6, <1>8, FieldsAgree
<1>14. Continues(PathOf(ms, u, N + 1)) <=> goes
  <2>1. loc \in 1..N
    BY <1>5 DEF N
  <2>2. Continues(PathOf(ms, u, N + 1)) <=> IsPointer(type) /\ ~IsOpaque(type) /\ ~Recurs(ns, t, loc)
    <3>1. Shape(t, N) /\ Shape(u, N + 1) /\ Lineage(u, N + 1) = <<N + 1>> \o Lineage(t, loc)
      BY <1>6
    <3> QED
      BY <1>8, <1>9, <2>1, <3>1, PathToField
  <2> QED
    BY <2>2
<1>15. FieldTypes(ms, u, N + 1) = <<>>
  BY <1>6 DEF FieldTypes
<1>16. IsPointer(f.type) /\ Fields(f.type) \in Seq(Types) /\ Len(Fields(f.type)) \in Nat /\ f.i \in 1..Len(Fields(f.type))
  <2>1. ActivationOK(ns, t, d, f) /\ f.type \in Types
    BY <1>1, <1>3, <1>5
  <2>2. Shape(t, Size(t))
    BY <1>6 DEF N
  <2>3. IsPointer(f.type) /\ Fields(f.type) \in Seq(Types) /\ Len(Fields(f.type)) \in Nat
    BY <2>1, <2>2, ActivePointer
  <2>4. f.i \in 1..Len(Fields(f.type)) + 1
    BY <2>1 DEF ActivationOK
  <2> QED
    BY <2>3, <2>4
<1>17. ASSUME NEW k \in 1..K PROVE ActivationOK(ms, u, d + 1, gs[k])
  <2>1. ActivationOK(ns, t, d, fs[k]) /\ fs[k] \in A
    BY <1>2, <1>3
  <2>2. PICK n : n = At(t, d, fs[k])
    OBVIOUS
  <2>3. /\ n \in 1..N /\ NodeType(ns, t, n) = fs[k].type /\ Continues(PathOf(ns, t, n))
        /\ fs[k].i \in 1..Len(Fields(fs[k].type)) + 1
        /\ FieldTypes(ns, t, n) = SubSeq(Fields(fs[k].type), 1, fs[k].i - 1)
    BY <2>1, <2>2 DEF ActivationOK, N
  <2>4. n \in 1..Size(u) /\ At(u, d + 1, gs[k]) = n
    BY <1>6, <1>10, <2>2, <2>3
  <2>5. NodeType(ms, u, n) = fs[k].type /\ Continues(PathOf(ms, u, n))
    BY <1>11, <1>12, <2>3
  <2>6. CASE k = K
    <3>1. n = loc /\ fs[k] = f
      BY <2>2, <2>6
    <3>2. gs[k].type = f.type /\ gs[k].i = f.i + 1
      BY <1>5, <1>7, <2>6
    <3>3. f.i + 1 \in 1..Len(Fields(f.type)) + 1
      BY <1>16
    <3>4. FieldTypes(ms, u, loc) = SubSeq(Fields(f.type), 1, (f.i + 1) - 1)
      <4>1. FieldTypes(ns, t, loc) = SubSeq(Fields(f.type), 1, f.i - 1)
        BY <2>3, <3>1
      <4>2. PICK es, i : es \in Seq(Types) /\ es = Fields(f.type) /\ i = f.i /\ i \in 1..Len(es)
        BY <1>16
      <4>3. NodeType(ms, u, N + 1) = es[i] /\ FieldTypes(ns, t, loc) = FirstOf(es, i - 1)
        BY <1>9, <4>1, <4>2 DEF FirstOf
      <4>4. loc \in 1..N
        BY <1>5 DEF N
      <4>5. FieldTypes(ms, u, loc) = FirstOf(es, i)
        <5>1. Shape(t, N) /\ Children(u, loc) = Children(t, loc) \o <<N + 1>>
          BY <1>6
        <5>2. es \in Seq(Types) /\ i \in 1..Len(es)
          BY <4>2
        <5>3. FieldPut(t, N, u, loc, ns, ms, Types, es, i)
          BY <1>8, <4>3, <4>4, <5>1, <5>2 DEF FieldPut
        <5> QED
          BY <5>3, FieldAdded
      <4>6. (i + 1) - 1 = i
        BY <1>16, <4>2
      <4> QED
        BY <4>2, <4>5, <4>6 DEF FirstOf
    <3> QED
      BY <2>4, <2>5, <3>1, <3>2, <3>3, <3>4 DEF ActivationOK
  <2>7. CASE k # K
    <3>1. k \in 1..K - 1 /\ k < K
      BY <2>7
    <3>2. gs[k] = fs[k]
      BY <1>7, <3>1
    <3>3. n # loc
      <4>1. n < loc
        BY <1>1, <1>3, <2>2, <3>1
      <4>2. n \in Nat /\ loc \in Nat
        BY <1>5, <2>3
      <4> QED
        BY <4>1, <4>2
    <3>4. FieldTypes(ms, u, n) = FieldTypes(ns, t, n)
      BY <1>13, <2>3, <3>3
    <3> QED
      BY <2>3, <2>4, <2>5, <3>2, <3>4 DEF ActivationOK
  <2> QED
    BY <2>6, <2>7
<1>18. goes => ActivationOK(ms, u, d + 1, gs[K + 1])
  <2> SUFFICES ASSUME goes PROVE ActivationOK(ms, u, d + 1, gs[K + 1])
    OBVIOUS
  <2>1. IsPointer(type)
    OBVIOUS
  <2>2. Fields(type) \in Seq(Types) /\ Len(Fields(type)) \in Nat
    BY <2>1, PointerFacts
  <2>3. SubSeq(Fields(type), 1, 1 - 1) = <<>>
    BY <2>2
  <2>4. gs[K + 1].type = type /\ gs[K + 1].i = 1
    BY <1>7
  <2>5. At(u, d + 1, gs[K + 1]) = N + 1 /\ N + 1 \in 1..Size(u)
    BY <1>6, <1>10
  <2>6. 1 \in 1..Len(Fields(type)) + 1
    BY <2>2
  <2>7. Continues(PathOf(ms, u, N + 1))
    BY <1>14
  <2> QED
    BY <1>9, <1>15, <2>3, <2>4, <2>5, <2>6, <2>7 DEF ActivationOK
<1>19. DOMAIN gs = 1..Len(gs) /\ Len(gs) \in K..K + 1 /\ (goes <=> Len(gs) = K + 1)
  BY <1>7
<1>20. \A k \in DOMAIN gs : k \in 1..K \/ (goes /\ k = K + 1)
  <2>1. PICK l : l = Len(gs)
    OBVIOUS
  <2>2. l \in K..K + 1 /\ (goes <=> l = K + 1) /\ DOMAIN gs = 1..l
    BY <1>19, <2>1
  <2>3. \A k \in 1..l : k \in 1..K \/ k = l
    BY <2>2
  <2>4. ~goes => l = K
    BY <2>2
  <2>5. ~goes => \A k \in 1..l : k \in 1..K
    BY <2>4
  <2> QED
    BY <2>2, <2>3, <2>5
<1>21. \A k \in DOMAIN gs : ActivationOK(ms, u, d + 1, gs[k])
  BY <1>17, <1>18, <1>20
<1>22. \A j, k \in DOMAIN gs : j < k => At(u, d + 1, gs[j]) < At(u, d + 1, gs[k])
  <2> SUFFICES ASSUME NEW j \in DOMAIN gs, NEW k \in DOMAIN gs, j < k
               PROVE  At(u, d + 1, gs[j]) < At(u, d + 1, gs[k])
    OBVIOUS
  <2>1. CASE k \in 1..K
    <3>1. j \in 1..K
      BY <1>20, <2>1
    <3> QED
      BY <1>3, <1>10, <2>1, <3>1
  <2>2. CASE goes /\ k = K + 1
    <3>1. j \in 1..K
      BY <1>20, <2>2
    <3>2. At(u, d + 1, gs[j]) \in 1..N
      BY <1>4, <1>10, <3>1
    <3> QED
      BY <1>6, <1>10, <2>2, <3>2
  <2> QED
    BY <1>20, <2>1, <2>2
<1>23. ASSUME NEW n \in 1..Size(u), \A k \in DOMAIN gs : At(u, d + 1, gs[k]) # n
       PROVE  Unfolding(ms, u, n)
  <2>1. n \in 1..N \/ n = N + 1
    BY <1>6
  <2>2. \A k \in 1..K : k \in DOMAIN gs
    BY <1>19
  <2>3. CASE n \in 1..N
    <3>1. \A k \in 1..K : At(t, d, fs[k]) # n
      BY <1>10, <1>23, <2>2
    <3>2. n # loc
      BY <1>1, <3>1
    <3>3. Unfolding(ns, t, n)
      BY <1>3, <2>3, <3>1
    <3>4. Lineage(u, n) = Lineage(t, n) /\ Children(u, n) = Children(t, n)
      BY <1>6, <2>3, <3>2
    <3> QED
      BY <1>6, <1>8, <2>3, <3>3, <3>4, UnfoldingAgrees
  <2>4. CASE n = N + 1
    <3>1. ~goes
      <4>1. goes => K + 1 \in DOMAIN gs
        BY <1>19
      <4> QED
        BY <1>10, <1>23, <2>4, <4>1
    <3> QED
      BY <1>14, <1>15, <2>4, <3>1 DEF Unfolding
  <2> QED
    BY <2>1, <2>3, <2>4
<1>24. \A n \in 1..Size(u) : ms[u[n].data].fieldId = (d + 1) - Size(u) + n - 1
  <2> SUFFICES ASSUME NEW n \in 1..N + 1
               PROVE  ms[u[n].data].fieldId = (d + 1) - (N + 1) + n - 1
    BY <1>6
  <2>1. CASE n \in 1..N
    <3>1. ms[u[n].data] = ns[t[n].data]
      BY <1>6, <2>1 DEF N
    <3>2. (d + 1) - (N + 1) + n - 1 = d - N + n - 1
      BY <1>6
    <3> QED
      BY <1>3, <2>1, <3>1, <3>2
  <2>2. CASE n = N + 1
    <3>1. (d + 1) - (N + 1) + (N + 1) - 1 = d
      BY <1>6
    <3> QED
      BY <1>6, <2>2, <3>1
  <2>3. n \in 1..N \/ n = N + 1
    BY <1>6
  <2> QED
    BY <2>1, <2>2, <2>3
<1>25. NodeType(ms, u, 1) = type0
  <2>1. 1 \in 1..N
    BY <1>6
  <2> QED
    BY <1>3, <1>12, <2>1
<1> QED
  BY <1>21, <1>22, <1>23, <1>24, <1>25 DEF Underway, gs

LEMMA FieldKeeps ==
    ASSUME IInv, AddField
    PROVE  IInv'
<1> DEFINE t == trees[Building]
           K == Len(frames)
           loc == At(t, id, Top)
           type == Fields(Top.type)[Top.i]
           w == Wrapper("PARAMETER_FIELD", arg.func, type, id)
           L == Len(nodes) + 1
           u == AppendChild(t, loc, L)
           goes == IsPointer(type) /\ ~IsOpaque(type) /\ ~Recurs(nodes, t, loc)
           fs == Step(frames, goes, type, id)
           type0 == prog.args[arg.func][arg.pos]
           A == [type : Types, fieldId : Int, i : Nat]
<1>1. /\ ~Idle /\ arg.pos \in Positions(arg.func) /\ Building \in Keys
      /\ IsTree(t) /\ arg.func \in Functions /\ arg.func \notin hasTrees
      /\ frames \in Seq(A) /\ K \in Nat \ {0} /\ DOMAIN frames = 1..K
      /\ Top = frames[K] /\ Top \in A
      /\ Underway(nodes, t, type0, id, frames)
  BY ActiveFrame DEF AddField
<1>2. /\ prog \in Programs /\ StoreOK(nodes, trees) /\ ControlOK /\ id \in Nat
      /\ Len(nodes) \in Nat /\ nodes \in Seq(Wrappers) /\ id <= Len(nodes)
  <2>1. prog \in Programs /\ StoreOK(nodes, trees) /\ ControlOK
    BY DEF IInv, ControlOK
  <2>2. id \in 0..Len(nodes) /\ nodes \in Seq(Wrappers)
    BY <2>1 DEF ControlOK, StoreOK
  <2> QED
    BY <2>1, <2>2
<1>3. /\ Shape(t, Size(t)) /\ Size(t) \in Nat \ {0} /\ Members(t) = 1..Size(t)
      /\ K \in 1..K
  <2>1. Shape(t, Size(t))
    BY <1>1 DEF IsTree
  <2> HIDE DEF t
  <2>2. Size(t) \in Nat \ {0} /\ Members(t) = 1..Size(t)
    BY <2>1, ShapeFacts DEF Shape
  <2>3. K \in 1..K
    BY <1>1
  <2> QED
    BY <2>1, <2>2, <2>3
<1>4. ActivationOK(nodes, t, id, Top) /\ \A n \in 1..Size(t) : nodes[t[n].data].fieldId = id - Size(t) + n - 1
  BY <1>1, <1>3 DEF Underway
<1>5. loc \in 1..Size(t) /\ Top.i \in 1..Len(Fields(Top.type)) + 1
  BY <1>4 DEF ActivationOK
<1>6. Fields(Top.type) \in Seq(Types) /\ Len(Fields(Top.type)) \in Nat
  BY <1>1, <1>3, <1>4, ActivePointer
<1>7. InsertLocation(t) = loc
  <2> SUFFICES \A n \in 1..Size(t) : FieldId(t, n) = Top.fieldId <=> n = loc
    BY <1>1, <1>5, InsertLocationIs
  <2> TAKE n \in 1..Size(t)
  <2>1. FieldId(t, n) = id - Size(t) + n - 1
    BY <1>4 DEF FieldId
  <2>2. loc = Top.fieldId + Size(t) + 1 - id
    BY DEF At
  <2>3. Top.fieldId \in Int /\ Size(t) \in Nat /\ n \in Nat
    BY <1>1, <1>3
  <2> QED
    BY <1>2, <2>1, <2>2, <2>3
<1>8. Recursive(t, loc) <=> Recurs(nodes, t, loc)
  BY DEF Recursive, Recurs, FieldType, NodeType
<1>9. /\ Top.i <= Len(Fields(Top.type)) /\ Room(1)
      /\ nodes' = Append(nodes, w)
      /\ trees' = [trees EXCEPT ![Building] = AppendChild(@, loc, Len(nodes'))]
      /\ id' = id + 1
      /\ frames' = [frames EXCEPT ![Len(frames)].i = @ + 1]
                       \o (IF Recursive(t, loc) \/ IsOpaque(type)
                           THEN <<>> ELSE Activation(type, id))
      /\ prog' = prog /\ arg' = arg /\ hasTrees' = hasTrees /\ builds' = builds
      /\ connected' = connected /\ deps' = deps
  BY <1>7 DEF AddField, NextId
<1>10. type \in Types
  <2>1. Top.i \in 1..Len(Fields(Top.type))
    BY <1>5, <1>6, <1>9
  <2> QED
    BY <1>6, <2>1, ElementOfSeq
<1>11. frames' = fs
  BY <1>8, <1>9 DEF Activation, Step
<1>12. w \in Wrappers /\ w.type = type /\ w.fieldId = id
  <2>1. arg.func \in 1..Len(prog.wrappers)
    BY <1>1, <1>2, ProgramFacts
  <2>2. arg.func \in Nat
    BY <2>1
  <2> HIDE DEF type
  <2> QED
    BY <1>2, <1>10, <2>2 DEF Wrapper, Wrappers, Kinds
<1> HIDE DEF w, t, loc, type, goes
<1>13. Len(nodes') = L
  BY <1>2, <1>9, <1>12
<1>14. trees' = [trees EXCEPT ![Building] = u]
  BY <1>9, <1>13 DEF t
<1>15. Grown(t, Size(t), loc, L, u)
  BY <1>1, <1>5, NewField
<1>16. /\ IsTree(u) /\ Size(u) = Size(t) + 1 /\ Members(u) = 1..Size(t) + 1
       /\ \A n \in 1..Size(t) : u[n].data = t[n].data
       /\ u[Size(t) + 1].data = L
  BY <1>15 DEF Grown
<1>17. \A n \in 1..Size(t) : t[n].data \in 1..Len(nodes)
  <2>1. \A n \in Members(t) : DataOf(trees, Building, n) \in Len(prog.wrappers) + 1..Len(nodes)
    BY <1>1, <1>2 DEF StoreOK, t
  <2>2. Len(prog.wrappers) \in Nat
    BY <1>2, ProgramFacts
  <2> QED
    BY <1>2, <1>3, <2>1, <2>2 DEF DataOf, t
<1> HIDE DEF u
<1>18. /\ StoreOK(nodes, trees)' /\ FormalsOK' /\ ActualsOK' /\ FreshOK' /\ EdgesOK' /\ LinkedOK'
       /\ trees'[Building] = u /\ nodes' \in Seq(Wrappers) /\ nodes'[L] = w
       /\ Extends(nodes, nodes')
  <2>1. \A n \in Members(u) : n \in 1..Size(t) \/ n = Size(t) + 1
    BY <1>3, <1>16
  <2>2. ASSUME NEW n \in Members(u)
        PROVE  \/ u[n].data = L
               \/ n \in Members(t) /\ u[n].data = DataOf(trees, Building, n)
    BY <1>3, <1>16, <2>1 DEF DataOf, t
  <2>3. ASSUME NEW n \in Members(u), NEW m \in Members(u), u[n].data = u[m].data
        PROVE  n = m
    <3>1. \A a, b \in 1..Size(t) : t[a].data = t[b].data => a = b
      <4>1. \A a, b \in Members(t) : DataOf(trees, Building, a) = DataOf(trees, Building, b) => a = b
        BY <1>1, <1>2 DEF StoreOK, t
      <4> QED
        BY <1>3, <4>1 DEF DataOf, t
    <3>2. \A a \in 1..Size(t) : u[a].data = t[a].data /\ u[a].data # L
      BY <1>2, <1>16, <1>17
    <3> QED
      BY <1>16, <2>1, <2>3, <3>1, <3>2
  <2> HIDE DEF L
  <2>4. \A n \in Members(u) :
              \/ u[n].data = Len(nodes) + 1
              \/ n \in Members(trees[Building]) /\ u[n].data = DataOf(trees, Building, n)
    BY <2>2 DEF L, t
  <2> QED
    BY <1>1, <1>9, <1>12, <1>14, <1>16, <2>3, <2>4, GrowStep DEF L
<1>19. fs \in Seq(A)
  <2>1. frames \in Seq([type : Types, fieldId : Int, i : Nat]) /\ id \in Int
    BY <1>1, <1>2
  <2>2. Stepped(frames, K, goes, type, id, Step(frames, goes, type, id))
    BY <1>1, <1>10, <2>1, StepFacts
  <2> QED
    BY <2>2 DEF Stepped
<1>20. ControlOK'
  <2>1. id' \in 0..Len(nodes') /\ Len(nodes') <= MaxNodes
    BY <1>2, <1>9, <1>13, BoundsAssumption DEF Room
  <2>2. ~IsEmpty(u)
    BY <1>16, TreeFacts
  <2>3. /\ Keys' = Keys /\ Functions' = Functions /\ Calls' = Calls
        /\ \A owner : (Positions(owner))' = Positions(owner)
    BY <1>9, SameProgram
  <2> HIDE DEF fs
  <2> QED
    BY <1>1, <1>2, <1>9, <1>11, <1>18, <1>19, <2>1, <2>2, <2>3 DEF ControlOK, Idle, Building
<1>21. Underway(nodes', u, type0, id + 1, fs)
  <2>1. type0 \in Types
    <3>1. Positions(arg.func) = 1..Len(prog.args[arg.func])
      BY <1>1, <1>2, AtHand
    <3>2. prog.args[arg.func] \in Seq(Types)
      BY <1>1, <1>2, ProgramFacts
    <3> QED
      BY <1>1, <3>1, <3>2, ElementOfSeq
  <2>2. PICK ms : ms = nodes'
    OBVIOUS
  <2>3. \A n \in 1..Size(t) : ms[t[n].data] = nodes[t[n].data]
    BY <1>17, <1>18, <2>2 DEF Extends
  <2>4. ms[L].type = type /\ ms[L].fieldId = id
    BY <1>12, <1>18, <2>2
  <2>5. u = AppendChild(t, loc, L)
    BY DEF u
  <2>6. /\ loc = At(t, id, frames[K]) /\ frames[K].i <= Len(Fields(frames[K].type))
        /\ type = Fields(frames[K].type)[frames[K].i]
    BY <1>1, <1>9 DEF loc, type
  <2>7. goes <=> IsPointer(type) /\ ~IsOpaque(type) /\ ~Recurs(nodes, t, loc)
    BY DEF goes
  <2> HIDE DEF type0, L
  <2>8. FieldDue(t, nodes, type0, id, frames, K, loc, type, L, u, ms, goes)
    BY <1>1, <1>2, <1>10, <2>1, <2>3, <2>4, <2>5, <2>6, <2>7 DEF FieldDue
  <2>9. Underway(ms, u, type0, id + 1, Step(frames, goes, type, id))
    BY <2>8, FieldStep
  <2> QED
    BY <2>2, <2>9
<1>22. BuildOK'
  <2> HIDE DEF fs
  <2> QED
    BY <1>9, <1>11, <1>18, <1>21 DEF BuildOK, Building, type0
<1> QED
  BY <1>18, <1>20, <1>22 DEF IInv

-----------------------------------------------------------------------------
(***************************************************************************)
(* Connecting.  Two trees are alike when the k-th nodes of both stand at the  *)
(* same place and have the same type.                                        *)
(***************************************************************************)
Alike(ns, ts, a, b) ==
    /\ IsTree(ts[a]) /\ IsTree(ts[b]) /\ Size(ts[b]) = Size(ts[a])
    /\ \A k \in 1..Size(ts[a]) :
          /\ Place(ts[b], PreOrder(ts[b])[k]) = Place(ts[a], PreOrder(ts[a])[k])
          /\ NodeType(ns, ts[b], PreOrder(ts[b])[k]) = NodeType(ns, ts[a], PreOrder(ts[a])[k])

LEMMA CopyIsAlike ==
    ASSUME NEW ns, NEW ts, NEW from, NEW to, CopyLike(ns, ts, from, to)
    PROVE  Alike(ns, ts, from, to)
<1>1. PICK t, c, q, N : t = ts[from] /\ c = ts[to] /\ q = PreOrder(t) /\ N = Size(t)
  OBVIOUS
<1>2. /\ IsTree(t) /\ IsImage(c, t, N, q)
      /\ \A k \in 1..N : ns[c[k].data].type = ns[t[q[k]].data].type
  BY <1>1 DEF CopyLike
<1>3. IsTree(c) /\ Size(c) = N /\ PreOrder(c) = Counting(N)
  BY <1>1, <1>2, ImageMembers
<1>4. Shape(t, N) /\ Order(t, N, q)
  BY <1>1, <1>2 DEF IsTree
<1>5. \A k \in 1..N : PreOrder(c)[k] = k
  BY <1>3 DEF Counting
<1>6. \A k \in 1..N : Place(c, k) = Place(t, q[k])
  BY <1>2, <1>4, ImagePlace
<1>7. \A k \in 1..N : NodeType(ns, c, k) = NodeType(ns, t, q[k])
  BY <1>2 DEF NodeType
<1> QED
  BY <1>1, <1>2, <1>3, <1>5, <1>6, <1>7 DEF Alike

LEMMA AlikeTransfers ==
    ASSUME NEW ns, NEW ts, NEW a, NEW b, Alike(ns, ts, a, b)
    PROVE  /\ Alike(ns, ts, b, a)
           /\ \A c : Alike(ns, ts, b, c) => Alike(ns, ts, a, c)
BY DEF Alike

\* The trees of a function, and those of a call and its callee, are alike.
LEMMA TreesAreAlike ==
    ASSUME IInv
    PROVE  /\ \A func \in hasTrees : \A pos \in Positions(func) :
                 Alike(nodes, trees, <<func, pos, "FORMAL_IN">>, <<func, pos, "FORMAL_OUT">>)
           /\ \A call \in Calls : builds[call] > 0 => \A pos \in Positions(call) :
                 /\ Alike(nodes, trees, <<call, pos, "ACTUAL_IN">>, <<Callee(call), pos, "FORMAL_IN">>)
                 /\ Alike(nodes, trees, <<Callee(call), pos, "FORMAL_OUT">>, <<call, pos, "ACTUAL_OUT">>)
<1>1. prog \in Programs /\ ControlOK /\ FormalsOK /\ ActualsOK
  BY DEF IInv, ControlOK
<1>2. hasTrees \subseteq Functions
  BY <1>1 DEF ControlOK
<1>3. \A func \in hasTrees : \A pos \in Positions(func) :
          CopyLike(nodes, trees, <<func, pos, "FORMAL_IN">>, <<func, pos, "FORMAL_OUT">>)
  BY <1>1, <1>2 DEF FormalsOK, Complete, Finished
<1>4. \A func \in hasTrees : \A pos \in Positions(func) :
          Alike(nodes, trees, <<func, pos, "FORMAL_IN">>, <<func, pos, "FORMAL_OUT">>)
  BY <1>3, CopyIsAlike
<1>5. ASSUME NEW call \in Calls, builds[call] > 0, NEW pos \in Positions(call)
      PROVE  /\ Alike(nodes, trees, <<call, pos, "ACTUAL_IN">>, <<Callee(call), pos, "FORMAL_IN">>)
             /\ Alike(nodes, trees, <<Callee(call), pos, "FORMAL_OUT">>, <<call, pos, "ACTUAL_OUT">>)
  <2>1. Callee(call) \in hasTrees /\ pos \in Positions(Callee(call))
    BY <1>1, <1>5, ProgramFacts DEF ActualsOK
  <2>2. /\ CopyLike(nodes, trees, <<Callee(call), pos, "FORMAL_IN">>, <<call, pos, "ACTUAL_IN">>)
        /\ CopyLike(nodes, trees, <<Callee(call), pos, "FORMAL_IN">>, <<call, pos, "ACTUAL_OUT">>)
    BY <1>1, <1>5 DEF ActualsOK
  <2>3. /\ Alike(nodes, trees, <<Callee(call), pos, "FORMAL_IN">>, <<call, pos, "ACTUAL_IN">>)
        /\ Alike(nodes, trees, <<Callee(call), pos, "FORMAL_IN">>, <<call, pos, "ACTUAL_OUT">>)
    BY <2>2, CopyIsAlike
  <2>4. Alike(nodes, trees, <<Callee(call), pos, "FORMAL_OUT">>, <<Callee(call), pos, "FORMAL_IN">>)
    BY <1>4, <2>1, AlikeTransfers
  <2> QED
    BY <2>3, <2>4, AlikeTransfers
<1> QED
  BY <1>4, <1>5

\* An edge from a node of one tree to one of another, or of the same.
Joined(ts, a, b, e) ==
    \E n \in Members(ts[a]), m \in Members(ts[b]) :
        /\ e.from = DataOf(ts, a, n) /\ e.to = DataOf(ts, b, m)
        /\ SameField([key |-> a, place |-> Place(ts[a], n)],
                     [key |-> b, place |-> Place(ts[b], m)])

LEMMA LockstepJoins ==
    ASSUME NEW ns, NEW ts, NEW a, NEW b, Alike(ns, ts, a, b), a # b, a[2] = b[2],
           NEW e \in Lockstep(ts[a], ts[b])
    PROVE  Joined(ts, a, b, e)
<1>1. PICK k \in DOMAIN PreOrder(ts[a]) :
          e = Edge(ts[a][PreOrder(ts[a])[k]].data, ts[b][PreOrder(ts[b])[k]].data, "PARAMETER")
  BY DEF Lockstep, Data
<1>2. PICK n, m : n = PreOrder(ts[a])[k] /\ m = PreOrder(ts[b])[k]
  OBVIOUS
<1>3. IsTree(ts[a]) /\ IsTree(ts[b]) /\ Size(ts[b]) = Size(ts[a])
  BY DEF Alike
<1>4. k \in 1..Size(ts[a]) /\ k \in 1..Size(ts[b])
  BY <1>1, <1>3, TreeFacts
<1>5. n \in Members(ts[a]) /\ m \in Members(ts[b])
  BY <1>2, <1>3, <1>4, TreeFacts
<1>6. Place(ts[b], m) = Place(ts[a], n)
  BY <1>2, <1>4 DEF Alike
<1>7. e.from = DataOf(ts, a, n) /\ e.to = DataOf(ts, b, m)
  BY <1>1, <1>2 DEF Edge, DataOf
<1> QED
  BY <1>5, <1>6, <1>7 DEF Joined, SameField

LEMMA TreeEdgesJoin ==
    ASSUME NEW owner, NEW treeTy,
           \A pos \in Positions(owner) : IsTree(trees[<<owner, pos, treeTy>>]),
           NEW e \in TreeEdges(owner, treeTy)
    PROVE  \E pos \in Positions(owner) :
              Joined(trees, <<owner, pos, treeTy>>, <<owner, pos, treeTy>>, e)
<1>1. PICK pos \in Positions(owner) :
          \E n \in ToSet(PreOrder(TreeOf(owner, pos, treeTy))) :
             \E m \in ToSet(Children(TreeOf(owner, pos, treeTy), n)) :
                e = Edge(Data(TreeOf(owner, pos, treeTy), n), Data(TreeOf(owner, pos, treeTy), m), "PARAMETER")
  BY DEF TreeEdges
<1>2. PICK a, t : a = <<owner, pos, treeTy>> /\ t = trees[a] /\ t = TreeOf(owner, pos, treeTy)
  BY DEF TreeOf
<1>3. PICK n, m : n \in ToSet(PreOrder(t)) /\ m \in ToSet(Children(t, n)) /\ e = Edge(Data(t, n), Data(t, m), "PARAMETER")
  BY <1>1, <1>2
<1>4. IsTree(t) /\ Shape(t, Size(t)) /\ Members(t) = 1..Size(t)
  BY <1>2, TreeFacts DEF IsTree
<1>5. n \in 1..Size(t)
  BY <1>3, <1>4, TreeFacts DEF VisitsEachOnce
<1>6. m \in 2..Size(t) /\ t[m].parent = n
  <2> DEFINE C == {c \in 2..Size(t) : t[c].parent = n}
  <2>1. Children(t, n) \in Seq(C)
    BY <1>4, <1>5, ChildrenFacts
  <2> HIDE DEF C
  <2>2. \A k \in DOMAIN Children(t, n) : Children(t, n)[k] \in C
    BY <2>1, ElementOfSeq
  <2>3. m \in C
    BY <1>3, <2>2 DEF ToSet
  <2> QED
    BY <2>3 DEF C
<1>7. Len(Place(t, m)) = Len(Place(t, n)) + 1 /\ Front(Place(t, m)) = Place(t, n)
  BY <1>4, <1>5, <1>6, PlaceBelow
<1>8. e.from = DataOf(trees, a, n) /\ e.to = DataOf(trees, a, m)
  BY <1>2, <1>3 DEF Edge, Data, DataOf
<1>9. n \in Members(trees[a]) /\ m \in Members(trees[a])
  <2>1. m \in 1..Size(t)
    BY <1>4, <1>6, TreeFacts
  <2> QED
    BY <1>2, <1>4, <1>5, <2>1
<1>10. SameField([key |-> a, place |-> Place(trees[a], n)], [key |-> a, place |-> Place(trees[a], m)])
  BY <1>2, <1>7 DEF SameField
<1>11. Joined(trees, a, a, e)
  BY <1>8, <1>9, <1>10 DEF Joined
<1> QED
  BY <1>2, <1>11

\* An edge that connecting owner may draw.
Serves(owner, key) ==
    \/ key[1] \in hasTrees /\ key[3] \in {"FORMAL_IN", "FORMAL_OUT"}
    \/ key[1] = owner /\ key[3] \in {"ACTUAL_IN", "ACTUAL_OUT"}
Fits(owner, e) ==
    /\ e.from \in 1..Len(nodes) /\ e.to \in 1..Len(nodes)
    /\ e.type = "PARAMETER" =>
          \/ e.from \in 1..Len(prog.wrappers)
          \/ \E a, b \in Keys : Serves(owner, a) /\ Serves(owner, b) /\ Joined(trees, a, b, e)

\* whatever else it draws, it links the trees node by node
LinkedFunction(func, edges) ==
    \A pos \in Positions(func) :
        Lockstep(TreeOf(func, pos, "FORMAL_IN"), TreeOf(func, pos, "FORMAL_OUT")) \subseteq edges
LinkedCall(call, edges) ==
    \A pos \in Positions(call) :
        /\ Lockstep(TreeOf(call, pos, "ACTUAL_IN"), TreeOf(Callee(call), pos, "FORMAL_IN")) \subseteq edges
        /\ Lockstep(TreeOf(Callee(call), pos, "FORMAL_OUT"), TreeOf(call, pos, "ACTUAL_OUT")) \subseteq edges

LEMMA ConnectStep ==
    ASSUME IInv, NEW owner, NEW edges,
           connected' = connected \union {owner}, deps' = deps \union edges,
           \/ owner \in hasTrees
           \/ owner \in Calls /\ builds[owner] > 0,
           \A e \in edges : Fits(owner, e),
           owner \in Functions => LinkedFunction(owner, edges),
           owner \in Calls => LinkedCall(owner, edges),
           prog' = prog, nodes' = nodes, trees' = trees, id' = id, frames' = frames,
           arg' = arg, hasTrees' = hasTrees, builds' = builds
    PROVE  IInv'
<1>1. /\ prog \in Programs /\ StoreOK(nodes, trees) /\ ControlOK /\ ActualsOK /\ FormalsOK
      /\ EdgesOK /\ LinkedOK /\ FreshOK /\ BuildOK
  BY DEF IInv, ControlOK
<1>2. /\ Keys' = Keys /\ Functions' = Functions /\ Calls' = Calls
      /\ \A o : (Callee(o))' = Callee(o)
      /\ \A o : (Positions(o))' = Positions(o)
  BY SameProgram
<1>3. /\ StoreOK(nodes, trees)' /\ Extends(nodes, nodes') /\ nodes' \in Seq(Wrappers)
  BY <1>1, SameNodes
<1>4. FormalsOK'
  <2>1. \A func, pos : Complete(func, pos)' <=> Complete(func, pos)
    BY DEF Complete
  <2> QED
    BY <1>3, <2>1, FormalsKept
<1>5. ActualsOK'
  <2>1. \A call \in Calls : builds[call] > 0 =>
           /\ Callee(call) \in hasTrees
           /\ \A pos \in Positions(call) : \A treeTy \in {"ACTUAL_IN", "ACTUAL_OUT"} :
                 CopyLike(nodes', trees', <<Callee(call), pos, "FORMAL_IN">>, <<call, pos, treeTy>>)
    BY <1>1 DEF ActualsOK
  <2> QED
    BY <1>2, <2>1 DEF ActualsOK
<1>6. ControlOK'
  BY <1>1, <1>2 DEF ControlOK, Idle, Building
<1>7. FreshOK'
  BY <1>1, <1>2 DEF FreshOK, Complete
<1>8. BuildOK'
  BY <1>1, <1>2 DEF BuildOK, Idle, Building, Underway, ActivationOK
<1>9. \A key : Settled(key) => Settled(key)'
  BY DEF Settled
<1>10. \A key : Serves(owner, key) => Settled(key)'
  BY DEF Settled, Serves
<1>11. ASSUME NEW e, NEW a \in Keys, NEW b \in Keys, Settled(a)', Settled(b)', Joined(trees, a, b, e)
       PROVE  FieldEdge(e)'
  <2>1. PICK n \in Members(trees'[a]), m \in Members(trees'[b]) :
            /\ e.from = DataOf(trees', a, n) /\ e.to = DataOf(trees', b, m)
            /\ SameField([key |-> a, place |-> Place(trees'[a], n)],
                         [key |-> b, place |-> Place(trees'[b], m)])
    BY <1>11 DEF Joined
  <2> QED
    BY <1>2, <1>11, <2>1 DEF FieldEdge
<1>12. \A e : FieldEdge(e) =>
           \E a, b \in Keys : Settled(a) /\ Settled(b) /\ Joined(trees, a, b, e)
  BY DEF FieldEdge, Joined
<1>13. ASSUME NEW e \in deps'
       PROVE  /\ {e.from, e.to} \subseteq DOMAIN nodes'
              /\ e.type = "PARAMETER" => e.from \in 1..Len(prog'.wrappers) \/ FieldEdge(e)'
  <2>1. CASE e \in deps
    <3>1. /\ {e.from, e.to} \subseteq DOMAIN nodes
          /\ e.type = "PARAMETER" => e.from \in 1..Len(prog.wrappers) \/ FieldEdge(e)
      BY <1>1, <2>1 DEF EdgesOK
    <3> QED
      BY <1>9, <1>11, <1>12, <3>1
  <2>2. CASE e \in edges
    <3>1. DOMAIN nodes = 1..Len(nodes)
      BY <1>1 DEF StoreOK
    <3>2. Fits(owner, e)
      BY <2>2
    <3> QED
      BY <1>10, <1>11, <3>1, <3>2 DEF Fits
  <2> QED
    BY <2>1, <2>2
<1>14. EdgesOK'
  BY <1>13 DEF EdgesOK
<1>15. /\ \A func \in (connected \union {owner}) \intersect Functions : LinkedFunction(func, deps \union edges)
       /\ \A call \in (connected \union {owner}) \intersect Calls : LinkedCall(call, deps \union edges)
  BY <1>1 DEF LinkedOK, LinkedFunction, LinkedCall
<1>16. /\ \A func : (LinkedFunction(func, deps))' <=> LinkedFunction(func, deps \union edges)
       /\ \A call : (LinkedCall(call, deps))' <=> LinkedCall(call, deps \union edges)
  BY <1>2 DEF LinkedFunction, LinkedCall, TreeOf
<1>17. LinkedOK'
  BY <1>2, <1>15, <1>16 DEF LinkedOK, LinkedFunction, LinkedCall
<1> QED
  BY <1>3, <1>4, <1>5, <1>6, <1>7, <1>8, <1>14, <1>17 DEF IInv

LEMMA JoinedFits ==
    ASSUME prog \in Programs, StoreOK(nodes, trees), NEW owner, NEW a \in Keys, NEW b \in Keys,
           Serves(owner, a), Serves(owner, b), NEW e, Joined(trees, a, b, e)
    PROVE  Fits(owner, e)
<1>1. PICK n \in Members(trees[a]), m \in Members(trees[b]) :
          e.from = DataOf(trees, a, n) /\ e.to = DataOf(trees, b, m)
  BY DEF Joined
<1>2. Extends(nodes, nodes)
  BY DEF Extends, StoreOK
<1>3. e.from \in 1..Len(nodes) /\ e.to \in 1..Len(nodes)
  BY <1>1, <1>2, TypesKept
<1> QED
  BY <1>3 DEF Fits

\* The trees that are connected, their roots and their wrappers.
LEMMA OwnTrees ==
    ASSUME prog \in Programs, StoreOK(nodes, trees), NEW owner \in Functions \union Calls,
           NEW treeTy \in TreeTypes, NEW pos \in Positions(owner),
           IsTree(trees[<<owner, pos, treeTy>>])
    PROVE  /\ <<owner, pos, treeTy>> \in Keys
           /\ owner \in 1..Len(prog.wrappers) /\ owner \in 1..Len(nodes)
           /\ Root(owner, pos, treeTy) \in 1..Len(nodes)
           /\ WrappersIn(TreeOf(owner, pos, treeTy)) \subseteq 1..Len(nodes)
<1>1. PICK key \in Keys : key = <<owner, pos, treeTy>>
  BY ProgramFacts
<1>2. Extends(nodes, nodes)
  BY DEF Extends, StoreOK
<1>3. IsTree(trees[key]) /\ TreeOf(owner, pos, treeTy) = trees[key]
  BY <1>1 DEF TreeOf
<1>4. \A n \in Members(trees[key]) : DataOf(trees, key, n) \in 1..Len(nodes)
  BY <1>2, TypesKept
<1>5. Begin(trees[key]) \in Members(trees[key]) /\ ToSet(PreOrder(trees[key])) = Members(trees[key])
  BY <1>3, TreeFacts DEF VisitsEachOnce
<1>6. Root(owner, pos, treeTy) \in 1..Len(nodes)
  BY <1>3, <1>4, <1>5 DEF Root, Data, DataOf
<1>7. WrappersIn(TreeOf(owner, pos, treeTy)) \subseteq 1..Len(nodes)
  BY <1>3, <1>4, <1>5 DEF WrappersIn, Data, DataOf
<1>8. owner \in 1..Len(prog.wrappers)
  BY ProgramFacts
<1>9. owner \in 1..Len(nodes)
  <2>1. Len(prog.wrappers) \in Nat /\ Len(nodes) \in Nat /\ Len(prog.wrappers) <= Len(nodes)
    BY ProgramFacts DEF StoreOK
  <2> QED
    BY <1>8, <2>1
<1> QED
  BY <1>1, <1>6, <1>7, <1>8, <1>9

LEMMA OwnEdgesFit ==
    ASSUME prog \in Programs, StoreOK(nodes, trees), NEW owner \in Functions \union Calls,
           NEW treeTy \in TreeTypes,
           \A pos \in Positions(owner) :
              /\ IsTree(trees[<<owner, pos, treeTy>>])
              /\ Serves(owner, <<owner, pos, treeTy>>)
    PROVE  /\ \A e \in TreeEdges(owner, treeTy) : Fits(owner, e)
           /\ \A kind, func : \A e \in ToSameType(owner, treeTy, kind, func) :
                 Fits(owner, e)
           /\ \A kind, func : \A e \in FromSameType(owner, treeTy, kind, func) :
                 Fits(owner, e)
<1>1. \A pos \in Positions(owner) :
          /\ <<owner, pos, treeTy>> \in Keys
          /\ WrappersIn(TreeOf(owner, pos, treeTy)) \subseteq 1..Len(nodes)
  BY OwnTrees
<1>2. ASSUME NEW e \in TreeEdges(owner, treeTy) PROVE Fits(owner, e)
  <2>1. PICK pos \in Positions(owner) :
            Joined(trees, <<owner, pos, treeTy>>, <<owner, pos, treeTy>>, e)
    BY TreeEdgesJoin
  <2>2. PICK a \in Keys : a = <<owner, pos, treeTy>> /\ Serves(owner, a)
    BY <1>1
  <2> QED
    BY <2>1, <2>2, JoinedFits
<1>3. DOMAIN nodes = 1..Len(nodes)
  BY DEF StoreOK
<1>4. ASSUME NEW kind, NEW func, NEW e \in ToSameType(owner, treeTy, kind, func)
      PROVE  e.from \in 1..Len(nodes) /\ e.to \in 1..Len(nodes) /\ e.type = "DATA_GENERAL"
  <2>1. PICK pos \in Positions(owner) :
            \E p \in WrappersIn(TreeOf(owner, pos, treeTy)) \X Instructions(kind, func) :
                e = Edge(p[1], p[2], "DATA_GENERAL")
    BY DEF ToSameType
  <2>2. PICK p \in WrappersIn(TreeOf(owner, pos, treeTy)) \X Instructions(kind, func) :
            e = Edge(p[1], p[2], "DATA_GENERAL")
    BY <2>1
  <2>3. p[1] \in 1..Len(nodes) /\ p[2] \in 1..Len(nodes)
    BY <1>1, <1>3 DEF Instructions
  <2> QED
    BY <2>2, <2>3 DEF Edge
<1>5. ASSUME NEW kind, NEW func, NEW e \in FromSameType(owner, treeTy, kind, func)
      PROVE  e.from \in 1..Len(nodes) /\ e.to \in 1..Len(nodes) /\ e.type = "DATA_GENERAL"
  <2>1. PICK d \in ToSameType(owner, treeTy, kind, func) : e = Edge(d.to, d.from, d.type)
    BY DEF FromSameType
  <2> QED
    BY <1>4, <2>1 DEF Edge
<1> QED
  BY <1>2, <1>4, <1>5 DEF Fits

LEMMA RootEdgesFit ==
    ASSUME prog \in Programs, StoreOK(nodes, trees), NEW owner \in Functions \union Calls,
           NEW treeTys, treeTys \subseteq TreeTypes,
           \A pos \in Positions(owner) : \A treeTy \in treeTys : IsTree(trees[<<owner, pos, treeTy>>]),
           NEW e \in RootEdges(owner, owner, treeTys)
    PROVE  Fits(owner, e)
<1>1. PICK pos \in Positions(owner), treeTy \in treeTys :
          e = Edge(owner, Root(owner, pos, treeTy), "PARAMETER")
  BY DEF RootEdges
<1>2. owner \in 1..Len(prog.wrappers) /\ owner \in 1..Len(nodes) /\ Root(owner, pos, treeTy) \in 1..Len(nodes)
  BY OwnTrees
<1> QED
  BY <1>1, <1>2 DEF Fits, Edge

LEMMA ConnectFunctionKeeps ==
    ASSUME IInv, NEW func \in Functions, ConnectFunctionAndFormalTrees(func)
    PROVE  IInv'
<1> DEFINE Link(pos) == Lockstep(TreeOf(func, pos, "FORMAL_IN"), TreeOf(func, pos, "FORMAL_OUT"))
           links == FormalLinks(func)
           edges == FormalEdges(func)
<1>0. \A e : e \in edges <=>
                \/ e \in TreeEdges(func, "FORMAL_IN") \/ e \in TreeEdges(func, "FORMAL_OUT")
                \/ e \in RootEdges(func, func, {"FORMAL_IN", "FORMAL_OUT"})
                \/ e \in links
                \/ e \in ToSameType(func, "FORMAL_IN", "STORE", func)
                \/ e \in FromSameType(func, "FORMAL_OUT", "LOAD", func)
  BY DEF FormalEdges
<1> HIDE DEF edges
<1>1. /\ func \in hasTrees /\ deps' = deps \union edges /\ connected' = connected \union {func}
      /\ prog' = prog /\ nodes' = nodes /\ trees' = trees /\ id' = id /\ frames' = frames
      /\ arg' = arg /\ hasTrees' = hasTrees /\ builds' = builds
  BY DEF ConnectFunctionAndFormalTrees, edges
<1>2. prog \in Programs /\ StoreOK(nodes, trees) /\ ControlOK
  BY DEF IInv, ControlOK
<1>3. func \notin Calls
  BY <1>2, ProgramsAssumption DEF Functions, Calls
<1>4. \A pos \in Positions(func) :
          Alike(nodes, trees, <<func, pos, "FORMAL_IN">>, <<func, pos, "FORMAL_OUT">>)
  BY <1>1, TreesAreAlike
<1>5. \A pos \in Positions(func) : \A treeTy \in {"FORMAL_IN", "FORMAL_OUT"} :
          /\ treeTy \in TreeTypes /\ IsTree(trees[<<func, pos, treeTy>>])
          /\ Serves(func, <<func, pos, treeTy>>) /\ <<func, pos, treeTy>> \in Keys
  <2>1. {"FORMAL_IN", "FORMAL_OUT"} \subseteq TreeTypes
    BY DEF TreeTypes
  <2>2. \A pos \in Positions(func) : \A treeTy \in TreeTypes : <<func, pos, treeTy>> \in Keys
    BY <1>2, ProgramFacts
  <2> QED
    BY <1>1, <1>4, <2>1, <2>2 DEF Serves, Alike
<1>6. ASSUME NEW pos \in Positions(func), NEW e \in Link(pos) PROVE Fits(func, e)
  <2>1. PICK a, b \in Keys : a = <<func, pos, "FORMAL_IN">> /\ b = <<func, pos, "FORMAL_OUT">>
    BY <1>5
  <2>2. Serves(func, a) /\ Serves(func, b) /\ Alike(nodes, trees, a, b) /\ a # b /\ a[2] = b[2]
    BY <1>4, <1>5, <2>1
  <2>3. e \in Lockstep(trees[a], trees[b])
    BY <2>1 DEF TreeOf
  <2>4. Joined(trees, a, b, e)
    BY <2>2, <2>3, LockstepJoins
  <2> QED
    BY <1>2, <2>2, <2>4, JoinedFits
<1>7. \A e \in links : Fits(func, e)
  BY <1>6 DEF FormalLinks
<1>8. "FORMAL_IN" \in TreeTypes /\ "FORMAL_OUT" \in TreeTypes
  BY DEF TreeTypes
<1>9. \A treeTy \in {"FORMAL_IN", "FORMAL_OUT"} :
          /\ \A e \in TreeEdges(func, treeTy) : Fits(func, e)
          /\ \A kind, f : \A e \in ToSameType(func, treeTy, kind, f) : Fits(func, e)
          /\ \A kind, f : \A e \in FromSameType(func, treeTy, kind, f) : Fits(func, e)
  BY <1>2, <1>5, <1>8, OwnEdgesFit
<1>10. \A e \in RootEdges(func, func, {"FORMAL_IN", "FORMAL_OUT"}) : Fits(func, e)
  BY <1>2, <1>5, <1>8, RootEdgesFit
<1>11. LinkedFunction(func, edges)
  <2>1. LinkedFunction(func, links)
    BY DEF LinkedFunction, FormalLinks
  <2> HIDE DEF links
  <2> QED
    BY <1>0, <2>1 DEF LinkedFunction
<1> HIDE DEF links
<1>12. \A e \in edges : Fits(func, e)
  BY <1>0, <1>7, <1>9, <1>10
<1> QED
  BY <1>1, <1>3, <1>11, <1>12, ConnectStep

LEMMA ConnectCallKeeps ==
    ASSUME IInv, NEW call \in Calls, ConnectCallerAndCallee(call)
    PROVE  IInv'
<1> DEFINE func == Callee(call)
           In(pos) == Lockstep(TreeOf(call, pos, "ACTUAL_IN"), TreeOf(func, pos, "FORMAL_IN"))
           Out(pos) == Lockstep(TreeOf(func, pos, "FORMAL_OUT"), TreeOf(call, pos, "ACTUAL_OUT"))
           ins == PassLinks(call)
           outs == ReturnLinks(call)
           control == {Edge(call, func, "CONTROL")}
           returns == ReturnValues(call)
           edges == CallEdges(call)
<1>0. \A e : e \in edges <=>
                \/ e \in TreeEdges(call, "ACTUAL_IN") \/ e \in TreeEdges(call, "ACTUAL_OUT")
                \/ e \in control \/ e \in returns
                \/ e \in RootEdges(call, call, {"ACTUAL_IN", "ACTUAL_OUT"})
                \/ e \in ins \/ e \in outs
                \/ e \in ToSameType(call, "ACTUAL_OUT", "LOAD", nodes[call].func)
  BY DEF CallEdges
<1> HIDE DEF edges
<1>1. /\ builds[call] > 0 /\ connected' = connected \union {call}
      /\ deps' = deps \union edges
      /\ prog' = prog /\ nodes' = nodes /\ trees' = trees /\ id' = id /\ frames' = frames
      /\ arg' = arg /\ hasTrees' = hasTrees /\ builds' = builds
  BY DEF ConnectCallerAndCallee, edges
<1>2. prog \in Programs /\ StoreOK(nodes, trees) /\ ControlOK /\ ActualsOK
  BY DEF IInv, ControlOK
<1>3. /\ func \in hasTrees /\ func \in Functions /\ Positions(func) = Positions(call)
      /\ func # call /\ call \notin Functions
  <2>1. func \in hasTrees
    BY <1>1, <1>2 DEF ActualsOK
  <2>2. func \in Functions /\ Positions(func) = Positions(call)
    BY <1>2, ProgramFacts
  <2>3. Functions \intersect Calls = {}
    BY <1>2, ProgramsAssumption DEF Functions, Calls
  <2> QED
    BY <2>1, <2>2, <2>3
<1>4. \A pos \in Positions(call) :
          /\ Alike(nodes, trees, <<call, pos, "ACTUAL_IN">>, <<func, pos, "FORMAL_IN">>)
          /\ Alike(nodes, trees, <<func, pos, "FORMAL_OUT">>, <<call, pos, "ACTUAL_OUT">>)
  BY <1>1, TreesAreAlike
<1>5. /\ "FORMAL_IN" \in TreeTypes /\ "FORMAL_OUT" \in TreeTypes
      /\ "ACTUAL_IN" \in TreeTypes /\ "ACTUAL_OUT" \in TreeTypes
  BY DEF TreeTypes
<1>6. \A pos \in Positions(call) : \A treeTy \in {"ACTUAL_IN", "ACTUAL_OUT"} :
          /\ treeTy \in TreeTypes /\ IsTree(trees[<<call, pos, treeTy>>])
          /\ Serves(call, <<call, pos, treeTy>>) /\ <<call, pos, treeTy>> \in Keys
  <2>1. \A pos \in Positions(call) : \A treeTy \in TreeTypes : <<call, pos, treeTy>> \in Keys
    BY <1>2, ProgramFacts
  <2> QED
    BY <1>4, <1>5, <2>1 DEF Serves, Alike
<1>7. \A pos \in Positions(call) : \A treeTy \in {"FORMAL_IN", "FORMAL_OUT"} :
          Serves(call, <<func, pos, treeTy>>) /\ <<func, pos, treeTy>> \in Keys
  <2>1. \A pos \in Positions(call) : \A treeTy \in TreeTypes : <<func, pos, treeTy>> \in Keys
    BY <1>2, <1>3, ProgramFacts
  <2> QED
    BY <1>3, <1>5, <2>1 DEF Serves
<1> HIDE DEF func
<1>8. ASSUME NEW pos \in Positions(call), NEW e, e \in In(pos) \/ e \in Out(pos) PROVE Fits(call, e)
  <2>1. CASE e \in In(pos)
    <3>1. PICK a, b \in Keys : a = <<call, pos, "ACTUAL_IN">> /\ b = <<func, pos, "FORMAL_IN">>
      BY <1>6, <1>7
    <3>2. Serves(call, a) /\ Serves(call, b) /\ Alike(nodes, trees, a, b) /\ a # b /\ a[2] = b[2]
      BY <1>4, <1>6, <1>7, <3>1
    <3>3. e \in Lockstep(trees[a], trees[b])
      BY <2>1, <3>1 DEF TreeOf
    <3>4. Joined(trees, a, b, e)
      BY <3>2, <3>3, LockstepJoins
    <3> QED
      BY <1>2, <3>2, <3>4, JoinedFits
  <2>2. CASE e \in Out(pos)
    <3>1. PICK a, b \in Keys : a = <<func, pos, "FORMAL_OUT">> /\ b = <<call, pos, "ACTUAL_OUT">>
      BY <1>6, <1>7
    <3>2. Serves(call, a) /\ Serves(call, b) /\ Alike(nodes, trees, a, b) /\ a # b /\ a[2] = b[2]
      BY <1>4, <1>6, <1>7, <3>1
    <3>3. e \in Lockstep(trees[a], trees[b])
      BY <2>2, <3>1 DEF TreeOf
    <3>4. Joined(trees, a, b, e)
      BY <3>2, <3>3, LockstepJoins
    <3> QED
      BY <1>2, <3>2, <3>4, JoinedFits
  <2> QED
    BY <1>8, <2>1, <2>2
<1>9. \A e \in ins \union outs : Fits(call, e)
  BY <1>8 DEF PassLinks, ReturnLinks, func
<1>10. \A treeTy \in {"ACTUAL_IN", "ACTUAL_OUT"} :
          /\ \A e \in TreeEdges(call, treeTy) : Fits(call, e)
          /\ \A kind, f : \A e \in ToSameType(call, treeTy, kind, f) : Fits(call, e)
  BY <1>2, <1>5, <1>6, OwnEdgesFit
<1>11. \A e \in RootEdges(call, call, {"ACTUAL_IN", "ACTUAL_OUT"}) : Fits(call, e)
  BY <1>2, <1>5, <1>6, RootEdgesFit
<1>12. \A e \in control \union returns : Fits(call, e)
  <2>1. call \in 1..Len(prog.wrappers) /\ func \in 1..Len(prog.wrappers)
    BY <1>2, <1>3, ProgramFacts
  <2>2. Len(prog.wrappers) \in Nat /\ Len(nodes) \in Nat /\ Len(prog.wrappers) <= Len(nodes)
        /\ DOMAIN nodes = 1..Len(nodes)
    BY <1>2, ProgramFacts DEF StoreOK
  <2>3. call \in 1..Len(nodes) /\ func \in 1..Len(nodes)
    BY <2>1, <2>2
  <2>4. \A r \in Instructions("RETURN", func) : r \in 1..Len(nodes)
    BY <2>2 DEF Instructions
  <2> QED
    BY <2>3, <2>4 DEF Fits, Edge, ReturnValues, func
<1>13. LinkedCall(call, edges)
  <2>1. LinkedCall(call, ins \union outs)
    BY DEF LinkedCall, PassLinks, ReturnLinks
  <2> HIDE DEF ins, outs, control, returns
  <2> QED
    BY <1>0, <2>1 DEF LinkedCall
<1> HIDE DEF ins, outs, control, returns
<1>14. \A e \in edges : Fits(call, e)
  BY <1>0, <1>9, <1>10, <1>11, <1>12
<1> QED
  BY <1>1, <1>3, <1>13, <1>14, ConnectStep

-----------------------------------------------------------------------------
(***************************************************************************)
(* The invariant and what follows from it.                                   *)
(***************************************************************************)
LEMMA InitIsRight == Init => IInv
<1> SUFFICES ASSUME Init PROVE IInv
  OBVIOUS
<1>1. /\ prog \in Programs /\ nodes = prog.wrappers /\ trees = [key \in Keys |-> EmptyTree]
      /\ id = 0 /\ frames = <<>> /\ arg = NoArgument /\ hasTrees = {}
      /\ builds = [call \in Calls |-> 0] /\ connected = {} /\ deps = {}
  BY DEF Init
<1>2. nodes \in Seq(Wrappers) /\ Len(nodes) \in Nat /\ Len(nodes) <= MaxNodes
  BY <1>1, ProgramFacts
<1>3. StoreOK(nodes, trees)
  <2>1. \A key \in Keys : Members(trees[key]) = {}
    BY <1>1, EmptyFacts
  <2> QED
    BY <1>1, <1>2, <2>1 DEF StoreOK
<1>4. ControlOK
  <2>1. <<>> \in Seq([type : Types, fieldId : Int, i : Nat])
    OBVIOUS
  <2> QED
    BY <1>1, <1>2, <2>1 DEF ControlOK
<1>5. \A func \in Functions : \A pos \in Positions(func) : ~Complete(func, pos)
  <2>1. \A func \in Functions : func \in 1..Len(prog.wrappers)
    BY <1>1, ProgramFacts
  <2>2. \A func \in Functions : func # 0
    BY <2>1
  <2> QED
    BY <1>1, <2>2 DEF Complete, NoArgument
<1>6. FormalsOK
  BY <1>5 DEF FormalsOK
<1>7. FreshOK
  <2>1. \A func \in Functions : \A pos \in Positions(func) : <<func, pos, "FORMAL_IN">> \in Keys
    <3>1. "FORMAL_IN" \in TreeTypes
      BY DEF TreeTypes
    <3> QED
      BY <1>1, <3>1, ProgramFacts
  <2> QED
    BY <1>1, <2>1 DEF FreshOK
<1>8. ActualsOK /\ BuildOK /\ EdgesOK /\ LinkedOK
  BY <1>1 DEF ActualsOK, BuildOK, EdgesOK, LinkedOK, Idle
<1> QED
  BY <1>3, <1>4, <1>6, <1>7, <1>8 DEF IInv

LEMMA StepKeeps == IInv /\ [Next]_vars => IInv'
<1> SUFFICES ASSUME IInv, [Next]_vars PROVE IInv'
  OBVIOUS
<1>1. CASE BuildFormalTree
  BY <1>1, RootKeeps
<1>2. CASE AddField
  BY <1>2, FieldKeeps
<1>3. CASE FieldsDone
  BY <1>3, FieldsDoneKeeps
<1>4. CASE CopyFormalTree
  BY <1>4, CopyFormalKeeps
<1>5. CASE ArgumentsDone
  BY <1>5, ArgumentsDoneKeeps
<1>6. ASSUME NEW func \in Functions, BuildFormalParameterTrees(func) PROVE IInv'
  BY <1>6, BeginKeeps
<1>7. ASSUME NEW func \in Functions, ConnectFunctionAndFormalTrees(func) PROVE IInv'
  BY <1>7, ConnectFunctionKeeps
<1>8. ASSUME NEW call \in Calls, BuildActualParameterTrees(call) PROVE IInv'
  BY <1>8, BuildActualKeeps
<1>9. ASSUME NEW call \in Calls, ConnectCallerAndCallee(call) PROVE IInv'
  BY <1>9, ConnectCallKeeps
<1>10. CASE UNCHANGED vars
  BY <1>10, StutterKeeps
<1> QED
  BY <1>1, <1>2, <1>3, <1>4, <1>5, <1>6, <1>7, <1>8, <1>9, <1>10 DEF Next, Build, Request

\* Every state has the invariant, whatever is built and connected in which
\* order (ConnectFunctions.cpp, and ProgramDependencies.cpp lines 277 to 462).
THEOREM InvariantHolds == Spec => []IInv
BY InitIsRight, StepKeeps, PTL DEF Spec

\* Every node of a tree holds a wrapper that exists, every activation stands at
\* a field of a pointer, and the ids given to fields are those of wrappers.
THEOREM TypeCorrect == Spec => []TypeOK
<1>1. ASSUME IInv PROVE TypeOK
  <2>1. /\ prog \in Programs /\ StoreOK(nodes, trees) /\ ControlOK /\ EdgesOK
        /\ nodes \in Seq(Wrappers) /\ Len(nodes) \in Nat /\ DOMAIN nodes = 1..Len(nodes)
    BY <1>1 DEF IInv, ControlOK, StoreOK
  <2>2. \A w \in DOMAIN nodes : nodes[w].type \in Types \union {"none"}
    <3>1. \A w \in 1..Len(nodes) : nodes[w] \in Wrappers
      BY <2>1, ElementOfSeq
    <3> QED
      BY <2>1, <3>1 DEF Wrappers
  <2>3. DOMAIN trees = Keys
    BY <2>1 DEF StoreOK
  <2>4. \A key \in Keys : \A n \in Members(trees[key]) : trees[key][n].data \in DOMAIN nodes
    <3>1. Extends(nodes, nodes)
      BY <2>1 DEF Extends
    <3> QED
      BY <2>1, <3>1, TypesKept DEF DataOf
  <2>5. Len(nodes) <= MaxNodes /\ id \in 0..MaxNodes /\ id \in Nat
    <3>1. Len(nodes) <= MaxNodes /\ id \in 0..Len(nodes)
      BY <2>1 DEF ControlOK
    <3> QED
      BY <2>1, <3>1, BoundsAssumption
  <2>6. ASSUME NEW k \in DOMAIN frames
        PROVE  /\ IsPointer(frames[k].type)
               /\ frames[k].fieldId < id
               /\ frames[k].i \in 1..Len(Fields(frames[k].type)) + 1
    <3> DEFINE t == trees[Building]
               A == [type : Types, fieldId : Int, i : Nat]
    <3>1. frames # <<>>
      BY <2>6
    <3>2. /\ IsTree(t) /\ frames \in Seq(A) /\ DOMAIN frames = 1..Len(frames)
          /\ Underway(nodes, t, prog.args[arg.func][arg.pos], id, frames)
      BY <1>1, <3>1, ActiveFrame
    <3>3. PICK f : f = frames[k] /\ f \in A
      <4> HIDE DEF A
      <4>1. frames[k] \in A
        BY <2>6, <3>2, ElementOfSeq
      <4> QED
        BY <4>1
    <3>4. ActivationOK(nodes, t, id, f)
      BY <3>2, <3>3 DEF Underway
    <3>5. Shape(t, Size(t)) /\ Size(t) \in Nat
      BY <3>2, TreeFacts DEF IsTree
    <3> HIDE DEF t
    <3>6. IsPointer(f.type)
      BY <3>3, <3>4, <3>5, ActivePointer
    <3>7. f.fieldId + Size(t) + 1 - id \in 1..Size(t) /\ f.i \in 1..Len(Fields(f.type)) + 1
      BY <3>4 DEF ActivationOK, At
    <3>8. f.fieldId < id
      BY <2>5, <3>3, <3>5, <3>7
    <3> QED
      BY <3>3, <3>6, <3>7, <3>8
  <2>7. arg.func \in Functions \union {NoArgument.func} /\ hasTrees \subseteq Functions
    BY <2>1 DEF ControlOK
  <2>8. connected \subseteq hasTrees \union Calls
    BY <2>1 DEF ControlOK
  <2>9. \A e \in deps : {e.from, e.to} \subseteq DOMAIN nodes
    BY <2>1 DEF EdgesOK
  <2> QED
    BY <2>2, <2>3, <2>4, <2>5, <2>6, <2>7, <2>8, <2>9 DEF TypeOK
<1> QED
  BY <1>1, InvariantHolds, PTL

\* The links of every tree agree, and the iterator meets every node once, while
\* a tree is built (lines 20 to 98), after it is copied and when it is connected.
THEOREM TreesStayConsistent == Spec => []TreesConsistent
<1>1. ASSUME IInv PROVE TreesConsistent
  <2>1. \A key \in Keys : trees[key] = EmptyTree \/ IsTree(trees[key])
    BY <1>1 DEF IInv, StoreOK
  <2> QED
    BY <2>1, TreeFacts, EmptyIsConsistent DEF TreesConsistent
<1> QED
  BY <1>1, InvariantHolds, PTL

\* A finished formal tree is the unfolding of the argument's type: no field is
\* left out or put below another node than its own (lines 20 to 98).
THEOREM FormalTreesAreUnfoldings == Spec => []FormalTreesUnfoldTypes
<1>1. ASSUME IInv PROVE FormalTreesUnfoldTypes
  <2>1. ASSUME NEW func \in Functions, NEW pos \in Positions(func), Complete(func, pos),
               NEW t, t = TreeOf(func, pos, "FORMAL_IN")
        PROVE  /\ FieldType(t, Begin(t)) = prog.args[func][pos]
               /\ \A n \in Members(t) :
                     [k \in DOMAIN Children(t, n) |-> FieldType(t, Children(t, n)[k])]
                        = IF Continues(TypePath(t, n)) THEN Fields(FieldType(t, n)) ELSE <<>>
    <3>1. /\ IsTree(t) /\ NodeType(nodes, t, 1) = prog.args[func][pos]
          /\ \A n \in 1..Size(t) : Unfolding(nodes, t, n)
      BY <1>1, <2>1 DEF IInv, FormalsOK, Finished, CopyLike, TreeOf
    <3>2. Begin(t) = 1 /\ Members(t) = 1..Size(t)
      BY <3>1, TreeFacts
    <3>3. \A n : FieldType(t, n) = NodeType(nodes, t, n)
      BY DEF FieldType, NodeType
    <3>4. \A n : TypePath(t, n) = PathOf(nodes, t, n)
      BY DEF TypePath, PathOf, FieldType, NodeType
    <3>5. ASSUME NEW n \in Members(t)
          PROVE  [k \in DOMAIN Children(t, n) |-> FieldType(t, Children(t, n)[k])]
                    = IF Continues(TypePath(t, n)) THEN Fields(FieldType(t, n)) ELSE <<>>
      <4>1. Unfolding(nodes, t, n)
        BY <3>1, <3>2
      <4>2. [k \in DOMAIN Children(t, n) |-> FieldType(t, Children(t, n)[k])] = FieldTypes(nodes, t, n)
        BY DEF FieldTypes, FieldType, NodeType
      <4> QED
        BY <3>3, <3>4, <4>1, <4>2 DEF Unfolding
    <3> QED
      BY <3>1, <3>2, <3>3, <3>5
  <2>2. \A func, pos : (func \in hasTrees \/ (arg.func = func /\ pos < arg.pos)) <=> Complete(func, pos)
    BY DEF Complete
  <2> QED
    BY <2>1, <2>2 DEF FormalTreesUnfoldTypes
<1> QED
  BY <1>1, InvariantHolds, PTL

\* Edges between trees join nodes at the same place, and no wrapper stands at two
\* places: copyTree leaves none of its source behind (FunctionWrapper.h lines 92
\* to 132).
THEOREM FieldsMeet == Spec => []FieldsMeetFields
<1>1. ASSUME IInv PROVE FieldsMeetFields
  <2> SUFFICES ASSUME NEW e \in deps, e.type = "PARAMETER",
                      NEW a \in Holders(e.from), NEW b \in Holders(e.to)
               PROVE  SameField(a, b)
    BY DEF FieldsMeetFields
  <2>1. prog \in Programs /\ StoreOK(nodes, trees) /\ EdgesOK
    BY <1>1 DEF IInv, ControlOK
  <2>2. PICK k, n : k \in Keys /\ n \in Members(trees[k])
            /\ DataOf(trees, k, n) = e.from /\ a = [key |-> k, place |-> Place(trees[k], n)]
    BY DEF Holders, DataOf
  <2>3. PICK l, m : l \in Keys /\ m \in Members(trees[l])
            /\ DataOf(trees, l, m) = e.to /\ b = [key |-> l, place |-> Place(trees[l], m)]
    BY DEF Holders, DataOf
  <2>4. e.from \notin 1..Len(prog.wrappers)
    <3>1. DataOf(trees, k, n) \in Len(prog.wrappers) + 1..Len(nodes) /\ Len(prog.wrappers) \in Nat
      BY <2>1, <2>2, ProgramFacts DEF StoreOK
    <3> QED
      BY <2>2, <3>1
  <2>5. FieldEdge(e)
    BY <2>1, <2>4 DEF EdgesOK
  <2>6. \A c, d \in Keys : \A i \in Members(trees[c]), j \in Members(trees[d]) :
            DataOf(trees, c, i) = DataOf(trees, d, j) => c = d /\ i = j
    BY <2>1 DEF StoreOK
  <2> QED
    BY <2>2, <2>3, <2>5, <2>6 DEF FieldEdge
<1> QED
  BY <1>1, InvariantHolds, PTL

\* Once call and callee are connected, every field that is passed has a path by
\* the callee's formal trees back to a field of the same type: the iterators that
\* are advanced together end together.
THEOREM PassedFieldsDoReturn == Spec => []PassedFieldsReturn
<1>1. ASSUME IInv PROVE PassedFieldsReturn
  <2> SUFFICES ASSUME NEW call \in Calls, {call, Callee(call)} \subseteq connected,
                      NEW pos \in Positions(call),
                      NEW w \in WrappersIn(TreeOf(call, pos, "ACTUAL_IN"))
               PROVE  \E fi \in WrappersIn(TreeOf(Callee(call), pos, "FORMAL_IN")),
                         fo \in WrappersIn(TreeOf(Callee(call), pos, "FORMAL_OUT")),
                         ao \in WrappersIn(TreeOf(call, pos, "ACTUAL_OUT")) :
                          /\ {Edge(w, fi, "PARAMETER"), Edge(fi, fo, "PARAMETER"),
                              Edge(fo, ao, "PARAMETER")} \subseteq deps
                          /\ nodes[ao].type = nodes[w].type
    BY DEF PassedFieldsReturn
  <2>1. prog \in Programs /\ ControlOK /\ ActualsOK /\ LinkedOK
    BY <1>1 DEF IInv, ControlOK
  <2>2. PICK func : func = Callee(call) /\ func \in Functions /\ func \in hasTrees /\ func \in connected
                    /\ pos \in Positions(func) /\ builds[call] > 0
    <3>1. Callee(call) \in Functions /\ pos \in Positions(Callee(call))
      BY <2>1, ProgramFacts
    <3>2. builds[call] > 0 /\ Callee(call) \in hasTrees
      BY <2>1, ConnectedFacts
    <3> QED
      BY <3>1, <3>2
  <2>3. PICK ai, fi, fo, ao : /\ ai = <<call, pos, "ACTUAL_IN">> /\ fi = <<func, pos, "FORMAL_IN">>
                              /\ fo = <<func, pos, "FORMAL_OUT">> /\ ao = <<call, pos, "ACTUAL_OUT">>
    OBVIOUS
  <2>4. Alike(nodes, trees, ai, fi) /\ Alike(nodes, trees, fi, fo) /\ Alike(nodes, trees, fo, ao)
    BY <1>1, <2>2, <2>3, TreesAreAlike
  <2>5. /\ Lockstep(trees[ai], trees[fi]) \subseteq deps
        /\ Lockstep(trees[fi], trees[fo]) \subseteq deps
        /\ Lockstep(trees[fo], trees[ao]) \subseteq deps
    BY <2>1, <2>2, <2>3 DEF LinkedOK, TreeOf
  <2>6. PICK N : N = Size(trees[ai])
    OBVIOUS
  <2>7. \A key \in {ai, fi, fo, ao} : IsTree(trees[key]) /\ DOMAIN PreOrder(trees[key]) = 1..N
    <3>1. \A key \in {ai, fi, fo, ao} : IsTree(trees[key]) /\ Size(trees[key]) = N
      BY <2>4, <2>6 DEF Alike
    <3> QED
      BY <3>1, TreeFacts
  <2> DEFINE D(key, k) == trees[key][PreOrder(trees[key])[k]].data
  <2>8. PICK k \in 1..N : w = D(ai, k)
    BY <2>2, <2>3, <2>7 DEF WrappersIn, TreeOf, Data, ToSet
  <2>9. \A key \in {ai, fi, fo, ao} : D(key, k) \in WrappersIn(trees[key])
    BY <2>7 DEF WrappersIn, Data, ToSet
  <2>10. /\ Edge(w, D(fi, k), "PARAMETER") \in Lockstep(trees[ai], trees[fi])
         /\ Edge(D(fi, k), D(fo, k), "PARAMETER") \in Lockstep(trees[fi], trees[fo])
         /\ Edge(D(fo, k), D(ao, k), "PARAMETER") \in Lockstep(trees[fo], trees[ao])
    BY <2>7, <2>8 DEF Lockstep, Data
  <2>11. nodes[D(ao, k)].type = nodes[D(ai, k)].type
    <3>1. Alike(nodes, trees, ai, ao)
      BY <2>4, AlikeTransfers
    <3> QED
      BY <2>6, <3>1 DEF Alike, NodeType
  <2> HIDE DEF D
  <2>12. /\ D(fi, k) \in WrappersIn(TreeOf(Callee(call), pos, "FORMAL_IN"))
         /\ D(fo, k) \in WrappersIn(TreeOf(Callee(call), pos, "FORMAL_OUT"))
         /\ D(ao, k) \in WrappersIn(TreeOf(call, pos, "ACTUAL_OUT"))
    BY <2>2, <2>3, <2>9 DEF TreeOf
  <2>13. {Edge(w, D(fi, k), "PARAMETER"), Edge(D(fi, k), D(fo, k), "PARAMETER"),
          Edge(D(fo, k), D(ao, k), "PARAMETER")} \subseteq deps
    BY <2>5, <2>10
  <2> QED
    BY <2>8, <2>11, <2>12, <2>13
<1> QED
  BY <1>1, InvariantHolds, PTL
=============================================================================
