----------------------- MODULE DataDependenciesProofs -----------------------
(***************************************************************************)
(* Proofs about the data dependence pass, for every function, every answer   *)
(* of the alias analysis and every number of runs.                           *)
(***************************************************************************)
EXTENDS DataDependencies, DependencyGraphsProofs

LinkTypes == {"DATA_RAW", "DATA_DEF_USE"}
NodeData == Insts \union {NoInst}

-----------------------------------------------------------------------------
(***************************************************************************)
(* The inductive invariant, in parts.                                        *)
(***************************************************************************)
ProgOK == prog \in Programs

GraphOK == IsGraph(ddg, NodeData, LinkTypes)

\* what the code chooses for a load: the nearest store in reach, on whichever side
\* of the load, and of equally near ones the first
IsBest(l, s) ==
    IF Near(l) = {} THEN s = NoInst
    ELSE /\ s \in Near(l)
         /\ \A t \in Near(l) \ {s} :
               Diff(s, l) < Diff(t, l) \/ (Diff(s, l) = Diff(t, l) /\ Before(s, t))

\* flowDeps holds the stores found so far, in the order of the function
Bound == IF pc = "collect" THEN i ELSE Len(prog.order) + 1
FlowDepsOK ==
    pc \in {"collect", "compare"} =>
        /\ \A j \in DOMAIN flowDeps :
              /\ FlowsTo(flowDeps[j])
              /\ \E k \in DOMAIN prog.order : k < Bound /\ prog.order[k] = flowDeps[j]
        /\ \A k \in DOMAIN prog.order :
              k < Bound /\ FlowsTo(prog.order[k]) =>
                  \E j \in DOMAIN flowDeps : flowDeps[j] = prog.order[k]
        /\ \A j, k \in DOMAIN flowDeps : j < k => Before(flowDeps[j], flowDeps[k])

\* the loads that are still to be visited have no nearest store yet
Unvisited(k) == IF pc \in {"visit", "collect"} THEN k >= pos ELSE k > pos
FreshLoads ==
    pass > 0 =>
        \A k \in DOMAIN prog.order :
            Unvisited(k) /\ prog.order[k] \in prog.loads
                => loadLoc[prog.order[k]] = MaxLocNum

\* no link is wrong
Sound ==
    \A e \in LinksOf(ddg) :
        /\ e[3] = "DATA_RAW" => e[2] \in prog.loads /\ IsBest(e[2], e[1])
        /\ e[3] = "DATA_DEF_USE" => e[1] \in ToSet(prog.operands[e[2]])

\* what the graph has of an instruction
HasNode(n) == n \in DOMAIN ddg.links
HasFlow(n) == n \in prog.loads => \E s \in NodeData : <<s, n, "DATA_RAW">> \in LinksOf(ddg)
HasOperand(n, j) == <<prog.operands[n][j], n, "DATA_DEF_USE">> \in LinksOf(ddg)
Complete(n) ==
    HasNode(n) /\ HasFlow(n) /\ \A j \in DOMAIN prog.operands[n] : HasOperand(n, j)

\* every instruction before pos is complete, and after the first run all are
Progress ==
    /\ \A k \in DOMAIN prog.order :
          pass > 1 \/ (pass = 1 /\ k < pos) => Complete(prog.order[k])
    /\ pc \in {"collect", "compare", "operands"} => HasNode(Inst)
    /\ pc = "operands" =>
          /\ HasFlow(Inst)
          /\ \A j \in DOMAIN prog.operands[Inst] : j < i => HasOperand(Inst, j)
    /\ pc \in {"start", "done"} /\ pass > 0 => pos > Len(prog.order)

PassesLeft == pc = "start" => pass < Passes
TypeInv == ProgOK /\ TypeOK /\ PassesLeft
IInv == TypeInv /\ GraphOK /\ FreshLoads /\ FlowDepsOK /\ CandidateIsNearest /\ Sound /\ Progress

-----------------------------------------------------------------------------
(***************************************************************************)
(* The program.                                                             *)
(***************************************************************************)

\* What is assumed of the program at hand.
LEMMA ProgramFacts ==
    ASSUME ProgOK
    PROVE  /\ prog.order \in Seq(Insts)
           /\ prog.loads \subseteq Insts /\ prog.stores \subseteq Insts
           /\ prog.line \in [Insts -> Nat]
           /\ prog.operands \in [Insts -> Seq(Insts)]
           /\ IsInjective(prog.order)
           /\ prog.loads \union prog.stores \subseteq ToSet(prog.order)
BY ProgramsAssumption DEF ProgOK, ProgramType

\* An instruction of the program.
LEMMA InstType ==
    ASSUME ProgOK, NEW k \in DOMAIN prog.order
    PROVE  prog.order[k] \in Insts /\ k \in Nat /\ k > 0
<1>1. prog.order \in Seq(Insts)
  BY ProgramFacts
<1> QED
  BY <1>1

\* The distance of two lines is a natural number.
LEMMA DiffType ==
    ASSUME ProgOK, NEW a \in Insts, NEW b \in Insts
    PROVE  Diff(a, b) \in Nat
<1>1. prog.line[a] \in Nat /\ prog.line[b] \in Nat
  BY ProgramFacts
<1> QED
  BY <1>1 DEF Diff

\* An instruction occurs once, so it is not before and after another.
LEMMA BeforeAntisymmetric ==
    ASSUME ProgOK, NEW s, NEW t, Before(s, t)
    PROVE  ~Before(t, s) /\ s # t
<1>1. PICK a \in DOMAIN prog.order, b \in DOMAIN prog.order :
         a < b /\ prog.order[a] = s /\ prog.order[b] = t
  BY DEF Before
<1>2. \A x, y \in DOMAIN prog.order : prog.order[x] = prog.order[y] => x = y
  BY ProgramFacts DEF IsInjective
<1>3. \A x \in DOMAIN prog.order : x \in Nat
  BY InstType
<1> QED
  BY <1>1, <1>2, <1>3 DEF Before

\* There is one best store.
LEMMA BestUnique ==
    ASSUME ProgOK, NEW l \in prog.loads, NEW s, NEW t, IsBest(l, s), IsBest(l, t)
    PROVE  s = t
<1>1. CASE Near(l) = {}
  BY <1>1 DEF IsBest
<1>2. CASE Near(l) # {}
  <2> SUFFICES ASSUME s # t PROVE FALSE
    OBVIOUS
  <2>1. s \in Near(l) /\ t \in Near(l) /\ s \in Insts /\ t \in Insts /\ l \in Insts
    BY <1>2, ProgramFacts DEF IsBest, Near
  <2>2. Diff(s, l) \in Nat /\ Diff(t, l) \in Nat
    BY <2>1, DiffType
  <2>3. /\ Diff(s, l) < Diff(t, l) \/ (Diff(s, l) = Diff(t, l) /\ Before(s, t))
        /\ Diff(t, l) < Diff(s, l) \/ (Diff(t, l) = Diff(s, l) /\ Before(t, s))
    BY <1>2, <2>1 DEF IsBest
  <2>4. Before(s, t) /\ Before(t, s)
    BY <2>2, <2>3
  <2> QED
    BY <2>4, BeforeAntisymmetric
<1> QED
  BY <1>1, <1>2

-----------------------------------------------------------------------------
(***************************************************************************)
(* Type correctness.                                                        *)
(***************************************************************************)

LEMMA TypeInit == Init => TypeInv
<1> SUFFICES ASSUME Init PROVE TypeInv
  OBVIOUS
<1>1. <<>> \in Seq(prog.stores) /\ DOMAIN loadLoc = {}
  BY DEF Init
<1>2. Passes \in Nat \ {0}
  BY ConstantsAssumption
<1> QED
  BY <1>1, <1>2 DEF Init, TypeInv, ProgOK, TypeOK, PassesLeft

\* Every step of the pass keeps the types.
LEMMA TypeStep == TypeInv /\ [Next]_vars => TypeInv'
<1> SUFFICES ASSUME TypeInv, [Next]_vars PROVE TypeInv'
  OBVIOUS
<1>1. /\ Passes \in Nat \ {0} /\ MaxLocNum \in Nat
      /\ pass \in Nat /\ pos \in Nat \ {0} /\ i \in Nat \ {0}
      /\ prog.order \in Seq(Insts)
  BY ConstantsAssumption, ProgramFacts DEF TypeInv, TypeOK
<1>2. prog' = prog
  BY DEF Next, vars, StartPass, VisitOther, VisitLoad, Collect, Collected, Compare, LinkLoad,
         LinkOperand, NextInst, EndPass
<1>3. ProgOK'
  BY <1>2 DEF TypeInv, ProgOK
<1>4. TypeOK' /\ PassesLeft'
  <2> USE DEF TypeInv, TypeOK, PassesLeft
  <2>1. CASE StartPass
    BY <1>1, <1>2, <2>1 DEF StartPass, ResetLoads
  <2>2. CASE VisitOther
    BY <1>1, <1>2, <2>2 DEF VisitOther, Inst
  <2>3. CASE VisitLoad
    <3>1. <<>> \in Seq(prog.stores)
      OBVIOUS
    <3> QED
      BY <1>1, <1>2, <2>3, <3>1 DEF VisitLoad, Inst
  <2>4. CASE Collect
    <3> DEFINE s == prog.order[i]
    <3>1. flowDeps' = IF FlowsTo(s) THEN Append(flowDeps, s) ELSE flowDeps
      BY <2>4 DEF Collect
    <3>2. FlowsTo(s) => s \in prog.stores
      BY DEF FlowsTo
    <3>3. flowDeps' \in Seq(prog.stores)
      <4>1. flowDeps \in Seq(prog.stores)
        OBVIOUS
      <4>2. CASE FlowsTo(s)
        <5>1. flowDeps' = Append(flowDeps, s) /\ s \in prog.stores
          BY <3>1, <3>2, <4>2
        <5> HIDE DEF s
        <5> QED
          BY <4>1, <5>1
      <4>3. CASE ~FlowsTo(s)
        BY <3>1, <4>1, <4>3
      <4> QED
        BY <4>2, <4>3
    <3> QED
      BY <1>1, <1>2, <2>4, <3>3 DEF Collect, Inst
  <2>5. CASE Collected
    BY <1>1, <1>2, <2>5 DEF Collected, FirstCandidate, Inst
  <2>6. CASE Compare
    <3>1. flowDeps[i] \in prog.stores /\ Inst \in prog.loads
      BY <2>6 DEF Compare
    <3>2. Diff(flowDeps[i], Inst) \in Nat
      BY <3>1, ProgramFacts, DiffType
    <3>3. DOMAIN loadLoc = prog.loads /\ loadLoc[Inst] \in 0..MaxLocNum
      BY <1>1, <2>6, <3>1 DEF Compare
    <3>4. /\ candidate' \in prog.stores \union {NoInst}
          /\ DOMAIN loadLoc' = prog.loads
          /\ \A l \in DOMAIN loadLoc' : loadLoc'[l] \in 0..MaxLocNum
      BY <1>1, <2>6, <3>1, <3>2, <3>3 DEF Compare, Nearer
    <3>5. i' \in Nat \ {0} /\ pc' = "compare" /\ pass' # 0
      BY <1>1, <2>6 DEF Compare, NextIndex
    <3> QED
      BY <1>1, <1>2, <2>6, <3>4, <3>5 DEF Compare, Inst
  <2>7. CASE LinkLoad
    BY <1>1, <1>2, <2>7 DEF LinkLoad, Inst
  <2>8. CASE LinkOperand
    BY <1>1, <1>2, <2>8 DEF LinkOperand, Inst
  <2>9. CASE NextInst
    BY <1>1, <1>2, <2>9 DEF NextInst, Inst
  <2>10. CASE EndPass
    BY <1>1, <1>2, <2>10 DEF EndPass, LastPass, Inst
  <2>11. CASE UNCHANGED vars
    BY <2>11 DEF vars, Inst
  <2> QED
    BY <2>1, <2>2, <2>3, <2>4, <2>5, <2>6, <2>7, <2>8, <2>9, <2>10, <2>11 DEF Next
<1> QED
  BY <1>3, <1>4 DEF TypeInv

-----------------------------------------------------------------------------
(***************************************************************************)
(* The choice of the nearest store.                                          *)
(***************************************************************************)

\* No load ahead of the one at hand has a recorded distance.
LEMMA FreshStep == TypeInv /\ FreshLoads /\ [Next]_vars => FreshLoads'
<1> SUFFICES ASSUME TypeInv, FreshLoads, [Next]_vars,
                    pass' > 0, NEW k \in DOMAIN prog'.order,
                    Unvisited(k)', prog'.order[k] \in prog'.loads
             PROVE  loadLoc'[prog'.order[k]] = MaxLocNum
  BY DEF FreshLoads
<1>1. prog.order \in Seq(Insts) /\ pos \in Nat /\ pass \in Nat /\ k \in Nat
      /\ \A x, y \in DOMAIN prog.order : prog.order[x] = prog.order[y] => x = y
  <2>1. prog' = prog
    BY DEF Next, vars, StartPass, VisitOther, VisitLoad, Collect, Collected, Compare, LinkLoad,
           LinkOperand, NextInst, EndPass
  <2> QED
    BY <2>1, ProgramFacts, InstType DEF TypeInv, TypeOK, IsInjective
<1> USE DEF FreshLoads, Unvisited
<1>2. CASE StartPass
  BY <1>1, <1>2 DEF StartPass, ResetLoads
<1>3. CASE VisitOther
  BY <1>1, <1>3 DEF VisitOther
<1>4. CASE VisitLoad
  BY <1>1, <1>4 DEF VisitLoad
<1>5. CASE Collect
  BY <1>1, <1>5 DEF Collect
<1>6. CASE Collected
  BY <1>1, <1>6 DEF Collected
<1>7. CASE Compare
  <2>1. k > pos /\ pos \in DOMAIN prog.order /\ prog' = prog /\ pass' = pass
    BY <1>7 DEF Compare, TypeInv, TypeOK
  <2>2. prog.order[k] # Inst
    BY <1>1, <2>1 DEF Inst
  <2>3. loadLoc'[prog.order[k]] = loadLoc[prog.order[k]]
    BY <1>7, <2>1, <2>2 DEF Compare, TypeInv, TypeOK
  <2> QED
    BY <1>1, <1>7, <2>1, <2>3 DEF Compare
<1>8. CASE LinkLoad
  BY <1>1, <1>8 DEF LinkLoad
<1>9. CASE LinkOperand
  BY <1>1, <1>9 DEF LinkOperand
<1>10. CASE NextInst
  BY <1>1, <1>10 DEF NextInst
<1>11. CASE EndPass
  BY <1>1, <1>11 DEF EndPass
<1>12. CASE UNCHANGED vars
  BY <1>1, <1>12 DEF vars
<1> QED
  BY <1>2, <1>3, <1>4, <1>5, <1>6, <1>7, <1>8, <1>9, <1>10, <1>11, <1>12 DEF Next

\* The candidate stays the first of the nearest stores compared so far.
LEMMA NearestStep ==
    TypeInv /\ FreshLoads /\ CandidateIsNearest /\ [Next]_vars => CandidateIsNearest'
<1> SUFFICES ASSUME TypeInv, FreshLoads, CandidateIsNearest, [Next]_vars, pc' = "compare"
             PROVE  CandidateIsNearest'
  BY DEF CandidateIsNearest
<1>1. /\ prog' = prog /\ pos' = pos /\ flowDeps' = flowDeps /\ Inst' = Inst
      /\ Collected \/ Compare \/ UNCHANGED vars
  BY DEF Next, vars, StartPass, VisitOther, VisitLoad, Collect, Collected, Compare, LinkLoad,
         LinkOperand, NextInst, EndPass, Inst, TypeInv, TypeOK
<1>2. \A j \in DOMAIN flowDeps : j \in Nat /\ j > 0 /\ flowDeps[j] \in prog.stores
  BY DEF TypeInv, TypeOK
<1>3. Inst \in prog.loads /\ Inst \in Insts
  BY <1>1, ProgramFacts DEF TypeInv, TypeOK, Collected, Compare, vars
<1>4. \A j \in DOMAIN flowDeps : Diff(flowDeps[j], Inst) \in Nat
  BY <1>2, <1>3, ProgramFacts, DiffType DEF TypeInv
<1>5. \A a, b : Diff(a, b)' = Diff(a, b)
  BY <1>1 DEF Diff
<1>6. CASE Collected
  <2>1. i' = 1 /\ candidate' = NoInst /\ loadLoc' = loadLoc
    BY <1>6 DEF Collected, FirstCandidate
  <2>2. loadLoc[Inst] = MaxLocNum
    BY <1>3, <1>6 DEF Collected, FreshLoads, Unvisited, Inst, TypeInv, TypeOK
  <2>3. {j \in DOMAIN flowDeps : j < 1 /\ Diff(flowDeps[j], Inst) < MaxLocNum} = {}
    BY <1>2
  <2> QED
    BY <1>1, <1>5, <2>1, <2>2, <2>3 DEF CandidateIsNearest
<1>7. CASE Compare
  <2> DEFINE near == {j \in DOMAIN flowDeps : j < i /\ Diff(flowDeps[j], Inst) < MaxLocNum}
             d == Diff(flowDeps[i], Inst)
             more == {j \in DOMAIN flowDeps : j < i + 1 /\ Diff(flowDeps[j], Inst) < MaxLocNum}
  <2>1. /\ pc = "compare" /\ i \in DOMAIN flowDeps /\ i' = i + 1 /\ i \in Nat
        /\ IF loadLoc[Inst] > d THEN loadLoc' = [loadLoc EXCEPT ![Inst] = d] /\ candidate' = flowDeps[i]
                                ELSE loadLoc' = loadLoc /\ candidate' = candidate
    BY <1>7 DEF Compare, NextIndex, Nearer, TypeInv, TypeOK
  <2>2. Inst \in DOMAIN loadLoc /\ loadLoc[Inst] \in 0..MaxLocNum /\ MaxLocNum \in Nat /\ d \in Nat
    BY <1>3, <1>4, <2>1, ConstantsAssumption DEF TypeInv, TypeOK
  <2>3. IF near = {} THEN candidate = NoInst /\ loadLoc[Inst] = MaxLocNum
        ELSE \E j \in near :
                /\ candidate = flowDeps[j]
                /\ loadLoc[Inst] = Diff(candidate, Inst)
                /\ \A k \in near :
                      /\ Diff(flowDeps[k], Inst) >= loadLoc[Inst]
                      /\ k < j => Diff(flowDeps[k], Inst) > loadLoc[Inst]
    BY <2>1 DEF CandidateIsNearest
  <2>4. more = near \union (IF d < MaxLocNum THEN {i} ELSE {})
    BY <1>2, <2>1
  <2>5. \A k \in near : k \in DOMAIN flowDeps /\ k < i /\ k \in Nat
                        /\ Diff(flowDeps[k], Inst) \in Nat /\ Diff(flowDeps[k], Inst) < MaxLocNum
    BY <1>2, <1>4
  <2>6. IF more = {} THEN candidate' = NoInst /\ loadLoc'[Inst] = MaxLocNum
        ELSE \E j \in more :
                /\ candidate' = flowDeps[j]
                /\ loadLoc'[Inst] = Diff(candidate', Inst)
                /\ \A k \in more :
                      /\ Diff(flowDeps[k], Inst) >= loadLoc'[Inst]
                      /\ k < j => Diff(flowDeps[k], Inst) > loadLoc'[Inst]
    <3> HIDE DEF near, more
    <3>1. CASE loadLoc[Inst] > d
      <4>1. loadLoc'[Inst] = d /\ candidate' = flowDeps[i] /\ i \in more
        BY <2>1, <2>2, <2>4, <3>1
      <4>2. \A k \in near : Diff(flowDeps[k], Inst) > d
        BY <2>2, <2>3, <2>5, <3>1
      <4>3. \A k \in more : Diff(flowDeps[k], Inst) >= d
                            /\ (k < i => Diff(flowDeps[k], Inst) > d)
        BY <2>1, <2>2, <2>4, <2>5, <4>2
      <4> QED
        BY <4>1, <4>3
    <3>2. CASE ~(loadLoc[Inst] > d)
      <4>1. loadLoc' = loadLoc /\ candidate' = candidate
        BY <2>1, <3>2
      <4>2. CASE near = {}
        <5>1. more = {}
          BY <2>2, <2>3, <2>4, <3>2, <4>2
        <5> QED
          BY <2>3, <4>1, <4>2, <5>1
      <4>3. CASE near # {}
        <5>1. PICK j \in near :
                 /\ candidate = flowDeps[j]
                 /\ loadLoc[Inst] = Diff(candidate, Inst)
                 /\ \A k \in near :
                       /\ Diff(flowDeps[k], Inst) >= loadLoc[Inst]
                       /\ k < j => Diff(flowDeps[k], Inst) > loadLoc[Inst]
          BY <2>3, <4>3
        <5>2. j \in more /\ \A k \in more : k \in near \/ (k = i /\ ~(i < j))
          BY <2>1, <2>4, <2>5
        <5>3. \A k \in more :
                 /\ Diff(flowDeps[k], Inst) >= loadLoc[Inst]
                 /\ k < j => Diff(flowDeps[k], Inst) > loadLoc[Inst]
          BY <2>2, <3>2, <5>1, <5>2
        <5> QED
          BY <4>1, <5>1, <5>2, <5>3
      <4> QED
        BY <4>2, <4>3
    <3> QED
      BY <3>1, <3>2
  <2> QED
    BY <1>1, <1>5, <2>1, <2>6 DEF CandidateIsNearest
<1>8. CASE UNCHANGED vars
  BY <1>8 DEF vars, CandidateIsNearest, Inst, Diff
<1> QED
  BY <1>1, <1>6, <1>7, <1>8

-----------------------------------------------------------------------------
(***************************************************************************)
(* The collected stores.                                                    *)
(***************************************************************************)

\* The list of stores stays complete up to the position reached, and in order.
LEMMA FlowDepsStep == TypeInv /\ FlowDepsOK /\ [Next]_vars => FlowDepsOK'
<1> SUFFICES ASSUME TypeInv, FlowDepsOK, [Next]_vars, pc' \in {"collect", "compare"}
             PROVE  FlowDepsOK'
  BY DEF FlowDepsOK
<1>1. /\ prog' = prog /\ pos' = pos /\ Inst' = Inst
      /\ VisitLoad \/ Collect \/ Collected \/ Compare \/ UNCHANGED vars
  BY DEF Next, vars, StartPass, VisitOther, VisitLoad, Collect, Collected, Compare, LinkLoad,
         LinkOperand, NextInst, EndPass, Inst, TypeInv, TypeOK
<1>2. /\ \A s : FlowsTo(s)' <=> FlowsTo(s)
      /\ \A s, t : Before(s, t)' <=> Before(s, t)
  BY <1>1 DEF FlowsTo, Before
<1>3. /\ prog.order \in Seq(Insts) /\ Len(prog.order) \in Nat /\ DOMAIN prog.order = 1..Len(prog.order)
      /\ flowDeps \in Seq(prog.stores) /\ i \in Nat \ {0}
  BY ProgramFacts DEF TypeInv, TypeOK
<1>4. CASE VisitLoad
  <2>1. flowDeps' = <<>> /\ i' = 1 /\ pc' = "collect"
    BY <1>4 DEF VisitLoad
  <2>2. DOMAIN flowDeps' = {} /\ \A k \in DOMAIN prog.order : ~(k < 1)
    BY <1>3, <2>1
  <2> QED
    BY <1>1, <2>1, <2>2 DEF FlowDepsOK, Bound
<1>5. CASE Collect
  <2> DEFINE s == prog.order[i]
             n == Len(flowDeps)
  <2>1. /\ pc = "collect" /\ pc' = "collect" /\ i' = i + 1 /\ i \in DOMAIN prog.order
        /\ flowDeps' = IF FlowsTo(s) THEN Append(flowDeps, s) ELSE flowDeps
    BY <1>5 DEF Collect
  <2>2. /\ \A j \in DOMAIN flowDeps :
              FlowsTo(flowDeps[j]) /\ \E k \in DOMAIN prog.order : k < i /\ prog.order[k] = flowDeps[j]
        /\ \A k \in DOMAIN prog.order :
              k < i /\ FlowsTo(prog.order[k]) => \E j \in DOMAIN flowDeps : flowDeps[j] = prog.order[k]
        /\ \A j, k \in DOMAIN flowDeps : j < k => Before(flowDeps[j], flowDeps[k])
    BY <2>1 DEF FlowDepsOK, Bound
  <2>3. \A k \in DOMAIN prog.order : k < i + 1 <=> k < i \/ k = i
    BY <1>3, <2>1
  <2>4. /\ \A j \in DOMAIN flowDeps' :
              /\ FlowsTo(flowDeps'[j])
              /\ \E k \in DOMAIN prog.order : k < i + 1 /\ prog.order[k] = flowDeps'[j]
        /\ \A k \in DOMAIN prog.order :
              k < i + 1 /\ FlowsTo(prog.order[k]) => \E j \in DOMAIN flowDeps' : flowDeps'[j] = prog.order[k]
        /\ \A j, k \in DOMAIN flowDeps' : j < k => Before(flowDeps'[j], flowDeps'[k])
    <3>1. CASE FlowsTo(s)
      <4>1. flowDeps' = Append(flowDeps, s)
        BY <2>1, <3>1
      <4> HIDE DEF s
      <4>2. /\ n \in Nat /\ DOMAIN flowDeps = 1..n /\ DOMAIN flowDeps' = 1..n + 1
            /\ \A j \in 1..n : flowDeps'[j] = flowDeps[j]
            /\ flowDeps'[n + 1] = s
        BY <1>3, <4>1
      <4> HIDE DEF n
      <4>3. \A j \in 1..n + 1 : j \in 1..n \/ j = n + 1
        BY <4>2
      <4>4. ASSUME NEW j \in 1..n PROVE Before(flowDeps[j], s)
        <5>1. PICK k \in DOMAIN prog.order : k < i /\ prog.order[k] = flowDeps[j]
          BY <2>2, <4>2
        <5> QED
          BY <2>1, <5>1 DEF Before, s
      <4>5. \A j \in DOMAIN flowDeps' :
               /\ FlowsTo(flowDeps'[j])
               /\ \E k \in DOMAIN prog.order : k < i + 1 /\ prog.order[k] = flowDeps'[j]
        BY <2>1, <2>2, <2>3, <3>1, <4>2, <4>3 DEF s
      <4>6. \A k \in DOMAIN prog.order :
               k < i + 1 /\ FlowsTo(prog.order[k]) => \E j \in DOMAIN flowDeps' : flowDeps'[j] = prog.order[k]
        <5>1. n + 1 \in DOMAIN flowDeps' /\ DOMAIN flowDeps \subseteq DOMAIN flowDeps'
          BY <4>2
        <5> QED
          BY <2>2, <2>3, <4>2, <5>1 DEF s
      <4>7. ASSUME NEW j \in DOMAIN flowDeps', NEW k \in DOMAIN flowDeps', j < k
            PROVE  Before(flowDeps'[j], flowDeps'[k])
        <5>1. j \in 1..n
          BY <4>2, <4>7
        <5>2. CASE k \in 1..n
          BY <2>2, <4>2, <4>7, <5>1, <5>2
        <5>3. CASE k = n + 1
          BY <4>2, <4>4, <5>1, <5>3
        <5> QED
          BY <4>2, <4>3, <5>2, <5>3
      <4> QED
        BY <4>5, <4>6, <4>7
    <3>2. CASE ~FlowsTo(s)
      <4>1. flowDeps' = flowDeps
        BY <2>1, <3>2
      <4> QED
        BY <2>2, <2>3, <3>2, <4>1
    <3> QED
      BY <3>1, <3>2
  <2> QED
    BY <1>1, <1>2, <2>1, <2>4 DEF FlowDepsOK, Bound
<1>6. CASE Collected
  <2>1. /\ pc = "collect" /\ pc' = "compare" /\ flowDeps' = flowDeps
        /\ \A k \in DOMAIN prog.order : k < i /\ k < Len(prog.order) + 1
    BY <1>3, <1>6 DEF Collected
  <2> QED
    BY <1>1, <1>2, <2>1 DEF FlowDepsOK, Bound
<1>7. CASE Compare
  <2>1. pc = "compare" /\ pc' = "compare" /\ flowDeps' = flowDeps
    BY <1>7 DEF Compare
  <2> QED
    BY <1>1, <1>2, <2>1 DEF FlowDepsOK, Bound
<1>8. CASE UNCHANGED vars
  <2>1. pc' = pc /\ flowDeps' = flowDeps /\ i' = i
    BY <1>8 DEF vars
  <2> QED
    BY <1>1, <1>2, <2>1 DEF FlowDepsOK, Bound
<1> QED
  BY <1>1, <1>4, <1>5, <1>6, <1>7, <1>8

\* When all stores were compared, the candidate is the best.
LEMMA CandidateIsBest ==
    ASSUME TypeInv, FlowDepsOK, CandidateIsNearest, pc = "compare", i \notin DOMAIN flowDeps
    PROVE  IsBest(Inst, candidate)
<1> DEFINE near == {j \in DOMAIN flowDeps : j < i /\ Diff(flowDeps[j], Inst) < MaxLocNum}
<1>1. Inst \in prog.loads /\ Inst \in Insts
  BY ProgramFacts DEF TypeInv, TypeOK
<1>2. \A j \in DOMAIN flowDeps : j \in Nat /\ j < i /\ flowDeps[j] \in prog.stores
  BY DEF TypeInv, TypeOK
<1>3. /\ \A j \in DOMAIN flowDeps : FlowsTo(flowDeps[j])
      /\ \A s : FlowsTo(s) => \E j \in DOMAIN flowDeps : flowDeps[j] = s
  <2>1. \A s \in prog.stores : \E k \in DOMAIN prog.order : prog.order[k] = s
    BY ProgramFacts DEF ToSet, TypeInv
  <2>2. \A k \in DOMAIN prog.order : k < Len(prog.order) + 1
    BY ProgramFacts DEF TypeInv
  <2> QED
    BY <2>1, <2>2 DEF FlowDepsOK, Bound, FlowsTo
<1>4. Near(Inst) = {flowDeps[j] : j \in near}
  BY <1>2, <1>3 DEF Near, FlowsTo
<1>5. CASE near = {}
  BY <1>4, <1>5 DEF IsBest, CandidateIsNearest
<1>6. CASE near # {}
  <2>1. PICK j \in near :
           /\ candidate = flowDeps[j]
           /\ loadLoc[Inst] = Diff(candidate, Inst)
           /\ \A k \in near :
                 /\ Diff(flowDeps[k], Inst) >= loadLoc[Inst]
                 /\ k < j => Diff(flowDeps[k], Inst) > loadLoc[Inst]
    BY <1>6 DEF CandidateIsNearest
  <2>2. ASSUME NEW t \in Near(Inst) \ {candidate}
        PROVE  Diff(candidate, Inst) < Diff(t, Inst)
               \/ (Diff(candidate, Inst) = Diff(t, Inst) /\ Before(candidate, t))
    <3>1. PICK k \in near : flowDeps[k] = t
      BY <1>4
    <3>2. Diff(t, Inst) \in Nat /\ Diff(candidate, Inst) \in Nat
      BY <1>1, <1>2, <2>1, <3>1, ProgramFacts, DiffType DEF TypeInv
    <3>3. k \in Nat /\ j \in Nat /\ k # j
      BY <1>2, <2>1, <3>1
    <3>4. CASE k < j
      BY <2>1, <3>1, <3>2, <3>4
    <3>5. CASE j < k
      <4>1. Before(candidate, t)
        BY <2>1, <3>1, <3>5 DEF FlowDepsOK
      <4> QED
        BY <2>1, <3>1, <3>2, <4>1
    <3> QED
      BY <3>3, <3>4, <3>5
  <2>3. candidate \in Near(Inst)
    BY <1>4, <2>1
  <2> QED
    BY <2>2, <2>3 DEF IsBest
<1> QED
  BY <1>5, <1>6

-----------------------------------------------------------------------------
(***************************************************************************)
(* The graph.                                                               *)
(***************************************************************************)
Operand == prog.operands[Inst][i]

Grows ==
    /\ DOMAIN ddg.links \subseteq DOMAIN ddg'.links
    /\ LinksOf(ddg) \subseteq LinksOf(ddg')

\* What a step does to the graph.
GraphEffect ==
    /\ VisitOther \/ VisitLoad => LinksOf(ddg') = LinksOf(ddg) /\ Inst \in DOMAIN ddg'.links
    /\ LinkLoad => LinksOf(ddg') = LinksOf(ddg) \union {<<candidate, Inst, "DATA_RAW">>}
    /\ LinkOperand => LinksOf(ddg') = LinksOf(ddg) \union {<<Operand, Inst, "DATA_DEF_USE">>}
    /\ ~(VisitOther \/ VisitLoad \/ LinkLoad \/ LinkOperand) => ddg' = ddg
    /\ Grows

\* The data of the nodes at hand.
LEMMA HandTypes ==
    ASSUME TypeInv, pc \in {"visit", "collect", "compare", "operands"}, pos \in DOMAIN prog.order
    PROVE  /\ Inst \in Insts /\ candidate \in NodeData /\ Inst \in NodeData
           /\ \A j \in DOMAIN prog.operands[Inst] : prog.operands[Inst][j] \in NodeData
<1>1. Inst \in Insts
  BY ProgramFacts DEF TypeInv, Inst
<1>2. candidate \in NodeData
  BY ProgramFacts DEF TypeInv, TypeOK, NodeData
<1>3. prog.operands[Inst] \in Seq(Insts)
  BY <1>1, ProgramFacts DEF TypeInv
<1> QED
  BY <1>1, <1>2, <1>3 DEF NodeData

\* Every step keeps a graph, and adds what its action says and nothing else.
LEMMA GraphStep ==
    ASSUME TypeInv, GraphOK, [Next]_vars
    PROVE  GraphOK' /\ GraphEffect
<1>1. NoData \notin NodeData
  BY ConstantsAssumption DEF NodeData
<1>2. CASE VisitOther \/ VisitLoad
  <2>1. /\ pc = "visit" /\ pos \in DOMAIN prog.order
        /\ ddg' = GetNodeByData(ddg, Inst)
    BY <1>2 DEF VisitOther, VisitLoad
  <2>2. IsGraph(ddg', NodeData, LinkTypes) /\ NodeAdded(ddg, Inst, ddg')
    BY <1>1, <2>1, HandTypes, GetNodeEffect DEF GraphOK
  <2>3. LinksOf(ddg') = LinksOf(ddg)
    BY <2>2, NodeKeepsLinks
  <2>4. ~LinkLoad /\ ~LinkOperand
    BY <2>1 DEF LinkLoad, LinkOperand
  <2> QED
    BY <1>2, <2>2, <2>3, <2>4 DEF GraphOK, GraphEffect, Grows, NodeAdded
<1>3. CASE LinkLoad
  <2>1. /\ pc = "compare" /\ pos \in DOMAIN prog.order
        /\ ddg' = AddDependency(ddg, candidate, Inst, "DATA_RAW")
    BY <1>3 DEF LinkLoad, TypeInv, TypeOK
  <2>2. /\ IsGraph(ddg', NodeData, LinkTypes)
        /\ LinkAdded(ddg, candidate, Inst, "DATA_RAW", ddg')
    <3>1. "DATA_RAW" \in LinkTypes /\ candidate \in NodeData /\ Inst \in NodeData
      BY <2>1, HandTypes DEF LinkTypes
    <3>2. IsGraph(ddg, NodeData, LinkTypes)
      BY DEF GraphOK
    <3> QED
      BY <1>1, <2>1, <3>1, <3>2, AddEffect
  <2>3. ~VisitOther /\ ~VisitLoad /\ ~LinkOperand
    BY <2>1 DEF VisitOther, VisitLoad, LinkOperand
  <2> QED
    BY <1>3, <2>2, <2>3 DEF GraphOK, GraphEffect, Grows, LinkAdded
<1>4. CASE LinkOperand
  <2>1. /\ pc = "operands" /\ pos \in DOMAIN prog.order
        /\ ddg' = AddDependency(ddg, Operand, Inst, "DATA_DEF_USE")
        /\ i \in DOMAIN prog.operands[Inst]
    BY <1>4 DEF LinkOperand, WithOperand, Operand, TypeInv, TypeOK
  <2>2. /\ IsGraph(ddg', NodeData, LinkTypes)
        /\ LinkAdded(ddg, Operand, Inst, "DATA_DEF_USE", ddg')
    <3>1. "DATA_DEF_USE" \in LinkTypes /\ Operand \in NodeData /\ Inst \in NodeData
      BY <2>1, HandTypes DEF LinkTypes, Operand
    <3>2. IsGraph(ddg, NodeData, LinkTypes)
      BY DEF GraphOK
    <3> QED
      BY <1>1, <2>1, <3>1, <3>2, AddEffect
  <2>3. ~VisitOther /\ ~VisitLoad /\ ~LinkLoad
    BY <2>1 DEF VisitOther, VisitLoad, LinkLoad
  <2> QED
    BY <1>4, <2>2, <2>3 DEF GraphOK, GraphEffect, Grows, LinkAdded
<1>5. CASE ~(VisitOther \/ VisitLoad \/ LinkLoad \/ LinkOperand)
  <2>1. ddg' = ddg
    BY <1>5 DEF Next, vars, StartPass, Collect, Collected, Compare, NextInst, EndPass
  <2> QED
    BY <1>5, <2>1 DEF GraphOK, GraphEffect, Grows
<1> QED
  BY <1>2, <1>3, <1>4, <1>5

\* No step adds a wrong link.
LEMMA SoundStep ==
    ASSUME TypeInv, GraphOK, FlowDepsOK, CandidateIsNearest, Sound, [Next]_vars
    PROVE  Sound'
<1>1. GraphEffect
  BY GraphStep
<1>2. prog' = prog
  BY DEF Next, vars, StartPass, VisitOther, VisitLoad, Collect, Collected, Compare, LinkLoad,
         LinkOperand, NextInst, EndPass
<1>3. \A l, s : IsBest(l, s)' <=> IsBest(l, s)
  BY <1>2 DEF IsBest, Near, Diff, Before
<1>4. SUFFICES ASSUME NEW e \in LinksOf(ddg')
               PROVE  /\ e[3] = "DATA_RAW" => e[2] \in prog.loads /\ IsBest(e[2], e[1])
                      /\ e[3] = "DATA_DEF_USE" => e[1] \in ToSet(prog.operands[e[2]])
  BY <1>2, <1>3 DEF Sound
<1>5. CASE e \in LinksOf(ddg)
  BY <1>5 DEF Sound
<1>6. CASE LinkLoad /\ e = <<candidate, Inst, "DATA_RAW">>
  <2>1. IsBest(Inst, candidate) /\ Inst \in prog.loads
    BY <1>6, CandidateIsBest DEF LinkLoad, TypeInv, TypeOK
  <2> QED
    BY <1>6, <2>1
<1>7. CASE LinkOperand /\ e = <<Operand, Inst, "DATA_DEF_USE">>
  <2>1. Operand \in ToSet(prog.operands[Inst])
    BY <1>7 DEF LinkOperand, Operand, ToSet
  <2> QED
    BY <1>7, <2>1
<1> QED
  BY <1>1, <1>5, <1>6, <1>7 DEF GraphEffect

-----------------------------------------------------------------------------
(***************************************************************************)
(* What the graph has of the instructions visited.                           *)
(***************************************************************************)

\* What an instruction has, it keeps.
LEMMA Kept ==
    ASSUME Grows, prog' = prog
    PROVE  \A n : /\ HasNode(n) => HasNode(n)'
                  /\ HasFlow(n) => HasFlow(n)'
                  /\ \A j : HasOperand(n, j) => HasOperand(n, j)'
                  /\ Complete(n) => Complete(n)'
<1>1. \A n : /\ HasNode(n) => HasNode(n)'
             /\ HasFlow(n) => HasFlow(n)'
             /\ \A j : HasOperand(n, j) => HasOperand(n, j)'
  BY DEF Grows, HasNode, HasFlow, HasOperand
<1> QED
  BY <1>1 DEF Complete

\* Every step leaves what it passes complete.
LEMMA ProgressStep ==
    ASSUME TypeInv, GraphOK, Progress, [Next]_vars
    PROVE  Progress'
<1>1. GraphEffect
  BY GraphStep
<1>2. prog' = prog
  BY DEF Next, vars, StartPass, VisitOther, VisitLoad, Collect, Collected, Compare, LinkLoad,
         LinkOperand, NextInst, EndPass
<1>3. \A n : /\ HasNode(n) => HasNode(n)'
             /\ HasFlow(n) => HasFlow(n)'
             /\ \A j : HasOperand(n, j) => HasOperand(n, j)'
             /\ Complete(n) => Complete(n)'
  BY <1>1, <1>2, Kept DEF GraphEffect
<1>4. /\ pass \in Nat /\ pos \in Nat \ {0} /\ i \in Nat \ {0}
      /\ Len(prog.order) \in Nat /\ DOMAIN prog.order = 1..Len(prog.order)
  BY ProgramFacts DEF TypeInv, TypeOK
<1>5. CASE StartPass
  <2>1. /\ pc = "start" /\ pc' = "visit" /\ pass' = pass + 1 /\ pos' = 1 /\ ddg' = ddg
    BY <1>5 DEF StartPass
  <2>2. ASSUME NEW k \in DOMAIN prog.order, pass' > 1 \/ (pass' = 1 /\ k < 1)
        PROVE  Complete(prog.order[k])
    BY <1>4, <2>1, <2>2 DEF Progress
  <2> QED
    BY <1>2, <1>3, <2>1, <2>2 DEF Progress
<1>6. CASE VisitOther \/ VisitLoad
  <2>1. /\ pc = "visit" /\ pc' \in {"collect", "operands"} /\ pass' = pass /\ pos' = pos
        /\ Inst' = Inst /\ i' = 1
        /\ pc' = "operands" => Inst \notin prog.loads
    BY <1>2, <1>6 DEF VisitOther, VisitLoad, Inst
  <2>2. HasNode(Inst)'
    BY <1>1, <1>6, <2>1 DEF GraphEffect, HasNode
  <2>3. pc' = "operands" => HasFlow(Inst)'
    BY <1>2, <2>1 DEF HasFlow
  <2>4. \A j \in DOMAIN prog.operands[Inst] : ~(j < 1)
    <3>1. pos \in DOMAIN prog.order
      BY <1>6 DEF VisitOther, VisitLoad
    <3>2. prog.operands[Inst] \in Seq(Insts)
      BY <3>1, ProgramFacts DEF TypeInv, Inst
    <3> QED
      BY <3>2
  <2> QED
    BY <1>2, <1>3, <2>1, <2>2, <2>3, <2>4 DEF Progress
<1>7. CASE Collect \/ Collected \/ Compare
  <2>1. /\ pc \in {"collect", "compare"} /\ pc' \in {"collect", "compare"}
        /\ pass' = pass /\ pos' = pos /\ Inst' = Inst
    BY <1>2, <1>7 DEF Collect, Collected, Compare, Inst
  <2> QED
    BY <1>2, <1>3, <2>1 DEF Progress
<1>8. CASE LinkLoad
  <2>1. /\ pc = "compare" /\ pc' = "operands" /\ pass' = pass /\ pos' = pos
        /\ Inst' = Inst /\ i' = 1 /\ pos \in DOMAIN prog.order
    BY <1>2, <1>8 DEF LinkLoad, Inst, TypeInv, TypeOK
  <2>2. candidate \in NodeData /\ prog.operands[Inst] \in Seq(Insts)
    BY <2>1, HandTypes, ProgramFacts DEF TypeInv, Inst
  <2>3. HasFlow(Inst)'
    BY <1>1, <1>2, <1>8, <2>1, <2>2 DEF GraphEffect, HasFlow
  <2>4. \A j \in DOMAIN prog.operands[Inst] : ~(j < 1)
    BY <2>2
  <2> QED
    BY <1>2, <1>3, <2>1, <2>3, <2>4 DEF Progress
<1>9. CASE LinkOperand
  <2>1. /\ pc = "operands" /\ pc' = "operands" /\ pass' = pass /\ pos' = pos
        /\ Inst' = Inst /\ i' = i + 1 /\ pos \in DOMAIN prog.order
    BY <1>2, <1>9 DEF LinkOperand, Inst, TypeInv, TypeOK
  <2>2. prog.operands[Inst] \in Seq(Insts)
    BY <2>1, ProgramFacts DEF TypeInv, Inst
  <2>3. <<prog.operands[Inst][i], Inst, "DATA_DEF_USE">> \in LinksOf(ddg')
    BY <1>1, <1>9 DEF GraphEffect, Operand
  <2>4. \A j \in DOMAIN prog.operands[Inst] : j < i + 1 <=> j < i \/ j = i
    BY <1>4, <2>2
  <2>5. HasFlow(Inst)' /\ HasNode(Inst)'
        /\ \A j \in DOMAIN prog.operands[Inst] : j < i + 1 => HasOperand(Inst, j)'
    <3>1. HasFlow(Inst)' /\ HasNode(Inst)'
      BY <1>2, <1>3, <2>1 DEF Progress, HasFlow, HasNode
    <3>2. ASSUME NEW j \in DOMAIN prog.operands[Inst], j < i + 1
          PROVE  <<prog.operands[Inst][j], Inst, "DATA_DEF_USE">> \in LinksOf(ddg')
      <4>1. CASE j = i
        BY <2>3, <4>1
      <4>2. CASE j < i
        <5>1. <<prog.operands[Inst][j], Inst, "DATA_DEF_USE">> \in LinksOf(ddg)
          BY <2>1, <4>2 DEF Progress, HasOperand
        <5> QED
          BY <1>1, <5>1 DEF GraphEffect, Grows
      <4> QED
        BY <2>4, <3>2, <4>1, <4>2
    <3> QED
      BY <1>2, <2>1, <3>1, <3>2 DEF HasOperand
  <2> QED
    BY <1>2, <1>3, <2>1, <2>5 DEF Progress
<1>10. CASE NextInst
  <2>1. /\ pc = "operands" /\ pc' = "visit" /\ pass' = pass /\ pos' = pos + 1
        /\ pos \in DOMAIN prog.order /\ i \notin DOMAIN prog.operands[Inst]
    BY <1>10 DEF NextInst, TypeInv, TypeOK
  <2>2. prog.operands[Inst] \in Seq(Insts)
    BY <2>1, ProgramFacts DEF TypeInv, Inst
  <2>3. \A j \in DOMAIN prog.operands[Inst] : j < i
    BY <1>4, <2>1, <2>2
  <2>4. Complete(prog.order[pos])
    BY <2>1, <2>3 DEF Progress, Complete, Inst
  <2>5. ASSUME NEW k \in DOMAIN prog.order, pass > 1 \/ (pass = 1 /\ k < pos + 1)
        PROVE  Complete(prog.order[k])
    <3>1. CASE k = pos
      BY <2>4, <3>1
    <3>2. CASE k # pos
      BY <1>4, <2>5, <3>2 DEF Progress
    <3> QED
      BY <3>1, <3>2
  <2> QED
    BY <1>2, <1>3, <2>1, <2>5 DEF Progress
<1>11. CASE EndPass
  <2>1. /\ pc = "visit" /\ pc' \in {"start", "done"} /\ pass' = pass /\ pos' = pos
        /\ pos > Len(prog.order)
    BY <1>4, <1>11 DEF EndPass
  <2> QED
    BY <1>2, <1>3, <2>1 DEF Progress
<1>12. CASE UNCHANGED vars
  <2>1. pc' = pc /\ pass' = pass /\ pos' = pos /\ Inst' = Inst /\ i' = i
    BY <1>2, <1>12 DEF vars, Inst
  <2> QED
    BY <1>2, <1>3, <2>1 DEF Progress
<1> QED
  BY <1>5, <1>6, <1>7, <1>8, <1>9, <1>10, <1>11, <1>12 DEF Next

-----------------------------------------------------------------------------
(***************************************************************************)
(* The theorems.                                                            *)
(***************************************************************************)

\* The invariant holds at first.
LEMMA InvInit == Init => IInv
<1> SUFFICES ASSUME Init PROVE IInv
  OBVIOUS
<1>1. TypeInv
  BY TypeInit
<1>2. GraphOK /\ LinksOf(ddg) = {}
  BY EmptyIsGraph, ConstantsAssumption DEF Init, GraphOK, NodeData
<1>3. FreshLoads /\ FlowDepsOK /\ CandidateIsNearest /\ Progress
  BY DEF Init, FreshLoads, FlowDepsOK, CandidateIsNearest, Progress
<1>4. Sound
  BY <1>2 DEF Sound
<1> QED
  BY <1>1, <1>2, <1>3, <1>4 DEF IInv

\* The invariant holds in every state of the pass.
THEOREM Inductive == Spec => []IInv
<1>1. IInv /\ [Next]_vars => IInv'
  <2> SUFFICES ASSUME IInv, [Next]_vars PROVE IInv'
    OBVIOUS
  <2>1. TypeInv' /\ FreshLoads' /\ FlowDepsOK' /\ CandidateIsNearest'
    BY TypeStep, FreshStep, FlowDepsStep, NearestStep DEF IInv
  <2>2. GraphOK' /\ Sound' /\ Progress'
    BY GraphStep, SoundStep, ProgressStep DEF IInv
  <2> QED
    BY <2>1, <2>2 DEF IInv
<1> QED
  BY <1>1, InvInit, PTL DEF Spec

\* The data of the pass are well typed for every function.
THEOREM TypeCorrect == Spec => []TypeOK
<1>1. IInv => TypeOK
  BY DEF IInv, TypeInv
<1> QED
  BY <1>1, Inductive, PTL

\* The candidate is always the first of the nearest stores compared.
THEOREM NearestIsChosen == Spec => []CandidateIsNearest
<1>1. IInv => CandidateIsNearest
  BY DEF IInv
<1> QED
  BY <1>1, Inductive, PTL

\* After each run every load has one flow source: a store in reach, or nothing, but
\* not nothing if a store in reach precedes it.
THEOREM OneSource == Spec => []OneSourcePerLoad
<1>1. IInv => OneSourcePerLoad
  <2> SUFFICES ASSUME IInv, pc \in {"start", "done"}, pass > 0, NEW l \in prog.loads
               PROVE  \E s \in Near(l) \union {NoInst} :
                          /\ SourcesOf(l) = {s}
                          /\ (\E t \in Near(l) : Before(t, l)) => s # NoInst
    BY DEF OneSourcePerLoad
  <2>1. PICK k \in DOMAIN prog.order : prog.order[k] = l
    BY ProgramFacts DEF IInv, TypeInv, ToSet
  <2>2. Complete(l)
    <3>1. prog.order \in Seq(Insts)
      BY ProgramFacts DEF IInv, TypeInv
    <3>2. pos > Len(prog.order) /\ pass \in Nat /\ pos \in Nat
      BY DEF IInv, TypeInv, TypeOK, Progress
    <3>3. pass > 1 \/ (pass = 1 /\ k < pos)
      BY <3>1, <3>2
    <3> QED
      BY <2>1, <3>3 DEF IInv, Progress
  <2>3. PICK s : <<s, l, "DATA_RAW">> \in LinksOf(ddg)
    BY <2>2 DEF Complete, HasFlow
  <2>4. IsBest(l, s)
    BY <2>3 DEF IInv, Sound
  <2>5. s \in Near(l) \union {NoInst} /\ (Near(l) # {} => s # NoInst)
    <3>1. NoInst \notin Near(l)
      BY ProgramFacts, ConstantsAssumption DEF IInv, TypeInv, Near
    <3> QED
      BY <2>4, <3>1 DEF IsBest
  <2>6. ASSUME NEW e \in LinksOf(ddg), e[2] = l, e[3] = "DATA_RAW"
        PROVE  e[1] = s
    <3>1. IsBest(l, e[1])
      BY <2>6 DEF IInv, Sound
    <3> QED
      BY <2>4, <3>1, BestUnique DEF IInv, TypeInv
  <2>7. SourcesOf(l) = {s}
    BY <2>3, <2>6 DEF SourcesOf
  <2> QED
    BY <2>5, <2>7
<1> QED
  BY <1>1, Inductive, PTL

\* At the end the operands of an instruction are its sources, and no others.
THEOREM OperandSources == Spec => []OperandsAreSources
<1>1. IInv => OperandsAreSources
  <2> SUFFICES ASSUME IInv, pc = "done",
                      NEW x \in ToSet(prog.order), NEW y \in ToSet(prog.order)
               PROVE  <<x, y, "DATA_DEF_USE">> \in LinksOf(ddg) <=> x \in ToSet(prog.operands[y])
    BY DEF OperandsAreSources
  <2>1. <<x, y, "DATA_DEF_USE">> \in LinksOf(ddg) => x \in ToSet(prog.operands[y])
    BY DEF IInv, Sound
  <2>2. ASSUME x \in ToSet(prog.operands[y])
        PROVE  <<x, y, "DATA_DEF_USE">> \in LinksOf(ddg)
    <3>1. PICK k \in DOMAIN prog.order : prog.order[k] = y
      BY DEF ToSet
    <3>2. pos > Len(prog.order) /\ k \in 1..Len(prog.order) /\ pass \in Nat /\ pass > 0
          /\ pos \in Nat /\ Len(prog.order) \in Nat
      BY ProgramFacts DEF IInv, TypeInv, TypeOK, Progress
    <3>3. pass > 1 \/ (pass = 1 /\ k < pos)
      BY <3>2
    <3>4. Complete(y)
      BY <3>1, <3>3 DEF IInv, Progress
    <3>5. PICK j \in DOMAIN prog.operands[y] : prog.operands[y][j] = x
      BY <2>2 DEF ToSet
    <3> QED
      BY <3>4, <3>5 DEF Complete, HasOperand
  <2> QED
    BY <2>1, <2>2
<1> QED
  BY <1>1, Inductive, PTL

\* A rerun of the pass does not change the graph.
THEOREM RerunIsIdle == Spec => RerunAddsNothing
<1>1. IInv /\ [Next]_vars => [pass > 1 => UNCHANGED ddg]_vars
  <2> SUFFICES ASSUME IInv, Next, pass > 1 PROVE ddg' = ddg
    OBVIOUS
  <2>1. \A k \in DOMAIN prog.order : Complete(prog.order[k])
    BY DEF IInv, Progress
  <2>2. CASE VisitOther \/ VisitLoad
    <3>1. ddg' = GetNodeByData(ddg, Inst) /\ pos \in DOMAIN prog.order
      BY <2>2 DEF VisitOther, VisitLoad
    <3>2. Inst \in DOMAIN ddg.links
      BY <2>1, <3>1 DEF Complete, HasNode, Inst
    <3> QED
      BY <3>1, <3>2 DEF GetNodeByData
  <2>3. CASE LinkLoad
    <3>1. /\ pc = "compare" /\ i \notin DOMAIN flowDeps /\ pos \in DOMAIN prog.order
          /\ Inst \in prog.loads
          /\ ddg' = AddDependency(ddg, candidate, Inst, "DATA_RAW")
      BY <2>3 DEF LinkLoad, IInv, TypeInv, TypeOK
    <3>2. PICK s : <<s, Inst, "DATA_RAW">> \in LinksOf(ddg)
      BY <2>1, <3>1 DEF Complete, HasFlow, Inst
    <3>3. IsBest(Inst, s)
      BY <3>2 DEF IInv, Sound
    <3>4. IsBest(Inst, candidate)
      BY <3>1, CandidateIsBest DEF IInv
    <3>5. s = candidate
      BY <3>1, <3>3, <3>4, BestUnique DEF IInv, TypeInv
    <3> QED
      BY <3>1, <3>2, <3>5, AddPresent DEF IInv, GraphOK
  <2>4. CASE LinkOperand
    <3>1. /\ pos \in DOMAIN prog.order /\ i \in DOMAIN prog.operands[Inst]
          /\ ddg' = AddDependency(ddg, Operand, Inst, "DATA_DEF_USE")
      BY <2>4 DEF LinkOperand, WithOperand, Operand, IInv, TypeInv, TypeOK
    <3>2. <<Operand, Inst, "DATA_DEF_USE">> \in LinksOf(ddg)
      BY <2>1, <3>1 DEF Complete, HasOperand, Operand, Inst
    <3> QED
      BY <3>1, <3>2, AddPresent DEF IInv, GraphOK
  <2>5. CASE ~(VisitOther \/ VisitLoad \/ LinkLoad \/ LinkOperand)
    BY <2>5, GraphStep DEF IInv, GraphEffect
  <2> QED
    BY <2>2, <2>3, <2>4, <2>5
<1> QED
  BY <1>1, Inductive, PTL DEF Spec, RerunAddsNothing
=============================================================================
