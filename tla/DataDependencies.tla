-------------------------- MODULE DataDependencies --------------------------
(***************************************************************************)
(* DataDependencyGraph::runOnFunction (src/src/DataDependencies.cpp, lines   *)
(* 20 to 147) with FlowDependenceAnalysis::getDependencyInFunction           *)
(* (src/src/FlowDependenceAnalysis.cpp, lines 188 to 245): every load gets    *)
(* a flow dependence from one store that may alias it, the one whose debug    *)
(* line is nearest, and every instruction one from each operand.             *)
(***************************************************************************)
EXTENDS DependencyGraphs, Integers

CONSTANTS
    Insts,          \* instructions, each standing for its wrapper
    NoInst,         \* a null instruction, and the null wrapper instMap has for it
    MaxLocNum,      \* maxLocNum
    Passes,         \* how often the pass manager runs the pass on a function
    Programs        \* the functions to analyse

(***************************************************************************)
(* A function: its instructions in program order, which of them load and     *)
(* store, their debug lines, the pairs of a load and a store for which the    *)
(* alias analysis does not answer NoAlias, and the operands of each that are *)
(* instructions.                                                            *)
(***************************************************************************)
ProgramType ==
    [order : Seq(Insts), loads : SUBSET Insts, stores : SUBSET Insts,
     line : [Insts -> Nat], mayAlias : SUBSET (Insts \X Insts),
     operands : [Insts -> Seq(Insts)]]

ASSUME ConstantsAssumption ==
    /\ NoInst \notin Insts
    /\ NoData \notin Insts \union {NoInst}
    /\ MaxLocNum \in Nat
    /\ Passes \in Nat \ {0}
ASSUME ProgramsAssumption ==
    \A p \in Programs :
        /\ p \in ProgramType
        /\ IsInjective(p.order)
        /\ p.loads \intersect p.stores = {}
        /\ p.loads \union p.stores \subseteq ToSet(p.order)

VARIABLES
    prog,           \* F
    pass,           \* how many runs have begun
    pc,             \* "start", "visit", "collect", "compare",
                    \* "operands", "done"
    pos,            \* instIt, as a position in prog.order
    loadLoc,        \* loadLocMap
    flowDeps,       \* flowdep_set
    i,              \* the index of the inner loop at hand
    candidate,      \* candidateSI
    ddg             \* DDG

vars == <<prog, pass, pc, pos, loadLoc, flowDeps, i, candidate, ddg>>

Inst == prog.order[pos]
Diff(a, b) ==
    IF prog.line[a] >= prog.line[b] THEN prog.line[a] - prog.line[b]
                                    ELSE prog.line[b] - prog.line[a]

Init ==
    /\ prog \in Programs
    /\ pass = 0
    /\ pc = "start"
    /\ pos = 1
    /\ loadLoc = [l \in {} |-> 0]
    /\ flowDeps = <<>>
    /\ i = 1
    /\ candidate = NoInst
    /\ ddg = EmptyGraph

\* the global map is reset for the loads of the function
MutOnlyNew ==
    [l \in prog.loads |-> IF l \in DOMAIN loadLoc THEN loadLoc[l] ELSE MaxLocNum]
ResetLoads == [l \in prog.loads |-> MaxLocNum]

StartPass ==
    /\ pc = "start"
    /\ pass' = pass + 1
    /\ pc' = "visit"
    /\ pos' = 1
    /\ loadLoc' = ResetLoads
    /\ UNCHANGED <<prog, flowDeps, i, candidate, ddg>>

VisitOther ==
    /\ pc = "visit"
    /\ pos \in DOMAIN prog.order
    /\ Inst \notin prog.loads
    /\ ddg' = GetNodeByData(ddg, Inst)
    /\ i' = 1
    /\ pc' = "operands"
    /\ UNCHANGED <<prog, pass, pos, loadLoc, flowDeps, candidate>>

VisitLoad ==
    /\ pc = "visit"
    /\ pos \in DOMAIN prog.order
    /\ Inst \in prog.loads
    /\ ddg' = GetNodeByData(ddg, Inst)
    /\ flowDeps' = <<>>
    /\ i' = 1
    /\ pc' = "collect"
    /\ UNCHANGED <<prog, pass, pos, loadLoc, candidate>>

(***************************************************************************)
(* getDependencyInFunction: the stores of the whole function that may alias   *)
(* the load, in program order.                                               *)
(***************************************************************************)
FlowsTo(s) == s \in prog.stores /\ <<Inst, s>> \in prog.mayAlias

Collect ==
    /\ pc = "collect"
    /\ i \in DOMAIN prog.order
    /\ flowDeps' = IF FlowsTo(prog.order[i]) THEN Append(flowDeps, prog.order[i]) ELSE flowDeps
    /\ i' = i + 1
    /\ UNCHANGED <<prog, pass, pc, pos, loadLoc, candidate, ddg>>

\* no store is the candidate yet
MutKeptCandidate == candidate
FirstCandidate == NoInst

Collected ==
    /\ pc = "collect"
    /\ i \notin DOMAIN prog.order
    /\ i' = 1
    /\ candidate' = FirstCandidate
    /\ pc' = "compare"
    /\ UNCHANGED <<prog, pass, pos, loadLoc, flowDeps, ddg>>

MutNotAfter(d) == loadLoc[Inst] >= d
Nearer(d) == loadLoc[Inst] > d

MutOnlyIfNearer(d) == IF Nearer(d) THEN i + 1 ELSE i
NextIndex(d) == i + 1

Compare ==
    /\ pc = "compare"
    /\ i \in DOMAIN flowDeps
    /\ LET d == Diff(flowDeps[i], Inst)
       IN  IF Nearer(d)
           THEN loadLoc' = [loadLoc EXCEPT ![Inst] = d] /\ candidate' = flowDeps[i]
           ELSE UNCHANGED <<loadLoc, candidate>>
    /\ i' = NextIndex(Diff(flowDeps[i], Inst))
    /\ UNCHANGED <<prog, pass, pc, pos, flowDeps, ddg>>

\* without a candidate the source is the node of the null wrapper
LinkLoad ==
    /\ pc = "compare"
    /\ i \notin DOMAIN flowDeps
    /\ ddg' = AddDependency(ddg, candidate, Inst, "DATA_RAW")
    /\ i' = 1
    /\ pc' = "operands"
    /\ UNCHANGED <<prog, pass, pos, loadLoc, flowDeps, candidate>>

\* the dependences of an instruction on its operands
WithOperand(g, op) == AddDependency(g, op, Inst, "DATA_DEF_USE")

LinkOperand ==
    /\ pc = "operands"
    /\ i \in DOMAIN prog.operands[Inst]
    /\ ddg' = WithOperand(ddg, prog.operands[Inst][i])
    /\ i' = i + 1
    /\ UNCHANGED <<prog, pass, pc, pos, loadLoc, flowDeps, candidate>>

NextInst ==
    /\ pc = "operands"
    /\ i \notin DOMAIN prog.operands[Inst]
    /\ pos' = pos + 1
    /\ pc' = "visit"
    /\ UNCHANGED <<prog, pass, loadLoc, flowDeps, i, candidate, ddg>>

MutMorePasses == FALSE
LastPass == pass = Passes

EndPass ==
    /\ pc = "visit"
    /\ pos \notin DOMAIN prog.order
    /\ pc' = IF LastPass THEN "done" ELSE "start"
    /\ UNCHANGED <<prog, pass, pos, loadLoc, flowDeps, i, candidate, ddg>>

Next ==
    \/ StartPass
    \/ VisitOther \/ VisitLoad \/ Collect \/ Collected \/ Compare \/ LinkLoad
    \/ LinkOperand \/ NextInst
    \/ EndPass

\* one thread of nested loops: it keeps taking its next step
Spec == Init /\ [][Next]_vars
FairSpec == Spec /\ WF_vars(Next)

-----------------------------------------------------------------------------
(***************************************************************************)
(* Properties.                                                              *)
(***************************************************************************)

\* Type invariant of the pass (lines 36 to 146).
TypeOK ==
    /\ pass \in 0..Passes
    /\ pc \in {"start", "visit", "collect", "compare", "operands", "done"}
    /\ pos \in Nat \ {0}
    /\ pc \in {"collect", "compare", "operands"} => pos \in DOMAIN prog.order
    /\ pc \in {"collect", "compare"} => Inst \in prog.loads
    /\ pc # "start" => pass > 0
    /\ DOMAIN loadLoc = IF pass = 0 THEN {} ELSE prog.loads
    /\ \A l \in DOMAIN loadLoc : loadLoc[l] \in 0..MaxLocNum
    /\ flowDeps \in Seq(prog.stores)
    /\ i \in Nat \ {0}
    /\ candidate \in prog.stores \union {NoInst}

\* While the stores are compared, the candidate is the first of the nearest so
\* far, and the recorded distance is its own; there is none only while every
\* store is maxLocNum lines away or more (lines 98 to 118).
CandidateIsNearest ==
    pc = "compare" =>
        LET near == {j \in DOMAIN flowDeps :
                        j < i /\ Diff(flowDeps[j], Inst) < MaxLocNum}
        IN  IF near = {}
            THEN candidate = NoInst /\ loadLoc[Inst] = MaxLocNum
            ELSE \E j \in near :
                    /\ candidate = flowDeps[j]
                    /\ loadLoc[Inst] = Diff(candidate, Inst)
                    /\ \A k \in near :
                          /\ Diff(flowDeps[k], Inst) >= loadLoc[Inst]
                          /\ k < j => Diff(flowDeps[k], Inst) > loadLoc[Inst]

\* the stores in reach of a load, and what is before what in the function
Near(l) == {s \in prog.stores : <<l, s>> \in prog.mayAlias /\ Diff(s, l) < MaxLocNum}
Before(s, t) ==
    \E j, k \in DOMAIN prog.order : j < k /\ prog.order[j] = s /\ prog.order[k] = t

\* A load depends by flow on one source, however often the pass has run: a store
\* that may alias it and is less than maxLocNum lines away, or nothing, but not
\* nothing if such a store precedes it (lines 93 to 126).  Whether a store after
\* the load may be the source is left open: FlowDependenceAnalysis.h, 245 to 246,
\* speaks of preceding operations, and the code considers all.
SourcesOf(l) == {e[1] : e \in {k \in LinksOf(ddg) : k[2] = l /\ k[3] = "DATA_RAW"}}
OneSourcePerLoad ==
    pc \in {"start", "done"} /\ pass > 0 =>
        \A l \in prog.loads :
            \E s \in Near(l) \union {NoInst} :
                /\ SourcesOf(l) = {s}
                /\ (\E t \in Near(l) : Before(t, l)) => s # NoInst

\* A later run of the pass on the same function finds the graph complete: it
\* adds neither a node nor a link (lines 43 to 50 and 55 to 144).
RerunAddsNothing == [][pass > 1 => UNCHANGED ddg]_vars

\* Every operand is a source of its user, and there are no other dependences of
\* this type (lines 131 to 143).
OperandsAreSources ==
    pc = "done" =>
        \A x, y \in ToSet(prog.order) :
            <<x, y, "DATA_DEF_USE">> \in LinksOf(ddg)
                <=> x \in ToSet(prog.operands[y])

\* The runs end (lines 55 and 99).
Termination == <>(pc = "done")
=============================================================================
