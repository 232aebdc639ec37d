------------------------- MODULE TaintPropagation -------------------------
(***************************************************************************)
(* The taint propagation of ProgramDependencyGraph::runOnModule            *)
(* (src/src/ProgramDependencies.cpp, lines 703 to 948): the sensitive      *)
(* nodes are collected, then a worklist walks the finished program          *)
(* dependence graph one link at a time and records, per alloca, the source  *)
(* line from which it counts as tainted; the report lists them per line.    *)
(* Operators named Mut... are faulty variants of the operator they precede: *)
(* they show which property notices the fault, and nothing else uses them.  *)
(***************************************************************************)
EXTENDS Naturals, Sequences, SequencesExt, FiniteSets

CONSTANTS
    Nodes,          \* the InstructionWrappers of the module
    NoNode,         \* a null pointer to one
    AllocaMax,      \* allocaMAX: the line of an alloca that is not tainted
    Programs        \* the modules and dependence graphs to analyse

Kinds == {"alloca", "load", "store", "branch", "call", "other",
          "global", "entry", "null"}

(***************************************************************************)
(* A program: the wrappers in the order of their heap addresses, what each  *)
(* stands for, its function and debug line, the alloca a load or store      *)
(* accesses directly (NoNode if none), its links in the order of the        *)
(* dependency list, the annotated values (sensitive_values), the annotated  *)
(* globals (senGlobalSet), and the allocas that allocaMap leaves out         *)
(* because their name contains "retval".                                    *)
(***************************************************************************)
ProgramType ==
    [order : Seq(Nodes), kind : [Nodes -> Kinds], func : [Nodes -> STRING], line : [Nodes -> Nat],
     ptr : [Nodes -> Nodes \union {NoNode}],
     links : [Nodes -> Seq([to : Nodes, type : STRING])],
     sensitive : Seq(Nodes), taintedGlobals : SUBSET Nodes,
     untracked : SUBSET Nodes]

ASSUME ConstantsAssumption ==
    /\ NoNode \notin Nodes
    /\ AllocaMax \in Nat
ASSUME ProgramsAssumption ==
    \A p \in Programs :
        /\ p \in ProgramType
        /\ ToSet(p.order) = Nodes
        /\ \A n \in Nodes : p.line[n] < AllocaMax
        /\ ToSet(p.sensitive) \subseteq {n \in Nodes : p.kind[n] = "alloca"}
        /\ p.taintedGlobals \subseteq {n \in Nodes : p.kind[n] = "global"}
        /\ \A n \in Nodes : p.ptr[n] # NoNode => p.kind[p.ptr[n]] = "alloca"
        /\ \A n \in Nodes : \A i \in DOMAIN p.links[n] :
              p.kind[p.links[n][i].to] # "global"

VARIABLES
    prog,           \* the program, fixed
    pc,             \* where the pass is: "collect", "pop", "visit", "done", "crashed"
    scanned,        \* how many wrappers the collecting loop has looked at
    queue,          \* the worklist (sensitive_nodes until it is copied)
    cur,            \* InstW, the wrapper taken from the queue
    idx,            \* the index in its dependency list
    snapshot,       \* TaintValuesOnInstW
    flag,           \* the wrappers with flag == true
    colored,        \* coloredInstSet
    taint,          \* taintMap
    allocaLine,     \* the allocaMaps of all functions
    report          \* TaintValuesFile.txt: the pairs <<line, alloca>>

vars == <<prog, pc, scanned, queue, cur, idx, snapshot, flag, colored,
          taint, allocaLine, report>>
worklist == <<queue, cur, idx, snapshot, flag, colored, taint, allocaLine>>

-----------------------------------------------------------------------------
Kind(n) == prog.kind[n]
Line(n) == prog.line[n]
Links(n) == prog.links[n]
Sensitive == ToSet(prog.sensitive)
SensitiveFunctions == {prog.func[a] : a \in Sensitive}
Seeds == Sensitive \union prog.taintedGlobals
Tracked == {n \in Nodes : Kind(n) = "alloca"} \ prog.untracked

\* operator[] and insert on std::map: a missing key is created first
Lookup(map, key, default) == IF key \in DOMAIN map THEN map[key] ELSE default
Put(map, key, value) ==
    [k \in DOMAIN map \union {key} |-> IF k = key THEN value ELSE map[k]]
Touch(map, key) == Put(map, key, Lookup(map, key, 0))

Init ==
    /\ prog \in Programs
    /\ pc = "collect"
    /\ scanned = 0
    /\ queue = <<>>
    /\ cur = NoNode
    /\ idx = 0
    /\ snapshot = {}
    /\ flag = {}
    /\ colored = {}
    /\ taint = [n \in {} |-> {}]
    /\ allocaLine = [a \in Tracked |-> AllocaMax]
    /\ report = {}

(***************************************************************************)
(* Collecting the sensitive nodes, in the address order of the wrappers.    *)
(* A value annotated twice matches twice.                                   *)
(***************************************************************************)
MutFirstMatchOnly(n) ==
    IF prog.sensitive # <<>> /\ n = Head(prog.sensitive) THEN 1 ELSE 0
Matches(n) ==
    Cardinality({i \in DOMAIN prog.sensitive : prog.sensitive[i] = n})
        + (IF n \in prog.taintedGlobals THEN 1 ELSE 0)

CollectSensitive ==
    /\ pc = "collect"
    /\ scanned < Len(prog.order)
    /\ scanned' = scanned + 1
    /\ LET n == prog.order[scanned + 1]
       IN  queue' = queue \o [i \in 1..Matches(n) |-> n]
    /\ UNCHANGED <<prog, pc, cur, idx, snapshot, flag, colored, taint,
                   allocaLine, report>>

MarkSensitive ==
    /\ pc = "collect"
    /\ scanned = Len(prog.order)
    /\ pc' = "pop"
    /\ taint' = [a \in Sensitive |-> {a}]
    /\ allocaLine' = [a \in DOMAIN allocaLine \union Sensitive |->
                        IF a \in Sensitive THEN Line(a) ELSE allocaLine[a]]
    /\ UNCHANGED <<prog, scanned, queue, cur, idx, snapshot, flag, colored,
                   report>>

(***************************************************************************)
(* The worklist.                                                            *)
(***************************************************************************)
Pop ==
    /\ pc = "pop"
    /\ queue # <<>>
    /\ pc' = "visit"
    /\ cur' = Head(queue)
    /\ queue' = Tail(queue)
    /\ idx' = 1
    /\ snapshot' = Lookup(taint, Head(queue), {})
    /\ colored' = IF Kind(Head(queue)) = "call" THEN colored
                                                ELSE colored \union {Head(queue)}
    /\ UNCHANGED <<prog, scanned, flag, taint, allocaLine, report>>

\* the links the loop does not skip
Followed(link) == link.type # "CALL" /\ Kind(link.to) # "null"
Link == Links(cur)[idx]
Adj == Link.to

AtLink == pc = "visit" /\ idx \in DOMAIN Links(cur)

\* the flag of a wrapper is set when it first enters the queue
MutNoFlag == Adj # cur
FirstVisit == Adj \notin flag

\* dereferencing the instruction of a wrapper that has none: of the adjacent
\* wrapper, or of a global when the edge it leads along is traced
NullInstruction ==
    \/ Kind(Adj) = "entry"
    \/ FirstVisit /\ cur \in colored /\ Kind(cur) = "global"

Skip ==
    /\ AtLink
    /\ \/ ~Followed(Link)
       \/ ~FirstVisit
    /\ idx' = idx + 1
    /\ UNCHANGED <<prog, pc, scanned, queue, cur, snapshot, flag, colored,
                   taint, allocaLine, report>>

Crash ==
    /\ AtLink
    /\ Followed(Link)
    /\ NullInstruction
    /\ pc' = "crashed"
    /\ UNCHANGED <<prog, scanned, worklist, report>>

\* what every first visit of an adjacent wrapper does
Visit(kinds) ==
    /\ AtLink
    /\ Followed(Link)
    /\ ~NullInstruction
    /\ FirstVisit
    /\ Kind(Adj) \in kinds
    /\ queue' = Append(queue, Adj)
    /\ flag' = flag \union {Adj}
    /\ colored' = IF cur \in colored THEN colored \union {Adj} ELSE colored
    /\ idx' = idx + 1
    /\ UNCHANGED <<prog, pc, scanned, cur, snapshot, report>>

MutOnlyNamed(names) ==
    IF names = {} THEN taint ELSE Put(taint, Adj, Lookup(taint, Adj, {}) \union names)

\* the taint map once Adj has inherited and the names are inserted
Tainted(names) ==
    IF cur \in colored THEN Put(taint, Adj, snapshot \union names)
    ELSE IF names = {} THEN taint
    ELSE Put(taint, Adj, Lookup(taint, Adj, {}) \union names)

\* the keys of the allocaMap of function f
AllocasOf(f) == {a \in DOMAIN allocaLine : prog.func[a] = f}

TaintedBefore(line) == {a \in AllocasOf(prog.func[Adj]) : allocaLine[a] < line}

VisitBranch ==
    /\ Visit({"branch"})
    /\ taint' = Tainted(TaintedBefore(Line(Adj)))
    /\ UNCHANGED allocaLine

\* the alloca a load or a store accesses directly, if it does
Ptr(n) == prog.ptr[n]
MutAnyPointer(n) == TRUE
AccessesAlloca(n) == Ptr(n) # NoNode

\* an alloca gets the line of the first store that taints it; a load that
\* depends on a store moves it to the line of that store
MutUnsetIsZero(map) ==
    IF map[Ptr(Adj)] = 0 THEN Put(map, Ptr(Adj), Line(Adj)) ELSE map
MutLineOfSource(map) ==
    IF map[Ptr(Adj)] = AllocaMax THEN Put(map, Ptr(Adj), Line(cur)) ELSE map
TaintByStore(map) ==
    IF map[Ptr(Adj)] = AllocaMax THEN Put(map, Ptr(Adj), Line(Adj)) ELSE map
MoveByLoad(map) ==
    IF Kind(cur) = "store" THEN Put(map, Ptr(Adj), Line(cur)) ELSE map

VisitStore ==
    /\ Visit({"store"})
    /\ taint' = Tainted(IF AccessesAlloca(Adj) THEN {Ptr(Adj)} ELSE {})
    /\ allocaLine' =
         IF AccessesAlloca(Adj) /\ cur \in colored
         THEN TaintByStore(Touch(allocaLine, Ptr(Adj)))
         ELSE allocaLine

VisitLoad ==
    /\ Visit({"load"})
    /\ IF ~AccessesAlloca(Adj)
       THEN taint' = Tainted({}) /\ UNCHANGED allocaLine
       ELSE LET map == Touch(allocaLine, Ptr(Adj))
            IN  IF map[Ptr(Adj)] < AllocaMax
                THEN /\ taint' = Tainted({Ptr(Adj)})
                     /\ allocaLine' = MoveByLoad(map)
                ELSE taint' = Tainted({}) /\ allocaLine' = map

VisitOther ==
    /\ Visit({"alloca", "call", "other"})
    /\ taint' = Tainted({})
    /\ UNCHANGED allocaLine

MutLastLinkSkipped == idx >= Len(Links(cur))
MutOnePastEnd == idx > Len(Links(cur)) + 1
Exhausted == idx > Len(Links(cur))

EndOfLinks ==
    /\ pc = "visit"
    /\ Exhausted
    /\ pc' = "pop"
    /\ cur' = NoNode
    /\ idx' = 0
    /\ snapshot' = {}
    /\ UNCHANGED <<prog, scanned, queue, flag, colored, taint, allocaLine,
                   report>>

(***************************************************************************)
(* printTaintValues for every function with a sensitive value: each line    *)
(* with an instruction that is not a call lists the allocas tainted by it.  *)
(***************************************************************************)
ReportedLines(f) ==
    {Line(n) : n \in {m \in Nodes : /\ prog.func[m] = f
                                    /\ Kind(m) \notin {"call", "global", "entry", "null"}
                                    /\ Line(m) > 0}}

Report ==
    /\ pc = "pop"
    /\ queue = <<>>
    /\ pc' = "done"
    /\ report' =
         UNION {{e \in ReportedLines(f) \X AllocasOf(f) : allocaLine[e[2]] <= e[1]}
                : f \in SensitiveFunctions}
    /\ UNCHANGED <<prog, scanned, worklist>>

Next ==
    \/ CollectSensitive
    \/ MarkSensitive
    \/ Pop \/ Skip \/ Crash
    \/ VisitBranch \/ VisitStore \/ VisitLoad \/ VisitOther
    \/ EndOfLinks
    \/ Report

Terminated == pc \in {"done", "crashed"}

\* the pass is one thread of straight-line loops: it keeps taking its next step
Spec == Init /\ [][Next]_vars
FairSpec == Spec /\ WF_vars(Next)
-----------------------------------------------------------------------------
(***************************************************************************)
(* Properties.                                                              *)
(***************************************************************************)

\* Type invariant of the propagation's state (lines 763 to 793).
TypeOK ==
    /\ pc \in {"collect", "pop", "visit", "done", "crashed"}
    /\ scanned \in 0..Len(prog.order)
    /\ queue \in Seq(Nodes)
    /\ cur \in Nodes \union {NoNode}
    /\ pc = "visit" => cur \in Nodes
    /\ idx \in Nat
    /\ snapshot \subseteq Nodes
    /\ flag \subseteq Nodes
    /\ colored \subseteq Nodes
    /\ DOMAIN taint \subseteq Nodes
    /\ \A n \in DOMAIN taint : taint[n] \subseteq Nodes
    /\ DOMAIN allocaLine \subseteq Nodes
    /\ \A a \in DOMAIN allocaLine : allocaLine[a] \in 0..AllocaMax
    /\ report \subseteq Nat \X Nodes

\* the dependences the propagation follows
Edges ==
    {edge \in Nodes \X Nodes :
        \E i \in DOMAIN Links(edge[1]) :
            Followed(Links(edge[1])[i]) /\ Links(edge[1])[i].to = edge[2]}
FatalEdges == {edge \in Edges : Kind(edge[2]) = "entry" \/ Kind(edge[1]) = "global"}

\* The worklist implements the closure: it marks only dependents of sensitive
\* or marked nodes, and it ends only when no dependent is unmarked, whatever
\* the order of the queue and of the links (lines 786 to 927).
Closure ==
    INSTANCE TaintClosure WITH
        seeds <- Seeds, edges <- Edges, fatal <- FatalEdges, marked <- flag,
        status <- IF pc = "done" THEN "finished"
                  ELSE IF pc = "crashed" THEN "aborted" ELSE "running"
ImplementsClosure == Closure!Spec

\* No dependent is lost on the way: a sensitive or flagged wrapper waits in the
\* queue, is the one at hand, or has had every link it follows flagged; the
\* one at hand has had those before idx (lines 786 to 847).
FlaggedUpTo(n, last) ==
    \A i \in DOMAIN Links(n) :
        i <= last /\ Followed(Links(n)[i]) => Links(n)[i].to \in flag
NothingLost ==
    /\ pc = "collect" =>
         \A i \in 1..scanned : prog.order[i] \in Seeds => prog.order[i] \in ToSet(queue)
    /\ pc # "collect" =>
         \A n \in Seeds \union flag :
            \/ n \in ToSet(queue)
            \/ pc \in {"visit", "crashed"} /\ n = cur
            \/ FlaggedUpTo(n, Len(Links(n)))
    /\ pc = "visit" => FlaggedUpTo(cur, idx - 1)

\* The map entry that line 917 dereferences exists: whatever has been flagged
\* has an entry in taintMap, because whatever propagates is colored.
FlaggedHaveTaint == flag \subseteq DOMAIN taint /\ flag \subseteq colored

\* A flagged store to an alloca leaves the alloca tainted to the end of the
\* pass (lines 873 to 890), also when a later load moves its line (908).
StoresTaint ==
    \A s \in flag :
        Kind(s) = "store" /\ AccessesAlloca(s)
            => Lookup(allocaLine, Ptr(s), AllocaMax) < AllocaMax

\* The names a flagged wrapper carries stay what they were when it was first
\* reached: nothing rewrites taintMap between its flagging, its pop (line 810)
\* and the use of the copy (line 851).
TaintFrozen ==
    [][\A n \in flag : n \in DOMAIN taint' /\ taint'[n] = taint[n]]_vars

\* An alloca once tainted is never untainted (lines 773, 884 and 908).
StaysTainted ==
    [][\A a \in DOMAIN allocaLine : allocaLine[a] < AllocaMax
          => a \in DOMAIN allocaLine' /\ allocaLine'[a] < AllocaMax]_vars

\* a reached store that defines alloca a: directly, or by a dependence to a
\* reached load of a
Reaches(s, load) ==
    \E i \in DOMAIN Links(s) : Followed(Links(s)[i]) /\ Links(s)[i].to = load
Defines(s, a) ==
    /\ s \in flag
    /\ Kind(s) = "store"
    /\ \/ Ptr(s) = a
       \/ \E load \in flag : Kind(load) = "load" /\ Ptr(load) = a /\ Reaches(s, load)

\* the lines from which alloca a may count as tainted: its own if it is annotated,
\* that of a reached store that defines it, and 0 if allocaMap does not track it
\* and a reached load or store has created its entry
TaintedFrom(a, from) ==
    \/ a \in Sensitive /\ from = Line(a)
    \/ \E s \in Nodes : Defines(s, a) /\ from = Line(s)
    \/ /\ a \in prog.untracked /\ from = 0
       /\ \E n \in flag : Kind(n) \in {"load", "store"} /\ Ptr(n) = a

\* The report is exact (lines 229 to 237 with 773, 884 and 908): it lists allocas
\* of functions with an annotated one only, and each either on no line, when it is
\* not annotated and no reached store writes it, or on all the printed lines from
\* one of the above on.
Listed(a) == {e[1] : e \in {entry \in report : entry[2] = a}}
MustBeTainted(a) == a \in Sensitive \/ \E s \in flag : Kind(s) = "store" /\ Ptr(s) = a
ReportJustified ==
    pc = "done" =>
        /\ \A e \in report : prog.func[e[2]] \in SensitiveFunctions
        /\ \A a \in Nodes : prog.func[a] \in SensitiveFunctions =>
             \/ Listed(a) = {} /\ ~MustBeTainted(a)
             \/ \E from \in 0..AllocaMax :
                   /\ TaintedFrom(a, from)
                   /\ Listed(a) = {l \in ReportedLines(prog.func[a]) : from <= l}

\* The propagation ends: a wrapper enters the queue at most once through its
\* flag, besides the seeds (lines 786, 844 and 847).
Termination == <>Terminated

\* Line 835: "we only do intra-procedural analysis, so skip call edges".  What
\* is reached from annotated locals lies in the functions that declare them.
IntraProcedural ==
    prog.taintedGlobals = {} =>
        \A n \in flag : prog.func[n] \in SensitiveFunctions

\* Line 733: "process all sensitive instructions in functions and all global
\* values, color their corresponding nodes".  An annotated global is propagated
\* like an annotated local: the pass does not die on it.
GlobalsPropagate == pc = "crashed" => Kind(cur) # "global"
=============================================================================
