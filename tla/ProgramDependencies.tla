------------------------ MODULE ProgramDependencies ------------------------
(***************************************************************************)
(* The construction of the program dependence graph                         *)
(* (ProgramDependencyGraph::runOnModule, src/src/ProgramDependencies.cpp,    *)
(* lines 465 to 681, with connectCallerAndCallee): the functions of the      *)
(* module are taken in their order; for each, the dependences of its data    *)
(* and control dependence graphs are copied wrapper by wrapper, and its       *)
(* calls are connected to the callees.                                       *)
(***************************************************************************)
EXTENDS DependencyGraphs

CONSTANTS
    NoWrapper,      \* a null pointer, and
    Garbage,        \* any other pointer an uninitialised one may hold
    Modules         \* the modules to analyse

(***************************************************************************)
(* A module: its defined functions in order; for each the wrappers of        *)
(* funcInstWList in address order and the returns in program order; the kind  *)
(* of each wrapper; the callee of each call, which is a function, "indirect"  *)
(* or "external" (an intrinsic or a declaration); the tail calls; the         *)
(* returns with a value; the values a call of var_annotation marks; the       *)
(* global a load reads, if any; and the pairs joined in DDG and in CDG.       *)
(***************************************************************************)
Kinds == {"entry", "load", "store", "call", "return", "other"}
Wrappers(m) == DOMAIN m.kind
Functions(m) == ToSet(m.funcs)
In(m, f) == ToSet(m.order[f])
GlobalsOf(m) == {m.global[w] : w \in DOMAIN m.global}
NoFunction == {"indirect", "external"}
CallsOf(m) == {w \in Wrappers(m) : m.kind[w] = "call"}

\* the wrappers of a module belong to one function each
Partitioned(m) ==
    /\ m.kind \in [Wrappers(m) -> Kinds]
    /\ m.funcs \in Seq(Functions(m)) /\ IsInjective(m.funcs)
    /\ m.order \in [Functions(m) -> Seq(Wrappers(m))]
    /\ \A f, g \in Functions(m) : f # g => In(m, f) \intersect In(m, g) = {}
    /\ UNION {In(m, f) : f \in Functions(m)} = Wrappers(m)
    /\ m.entry \in [Functions(m) -> Wrappers(m)]
    /\ m.returns \in [Functions(m) -> Seq(Wrappers(m))]
    /\ \A f \in Functions(m) :
          /\ {w \in In(m, f) : m.kind[w] = "entry"} = {m.entry[f]}
          /\ ToSet(m.returns[f]) = {w \in In(m, f) : m.kind[w] = "return"}

\* each of its graphs is built for one function, and an entry is no instruction
Local(m, graph) ==
    /\ graph \subseteq Wrappers(m) \X Wrappers(m)
    /\ \A f \in Functions(m), e \in graph : e[1] \in In(m, f) => e[2] \in In(m, f)

ASSUME ModulesAssumption ==
    \A m \in Modules :
        /\ Partitioned(m)
        /\ NoFunction \intersect Functions(m) = {}
        /\ m.callee \in [CallsOf(m) -> Functions(m) \union NoFunction]
        /\ Local(m, m.ddg) /\ Local(m, m.cdg)
        /\ \A e \in m.ddg : m.kind[e[1]] # "entry"
        /\ \A e \in m.cdg : m.kind[e[2]] # "entry"

ASSUME PointersAssumption ==
    \A m \in Modules :
        /\ {NoWrapper, Garbage, NoData} \intersect (Wrappers(m) \union GlobalsOf(m)) = {}
        /\ Wrappers(m) \intersect GlobalsOf(m) = {}
        /\ NoData \notin {NoWrapper, Garbage}

VARIABLES
    mod,            \* M
    pc,             \* "function", "wrapper", "returns", "dependents", "done"
    at,             \* how many functions have been begun
    next,           \* the position of nodeIt in funcInstWList
    inner,          \* the position of RI in the returns, or of nodeIt2
    entryW,         \* the entry wrapper each FunctionWrapper holds
    returnList,     \* the returnInstList of each
    access,         \* the wrappers with access == true
    sensitive,      \* sensitive_values
    pdg             \* PDG

vars == <<mod, pc, at, next, inner, entryW, returnList, access, sensitive, pdg>>
wrapped == <<mod, at, entryW, returnList>>

Func == mod.funcs[at]
Order == mod.order[Func]
InstW == Order[next]
Kind(w) == mod.kind[w]

\* the constructor of FunctionWrapper leaves entryW uninitialised
Init ==
    /\ mod \in Modules
    /\ pc = "function"
    /\ at = 0 /\ next = 1 /\ inner = 1
    /\ entryW \in [Functions(mod) -> {NoWrapper, Garbage}]
    /\ returnList = [f \in Functions(mod) |-> <<>>]
    /\ access = {}
    /\ sensitive = <<>>
    /\ pdg = EmptyGraph

(***************************************************************************)
(* The wrappers and lists of the next function; its two graphs, which are    *)
(* computed here, are given by the module.                                   *)
(***************************************************************************)
BeginFunction ==
    /\ pc = "function"
    /\ at < Len(mod.funcs)
    /\ at' = at + 1
    /\ LET f == mod.funcs[at + 1]
       IN  /\ entryW' = [entryW EXCEPT ![f] = mod.entry[f]]
           /\ returnList' = [returnList EXCEPT ![f] = @ \o mod.returns[f]]
    /\ next' = 1
    /\ pc' = "wrapper"
    /\ UNCHANGED <<mod, inner, access, sensitive, pdg>>

EndFunction ==
    /\ pc = "wrapper" /\ next > Len(Order)
    /\ pc' = "function"
    /\ UNCHANGED <<wrapped, next, inner, access, sensitive, pdg>>

(***************************************************************************)
(* A wrapper: a call that was not taken yet is connected, unless the loop     *)
(* continues with the next wrapper; all others go to the second iteration.    *)
(***************************************************************************)
AtWrapper == pc = "wrapper" /\ next <= Len(Order)
ToProcess(w) == Kind(w) = "call" /\ w \notin access
Callee(w) == mod.callee[w]

MutTailContinues(w) == Callee(w) \in NoFunction
Continues(w) == Callee(w) \in NoFunction \/ w \in mod.tail

VisitPlain ==
    /\ AtWrapper /\ ~ToProcess(InstW)
    /\ pc' = "dependents" /\ inner' = 1
    /\ UNCHANGED <<wrapped, next, access, sensitive, pdg>>

Marked(w) == IF w \in DOMAIN mod.marks THEN mod.marks[w] ELSE <<>>

VisitSkippedCall ==
    /\ AtWrapper /\ ToProcess(InstW) /\ Continues(InstW)
    /\ sensitive' = sensitive \o Marked(InstW)
    /\ next' = next + 1
    /\ UNCHANGED <<wrapped, pc, inner, access, pdg>>

(***************************************************************************)
(* connectCallerAndCallee: the call to the entry the callee's wrapper holds   *)
(* now, and the returns with a value it lists now to the call.               *)
(***************************************************************************)
ConnectEntry ==
    /\ AtWrapper /\ ToProcess(InstW) /\ ~Continues(InstW)
    /\ pdg' = AddDependency(pdg, InstW, entryW[Callee(InstW)], "DATA_GENERAL")
    /\ pc' = "returns" /\ inner' = 1
    /\ UNCHANGED <<wrapped, next, access, sensitive>>

HasValue(r) == r \in mod.valued
Returns == returnList[Callee(InstW)]

AddIf(condition, g, from, to, type) ==
    IF condition THEN AddDependency(g, from, to, type) ELSE g

MutSwapped(g, r) == AddIf(HasValue(r), g, InstW, r, "DATA_GENERAL")
ReturnLink(g, r) == AddIf(HasValue(r), g, r, InstW, "DATA_GENERAL")

ConnectReturn ==
    /\ pc = "returns" /\ inner <= Len(Returns)
    /\ pdg' = ReturnLink(pdg, Returns[inner])
    /\ inner' = inner + 1
    /\ UNCHANGED <<wrapped, pc, next, access, sensitive>>

Connected ==
    /\ pc = "returns" /\ inner > Len(Returns)
    /\ access' = access \union {InstW}
    /\ pc' = "dependents" /\ inner' = 1
    /\ UNCHANGED <<wrapped, next, sensitive, pdg>>

(***************************************************************************)
(* The second iteration: the dependences of w on every wrapper w2 of the      *)
(* function, and the loads of globals.                                       *)
(***************************************************************************)
GlobalLink(g, w2) ==
    AddIf(w2 \in DOMAIN mod.global, g, mod.global[w2], w2, "GLOBAL_VALUE")

MutTargetIsLoad(w, w2) == IF Kind(w2) = "load" THEN "DATA_RAW" ELSE "DATA_DEF_USE"
DataType(w, w2) ==
    IF Kind(w) = "store" /\ Kind(w2) = "load" THEN "DATA_RAW" ELSE "DATA_DEF_USE"
DataLink(g, w, w2) ==
    AddIf(Kind(w) # "entry" /\ <<w, w2>> \in mod.ddg, g, w, w2, DataType(w, w2))

ControlLink(g, w, w2) ==
    AddIf(Kind(w2) # "entry" /\ <<w, w2>> \in mod.cdg, g, w, w2, "CONTROL")

AddDependents ==
    /\ pc = "dependents" /\ inner <= Len(Order)
    /\ LET w2 == Order[inner]
       IN  pdg' = ControlLink(DataLink(GlobalLink(pdg, w2), InstW, w2), InstW, w2)
    /\ inner' = inner + 1
    /\ UNCHANGED <<wrapped, pc, next, access, sensitive>>

EndDependents ==
    /\ pc = "dependents" /\ inner > Len(Order)
    /\ pc' = "wrapper" /\ next' = next + 1
    /\ UNCHANGED <<wrapped, inner, access, sensitive, pdg>>

Finish ==
    /\ pc = "function"
    /\ at = Len(mod.funcs)
    /\ pc' = "done"
    /\ UNCHANGED <<wrapped, next, inner, access, sensitive, pdg>>

Next ==
    \/ BeginFunction \/ EndFunction
    \/ VisitPlain \/ VisitSkippedCall
    \/ ConnectEntry \/ ConnectReturn \/ Connected
    \/ AddDependents \/ EndDependents
    \/ Finish

Spec == Init /\ [][Next]_vars

-----------------------------------------------------------------------------
(***************************************************************************)
(* Properties.                                                              *)
(***************************************************************************)
Uninitialised == {NoWrapper, Garbage}
Calls == CallsOf(mod)
CommonCalls == {w \in Calls : Callee(w) \in Functions(mod) /\ w \notin mod.tail}
FunctionOf(w) == CHOOSE f \in Functions(mod) : w \in ToSet(mod.order[f])
Position(f) == CHOOSE n \in DOMAIN mod.funcs : mod.funcs[n] = f

\* Type invariant of the construction (lines 465 to 681).
TypeOK ==
    /\ pc \in {"function", "wrapper", "returns", "dependents", "done"}
    /\ at \in 0..Len(mod.funcs)
    /\ pc = "wrapper" => at > 0 /\ next \in 1..Len(Order) + 1
    /\ pc \in {"returns", "dependents"} => at > 0 /\ next \in 1..Len(Order)
    /\ pc = "returns" => InstW \in CommonCalls /\ inner \in 1..Len(Returns) + 1
    /\ pc = "dependents" => inner \in 1..Len(Order) + 1
    /\ \A f \in Functions(mod) :
          /\ entryW[f] \in IF Position(f) <= at THEN {mod.entry[f]} ELSE Uninitialised
          /\ returnList[f] = IF Position(f) <= at THEN mod.returns[f] ELSE <<>>
    /\ access \subseteq CommonCalls
    /\ DOMAIN pdg.links \subseteq Wrappers(mod) \union GlobalsOf(mod) \union Uninitialised
    /\ {e[3] : e \in LinksOf(pdg)} \subseteq
          {"DATA_GENERAL", "DATA_RAW", "DATA_DEF_USE", "CONTROL", "GLOBAL_VALUE"}

\* The graph has every dependence that the data and control graphs have, and no
\* other, for each source but the calls the loop abandons, whatever the address
\* order; RAW is what leads from a store to a load (lines 626 to 679).
DependencesKept ==
    pc = "done" =>
        \A w \in Wrappers(mod) \ (Calls \ CommonCalls) :
            {e \in LinksOf(pdg) : e[1] = w /\ e[3] # "DATA_GENERAL"} =
                {<<w, v, "CONTROL">> : v \in {u \in Wrappers(mod) : <<w, u>> \in mod.cdg}}
                \union
                {<<w, v, IF Kind(w) = "store" /\ Kind(v) = "load"
                             THEN "DATA_RAW" ELSE "DATA_DEF_USE">> :
                    v \in {u \in Wrappers(mod) : <<w, u>> \in mod.ddg}}

\* A common call of a function that is built no later than its caller, itself
\* included, leads to its entry and hears from all returns with a value (lines 374
\* to 403 and 620).
CallsConnected ==
    pc = "done" =>
        \A w \in CommonCalls :
            Position(Callee(w)) <= Position(FunctionOf(w)) =>
                /\ <<w, mod.entry[Callee(w)], "DATA_GENERAL">> \in LinksOf(pdg)
                /\ \A r \in ToSet(mod.returns[Callee(w)]) \intersect mod.valued :
                      <<r, w, "DATA_GENERAL">> \in LinksOf(pdg)

\* Line 381: "callInst in caller --> Entry Node in callee", for every common call.
CallsReachEntries ==
    pc = "done" =>
        \A w \in CommonCalls :
            <<w, mod.entry[Callee(w)], "DATA_GENERAL">> \in LinksOf(pdg)
=============================================================================
