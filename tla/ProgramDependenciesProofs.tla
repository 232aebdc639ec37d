--------------------- MODULE ProgramDependenciesProofs ---------------------
(***************************************************************************)
(* Proofs about the construction of the program dependence graph, for any     *)
(* modules: any functions in any order, any address order of their wrappers,  *)
(* any calls, and any dependences within the functions.                       *)
(***************************************************************************)
EXTENDS ProgramDependencies, DependencyGraphsProofs

Data == Wrappers(mod) \union GlobalsOf(mod) \union Uninitialised
LinkTypes == {"DATA_GENERAL", "DATA_RAW", "DATA_DEF_USE", "CONTROL", "GLOBAL_VALUE"}
Active == {"wrapper", "returns", "dependents"}

(***************************************************************************)
(* The inductive invariant.  None of the properties is inductive: they speak  *)
(* of the end, the parts below of every state on the way.                     *)
(***************************************************************************)

\* the counters, and what the wrappers of the functions hold
Core ==
    /\ mod \in Modules
    /\ pc \in Active \union {"function", "done"}
    /\ at \in 0..Len(mod.funcs)
    /\ pc \in Active => at > 0
    /\ pc = "wrapper" => next \in 1..Len(Order) + 1
    /\ pc \in {"returns", "dependents"} => next \in 1..Len(Order)
    /\ pc = "returns" => InstW \in CommonCalls /\ inner \in 1..Len(Returns) + 1
    /\ pc = "dependents" => inner \in 1..Len(Order) + 1
    /\ pc = "done" => at = Len(mod.funcs)
    /\ entryW \in [Functions(mod) -> Wrappers(mod) \union Uninitialised]
    /\ returnList \in [Functions(mod) -> Seq(Wrappers(mod))]
    /\ \A f \in Functions(mod) :
          /\ entryW[f] \in IF Position(f) <= at THEN {mod.entry[f]} ELSE Uninitialised
          /\ returnList[f] = IF Position(f) <= at THEN mod.returns[f] ELSE <<>>
    /\ access \subseteq CommonCalls

GraphOK == IsGraph(pdg, Data, LinkTypes)

\* every link of the graph has a reason
IsCallLink(e) == e[1] \in CommonCalls /\ e[2] \in {mod.entry[Callee(e[1])]} \union Uninitialised
IsReturnLink(e) == e[2] \in CommonCalls /\ e[1] \in ToSet(mod.returns[Callee(e[2])])
Reason(e) ==
    \/ e[3] = "DATA_GENERAL" /\ (IsCallLink(e) \/ IsReturnLink(e))
    \/ e[3] = "GLOBAL_VALUE" /\ e[1] \in GlobalsOf(mod)
    \/ e[3] = "CONTROL" /\ <<e[1], e[2]>> \in mod.cdg
    \/ e[3] = DataType(e[1], e[2]) /\ <<e[1], e[2]>> \in mod.ddg
Sound == \A e \in LinksOf(pdg) : Reason(e)

\* the wrappers nodeIt has left behind
Ended == IF pc \in Active THEN at - 1 ELSE at
Taken(w) ==
    \/ \E n \in 1..Ended : w \in In(mod, mod.funcs[n])
    \/ pc \in Active /\ \E k \in 1..next - 1 : w = Order[k]

\* the dependences of those are complete, and of the one at hand up to nodeIt2
Skipped == Calls \ CommonCalls
CompleteIn(g, w, v) ==
    /\ <<w, v>> \in mod.cdg => <<w, v, "CONTROL">> \in LinksOf(g)
    /\ <<w, v>> \in mod.ddg => <<w, v, DataType(w, v)>> \in LinksOf(g)
Complete(w, v) == CompleteIn(pdg, w, v)
Dependents ==
    /\ \A w \in Wrappers(mod) \ Skipped : Taken(w) => \A v \in Wrappers(mod) : Complete(w, v)
    /\ pc = "dependents" => InstW \notin Skipped /\ \A k \in 1..inner - 1 : Complete(InstW, Order[k])

\* the common calls among those were connected, the one at hand up to RI
EntryLinked(g, w) == <<w, mod.entry[Callee(w)], "DATA_GENERAL">> \in LinksOf(g)
Answered(g, r, w) == HasValue(r) => <<r, w, "DATA_GENERAL">> \in LinksOf(g)
Joined(g, w) ==
    Position(Callee(w)) <= Position(FunctionOf(w)) =>
        EntryLinked(g, w) /\ \A r \in ToSet(mod.returns[Callee(w)]) : Answered(g, r, w)
AccessOK ==
    /\ \A w \in access : Joined(pdg, w)
    /\ \A w \in CommonCalls : Taken(w) \/ (pc = "dependents" /\ w = InstW) => w \in access
    /\ pc = "returns" /\ Position(Callee(InstW)) <= at =>
          EntryLinked(pdg, InstW) /\ \A k \in 1..inner - 1 : Answered(pdg, Returns[k], InstW)

IInv == Core /\ GraphOK /\ Sound /\ Dependents /\ AccessOK

-----------------------------------------------------------------------------
(***************************************************************************)
(* Facts about modules.                                                      *)
(***************************************************************************)

\* What the assumptions say of the module at hand.
LEMMA ModuleFacts ==
    ASSUME mod \in Modules
    PROVE  /\ Partitioned(mod)
           /\ NoFunction \intersect Functions(mod) = {}
           /\ mod.callee \in [Calls -> Functions(mod) \union NoFunction]
           /\ Local(mod, mod.ddg) /\ Local(mod, mod.cdg)
           /\ \A e \in mod.ddg : mod.kind[e[1]] # "entry"
           /\ \A e \in mod.cdg : mod.kind[e[2]] # "entry"
           /\ NoData \notin Data
           /\ Wrappers(mod) \intersect GlobalsOf(mod) = {}
           /\ Wrappers(mod) \intersect Uninitialised = {}
<1>1. NoData \notin Data
  BY PointersAssumption DEF Data, Uninitialised
<1>2. Wrappers(mod) \intersect Uninitialised = {}
  BY PointersAssumption DEF Uninitialised
<1> QED
  BY <1>1, <1>2, ModulesAssumption, PointersAssumption DEF Calls

\* A function has one position in the module, a wrapper one function.
LEMMA Places ==
    ASSUME mod \in Modules
    PROVE  /\ Len(mod.funcs) \in Nat
           /\ \A n \in 1..Len(mod.funcs) :
                 mod.funcs[n] \in Functions(mod) /\ Position(mod.funcs[n]) = n
           /\ \A f \in Functions(mod) :
                 /\ Position(f) \in 1..Len(mod.funcs) /\ mod.funcs[Position(f)] = f
                 /\ Len(mod.order[f]) \in Nat
                 /\ \A k \in 1..Len(mod.order[f]) : mod.order[f][k] \in In(mod, f)
                 /\ In(mod, f) = {mod.order[f][k] : k \in 1..Len(mod.order[f])}
                 /\ In(mod, f) \subseteq Wrappers(mod)
                 /\ \A w \in In(mod, f) : FunctionOf(w) = f
<1>1. /\ mod.funcs \in Seq(Functions(mod)) /\ IsInjective(mod.funcs)
      /\ mod.order \in [Functions(mod) -> Seq(Wrappers(mod))]
      /\ \A f, g \in Functions(mod) : f # g => In(mod, f) \intersect In(mod, g) = {}
  BY ModuleFacts DEF Partitioned
<1>2. /\ Len(mod.funcs) \in Nat /\ DOMAIN mod.funcs = 1..Len(mod.funcs)
      /\ \A n \in 1..Len(mod.funcs) : mod.funcs[n] \in Functions(mod)
  BY <1>1
<1>3. \A m, n \in 1..Len(mod.funcs) : mod.funcs[m] = mod.funcs[n] => m = n
  BY <1>1, <1>2 DEF IsInjective
<1>4. ASSUME NEW n \in 1..Len(mod.funcs) PROVE Position(mod.funcs[n]) = n
  BY <1>2, <1>3 DEF Position
<1>5. ASSUME NEW f \in Functions(mod)
      PROVE  Position(f) \in 1..Len(mod.funcs) /\ mod.funcs[Position(f)] = f
  <2>1. PICK n \in 1..Len(mod.funcs) : mod.funcs[n] = f
    BY <1>2 DEF Functions, ToSet
  <2> QED
    BY <2>1, <1>4
<1>6. ASSUME NEW f \in Functions(mod)
      PROVE  /\ Len(mod.order[f]) \in Nat
             /\ \A k \in 1..Len(mod.order[f]) : mod.order[f][k] \in In(mod, f)
             /\ In(mod, f) = {mod.order[f][k] : k \in 1..Len(mod.order[f])}
             /\ In(mod, f) \subseteq Wrappers(mod)
  <2>1. mod.order[f] \in Seq(Wrappers(mod))
    BY <1>1
  <2>2. /\ Len(mod.order[f]) \in Nat /\ DOMAIN mod.order[f] = 1..Len(mod.order[f])
        /\ \A k \in 1..Len(mod.order[f]) : mod.order[f][k] \in Wrappers(mod)
    BY <2>1
  <2> QED
    BY <2>2 DEF In, ToSet
<1>7. ASSUME NEW f \in Functions(mod), NEW w \in In(mod, f) PROVE FunctionOf(w) = f
  BY <1>1, <1>7 DEF FunctionOf, In
<1> QED
  BY <1>2, <1>4, <1>5, <1>6, <1>7

\* The returns of a function are among its wrappers.
LEMMA ReturnFacts ==
    ASSUME mod \in Modules, NEW f \in Functions(mod)
    PROVE  /\ mod.entry[f] \in Wrappers(mod)
           /\ mod.returns[f] \in Seq(Wrappers(mod))
           /\ ToSet(mod.returns[f]) = {mod.returns[f][k] : k \in 1..Len(mod.returns[f])}
<1>1. mod.entry[f] \in Wrappers(mod) /\ mod.returns[f] \in Seq(Wrappers(mod))
  BY ModuleFacts DEF Partitioned
<1>2. DOMAIN mod.returns[f] = 1..Len(mod.returns[f])
  BY <1>1
<1> QED
  BY <1>1, <1>2 DEF ToSet

\* The wrapper at hand, when there is one.
LEMMA AtHand ==
    ASSUME Core, pc \in Active
    PROVE  /\ at \in 1..Len(mod.funcs) /\ Func \in Functions(mod) /\ Position(Func) = at
           /\ Len(Order) \in Nat
           /\ next \in 1..Len(Order) =>
                 InstW \in In(mod, Func) /\ InstW \in Wrappers(mod) /\ FunctionOf(InstW) = Func
           /\ \A k \in 1..Len(Order) : Order[k] \in Wrappers(mod) /\ Order[k] \in In(mod, Func)
<1>1. at \in 1..Len(mod.funcs)
  BY Places DEF Core
<1>2. Func \in Functions(mod) /\ Position(Func) = at
  BY <1>1, Places DEF Core, Func
<1> QED
  BY <1>1, <1>2, Places DEF Core, Order, InstW

-----------------------------------------------------------------------------
(***************************************************************************)
(* The counters and the wrappers of functions.                               *)
(***************************************************************************)

LEMMA CoreInit == Init => Core
<1> SUFFICES ASSUME Init PROVE Core
  OBVIOUS
<1>1. mod \in Modules /\ pc = "function" /\ at = 0 /\ access = {}
      /\ entryW \in [Functions(mod) -> Uninitialised]
      /\ returnList = [f \in Functions(mod) |-> <<>>]
  BY DEF Init, Uninitialised
<1>2. Len(mod.funcs) \in Nat
  BY <1>1, Places
<1>3. \A f \in Functions(mod) : ~(Position(f) <= 0)
  BY <1>1, Places
<1>4. entryW \in [Functions(mod) -> Wrappers(mod) \union Uninitialised]
      /\ returnList \in [Functions(mod) -> Seq(Wrappers(mod))]
  BY <1>1
<1>5. \A f \in Functions(mod) :
          /\ entryW[f] \in IF Position(f) <= at THEN {mod.entry[f]} ELSE Uninitialised
          /\ returnList[f] = IF Position(f) <= at THEN mod.returns[f] ELSE <<>>
  BY <1>1, <1>3
<1> QED
  BY <1>1, <1>2, <1>4, <1>5 DEF Core, Active

\* The module does not change, and with it what is said of its wrappers.
LEMMA SameModule ==
    ASSUME mod' = mod
    PROVE  /\ Calls' = Calls /\ CommonCalls' = CommonCalls /\ Data' = Data
           /\ \A f : Position(f)' = Position(f)
           /\ \A w : FunctionOf(w)' = FunctionOf(w)
           /\ \A w : Callee(w)' = Callee(w)
           /\ \A w, v : DataType(w, v)' = DataType(w, v)
  BY DEF Calls, CommonCalls, Data, Uninitialised, Position, FunctionOf, Callee, DataType, Kind

\* A call that is processed and not skipped is a common one.
LEMMA CommonCall ==
    ASSUME mod \in Modules, NEW w \in Wrappers(mod), Kind(w) = "call"
    PROVE  /\ ~Continues(w) => w \in CommonCalls /\ Callee(w) \in Functions(mod)
           /\ Continues(w) => w \in Skipped
<1>1. w \in Calls
  BY DEF Calls, CallsOf, Kind
<1>2. Callee(w) \in Functions(mod) \union NoFunction
      /\ NoFunction \intersect Functions(mod) = {}
  BY <1>1, ModuleFacts DEF Callee
<1> QED
  BY <1>1, <1>2 DEF Continues, CommonCalls, Skipped

LEMMA CoreStep == Core /\ [Next]_vars => Core'
<1> SUFFICES ASSUME Core, [Next]_vars PROVE Core'
  OBVIOUS
<1>1. mod' = mod /\ mod \in Modules
  BY DEF Core, Next, vars, wrapped, BeginFunction, EndFunction, VisitPlain, VisitSkippedCall,
         ConnectEntry, ConnectReturn, Connected, AddDependents, EndDependents, Finish
<1>2. CASE BeginFunction
  <2> DEFINE f == mod.funcs[at + 1]
  <2>1. at + 1 \in 1..Len(mod.funcs) /\ at \in Nat /\ Len(mod.funcs) \in Nat
    BY <1>1, <1>2, Places DEF Core, BeginFunction
  <2>2. f \in Functions(mod) /\ Position(f) = at + 1
    BY <1>1, <2>1, Places
  <2>3. /\ at' = at + 1 /\ next' = 1 /\ pc' = "wrapper" /\ access' = access
        /\ entryW' = [entryW EXCEPT ![f] = mod.entry[f]]
        /\ returnList' = [returnList EXCEPT ![f] = @ \o mod.returns[f]]
    BY <1>2 DEF BeginFunction
  <2>4. Order' = mod.order[f] /\ Len(Order') \in Nat
    BY <1>1, <2>2, <2>3, Places DEF Order, Func
  <2>5. returnList[f] = <<>>
    BY <2>1, <2>2 DEF Core
  <2>6. mod.returns[f] \in Seq(Wrappers(mod)) /\ mod.entry[f] \in Wrappers(mod)
    BY <1>1, <2>2, ReturnFacts
  <2>7. returnList' = [returnList EXCEPT ![f] = mod.returns[f]]
    BY <2>2, <2>3, <2>5, <2>6 DEF Core
  <2>8. /\ entryW' \in [Functions(mod) -> Wrappers(mod) \union Uninitialised]
        /\ returnList' \in [Functions(mod) -> Seq(Wrappers(mod))]
    BY <2>2, <2>3, <2>6, <2>7 DEF Core
  <2>9. ASSUME NEW g \in Functions(mod)
        PROVE  /\ entryW'[g] \in IF Position(g) <= at' THEN {mod.entry[g]} ELSE Uninitialised
               /\ returnList'[g] = IF Position(g) <= at' THEN mod.returns[g] ELSE <<>>
    <3>1. CASE g = f
      <4>1. entryW'[f] = mod.entry[f] /\ returnList'[f] = mod.returns[f]
        BY <2>2, <2>3, <2>7 DEF Core
      <4>2. Position(f) <= at'
        BY <2>1, <2>2, <2>3
      <4> QED
        BY <3>1, <4>1, <4>2
    <3>2. CASE g # f
      <4>1. Position(g) \in Nat /\ (Position(g) <= at' <=> Position(g) <= at)
        BY <1>1, <2>1, <2>2, <2>3, <3>2, Places
      <4>2. entryW'[g] = entryW[g] /\ returnList'[g] = returnList[g]
        BY <2>3, <2>7, <3>2 DEF Core
      <4> QED
        BY <4>1, <4>2 DEF Core
    <3> QED
      BY <3>1, <3>2
  <2>10. Uninitialised' = Uninitialised /\ CommonCalls' = CommonCalls
        /\ \A g : Position(g)' = Position(g)
    BY <1>1, SameModule DEF Uninitialised
  <2>11. access' \subseteq CommonCalls'
    BY <2>3, <2>10 DEF Core
  <2>12. at' \in 0..Len(mod.funcs) /\ at' > 0 /\ next' \in 1..Len(Order') + 1
    BY <2>1, <2>3, <2>4
  <2> QED
    BY <1>1, <2>3, <2>8, <2>9, <2>10, <2>11, <2>12 DEF Core, Active
<1>3. ASSUME wrapped' = wrapped PROVE /\ at' = at /\ Order' = Order /\ Func' = Func
                                      /\ entryW' = entryW /\ returnList' = returnList
  BY <1>3 DEF wrapped, Order, Func
<1>4. CASE EndFunction
  BY <1>1, <1>3, <1>4, SameModule DEF EndFunction, Core, Active, Uninitialised
<1>5. CASE VisitPlain
  <2>1. Len(Order) \in Nat
    BY <1>5, AtHand DEF VisitPlain, AtWrapper, Active
  <2> QED
    BY <1>1, <1>3, <1>5, <2>1, SameModule
    DEF VisitPlain, AtWrapper, Core, Active, Uninitialised
<1>6. CASE VisitSkippedCall
  <2>1. Len(Order) \in Nat
    BY <1>6, AtHand DEF VisitSkippedCall, AtWrapper, Active
  <2> QED
    BY <1>1, <1>3, <1>6, <2>1, SameModule
    DEF VisitSkippedCall, AtWrapper, Core, Active, Uninitialised
<1>7. CASE ConnectEntry
  <2>1. next \in 1..Len(Order) /\ InstW \in Wrappers(mod)
    BY <1>7, AtHand DEF ConnectEntry, AtWrapper, Active, Core
  <2>2. InstW \in CommonCalls /\ Callee(InstW) \in Functions(mod)
    BY <1>1, <1>7, <2>1, CommonCall DEF ConnectEntry, ToProcess
  <2>3. next' = next /\ InstW' = InstW /\ Returns' = Returns
    BY <1>1, <1>3, <1>7, SameModule DEF ConnectEntry, InstW, Returns
  <2>4. Len(Returns) \in Nat
    BY <2>2 DEF Core, Returns
  <2> QED
    BY <1>1, <1>3, <1>7, <2>1, <2>2, <2>3, <2>4, SameModule
    DEF ConnectEntry, AtWrapper, Core, Active, Uninitialised
<1>8. CASE ConnectReturn
  <2>1. next' = next /\ InstW' = InstW /\ Returns' = Returns
    BY <1>1, <1>3, <1>8, SameModule DEF ConnectReturn, InstW, Returns
  <2>2. InstW \in CommonCalls /\ Callee(InstW) \in Functions(mod)
    BY <1>8 DEF ConnectReturn, Core, CommonCalls
  <2>3. Len(Returns) \in Nat
    BY <2>2 DEF Core, Returns
  <2> QED
    BY <1>1, <1>3, <1>8, <2>1, <2>2, <2>3, SameModule
    DEF ConnectReturn, Core, Active, Uninitialised
<1>9. CASE Connected
  <2>1. Len(Order) \in Nat
    BY <1>9, AtHand DEF Connected, Active
  <2> QED
    BY <1>1, <1>3, <1>9, <2>1, SameModule DEF Connected, Core, Active, Uninitialised
<1>10. CASE AddDependents
  <2>1. Len(Order) \in Nat
    BY <1>10, AtHand DEF AddDependents, Active
  <2> QED
    BY <1>1, <1>3, <1>10, <2>1, SameModule DEF AddDependents, Core, Active, Uninitialised
<1>11. CASE EndDependents
  <2>1. Len(Order) \in Nat
    BY <1>11, AtHand DEF EndDependents, Active
  <2> QED
    BY <1>1, <1>3, <1>11, <2>1, SameModule DEF EndDependents, Core, Active, Uninitialised
<1>12. CASE Finish
  BY <1>1, <1>3, <1>12, SameModule DEF Finish, Core, Active, Uninitialised
<1>13. CASE UNCHANGED vars
  BY <1>13, SameModule DEF vars, Core, Order, Func, InstW, Returns, Uninitialised
<1> QED
  BY <1>2, <1>4, <1>5, <1>6, <1>7, <1>8, <1>9, <1>10, <1>11, <1>12, <1>13 DEF Next

-----------------------------------------------------------------------------
(***************************************************************************)
(* What each step adds to the graph.                                         *)
(***************************************************************************)
Extends(g, h, S) == IsGraph(h, Data, LinkTypes) /\ LinksOf(h) = LinksOf(g) \union S

LEMMA OneLink ==
    ASSUME mod \in Modules, NEW g, IsGraph(g, Data, LinkTypes),
           NEW from \in Data, NEW to \in Data, NEW type \in LinkTypes
    PROVE  Extends(g, AddDependency(g, from, to, type), {<<from, to, type>>})
<1>1. NoData \notin Data
  BY ModuleFacts
<1>2. /\ IsGraph(AddDependency(g, from, to, type), Data, LinkTypes)
      /\ LinkAdded(g, from, to, type, AddDependency(g, from, to, type))
  BY <1>1, AddEffect
<1> QED
  BY <1>2 DEF LinkAdded, Extends

EntryLink == <<InstW, entryW[Callee(InstW)], "DATA_GENERAL">>
ReturnEdge == <<Returns[inner], InstW, "DATA_GENERAL">>
GlobalLinks(v) == {e \in {<<mod.global[v], v, "GLOBAL_VALUE">>} : v \in DOMAIN mod.global}
DataLinks(w, v) ==
    {e \in {<<w, v, DataType(w, v)>>} : Kind(w) # "entry" /\ <<w, v>> \in mod.ddg}
ControlLinks(w, v) ==
    {e \in {<<w, v, "CONTROL">>} : Kind(v) # "entry" /\ <<w, v>> \in mod.cdg}
DependenceLinks(w, v) == GlobalLinks(v) \union DataLinks(w, v) \union ControlLinks(w, v)

Grows(S) == LinksOf(pdg') = LinksOf(pdg) \union S

LEMMA GraphStep ==
    ASSUME Core, GraphOK, [Next]_vars
    PROVE  /\ GraphOK'
           /\ ConnectEntry => Grows({EntryLink})
           /\ ConnectReturn => Grows({e \in {ReturnEdge} : HasValue(Returns[inner])})
           /\ AddDependents => Grows(DependenceLinks(InstW, Order[inner]))
           /\ ~(ConnectEntry \/ ConnectReturn \/ AddDependents) => pdg' = pdg
<1>1. mod' = mod /\ mod \in Modules /\ Data' = Data
  BY SameModule
  DEF Core, Next, vars, wrapped, BeginFunction, EndFunction, VisitPlain, VisitSkippedCall,
      ConnectEntry, ConnectReturn, Connected, AddDependents, EndDependents, Finish
<1>2. NoData \notin Data
  BY <1>1, ModuleFacts
<1>3. Wrappers(mod) \subseteq Data /\ Uninitialised \subseteq Data /\ GlobalsOf(mod) \subseteq Data
  BY DEF Data
<1>4. ASSUME ConnectEntry PROVE GraphOK' /\ Grows({EntryLink})
  <2>1. next \in 1..Len(Order) /\ InstW \in Wrappers(mod)
    BY <1>4, AtHand DEF ConnectEntry, AtWrapper, Active, Core
  <2>2. InstW \in CommonCalls /\ Callee(InstW) \in Functions(mod)
    BY <1>1, <1>4, <2>1, CommonCall DEF ConnectEntry, ToProcess
  <2>3. entryW[Callee(InstW)] \in Data
    BY <1>3, <2>2 DEF Core
  <2>4. pdg' = AddDependency(pdg, InstW, entryW[Callee(InstW)], "DATA_GENERAL")
    BY <1>4 DEF ConnectEntry
  <2>5. Extends(pdg, pdg', {EntryLink})
    BY <1>1, <1>3, <2>1, <2>3, <2>4, OneLink DEF GraphOK, LinkTypes, EntryLink
  <2> QED
    BY <1>1, <2>5 DEF Extends, GraphOK, LinkTypes, Grows
<1>5. ASSUME ConnectReturn
      PROVE  GraphOK' /\ Grows({e \in {ReturnEdge} : HasValue(Returns[inner])})
  <2>1. InstW \in CommonCalls /\ Callee(InstW) \in Functions(mod) /\ InstW \in Wrappers(mod)
    BY <1>5 DEF ConnectReturn, Core, CommonCalls, Calls, CallsOf
  <2>2. Returns[inner] \in Wrappers(mod)
    BY <1>5, <2>1 DEF Core, Returns, ConnectReturn
  <2>3. CASE HasValue(Returns[inner])
    <3>1. pdg' = AddDependency(pdg, Returns[inner], InstW, "DATA_GENERAL")
      BY <1>5, <2>3 DEF ConnectReturn, ReturnLink, AddIf
    <3>2. Extends(pdg, pdg', {ReturnEdge})
      BY <1>1, <1>3, <2>1, <2>2, <3>1, OneLink DEF GraphOK, LinkTypes, ReturnEdge
    <3> QED
      BY <1>1, <2>3, <3>2 DEF Extends, GraphOK, LinkTypes, Grows
  <2>4. CASE ~HasValue(Returns[inner])
    <3>1. pdg' = pdg
      BY <1>5, <2>4 DEF ConnectReturn, ReturnLink, AddIf
    <3> QED
      BY <1>1, <2>4, <3>1 DEF GraphOK, LinkTypes, Grows
  <2> QED
    BY <2>3, <2>4
<1>6. ASSUME AddDependents PROVE GraphOK' /\ Grows(DependenceLinks(InstW, Order[inner]))
  <2> DEFINE v == Order[inner]
             w == InstW
             g1 == GlobalLink(pdg, v)
             g2 == DataLink(g1, w, v)
             g3 == ControlLink(g2, w, v)
  <2>1. w \in Data /\ v \in Data
    BY <1>3, <1>6, AtHand DEF AddDependents, Active, Core
  <2>2. Extends(pdg, g1, GlobalLinks(v))
    <3>1. CASE v \in DOMAIN mod.global
      <4>1. mod.global[v] \in Data
        BY <1>3, <3>1 DEF GlobalsOf
      <4>2. g1 = AddDependency(pdg, mod.global[v], v, "GLOBAL_VALUE")
        BY <3>1 DEF GlobalLink, AddIf
      <4>3. Extends(pdg, g1, {<<mod.global[v], v, "GLOBAL_VALUE">>})
        BY <1>1, <2>1, <4>1, <4>2, OneLink DEF GraphOK, LinkTypes
      <4> QED
        BY <3>1, <4>3 DEF GlobalLinks
    <3>2. CASE v \notin DOMAIN mod.global
      BY <3>2 DEF GlobalLink, AddIf, GlobalLinks, Extends, GraphOK
    <3> QED
      BY <3>1, <3>2
  <2>3. Extends(g1, g2, DataLinks(w, v))
    <3> HIDE DEF g1
    <3>1. IsGraph(g1, Data, LinkTypes) /\ DataType(w, v) \in LinkTypes
      BY <2>2 DEF Extends, DataType, LinkTypes
    <3>2. CASE Kind(w) # "entry" /\ <<w, v>> \in mod.ddg
      <4>1. g2 = AddDependency(g1, w, v, DataType(w, v))
        BY <3>2 DEF DataLink, AddIf
      <4>2. Extends(g1, g2, {<<w, v, DataType(w, v)>>})
        BY <1>1, <2>1, <3>1, <4>1, OneLink
      <4> QED
        BY <3>2, <4>2 DEF DataLinks
    <3>3. CASE ~(Kind(w) # "entry" /\ <<w, v>> \in mod.ddg)
      BY <3>1, <3>3 DEF DataLink, AddIf, DataLinks, Extends
    <3> QED
      BY <3>2, <3>3
  <2>4. Extends(g2, g3, ControlLinks(w, v))
    <3> HIDE DEF g2
    <3>1. IsGraph(g2, Data, LinkTypes) /\ "CONTROL" \in LinkTypes
      BY <2>3 DEF Extends, LinkTypes
    <3>2. CASE Kind(v) # "entry" /\ <<w, v>> \in mod.cdg
      <4>1. g3 = AddDependency(g2, w, v, "CONTROL")
        BY <3>2 DEF ControlLink, AddIf
      <4>2. Extends(g2, g3, {<<w, v, "CONTROL">>})
        BY <1>1, <2>1, <3>1, <4>1, OneLink
      <4> QED
        BY <3>2, <4>2 DEF ControlLinks
    <3>3. CASE ~(Kind(v) # "entry" /\ <<w, v>> \in mod.cdg)
      BY <3>1, <3>3 DEF ControlLink, AddIf, ControlLinks, Extends
    <3> QED
      BY <3>2, <3>3
  <2>5. pdg' = g3
    BY <1>6 DEF AddDependents
  <2> HIDE DEF g1, g2, g3
  <2>6. Grows(DependenceLinks(w, v))
    BY <2>2, <2>3, <2>4, <2>5 DEF Extends, Grows, DependenceLinks
  <2> QED
    BY <1>1, <2>4, <2>5, <2>6 DEF Extends, GraphOK, LinkTypes
<1>7. ~(ConnectEntry \/ ConnectReturn \/ AddDependents) => pdg' = pdg
  BY DEF Next, vars, BeginFunction, EndFunction, VisitPlain, VisitSkippedCall,
         Connected, EndDependents, Finish
<1>8. pdg' = pdg => GraphOK'
  BY <1>1 DEF GraphOK, LinkTypes
<1> QED
  BY <1>4, <1>5, <1>6, <1>7, <1>8

-----------------------------------------------------------------------------
(***************************************************************************)
(* Every link has a reason, which no later step takes away.                   *)
(***************************************************************************)
LEMMA SoundStep == Core /\ GraphOK /\ Sound /\ [Next]_vars => Sound'
<1> SUFFICES ASSUME Core, GraphOK, Sound, [Next]_vars PROVE Sound'
  OBVIOUS
<1>1. mod' = mod /\ mod \in Modules
  BY DEF Core, Next, vars, wrapped, BeginFunction, EndFunction, VisitPlain, VisitSkippedCall,
         ConnectEntry, ConnectReturn, Connected, AddDependents, EndDependents, Finish
<1>2. \A e : Reason(e)' <=> Reason(e)
  BY <1>1, SameModule DEF Reason, IsCallLink, IsReturnLink, Uninitialised
<1>3. SUFFICES ASSUME NEW e \in LinksOf(pdg') PROVE Reason(e)
  BY <1>2 DEF Sound
<1>4. CASE e \in LinksOf(pdg)
  BY <1>4 DEF Sound
<1>5. CASE ConnectEntry /\ e = EntryLink
  <2>1. next \in 1..Len(Order) /\ InstW \in Wrappers(mod)
    BY <1>5, AtHand DEF ConnectEntry, AtWrapper, Active, Core
  <2>2. InstW \in CommonCalls /\ Callee(InstW) \in Functions(mod)
    BY <1>1, <1>5, <2>1, CommonCall DEF ConnectEntry, ToProcess
  <2>3. entryW[Callee(InstW)] \in {mod.entry[Callee(InstW)]} \union Uninitialised
    BY <2>2 DEF Core
  <2> QED
    BY <1>5, <2>2, <2>3 DEF EntryLink, Reason, IsCallLink
<1>6. CASE ConnectReturn /\ e = ReturnEdge
  <2>1. InstW \in CommonCalls /\ Callee(InstW) \in Functions(mod)
    BY <1>6 DEF ConnectReturn, Core, CommonCalls
  <2>2. inner \in 1..Len(Returns)
    BY <1>6, <2>1 DEF Core, Returns, ConnectReturn
  <2>3. Returns = mod.returns[Callee(InstW)] \/ Returns = <<>>
    BY <2>1 DEF Returns, Core
  <2>4. Returns[inner] \in ToSet(mod.returns[Callee(InstW)])
    <3>1. CASE Returns = mod.returns[Callee(InstW)]
      BY <1>1, <2>1, <2>2, <3>1, ReturnFacts
    <3>2. CASE Returns = <<>>
      BY <2>2, <3>2
    <3> QED
      BY <2>3, <3>1, <3>2
  <2> QED
    BY <1>6, <2>1, <2>4 DEF ReturnEdge, Reason, IsReturnLink
<1>7. CASE AddDependents /\ e \in DependenceLinks(InstW, Order[inner])
  BY <1>7 DEF DependenceLinks, GlobalLinks, DataLinks, ControlLinks, Reason, GlobalsOf
<1> QED
  BY <1>4, <1>5, <1>6, <1>7, GraphStep DEF Grows

-----------------------------------------------------------------------------
(***************************************************************************)
(* What is behind nodeIt, and what a step adds to it.                        *)
(***************************************************************************)
LEMMA TakenStep ==
    ASSUME Core, [Next]_vars, NEW w, Taken(w)'
    PROVE  \/ Taken(w)
           \/ (VisitSkippedCall \/ EndDependents) /\ w = InstW
<1>1. mod' = mod /\ mod \in Modules
  BY DEF Core, Next, vars, wrapped, BeginFunction, EndFunction, VisitPlain, VisitSkippedCall,
         ConnectEntry, ConnectReturn, Connected, AddDependents, EndDependents, Finish
<1>2. CASE BeginFunction
  <2>1. Ended' = Ended /\ next' = 1
    BY <1>2 DEF BeginFunction, Ended, Active, Core
  <2> QED
    BY <1>1, <2>1 DEF Taken, In
<1>3. CASE EndFunction
  <2>1. pc = "wrapper" /\ pc' = "function" /\ at' = at /\ at \in Nat /\ at > 0 /\ pc \in Active
        /\ next = Len(Order) + 1 /\ Len(Order) \in Nat
    <3>1. pc = "wrapper" /\ pc' = "function" /\ at' = at /\ next > Len(Order) /\ pc \in Active
      BY <1>3 DEF EndFunction, wrapped, Active
    <3> QED
      BY <3>1, AtHand DEF Core
  <2>2. PICK n \in 1..at : w \in In(mod, mod.funcs[n])
    BY <1>1, <2>1 DEF Taken, Ended, Active, In
  <2>3. CASE n = at
    <3>1. w \in In(mod, Func) /\ Func \in Functions(mod)
      BY <2>1, <2>2, <2>3, AtHand DEF Func
    <3>2. PICK k \in 1..Len(Order) : w = Order[k]
      BY <1>1, <3>1, Places DEF Order
    <3> QED
      BY <2>1, <3>2 DEF Taken
  <2>4. CASE n # at
    BY <2>1, <2>2, <2>4 DEF Taken, Ended
  <2> QED
    BY <2>3, <2>4
<1>4. ASSUME at' = at, pc \in Active, pc' \in Active, next' = next PROVE Taken(w)
  BY <1>1, <1>4 DEF Taken, Ended, In, Order, Func
<1>5. CASE VisitSkippedCall \/ EndDependents
  <2>1. at' = at /\ pc \in Active /\ pc' \in Active /\ next' = next + 1 /\ next \in Nat
    BY <1>5, AtHand DEF VisitSkippedCall, AtWrapper, EndDependents, wrapped, Active, Core
  <2>2. CASE \E n \in 1..Ended' : w \in In(mod, mod.funcs[n])
    BY <2>1, <2>2 DEF Taken, Ended
  <2>3. CASE \E k \in 1..next : w = Order[k]
    BY <1>5, <2>1, <2>3 DEF Taken, InstW
  <2> QED
    BY <1>1, <2>1, <2>2, <2>3 DEF Taken, In, Order, Func
<1>6. CASE Finish
  BY <1>1, <1>6 DEF Finish, Taken, Ended, In, Order, Func, Active, wrapped
<1>7. CASE UNCHANGED vars
  BY <1>7 DEF vars, Taken, Ended, In, Order, Func
<1> QED
  BY <1>2, <1>3, <1>4, <1>5, <1>6, <1>7
  DEF Next, VisitPlain, AtWrapper, ConnectEntry, ConnectReturn, Connected, AddDependents,
      wrapped, Active

-----------------------------------------------------------------------------
(***************************************************************************)
(* The dependences of what is taken are complete.                            *)
(***************************************************************************)
LEMMA DependentsStep == Core /\ GraphOK /\ Dependents /\ [Next]_vars => Dependents'
<1> SUFFICES ASSUME Core, GraphOK, Dependents, [Next]_vars PROVE Dependents'
  OBVIOUS
<1>1. mod' = mod /\ mod \in Modules
  BY DEF Core, Next, vars, wrapped, BeginFunction, EndFunction, VisitPlain, VisitSkippedCall,
         ConnectEntry, ConnectReturn, Connected, AddDependents, EndDependents, Finish
<1>2. Skipped' = Skipped
  BY <1>1, SameModule DEF Skipped
<1>3. LinksOf(pdg) \subseteq LinksOf(pdg')
  BY GraphStep DEF Grows
<1>4. /\ \A w, v : Complete(w, v) => CompleteIn(pdg', w, v)
      /\ \A w, v : CompleteIn(pdg', w, v) <=> Complete(w, v)'
  BY <1>1, <1>3, SameModule DEF Complete, CompleteIn
<1>5. ASSUME NEW w \in Wrappers(mod) \ Skipped, NEW v \in Wrappers(mod), Taken(w)'
      PROVE  CompleteIn(pdg', w, v)
  <2>1. CASE Taken(w)
    BY <1>4, <2>1 DEF Dependents
  <2>2. CASE VisitSkippedCall /\ w = InstW
    <3>1. Kind(w) = "call" /\ Continues(w)
      BY <2>2 DEF VisitSkippedCall, ToProcess
    <3> QED
      BY <1>1, <3>1, CommonCall
  <2>3. CASE EndDependents /\ w = InstW
    <3>1. /\ pc = "dependents" /\ inner = Len(Order) + 1 /\ Len(Order) \in Nat
          /\ w \in In(mod, Func) /\ Func \in Functions(mod)
      <4>1. pc = "dependents" /\ inner > Len(Order) /\ pc \in Active
        BY <2>3 DEF EndDependents, Active
      <4> QED
        BY <2>3, <4>1, AtHand DEF Core
    <3>2. CASE v \in In(mod, Func)
      <4>1. PICK k \in 1..Len(Order) : v = Order[k]
        BY <1>1, <3>1, <3>2, Places DEF Order
      <4>2. k \in 1..inner - 1
        BY <3>1
      <4> QED
        BY <1>4, <2>3, <3>1, <4>1, <4>2 DEF Dependents
    <3>3. CASE v \notin In(mod, Func)
      <4>1. <<w, v>> \notin mod.cdg /\ <<w, v>> \notin mod.ddg
        BY <1>1, <3>1, <3>3, ModuleFacts DEF Local
      <4> QED
        BY <4>1 DEF CompleteIn
    <3> QED
      BY <3>2, <3>3
  <2> QED
    BY <1>5, <2>1, <2>2, <2>3, TakenStep
<1>6. ASSUME pc' = "dependents"
      PROVE  InstW' \notin Skipped /\ \A k \in 1..inner' - 1 : CompleteIn(pdg', InstW', Order'[k])
  <2>1. CASE VisitPlain
    <3>1. InstW' = InstW /\ inner' = 1 /\ InstW \in Wrappers(mod)
      BY <1>1, <2>1, AtHand
      DEF VisitPlain, AtWrapper, wrapped, InstW, Order, Func, Active, Core
    <3>2. InstW \notin Skipped
      BY <2>1 DEF VisitPlain, ToProcess, Skipped, Calls, CallsOf, Kind, Core
    <3> QED
      BY <3>1, <3>2
  <2>2. CASE Connected
    <3>1. InstW' = InstW /\ inner' = 1 /\ InstW \in CommonCalls
      BY <1>1, <2>2 DEF Connected, wrapped, InstW, Order, Func, Core
    <3> QED
      BY <3>1 DEF Skipped
  <2>3. CASE AddDependents
    <3>1. /\ InstW' = InstW /\ Order' = Order /\ inner' = inner + 1 /\ pc = "dependents"
          /\ inner \in 1..Len(Order) /\ Len(Order) \in Nat
      <4>1. InstW' = InstW /\ Order' = Order /\ inner' = inner + 1 /\ pc = "dependents"
            /\ inner <= Len(Order) /\ pc \in Active
        BY <1>1, <2>3 DEF AddDependents, wrapped, InstW, Order, Func, Active
      <4> QED
        BY <4>1, AtHand DEF Core
    <3>2. InstW \in Wrappers(mod) /\ Order[inner] \in Wrappers(mod)
      BY <3>1, AtHand DEF Active, Core
    <3>3. CompleteIn(pdg', InstW, Order[inner])
      <4>1. DependenceLinks(InstW, Order[inner]) \subseteq LinksOf(pdg')
        BY <2>3, GraphStep DEF Grows
      <4>2. <<InstW, Order[inner]>> \in mod.cdg => Kind(Order[inner]) # "entry"
        BY <1>1, ModuleFacts DEF Kind
      <4>3. <<InstW, Order[inner]>> \in mod.ddg => Kind(InstW) # "entry"
        BY <1>1, ModuleFacts DEF Kind
      <4>4. <<InstW, Order[inner]>> \in mod.cdg
                => <<InstW, Order[inner], "CONTROL">> \in LinksOf(pdg')
        BY <4>1, <4>2 DEF DependenceLinks, ControlLinks
      <4>5. <<InstW, Order[inner]>> \in mod.ddg
                => <<InstW, Order[inner], DataType(InstW, Order[inner])>> \in LinksOf(pdg')
        BY <4>1, <4>3 DEF DependenceLinks, DataLinks
      <4> QED
        BY <4>4, <4>5 DEF CompleteIn
    <3> QED
      BY <1>4, <3>1, <3>3 DEF Dependents
  <2>4. CASE UNCHANGED vars
    BY <1>4, <1>6, <2>4 DEF vars, InstW, Order, Func, Dependents
  <2> QED
    BY <1>6, <2>1, <2>2, <2>3, <2>4
    DEF Next, BeginFunction, EndFunction, VisitSkippedCall, AtWrapper, ConnectEntry,
        ConnectReturn, EndDependents, Finish, wrapped
<1> QED
  <2>1. \A w \in Wrappers(mod)' \ Skipped' :
            Taken(w)' => \A v \in Wrappers(mod)' : Complete(w, v)'
    BY <1>1, <1>2, <1>4, <1>5
  <2>2. \A w, v : CompleteIn(pdg', w, v) <=> CompleteIn(pdg, w, v)'
    BY <1>1, SameModule DEF CompleteIn
  <2> QED
    BY <1>2, <1>6, <2>1, <2>2 DEF Dependents, Complete

-----------------------------------------------------------------------------
(***************************************************************************)
(* The common calls that are taken were connected.                           *)
(***************************************************************************)
LEMMA AccessStep == Core /\ GraphOK /\ AccessOK /\ [Next]_vars => AccessOK'
<1> SUFFICES ASSUME Core, GraphOK, AccessOK, [Next]_vars PROVE AccessOK'
  OBVIOUS
<1>1. mod' = mod /\ mod \in Modules
  BY DEF Core, Next, vars, wrapped, BeginFunction, EndFunction, VisitPlain, VisitSkippedCall,
         ConnectEntry, ConnectReturn, Connected, AddDependents, EndDependents, Finish
<1>2. LinksOf(pdg) \subseteq LinksOf(pdg')
  BY GraphStep DEF Grows
<1>3. /\ \A w : EntryLinked(pdg, w) => EntryLinked(pdg', w)
      /\ \A r, w : Answered(pdg, r, w) => Answered(pdg', r, w)
      /\ \A w : Joined(pdg, w) => Joined(pdg', w)
  BY <1>2 DEF EntryLinked, Answered, Joined
<1>4. /\ \A w : EntryLinked(pdg', w) <=> EntryLinked(pdg, w)'
      /\ \A r, w : Answered(pdg', r, w) <=> Answered(pdg, r, w)'
      /\ \A w : Joined(pdg', w) <=> Joined(pdg, w)'
  BY <1>1, SameModule DEF EntryLinked, Answered, Joined, HasValue
<1>5. ASSUME NEW w \in access' PROVE Joined(pdg', w)
  <2>1. CASE w \in access
    BY <1>3, <2>1 DEF AccessOK
  <2>2. CASE Connected /\ w = InstW
    <3>1. /\ pc = "returns" /\ inner > Len(Returns) /\ InstW \in CommonCalls
          /\ Callee(InstW) \in Functions(mod) /\ pc \in Active /\ pc # "wrapper"
      BY <2>2 DEF Connected, Core, CommonCalls, Active
    <3>2. FunctionOf(InstW) = Func /\ Position(Func) = at
      BY <3>1, AtHand DEF Core
    <3>3. SUFFICES ASSUME Position(Callee(InstW)) <= at
                   PROVE  /\ EntryLinked(pdg, InstW)
                          /\ \A r \in ToSet(mod.returns[Callee(InstW)]) : Answered(pdg, r, InstW)
      BY <1>3, <2>2, <3>2 DEF Joined
    <3>4. Returns = mod.returns[Callee(InstW)]
      BY <3>1, <3>3 DEF Core, Returns
    <3>5. ASSUME NEW r \in ToSet(mod.returns[Callee(InstW)]) PROVE Answered(pdg, r, InstW)
      <4>1. PICK k \in 1..Len(Returns) : r = Returns[k]
        BY <1>1, <3>1, <3>4, ReturnFacts
      <4>2. k \in 1..inner - 1
        BY <3>1, <4>1 DEF Core
      <4> QED
        BY <3>1, <3>3, <4>1, <4>2 DEF AccessOK
    <3> QED
      BY <3>1, <3>3, <3>5 DEF AccessOK
  <2> QED
    BY <1>5, <2>1, <2>2
    DEF Next, vars, BeginFunction, EndFunction, VisitPlain, VisitSkippedCall, ConnectEntry,
        ConnectReturn, Connected, AddDependents, EndDependents, Finish
<1>6. ASSUME NEW w \in CommonCalls, Taken(w)' \/ (pc' = "dependents" /\ w = InstW')
      PROVE  w \in access'
  <2>1. access \subseteq access'
    BY DEF Next, vars, BeginFunction, EndFunction, VisitPlain, VisitSkippedCall, ConnectEntry,
           ConnectReturn, Connected, AddDependents, EndDependents, Finish
  <2>2. CASE Taken(w)
    BY <2>1, <2>2 DEF AccessOK
  <2>3. CASE VisitSkippedCall /\ w = InstW
    <3>1. w \in Wrappers(mod) /\ Kind(w) = "call" /\ Continues(w)
      BY <2>3 DEF VisitSkippedCall, ToProcess, CommonCalls, Calls, CallsOf
    <3> QED
      BY <1>1, <3>1, CommonCall DEF Skipped
  <2>4. CASE EndDependents /\ w = InstW
    BY <2>1, <2>4 DEF EndDependents, AccessOK
  <2>5. CASE pc' = "dependents" /\ w = InstW'
    <3>1. CASE VisitPlain
      <4>1. w = InstW /\ ~ToProcess(w)
        BY <1>1, <2>5, <3>1 DEF VisitPlain, wrapped, InstW, Order, Func
      <4> QED
        BY <2>1, <4>1 DEF ToProcess, CommonCalls, Calls, CallsOf, Kind
    <3>2. CASE Connected
      BY <1>1, <2>5, <3>2 DEF Connected, wrapped, InstW, Order, Func
    <3>3. CASE AddDependents \/ UNCHANGED vars
      <4>1. pc = "dependents" /\ w = InstW
        BY <1>1, <2>5, <3>3 DEF AddDependents, vars, wrapped, InstW, Order, Func
      <4> QED
        BY <2>1, <4>1 DEF AccessOK
    <3> QED
      BY <2>5, <3>1, <3>2, <3>3
      DEF Next, BeginFunction, EndFunction, VisitSkippedCall, AtWrapper, ConnectEntry,
          ConnectReturn, EndDependents, Finish, wrapped
  <2> QED
    BY <1>6, <2>2, <2>3, <2>4, <2>5, TakenStep
<1>7. ASSUME pc' = "returns", Position(Callee(InstW')) <= at'
      PROVE  /\ EntryLinked(pdg', InstW')
             /\ \A k \in 1..inner' - 1 : Answered(pdg', Returns'[k], InstW')
  <2>1. CASE ConnectEntry
    <3>1. InstW' = InstW /\ at' = at /\ inner' = 1
      BY <1>1, <2>1 DEF ConnectEntry, wrapped, InstW, Order, Func
    <3>2. next \in 1..Len(Order) /\ InstW \in Wrappers(mod)
      BY <2>1, AtHand DEF ConnectEntry, AtWrapper, Active, Core
    <3>3. Callee(InstW) \in Functions(mod)
      BY <1>1, <2>1, <3>2, CommonCall DEF ConnectEntry, ToProcess
    <3>4. entryW[Callee(InstW)] = mod.entry[Callee(InstW)]
      BY <1>7, <3>1, <3>3 DEF Core
    <3>5. EntryLink \in LinksOf(pdg')
      BY <2>1, GraphStep DEF Grows
    <3> QED
      BY <3>1, <3>4, <3>5 DEF EntryLink, EntryLinked
  <2>2. CASE ConnectReturn
    <3>1. /\ InstW' = InstW /\ at' = at /\ inner' = inner + 1 /\ Returns' = Returns
          /\ pc = "returns" /\ inner \in Nat
      <4>1. InstW' = InstW /\ at' = at /\ inner' = inner + 1 /\ returnList' = returnList
            /\ pc = "returns"
        BY <1>1, <2>2 DEF ConnectReturn, wrapped, InstW, Order, Func
      <4> QED
        BY <1>1, <4>1, SameModule DEF Core, Returns
    <3>2. HasValue(Returns[inner]) => ReturnEdge \in LinksOf(pdg')
      BY <2>2, GraphStep DEF Grows
    <3>3. Answered(pdg', Returns[inner], InstW)
      BY <3>2 DEF Answered, ReturnEdge
    <3>4. /\ EntryLinked(pdg', InstW)
          /\ \A k \in 1..inner - 1 : Answered(pdg', Returns[k], InstW)
      BY <1>3, <1>7, <3>1 DEF AccessOK
    <3>5. \A k \in 1..inner' - 1 : k \in 1..inner - 1 \/ k = inner
      BY <3>1
    <3> QED
      BY <3>1, <3>3, <3>4, <3>5
  <2>3. CASE UNCHANGED vars
    BY <1>7, <2>3 DEF vars, InstW, Order, Func, Returns, Callee, AccessOK
  <2> QED
    BY <1>7, <2>1, <2>2, <2>3
    DEF Next, BeginFunction, EndFunction, VisitPlain, VisitSkippedCall, AtWrapper,
        Connected, AddDependents, EndDependents, Finish, wrapped
<1>8. /\ \A w \in access' : Joined(pdg, w)'
      /\ \A w \in CommonCalls' : Taken(w)' \/ (pc' = "dependents" /\ w = InstW') => w \in access'
  BY <1>1, <1>4, <1>5, <1>6, SameModule
<1>9. \A w : Callee(w)' = Callee(w) /\ \A f : Position(f)' = Position(f)
  BY <1>1, SameModule
<1> QED
  BY <1>4, <1>7, <1>8, <1>9 DEF AccessOK

-----------------------------------------------------------------------------
(***************************************************************************)
(* The theorems.                                                             *)
(***************************************************************************)
LEMMA InvInit == Init => IInv
<1> SUFFICES ASSUME Init PROVE IInv
  OBVIOUS
<1>1. Core
  BY CoreInit
<1>2. GraphOK /\ LinksOf(pdg) = {}
  BY <1>1, ModuleFacts, EmptyIsGraph DEF GraphOK, Init, Core
<1>3. pc = "function" /\ Ended = 0 /\ access = {} /\ \A w : ~Taken(w)
  BY DEF Init, Ended, Active, Taken
<1> QED
  BY <1>1, <1>2, <1>3 DEF IInv, Sound, Dependents, AccessOK

\* The construction keeps its invariant (lines 500 to 681).
THEOREM Inductive == Spec => []IInv
<1>1. IInv /\ [Next]_vars => IInv'
  BY CoreStep, GraphStep, SoundStep, DependentsStep, AccessStep DEF IInv
<1> QED
  BY <1>1, InvInit, PTL DEF Spec

\* The data of the construction are well typed, and each function wrapper holds
\* its entry and its returns from the moment its function is begun (lines 500 to
\* 570), whatever an uninitialised entry was before.
THEOREM TypeCorrect == Spec => []TypeOK
<1>1. IInv => TypeOK
  <2> SUFFICES ASSUME IInv PROVE TypeOK
    OBVIOUS
  <2>1. DOMAIN pdg.links \subseteq Data
    <3>1. pdg.nodes \in Seq(Data) /\ DOMAIN pdg.links = ToSet(pdg.nodes)
      BY DEF IInv, GraphOK, IsGraph
    <3>2. DOMAIN pdg.nodes = 1..Len(pdg.nodes) /\ \A i \in 1..Len(pdg.nodes) : pdg.nodes[i] \in Data
      BY <3>1
    <3> QED
      BY <3>1, <3>2 DEF ToSet
  <2>2. \A e \in LinksOf(pdg) : e[3] \in LinkTypes
    BY DEF IInv, Sound, Reason, DataType, LinkTypes
  <2> QED
    BY <2>1, <2>2 DEF IInv, Core, TypeOK, Data, LinkTypes, Active
<1> QED
  BY <1>1, Inductive, PTL

\* At the end every wrapper has been taken.
LEMMA AllTaken ==
    ASSUME Core, pc = "done", NEW w \in Wrappers(mod)
    PROVE  Taken(w)
<1>1. PICK f \in Functions(mod) : w \in In(mod, f)
  BY ModuleFacts DEF Core, Partitioned
<1>2. Position(f) \in 1..Ended /\ mod.funcs[Position(f)] = f
  BY <1>1, Places DEF Core, Ended, Active
<1> QED
  BY <1>1, <1>2 DEF Taken

\* No dependence of the two graphs of a function is lost, and none invented, in
\* any address order, but for the calls that continue skips (lines 626 to 679).
THEOREM KeepsDependences == Spec => []DependencesKept
<1>1. IInv => DependencesKept
  <2> SUFFICES ASSUME IInv, pc = "done", NEW w \in Wrappers(mod) \ (Calls \ CommonCalls)
               PROVE  {e \in LinksOf(pdg) : e[1] = w /\ e[3] # "DATA_GENERAL"} =
                        {<<w, v, "CONTROL">> : v \in {u \in Wrappers(mod) : <<w, u>> \in mod.cdg}}
                        \union
                        {<<w, v, IF Kind(w) = "store" /\ Kind(v) = "load"
                                 THEN "DATA_RAW" ELSE "DATA_DEF_USE">> :
                            v \in {u \in Wrappers(mod) : <<w, u>> \in mod.ddg}}
    BY DEF DependencesKept
  <2> DEFINE kept == {e \in LinksOf(pdg) : e[1] = w /\ e[3] # "DATA_GENERAL"}
             control == {<<w, v, "CONTROL">> : v \in {u \in Wrappers(mod) : <<w, u>> \in mod.cdg}}
             data == {<<w, v, DataType(w, v)>> : v \in {u \in Wrappers(mod) : <<w, u>> \in mod.ddg}}
  <2>1. mod \in Modules /\ w \notin GlobalsOf(mod) /\ w \notin Skipped
    BY ModuleFacts DEF IInv, Core, Skipped
  <2>2. Taken(w)
    BY AllTaken DEF IInv
  <2>3. ASSUME NEW e \in kept PROVE e \in control \union data
    <3>1. e = <<e[1], e[2], e[3]>>
      BY DEF LinksOf
    <3>2. \/ e[3] = "CONTROL" /\ <<w, e[2]>> \in mod.cdg
          \/ e[3] = DataType(w, e[2]) /\ <<w, e[2]>> \in mod.ddg
      BY <2>1, <2>3 DEF IInv, Sound, Reason
    <3>3. e[2] \in Wrappers(mod)
      BY <2>1, <3>2, ModuleFacts DEF Local
    <3> QED
      BY <2>3, <3>1, <3>2, <3>3
  <2>4. ASSUME NEW v \in Wrappers(mod), <<w, v>> \in mod.cdg PROVE <<w, v, "CONTROL">> \in kept
    BY <2>1, <2>2, <2>4 DEF IInv, Dependents, Complete, CompleteIn
  <2>5. ASSUME NEW v \in Wrappers(mod), <<w, v>> \in mod.ddg
        PROVE  <<w, v, DataType(w, v)>> \in kept
    <3>1. <<w, v, DataType(w, v)>> \in LinksOf(pdg)
      BY <2>1, <2>2, <2>5 DEF IInv, Dependents, Complete, CompleteIn
    <3> QED
      BY <3>1 DEF DataType
  <2>6. kept = control \union data
    BY <2>3, <2>4, <2>5
  <2> QED
    BY <2>6 DEF DataType
<1> QED
  BY <1>1, Inductive, PTL

\* A common call of a function that is built no later than its caller is joined
\* to its entry and to all its returns with a value (lines 374 to 403).
THEOREM ConnectsCalls == Spec => []CallsConnected
<1>1. IInv => CallsConnected
  <2> SUFFICES ASSUME IInv, pc = "done", NEW w \in CommonCalls,
                      Position(Callee(w)) <= Position(FunctionOf(w))
               PROVE  /\ <<w, mod.entry[Callee(w)], "DATA_GENERAL">> \in LinksOf(pdg)
                      /\ \A r \in ToSet(mod.returns[Callee(w)]) \intersect mod.valued :
                            <<r, w, "DATA_GENERAL">> \in LinksOf(pdg)
    BY DEF CallsConnected
  <2>1. Taken(w)
    BY AllTaken DEF IInv, CommonCalls, Calls, CallsOf
  <2>2. Joined(pdg, w)
    BY <2>1 DEF IInv, AccessOK
  <2> QED
    BY <2>2 DEF Joined, EntryLinked, Answered, HasValue
<1> QED
  BY <1>1, Inductive, PTL

\* A link from one function to another leads from a call to the entry of its
\* callee, or from a return of the callee to the call (lines 374 to 403); all
\* others stay in their function.
OnlyCallsJoinFunctions ==
    \A e \in LinksOf(pdg) :
        {e[1], e[2]} \subseteq Wrappers(mod) /\ FunctionOf(e[1]) # FunctionOf(e[2]) =>
            /\ e[3] = "DATA_GENERAL"
            /\ \/ e[1] \in CommonCalls /\ e[2] = mod.entry[Callee(e[1])]
               \/ e[2] \in CommonCalls /\ e[1] \in ToSet(mod.returns[Callee(e[2])])

\* Nothing but calls and returns joins two functions (lines 374 to 403).
THEOREM JoinedByCalls == Spec => []OnlyCallsJoinFunctions
<1>1. IInv => OnlyCallsJoinFunctions
  <2> SUFFICES ASSUME IInv, NEW e \in LinksOf(pdg), {e[1], e[2]} \subseteq Wrappers(mod),
                      FunctionOf(e[1]) # FunctionOf(e[2])
               PROVE  /\ e[3] = "DATA_GENERAL"
                      /\ \/ e[1] \in CommonCalls /\ e[2] = mod.entry[Callee(e[1])]
                         \/ e[2] \in CommonCalls /\ e[1] \in ToSet(mod.returns[Callee(e[2])])
    BY DEF OnlyCallsJoinFunctions
  <2>1. mod \in Modules
    BY DEF IInv, Core
  <2>2. e[1] \notin GlobalsOf(mod) /\ e[2] \notin Uninitialised
    BY <2>1, ModuleFacts
  <2>3. ASSUME NEW graph, Local(mod, graph), <<e[1], e[2]>> \in graph PROVE FALSE
    <3>1. PICK f \in Functions(mod) : e[1] \in In(mod, f)
      BY <2>1, ModuleFacts DEF Partitioned
    <3>2. e[2] \in In(mod, f)
      BY <2>3, <3>1 DEF Local
    <3> QED
      BY <2>1, <3>1, <3>2, Places
  <2>4. <<e[1], e[2]>> \notin mod.cdg /\ <<e[1], e[2]>> \notin mod.ddg
    BY <2>1, <2>3, ModuleFacts
  <2> QED
    BY <2>2, <2>4 DEF IInv, Sound, Reason, IsCallLink, IsReturnLink
<1> QED
  BY <1>1, Inductive, PTL

=============================================================================
