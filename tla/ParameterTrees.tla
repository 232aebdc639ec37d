--------------------------- MODULE ParameterTrees ---------------------------
(***************************************************************************)
(* The parameter trees: src/src/ConnectFunctions.cpp, ArgumentWrapper in    *)
(* src/include/FunctionWrapper.h, and the functions of                      *)
(* src/src/ProgramDependencies.cpp that draw and connect them (the branch   *)
(* PARAMETER_TREE == 1 of src/include/Config.h).  A formal tree unfolds the *)
(* type of an argument field by field, one step per field; copies of it     *)
(* stand for the value going in and out of the function and of each call.   *)
(* A function is the number of its entry wrapper, a call the number of its  *)
(* instruction's wrapper.                                                   *)
(***************************************************************************)
EXTENDS LinkedTrees, Integers

CONSTANTS
    TypeTable,      \* the types: [kind, contained] of each
    Programs,       \* functions, calls and the loads and stores between them
    MaxNodes,       \* bound: wrappers a program may create
    MaxBuilds       \* bound: times the actual trees of a call are built

ASSUME BoundsAssumption == MaxNodes \in Nat /\ MaxBuilds \in Nat \ {0}

Types == DOMAIN TypeTable

\* A pointer points to one type.
ASSUME TypesAssumption ==
    \A type \in Types :
        /\ TypeTable[type].contained \in Seq(Types)
        /\ TypeTable[type].kind = "pointer" => Len(TypeTable[type].contained) = 1

TreeTypes == {"ACTUAL_IN", "ACTUAL_OUT", "FORMAL_IN", "FORMAL_OUT"}
\* the loads, stores, returns, calls and entries are the program's own
Kinds == TreeTypes \union {"PARAMETER_FIELD", "ENTRY", "CALL", "LOAD", "STORE", "RETURN"}
Wrappers ==
    [kind : Kinds, func : Nat, type : Types \union {"none"}, fieldId : Int]

\* Functions and calls are wrappers of their program, which all fit.
ASSUME ProgramsAssumption ==
    \A p \in Programs :
        /\ p.wrappers \in Seq(Wrappers) /\ Len(p.wrappers) <= MaxNodes
        /\ p.args \in [DOMAIN p.args -> Seq(Types)]
        /\ p.callee \in [DOMAIN p.callee -> DOMAIN p.args]
        /\ DOMAIN p.args \union DOMAIN p.callee \subseteq DOMAIN p.wrappers
        /\ DOMAIN p.args \intersect DOMAIN p.callee = {}

VARIABLES
    prog,           \* the program, fixed
    nodes,          \* InstructionWrapper::nodes, numbered in creation order
    trees,          \* the four trees of the ArgumentWrappers
    id,             \* the static counter id of ConnectFunctions.cpp
    shared,         \* whether copyTree was compiled with that same counter
    frames,         \* the active calls of buildFormalTypeTree, the latest last
    arg,            \* the argument at hand: [func, pos]
    hasTrees,       \* the functions whose treeFlag is set
    builds,         \* how often the actual trees of a call were built
    connected,      \* the functions and calls connected so far
    deps            \* the dependency graph

vars == <<prog, nodes, trees, id, shared, frames, arg, hasTrees, builds,
          connected, deps>>

NoArgument == [func |-> 0, pos |-> 0]

Functions == DOMAIN prog.args
Calls == DOMAIN prog.callee
Callee(owner) == IF owner \in Calls THEN prog.callee[owner] ELSE owner
Positions(owner) == DOMAIN prog.args[Callee(owner)]
Keys == UNION {{owner} \X Positions(owner) \X TreeTypes : owner \in Functions \union Calls}
TreeOf(owner, pos, treeTy) == trees[<<owner, pos, treeTy>>]

Wrapper(kind, func, type, fieldId) ==
    [kind |-> kind, func |-> func, type |-> type, fieldId |-> fieldId]

-----------------------------------------------------------------------------
(* Types.                                                                   *)

IsPointer(type) == TypeTable[type].kind = "pointer"
Pointee(type) == Head(TypeTable[type].contained)
\* the types of the fields of what a pointer points to
Fields(type) == TypeTable[Pointee(type)].contained
\* FILE*, _IO_marker* and pointers to functions are not looked into
IsOpaque(type) ==
    IsPointer(type) /\ TypeTable[Pointee(type)].kind \in {"function", "file"}

-----------------------------------------------------------------------------
(* Building.                                                                *)

Init ==
    /\ prog \in Programs
    /\ nodes = prog.wrappers
    /\ trees = [key \in Keys |-> EmptyTree]
    /\ id = 0
    /\ shared \in BOOLEAN
    /\ frames = <<>>
    /\ arg = NoArgument
    /\ hasTrees = {}
    /\ builds = [call \in Calls |-> 0]
    /\ connected = {}
    /\ deps = {}

Room(n) == Len(nodes) + n <= MaxNodes
Idle == arg = NoArgument

\* activating buildFormalTypeTree for a field whose type and id are given: a
\* type that is no pointer has nothing to add
Activation(type, fieldId) ==
    IF IsPointer(type) THEN <<[type |-> type, fieldId |-> fieldId, i |-> 1]>> ELSE <<>>

Building == <<arg.func, arg.pos, "FORMAL_IN">>

\* buildFormalParameterTrees: one argument after another, then the flag
BuildFormalParameterTrees(func) ==
    /\ Idle
    /\ func \notin hasTrees
    /\ arg' = [func |-> func, pos |-> 1]
    /\ UNCHANGED <<prog, nodes, trees, id, shared, frames, hasTrees, builds,
                   connected, deps>>

ArgumentsDone ==
    /\ ~Idle
    /\ arg.pos \notin Positions(arg.func)
    /\ hasTrees' = hasTrees \union {arg.func}
    /\ arg' = NoArgument
    /\ UNCHANGED <<prog, nodes, trees, id, shared, frames, builds, connected, deps>>

\* buildFormalTree: set the root, and start at it unless it is opaque
BuildFormalTree ==
    /\ ~Idle
    /\ arg.pos \in Positions(arg.func)
    /\ IsEmpty(trees[Building])
    /\ Room(1)
    /\ LET type == prog.args[arg.func][arg.pos]
       IN  /\ nodes' = Append(nodes, Wrapper("FORMAL_IN", arg.func, type, id))
           /\ trees' = [trees EXCEPT ![Building] = SetHead(@, Len(nodes'))]
           /\ frames' = IF IsOpaque(type) THEN <<>> ELSE Activation(type, id)
    /\ id' = id + 1
    /\ UNCHANGED <<prog, shared, arg, hasTrees, builds, connected, deps>>

Top == Last(frames)

FieldId(t, n) == nodes[t[n].data].fieldId
FieldType(t, n) == nodes[t[n].data].type

\* the first node in the tree's order that has the id of the field at hand
InsertLocation(t) ==
    LET order == PreOrder(t)
    IN  order[SelectInSeq(order, LAMBDA n : FieldId(t, n) = Top.fieldId)]

MutRecursive(t, n) == FALSE
\* the type of n is that of an ancestor, its parent apart
Recursive(t, n) ==
    LET line == Lineage(t, n)
    IN  \E k \in 3..Len(line) : FieldType(t, line[k]) = FieldType(t, n)

MutSameId == id
MutNextId == IF Top.i = 1 THEN id ELSE id + 1
NextId == id + 1

\* one round of the loop over the fields: the field becomes a node, and is
\* looked into unless the type above it recurs or it is opaque itself
AddField ==
    /\ frames # <<>>
    /\ Top.i <= Len(Fields(Top.type))
    /\ Room(1)
    /\ \E loc \in {InsertLocation(trees[Building])} :
         LET type == Fields(Top.type)[Top.i]
         IN  /\ nodes' = Append(nodes, Wrapper("PARAMETER_FIELD", arg.func, type, id))
             /\ trees' = [trees EXCEPT ![Building] = AppendChild(@, loc, Len(nodes'))]
             /\ id' = NextId
             /\ frames' = [frames EXCEPT ![Len(frames)].i = @ + 1]
                              \o (IF Recursive(trees[Building], loc) \/ IsOpaque(type)
                                  THEN <<>> ELSE Activation(type, id))
    /\ UNCHANGED <<prog, shared, arg, hasTrees, builds, connected, deps>>

FieldsDone ==
    /\ frames # <<>>
    /\ Top.i > Len(Fields(Top.type))
    /\ frames' = Front(frames)
    /\ UNCHANGED <<prog, nodes, trees, id, shared, arg, hasTrees, builds,
                   connected, deps>>

-----------------------------------------------------------------------------
(* Copying.  copyTree assigns the tree, which copies the pointers to the     *)
(* wrappers, then walks both trees and gives every copied node a wrapper of  *)
(* its own.  first is the number of wrappers before that.                    *)

MutRenewed(t, source, first) ==
    LET order == PreOrder(t)
    IN  [n \in DOMAIN t |->
            IF \E k \in 2..Len(order) : order[k] = n
            THEN [t[n] EXCEPT !.data = first + (CHOOSE k \in DOMAIN order : order[k] = n)]
            ELSE t[n]]
Renewed(t, source, first) ==
    LET order == PreOrder(t)
        paired == {k \in DOMAIN order : k <= Len(PreOrder(source))}
    IN  [n \in DOMAIN t |->
            IF \E k \in paired : order[k] = n
            THEN [t[n] EXCEPT !.data = first + (CHOOSE k \in paired : order[k] = n)]
            ELSE t[n]]

\* copyTree, into the tree to of a state s; its type is the kind of its wrappers.
\* Nothing reads the ids of a copy, so those of a counter of its own start at 0.
CopyTree(s, from, to) ==
    LET source == s.trees[from]
        order == PreOrder(source)
        counter == IF shared THEN s.id ELSE 0
        Copied(k) == s.nodes[source[order[k]].data]
    IN  [nodes |-> s.nodes \o [k \in DOMAIN order |->
                       Wrapper(to[3], Copied(k).func, Copied(k).type, counter + k - 1)],
         trees |-> [s.trees EXCEPT ![to] = Renewed(Copy(source), source, Len(s.nodes))],
         id    |-> IF shared THEN s.id + Len(order) ELSE s.id]

Become(s) ==
    /\ Len(s.nodes) <= MaxNodes
    /\ nodes' = s.nodes
    /\ trees' = s.trees
    /\ id' = s.id

\* the argument's formal-in tree is complete: id is reset, the formal-out tree
\* copied with ids of whichever counter copyTree was compiled with
CopyFormalTree ==
    /\ ~Idle
    /\ frames = <<>>
    /\ arg.pos \in Positions(arg.func)
    /\ ~IsEmpty(trees[Building])
    /\ Become(CopyTree([nodes |-> nodes, trees |-> trees, id |-> 0],
                       Building, <<arg.func, arg.pos, "FORMAL_OUT">>))
    /\ arg' = [arg EXCEPT !.pos = @ + 1]
    /\ UNCHANGED <<prog, shared, frames, hasTrees, builds, connected, deps>>

\* for every argument of the call, an in and an out copy of the formal-in tree
\* of the callee
WithActualTrees(call) ==
    LET Formal(pos) == <<Callee(call), pos, "FORMAL_IN">>
        made[pos \in 0..Len(prog.args[Callee(call)])] ==
            IF pos = 0 THEN [nodes |-> nodes, trees |-> trees, id |-> id]
            ELSE CopyTree(CopyTree(made[pos - 1], Formal(pos), <<call, pos, "ACTUAL_IN">>),
                          Formal(pos), <<call, pos, "ACTUAL_OUT">>)
    IN  made[Len(prog.args[Callee(call)])]

BuildActualParameterTrees(call) ==
    /\ Idle
    /\ Callee(call) \in hasTrees
    /\ call \notin connected
    /\ builds[call] < MaxBuilds
    /\ Become(WithActualTrees(call))
    /\ builds' = [builds EXCEPT ![call] = @ + 1]
    /\ UNCHANGED <<prog, shared, frames, arg, hasTrees, connected, deps>>

-----------------------------------------------------------------------------
(* Drawing and connecting.                                                  *)

Edge(from, to, type) == [from |-> from, to |-> to, type |-> type]
Data(t, n) == t[n].data
Root(owner, pos, treeTy) ==
    Data(TreeOf(owner, pos, treeTy), Begin(TreeOf(owner, pos, treeTy)))

\* drawFormalParameterTree, drawActualParameterTree: parent to child
TreeEdges(owner, treeTy) ==
    UNION {LET t == TreeOf(owner, pos, treeTy)
           IN  UNION {{Edge(Data(t, n), Data(t, child), "PARAMETER") :
                           child \in ToSet(Children(t, n))} : n \in ToSet(PreOrder(t))}
           : pos \in Positions(owner)}

MutStopsEarly(from, to) ==
    LET a == PreOrder(from)
        b == PreOrder(to)
    IN  {Edge(Data(from, a[k]), Data(to, b[k]), "PARAMETER") : k \in 1..Len(a) - 1}
\* two iterators advanced together connect node after node, until the first ends
Lockstep(from, to) ==
    LET a == PreOrder(from)
        b == PreOrder(to)
    IN  {Edge(Data(from, a[k]), Data(to, b[k]), "PARAMETER") : k \in DOMAIN a}

RootEdges(wrapper, owner, treeTys) ==
    {Edge(wrapper, Root(owner, pos, treeTy), "PARAMETER") :
        pos \in Positions(owner), treeTy \in treeTys}

\* the wrappers of the loads, stores or returns of a function
Instructions(kind, func) ==
    {w \in DOMAIN nodes : nodes[w].kind = kind /\ nodes[w].func = func}
WrappersIn(t) == {Data(t, n) : n \in ToSet(PreOrder(t))}

\* fields and the stores or loads of the same type
ToSameType(owner, treeTy, kind, func) ==
    UNION {{Edge(p[1], p[2], "DATA_GENERAL") :
              p \in {q \in WrappersIn(TreeOf(owner, pos, treeTy)) \X Instructions(kind, func) :
                        nodes[q[1]].type = nodes[q[2]].type}} : pos \in Positions(owner)}
FromSameType(owner, treeTy, kind, func) ==
    {Edge(e.to, e.from, e.type) : e \in ToSameType(owner, treeTy, kind, func)}

\* the trees of a function, and those of a call and its callee, node by node
FormalLinks(func) ==
    UNION {Lockstep(TreeOf(func, pos, "FORMAL_IN"),
                    TreeOf(func, pos, "FORMAL_OUT")) : pos \in Positions(func)}
PassLinks(call) ==
    UNION {Lockstep(TreeOf(call, pos, "ACTUAL_IN"),
                    TreeOf(Callee(call), pos, "FORMAL_IN")) : pos \in Positions(call)}
ReturnLinks(call) ==
    UNION {Lockstep(TreeOf(Callee(call), pos, "FORMAL_OUT"),
                    TreeOf(call, pos, "ACTUAL_OUT")) : pos \in Positions(call)}
ReturnValues(call) ==
    {Edge(r, call, "DATA_GENERAL") : r \in Instructions("RETURN", Callee(call))}

FormalEdges(func) ==
    TreeEdges(func, "FORMAL_IN") \union TreeEdges(func, "FORMAL_OUT")
      \union RootEdges(func, func, {"FORMAL_IN", "FORMAL_OUT"})
      \union FormalLinks(func)
      \union ToSameType(func, "FORMAL_IN", "STORE", func)
      \union FromSameType(func, "FORMAL_OUT", "LOAD", func)

ConnectFunctionAndFormalTrees(func) ==
    /\ Idle
    /\ func \in hasTrees \ connected
    /\ deps' = deps \union FormalEdges(func)
    /\ connected' = connected \union {func}
    /\ UNCHANGED <<prog, nodes, trees, id, shared, frames, arg, hasTrees, builds>>

CallEdges(call) ==
    TreeEdges(call, "ACTUAL_IN") \union TreeEdges(call, "ACTUAL_OUT")
      \union {Edge(call, Callee(call), "CONTROL")} \union ReturnValues(call)
      \union RootEdges(call, call, {"ACTUAL_IN", "ACTUAL_OUT"})
      \union PassLinks(call) \union ReturnLinks(call)
      \union ToSameType(call, "ACTUAL_OUT", "LOAD", nodes[call].func)

ConnectCallerAndCallee(call) ==
    /\ Idle
    /\ builds[call] > 0
    /\ call \notin connected
    /\ deps' = deps \union CallEdges(call)
    /\ connected' = connected \union {call}
    /\ UNCHANGED <<prog, nodes, trees, id, shared, frames, arg, hasTrees, builds>>

\* building goes on by itself; what is built and connected next is up to the caller
Build == BuildFormalTree \/ AddField \/ FieldsDone \/ CopyFormalTree \/ ArgumentsDone
Request ==
    \/ \E func \in Functions :
          BuildFormalParameterTrees(func) \/ ConnectFunctionAndFormalTrees(func)
    \/ \E call \in Calls :
          BuildActualParameterTrees(call) \/ ConnectCallerAndCallee(call)
Next == Build \/ Request

\* the recursion and the loops of one thread go on once begun
Spec == Init /\ [][Next]_vars /\ WF_vars(Build)

-----------------------------------------------------------------------------
(* Properties.                                                              *)

\* Types of the state: every node of a tree holds a wrapper that exists.
TypeOK ==
    /\ Len(nodes) <= MaxNodes
    /\ \A w \in DOMAIN nodes : nodes[w].type \in Types \union {"none"}
    /\ DOMAIN trees = Keys
    /\ \A key \in Keys : \A n \in Members(trees[key]) : trees[key][n].data \in DOMAIN nodes
    /\ id \in 0..MaxNodes
    /\ \A k \in DOMAIN frames :
          /\ IsPointer(frames[k].type)
          /\ frames[k].fieldId < id
          /\ frames[k].i \in 1..Len(Fields(frames[k].type)) + 1
    /\ arg.func \in Functions \union {NoArgument.func}
    /\ hasTrees \subseteq Functions
    /\ connected \subseteq hasTrees \union Calls
    /\ \A e \in deps : {e.from, e.to} \subseteq DOMAIN nodes

\* The links of every tree agree in every state: neighbours point at each other
\* (debug_verify_consistency, tree.hh lines 2087 to 2103) and the iterator that
\* the copies and connections use meets every node once.
TreesConsistent == \A key \in Keys : Consistent(trees[key]) /\ VisitsEachOnce(trees[key])

\* the types on the way from the root to a node
TypePath(t, n) == Reverse([k \in DOMAIN Lineage(t, n) |-> FieldType(t, Lineage(t, n)[k])])

\* A path may go on below its last type when that is a pointer that is not
\* opaque, and the type before it did not occur two or more levels further up.
Continues(path) ==
    LET last == Len(path)
    IN  /\ IsPointer(path[last])
        /\ ~IsOpaque(path[last])
        /\ \A k \in 1..last - 3 : path[k] # path[last - 1]

\* A finished formal tree is the unfolding of the argument's type: the root is
\* the argument, and below a node stand exactly the fields of what it points to,
\* in order, unless the path ends there.  The place for a field is found by its
\* id (lines 49 to 55), so ids must be unique within the tree.
FormalTreesUnfoldTypes ==
    \A func \in Functions : \A pos \in Positions(func) :
        LET t == TreeOf(func, pos, "FORMAL_IN")
            built == func \in hasTrees \/ (arg.func = func /\ pos < arg.pos)
        IN  /\ built => FieldType(t, Begin(t)) = prog.args[func][pos]
            /\ built => \A n \in Members(t) :
                  [k \in DOMAIN Children(t, n) |-> FieldType(t, Children(t, n)[k])]
                     = IF Continues(TypePath(t, n)) THEN Fields(FieldType(t, n)) ELSE <<>>

\* the position of a node: which child it is, on every level from the root
Place(t, n) ==
    Reverse([k \in 1..Depth(t, n) |->
        LET line == Lineage(t, n)
        IN  CHOOSE i \in DOMAIN Children(t, line[k + 1]) :
                Children(t, line[k + 1])[i] = line[k]])
\* where a wrapper stands: in which tree and at which position
Holders(w) ==
    UNION {{[key |-> key, place |-> Place(trees[key], n)] :
                n \in {m \in Members(trees[key]) : trees[key][m].data = w}} : key \in Keys}

\* A PARAMETER edge between two trees joins nodes at the same position, of the
\* same argument, so a field never flows into another field.  A copy shares the
\* wrappers of its source until copyTree has replaced each (FunctionWrapper.h
\* lines 107 to 130): none that is left behind may stand at two places.
SameField(a, b) ==
    \/ /\ a.key # b.key
       /\ a.place = b.place
       /\ a.key[2] = b.key[2]
    \/ /\ a.key = b.key
       /\ Len(b.place) = Len(a.place) + 1
       /\ Front(b.place) = a.place
FieldsMeetFields ==
    \A e \in deps :
        e.type = "PARAMETER" =>
            \A a \in Holders(e.from), b \in Holders(e.to) : SameField(a, b)

\* The value of every field that a call passes can flow into the callee and
\* back: once call and callee are connected, there is a path of PARAMETER edges
\* from each actual-in node by its formal-in and formal-out nodes to an
\* actual-out node of the same type.
PassedFieldsReturn ==
    \A call \in Calls : {call, Callee(call)} \subseteq connected =>
        \A pos \in Positions(call) :
            \A w \in WrappersIn(TreeOf(call, pos, "ACTUAL_IN")) :
                \E fi \in WrappersIn(TreeOf(Callee(call), pos, "FORMAL_IN")),
                   fo \in WrappersIn(TreeOf(Callee(call), pos, "FORMAL_OUT")),
                   ao \in WrappersIn(TreeOf(call, pos, "ACTUAL_OUT")) :
                    /\ {Edge(w, fi, "PARAMETER"), Edge(fi, fo, "PARAMETER"),
                        Edge(fo, ao, "PARAMETER")} \subseteq deps
                    /\ nodes[ao].type = nodes[w].type

\* Building always ends, also for types that contain pointers to themselves:
\* the check for recursion cuts every path (lines 69 to 87).
BuildingEnds == ~Idle ~> Idle
=============================================================================
