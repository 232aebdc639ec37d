------------------------ MODULE ControlDependencies ------------------------
(***************************************************************************)
(* ControlDependencyGraph::computeDependencies                              *)
(* (src/src/ControlDependencies.cpp, lines 45 to 193): the control           *)
(* dependences of one function, from its flow graph and its post-dominator   *)
(* tree.  A wrapper is a pair of a block and the position of an instruction  *)
(* in it, the last being the terminator.                                     *)
(***************************************************************************)
EXTENDS DependencyGraphs, PostDominators

CONSTANTS Root,         \* the ENTRY wrapper
          FlowGraphs    \* the functions to analyse

(***************************************************************************)
(* A function: its blocks in program order, their successors in the order    *)
(* of the terminator's operands, the blocks that end in a conditional br     *)
(* (the others end in an unconditional br, a switch or a ret), and the       *)
(* number of instructions in each block.                                     *)
(***************************************************************************)
ASSUME ConstantsAssumption == NoBlock # NoTreeNode /\ NoData # Root
ASSUME FlowGraphsAssumption ==
    \A f \in FlowGraphs :
        /\ f.order \in Seq(Blocks(f)) /\ f.order # <<>>
        /\ f.succ \in [Blocks(f) -> Seq(Blocks(f) \ {EntryBlock(f)})]
        /\ f.size \in [Blocks(f) -> Nat \ {0}]
        /\ f.branches \subseteq Blocks(f)
        /\ \A b \in f.branches : Len(f.succ[b]) = 2
        /\ {NoBlock, NoTreeNode} \intersect Blocks(f) = {}
        /\ {NoData, Root} \intersect (Blocks(f) \X Nat) = {}

VARIABLES
    func,           \* F
    tree,           \* PDT
    pc,             \* "entry", "edges", "next", "walk", "done"
    node,           \* node and domNode
    edgeSet,        \* what is left of EdgeSet
    edge,           \* Edge
    stop,           \* L
    cdg             \* CDG

vars == <<func, tree, pc, node, edgeSet, edge, stop, cdg>>

MutOnePast(b) == [i \in 1..func.size[b] + 1 |-> <<b, i>>]
Instructions(b) == [i \in 1..func.size[b] |-> <<b, i>>]
Terminator(b) == <<b, func.size[b]>>

\* getDependenceType: the first operand that matches decides
DependenceType(a, b) ==
    IF a \notin func.branches THEN "OTHER"
    ELSE IF func.succ[a][1] = b THEN "TRUE" ELSE "FALSE"

\* the two addDependency: every instruction of a block depends on a wrapper
MutTerminatorOnly(from, to, type) == AddDependency(cdg, from, Terminator(to), type)
AddBlockDependency(from, to, type) ==
    LET Added[i \in 0..Len(Instructions(to))] ==
            IF i = 0 THEN cdg
            ELSE AddDependency(Added[i - 1], from, Instructions(to)[i], type)
    IN  Added[Len(Instructions(to))]

Init ==
    /\ func \in FlowGraphs
    /\ tree = PostDominatorTree(func)
    /\ pc = "entry"
    /\ node = GetNode(tree, EntryBlock(func))
    /\ edgeSet = <<>>
    /\ edge = <<NoBlock, NoBlock>>
    /\ stop = NoBlock
    /\ cdg = EmptyGraph

(***************************************************************************)
(* The post-dominators of the entry block depend on the ENTRY wrapper.       *)
(***************************************************************************)
MutNotRoot == node # NoTreeNode /\ node # NoBlock /\ tree[node] # NoTreeNode
HasBlock == node # NoTreeNode /\ node # NoBlock

MutNoAdvance(n) == n
IDom(n) == tree[n]

EntryWalk ==
    /\ pc = "entry"
    /\ HasBlock
    /\ cdg' = AddBlockDependency(Root, node, "CONTROL")
    /\ node' = IDom(node)
    /\ UNCHANGED <<func, tree, pc, edgeSet, edge, stop>>

EntryDone ==
    /\ pc = "entry"
    /\ ~HasBlock
    /\ pc' = "edges"
    /\ node' = NoTreeNode
    /\ UNCHANGED <<func, tree, edgeSet, edge, stop, cdg>>

(***************************************************************************)
(* The flow edges whose target does not post-dominate their source, in       *)
(* program order.                                                            *)
(***************************************************************************)
MutSwapped(e) == ~Dominates(tree, e[1], e[2])
NotPostDominated(e) == ~Dominates(tree, e[2], e[1])

\* the edges out of block b that are kept, in the order of its successors
EdgesFrom(b) ==
    FlattenSeq([j \in DOMAIN func.succ[b] |->
        IF NotPostDominated(<<b, func.succ[b][j]>>) THEN << <<b, func.succ[b][j]>> >> ELSE <<>>])

CollectEdges ==
    /\ pc = "edges"
    /\ pc' = "next"
    /\ edgeSet' = FlattenSeq([i \in DOMAIN func.order |-> EdgesFrom(func.order[i])])
    /\ UNCHANGED <<func, tree, node, edge, stop, cdg>>

\* the block at which the walk for an edge ends
StopAt(e) == FindNearestCommonDominator(tree, e[1], e[2])

TakeEdge ==
    /\ pc = "next"
    /\ edgeSet # <<>>
    /\ edge' = Head(edgeSet)
    /\ edgeSet' = Tail(edgeSet)
    /\ stop' = StopAt(Head(edgeSet))
    /\ node' = GetNode(tree, Head(edgeSet)[2])
    /\ pc' = IF node' = NoTreeNode THEN "next" ELSE "walk"
    /\ UNCHANGED <<func, tree, cdg>>

Walk ==
    /\ pc = "walk"
    /\ HasBlock
    /\ node # stop
    /\ cdg' = AddBlockDependency(Terminator(edge[1]), node, DependenceType(edge[1], edge[2]))
    /\ node' = IDom(node)
    /\ UNCHANGED <<func, tree, pc, edgeSet, edge, stop>>

WalkDone ==
    /\ pc = "walk"
    /\ node = stop
    /\ pc' = "next"
    /\ UNCHANGED <<func, tree, node, edgeSet, edge, stop, cdg>>

Finish ==
    /\ pc = "next"
    /\ edgeSet = <<>>
    /\ pc' = "done"
    /\ UNCHANGED <<func, tree, node, edgeSet, edge, stop, cdg>>

Next ==
    \/ EntryWalk \/ EntryDone
    \/ CollectEdges
    \/ TakeEdge \/ Walk \/ WalkDone
    \/ Finish

\* one thread of nested loops: it keeps taking its next step
Spec == Init /\ [][Next]_vars /\ WF_vars(Next)

-----------------------------------------------------------------------------
(***************************************************************************)
(* Properties.                                                              *)
(***************************************************************************)
Wrappers == {Root} \union UNION {{b} \X (1..func.size[b]) : b \in Blocks(func)}

\* Type invariant: tree nodes and wrappers of the function, links of the control
\* types (lines 62 to 158).
TypeOK ==
    /\ pc \in {"entry", "edges", "next", "walk", "done"}
    /\ node \in DOMAIN tree \union {NoTreeNode}
    /\ edgeSet \in Seq(Blocks(func) \X Blocks(func))
    /\ stop \in Blocks(func) \union {NoBlock}
    /\ DOMAIN cdg.links \subseteq Wrappers
    /\ \A w \in DOMAIN cdg.links :
          cdg.links[w] \in Seq([to : Wrappers, type : {"CONTROL", "TRUE", "FALSE", "OTHER"}])

LinksFrom(w) == IF w \in DOMAIN cdg.links THEN ToSet(cdg.links[w]) ELSE {}
TypesOfLinks(w, v) == {k.type : k \in {j \in LinksFrom(w) : j.to = v}}

\* Ferrante, Ottenstein and Warren: b depends on a when some edge out of a makes
\* b unavoidable and a itself does not.  For a = b, the condition of a loop, the
\* code has none: the call that would add them is commented out (line 132).
DefinedTypes(a, b) ==
    {IF a \notin func.branches THEN "OTHER" ELSE <<"TRUE", "FALSE">>[i] : i \in
        {j \in DOMAIN func.succ[a] : /\ PostDominates(func, b, func.succ[a][j])
                                     /\ ~PostDominates(func, b, a)}}

\* The dependences found by walking the tree are those of the definition over
\* paths, with every type, and every instruction of the dependent block has them
\* (lines 97 to 156).
MatchesDefinition ==
    pc = "done" =>
        \A a, b \in Blocks(func) :
            LET defined == DefinedTypes(a, b)
            IN  \A v \in ToSet(Instructions(b)) : TypesOfLinks(Terminator(a), v) = defined

\* Exactly the blocks no complete run of the function avoids depend on the ENTRY
\* wrapper; a function that cannot return has none (lines 83 to 93).
EntryControlsUnavoidable ==
    pc = "done" =>
        LinksFrom(Root) =
            {Link(v, "CONTROL") : v \in
                UNION {ToSet(Instructions(b)) :
                          b \in {c \in Blocks(func) : PostDominates(func, c, EntryBlock(func))}}}

\* blocks on a path from the entry
Reachable == Reached(Blocks(func), {EntryBlock(func)}, FlowEdges(func))

\* blocks that hang below the ENTRY wrapper in the graph
Targets(w) == {k.to[1] : k \in LinksFrom(w)}
Governed ==
    Reached(Blocks(func), Targets(Root),
            UNION {{b} \X Targets(Terminator(b)) : b \in Blocks(func)})

\* No code is orphaned: whatever is reachable and can reach an exit is governed,
\* through a chain of dependences, by the ENTRY wrapper (lines 90 and 153).
NoOrphans == pc = "done" => Reachable \intersect Exiting(func) \subseteq Governed

\* The walks end, and none leaves the tree: they meet L before the null tree node
\* or the null block of the virtual root (lines 85 to 93 and 120 to 156).
Termination == <>(pc = "done")
=============================================================================
