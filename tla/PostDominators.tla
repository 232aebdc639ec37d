--------------------------- MODULE PostDominators ---------------------------
(***************************************************************************)
(* LLVM's PostDominatorTree as the control dependence pass uses it.  A flow  *)
(* graph is a record with its blocks in program order and the successors of  *)
(* each; the tree is described by its definition over paths, not computed.   *)
(***************************************************************************)
EXTENDS Naturals, Sequences, SequencesExt, FiniteSets

CONSTANTS NoBlock,      \* a null block: what the virtual root holds
          NoTreeNode    \* a null tree node

Blocks(f) == ToSet(f.order)
EntryBlock(f) == Head(f.order)
Successors(f, b) == ToSet(f.succ[b])
FlowEdges(f) == UNION {{b} \X Successors(f, b) : b \in Blocks(f)}
Exits(f) == {b \in Blocks(f) : f.succ[b] = <<>>}

\* the members of universe that steps, pairs of a member and the next, reach
\* from base: they are in every set that holds base and is closed under steps
Reached(universe, base, steps) ==
    LET closed == {S \in SUBSET universe :
                      /\ base \intersect universe \subseteq S
                      /\ \A s \in steps : s[1] \in S /\ s[2] \in universe => s[2] \in S}
    IN  {x \in universe : \A S \in closed : x \in S}

\* blocks with a path to an exit that does not pass through block "without"
Escaping(f, without) ==
    Reached(Blocks(f) \ {without}, Exits(f),
            {<<e[2], e[1]>> : e \in FlowEdges(f)})
Exiting(f) == Escaping(f, NoBlock)

\* every path from a to an exit passes through b, and there is one
PostDominates(f, b, a) == a \in Exiting(f) /\ a \notin Escaping(f, b)

(***************************************************************************)
(* The tree has a node for each block that reaches an exit, and a virtual    *)
(* root without a block above the exits if there are several.  Without an    *)
(* exit it is empty.                                                         *)
(***************************************************************************)
PostDominatorTree(f) ==
    LET above == [a \in Exiting(f) |-> {b \in Exiting(f) \ {a} : PostDominates(f, b, a)}]
        virtual == IF \E a, b \in Exits(f) : a # b THEN {NoBlock} ELSE {}
        idom(a) ==
            IF a = NoBlock \/ (above[a] = {} /\ virtual = {}) THEN NoTreeNode
            ELSE IF above[a] = {} THEN NoBlock
            ELSE CHOOSE b \in above[a] : above[a] = above[b] \union {b}
    IN  [a \in Exiting(f) \union virtual |-> idom(a)]

GetNode(tree, b) == IF b \in DOMAIN tree THEN b ELSE NoTreeNode

\* a tree node and those above it
Chain(tree, a) == Reached(DOMAIN tree, {a}, {<<b, tree[b]>> : b \in DOMAIN tree})

\* dominates: a block without a node is dominated by every block
Dominates(tree, b, a) ==
    \/ a = b
    \/ a \notin DOMAIN tree
    \/ b \in DOMAIN tree /\ b \in Chain(tree, a)

FindNearestCommonDominator(tree, a, b) ==
    IF Dominates(tree, b, a) THEN b
    ELSE IF Dominates(tree, a, b) THEN a
    ELSE LET common == Chain(tree, a) \intersect Chain(tree, b)
         IN  CHOOSE c \in common : common = Chain(tree, c)
=============================================================================
