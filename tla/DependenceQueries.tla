------------------------- MODULE DependenceQueries -------------------------
(***************************************************************************)
(* What the memory dependence analysis promises its clients                   *)
(* (src/include/FlowDependenceAnalysis.h, lines 350 to 397): whatever was     *)
(* asked and removed before, an answer is right for the instructions that are *)
(* there now, or says that it is unknown.                                     *)
(***************************************************************************)
EXTENDS DependenceScans

VARIABLE answer         \* the last answer given

avars == <<fn, insts, answer>>

\* all that a query of a pointer may take for it: a larger size, no type tag
Wider(loc, p) ==
    {[ptr |-> p, size |-> s, tag |-> t] : s \in {n \in fn.sizes : n >= loc.size},
                                          t \in {loc.tag, Null}}

(***************************************************************************)
(* A call: a result for each block, a set that has the predecessors of the    *)
(* block of the call and of every block that is passed.                       *)
(***************************************************************************)
RightForCall(q, results) ==
    LET covered == {e.bb : e \in results}
    IN  /\ ToSet(Preds(BlockOf(q))) \subseteq covered
        /\ \A e \in results :
              /\ e.result \in {CallSiteTruth(q, e.bb, Len(insts[e.bb])), Unknown}
              /\ e.result = NonLocal => ToSet(Preds(e.bb)) \subseteq covered

(***************************************************************************)
(* A pointer: no path backwards from the block leads past a block without a   *)
(* result that the pointer, translated along the path, depends on.            *)
(***************************************************************************)
Before(b, p) == {<<a, Into(b, p, a)>> : a \in ToSet(Preds(b))}

Walk(query, results) ==
    LET reported == {e.bb : e \in results}
        f[n \in Nat] ==
            IF n = 0 THEN Before(query.from, query.loc.ptr)
            ELSE f[n - 1] \union
                 UNION {Before(x[1], x[2]) :
                           x \in {y \in f[n - 1] : y[1] \notin reported /\ y[2] # Null}}
    IN  f[Cardinality(Blocks)]

RightForPointer(query, results) ==
    LET reported == {e.bb : e \in results}
        walk == Walk(query, results)
        truth(loc, b) == PointerTruth(loc, query.isLoad, FALSE, b, Len(insts[b]))
    IN  \/ [bb |-> query.from, result |-> Unknown, address |-> query.loc.ptr] \in results
        \/ /\ \A x \in walk :
                 x[1] \notin reported /\ x[1] \in fn.reachable =>
                    /\ x[2] # Null
                    /\ \E l \in Wider(query.loc, x[2]) : truth(l, x[1]) = NonLocal
           /\ \A e \in results :
                 \/ e.result = Unknown
                 \/ \E x \in walk :
                       x[1] = e.bb /\ e.result \in {truth(l, e.bb) : l \in Wider(query.loc, x[2])}

Right(a) ==
    \/ a.kind = "local" /\ a.results \in {{LocalTruth(a.query)}, {Unknown}}
    \/ a.kind = "call" /\ RightForCall(a.query, a.results)
    \/ a.kind = "pointer" /\ RightForPointer(a.query, a.results)

Init ==
    /\ fn \in Functions
    /\ insts = fn.insts
    /\ answer = [kind |-> "none", query |-> Null, results |-> {}]

Ask ==
    /\ UNCHANGED <<fn, insts>>
    /\ answer' # answer
    /\ Right(answer')

RemoveInstruction ==
    /\ \E i \in Present : insts' = [insts EXCEPT ![BlockOf(i)] = RemoveAt(@, PositionOf(i))]
    /\ UNCHANGED <<fn, answer>>

Next == Ask \/ RemoveInstruction

Spec == Init /\ [][Next]_avars
=============================================================================
