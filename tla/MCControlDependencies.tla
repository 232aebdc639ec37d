----------------------- MODULE MCControlDependencies -----------------------
(***************************************************************************)
(* All flow graphs of four blocks with at most two successors each, up to    *)
(* the names of the blocks, and an entry that may be a three-way switch.     *)
(***************************************************************************)
EXTENDS ControlDependencies, TLC

Inner == {"b", "c", "d"}

\* the entry block has no predecessors, and names its successors in order
EntrySuccessors ==
    {<<>>, <<"b">>, <<"b", "b">>, <<"b", "c">>, <<"b", "c", "d">>}
InnerSuccessors ==
    {<<>>} \union {<<s>> : s \in Inner} \union {<<s, t>> : s, t \in Inner}

\* two-way terminators are conditional branches, but for that of d: a switch
\* with one case
MCFlowGraphs ==
    {[order |-> <<"a", "b", "c", "d">>,
      succ |-> ("a" :> e) @@ ("b" :> s) @@ ("c" :> t) @@ ("d" :> u),
      branches |-> {n \in {"a", "b", "c"} :
                       Len((("a" :> e) @@ ("b" :> s) @@ ("c" :> t))[n]) = 2},
      size |-> ("a" :> 1) @@ ("b" :> 2) @@ ("c" :> 1) @@ ("d" :> 2)] :
        e \in EntrySuccessors, s, t, u \in InnerSuccessors}
=============================================================================
