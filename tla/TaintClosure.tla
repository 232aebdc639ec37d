--------------------------- MODULE TaintClosure ---------------------------
(***************************************************************************)
(* What the taint propagation promises, without its worklist: starting     *)
(* from the sensitive nodes it marks successors in the dependence graph in  *)
(* any order, and it may stop only when no successor of a marked or         *)
(* sensitive node is left unmarked.  An edge in `fatal' cannot be followed: *)
(* meeting one may abort the analysis, never extend the marks.              *)
(***************************************************************************)
CONSTANT Nodes          \* the nodes of the dependence graph

VARIABLES
    seeds,              \* the sensitive nodes, fixed
    edges,              \* the dependence edges that are followed, fixed
    fatal,              \* the edges that abort the analysis, fixed
    marked,             \* the nodes reached so far
    status              \* "running", "finished" or "aborted"

vars == <<seeds, edges, fatal, marked, status>>

Source == seeds \union marked
Successors(S) == {e[2] : e \in {d \in edges : d[1] \in S}}

Init ==
    /\ seeds \subseteq Nodes
    /\ edges \subseteq Nodes \X Nodes
    /\ fatal \subseteq edges
    /\ marked = {}
    /\ status = "running"

Mark(e) ==
    /\ status = "running"
    /\ e \in edges \ fatal
    /\ e[1] \in Source
    /\ e[2] \notin marked
    /\ marked' = marked \union {e[2]}
    /\ UNCHANGED <<seeds, edges, fatal, status>>

Finish ==
    /\ status = "running"
    /\ Successors(Source) \subseteq marked
    /\ status' = "finished"
    /\ UNCHANGED <<seeds, edges, fatal, marked>>

Abort ==
    /\ status = "running"
    /\ \E e \in fatal : e[1] \in Source
    /\ status' = "aborted"
    /\ UNCHANGED <<seeds, edges, fatal, marked>>

Next == Finish \/ Abort \/ \E e \in edges : Mark(e)

Spec == Init /\ [][Next]_vars
=============================================================================
