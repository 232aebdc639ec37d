------------------------- MODULE MCDataDependencies -------------------------
(***************************************************************************)
(* Functions of one block with an alloca, three stores, two loads and an     *)
(* addition.  Lines are chosen so that two stores are equally near and that  *)
(* one is MaxLocNum lines away.                                             *)
(***************************************************************************)
EXTENDS DataDependencies, TLC

Stores == {"s1", "s2", "s3"}
Loads == {"l1", "l2"}
MCInsts == Stores \union Loads \union {"alloca", "add"}

Orders ==
    {<<"alloca", "s1", "s3", "l1", "s2", "l2", "add">>,
     <<"alloca", "s3", "l1", "s2", "add", "s1", "l2">>,
     <<"alloca", "l2", "l1", "add", "s1", "s2", "s3">>}

\* the addition takes the same value twice; s2 stores what l1 loads
Operands ==
    ("alloca" :> <<>>) @@ ("add" :> <<"l1", "l1">>) @@ ("s2" :> <<"l1", "alloca">>)
    @@ [n \in MCInsts |-> <<"alloca">>]

MCPrograms ==
    {[order |-> order, loads |-> Loads, stores |-> Stores,
      line |-> ("s1" :> n1) @@ ("s2" :> n2) @@ ("s3" :> n3) @@ ("l1" :> 2)
                 @@ ("l2" :> 3) @@ ("alloca" :> 0) @@ ("add" :> 4),
      mayAlias |-> ({"l1"} \X one) \union ({"l2"} \X two),
      operands |-> Operands] :
        order \in Orders, n1 \in {0, 1, 3}, n2 \in {1, 3, 5}, n3 \in {0, 3, 5},
        one \in SUBSET Stores, two \in {{}, {"s2"}, {"s1", "s3"}}}
=============================================================================
