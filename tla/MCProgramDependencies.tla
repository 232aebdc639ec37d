----------------------- MODULE MCProgramDependencies -----------------------
(***************************************************************************)
(* Two functions: main allocates x, stores the result of a call that is not  *)
(* connected (k), loads x and calls g (c); g loads a global, may call g or    *)
(* main (h) and returns.                                                     *)
(***************************************************************************)
EXTENDS ProgramDependencies, TLC

MainOrders ==
    {<<"em", "x", "k", "s", "l", "c", "rm">>, <<"rm", "c", "l", "s", "k", "x", "em">>}
GOrders == {<<"eg", "lg", "h", "br", "rg", "rv">>, <<"br", "rv", "rg", "h", "lg", "eg">>}

Kind0 ==
    ("em" :> "entry") @@ ("x" :> "other") @@ ("k" :> "call") @@ ("s" :> "store")
    @@ ("l" :> "load") @@ ("c" :> "call") @@ ("rm" :> "return")
    @@ ("eg" :> "entry") @@ ("lg" :> "load") @@ ("h" :> "call")
    @@ ("br" :> "other") @@ ("rg" :> "return") @@ ("rv" :> "return")

\* the alloca and its users, the call k and the store of its result, the store
\* and the load it reaches; k may be a call without a result
Ddg(result) ==
    {<<"x", "s">>, <<"x", "l">>, <<"s", "l">>, <<"l", "c">>, <<"lg", "h">>,
     <<"h", "br">>, <<"lg", "rv">>}
    \union (IF result THEN {<<"k", "s">>} ELSE {})
Cdg ==
    ({"em"} \X {"x", "k", "s", "l", "c", "rm"}) \union ({"eg"} \X {"lg", "h", "br"})
    \union ({"br"} \X {"rg", "rv"})

MCModules ==
    {[funcs |-> funcs,
      order |-> ("main" :> om) @@ ("g" :> og),
      entry |-> ("main" :> "em") @@ ("g" :> "eg"),
      returns |-> ("main" :> <<"rm">>) @@ ("g" :> <<"rg", "rv">>),
      kind |-> Kind0,
      callee |-> ("k" :> other) @@ ("c" :> "g") @@ ("h" :> back),
      tail |-> tail,
      valued |-> valued,
      marks |-> IF other = "external" /\ ~result THEN ("k" :> marks) ELSE [w \in {} |-> <<>>],
      global |-> global,
      ddg |-> Ddg(result),
      cdg |-> Cdg] :
        funcs \in {<<"main", "g">>, <<"g", "main">>}, om \in MainOrders, og \in GOrders,
        other \in {"external", "indirect"}, back \in {"g", "main", "external"},
        tail \in {{}, {"c"}}, valued \in {{"rv"}, {"rv", "rg"}, {}},
        marks \in {<<"x">>, <<"x", "x">>}, result \in BOOLEAN,
        global \in {"lg" :> "G", [w \in {} |-> ""]}}
=============================================================================
