-------------------------- MODULE MCParameterTrees --------------------------
(***************************************************************************)
(* Types that recur in the ways C types do, and small programs over them.   *)
(***************************************************************************)
EXTENDS ParameterTrees, TLC

Type(kind, contained) == [kind |-> kind, contained |-> contained]
MCTypes ==
    ("int" :> Type("scalar", <<>>)) @@
    \* a list: struct list { int; struct list * }
    ("list" :> Type("struct", <<"int", "list*">>)) @@
    ("list*" :> Type("pointer", <<"list">>)) @@
    ("list**" :> Type("pointer", <<"list*">>)) @@
    \* a parser that refers to its scanner, and the scanner back
    ("parser" :> Type("struct", <<"scanner*", "FILE*">>)) @@
    ("parser*" :> Type("pointer", <<"parser">>)) @@
    ("scanner" :> Type("struct", <<"parser*", "handler*">>)) @@
    ("scanner*" :> Type("pointer", <<"scanner">>)) @@
    ("FILE" :> Type("file", <<"int">>)) @@
    ("FILE*" :> Type("pointer", <<"FILE">>)) @@
    ("handler" :> Type("function", <<"int", "parser*">>)) @@
    ("handler*" :> Type("pointer", <<"handler">>))

instr(kind, func, type) == Wrapper(kind, func, type, -1)

\* one function, 1, called once, by 5
OneCall(args) ==
    [wrappers |-> <<instr("ENTRY", 1, "none"), instr("STORE", 1, "int"),
                    instr("LOAD", 1, "list*"), instr("RETURN", 1, "int"),
                    instr("CALL", 6, "none"), instr("ENTRY", 6, "none"),
                    instr("LOAD", 6, "int")>>,
     args |-> (1 :> args) @@ (6 :> <<>>), callee |-> (5 :> 1)]
\* a function, 1, that calls itself by 2, and is called by 4 of function 3
TwoCalls(args) ==
    [wrappers |-> <<instr("ENTRY", 1, "none"), instr("CALL", 1, "none"),
                    instr("ENTRY", 3, "none"), instr("CALL", 3, "none")>>,
     args |-> (1 :> args) @@ (3 :> <<"int">>), callee |-> (2 :> 1) @@ (4 :> 1)]

MCPrograms ==
    {OneCall(args) : args \in {<<"list*">>, <<"parser*", "int">>, <<"scanner*", "FILE*">>,
                               <<"list**", "handler*">>, <<"int", "list*">>}}
    \union {TwoCalls(args) : args \in {<<"list*">>, <<"list**", "int">>}}
=============================================================================
