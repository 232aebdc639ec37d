------------------------ MODULE MCTaintPropagation ------------------------
(***************************************************************************)
(* Small programs for TLC.  Their links are those the construction makes:   *)
(* an alloca and the accesses of it, a load and the users of its value, a   *)
(* store and the load it reaches, a branch and what it controls.            *)
(***************************************************************************)
EXTENDS TaintPropagation, TLC

\* the function "main"
a == "a"
b == "b"
r == "r"
l == "l"
m == "m"
s == "s"
br == "br"
\* a second function "g", a call, a global
x == "x"
w == "w"
v == "v"
e == "e"
c == "c"
gl == "gl"
lg == "lg"
nl == "nl"

link(to, type) == [to |-> to, type |-> type]
\* the links of a wrapper, in the address order of the wrappers they lead to
Ordered(order, set) ==
    SelectSeq(FlattenSeq([i \in 1..Len(order) |->
        SetToSeq({k \in set : k.to = order[i]})]), LAMBDA k : TRUE)

-----------------------------------------------------------------------------
(* One function: allocas a, b and the retval slot r, loads l and m, a store *)
(* s and a branch br.                                                       *)
LocalNodes == {a, b, r, l, m, s, br}
AllNodes == LocalNodes \union {c, lg, x, w, v, e, gl, nl}
AllInOrder == <<gl, a, b, r, c, l, lg, m, s, br, x, w, v, e, nl>>

\* a program over all nodes: those it does not use are instructions of a
\* function that nothing links to
Padded(p, used) ==
    LET Rest(field, default) ==
            [n \in AllNodes |-> IF n \in used THEN field[n] ELSE default]
    IN  [p EXCEPT !.order = @ \o SelectSeq(AllInOrder, LAMBDA n : n \notin used),
                  !.kind = Rest(@, "other"), !.func = Rest(@, "unlinked"),
                  !.line = Rest(@, 0), !.ptr = Rest(@, NoNode), !.links = Rest(@, <<>>)]

LocalKind ==
    (a :> "alloca") @@ (b :> "alloca") @@ (r :> "alloca") @@ (l :> "load")
    @@ (m :> "load") @@ (s :> "store") @@ (br :> "branch")

LocalLinks(ptr, value, cond, aliased, controlled, order) ==
    [n \in LocalNodes |-> Ordered(order,
        CASE n \in {a, b, r} ->
                {link(k, "DATA_DEF_USE") : k \in {j \in {l, m, s} : ptr[j] = n}}
          [] n \in {l, m} ->
                {link(k, "DATA_DEF_USE") : k \in {j \in {s} : value = n}
                                                 \union {j \in {br} : cond = n}}
          [] n = s -> {link(k, "DATA_RAW") :
                          k \in {j \in {l, m} : ptr[j] = ptr[s]} \union aliased}
          [] n = br -> {link(k, "CONTROL") : k \in controlled})]

LocalProgram(ptr, value, cond, aliased, controlled, lines, sensitive, order) ==
    [order |-> order, kind |-> LocalKind,
     func |-> [n \in LocalNodes |-> "main"],
     line |-> [n \in LocalNodes |-> Lookup(lines, n, 0)],
     ptr |-> [n \in LocalNodes |-> Lookup(ptr, n, NoNode)],
     links |-> LocalLinks(ptr, value, cond, aliased, controlled, order),
     sensitive |-> sensitive, taintedGlobals |-> {}, untracked |-> {r}]

LocalOrders == {<<a, b, r, l, m, s, br>>, <<br, s, m, l, r, b, a>>}
LocalLines == {(l :> 2) @@ (m :> 4) @@ (s :> 3) @@ (br :> 2),
               (l :> 2) @@ (m :> 4) @@ (s :> 1) @@ (br :> 4)}

\* a store through a pointer may reach either load
LocalPrograms ==
    {LocalProgram((l :> pl) @@ (m :> pm) @@ (s :> ps), value, cond, aliased,
                  controlled, lines, sensitive, order) :
        pl \in {a, b}, pm \in {b, r}, ps \in {a, b, r}, value \in {l, m, NoNode},
        cond \in {l, m}, aliased \in {{}}, controlled \in SUBSET {s, m},
        lines \in LocalLines, sensitive \in {<<a>>, <<b, a>>, <<a, a>>},
        order \in LocalOrders}
    \union
    {LocalProgram((l :> a) @@ (m :> pm) @@ (s :> NoNode), value, l, aliased,
                  controlled, lines, <<a>>, order) :
        pm \in {b, r}, value \in {l, m}, aliased \in SUBSET {l, m},
        controlled \in SUBSET {s, m}, lines \in LocalLines, order \in LocalOrders}

-----------------------------------------------------------------------------
(* Two functions and a global: g has a sensitive-capable alloca x, its load *)
(* w, its return v and its entry e; main has a, its load l, the call c of g, *)
(* and a load lg of the global gl.  nl is the node of a null pointer.        *)
ModuleNodes == {a, l, c, lg, x, w, v, e, gl, nl}
ModuleKind ==
    (a :> "alloca") @@ (l :> "load") @@ (c :> "call") @@ (lg :> "load")
    @@ (x :> "alloca") @@ (w :> "load") @@ (v :> "other") @@ (e :> "entry")
    @@ (gl :> "global") @@ (nl :> "null")
ModuleFunc == [n \in ModuleNodes |->
    IF n \in {x, w, v, e} THEN "g" ELSE IF n \in {gl, nl} THEN "" ELSE "main"]

\* callee says what the call is connected to: the entry and the return of g
\* when g was built first, else the null entry of its uninitialised wrapper
ModuleLinks(args, callee, order) ==
    [n \in ModuleNodes |-> Ordered(order,
        CASE n = a -> {link(l, "DATA_DEF_USE")}
          [] n \in {l, lg} -> {link(c, "DATA_DEF_USE") : k \in {j \in args : j = n}}
          [] n = c -> {link(k, "DATA_GENERAL") : k \in callee}
          [] n = x -> {link(w, "DATA_DEF_USE")}
          [] n = w -> {link(v, "DATA_DEF_USE")}
          [] n = v -> {link(c, "DATA_GENERAL") : k \in callee \ {nl}}
          [] n = e -> {link(k, "CONTROL") : k \in {x, w, v}}
          [] n = gl -> {link(lg, "GLOBAL_VALUE")}
          [] n = nl -> {})]

ModuleProgram(args, callee, order, sensitive, globals) ==
    [order |-> order, kind |-> ModuleKind, func |-> ModuleFunc,
     line |-> (l :> 2 @@ c :> 3 @@ lg :> 3 @@ w :> 7 @@ v :> 7)
                 @@ [n \in ModuleNodes |-> 0],
     ptr |-> (l :> a @@ w :> x) @@ [n \in ModuleNodes |-> NoNode],
     links |-> ModuleLinks(args, callee, order),
     sensitive |-> sensitive, taintedGlobals |-> globals, untracked |-> {}]

ModulePrograms ==
    {ModuleProgram(args, callee, order, sensitive, globals) :
        args \in SUBSET {l, lg}, callee \in {{e}, {nl}},
        order \in {<<a, l, c, lg, x, w, v, e, gl, nl>>, <<gl, nl, v, w, x, lg, c, l, a, e>>},
        sensitive \in {<<a>>, <<x>>, <<a, x>>, <<>>}, globals \in SUBSET {gl}}

MCPrograms == {Padded(p, LocalNodes) : p \in LocalPrograms}
                \union {Padded(p, ModuleNodes) : p \in ModulePrograms}
MCModulePrograms == {Padded(p, ModuleNodes) : p \in ModulePrograms}
=============================================================================
