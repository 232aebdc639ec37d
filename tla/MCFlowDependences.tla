-------------------------- MODULE MCFlowDependences --------------------------
(***************************************************************************)
(* Small functions for the memory dependence queries: a block with one of     *)
(* each kind of instruction, calls across blocks and a loop, pointers across  *)
(* a diamond with a phi, a loop that advances a pointer, locations of two     *)
(* sizes and two tags, a block that can not be reached.                       *)
(***************************************************************************)
EXTENDS FlowDependences, TLC

At(ptr, size, tag) == [ptr |-> ptr, size |-> size, tag |-> tag]
Query(ptr, size, tag, isLoad, from) ==
    [loc |-> At(ptr, size, tag), isLoad |-> isLoad, from |-> from]

\* what a function has if nothing else is said: no alias, no call that interferes
Base(preds, order, kind, loc, pointers) ==
    LET all == UNION {ToSet(order[b]) : b \in DOMAIN preds}
    IN  [preds |-> preds, insts |-> order, kind |-> kind, loc |-> loc,
         entry |-> "e", ordering |-> [i \in all |-> "unordered"],
         writes |-> {}, reads |-> {}, must |-> {}, may |-> {}, mayWide |-> {}, mayUntagged |-> {},
         base |-> [p \in pointers |-> p], object |-> [p \in pointers |-> p],
         offset |-> [p \in pointers |-> 0], align |-> [i \in all |-> 1],
         simpleInteger |-> {}, legal |-> {1, 2}, sanitize |-> "none", hasLayout |-> TRUE,
         constant |-> {}, modref |-> [i \in all |-> [p \in pointers |-> "NoModRef"]],
         touches |-> {}, identical |-> {}, invariant |-> {},
         address |-> [b \in DOMAIN preds |-> 0],
         queries |-> {}, pointerQueries |-> {}, sizes |-> {1}, removable |-> {},
         uses |-> [i \in all |-> {}],
         defined |-> [p \in pointers |-> Null], translate |-> [x \in {} |-> Null],
         translatable |-> {}, hasDT |-> TRUE, reachable |-> DOMAIN preds]

-----------------------------------------------------------------------------
(* One block: a load q and a call c after two instructions x and y.           *)
Kinds == ("a" :> "alloca") @@ ("ld" :> "load") @@ ("wide" :> "load") @@ ("st" :> "store")
         @@ ("at" :> "store") @@ ("mo" :> "load") @@ ("k" :> "call") @@ ("ro" :> "call")
         @@ ("free" :> "free") @@ ("life" :> "lifetime_start") @@ ("dup" :> "strdup")
         @@ ("mal" :> "malloc") @@ ("fe" :> "fence") @@ ("d" :> "debug") @@ ("q" :> "load")
         @@ ("w" :> "store") @@ ("c" :> "call") @@ ("ret" :> "br")
Locs == ("ld" :> At("p", 1, Null)) @@ ("wide" :> At("o", 1, Null)) @@ ("st" :> At("m", 1, Null))
        @@ ("mo" :> At("m", 1, Null)) @@ ("free" :> At("m", UnknownSize, Null))
        @@ ("life" :> At("p", 1, Null)) @@ ("q" :> At("p", 1, Null)) @@ ("w" :> At("p", 1, Null))
OneBlock(x, y) ==
    LET order == [b \in {"e"} |-> <<"a", x, "d", y, "q", "w", "c", "ret">>]
        kinds == [i \in {"a", x, "d", y, "q", "w", "c", "ret"} |-> Kinds[i]]
    IN  [Base([b \in {"e"} |-> <<>>], order, kinds, Locs, {"p", "o", "m", "a", "dup", "mal"}) EXCEPT
            !.ordering = ("at" :> "stronger") @@ ("mo" :> "monotonic") @@ @,
            !.may = {{"p", "m"}, {"p", "dup"}}, !.must = {{"p", "a"}},
            !.writes = {"k", "fe", "free"}, !.reads = {"ro"},
            !.offset = [@ EXCEPT !["p"] = 1], !.base = [@ EXCEPT !["p"] = "o"],
            !.align = [i \in {"wide"} |-> 2] @@ @, !.simpleInteger = {"wide"},
            !.modref = ("k" :> [p \in {"p"} |-> "Mod"]) @@ ("ro" :> [p \in {"p"} |-> "Ref"])
                       @@ ("free" :> [p \in {"p"} |-> "Mod"]) @@ @,
            !.touches = {<<"c", "k">>, <<"c", "m">>}, !.identical = {{"c", "ro"}},
            !.queries = {"q", "w", "c", "ret"}, !.removable = {x, y, "q"}]

OneBlocks ==
    {OneBlock(x, "fe") : x \in {"ld", "st", "mo", "k", "life"}}
    \union {OneBlock("at", y) : y \in {"ld", "ro", "dup", "mal", "wide", "free"}}

-----------------------------------------------------------------------------
(* Calls: a call c in block j, after a diamond or at the end of a loop.       *)
CallKinds == ("s1" :> "store") @@ ("c2" :> "call") @@ ("c" :> "call")
             @@ [i \in {"br", "br1", "br2", "ret"} |-> "br"]
CallOrder == ("e" :> <<"br">>) @@ ("b1" :> <<"s1", "br1">>) @@ ("b2" :> <<"c2", "br2">>)
             @@ ("j" :> <<"c", "ret">>)
Calls(preds, address) ==
    [Base(preds, CallOrder, CallKinds, [i \in {"s1"} |-> At("p", 1, Null)], {"p"}) EXCEPT
        !.touches = {<<"c", "p">>}, !.identical = {{"c", "c2"}},
        !.address = address,
        !.queries = {"c"}, !.removable = {"s1", "c2", "c"}]

Diamond == ("e" :> <<>>) @@ ("b1" :> <<"e">>) @@ ("b2" :> <<"e">>) @@ ("j" :> <<"b1", "b2">>)
Loop == ("e" :> <<>>) @@ ("b1" :> <<"e", "j">>) @@ ("b2" :> <<"b1">>) @@ ("j" :> <<"b2", "b1">>)
Up == ("e" :> 1) @@ ("b1" :> 2) @@ ("b2" :> 3) @@ ("j" :> 4)
Down == ("e" :> 4) @@ ("b1" :> 3) @@ ("b2" :> 2) @@ ("j" :> 1)

CallPrograms ==
    {Calls(preds, address) : preds \in {Diamond, Loop}, address \in {Up, Down}}
    \union {[Calls(Diamond, Up) EXCEPT !.touches = @ \union {<<"c", "c2">>}]}

-----------------------------------------------------------------------------
(* Pointers across the same blocks: in the diamond j defines a phi of x and   *)
(* y, which needs the entry with two pointers; in the loop the phi p of block *)
(* b1 is advanced by r in j.                                                  *)
PhiOrder == ("e" :> <<"br">>) @@ ("b1" :> <<"s1", "br1">>) @@ ("b2" :> <<"s2", "br2">>)
            @@ ("j" :> <<"f", "l", "ret">>)
PhiKinds == ("s1" :> "store") @@ ("s2" :> "store") @@ ("f" :> "phi") @@ ("l" :> "load")
            @@ [i \in {"br", "br1", "br2", "ret"} |-> "br"]
PhiLocs == ("s1" :> At("x", 1, Null)) @@ ("s2" :> At("y", 1, Null)) @@ ("l" :> At("f", 1, Null))
Phi(translate) ==
    [Base(Diamond, PhiOrder, PhiKinds, PhiLocs, {"x", "y", "f"}) EXCEPT
        !.defined = [@ EXCEPT !["f"] = "j"], !.translatable = {"f"}, !.translate = translate,
        !.uses = [@ EXCEPT !["f"] = {"l"}],
        !.address = Down,
        !.pointerQueries = {Query("f", 1, Null, TRUE, "j"), Query("y", 1, Null, TRUE, "j")},
        !.removable = {"s1", "s2", "l", "f"}]
PhiPrograms ==
    {Phi((<<"f", "b1">> :> "x") @@ (<<"f", "b2">> :> "y")), Phi(<<"f", "b1">> :> "x"),
     [Phi(<<"f", "b1">> :> "x") EXCEPT !.translatable = {}],
     [Phi((<<"f", "b1">> :> "x") @@ (<<"f", "b2">> :> "y")) EXCEPT !.hasDT = FALSE]}

AdvanceOrder == ("e" :> <<"s0", "br">>) @@ ("b1" :> <<"p", "br1">>) @@ ("b2" :> <<"s1", "br2">>)
                @@ ("j" :> <<"r", "l", "ret">>)
AdvanceKinds == ("s0" :> "store") @@ ("s1" :> "store") @@ ("p" :> "phi") @@ ("r" :> "gep")
                @@ ("l" :> "load") @@ [i \in {"br", "br1", "br2", "ret"} |-> "br"]
AdvanceLocs == ("s0" :> At("p0", 1, Null)) @@ ("s1" :> At("r", 1, Null)) @@ ("l" :> At("r", 1, Null))
Advance(translate) ==
    [Base(Loop, AdvanceOrder, AdvanceKinds, AdvanceLocs, {"p0", "p", "r"}) EXCEPT
        !.defined = [@ EXCEPT !["p"] = "b1", !["r"] = "j"], !.translatable = {"p", "r"},
        !.translate = translate, !.may = {{"p", "r"}}, !.address = Up,
        !.uses = [@ EXCEPT !["p"] = {"r"}, !["r"] = {"p", "l"}],
        !.pointerQueries = {Query("p", 1, Null, TRUE, "j"), Query("r", 1, Null, FALSE, "j"),
                            Query("p0", 1, Null, TRUE, "j")},
        !.removable = {"s0", "s1"}]
AdvancePrograms ==
    {Advance((<<"p", "e">> :> "p0") @@ (<<"p", "j">> :> "r")),
     Advance((<<"p", "e">> :> "p0") @@ (<<"p", "j">> :> "r") @@ (<<"r", "b1">> :> "r")
             @@ (<<"r", "b2">> :> "r"))}

-----------------------------------------------------------------------------
(* Sizes and tags: stores that alias x only if it is wide or has no tag.  In  *)
(* Nested the phi p of b1 is r from j, the phi r of j is p from b2, and r has *)
(* been asked for with a larger size.                                         *)
StoreOrder == [PhiOrder EXCEPT !["e"] = <<"s0", "s3", "br">>]
StoreKinds == ("s0" :> "store") @@ ("s3" :> "store") @@ PhiKinds
StoreLocs == ("s0" :> At("x", 1, Null)) @@ ("s3" :> At("y", 1, Null)) @@ PhiLocs
Stores == [Base(Diamond, StoreOrder, StoreKinds, StoreLocs, {"x", "y", "f"}) EXCEPT !.address = Up,
              !.removable = {"s0", "s1", "s2"}]
Sized ==
    {[Stores EXCEPT !.mayWide = {{"x", "y"}}, !.sizes = {1, 2},
                    !.pointerQueries = {Query("x", 1, Null, TRUE, b), Query("x", 2, Null, TRUE, "j"),
                                        Query("x", 1, Null, TRUE, "j")}] : b \in {"b1", "b2"}}
Tagged ==
    {[Stores EXCEPT !.mayUntagged = {{"x", "y"}},
                    !.pointerQueries = {Query("x", 1, "t", TRUE, "b1"), Query("x", 1, "u", TRUE, b),
                                        Query("x", 1, Null, TRUE, "j")}] : b \in {"b1", "j"}}
Nested ==
    [Advance((<<"p", "e">> :> "p0") @@ (<<"p", "j">> :> "r") @@ (<<"r", "b2">> :> "p")
             @@ (<<"r", "b1">> :> "p0")) EXCEPT
        !.mayWide = {{"p", "r"}}, !.may = {}, !.sizes = {1, 2},
        !.pointerQueries = {Query("r", 2, Null, TRUE, "j"), Query("p", 1, Null, TRUE, "b1"),
                            Query("p", 1, Null, TRUE, "j")}]
Unreached ==
    [Stores EXCEPT !.preds = [Diamond EXCEPT !["b2"] = <<>>], !.reachable = {"e", "b1", "j"},
                   !.pointerQueries = {Query("y", 1, Null, TRUE, "j"), Query("x", 1, Null, FALSE, "j")}]

\* the phi p of l is q from k, the phi q of k is p from b: asked for from x, where y
\* is still to do, p is asked for again with the larger size q has been asked for
GrownPreds == ("e" :> <<>>) @@ ("l" :> <<"e", "k">>) @@ ("b" :> <<"l">>) @@ ("k" :> <<"b">>)
              @@ ("y" :> <<"l">>) @@ ("x" :> <<"y", "l">>)
GrownOrder == ("e" :> <<"br">>) @@ ("l" :> <<"p", "br1">>) @@ ("b" :> <<"br2">>)
              @@ ("k" :> <<"q", "br3">>) @@ ("y" :> <<"s1", "br4">>) @@ ("x" :> <<"ret">>)
GrownKinds == [i \in {"br", "br1", "br2", "br3", "br4", "ret"} |-> "br"]
              @@ ("p" :> "phi") @@ ("q" :> "phi") @@ ("s1" :> "store")
Grown ==
    [Base(GrownPreds, GrownOrder, GrownKinds, [i \in {"s1"} |-> At("w", 1, Null)],
          {"p0", "p", "q", "w"}) EXCEPT
        !.defined = [@ EXCEPT !["p"] = "l", !["q"] = "k"], !.translatable = {"p", "q"},
        !.translate = (<<"p", "e">> :> "p0") @@ (<<"p", "k">> :> "q") @@ (<<"q", "b">> :> "p"),
        !.mayWide = {{"p", "w"}}, !.sizes = {1, 2},
        !.address = ("e" :> 1) @@ ("l" :> 2) @@ ("b" :> 3) @@ ("k" :> 4) @@ ("y" :> 5) @@ ("x" :> 6),
        !.pointerQueries = {Query("q", 2, Null, TRUE, "k"), Query("p", 1, Null, TRUE, "x"),
                            Query("p", 2, Null, TRUE, "x")}]

\* the same with a loop of l, k and b that can not be reached, and a definition in l:
\* here PointerCachesFresh fails (Functions <- MCOrphans), ReachedFresh claims nothing
OrphanPreds == [GrownPreds EXCEPT !["l"] = <<"k">>, !["y"] = <<"e">>] @@ ("z" :> <<"k", "b">>)
OrphanOrder == [GrownOrder EXCEPT !["l"] = <<"p", "s2", "br1">>] @@ ("z" :> <<"ret2">>)
OrphanKinds == ("s2" :> "store") @@ ("ret2" :> "br") @@ GrownKinds
OrphanLocs == ("s1" :> At("w", 1, Null)) @@ ("s2" :> At("p", 1, Null))
Orphan ==
    [Base(OrphanPreds, OrphanOrder, OrphanKinds, OrphanLocs, {"p", "q", "w"}) EXCEPT
        !.defined = [@ EXCEPT !["p"] = "l", !["q"] = "k"], !.translatable = {"p", "q"},
        !.translate = (<<"p", "k">> :> "q") @@ (<<"q", "b">> :> "p"),
        !.mayWide = {{"p", "w"}}, !.sizes = {1, 2}, !.reachable = {"e", "y", "x"},
        !.address = Grown.address @@ ("z" :> 7),
        !.pointerQueries = {Query("q", 2, Null, TRUE, "z"), Query("p", 1, Null, TRUE, "x")}]

\* The phi p of l is r from e and the phi q of k is r from d, whose predecessor is e:
\* asked for p the analysis comes to r twice, with the size 2 of a cache of q the second
\* time. What it found for r in e is thrown out and e, which was visited, not seen again.
SharedPreds == ("e" :> <<>>) @@ ("d" :> <<"e">>) @@ ("k" :> <<"d">>) @@ ("l" :> <<"e", "k">>)
               @@ ("m" :> <<"k">>) @@ ("n" :> <<"m">>)
SharedOrder == ("e" :> <<"s", "br1">>) @@ ("d" :> <<"br2">>) @@ ("k" :> <<"q", "br3">>)
               @@ ("l" :> <<"p", "ret">>) @@ ("m" :> <<"s2", "br4">>) @@ ("n" :> <<"ret2">>)
SharedKinds == [i \in {"br1", "br2", "br3", "br4", "ret", "ret2"} |-> "br"]
               @@ [i \in {"p", "q"} |-> "phi"] @@ [i \in {"s", "s2"} |-> "store"]
SharedLocs == ("s" :> At("r", 1, Null)) @@ ("s2" :> At("q", 2, Null))
Shared ==
    [Base(SharedPreds, SharedOrder, SharedKinds, SharedLocs, {"p", "q", "r"}) EXCEPT
        !.defined = [@ EXCEPT !["p"] = "l", !["q"] = "k"], !.translatable = {"p", "q"},
        !.translate = (<<"p", "e">> :> "r") @@ (<<"p", "k">> :> "q") @@ (<<"q", "d">> :> "r"),
        !.sizes = {1, 2},
        !.address = ("e" :> 1) @@ ("m" :> 2) @@ ("d" :> 3) @@ ("k" :> 4) @@ ("l" :> 5) @@ ("n" :> 6),
        !.pointerQueries = {Query("q", 2, Null, TRUE, "n"), Query("p", 1, Null, TRUE, "l"),
                            Query("q", 2, Null, TRUE, "k")}]

MCFunctions == OneBlocks \union CallPrograms \union PhiPrograms \union AdvancePrograms
               \union Sized \union Tagged \union {Nested, Unreached, Grown}

MCOrphans == {Orphan}
MCShared == {Shared}
=============================================================================
