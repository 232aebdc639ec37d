-------------------------- MODULE DependenceScans --------------------------
(***************************************************************************)
(* The scans of a block for what an access to memory depends on               *)
(* (src/src/FlowDependenceAnalysis.cpp, lines 95 to 427 and 435 to 643): a    *)
(* walk backwards from a position that ends at the first instruction the      *)
(* query can not be moved across, at the start of the block, or after         *)
(* BlockScanLimit instructions.  What the alias analysis answers is given     *)
(* with the function.                                                         *)
(***************************************************************************)
EXTENDS Naturals, FiniteSets, SequencesExt

CONSTANTS
    Functions,          \* the functions to analyse
    BlockScanLimit,     \* the instructions a scan looks at, plus one
    Null                \* a null pointer

Instructions(f) == UNION {ToSet(f.insts[b]) : b \in DOMAIN f.preds}
NoInstructions == {Null, "NonLocal", "NonFuncLocal", "Unknown"}

(***************************************************************************)
(* An instruction occurs once, in one block; blocks have different addresses; *)
(* no instruction is null or one of the constants that stand for none.        *)
(***************************************************************************)
ASSUME FunctionsAssumption ==
    /\ Null \notin {"NonLocal", "NonFuncLocal", "Unknown"}
    /\ \A f \in Functions : LET blocks == DOMAIN f.preds IN
        /\ f.preds \in [blocks -> Seq(blocks)]
        /\ f.insts \in [blocks -> Seq(Instructions(f))]
        /\ \A b, c \in blocks : \A m \in DOMAIN f.insts[b], n \in DOMAIN f.insts[c] :
              f.insts[b][m] = f.insts[c][n] => b = c /\ m = n
        /\ Instructions(f) \intersect NoInstructions = {}
        /\ f.address \in [blocks -> Nat] /\ IsInjective(f.address)
        /\ f.sizes \subseteq Nat
        /\ \A q \in f.pointerQueries :
              /\ q.loc \in [ptr : {q.loc.ptr}, size : f.sizes, tag : {q.loc.tag}]
              /\ q.isLoad \in BOOLEAN /\ q.from \in blocks
              /\ q.loc.ptr \in Instructions(f) => f.defined[q.loc.ptr] # Null

\* Nor is a null pointer a block (the null pair of a cache, lines 1068, 1155).
ASSUME NullIsNoBlock == \A f \in Functions : Null \notin DOMAIN f.preds

VARIABLES
    fn,                 \* the function: blocks, instructions, answers of AA
    insts               \* the instructions each block has now, in order

UnknownSize == 1000     \* a size above all others

Blocks == DOMAIN fn.preds
Preds(b) == fn.preds[b]
Present == UNION {ToSet(insts[b]) : b \in Blocks}
Gone == Instructions(fn) \ Present
BlockOf(i) == CHOOSE b \in Blocks : i \in ToSet(insts[b])
PositionOf(i) == CHOOSE n \in DOMAIN insts[BlockOf(i)] : insts[BlockOf(i)][n] = i
Kind(i) == fn.kind[i]

(***************************************************************************)
(* The answer to a query (FlowDepResult): a type and an instruction, or, for  *)
(* Other, one of three constants that are no instructions.                    *)
(***************************************************************************)
GetDef(i) == [type |-> "Def", pointer |-> i]
GetClobber(i) == [type |-> "Clobber", pointer |-> i]
GetDirty(i) == [type |-> "Invalid", pointer |-> i]
NonLocal == [type |-> "Other", pointer |-> "NonLocal"]
NonFuncLocal == [type |-> "Other", pointer |-> "NonFuncLocal"]
Unknown == [type |-> "Other", pointer |-> "Unknown"]

IsDirty(r) == r.type = "Invalid"
GetInst(r) == r.pointer

(***************************************************************************)
(* GetLocation: whether an instruction has a location, and if it reads or     *)
(* modifies.                                                                  *)
(***************************************************************************)
Ordering(i) == fn.ordering[i]
HasLocation(i) ==
    \/ Kind(i) \in {"load", "store"} /\ Ordering(i) # "stronger"
    \/ Kind(i) \in {"vaarg", "free", "lifetime_start", "marker"}

ModRefOf(i) ==
    CASE Kind(i) = "load" /\ Ordering(i) = "unordered" -> "Ref"
      [] Kind(i) = "store" /\ Ordering(i) = "unordered" -> "Mod"
      [] Kind(i) \in {"load", "store", "vaarg"} -> "ModRef"
      [] Kind(i) \in {"free", "lifetime_start", "marker"} -> "Mod"
      [] i \in fn.writes -> "ModRef"
      [] i \in fn.reads -> "Ref"
      [] OTHER -> "NoModRef"

Modifies(mr) == mr \in {"Mod", "ModRef"}

(***************************************************************************)
(* The alias analysis: a larger size or the lack of a type tag may make two   *)
(* locations alias that otherwise do not.                                     *)
(***************************************************************************)
MustAlias(loc, p) == loc.ptr = p \/ {loc.ptr, p} \in fn.must
NoAlias(loc, p) ==
    /\ ~MustAlias(loc, p)
    /\ {loc.ptr, p} \notin fn.may
    /\ loc.size > 1 => {loc.ptr, p} \notin fn.mayWide
    /\ loc.tag = Null => {loc.ptr, p} \notin fn.mayUntagged

(***************************************************************************)
(* getLoadLoadClobberFullWidthSize: the first power of two above the size of  *)
(* the load that covers the location, if it and those below are legal and not *)
(* more than the alignment; 0 if there is none.                               *)
(***************************************************************************)
Widths == {1, 2, 4, 8, 16}
MinWidth(S) == CHOOSE w \in S : \A v \in S : w <= v
FullWidthSize(loc, load) ==
    LET end == fn.offset[loc.ptr] + loc.size
        start == fn.offset[fn.loc[load].ptr]
        covering == {w \in Widths : w > fn.loc[load].size /\ start + w >= end}
        width == MinWidth(covering)
    IN  IF /\ load \in fn.simpleInteger
           /\ fn.sanitize # "thread"
           /\ fn.base[fn.loc[load].ptr] = fn.base[loc.ptr]
           /\ start <= fn.offset[loc.ptr]
           /\ covering # {}
           /\ width <= fn.align[load] /\ width \in fn.legal
           /\ ~(fn.sanitize = "address" /\ start + width > end)
        THEN width ELSE 0

Widenable(loc, load) ==
    fn.hasLayout /\ fn.align[load] > fn.loc[load].size /\ FullWidthSize(loc, load) # 0

(***************************************************************************)
(* What getPointerDependencyFrom makes of one instruction: pass over it, or   *)
(* end with a definition or a clobber.                                        *)
(***************************************************************************)
OnLoad(i, loc, isLoad) ==
    CASE Ordering(i) # "unordered" -> "Clobber"
      [] Ordering(i) = "unordered" /\ isLoad ->
            CASE MustAlias(loc, fn.loc[i].ptr) -> "Def"
              [] NoAlias(loc, fn.loc[i].ptr) /\ Widenable(loc, i) -> "Clobber"
              [] OTHER -> "Pass"
      [] Ordering(i) = "unordered" /\ ~isLoad ->
            IF NoAlias(loc, fn.loc[i].ptr) \/ fn.loc[i].ptr \in fn.constant
            THEN "Pass" ELSE "Def"

OnStore(i, loc, invariantLoad) ==
    CASE Ordering(i) # "unordered" -> "Clobber"
      [] Ordering(i) = "unordered" /\ loc.ptr \in fn.constant -> "Pass"
      [] Ordering(i) = "unordered" /\ loc.ptr \notin fn.constant ->
            CASE MustAlias(loc, fn.loc[i].ptr) -> "Def"
              [] NoAlias(loc, fn.loc[i].ptr) \/ invariantLoad -> "Pass"
              [] OTHER -> "Clobber"

OnModRef(i, loc, isLoad) ==
    CASE fn.modref[i][loc.ptr] = "NoModRef" -> "Pass"
      [] fn.modref[i][loc.ptr] = "Ref" /\ isLoad -> "Pass"
      [] OTHER -> "Clobber"

\* an alloca, malloc or calloc, or another function that returns new memory
Allocates(i) == Kind(i) \in {"alloca", "malloc", "strdup"}

OnAllocation(i, loc, isLoad) ==
    LET whole == [ptr |-> fn.object[loc.ptr], size |-> UnknownSize, tag |-> Null]
    IN  CASE MustAlias(whole, i) -> "Def"
          [] ~MustAlias(whole, i) /\ ~NoAlias(whole, i) -> "Clobber"
          [] NoAlias(whole, i) /\ Kind(i) # "strdup" -> "Pass"
          [] OTHER -> OnModRef(i, loc, isLoad)

OnPointer(i, loc, isLoad, invariantLoad) ==
    CASE Kind(i) = "debug" -> "Pass"
      [] Kind(i) = "lifetime_start" ->
            IF MustAlias(loc, fn.loc[i].ptr) THEN "Def" ELSE "Pass"
      [] Kind(i) = "load" -> OnLoad(i, loc, isLoad)
      [] Kind(i) = "store" -> OnStore(i, loc, invariantLoad)
      [] Allocates(i) -> OnAllocation(i, loc, isLoad)
      [] OTHER -> OnModRef(i, loc, isLoad)

(***************************************************************************)
(* What getCallSiteDependencyFrom makes of one instruction.                   *)
(***************************************************************************)
IsCallSite(i) == Kind(i) \in {"call", "invoke", "malloc", "strdup", "debug"}
ReadsOnly(c) == c \notin fn.writes

OnCallSite(i, c) ==
    CASE HasLocation(i) -> IF <<c, fn.loc[i].ptr>> \in fn.touches THEN "Clobber" ELSE "Pass"
      [] Kind(i) = "debug" -> "Pass"
      [] ~HasLocation(i) /\ Kind(i) # "debug" /\ IsCallSite(i) ->
            CASE <<c, i>> \in fn.touches -> "Clobber"
              [] <<c, i>> \notin fn.touches /\ ReadsOnly(c)
                    /\ ~Modifies(ModRefOf(i)) /\ {c, i} \in fn.identical -> "Def"
              [] OTHER -> "Pass"
      [] OTHER -> IF ModRefOf(i) # "NoModRef" THEN "Clobber" ELSE "Pass"

(***************************************************************************)
(* A scan of the first n instructions of block b, backwards: on[i] is what it *)
(* makes of each, and counted are those that count against the limit.         *)
(***************************************************************************)
AtStart(b) == IF b # fn.entry THEN NonLocal ELSE NonFuncLocal

Stops(b, n, on) == {k \in 1..n : on[insts[b][k]] # "Pass"}
LastStop(b, n, on) ==
    CHOOSE k \in Stops(b, n, on) : \A j \in Stops(b, n, on) : j <= k
Unlimited(b, n, on) ==
    IF Stops(b, n, on) = {} THEN AtStart(b)
    ELSE LET i == insts[b][LastStop(b, n, on)]
         IN  [type |-> on[i], pointer |-> i]

LooksAt(b, n, on, counted) ==
    {k \in 1..n : /\ insts[b][k] \in counted
                  /\ \A j \in Stops(b, n, on) : j <= k}
Scan(b, n, on, counted) ==
    IF Cardinality(LooksAt(b, n, on, counted)) >= BlockScanLimit THEN Unknown
    ELSE Unlimited(b, n, on)

(***************************************************************************)
(* A pointer at the end of block a, from what it is at the start of its       *)
(* successor b: translated when b defines it, and null if that can not be.    *)
(***************************************************************************)
NeedsTranslation(p, b) == fn.defined[p] = b
Available(p, a) == <<p, a>> \in DOMAIN fn.translate /\ fn.translate[<<p, a>>] \notin Gone
Into(b, p, a) ==
    CASE ~NeedsTranslation(p, b) -> p
      [] NeedsTranslation(p, b) /\ Available(p, a) -> fn.translate[<<p, a>>]
      [] OTHER -> Null

Each(b) == ToSet(insts[b])
NotDebug(b) == {i \in Each(b) : Kind(i) # "debug"}

AsPointer(loc, isLoad, invariantLoad, b) ==
    [i \in Each(b) |-> OnPointer(i, loc, isLoad, invariantLoad)]
AsCallSite(c, b) == [i \in Each(b) |-> OnCallSite(i, c)]

PointerDependency(loc, isLoad, invariantLoad, b, n) ==
    Scan(b, n, AsPointer(loc, isLoad, invariantLoad, b), NotDebug(b))
CallSiteDependency(c, b, n) == Scan(b, n, AsCallSite(c, b), Each(b))

\* the same without the limit
PointerTruth(loc, isLoad, invariantLoad, b, n) ==
    Unlimited(b, n, AsPointer(loc, isLoad, invariantLoad, b))
CallSiteTruth(c, b, n) == Unlimited(b, n, AsCallSite(c, b))

(***************************************************************************)
(* The scan getDependency makes for an instruction, from below position n.    *)
(***************************************************************************)
IsLoadQuery(q) == ~Modifies(ModRefOf(q)) \/ Kind(q) = "lifetime_start"
IsInvariantLoad(q) == IsLoadQuery(q) /\ q \in fn.invariant

LocalDependency(q, n) ==
    CASE PositionOf(q) = 1 -> AtStart(BlockOf(q))
      [] PositionOf(q) # 1 /\ HasLocation(q) ->
            PointerDependency(fn.loc[q], IsLoadQuery(q), IsInvariantLoad(q), BlockOf(q), n)
      [] PositionOf(q) # 1 /\ ~HasLocation(q) /\ IsCallSite(q) ->
            CallSiteDependency(q, BlockOf(q), n)
      [] OTHER -> Unknown

LocalTruth(q) ==
    LET b == BlockOf(q)
        n == PositionOf(q) - 1
    IN  CASE n = 0 -> AtStart(b)
          [] n # 0 /\ HasLocation(q) ->
                PointerTruth(fn.loc[q], IsLoadQuery(q), IsInvariantLoad(q), b, n)
          [] n # 0 /\ ~HasLocation(q) /\ IsCallSite(q) -> CallSiteTruth(q, b, n)
          [] OTHER -> Unknown
=============================================================================
