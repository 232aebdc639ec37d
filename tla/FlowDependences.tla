-------------------------- MODULE FlowDependences --------------------------
(***************************************************************************)
(* The caches of the memory dependence analysis (FlowDependenceAnalysis,      *)
(* src/src/FlowDependenceAnalysis.cpp, lines 67 to 75, 252 to 263, 647 to     *)
(* 1669): the three queries that fill them, the reverse maps that find what   *)
(* depends on an instruction, and removeInstruction, which uses these to mark *)
(* dirty what it can not keep.  A client queries, removes and invalidates in  *)
(* any order, between queries that run to their end.                          *)
(***************************************************************************)
EXTENDS DependenceScans

VARIABLES
    localDeps,              \* the result of getDependency for an instruction
    reverseLocalDeps,       \* pairs of an instruction and a query that has it
    nonLocalDeps,           \* for a call, results by block and if one is dirty
    reverseNonLocalDeps,
    nonLocalPointerDeps,    \* for a pointer and isLoad, results by block
    reverseNonLocalPtrDeps,
    pc,                     \* "idle", "call" or "pointer"
    job,                    \* the query of a call that is being answered
    stack,                  \* the calls of getNonLocalPointerDepFromBB
    visited,                \* Visited: the pointer each block is visited with
    result,                 \* Result
    answer,                 \* the last answer
    fault                   \* an assertion failed, or no instruction was used as one

caches == <<localDeps, reverseLocalDeps, nonLocalDeps, reverseNonLocalDeps,
            nonLocalPointerDeps, reverseNonLocalPtrDeps>>
running == <<pc, job, stack, visited, result>>
vars == <<fn, insts, caches, running, answer, fault>>

Empty == [x \in {} |-> Null]
Put(f, x, v) == [y \in DOMAIN f \union {x} |-> IF y = x THEN v ELSE f[y]]
NoPair == [bb |-> Null, skip |-> FALSE]
NoJob == [query |-> Null, dirtyBlocks |-> <<>>, seen |-> {}, sorted |-> 0]

Init ==
    /\ fn \in Functions
    /\ insts = fn.insts
    /\ localDeps = Empty /\ reverseLocalDeps = {}
    /\ nonLocalDeps = Empty /\ reverseNonLocalDeps = {}
    /\ nonLocalPointerDeps = Empty /\ reverseNonLocalPtrDeps = {}
    /\ pc = "idle" /\ job = NoJob
    /\ stack = <<>> /\ visited = Empty /\ result = {}
    /\ answer = [kind |-> "none", query |-> Null, results |-> {}]
    /\ fault = FALSE

Answer(kind, query, results) == answer' = [kind |-> kind, query |-> query, results |-> results]

Idle == pc = "idle" /\ ~fault

(***************************************************************************)
(* The pair of a reverse map that a result stands for, if it has an           *)
(* instruction.  RemoveFromReverseMap asserts that what it removes is there.  *)
(***************************************************************************)
Link(dep, query) == IF GetInst(dep) = Null THEN {} ELSE {<<GetInst(dep), query>>}
InSync(reverse, dep, query) == Link(dep, query) \subseteq reverse

Fail == fault' = TRUE /\ UNCHANGED <<fn, insts, caches, running, answer>>

-----------------------------------------------------------------------------
(***************************************************************************)
(* getDependency.  A result that is not dirty is returned; otherwise the scan *)
(* begins at the instruction of the dirty result, or at the query.            *)
(***************************************************************************)
Cached(q) == IF q \in DOMAIN localDeps THEN localDeps[q] ELSE GetDirty(Null)

GetCachedDependency(q) ==
    /\ Idle /\ q \in fn.queries \intersect Present
    /\ ~IsDirty(Cached(q))
    /\ Answer("local", q, {Cached(q)})
    /\ UNCHANGED <<fn, insts, caches, running, fault>>

ScanPos(q) == PositionOf(IF GetInst(Cached(q)) = Null THEN q ELSE GetInst(Cached(q)))

GetDependency(q) ==
    /\ Idle /\ q \in fn.queries \intersect Present
    /\ IsDirty(Cached(q))
    /\ InSync(reverseLocalDeps, Cached(q), q)
    /\ LET dep == LocalDependency(q, ScanPos(q) - 1)
       IN  /\ localDeps' = Put(localDeps, q, dep)
           /\ reverseLocalDeps' =
                 (reverseLocalDeps \ Link(Cached(q), q)) \union Link(dep, q)
           /\ Answer("local", q, {dep})
    /\ UNCHANGED <<fn, insts, nonLocalDeps, reverseNonLocalDeps, nonLocalPointerDeps,
                   reverseNonLocalPtrDeps, running, fault>>

-----------------------------------------------------------------------------
(***************************************************************************)
(* Results by block: a vector of which a prefix is sorted by the address of   *)
(* the block, so that it can be searched.                                     *)
(***************************************************************************)
Less(e, d) == fn.address[e.bb] < fn.address[d.bb]
IsSortedInfo(info) == \A n \in 1..Len(info) - 1 : ~Less(info[n + 1], info[n])
Rank(info, n) ==
    Cardinality({m \in DOMAIN info : \/ Less(info[m], info[n])
                                     \/ ~Less(info[n], info[m]) /\ m <= n})
SortAll(info) ==
    [k \in DOMAIN info |-> info[CHOOSE n \in DOMAIN info : Rank(info, n) = k]]

InsertSorted(info, e) ==
    InsertAt(info, 1 + Cardinality({n \in DOMAIN info : ~Less(e, info[n])}), e)

MutSortNonLocalDepInfoCache(info, sorted) ==
    IF Len(info) = sorted + 1 THEN InsertSorted(Front(info), Last(info)) ELSE info
SortNonLocalDepInfoCache(info, sorted) ==
    LET prefix == SubSeq(info, 1, sorted)
        added == Len(info) - sorted
    IN  CASE added = 0 -> info
          [] added = 1 -> InsertSorted(prefix, Last(info))
          [] added = 2 -> InsertSorted(InsertSorted(prefix, Last(info)), info[sorted + 1])
          [] OTHER -> SortAll(info)

Found(info, sorted, b) == {n \in 1..sorted : info[n].bb = b}

\* the result an entry gets, where it is or at the end
SetResult(info, sorted, b, dep) ==
    IF Found(info, sorted, b) = {} THEN Append(info, [bb |-> b, result |-> dep])
    ELSE [n \in DOMAIN info |->
            IF n \in Found(info, sorted, b) THEN [bb |-> b, result |-> dep] ELSE info[n]]

\* the result to start from: the dirty one that is there, if any
Former(info, sorted, b) ==
    IF Found(info, sorted, b) = {} THEN GetDirty(Null)
    ELSE info[CHOOSE n \in Found(info, sorted, b) : TRUE].result
ScanTo(b, former) ==
    IF GetInst(former) = Null THEN Len(insts[b]) ELSE PositionOf(GetInst(former)) - 1

(***************************************************************************)
(* getNonLocalCallDependency, of a call whose local result is NonLocal.       *)
(***************************************************************************)
NoInfo == [info |-> <<>>, dirty |-> FALSE]
CallInfo(q) == IF q \in DOMAIN nonLocalDeps THEN nonLocalDeps[q] ELSE NoInfo

CallQuery(q) ==
    /\ Idle /\ q \in fn.queries \intersect Present
    /\ Kind(q) \in {"call", "invoke"}
    /\ Cached(q) = NonLocal

GetCachedCallDependency(q) ==
    /\ CallQuery(q)
    /\ CallInfo(q).info # <<>> /\ ~CallInfo(q).dirty
    /\ Answer("call", q, ToSet(CallInfo(q).info))
    /\ UNCHANGED <<fn, insts, caches, running, fault>>

\* what a sequence has at the positions I, in their order
Picked(s, I) ==
    [k \in 1..Cardinality(I) |-> s[CHOOSE n \in I : Cardinality({m \in I : m <= n}) = k]]

BlocksIn(info) == [n \in DOMAIN info |-> info[n].bb]
DirtyBlocksIn(info) == Picked(BlocksIn(info), {n \in DOMAIN info : IsDirty(info[n].result)})

GetNonLocalCallDependency(q) ==
    /\ CallQuery(q)
    /\ CallInfo(q).info = <<>> \/ CallInfo(q).dirty
    /\ LET info == CallInfo(q).info
           begin == IF info = <<>> THEN Preds(BlockOf(q)) ELSE DirtyBlocksIn(info)
       IN  /\ nonLocalDeps' = Put(nonLocalDeps, q, [CallInfo(q) EXCEPT !.info = SortAll(info)])
           /\ job' = [query |-> q, dirtyBlocks |-> begin, seen |-> {}, sorted |-> Len(info)]
    /\ pc' = "call"
    /\ UNCHANGED <<fn, insts, localDeps, reverseLocalDeps, reverseNonLocalDeps,
                   nonLocalPointerDeps, reverseNonLocalPtrDeps, stack, visited, result,
                   answer, fault>>

InCall == pc = "call" /\ ~fault
DirtyBB == Last(job.dirtyBlocks)
JobInfo == nonLocalDeps[job.query].info
IsDone(b) == b \in job.seen \/ \E n \in Found(JobInfo, job.sorted, b) : ~IsDirty(JobInfo[n].result)
Popped == Front(job.dirtyBlocks)

SkipDirtyBlock ==
    /\ InCall /\ job.dirtyBlocks # <<>> /\ IsDone(DirtyBB)
    /\ job' = [job EXCEPT !.dirtyBlocks = Popped, !.seen = @ \union {DirtyBB}]
    /\ UNCHANGED <<fn, insts, caches, pc, stack, visited, result, answer, fault>>

Transparent(dep) == dep = NonLocal

ScanDirtyBlock ==
    /\ InCall /\ job.dirtyBlocks # <<>> /\ ~IsDone(DirtyBB)
    /\ LET q == job.query
           b == DirtyBB
           former == Former(JobInfo, job.sorted, b)
           dep == CallSiteDependency(q, b, ScanTo(b, former))
       IN  /\ InSync(reverseNonLocalDeps, former, q)
           /\ nonLocalDeps' = [nonLocalDeps EXCEPT ![q].info = SetResult(@, job.sorted, b, dep)]
           /\ reverseNonLocalDeps' =
                 (reverseNonLocalDeps \ Link(former, q))
                 \union (IF Transparent(dep) THEN {} ELSE Link(dep, q))
           /\ job' = [job EXCEPT !.dirtyBlocks = Popped \o (IF Transparent(dep) THEN Preds(b) ELSE <<>>),
                                 !.seen = @ \union {b}]
    /\ UNCHANGED <<fn, insts, localDeps, reverseLocalDeps, nonLocalPointerDeps,
                   reverseNonLocalPtrDeps, pc, stack, visited, result, answer, fault>>

EndCallQuery ==
    /\ InCall /\ job.dirtyBlocks = <<>>
    /\ Answer("call", job.query, ToSet(JobInfo))
    /\ pc' = "idle" /\ job' = NoJob
    /\ UNCHANGED <<fn, insts, caches, stack, visited, result, fault>>

-----------------------------------------------------------------------------
(***************************************************************************)
(* getNonLocalPointerDependency.  A call of getNonLocalPointerDepFromBB is a  *)
(* frame: the location, the block it starts from, if it skips that block, its *)
(* worklist, how many entries of the cache are sorted, and, when the pointer  *)
(* has been translated, the predecessors still to recurse into.               *)
(***************************************************************************)
Frame(loc, isLoad, start, skip) ==
    [mode |-> "enter", loc |-> loc, isLoad |-> isLoad, start |-> start, skip |-> skip,
     work |-> <<>>, sorted |-> 0, bb |-> Null, preds |-> <<>>]

AskPointer(query) ==
    /\ Idle /\ query \in fn.pointerQueries
    /\ fn.defined[query.loc.ptr] # Null => query.loc.ptr \in Present
    /\ pc' = "pointer"
    /\ job' = [NoJob EXCEPT !.query = query]
    /\ stack' = <<Frame(query.loc, query.isLoad, query.from, TRUE)>>
    /\ visited' = Empty /\ result' = {}
    /\ UNCHANGED <<fn, insts, caches, answer, fault>>

Top == Head(stack)
Key == [ptr |-> Top.loc.ptr, isLoad |-> Top.isLoad]
In(mode) == pc = "pointer" /\ ~fault /\ stack # <<>> /\ Top.mode = mode
Become(frame) == stack' = <<frame>> \o Tail(stack)

NewInfo(loc) == [pair |-> NoPair, deps |-> <<>>, size |-> loc.size, tag |-> loc.tag]
Info == IF Key \in DOMAIN nonLocalPointerDeps THEN nonLocalPointerDeps[Key] ELSE NewInfo(Top.loc)
SetInfo(info) == nonLocalPointerDeps' = Put(nonLocalPointerDeps, Key, info)

Links(deps, key) == UNION {Link(deps[n].result, key) : n \in DOMAIN deps}
Linked(deps) == {n \in DOMAIN deps : GetInst(deps[n].result) # Null}
AllInSync(reverse, deps, key) ==
    /\ \A n \in Linked(deps) : InSync(reverse, deps[n].result, key)
    /\ \A n, k \in Linked(deps) : GetInst(deps[n].result) = GetInst(deps[k].result) => n = k

(***************************************************************************)
(* What is cached for a smaller size or another type tag is thrown out; the   *)
(* query takes the larger size that is cached, and drops its tag.             *)
(***************************************************************************)
Smaller == Info.size < Top.loc.size
OtherTag == Info.size = Top.loc.size /\ Info.tag # Top.loc.tag

MutThrowOut(info) ==
    /\ AllInSync(reverseNonLocalPtrDeps, Info.deps, Key)
    /\ UNCHANGED reverseNonLocalPtrDeps
    /\ SetInfo([info EXCEPT !.pair = NoPair])
ThrowOut(info) ==
    /\ AllInSync(reverseNonLocalPtrDeps, Info.deps, Key)
    /\ reverseNonLocalPtrDeps' = reverseNonLocalPtrDeps \ Links(Info.deps, Key)
    /\ SetInfo([info EXCEPT !.pair = NoPair, !.deps = <<>>])

ThrowOutSmaller ==
    /\ In("enter") /\ Smaller
    /\ ThrowOut([Info EXCEPT !.size = Top.loc.size])
    /\ UNCHANGED <<fn, insts, localDeps, reverseLocalDeps, nonLocalDeps, reverseNonLocalDeps,
                   running, answer, fault>>

MutRestartWithSize ==
    /\ In("enter") /\ Info.size > Top.loc.size
    /\ UNCHANGED vars

RestartWithSize ==
    /\ In("enter") /\ Info.size > Top.loc.size
    /\ Become([Top EXCEPT !.loc.size = Info.size])
    /\ UNCHANGED <<fn, insts, caches, pc, job, visited, result, answer, fault>>

ThrowOutTagged ==
    /\ In("enter") /\ OtherTag /\ Info.tag # Null
    /\ ThrowOut([Info EXCEPT !.tag = Null])
    /\ UNCHANGED <<fn, insts, localDeps, reverseLocalDeps, nonLocalDeps, reverseNonLocalDeps,
                   running, answer, fault>>

RestartWithoutTag ==
    /\ In("enter") /\ OtherTag /\ Info.tag = Null
    /\ Become([Top EXCEPT !.loc.tag = Null])
    /\ UNCHANGED <<fn, insts, caches, pc, job, visited, result, answer, fault>>

Consistent == Info.size = Top.loc.size /\ Info.tag = Top.loc.tag

(***************************************************************************)
(* What a query reports for a block: nothing if the block is transparent.     *)
(***************************************************************************)
Entry(b, dep, ptr) == [bb |-> b, result |-> dep, address |-> ptr]
Reports(b, dep) == ~Transparent(dep) /\ (fn.hasDT => b \in fn.reachable)
Reported(b, dep) == Entry(b, IF fn.hasDT THEN dep ELSE Unknown, Top.loc.ptr)

Conflicts(b, ptr) == b \in DOMAIN visited /\ visited[b] # ptr

\* the call returns true: what it starts from is unknown to the one that made it
ReturnUnknown ==
    /\ result' = result \union {Entry(Top.start, Unknown, Top.loc.ptr)}
    /\ stack' = Tail(stack)

CallerKey == [ptr |-> stack[2].loc.ptr, isLoad |-> stack[2].isLoad]
MutUnpaired(deps, keys) == deps
Unpaired(deps, keys) == [k \in DOMAIN deps |-> IF k \in keys THEN [deps[k] EXCEPT !.pair = NoPair]
                                              ELSE deps[k]]
CallerKeys == IF Len(stack) > 1 THEN {CallerKey} ELSE {}

(***************************************************************************)
(* The fast path: all the blocks of the cache, if it was filled by the same   *)
(* query and no block was visited with another pointer.                       *)
(***************************************************************************)
CachedFrom(b, skip) == Info.pair = [bb |-> b, skip |-> skip]
CachedBlocks == {e.bb : e \in ToSet(Info.deps)}

ReturnCached ==
    /\ In("enter") /\ Consistent /\ CachedFrom(Top.start, Top.skip)
    /\ \A b \in CachedBlocks : ~Conflicts(b, Top.loc.ptr)
    /\ visited' = [b \in DOMAIN visited \union CachedBlocks |->
                     IF b \in CachedBlocks THEN Top.loc.ptr ELSE visited[b]]
    /\ result' = result \union {Reported(e.bb, e.result) :
                                 e \in {d \in ToSet(Info.deps) : Reports(d.bb, d.result)}}
    /\ stack' = Tail(stack)
    /\ UNCHANGED <<fn, insts, caches, pc, job, answer, fault>>

ReturnConflict ==
    /\ In("enter") /\ Consistent /\ CachedFrom(Top.start, Top.skip)
    /\ \E b \in CachedBlocks : Conflicts(b, Top.loc.ptr)
    /\ ReturnUnknown
    /\ nonLocalPointerDeps' = Unpaired(nonLocalPointerDeps, CallerKeys)
    /\ UNCHANGED <<fn, insts, localDeps, reverseLocalDeps, nonLocalDeps, reverseNonLocalDeps,
                   reverseNonLocalPtrDeps, pc, job, visited, answer, fault>>

Begin ==
    /\ In("enter") /\ Consistent /\ ~CachedFrom(Top.start, Top.skip)
    /\ SetInfo([Info EXCEPT !.pair = IF Info.deps = <<>> THEN [bb |-> Top.start, skip |-> Top.skip]
                                     ELSE NoPair])
    /\ Become([Top EXCEPT !.mode = "loop", !.work = <<Top.start>>, !.sorted = Len(Info.deps)])
    /\ UNCHANGED <<fn, insts, localDeps, reverseLocalDeps, nonLocalDeps, reverseNonLocalDeps,
                   reverseNonLocalPtrDeps, pc, job, visited, result, answer, fault>>

-----------------------------------------------------------------------------
(***************************************************************************)
(* One block of the worklist (GetNonLocalInfoForBlock).  A block that is not  *)
(* transparent ends the path: unless it can not be reached, it is reported.   *)
(***************************************************************************)
Deps == Info.deps
Block == Last(Top.work)
FormerDep == Former(Deps, Top.sorted, Block)
BlockDep ==
    IF ~IsDirty(FormerDep) THEN FormerDep
    ELSE PointerDependency(Top.loc, Top.isLoad, FALSE, Block, ScanTo(Block, FormerDep))

MutRemembered(dep) == IF dep.type = "Def" THEN Link(dep, Key) ELSE {}
Remembered(dep) == IF dep.type \in {"Def", "Clobber"} THEN Link(dep, Key) ELSE {}
Rescan(dep) ==
    /\ SetInfo([Info EXCEPT !.deps = SetResult(@, Top.sorted, Block, dep)])
    /\ reverseNonLocalPtrDeps' =
          (reverseNonLocalPtrDeps \ Link(FormerDep, Key)) \union Remembered(dep)

Lookup ==
    /\ In("loop") /\ Top.work # <<>> /\ ~Top.skip
    /\ \/ ~IsDirty(FormerDep) /\ UNCHANGED <<nonLocalPointerDeps, reverseNonLocalPtrDeps>>
       \/ /\ IsDirty(FormerDep) /\ InSync(reverseNonLocalPtrDeps, FormerDep, Key)
          /\ Rescan(BlockDep)
    /\ LET rest == [Top EXCEPT !.work = Front(@)]
           reported == Reports(Block, BlockDep)
       IN  /\ result' = result \union
                 (IF reported THEN {Reported(Block, BlockDep)} ELSE {})
           /\ Become(IF reported THEN rest ELSE [rest EXCEPT !.mode = "pass", !.bb = Block])
    /\ UNCHANGED <<fn, insts, localDeps, reverseLocalDeps, nonLocalDeps, reverseNonLocalDeps,
                   pc, job, visited, answer, fault>>

SkipFirstBlock ==
    /\ In("loop") /\ Top.work # <<>> /\ Top.skip
    /\ Become([Top EXCEPT !.mode = "pass", !.bb = Block, !.work = Front(@)])
    /\ UNCHANGED <<fn, insts, caches, pc, job, visited, result, answer, fault>>

(***************************************************************************)
(* Past a transparent block, to its predecessors: with the same pointer, onto *)
(* the worklist; or, when the block defines it, with the translated pointer,  *)
(* into a call for each.  Either fails if one was visited with another        *)
(* pointer.                                                                   *)
(***************************************************************************)
Translation(a) == <<a, Into(Top.bb, Top.loc.ptr, a)>>
Steps == LET preds == Preds(Top.bb) IN [n \in DOMAIN preds |-> Translation(preds[n])]
CanPass ==
    /\ NeedsTranslation(Top.loc.ptr, Top.bb) => Top.loc.ptr \in fn.translatable
    /\ \A n \in DOMAIN Steps : ~Conflicts(Steps[n][1], Steps[n][2])

NewSteps ==
    Picked(Steps, {n \in DOMAIN Steps : /\ Steps[n][1] \notin DOMAIN visited
                                       /\ \A m \in 1..n - 1 : Steps[m][1] # Steps[n][1]})
Visit(steps) ==
    visited' = [b \in DOMAIN visited \union {steps[n][1] : n \in DOMAIN steps} |->
                  IF b \in DOMAIN visited THEN visited[b]
                  ELSE steps[CHOOSE n \in DOMAIN steps : steps[n][1] = b][2]]

PassUntranslated ==
    /\ In("pass") /\ CanPass /\ ~NeedsTranslation(Top.loc.ptr, Top.bb)
    /\ Visit(NewSteps)
    /\ Become([Top EXCEPT !.mode = "loop", !.skip = FALSE,
                          !.work = @ \o [n \in DOMAIN NewSteps |-> NewSteps[n][1]]])
    /\ UNCHANGED <<fn, insts, caches, pc, job, result, answer, fault>>

PassTranslated ==
    /\ In("pass") /\ CanPass /\ NeedsTranslation(Top.loc.ptr, Top.bb)
    /\ SetInfo([Info EXCEPT !.deps = SortNonLocalDepInfoCache(@, Top.sorted)])
    /\ Visit(NewSteps)
    /\ Become([Top EXCEPT !.mode = "preds", !.preds = NewSteps])
    /\ UNCHANGED <<fn, insts, localDeps, reverseLocalDeps, nonLocalDeps, reverseNonLocalDeps,
                   reverseNonLocalPtrDeps, pc, job, result, answer, fault>>

\* a pointer that can not be translated is unknown in the predecessor
UnknownPred ==
    /\ In("preds") /\ Top.preds # <<>> /\ Head(Top.preds)[2] = Null
    /\ result' = result \union {Entry(Head(Top.preds)[1], Unknown, Null)}
    /\ nonLocalPointerDeps' = Unpaired(nonLocalPointerDeps, {Key})
    /\ Become([Top EXCEPT !.preds = Tail(@)])
    /\ UNCHANGED <<fn, insts, localDeps, reverseLocalDeps, nonLocalDeps, reverseNonLocalDeps,
                   reverseNonLocalPtrDeps, pc, job, visited, answer, fault>>

Recurse ==
    /\ In("preds") /\ Top.preds # <<>> /\ Head(Top.preds)[2] # Null
    /\ LET pred == Head(Top.preds)
       IN  stack' = <<Frame([Top.loc EXCEPT !.ptr = pred[2]], Top.isLoad, pred[1], FALSE),
                      [Top EXCEPT !.preds = Tail(@)]>> \o Tail(stack)
    /\ UNCHANGED <<fn, insts, caches, pc, job, visited, result, answer, fault>>

PredsDone ==
    /\ In("preds") /\ Top.preds = <<>>
    /\ nonLocalPointerDeps' = Unpaired(nonLocalPointerDeps, {Key})
    /\ Become([Top EXCEPT !.mode = "loop", !.skip = FALSE, !.sorted = Len(Deps)])
    /\ UNCHANGED <<fn, insts, localDeps, reverseLocalDeps, nonLocalDeps, reverseNonLocalDeps,
                   reverseNonLocalPtrDeps, pc, job, visited, result, answer, fault>>

(***************************************************************************)
(* PredTranslationFailure: a first block that is skipped makes the whole call *)
(* fail; the entry of another, which was transparent, becomes unknown.        *)
(***************************************************************************)
SortedFirst == NeedsTranslation(Top.loc.ptr, Top.bb) /\ Top.loc.ptr \in fn.translatable
FailedDeps == IF SortedFirst THEN SortNonLocalDepInfoCache(Deps, Top.sorted) ELSE Deps
EntriesOf(deps, b) == {n \in DOMAIN deps : deps[n].bb = b}
LastEntry(deps, b) == CHOOSE n \in EntriesOf(deps, b) : \A k \in EntriesOf(deps, b) : k <= n

TranslationFailsAtFirst ==
    /\ In("pass") /\ ~CanPass /\ Top.skip
    /\ nonLocalPointerDeps' =
          Unpaired(Put(nonLocalPointerDeps, Key, [Info EXCEPT !.deps = FailedDeps, !.pair = NoPair]),
                   CallerKeys)
    /\ ReturnUnknown
    /\ UNCHANGED <<fn, insts, localDeps, reverseLocalDeps, nonLocalDeps, reverseNonLocalDeps,
                   reverseNonLocalPtrDeps, pc, job, visited, answer, fault>>

Transparents(deps, b) == EntriesOf(deps, b) # {} /\ Transparent(deps[LastEntry(deps, b)].result)

TranslationFails ==
    /\ In("pass") /\ ~CanPass /\ ~Top.skip
    /\ Transparents(FailedDeps, Top.bb)
    /\ SetInfo([Info EXCEPT !.deps = [FailedDeps EXCEPT ![LastEntry(FailedDeps, Top.bb)].result = Unknown],
                            !.pair = NoPair])
    /\ result' = result \union {Entry(Top.bb, Unknown, Top.loc.ptr)}
    /\ Become([Top EXCEPT !.mode = "loop", !.sorted = IF SortedFirst THEN Len(Deps) ELSE @])
    /\ UNCHANGED <<fn, insts, localDeps, reverseLocalDeps, nonLocalDeps, reverseNonLocalDeps,
                   reverseNonLocalPtrDeps, pc, job, visited, answer, fault>>

Return ==
    /\ In("loop") /\ Top.work = <<>>
    /\ SetInfo([Info EXCEPT !.deps = SortNonLocalDepInfoCache(@, Top.sorted)])
    /\ stack' = Tail(stack)
    /\ UNCHANGED <<fn, insts, localDeps, reverseLocalDeps, nonLocalDeps, reverseNonLocalDeps,
                   reverseNonLocalPtrDeps, pc, job, visited, result, answer, fault>>

EndPointerQuery ==
    /\ pc = "pointer" /\ stack = <<>>
    /\ Answer("pointer", job.query, result)
    /\ pc' = "idle" /\ job' = NoJob /\ visited' = Empty /\ result' = {}
    /\ UNCHANGED <<fn, insts, caches, stack, fault>>

-----------------------------------------------------------------------------
(***************************************************************************)
(* removeInstruction, after which the client erases the instruction: what is  *)
(* cached for it goes, then every result that has it becomes dirty and has    *)
(* the next instruction instead, where a scan can begin.                      *)
(***************************************************************************)
KeysOf(p) == {k \in DOMAIN nonLocalPointerDeps : k.ptr = p}
Without(f, S) == [x \in DOMAIN f \ S |-> f[x]]
Real(deps) == \A n \in Linked(deps) : deps[n].result.type # "Other"

\* what is dereferenced or asserted when the caches of pointer p are removed
PointerInSync(p) ==
    \A k \in KeysOf(p) : /\ Real(nonLocalPointerDeps[k].deps)
                         /\ AllInSync(reverseNonLocalPtrDeps, nonLocalPointerDeps[k].deps, k)
PointerLinks(p) == UNION {Links(nonLocalPointerDeps[k].deps, k) : k \in KeysOf(p)}

NextOf(i) ==
    IF PositionOf(i) = Len(insts[BlockOf(i)]) THEN Null
    ELSE insts[BlockOf(i)][PositionOf(i) + 1]

Dependents(reverse, i) == {x[2] : x \in {y \in reverse : y[1] = i}}
From(reverse, i) == {x \in reverse : x[1] = i}
MutMoved(reverse, i, S) == reverse \ From(reverse, i)
Moved(reverse, i, S) ==
    (reverse \ From(reverse, i))
    \union (IF NextOf(i) = Null THEN {} ELSE {<<NextOf(i), x>> : x \in S})

Has(deps, i) == \E n \in DOMAIN deps : GetInst(deps[n].result) = i
MutRedirected(deps, i) == deps
Redirected(deps, i) ==
    [n \in DOMAIN deps |->
        IF GetInst(deps[n].result) = i THEN [deps[n] EXCEPT !.result = GetDirty(NextOf(i))]
        ELSE deps[n]]

ReverseLocalWithout(i) == reverseLocalDeps \ Link(Cached(i), i)
MutReverseNonLocalWithout(i) == reverseNonLocalDeps
ReverseNonLocalWithout(i) == reverseNonLocalDeps \ Links(CallInfo(i).info, i)
ReversePtrWithout(i) == reverseNonLocalPtrDeps \ PointerLinks(i)

LocalDependents(i) == Dependents(ReverseLocalWithout(i), i)
CallDependents(i) == Dependents(ReverseNonLocalWithout(i), i)
KeyDependents(i) == Dependents(ReversePtrWithout(i), i)

RemovalInSync(i) ==
    /\ AllInSync(reverseNonLocalDeps, CallInfo(i).info, i)
    /\ InSync(reverseLocalDeps, Cached(i), i)
    /\ PointerInSync(i)
    /\ LocalDependents(i) # {} => NextOf(i) # Null

MutRemoveLocal(i) ==
    /\ localDeps' = [q \in DOMAIN localDeps \union LocalDependents(i) |->
                        IF q \in LocalDependents(i) THEN GetDirty(NextOf(i)) ELSE localDeps[q]]
    /\ reverseLocalDeps' = Moved(reverseLocalDeps, i, LocalDependents(i))
RemoveLocal(i) ==
    /\ localDeps' = [q \in (DOMAIN localDeps \ {i}) \union LocalDependents(i) |->
                        IF q \in LocalDependents(i) THEN GetDirty(NextOf(i)) ELSE localDeps[q]]
    /\ reverseLocalDeps' = Moved(ReverseLocalWithout(i), i, LocalDependents(i))

RemoveNonLocal(i) ==
    /\ nonLocalDeps' = [q \in DOMAIN nonLocalDeps \ {i} |->
                           IF q \in CallDependents(i)
                           THEN [info |-> Redirected(nonLocalDeps[q].info, i), dirty |-> TRUE]
                           ELSE nonLocalDeps[q]]
    /\ reverseNonLocalDeps' =
          Moved(ReverseNonLocalWithout(i), i,
                {q \in CallDependents(i) : Has(nonLocalDeps[q].info, i)})

RemovePointers(i) ==
    /\ nonLocalPointerDeps' = [k \in DOMAIN nonLocalPointerDeps \ KeysOf(i) |->
            IF k \in KeyDependents(i)
            THEN [nonLocalPointerDeps[k] EXCEPT !.pair = NoPair,
                                                !.deps = SortAll(Redirected(@, i))]
            ELSE nonLocalPointerDeps[k]]
    /\ reverseNonLocalPtrDeps' =
          Moved(ReversePtrWithout(i), i,
                {k \in KeyDependents(i) : Has(nonLocalPointerDeps[k].deps, i)})

Removable(i) == i \in Present /\ i \in fn.removable /\ fn.uses[i] \intersect Present = {}

RemoveInstruction(i) ==
    /\ Idle /\ Removable(i) /\ RemovalInSync(i)
    /\ RemoveLocal(i) /\ RemoveNonLocal(i) /\ RemovePointers(i)
    /\ insts' = [insts EXCEPT ![BlockOf(i)] = RemoveAt(@, PositionOf(i))]
    /\ UNCHANGED <<fn, running, answer, fault>>

InvalidateCachedPointerInfo(p) ==
    /\ Idle /\ KeysOf(p) # {} /\ PointerInSync(p)
    /\ nonLocalPointerDeps' = Without(nonLocalPointerDeps, KeysOf(p))
    /\ reverseNonLocalPtrDeps' = reverseNonLocalPtrDeps \ PointerLinks(p)
    /\ UNCHANGED <<fn, insts, localDeps, reverseLocalDeps, nonLocalDeps, reverseNonLocalDeps,
                   running, answer, fault>>

\* between the runs of the pass
ReleaseMemory ==
    /\ Idle /\ caches # <<Empty, {}, Empty, {}, Empty, {}>>
    /\ localDeps' = Empty /\ reverseLocalDeps' = {}
    /\ nonLocalDeps' = Empty /\ reverseNonLocalDeps' = {}
    /\ nonLocalPointerDeps' = Empty /\ reverseNonLocalPtrDeps' = {}
    /\ UNCHANGED <<fn, insts, running, answer, fault>>

-----------------------------------------------------------------------------
(***************************************************************************)
(* Where an assertion fails, or one of the constants of Other is used as an   *)
(* instruction: the program stops.                                            *)
(***************************************************************************)
QueryBroken ==
    \E q \in fn.queries \intersect Present :
        IsDirty(Cached(q)) /\ ~InSync(reverseLocalDeps, Cached(q), q)
CallBroken ==
    /\ InCall /\ job.dirtyBlocks # <<>> /\ ~IsDone(DirtyBB)
    /\ ~InSync(reverseNonLocalDeps, Former(JobInfo, job.sorted, DirtyBB), job.query)
ThrowOutBroken ==
    /\ In("enter") /\ (Smaller \/ (OtherTag /\ Info.tag # Null))
    /\ ~AllInSync(reverseNonLocalPtrDeps, Info.deps, Key)
LookupBroken ==
    /\ In("loop") /\ Top.work # <<>> /\ ~Top.skip /\ IsDirty(FormerDep)
    /\ ~InSync(reverseNonLocalPtrDeps, FormerDep, Key)
FailureBroken == In("pass") /\ ~CanPass /\ ~Top.skip /\ ~Transparents(FailedDeps, Top.bb)
RemovalBroken == \E i \in Present : Removable(i) /\ ~RemovalInSync(i)
InvalidationBroken == \E k \in DOMAIN nonLocalPointerDeps : ~PointerInSync(k.ptr)

RequestFails == Idle /\ (QueryBroken \/ RemovalBroken \/ InvalidationBroken) /\ Fail
StepFails == (CallBroken \/ ThrowOutBroken \/ LookupBroken \/ FailureBroken) /\ Fail

-----------------------------------------------------------------------------
Client ==
    \/ \E q \in fn.queries : GetCachedDependency(q) \/ GetDependency(q)
    \/ \E q \in fn.queries : GetCachedCallDependency(q) \/ GetNonLocalCallDependency(q)
    \/ \E query \in fn.pointerQueries : AskPointer(query)
    \/ \E i \in fn.removable : RemoveInstruction(i)
    \/ \E k \in DOMAIN nonLocalPointerDeps : InvalidateCachedPointerInfo(k.ptr)
    \/ ReleaseMemory

CallStep == SkipDirtyBlock \/ ScanDirtyBlock \/ EndCallQuery
PointerStep ==
    \/ ThrowOutSmaller \/ RestartWithSize \/ ThrowOutTagged \/ RestartWithoutTag
    \/ ReturnCached \/ ReturnConflict \/ Begin
    \/ Lookup \/ SkipFirstBlock \/ PassUntranslated \/ PassTranslated
    \/ UnknownPred \/ Recurse \/ PredsDone
    \/ TranslationFailsAtFirst \/ TranslationFails \/ Return \/ EndPointerQuery

Next == Client \/ CallStep \/ PointerStep \/ RequestFails \/ StepFails

\* a query that has begun runs on: nothing in the analysis waits
Spec == Init /\ [][Next]_vars /\ WF_vars(CallStep \/ PointerStep \/ StepFails)

-----------------------------------------------------------------------------
\* what is promised of the answers
Queries == INSTANCE DependenceQueries

Results == [type : {"Def", "Clobber", "Invalid"}, pointer : Present \union {Null}]
           \union {NonLocal, NonFuncLocal, Unknown}
BlockResults == Seq([bb : Blocks, result : Results])

\* Type correctness; a result that is kept names an instruction that is present.
TypeOK ==
    /\ \A q \in DOMAIN localDeps : q \in Present /\ localDeps[q] \in Results
    /\ \A q \in DOMAIN nonLocalDeps :
          nonLocalDeps[q].info \in BlockResults /\ nonLocalDeps[q].dirty \in BOOLEAN
    /\ \A k \in DOMAIN nonLocalPointerDeps :
          /\ k.isLoad \in BOOLEAN
          /\ nonLocalPointerDeps[k].deps \in BlockResults
          /\ nonLocalPointerDeps[k].size \in fn.sizes
          /\ nonLocalPointerDeps[k].pair \in [bb : Blocks \union {Null}, skip : BOOLEAN]
    /\ pc \in {"idle", "call", "pointer"}
    /\ fault \in BOOLEAN

(***************************************************************************)
(* removeInstruction finds what to mark dirty in the reverse maps only: each  *)
(* must be the mirror image of its cache, after every query, removal and      *)
(* restart (RemoveFromReverseMap, line 258).                                  *)
(***************************************************************************)
LocalMirror == reverseLocalDeps = UNION {Link(localDeps[q], q) : q \in DOMAIN localDeps}

\* the constants of Other, which getInst returns too, are in these by chance
Mirrors(reverse, deps, key) ==
    \A i \in Present : <<i, key>> \in reverse <=> Has(deps, i)
NonLocalMirror ==
    /\ \A q \in DOMAIN nonLocalDeps : Mirrors(reverseNonLocalDeps, nonLocalDeps[q].info, q)
    /\ \A x \in reverseNonLocalDeps : x[2] \in DOMAIN nonLocalDeps
PointerMirror ==
    /\ \A k \in DOMAIN nonLocalPointerDeps :
          Mirrors(reverseNonLocalPtrDeps, nonLocalPointerDeps[k].deps, k)
    /\ \A x \in reverseNonLocalPtrDeps : x[2] \in DOMAIN nonLocalPointerDeps

(***************************************************************************)
(* verifyRemoved (lines 1614 to 1669): an instruction that is removed occurs  *)
(* in no cache and no reverse map, as a key or as a value.                    *)
(***************************************************************************)
RemovedIsGone ==
    \A i \in Gone :
        /\ i \notin DOMAIN localDeps /\ i \notin DOMAIN nonLocalDeps /\ KeysOf(i) = {}
        /\ \A q \in DOMAIN localDeps : GetInst(localDeps[q]) # i
        /\ \A q \in DOMAIN nonLocalDeps : ~Has(nonLocalDeps[q].info, i)
        /\ \A k \in DOMAIN nonLocalPointerDeps : ~Has(nonLocalPointerDeps[k].deps, i)
        /\ \A x \in reverseLocalDeps \union reverseNonLocalDeps : i \notin {x[1], x[2]}
        /\ \A x \in reverseNonLocalPtrDeps : i \notin {x[1], x[2].ptr}

(***************************************************************************)
(* Only a sorted prefix of a cache is searched, and by halves: between        *)
(* queries all of a pointer's cache is sorted, and within one, what a frame   *)
(* counts as sorted is, whatever the calls it made have added (line 1168).    *)
(* An entry the search misses is not added a second time: however often a     *)
(* query is resumed, a block has one result.                                  *)
(***************************************************************************)
Sorted ==
    /\ pc = "idle" => \A k \in DOMAIN nonLocalPointerDeps : IsSortedInfo(nonLocalPointerDeps[k].deps)
    /\ pc = "pointer" /\ stack # <<>> /\ Top.mode \in {"loop", "pass"} =>
          Top.sorted <= Len(Deps) /\ IsSortedInfo(SubSeq(Deps, 1, Top.sorted))
    /\ pc = "call" => IsSortedInfo(SubSeq(JobInfo, 1, job.sorted))
OneResultPerBlock ==
    /\ \A k \in DOMAIN nonLocalPointerDeps : IsInjective(BlocksIn(nonLocalPointerDeps[k].deps))
    /\ \A q \in DOMAIN nonLocalDeps : IsInjective(BlocksIn(nonLocalDeps[q].info))
CacheSearchable == Sorted /\ OneResultPerBlock

(***************************************************************************)
(* A result that is not dirty is what a scan of its block would find now, for *)
(* the size and tag of its cache (line 1065), or unknown: nothing that was    *)
(* found for a smaller size or another tag stays.  In blocks that can not be  *)
(* reached a query goes on past a definition (line 1193) and may come back to *)
(* its own pointer with a larger size: the cache is thrown out under the      *)
(* query, which goes on filling it with what it finds for the smaller one.    *)
(***************************************************************************)
PointerCachesFresh ==
    \A k \in DOMAIN nonLocalPointerDeps :
        LET info == nonLocalPointerDeps[k]
            loc == [ptr |-> k.ptr, size |-> info.size, tag |-> info.tag]
        IN  \A e \in ToSet(info.deps) :
               IsDirty(e.result) \/ e.result = Unknown
                  \/ e.result = PointerTruth(loc, k.isLoad, FALSE, e.bb, Len(insts[e.bb]))

\* So is what a query has reported, for the size and the tag it was asked for or wider
\* ones, whether it was scanned for, kept, or handed over from a complete cache.
ReportsFresh ==
    pc = "pointer" =>
        \A e \in result :
           \/ e.result = Unknown
           \/ \E l \in Queries!Wider(job.query.loc, e.address) :
                 e.result = PointerTruth(l, job.query.isLoad, FALSE, e.bb, Len(insts[e.bb]))

\* Where every block can be reached, or it is not known which can, they are fresh.
AllReached == fn.hasDT => Blocks \subseteq fn.reachable
ReachedFresh == AllReached => PointerCachesFresh /\ ReportsFresh

(***************************************************************************)
(* The caches are not seen: every answer is one the abstract specification    *)
(* allows for the instructions that are there now.                            *)
(***************************************************************************)
AnswersRight == Queries!Spec

\* A query ends, with an answer or at an assertion.
QueriesEnd == pc # "idle" ~> (pc = "idle" \/ fault)

\* Nothing the analysis asserts about its caches fails (lines 258, 1376).
NothingAsserted == ~fault

=============================================================================
