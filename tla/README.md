# A TLA+ model of DepTaint

DepTaint is a set of LLVM 3.5 passes that build the program dependence graph of a
module and follow, from variables annotated as sensitive, the lines at which other
variables become tainted. This directory models its core as TLA+ modules, checks
them with TLC on small programs, and proves the properties that matter most with
TLAPS for all programs. Paths and lines below are those of the repository; `PD` is
`src/src/ProgramDependencies.cpp`, `CD` `src/src/ControlDependencies.cpp`, `DD`
`src/src/DataDependencies.cpp`, `FDA` `src/src/FlowDependenceAnalysis.cpp`, `DG`
`src/include/DependencyGraph.h`, `FW` `src/include/FunctionWrapper.h` and `CF`
`src/src/ConnectFunctions.cpp`.

## Inventory

Everything runs in one thread, as callbacks of LLVM's pass manager. The state is
global: static maps of wrappers, two graphs that one pass fills and the next reads,
and flags on the wrappers. What is hard here is not concurrency but *order*: which
wrapper is visited first (sets of pointers iterate in heap order), which function is
built first, what a pass leaves behind for its next run, and a worklist that mutates
maps while other entries still hold copies of them.

| component | state | operations | talks to | module |
|---|---|---|---|---|
| dependence graphs (`DG` 280-515) | vector of nodes, map from data to node, root, one vector of (node, type) links per node | `getNodeByData`, `addDependency`, `depends`, `getControlType` | called by every pass | `DependencyGraphs`, `DependencyGraph`, `DependencyRelation` |
| control dependence graph (`CD`) | graph `CDG`, the ENTRY wrapper `root`, a local edge set | `computeDependencies`, both `addDependency` | reads LLVM's post-dominator tree; sets the entry of the function wrapper | `ControlDependencies`, `PostDominators` |
| data dependence graph (`DD`), with `getDependencyInFunction` (`FDA` 188-245) | graph `DDG`, the global map `loadLocMap` | `runOnFunction` | asks the alias analysis; run twice per function by the pass manager | `DataDependencies` |
| program dependence graph (`PD` 465-686) | graph `PDG`, `sensitive_values`, `access` flags, `entryW` and return lists of function wrappers | `runOnModule` (first half), `connectCallerAndCallee` | copies the links of the two graphs above | `ProgramDependencies` |
| taint propagation and report (`PD` 692-985, 213-244) | queue, `flag`s, `coloredInstSet`, `taintMap`, the `allocaMap` of each function | `runOnModule` (second half), `printTaintValues` | reads `PDG` and `sensitive_values` | `TaintPropagation`, `TaintClosure` |
| flow dependence analysis (`FDA`, the rest) | three caches of results, three reverse maps | `getDependency`, `getNonLocalCallDependency`, `getNonLocalPointerDependency`, `removeInstruction`, `invalidateCachedPointerInfo`, `releaseMemory` | alias analysis, dominator tree; clients of LLVM's memory dependence interface | `DependenceScans`, `FlowDependences`, `DependenceQueries` |
| parameter trees (`CF`, `FW` 75-132, `PD` 277-371, 404-459) | four trees of wrappers per argument, the counter `id` | build, copy, draw, connect | compiled, but called only with `PARAMETER_TREE` 1 | `ParameterTrees` |
| tree container (`tree.hh`) | linked nodes between two sentinels | `set_head`, `insert`, `append_child`, copy, pre-order iteration | used by the parameter trees | `LinkedTrees`, partly |
| wrappers (`DG` 76-276, `FW`) | `nodes`, `instMap`, `funcInstWList`, `globalList`, `funcMap` | `constructInstMap`, `releaseMemory`, `constructFuncMap` | keys of all graphs | partly, inside the modules above |
| back edge removal (`PD` 92-206) | visited and on-stack sets | `findFunctionBackedges` | its call is commented out (`PD` 516) | not modelled |
| printers (`DepPrinter.cpp`), declarations | none | output | | not modelled |

What makes each correct:

* *graphs*: a vector of nodes and vectors of links stand for a set and a relation, both
  growing; no double, a root that stays, an answer of `getControlType` that stays.
* *control dependences*: they are those of the definition over paths, no block is orphaned, the walk
  up the tree does not run off its end.
* *data dependences*: one source per load, a store in reach or nothing, the same after a second run.
* *program dependences*: no dependence is lost or invented on the way from the two graphs, whatever
  the address order, and functions are joined by calls alone.
* *flow dependences*: caches and reverse maps agree, what a cache holds is what a scan would find now,
  every answer is right for the instructions that are left, every query ends.
* *parameter trees*: a tree unfolds its type as far as the recursion check lets it, copies share
  nothing, an edge between trees joins equal fields, and what is passed can come back.
* *taint*: the worklist finds all that depends on a sensitive value, ends, dereferences only entries
  that exist, and lists each variable from a line on that an annotation, a reached store or a missing
  entry explains.

## Modules

### Taint propagation

`TaintPropagation` is the second half of `runOnModule`, one action per step of its
loops. A program is a record with the wrappers in address order, their kinds, lines,
pointer operands and links.

| action | code |
|---|---|
| `CollectSensitive` | `PD` 734-781: one wrapper of `nodes` against the annotated values and globals; `MarkSensitive`, at the end of that loop, enters the annotated allocas in `taintMap` and `allocaMap` |
| `Pop` | 786-818: take a wrapper, colour it unless it is null, an entry or a call, copy its names |
| `Skip`, `Visit*` | 834-921: one link; the visit of a flagged or skipped wrapper changes nothing, the first visit queues, flags, colours and inherits, then treats branches, stores and loads |
| `Crash` | 839-854: a wrapper without instruction is dereferenced; the program stops in state `crashed` |
| `EndOfLinks`, `Report` | 925-927, 213-244 |

The variables `snapshot`, `taint`, `allocaLine`, `flag` and `colored` are
`TaintValuesOnInstW`, `taintMap`, `allocaMap`, the wrappers' flags and
`coloredInstSet`. `map::operator[]` creates entries, and so does the model
(`Touch`): an alloca that is not tracked, a retval, gets the line 0.

`TaintClosure` says what the worklist promises, without queue, flags or order: a set of
marked nodes grows along links, and the report is written only when it is closed. A
crash is allowed to end it. `TaintPropagation` implements it, with the flagged
wrappers as the marked ones.

Properties: `NothingLost` (what is sensitive or flagged is queued, at hand or done
with: the usual worklist invariant, here with a queue whose first entries are not
flagged), `FlaggedHaveTaint` (the unchecked `taintMap.find(I)->second` of line 917),
`TaintFrozen` (the names of a wrapper do not change once it was reached, which is what makes the copy
of line 810 harmless), `StoresTaint`, `StaysTainted`, `ReportJustified`, `Termination`,
`ImplementsClosure`. `ReportJustified` says what the finished report looks like, entry by entry: an alloca of a
function with an annotated one is on no line, and then it is neither annotated nor written by a reached store, or on all the
printed lines from one on, which is its own, that of a reached store that writes it or leads to a
reached load of it, or 0 if `allocaMap` does not track it.

### Dependence graphs

`DependencyGraphs` holds the operations as operators on a record `[nodes, root,
links]`. The other modules use these operators for their graphs. `DependencyGraph`
is the class as a state machine: any sequence of lookups and additions.
`DependencyRelation` is what it promises: a set, a relation, a root, an
answer per pair. `RefinesRelation` is the refinement; `ControlTypeStable` and
`NoDoubles` are what callers rely on.

### Control dependences

`ControlDependencies` has the walk up from the entry block (`EntryWalk`, `EntryDone`), the
collection of flow edges (`CollectEdges`), and for each edge a walk from its target up
to the nearest common post-dominator (`TakeEdge`, `Walk`, `WalkDone`). A wrapper
is a pair of a block and a position. `PostDominators` is LLVM's tree as the code uses
it, given by its definition over paths: it is not in the repository. Blocks that cannot reach an exit
have no node, several exits have a virtual root without a block.

`MatchesDefinition` compares the result with the definition of Ferrante, Ottenstein and
Warren, and does not mention the tree. The dependences of a block on itself are left out of it: the
comment of `CD` 181-182 describes how a loop condition depends on its branch, but the walk
stops below it and the call that would add the dependence is commented out (132). `NoOrphans` says that each reachable block with a way to
an exit hangs below ENTRY. `WalkStaysInTree` covers the missing test for the end of the tree
in line 154.

### Data dependences

`DataDependencies` has the outer loop over instructions (`VisitOther`, `VisitLoad`,
`NextInst`), the collection of stores in `getDependencyInFunction` (`Collect`,
`Collected`), the choice of the candidate (`Compare`, `LinkLoad`), the operands (`LinkOperand`) and
the rerun (`EndPass`, `StartPass`). The pass runs twice on a function because a module
pass runs all its on-the-fly function passes for each `getAnalysis<...>(*F)`, and there are two (`PD` 552
and 554).

`OneSourcePerLoad` and `RerunAddsNothing` are about the state that survives a run: the
graph and `loadLocMap`. Without a candidate the source of a load is the node of the null wrapper.
The distance is by debug line and unsigned, so the nearest store may come after the
load, while the comment in `FlowDependenceAnalysis.h` 245-246 speaks of preceding operations. `OneSourcePerLoad` takes
no side: a load has one source, a store less than `MaxLocNum` lines away that may alias it or nothing, and not
nothing when such a store precedes it. `CandidateIsNearest` is the invariant of the loop that compares distances.

### Program dependence graph

`ProgramDependencies` takes the functions in module order and the wrappers of each in an
arbitrary address order. The data and control graphs of the functions are given by the
module, as relations. `entryW` starts as a null or garbage pointer because
the constructor of `FunctionWrapper` leaves it uninitialised.

| action | code |
|---|---|
| `BeginFunction`, `EndFunction`, `Finish` | `PD` 500-570: the wrappers and returns of the next function, its entry |
| `VisitPlain`, `VisitSkippedCall` | 575-615: a wrapper that is no new call, or a call after which `continue` skips the second iteration |
| `ConnectEntry`, `ConnectReturn`, `Connected` | `connectCallerAndCallee`, 374-403: the entry the callee's wrapper holds now, then one return after the other; `setAccess` |
| `AddDependents`, `EndDependents` | 626-680: the second iteration, one wrapper `InstW2` per step |

`DependencesKept` leaves out the calls that are skipped (the comment of line 597 calls them "common
instructions"). `CallsConnected` is about a callee that is built no later than its caller.

### Flow dependences

`DependenceScans` has the pure part of `FDA`: the walk back through a block
(`getPointerDependencyFrom`, `getCallSiteDependencyFrom`, with `GetLocation`, the load of a wider
integer and `callCapturesBefore`), and `LocalDependency`, `PointerTruth` and the
like, which are what a scan finds with nothing cached. What the alias analysis, the dominator tree and
`PHITransAddr` answer is part of the function.

`FlowDependences` has the caches. A client queries, removes instructions nobody uses, forgets
pointers and releases memory, in any order, between queries that run to their end.

| variables | code |
|---|---|
| `localDeps`, `reverseLocalDeps` | `LocalDeps`, `ReverseLocalDeps` |
| `nonLocalDeps`, `reverseNonLocalDeps` | `NonLocalDeps` (entries and the dirty flag), `ReverseNonLocalDeps` |
| `nonLocalPointerDeps`, `reverseNonLocalPtrDeps` | `NonLocalPointerDeps` (pair, size, tag, entries), `ReverseNonLocalPtrDeps` |
| `job` | the worklist, `Visited` and `NumSortedEntries` of `getNonLocalCallDependency` |
| `stack`, `visited`, `result` | the activations of `getNonLocalPointerDepFromBB`, `Visited`, `Result` |
| `fault` | an assertion failed, or a constant was dereferenced |

| actions | code |
|---|---|
| `GetCachedDependency`, `GetDependency` | 647-728 |
| `GetCachedCallDependency` ... `EndCallQuery` | 769-882: the dirty blocks, one per step |
| `AskPointer`, `ThrowOut*`, `Restart*`, `ReturnCached`, `ReturnConflict`, `Begin` | 889-921, 1047-1160: reconciling size and tag, the fast path, the start of the loop |
| `Lookup`, `SkipFirstBlock`, `Pass*`, `Recurse`, `UnknownPred`, `PredsDone`, `TranslationFails*`, `Return` | 926-984, 1162-1370: one block of the worklist, translation through phis by recursion, failure |
| `RemoveInstruction`, `InvalidateCachedPointerInfo`, `ReleaseMemory` | 67-75, 1374-1609 |
| `StepFails` | 258, 1376, 1410: what is asserted or dereferenced does not hold |

`DependenceQueries` is the abstract specification: no caches; an answer is right for the instructions
that are there, or unknown; an instruction can be removed. `AnswersRight` is the refinement. The mirror
properties, `ReachedFresh` and `CacheSearchable` say what a client cannot see:
that the next removal finds all it must mark, that a cache filled for one size or tag never serves
another, that the binary search finds what the vector has. `RemovedIsGone` is `verifyRemoved` (1614-1669).

Freshness is claimed where every block can be reached, or nothing is known of which can
(`ReachedFresh`). In a loop that can not be reached a query goes on past a definition (`FDA` 1193), so it
can come back to its own pointer with a larger size, throw out the cache of the call it is made from and leave
that call to fill it for the smaller size (`MCOrphans`: TLC finds `PointerCachesFresh` violated there). Elsewhere
freshness rests on a defect: to fill the cache of a pointer for one size while a call further out fills it for
another, the inner call must throw out results, and where one of them is `NonLocal` or `Unknown`
the assertion of `flow_reverse` fails first. A repair of `getInst` should keep this in view.

`AnswersRight` does not hold of every function. In those of `flow_dependences` it does; in the one of
`flow_pairs` the entries of a cache are fresh, as always, but the cache is marked as complete and is not. What a
query does report for a block is true then too, for the size and tag it asked for or wider ones (`ReportsFresh`, the
other half of `ReachedFresh`): an answer can miss a block, it does not say what is wrong of one.

### Parameter trees

`LinkedTrees` has the operations of `tree.hh` on the links of nodes. `ParameterTrees` builds a
formal tree one field per step (`AddField`, `FieldsDone`, with the activations of
`buildFormalTypeTree` as `frames`), copies it (`CopyFormalTree`, `BuildActualParameterTrees`, which may
run twice for a call), and connects (`ConnectFunctionAndFormalTrees`, `ConnectCallerAndCallee`). `shared`
says whether `copyTree`, which is inline in a header, uses the counter `id` of
`ConnectFunctions.cpp` or one of another file: the program has several.

The recursion check compares a type with those of the ancestors but not with the parent's ("1-limit",
`CF` 66-67); `FormalTreesUnfoldTypes` has the same boundary in `Continues`. `FieldsMeetFields` and
`PassedFieldsReturn` are about the iterators that are advanced in lockstep.

## Runs

| run | programs and bounds | states | shows |
|---|---|---|---|
| `taint` | one function, 3 allocas (one a retval), 2 loads, a store, a branch; every pointer, operand and control choice, two address orders, two assignments of lines, annotations `<<a>>`, `<<b, a>>`, `<<a, a>>`; two functions, a call and its return, a global, a null wrapper; `AllocaMax = 10` above all lines | 110 182 | all properties of the propagation, with the crashes |
| `taint_intra` | the same | | violated: taint leaves the function |
| `taint_globals` | the same | | violated: an annotated global with a load crashes the pass |
| `dependency_graph` | 3 data, 2 types, at most 3 links (`MaxLinks`) | 12 412 | graph properties and refinement |
| `control_dependencies` | flow graphs of 4 blocks with branches, switches, loops, several exits and none | 55 826 | control dependences are those of the definition |
| `data_dependencies` | 2 loads, 3 stores, 2 other instructions in 3 orders; lines 0 to 5, `MaxLocNum = 3`, any aliases for one load, 3 choices for the other; `Passes = 2` | 174 960 | data dependences and the rerun |
| `program_dependencies` | 2 functions in both orders, with self, mutual, tail, external, indirect and annotating calls; all address orders | 261 000 | the construction loses and invents nothing |
| `program_entries` | the same | | violated for a callee that is built later |
| `flow_dependences` | 11 functions of one block with every kind of instruction, 5 with calls in a diamond or a loop, 13 with pointers: phis, a pointer advanced in a loop, two sizes, two tags, an unreachable block, no dominator tree; `BlockScanLimit = 5` | 82 818 | caches, answers and the end of queries |
| `flow_pairs` | one function where two phis lead to one pointer, in two sizes | | violated: a cache is marked as complete and is not |
| `flow_reverse` | the functions of `flow_dependences` | | violated: the constants of `Other` are taken for instructions |
| `parameter_trees` | 7 programs over a list, a parser and scanner that refer to each other, `FILE` and function pointers, pointers to pointers; one call, or two of which one recursive; `MaxBuilds = 2`, `MaxNodes = 90`, which is never reached | 7 216 | trees and their connections |

Why the bounds are enough: the hazards need two predecessors of one wrapper, two tainted
variables, a retval, a cycle, and two orders (taint); a repeated link and two types for a
pair (graphs); a loop, a switch, a nested branch, two exits and a block without one, which
four blocks allow (control); two equally near stores, one too far, one before and one after, and a second run
(data); a callee before and after its caller (construction); a removal between two queries of one
instruction and of two, a cache filled by one size or tag and asked for by another, a block
reached with two pointers, a scan that ends at the limit (flow); recursion over one
and over two types, a second build of a call (trees). Each occurs, and for each property
the run also finds a plausible bug of the code: the operators named `Mut...` are these faulty variants.

Three constants are smaller than in the code: `allocaMAX` and `maxLocNum` (100000), and `BlockScanLimit`
(100); the programs put lines on both sides of `MaxLocNum` and blocks are longer than a scan, all lines are
below `AllocaMax` as in the code.

`CHECK_DEADLOCK FALSE` is set where the pass ends, where an assertion ends the program, and where a
client has built and connected all there is. The graph class never ends.

### What the violated runs say

* `taint_intra`: only edges of type `CALL` are skipped (`PD` 836), "we only do intra-procedural
  analysis, so skip call edges", but calls and returns are joined by `DATA_GENERAL` (384, 397).
* `taint_globals`: line 852 prints `*InstW->getInstruction()`, null for a global, though
  globals are seeds of the propagation (733).
* `program_entries`: a call of a function that comes later in the module gets an edge to an
  uninitialised pointer, and none from its returns (`PD` 384, 389; `FW` 193).
* `flow_reverse`: the comment of `FlowDependenceAnalysis.h` 159-160 promises null for what is no
  instruction; the test is commented out (162), so `getInst` returns the constants `NonLocal`,
  `NonFuncLocal` and `Unknown`, and `removeInstruction` looks for them in the reverse maps (`FDA` 258, 1410).
* `flow_pairs`: `Visited` is shared by the calls a query makes for translated pointers, the caches are not. A call
  that throws out the results for a smaller size finds the cache empty and marks it as complete (`FDA` 1064-1074, 1152-1153: "If
  empty, the result will be valid cache info"), but does not visit again the blocks whose results it threw out.
  A later query takes the fast path (1108) and answers without them: it misses a store.

### What no property covers

Some of what is listed as a hazard is modelled as the code has it, and no property objects, because nothing in the
repository says what would be right: the names in `taintMap`, which reach the console only (those of a later
predecessor, `PD` 851, and what a branch misses, 857, are lost); a line that a load moves to a later one (908);
the 0 of a retval (883); the dependents of a skipped call (612) and the missing return edges of a call that
precedes its callee (389); the store after a load (`DD` 103); the dependence of a block on its own branch (`CD` 179).

## Fairness

Each pass is one thread of nested loops: a step that is possible is taken. So
`WF_vars(Next)`, and nothing stronger, is assumed for the liveness properties of the passes. `ProgramDependencies` has
no liveness property: its loops are over fixed lists. In `FlowDependences` and `ParameterTrees` the
next request is the client's, who may stop; fairness is on the steps inside a query
(`CallStep`, `PointerStep`, `StepFails`) and inside a build (`Build`) only.

## Proofs

TLAPS checks the following for every value of the constants that the named assumptions of
the modules admit: any number of wrappers, any program, any alias relation. The assumptions say only
what a program is (wrappers are distinct, annotated values are allocas, lines are below
`AllocaMax`, an instruction occurs once in its function) and are evaluated by TLC on the
programs of the runs.

* `DependencyGraphsProofs`: lemmas on the operations of a graph over any data `D` and types
  `T`. `IsGraph` is the representation invariant; `GetNodeEffect` and `AddEffect` say that an operation
  keeps it and what it adds; `AddPresent` that nothing happens to a link that is there; `FirstLinkKept`
  that a longer list answers `getControlType` as before.
* `DependencyGraphProofs`: `TypeCorrect`, `Injective`, `TypeIsStable` and `Refinement`, from the
  invariant `IsGraph`, which is inductive as it stands, and the lemmas.
* `DataDependenciesProofs`: `TypeCorrect`, `NearestIsChosen`, `OneSource`, `OperandSources`,
  `RerunIsIdle`. None of the properties is inductive. The invariant `IInv` adds: a run remains when the
  pass waits (`PassesLeft`); the loads ahead have no recorded distance (`FreshLoads`, without which an
  old distance would hide the candidate); the collected stores are all up to the position reached, in
  order (`FlowDepsOK`); no link is wrong (`Sound`); everything passed is complete, and after the first
  run everything is (`Progress`). That a rerun is idle then needs one more fact, that the store the
  code chooses (`IsBest`: the nearest on either side, the first of equally near ones) is unique
  (`BestUnique`, from the order of the function), so the second run finds the link it wants.
* `TaintPropagationProofs`: `TypeCorrect`, `LosesNothing`, `TaintDefined`, `ReachedStoresTaint`,
  `TaintIsFrozen`, `NeverUntainted` and `ImplementsTheClosure`. The invariant is the conjunction of
  `TypeOK`, `NothingLost`, `FlaggedHaveTaint`, `StoresTaint` and `Bookkeeping`: the queue holds
  nothing but seeds and flagged wrappers, the wrapper at hand is one of these and is colored (so that
  what it reaches inherits a `taintMap` entry and is colored in turn), and no flag is set while the seeds are collected.
  The closure's last step, the report, follows because `NothingLost` then leaves only the case
  that all links are flagged.

* `ProgramDependenciesProofs`: `TypeCorrect`, `KeepsDependences`, `ConnectsCalls` and `JoinedByCalls`, for
  any functions in any order and any address order. The properties speak of the end; the
  invariant `IInv` of the states on the way: the counters and what wrappers hold (`Core`), a well-formed
  graph, a reason for every link (`Sound`), complete dependences of what `nodeIt` left behind
  and, of the wrapper at hand, up to `nodeIt2` (`Dependents`), and the same for calls and `RI` (`AccessOK`).
  `AllTaken` then says that at the end nothing is ahead. Assumed of a module is that a wrapper
  belongs to one function, and that data and control graphs stay in their function.
  `JoinedByCalls` is stated only there: it holds in every state and for garbage entries too.
* `FlowDependencesProofs`: `TypesStayOK`, `LocalCacheMirrored`, `CallCachesMirrored`,
  `PointerCachesMirrored`, `NothingRefersToRemoved` and `CachesStaySearchable`, for any function, any
  client and any limit on the scans. `LocalMirror` is inductive as it stands. The others need
  `AnalysisOK`, in parts: `FunctionOK`, an instruction that is left is at one place of one block;
  `LocalOK` and `CallsOK`, a result names an instruction of its block that is present, or
  one of the constants, and a cache has one result per block, without which replacing a result would leave
  the reverse map with a pair too many or too few; `PointersOK`, the same for the caches by pointer, with the
  stack of calls of `getNonLocalPointerDepFromBB`: only the last call fills a cache; its results up to
  `NumSortedEntries` are sorted; the blocks behind that are visited and off its worklist, so no block is looked at twice
  (`TopOK`, `WorkOK`); every other cache is sorted. The lemmas before it say what a scan can answer
  (`ResultsIn`), where instructions are after a removal (`OldPosition`), that the sort is a permutation in
  order, and that the binary search finds what is there. What is assumed (`FunctionsAssumption`): an instruction
  occurs once, blocks have distinct addresses, predecessors are blocks, a pointer that is queried and is an instruction has a
  block where it is defined, and the constants of `Other` are no instructions; and that a null pointer is no block
  (`NullIsNoBlock`).
  `CachesStayFresh` and `StepsImplementQueries` go on to what the answers are. `FreshOK` says of a result
  that is kept how it fits (`Fits`) the instructions that are there now: unknown, the last instruction that is not
  passed, or dirty with everything from its instruction on passed, so that a scan that begins there finds what one
  over all would (`ResumedFits`). It is what lets `removeInstruction` put the next instruction in place of the
  removed one (`RedirectedFits`). A cache of a call moreover has a result for every predecessor of what is
  passed (`Covers`); while its query runs some are in the worklist instead (`JobFresh`). From it follows that every
  step is one of `DependenceQueries` or a stutter, but for `EndPointerQuery`. `FreshOK` holds in every state
  of the run `flow_dependences` too.
  `PointerCachesStayFresh` is `ReachedFresh`. That every entry of a cache of a pointer fits the instructions
  (`PointersFresh`) is not inductive: a call that was interrupted by the calls it makes goes on writing into
  its cache, which they may have thrown out and filled for another size. The invariant `PointerInv` adds what the calls on the stack rely
  on (`StackFresh`): while a call has blocks to look at, its cache is there for its own size and tag (`Settled`), and
  while it waits for others, the cache has an entry that is `NonLocal` or unknown (`Pinned`), the block it translates from. Such an
  entry is in no reverse map, so that a call that would throw the cache out fails its assertion first (`NotPinned`).
  A call that skips its first block has no such entry, but no blocks left to look at either. No fact about dominance or
  the translation of pointers is needed. For what is reported the invariant `ReportInv` adds that
  a cache that has the block of its query has no dirty result (`PairedClean`: the fast path hands its results on without
  a look), and that every call on the stack asks for the load, size and tag of the query or wider ones
  (`StackAsks`). TLC finds all of these true on the run's functions.
* `ControlDependenciesProofs`: `TypeInvariant`, `ControlDependencesAreDefined`, `EntryLinksAreRight`,
  `NothingOrphaned` and `WalksStayInTree`, for every flow graph. `PostDominators` defines reachability by the
  least closed set, so that facts about paths follow by choosing a set. `PostDominatesLinear`: the
  post-dominators of a block are a chain; hence above a block the tree is that chain
  (`Higher`), and the nearest common dominator is where two chains meet. The invariant `IInv` of the walks: a walk is on
  the chain of its target and its end is still above it (`WalkOK`), every link has a reason
  (`LinksSound`), and every link that is due is there, or its edge is ahead, or its block is above the
  node at hand (`EntriesComplete`, `EdgesComplete`). Assumed is what LLVM guarantees of a function: the entry block
  has no predecessors, a block has an instruction, a conditional branch two successors.
* `ParameterTreesProofs`: `TypeCorrect`, `TreesStayConsistent`, `FormalTreesAreUnfoldings`, `FieldsMeet` and
  `PassedFieldsDoReturn`, for any types, any programs over them and any bound on the wrappers, from the
  invariant `IInv` (`InvariantHolds`). First come the trees: the links of a tree of any size
  (`Shape`), the order in which the iterator meets its nodes (`Order`), and what appending a child does to
  both: it enters after the last node below its parent. Lineages and children, which are recursive
  functions, are shown to be what their equations say by induction on node numbers, as a child has a larger
  number than its parent. A copy is the image of its source under the order (`IsImage`), so it stands
  for it node by node. `IInv` then says: every node has a wrapper of its own (`StoreOK`);
  while a formal tree is built, ids count its nodes, so `InsertLocation` finds the node that an activation
  of `buildFormalTypeTree` is at, whose children are the fields up to the one at hand, and every node without
  an activation has all it will have (`Underway`); a finished tree unfolds its argument's type, and its formal-out
  tree and the actual trees of its calls are copies (`FormalsOK`, `ActualsOK`); edges join what is settled and at
  the same place (`EdgesOK`), and what is connected is joined in full (`LinkedOK`). TLC
  checks `IInv` on the programs of the run too. Assumed: a pointer points to one type (`TypesAssumption`), the
  wrappers of a program's entries and calls are its own (`ProgramsAssumption`), and the three constant
  pointers are distinct and no nodes (`PointersAssumption`).

Induction is done by a least counterexample (`LeastNumber`, from the well-foundedness of the naturals),
because the library's induction theorems take an operator, which the provers cannot instantiate.

`ReportIsJustified` in `TaintPropagationProofs` needs one part more than the other theorems there, `LinesJustified`: every
line below `AllocaMax` in `allocaLine` is one that `TaintedFrom` allows, which more flags leave so, and an annotated alloca has
such a line once the seeds are marked. `StoresTaint` then gives that a store's alloca is not left out. `ptr` of a
program is assumed to hold the pointer operands that are followed, which are allocas (the tests of `PD` 876 and 894).

## Only model-checked

* Liveness (`Termination` of the propagation and of the control walks, `BuildingEnds`, `QueriesEnd`) and everything about
  `ENABLED`, which are out of the prover's reach. `WalksStayInTree` is the safety half of the termination of
  the control walks: they meet their end before the tree does.
* Of the refinement `AnswersRight` the step `EndPointerQuery` (all others are proved). It is false in general (`flow_pairs`).

## Not modelled

Output (graphs as dot files, console, names and layout in the report), parsing of annotations
(which values and globals are annotated is an input), LLVM's own analyses beyond what the passes ask
of them, and what the inventory lists as not modelled:

* The back edge search (`PD` 92-206) is dead code: its one call is commented out (516).
* `taintMap`, `sensitive_values` and the graphs outlive the pass (`PD` 975-980 clears the rest); a second
  module in one process is not modelled.
* The line of `FDA` that sets the alias analysis (171) is commented out, so in this program only
  `getDependencyInFunction`, which takes one as a parameter, can be called; the queries are modelled for the clients of the interface they
  copy. `invalidateCachedPredecessors` and the cache of predecessors are left out because the flow graph
  of a function does not change between queries.
* With `PARAMETER_TREE` 0, as in `Config.h`, nothing calls the functions of the parameter trees. The
  model lets a caller use them in every order their own preconditions admit.
* The rest of `tree.hh` (sorting, moving, merging, other iterators) is never instantiated.

## Plan

1. Done: the propagation and its closure; the graph class; the three passes that feed it; the
   caches of the flow dependences; the parameter trees; proofs of all invariants the passing runs
   check; the refinement of `DependenceQueries`, for all but queries of pointers.
2. Proofs: the step `EndPointerQuery` of `AnswersRight` where there is one size and no tag.
3. The registry of wrappers (`constructInstMap` run by three passes, `releaseMemory`), composed with
   the graphs, whose keys are its pointers.
4. A composition of construction and propagation, so that the programs of `TaintPropagation` are
   what `ProgramDependencies` builds.
