---------------------- MODULE TaintPropagationProofs ----------------------
(***************************************************************************)
(* Proofs about TaintPropagation for every program, every order of its      *)
(* wrappers and links, and every value of the constants.                    *)
(***************************************************************************)
EXTENDS TaintPropagation, FiniteSetTheorems, SequenceTheorems, TLAPS

\* what the worklist keeps besides NothingLost: who may be queued, at hand, flagged
Bookkeeping ==
    /\ prog \in Programs
    /\ ToSet(queue) \subseteq Seeds \union flag
    /\ pc \in {"visit", "crashed"} => cur \in (Seeds \union flag) \intersect colored
    /\ pc = "visit" => idx >= 1
    /\ pc = "collect" => flag = {}

IInv == TypeOK /\ Bookkeeping /\ NothingLost /\ FlaggedHaveTaint /\ StoresTaint

VisitAny == VisitBranch \/ VisitStore \/ VisitLoad \/ VisitOther

-----------------------------------------------------------------------------
\* What the assumption on Programs says of the program at hand.
LEMMA ProgramFacts ==
    ASSUME prog \in Programs
    PROVE  /\ prog.order \in Seq(Nodes) /\ ToSet(prog.order) = Nodes
           /\ prog.sensitive \in Seq(Nodes)
           /\ Seeds \subseteq Nodes /\ Sensitive \subseteq Nodes
           /\ \A n \in Seeds : Kind(n) # "call"
           /\ \A n \in Nodes : /\ Line(n) \in Nat /\ Line(n) < AllocaMax
                               /\ Ptr(n) \in Nodes \union {NoNode}
                               /\ Links(n) \in Seq([to : Nodes, type : STRING])
<1>1. /\ prog \in ProgramType
      /\ ToSet(prog.order) = Nodes
      /\ \A n \in Nodes : prog.line[n] < AllocaMax
      /\ ToSet(prog.sensitive) \subseteq {n \in Nodes : prog.kind[n] = "alloca"}
      /\ prog.taintedGlobals \subseteq {n \in Nodes : prog.kind[n] = "global"}
  BY ProgramsAssumption
<1>2. /\ Seeds \subseteq Nodes /\ Sensitive \subseteq Nodes
      /\ \A n \in Seeds : Kind(n) # "call"
  BY <1>1 DEF Seeds, Sensitive, Kind
<1> QED
  BY <1>1, <1>2 DEF ProgramType, Line, Ptr, Links

\* A sensitive node matches at least once, so the collecting loop queues it.
LEMMA SeedsMatch ==
    ASSUME prog \in Programs, NEW n \in Nodes
    PROVE  /\ Matches(n) \in Nat
           /\ n \in Seeds <=> Matches(n) >= 1
<1> DEFINE Hits == {i \in DOMAIN prog.sensitive : prog.sensitive[i] = n}
<1>1. prog.sensitive \in Seq(Nodes)
  BY ProgramFacts
<1>2. DOMAIN prog.sensitive = 1..Len(prog.sensitive) /\ Len(prog.sensitive) \in Nat
  BY <1>1
<1>3. IsFiniteSet(1..Len(prog.sensitive))
  BY <1>2, FS_Interval
<1>4. IsFiniteSet(Hits)
  BY <1>2, <1>3, FS_Subset
<1>5. Cardinality(Hits) \in Nat /\ (Cardinality(Hits) = 0 <=> Hits = {})
  BY <1>4, FS_CardinalityType, FS_EmptySet
<1>6. n \in Sensitive <=> Hits # {}
  BY <1>1 DEF Sensitive, ToSet
<1>7. Matches(n) = Cardinality(Hits) + (IF n \in prog.taintedGlobals THEN 1 ELSE 0)
  BY DEF Matches
<1> HIDE DEF Hits
<1> QED
  BY <1>5, <1>6, <1>7 DEF Seeds
-----------------------------------------------------------------------------
\* In the link loop the link at hand is one of the graph's.
LEMMA LinkFacts ==
    ASSUME TypeOK, Bookkeeping, AtLink
    PROVE  /\ cur \in Nodes /\ Adj \in Nodes /\ idx \in 1..Len(Links(cur))
           /\ Adj = Links(cur)[idx].to
           /\ Line(Adj) \in Nat /\ Line(Adj) < AllocaMax
           /\ Line(cur) \in Nat /\ Line(cur) < AllocaMax
           /\ AccessesAlloca(Adj) => Ptr(Adj) \in Nodes
<1>1. cur \in Nodes /\ idx \in DOMAIN Links(cur)
  BY DEF TypeOK, AtLink
<1>2. Links(cur) \in Seq([to : Nodes, type : STRING])
  BY <1>1, ProgramFacts DEF Bookkeeping
<1>3. idx \in 1..Len(Links(cur)) /\ Adj = Links(cur)[idx].to /\ Adj \in Nodes
  <2>1. idx \in 1..Len(Links(cur))
    BY <1>1, <1>2
  <2>2. Links(cur)[idx] \in [to : Nodes, type : STRING]
    BY <1>2, <2>1, ElementOfSeq
  <2> QED
    BY <2>1, <2>2 DEF Adj, Link
<1>4. \A n \in Nodes : /\ Line(n) \in Nat /\ Line(n) < AllocaMax
                        /\ Ptr(n) \in Nodes \union {NoNode}
  BY ProgramFacts DEF Bookkeeping
<1> QED
  BY <1>1, <1>3, <1>4 DEF AccessesAlloca

\* Every first visit gives Adj the copied names, and some more, if the wrapper
\* at hand is colored, and it is; it leaves the other entries alone.
LEMMA VisitTaints ==
    ASSUME TypeOK, Bookkeeping, VisitAny
    PROVE  /\ AtLink /\ Followed(Link) /\ Adj \notin flag
           /\ flag' = flag \union {Adj}
           /\ queue' = Append(queue, Adj)
           /\ colored' = colored \union {Adj}
           /\ idx' = idx + 1
           /\ UNCHANGED <<prog, pc, scanned, cur, snapshot, report>>
           /\ \E names \in SUBSET Nodes : taint' = Put(taint, Adj, names)
<1>1. cur \in colored
  BY DEF VisitAny, VisitBranch, VisitStore, VisitLoad, VisitOther, Visit, AtLink,
         Bookkeeping
<1>2. AtLink
  BY DEF VisitAny, VisitBranch, VisitStore, VisitLoad, VisitOther, Visit
<1>3. \E names \in SUBSET Nodes : taint' = Tainted(names)
  <2>1. CASE VisitBranch
    <3>1. TaintedBefore(Line(Adj)) \subseteq Nodes
      BY DEF TypeOK, TaintedBefore, AllocasOf
    <3> QED
      BY <2>1, <3>1 DEF VisitBranch
  <2>2. CASE VisitStore
    <3>1. (IF AccessesAlloca(Adj) THEN {Ptr(Adj)} ELSE {}) \in SUBSET Nodes
      BY <1>2, LinkFacts
    <3> QED
      BY <2>2, <3>1 DEF VisitStore
  <2>3. CASE VisitLoad
    <3>1. taint' = Tainted({}) \/ (AccessesAlloca(Adj) /\ taint' = Tainted({Ptr(Adj)}))
      BY <2>3, Zenon DEF VisitLoad
    <3>2. AccessesAlloca(Adj) => {Ptr(Adj)} \in SUBSET Nodes
      BY <1>2, LinkFacts
    <3> QED
      BY <3>1, <3>2
  <2>4. CASE VisitOther
    BY <2>4 DEF VisitOther
  <2> QED
    BY <2>1, <2>2, <2>3, <2>4 DEF VisitAny
<1>4. \E names \in SUBSET Nodes : taint' = Put(taint, Adj, names)
  <2>1. PICK names \in SUBSET Nodes : taint' = Tainted(names)
    BY <1>3
  <2>2. taint' = Put(taint, Adj, snapshot \union names)
    BY <1>1, <2>1 DEF Tainted
  <2>3. snapshot \union names \in SUBSET Nodes
    BY DEF TypeOK
  <2> QED
    BY <2>2, <2>3
<1>5. PICK kinds : Visit(kinds)
  BY DEF VisitAny, VisitBranch, VisitStore, VisitLoad, VisitOther
<1> QED
  BY <1>1, <1>4, <1>5 DEF Visit, FirstVisit

\* What a visit does to the allocaMaps: an entry may be created, a tainted one
\* stays tainted, and a store leaves its alloca tainted.
LinesAdvance ==
    /\ DOMAIN allocaLine \subseteq DOMAIN allocaLine'
    /\ DOMAIN allocaLine' \subseteq Nodes
    /\ \A n \in DOMAIN allocaLine' : allocaLine'[n] \in 0..AllocaMax
    /\ \A n \in DOMAIN allocaLine :
          allocaLine[n] < AllocaMax => allocaLine'[n] < AllocaMax

LEMMA PutAdvances ==
    ASSUME TypeOK, NEW map, NEW p \in Nodes, NEW line \in 0..AllocaMax,
           map = allocaLine \/ map = Touch(allocaLine, p),
           allocaLine' = Put(map, p, line),
           p \in DOMAIN allocaLine /\ allocaLine[p] < AllocaMax => line < AllocaMax
    PROVE  LinesAdvance /\ p \in DOMAIN allocaLine' /\ allocaLine'[p] = line
<1>1. /\ DOMAIN map \subseteq DOMAIN allocaLine \union {p}
      /\ DOMAIN allocaLine \subseteq DOMAIN map
      /\ \A n \in DOMAIN allocaLine \ {p} : map[n] = allocaLine[n]
  BY DEF Touch, Put
<1> QED
  BY <1>1 DEF Put, TypeOK, LinesAdvance

LEMMA TouchAdvances ==
    ASSUME TypeOK, AllocaMax > 0, NEW p \in Nodes, allocaLine' = Touch(allocaLine, p)
    PROVE  LinesAdvance
<1>1. AllocaMax \in Nat
  BY ConstantsAssumption
<1>2. Lookup(allocaLine, p, 0) \in 0..AllocaMax
  BY <1>1 DEF Lookup, TypeOK
<1>3. p \in DOMAIN allocaLine => Lookup(allocaLine, p, 0) = allocaLine[p]
  BY DEF Lookup
<1> QED
  BY <1>2, <1>3, PutAdvances DEF Touch

LEMMA VisitLines ==
    ASSUME TypeOK, Bookkeeping, VisitAny
    PROVE  /\ LinesAdvance
           /\ Kind(Adj) = "store" /\ AccessesAlloca(Adj) =>
                /\ Ptr(Adj) \in DOMAIN allocaLine'
                /\ allocaLine'[Ptr(Adj)] < AllocaMax
<1> DEFINE p == Ptr(Adj)
           map == Touch(allocaLine, p)
<1>1. AtLink /\ AllocaMax \in Nat /\ cur \in colored
  BY ConstantsAssumption DEF VisitAny, VisitBranch, VisitStore, VisitLoad, VisitOther,
     Visit, AtLink, Bookkeeping
<1>2. /\ AllocaMax > 0 /\ Line(Adj) \in 0..AllocaMax /\ Line(Adj) < AllocaMax
      /\ Line(cur) \in 0..AllocaMax /\ Line(cur) < AllocaMax
      /\ AccessesAlloca(Adj) => p \in Nodes
  BY <1>1, LinkFacts
<1>3. /\ p \in DOMAIN map
      /\ p \in DOMAIN allocaLine => map[p] = allocaLine[p]
      /\ AllocaMax > 0 => map[p] \in 0..AllocaMax
  BY <1>1 DEF Touch, Put, Lookup, TypeOK
<1>4. UNCHANGED allocaLine => LinesAdvance
  BY DEF LinesAdvance, TypeOK
<1>5. CASE VisitStore
  <2>1. CASE ~AccessesAlloca(Adj)
    BY <1>4, <1>5, <2>1 DEF VisitStore
  <2>2. CASE AccessesAlloca(Adj)
    <3>1. allocaLine' = IF map[p] = AllocaMax THEN Put(map, p, Line(Adj)) ELSE map
      BY <1>1, <1>5, <2>2 DEF VisitStore, TaintByStore
    <3>2. CASE map[p] = AllocaMax
      BY <1>2, <1>3, <2>2, <3>1, <3>2, PutAdvances
    <3>3. CASE map[p] # AllocaMax
      BY <1>1, <1>2, <1>3, <2>2, <3>1, <3>3, TouchAdvances
    <3> QED
      BY <3>2, <3>3
  <2> QED
    BY <2>1, <2>2
<1>6. CASE VisitLoad
  <2>1. Kind(Adj) # "store"
    BY <1>6 DEF VisitLoad, Visit
  <2>2. CASE ~AccessesAlloca(Adj)
    BY <1>4, <1>6, <2>2 DEF VisitLoad
  <2>3. CASE AccessesAlloca(Adj)
    <3>1. allocaLine' = Put(map, p, Line(cur)) \/ allocaLine' = map
      BY <1>6, <2>3, Zenon DEF VisitLoad, MoveByLoad
    <3>2. CASE allocaLine' = Put(map, p, Line(cur))
      BY <1>2, <2>1, <2>3, <3>2, PutAdvances
    <3>3. CASE allocaLine' = map
      BY <1>2, <2>1, <2>3, <3>3, TouchAdvances
    <3> QED
      BY <3>1, <3>2, <3>3
  <2> QED
    BY <2>2, <2>3
<1>7. CASE VisitBranch \/ VisitOther
  <2>1. UNCHANGED allocaLine /\ Kind(Adj) # "store"
    BY <1>7 DEF VisitBranch, VisitOther, Visit
  <2> QED
    BY <1>4, <2>1
<1> QED
  BY <1>5, <1>6, <1>7 DEF VisitAny
-----------------------------------------------------------------------------
\* The strengthened invariant holds initially.
LEMMA InitIInv == Init => IInv
<1> SUFFICES ASSUME Init PROVE IInv
  OBVIOUS
<1>1. TypeOK
  BY ProgramFacts, ConstantsAssumption DEF Init, TypeOK, Tracked
<1>2. Bookkeeping
  BY DEF Init, Bookkeeping, ToSet
<1>3. NothingLost
  BY DEF Init, NothingLost
<1>4. FlaggedHaveTaint /\ StoresTaint
  BY DEF Init, FlaggedHaveTaint, StoresTaint
<1> QED
  BY <1>1, <1>2, <1>3, <1>4 DEF IInv

\* Every step keeps the types, and once tainted, an alloca stays tainted.
LEMMA TypeStep == IInv /\ Next => TypeOK'
<1> SUFFICES ASSUME IInv, Next PROVE TypeOK'
  OBVIOUS
<1> USE DEF IInv
<1>0. /\ prog \in Programs /\ prog.order \in Seq(Nodes) /\ Seeds \subseteq Nodes
      /\ Sensitive \subseteq Nodes /\ AllocaMax \in Nat
      /\ \A n \in Nodes : Line(n) \in 0..AllocaMax
  BY ProgramFacts, ConstantsAssumption DEF Bookkeeping
<1>1. CASE CollectSensitive
  <2>1. prog.order[scanned + 1] \in Nodes /\ scanned + 1 \in 0..Len(prog.order)
    BY <1>0, <1>1 DEF CollectSensitive, TypeOK
  <2>2. Matches(prog.order[scanned + 1]) \in Nat
    BY <1>0, <2>1, SeedsMatch
  <2>3. queue' \in Seq(Nodes)
    <3> DEFINE n == prog.order[scanned + 1]
               copies == [i \in 1..Matches(n) |-> n]
    <3>1. copies \in Seq(Nodes)
      BY <2>1, <2>2
    <3>2. queue' = queue \o copies
      BY <1>1 DEF CollectSensitive
    <3> HIDE DEF copies
    <3> QED
      BY <3>1, <3>2 DEF TypeOK
  <2> QED
    BY <1>1, <2>1, <2>3 DEF CollectSensitive, TypeOK
<1>2. CASE MarkSensitive
  <2>1. DOMAIN taint' \subseteq Nodes /\ \A n \in DOMAIN taint' : taint'[n] \subseteq Nodes
    BY <1>0, <1>2 DEF MarkSensitive
  <2>2. /\ DOMAIN allocaLine' \subseteq Nodes
        /\ \A n \in DOMAIN allocaLine' : allocaLine'[n] \in 0..AllocaMax
    BY <1>0, <1>2 DEF MarkSensitive, TypeOK
  <2> QED
    BY <1>2, <2>1, <2>2 DEF MarkSensitive, TypeOK
<1>3. CASE Pop
  <2>1. Head(queue) \in Nodes /\ Tail(queue) \in Seq(Nodes)
    BY <1>3 DEF Pop, TypeOK
  <2>2. Lookup(taint, Head(queue), {}) \subseteq Nodes
    BY DEF Lookup, TypeOK
  <2> QED
    BY <1>3, <2>1, <2>2 DEF Pop, TypeOK
<1>4. CASE Skip
  BY <1>4 DEF Skip, TypeOK
<1>5. CASE Crash
  BY <1>5 DEF Crash, TypeOK, worklist
<1>6. CASE VisitAny
  <2>1. Adj \in Nodes /\ AtLink /\ UNCHANGED <<prog, pc, scanned, cur, snapshot, report>>
    BY <1>6, VisitTaints, LinkFacts
  <2>2. PICK names \in SUBSET Nodes : taint' = Put(taint, Adj, names)
    BY <1>6, VisitTaints
  <2>3. DOMAIN taint' \subseteq Nodes /\ \A n \in DOMAIN taint' : taint'[n] \subseteq Nodes
    BY <2>1, <2>2 DEF Put, TypeOK
  <2>4. /\ DOMAIN allocaLine' \subseteq Nodes
        /\ \A n \in DOMAIN allocaLine' : allocaLine'[n] \in 0..AllocaMax
    BY <1>6, VisitLines DEF LinesAdvance
  <2>5. queue' \in Seq(Nodes) /\ flag' \subseteq Nodes /\ colored' \subseteq Nodes
        /\ idx' \in Nat
    BY <1>6, <2>1, VisitTaints DEF TypeOK
  <2> QED
    BY <2>1, <2>3, <2>4, <2>5 DEF TypeOK
<1>7. CASE EndOfLinks
  BY <1>7 DEF EndOfLinks, TypeOK
<1>8. CASE Report
  <2>1. \A f : ReportedLines(f) \subseteq Nat /\ AllocasOf(f) \subseteq Nodes
    BY <1>0 DEF ReportedLines, AllocasOf, TypeOK
  <2>2. report' \subseteq Nat \X Nodes
    <3>1. \A f \in SensitiveFunctions :
            {e \in ReportedLines(f) \X AllocasOf(f) : allocaLine[e[2]] <= e[1]}
                \subseteq Nat \X Nodes
      BY <2>1
    <3> QED
      BY <1>8, <3>1 DEF Report
  <2> QED
    BY <1>8, <2>2 DEF Report, TypeOK, worklist
<1> QED
  BY <1>1, <1>2, <1>3, <1>4, <1>5, <1>6, <1>7, <1>8 DEF Next, VisitAny
-----------------------------------------------------------------------------
\* What the queue operations do to the set of waiting wrappers.
LEMMA ToSetAppend ==
    ASSUME NEW S, NEW q \in Seq(S), NEW n \in S
    PROVE  ToSet(Append(q, n)) = ToSet(q) \union {n}
<1>1. /\ Len(Append(q, n)) = Len(q) + 1 /\ Append(q, n)[Len(q) + 1] = n
      /\ \A i \in 1..Len(q) : Append(q, n)[i] = q[i]
      /\ DOMAIN Append(q, n) = 1..Len(q) + 1 /\ DOMAIN q = 1..Len(q)
      /\ Len(q) \in Nat
  OBVIOUS
<1> QED
  BY <1>1 DEF ToSet

LEMMA ToSetTail ==
    ASSUME NEW S, NEW q \in Seq(S), q # <<>>
    PROVE  ToSet(q) = {Head(q)} \union ToSet(Tail(q))
<1>1. /\ Len(Tail(q)) = Len(q) - 1 /\ Len(q) \in Nat /\ Len(q) >= 1 /\ Head(q) = q[1]
      /\ \A i \in 1..Len(Tail(q)) : Tail(q)[i] = q[i + 1]
      /\ DOMAIN Tail(q) = 1..Len(q) - 1 /\ DOMAIN q = 1..Len(q)
  BY HeadTailProperties, LenProperties
<1>2. ASSUME NEW x \in ToSet(q) PROVE x = Head(q) \/ x \in ToSet(Tail(q))
  <2>1. PICK i \in 1..Len(q) : x = q[i]
    BY <1>1 DEF ToSet
  <2>2. CASE i = 1
    BY <1>1, <2>1, <2>2
  <2>3. CASE i # 1
    <3>1. i - 1 \in 1..Len(q) - 1 /\ Tail(q)[i - 1] = q[i]
      BY <1>1, <2>1, <2>3
    <3> QED
      BY <1>1, <2>1, <3>1 DEF ToSet
  <2> QED
    BY <2>2, <2>3
<1>3. ASSUME NEW x \in ToSet(Tail(q)) PROVE x \in ToSet(q)
  <2>1. PICK i \in 1..Len(q) - 1 : x = Tail(q)[i]
    BY <1>1, <1>3 DEF ToSet
  <2>2. i + 1 \in 1..Len(q) /\ x = q[i + 1]
    BY <1>1, <2>1
  <2> QED
    BY <1>1, <2>2 DEF ToSet
<1>4. Head(q) \in ToSet(q)
  BY <1>1 DEF ToSet
<1> QED
  BY <1>2, <1>3, <1>4

LEMMA ToSetConcat ==
    ASSUME NEW S, NEW q \in Seq(S), NEW t \in Seq(S)
    PROVE  ToSet(q \o t) = ToSet(q) \union ToSet(t)
<1>1. /\ Len(q) \in Nat /\ Len(t) \in Nat
      /\ DOMAIN q = 1..Len(q) /\ DOMAIN t = 1..Len(t)
      /\ DOMAIN (q \o t) = 1..Len(q) + Len(t)
      /\ \A i \in 1..Len(q) + Len(t) :
            (q \o t)[i] = IF i <= Len(q) THEN q[i] ELSE t[i - Len(q)]
  BY ConcatProperties, LenProperties
<1>2. ASSUME NEW x \in ToSet(q \o t) PROVE x \in ToSet(q) \union ToSet(t)
  <2>1. PICK i \in 1..Len(q) + Len(t) : x = (q \o t)[i]
    BY <1>1 DEF ToSet
  <2> QED
    BY <1>1, <2>1 DEF ToSet
<1>3. ASSUME NEW x \in ToSet(q) PROVE x \in ToSet(q \o t)
  BY <1>1 DEF ToSet
<1>4. ASSUME NEW x \in ToSet(t) PROVE x \in ToSet(q \o t)
  <2>1. PICK i \in 1..Len(t) : x = t[i]
    BY <1>1 DEF ToSet
  <2>2. i + Len(q) \in 1..Len(q) + Len(t) /\ (q \o t)[i + Len(q)] = t[i]
    BY <1>1
  <2> QED
    BY <1>1, <2>1, <2>2 DEF ToSet
<1> QED
  BY <1>2, <1>3, <1>4

\* The collecting loop queues the wrapper it looks at exactly if it is sensitive.
LEMMA CollectQueues ==
    ASSUME TypeOK, Bookkeeping, CollectSensitive
    PROVE  LET n == prog.order[scanned + 1]
           IN  /\ n \in Nodes
               /\ n \in Seeds => ToSet(queue') = ToSet(queue) \union {n}
               /\ n \notin Seeds => ToSet(queue') = ToSet(queue)
<1> DEFINE n == prog.order[scanned + 1]
           copies == [i \in 1..Matches(n) |-> n]
<1>1. n \in Nodes
  BY ProgramFacts, ElementOfSeq DEF CollectSensitive, TypeOK, Bookkeeping
<1>2. Matches(n) \in Nat /\ (n \in Seeds <=> Matches(n) >= 1)
  BY <1>1, SeedsMatch DEF Bookkeeping
<1>3. copies \in Seq(Nodes) /\ queue' = queue \o copies /\ queue \in Seq(Nodes)
  BY <1>1, <1>2 DEF CollectSensitive, TypeOK
<1>4. ToSet(copies) = IF n \in Seeds THEN {n} ELSE {}
  BY <1>2 DEF ToSet
<1> HIDE DEF copies
<1>5. ToSet(queue') = ToSet(queue) \union ToSet(copies)
  BY <1>3, ToSetConcat
<1> QED
  BY <1>1, <1>4, <1>5

LEMMA SeedsFixed ==
    ASSUME UNCHANGED prog
    PROVE  /\ Seeds' = Seeds /\ Edges' = Edges /\ FatalEdges' = FatalEdges
           /\ \A n : Links(n)' = Links(n) /\ Kind(n)' = Kind(n) /\ Ptr(n)' = Ptr(n)
                     /\ AccessesAlloca(n)' = AccessesAlloca(n)
           /\ \A k : Followed(k)' = Followed(k)
  BY DEF Seeds, Sensitive, Edges, FatalEdges, Links, Kind, Ptr, AccessesAlloca, Followed

LEMMA ProgFixed == Next => UNCHANGED prog
  BY DEF Next, CollectSensitive, MarkSensitive, Pop, Skip, Crash, VisitBranch,
         VisitStore, VisitLoad, VisitOther, Visit, EndOfLinks, Report

LEMMA BookkeepingStep == IInv /\ Next => Bookkeeping'
<1> SUFFICES ASSUME IInv, Next PROVE Bookkeeping'
  OBVIOUS
<1> USE DEF IInv
<1>0. Seeds' = Seeds /\ UNCHANGED prog
  BY ProgFixed, SeedsFixed
<1>1. CASE CollectSensitive
  BY <1>0, <1>1, CollectQueues DEF CollectSensitive, Bookkeeping
<1>2. CASE MarkSensitive
  BY <1>0, <1>2 DEF MarkSensitive, Bookkeeping
<1>3. CASE Pop
  <2>1. ToSet(queue) = {Head(queue)} \union ToSet(queue')
    BY <1>3, ToSetTail DEF Pop, TypeOK
  <2>2. Head(queue) \in colored'
    <3>1. CASE Head(queue) \in Seeds
      BY <1>3, <3>1, ProgramFacts DEF Pop, Bookkeeping
    <3>2. CASE Head(queue) \in flag
      BY <1>3, <3>2 DEF Pop, FlaggedHaveTaint
    <3> QED
      BY <2>1, <3>1, <3>2 DEF Bookkeeping
  <2> QED
    BY <1>0, <1>3, <2>1, <2>2 DEF Pop, Bookkeeping
<1>4. CASE Skip
  BY <1>0, <1>4 DEF Skip, AtLink, Bookkeeping, TypeOK
<1>5. CASE Crash
  BY <1>0, <1>5 DEF Crash, AtLink, Bookkeeping, worklist
<1>6. CASE VisitAny
  <2>1. Adj \in Nodes /\ AtLink
    BY <1>6, VisitTaints, LinkFacts
  <2>2. ToSet(queue') = ToSet(queue) \union {Adj}
    <3>1. queue' = Append(queue, Adj) /\ queue \in Seq(Nodes)
      BY <1>6, VisitTaints DEF TypeOK
    <3> QED
      BY <2>1, <3>1, ToSetAppend
  <2> QED
    BY <1>0, <1>6, <2>1, <2>2, VisitTaints DEF AtLink, Bookkeeping, TypeOK
<1>7. CASE EndOfLinks
  BY <1>0, <1>7 DEF EndOfLinks, Bookkeeping
<1>8. CASE Report
  BY <1>0, <1>8 DEF Report, Bookkeeping, worklist
<1> QED
  BY <1>1, <1>2, <1>3, <1>4, <1>5, <1>6, <1>7, <1>8 DEF Next, VisitAny
-----------------------------------------------------------------------------
\* The flags only grow, so a list flagged up to some index stays so.
LEMMA FlaggedUpToStable ==
    ASSUME UNCHANGED prog, flag \subseteq flag', NEW n, NEW k, FlaggedUpTo(n, k)
    PROVE  FlaggedUpTo(n, k)'
  BY SeedsFixed DEF FlaggedUpTo

\* Every step of the loop keeps every sensitive or flagged wrapper accounted for.
LEMMA NothingLostStep == IInv /\ Next => NothingLost'
<1> SUFFICES ASSUME IInv, Next PROVE NothingLost'
  OBVIOUS
<1> USE DEF IInv
<1>0. Seeds' = Seeds /\ UNCHANGED prog /\ \A n : Links(n)' = Links(n)
  BY ProgFixed, SeedsFixed
<1> DEFINE Settled(n) == FlaggedUpTo(n, Len(Links(n)))
<1>a. ASSUME flag' = flag, NEW n, Settled(n) PROVE FlaggedUpTo(n, Len(Links(n)))'
  BY <1>0, <1>a, FlaggedUpToStable
<1>b. cur \in Nodes => Links(cur) \in Seq([to : Nodes, type : STRING])
  BY ProgramFacts DEF Bookkeeping
<1>c. AtLink => idx \in 1..Len(Links(cur)) /\ Adj = Links(cur)[idx].to
  BY LinkFacts
<1>1. CASE CollectSensitive
  <2>1. pc' = "collect" /\ scanned' = scanned + 1 /\ UNCHANGED prog /\ pc = "collect"
    BY <1>0, <1>1 DEF CollectSensitive
  <2>2. ASSUME NEW i \in 1..scanned', prog'.order[i] \in Seeds'
        PROVE  prog'.order[i] \in ToSet(queue')
    <3>1. CASE i = scanned + 1
      BY <1>0, <1>1, <2>2, <3>1, CollectQueues
    <3>2. CASE i \in 1..scanned
      BY <1>0, <1>1, <2>1, <2>2, <3>2, CollectQueues DEF NothingLost
    <3> QED
      BY <2>1, <3>1, <3>2 DEF TypeOK
  <2> QED
    BY <2>1, <2>2 DEF NothingLost
<1>2. CASE MarkSensitive
  <2>1. flag = {} /\ queue' = queue /\ pc' = "pop" /\ flag' = flag
        /\ scanned = Len(prog.order) /\ pc = "collect"
    BY <1>2 DEF MarkSensitive, Bookkeeping
  <2>2. ASSUME NEW n \in Seeds PROVE n \in ToSet(queue)
    <3>1. n \in ToSet(prog.order) /\ DOMAIN prog.order = 1..Len(prog.order)
      BY ProgramFacts, LenProperties DEF Bookkeeping
    <3>2. PICK i \in 1..Len(prog.order) : n = prog.order[i]
      BY <3>1 DEF ToSet
    <3> QED
      BY <2>1, <3>2 DEF NothingLost
  <2> QED
    BY <1>0, <2>1, <2>2 DEF NothingLost
<1>3. CASE Pop
  <2>1. /\ ToSet(queue) = {Head(queue)} \union ToSet(queue') /\ cur' = Head(queue)
        /\ pc = "pop" /\ pc' = "visit" /\ flag' = flag /\ idx' = 1 /\ Head(queue) \in Nodes
    BY <1>3, ToSetTail DEF Pop, TypeOK
  <2>2. ASSUME NEW n \in Seeds \union flag
        PROVE  n \in ToSet(queue') \/ n = cur' \/ FlaggedUpTo(n, Len(Links(n)))'
    BY <1>a, <2>1 DEF NothingLost
  <2>3. FlaggedUpTo(cur, idx - 1)'
    <3>1. Links(cur)' \in Seq([to : Nodes, type : STRING])
      <4>1. Links(Head(queue)) \in Seq([to : Nodes, type : STRING])
        BY <2>1, ProgramFacts DEF Bookkeeping
      <4> QED
        BY <1>0, <2>1, <4>1 DEF Links
    <3>2. DOMAIN Links(cur)' = 1..Len(Links(cur)') /\ Len(Links(cur)') \in Nat
      BY <3>1, LenProperties
    <3> QED
      BY <2>1, <3>2 DEF FlaggedUpTo
  <2> QED
    BY <1>0, <2>1, <2>2, <2>3 DEF NothingLost
<1>4. CASE Skip
  <2>1. /\ flag' = flag /\ queue' = queue /\ cur' = cur /\ pc = "visit" /\ pc' = "visit"
        /\ idx' = idx + 1 /\ AtLink /\ (Followed(Link) => Adj \in flag)
    BY <1>4 DEF Skip, AtLink, FirstVisit
  <2>2. FlaggedUpTo(cur, idx)
    BY <1>b, <1>c, <2>1 DEF FlaggedUpTo, NothingLost, Link, TypeOK
  <2>3. FlaggedUpTo(cur, idx - 1)'
    <3>1. idx' - 1 = idx
      BY <2>1 DEF TypeOK
    <3> QED
      BY <1>0, <2>1, <2>2, <3>1 DEF FlaggedUpTo, Links, Followed, Kind
  <2> QED
    BY <1>0, <1>a, <2>1, <2>3 DEF NothingLost
<1>5. CASE Crash
  <2>1. flag' = flag /\ queue' = queue /\ cur' = cur /\ pc = "visit" /\ pc' = "crashed"
    BY <1>5 DEF Crash, AtLink, worklist
  <2> QED
    BY <1>0, <1>a, <2>1 DEF NothingLost
<1>6. CASE VisitAny
  <2>1. /\ flag' = flag \union {Adj} /\ cur' = cur /\ pc = "visit" /\ pc' = "visit"
        /\ idx' = idx + 1 /\ AtLink /\ queue' = Append(queue, Adj) /\ Adj \in Nodes
        /\ queue \in Seq(Nodes)
    BY <1>6, VisitTaints, LinkFacts DEF AtLink, TypeOK
  <2>2. ToSet(queue') = ToSet(queue) \union {Adj}
    BY <2>1, ToSetAppend
  <2>3. ASSUME NEW n, Settled(n) PROVE FlaggedUpTo(n, Len(Links(n)))'
    BY <1>0, <2>1, <2>3, FlaggedUpToStable
  <2>4. \A i \in DOMAIN Links(cur) :
          i <= idx /\ Followed(Links(cur)[i]) => Links(cur)[i].to \in flag'
    <3>1. FlaggedUpTo(cur, idx - 1) /\ DOMAIN Links(cur) = 1..Len(Links(cur))
      BY <1>b, <2>1, LenProperties DEF NothingLost, TypeOK
    <3> QED
      BY <1>c, <2>1, <3>1 DEF FlaggedUpTo
  <2>5. FlaggedUpTo(cur, idx - 1)'
    <3>1. idx' - 1 = idx
      BY <2>1 DEF TypeOK
    <3> QED
      BY <1>0, <2>1, <2>4, <3>1 DEF FlaggedUpTo, Links, Followed, Kind
  <2> QED
    BY <1>0, <2>1, <2>2, <2>3, <2>5 DEF NothingLost
<1>7. CASE EndOfLinks
  <2>1. /\ flag' = flag /\ queue' = queue /\ pc = "visit" /\ pc' = "pop"
        /\ idx > Len(Links(cur)) /\ cur \in Nodes
    BY <1>7 DEF EndOfLinks, Exhausted, TypeOK
  <2>2. Settled(cur)
    BY <1>b, <2>1 DEF FlaggedUpTo, NothingLost, TypeOK
  <2> QED
    BY <1>0, <1>a, <2>1, <2>2 DEF NothingLost
<1>8. CASE Report
  <2>1. flag' = flag /\ queue' = queue /\ pc = "pop" /\ pc' = "done"
    BY <1>8 DEF Report, worklist
  <2> QED
    BY <1>0, <1>a, <2>1 DEF NothingLost
<1> QED
  BY <1>1, <1>2, <1>3, <1>4, <1>5, <1>6, <1>7, <1>8 DEF Next, VisitAny
-----------------------------------------------------------------------------
\* A wrapper has its taintMap entry and its color from the step that flags it.
LEMMA FlaggedHaveTaintStep == IInv /\ Next => FlaggedHaveTaint'
<1> SUFFICES ASSUME IInv, Next PROVE FlaggedHaveTaint'
  OBVIOUS
<1> USE DEF IInv
<1>1. CASE MarkSensitive
  BY <1>1 DEF MarkSensitive, FlaggedHaveTaint, Bookkeeping
<1>2. CASE VisitAny
  <2>1. PICK names \in SUBSET Nodes : taint' = Put(taint, Adj, names)
    BY <1>2, VisitTaints
  <2>2. flag' = flag \union {Adj} /\ colored' = colored \union {Adj}
    BY <1>2, VisitTaints
  <2> QED
    BY <2>1, <2>2 DEF FlaggedHaveTaint, Put
<1>3. CASE CollectSensitive \/ Pop \/ Skip \/ Crash \/ EndOfLinks \/ Report
  BY <1>3 DEF CollectSensitive, Pop, Skip, Crash, EndOfLinks, Report, worklist,
              FlaggedHaveTaint
<1> QED
  BY <1>1, <1>2, <1>3 DEF Next, VisitAny

\* The steps other than a visit and MarkSensitive leave flags, names and lines alone.
LEMMA OtherSteps ==
    ASSUME CollectSensitive \/ Pop \/ Skip \/ Crash \/ EndOfLinks \/ Report
    PROVE  UNCHANGED <<flag, taint, allocaLine>>
  BY DEF CollectSensitive, Pop, Skip, Crash, EndOfLinks, Report, worklist

\* A flagged store leaves its alloca tainted, and nothing takes that back.
LEMMA StoresTaintStep == IInv /\ Next => StoresTaint'
<1> SUFFICES ASSUME IInv, Next PROVE StoresTaint'
  OBVIOUS
<1> USE DEF IInv
<1>0. UNCHANGED prog
  BY ProgFixed
<1>1. CASE MarkSensitive
  BY <1>1 DEF MarkSensitive, StoresTaint, Bookkeeping
<1>2. CASE VisitAny
  <2>1. flag' = flag \union {Adj} /\ LinesAdvance
    BY <1>2, VisitTaints, VisitLines
  <2>2. ASSUME NEW s \in flag', (Kind(s) = "store")', AccessesAlloca(s)'
        PROVE  (Lookup(allocaLine, Ptr(s), AllocaMax) < AllocaMax)'
    <3>1. Kind(s) = "store" /\ AccessesAlloca(s) /\ Ptr(s)' = Ptr(s)
      BY <1>0, <2>2, SeedsFixed
    <3>2. CASE s \in flag
      <4>1. Lookup(allocaLine, Ptr(s), AllocaMax) < AllocaMax
        BY <3>1, <3>2 DEF StoresTaint
      <4>2. Ptr(s) \in DOMAIN allocaLine /\ allocaLine[Ptr(s)] < AllocaMax
        BY <4>1, ConstantsAssumption DEF Lookup
      <4> QED
        BY <2>1, <3>1, <4>2 DEF LinesAdvance, Lookup
    <3>3. CASE s = Adj
      BY <1>2, <3>1, <3>3, VisitLines DEF Lookup
    <3> QED
      BY <2>1, <2>2, <3>2, <3>3
  <2> QED
    BY <2>2 DEF StoresTaint
<1>3. CASE CollectSensitive \/ Pop \/ Skip \/ Crash \/ EndOfLinks \/ Report
  BY <1>0, <1>3, OtherSteps, SeedsFixed DEF StoresTaint, Lookup
<1> QED
  BY <1>1, <1>2, <1>3 DEF Next, VisitAny

LEMMA Invariance == Spec => []IInv
<1>1. IInv /\ UNCHANGED vars => IInv'
  <2> SUFFICES ASSUME IInv, UNCHANGED vars PROVE IInv'
    OBVIOUS
  <2>1. UNCHANGED prog /\ Seeds' = Seeds
    BY SeedsFixed DEF vars
  <2>2. TypeOK' /\ Bookkeeping' /\ FlaggedHaveTaint'
    BY <2>1 DEF vars, IInv, TypeOK, Bookkeeping, FlaggedHaveTaint
  <2>3. NothingLost'
    BY <2>1 DEF vars, IInv, NothingLost, FlaggedUpTo, Links, Followed, Kind
  <2>4. StoresTaint'
    BY <2>1 DEF vars, IInv, StoresTaint, Lookup, Kind, Ptr, AccessesAlloca
  <2> QED
    BY <2>2, <2>3, <2>4 DEF IInv
<1>2. IInv /\ [Next]_vars => IInv'
  BY <1>1, TypeStep, BookkeepingStep, NothingLostStep, FlaggedHaveTaintStep,
     StoresTaintStep DEF IInv
<1> QED
  BY <1>2, InitIInv, PTL DEF Spec

-----------------------------------------------------------------------------
\* The state of the propagation is well typed: every name and every line it
\* records is one of the program's.
THEOREM TypeCorrect == Spec => []TypeOK
  BY Invariance, PTL DEF IInv

\* No dependent of a sensitive value is ever lost by the worklist.
THEOREM LosesNothing == Spec => []NothingLost
  BY Invariance, PTL DEF IInv

\* The taintMap entry read at line 917 always exists.
THEOREM TaintDefined == Spec => []FlaggedHaveTaint
  BY Invariance, PTL DEF IInv

\* A reached store leaves the alloca it writes tainted.
THEOREM ReachedStoresTaint == Spec => []StoresTaint
  BY Invariance, PTL DEF IInv

\* The names of a flagged wrapper are settled by the step that flags it.
THEOREM TaintIsFrozen == Spec => TaintFrozen
<1> DEFINE Frozen == \A n \in flag : n \in DOMAIN taint' /\ taint'[n] = taint[n]
<1>1. IInv /\ Next => Frozen
  <2> SUFFICES ASSUME IInv, Next PROVE Frozen
    OBVIOUS
  <2>1. CASE MarkSensitive
    BY <2>1 DEF MarkSensitive, IInv, Bookkeeping
  <2>2. CASE VisitAny
    BY <2>2, VisitTaints DEF IInv, FlaggedHaveTaint, Put
  <2>3. CASE CollectSensitive \/ Pop \/ Skip \/ Crash \/ EndOfLinks \/ Report
    BY <2>3, OtherSteps DEF IInv, FlaggedHaveTaint
  <2> QED
    BY <2>1, <2>2, <2>3 DEF Next, VisitAny
<1>2. IInv /\ UNCHANGED vars => Frozen
  BY DEF vars, IInv, FlaggedHaveTaint
<1>3. IInv /\ [Next]_vars => [Frozen]_vars
  BY <1>1, <1>2
<1> QED
  BY <1>3, Invariance, PTL DEF Spec, TaintFrozen

\* An alloca that counts as tainted does so to the end.
THEOREM NeverUntainted == Spec => StaysTainted
<1> DEFINE Stays == \A a \in DOMAIN allocaLine : allocaLine[a] < AllocaMax
                        => a \in DOMAIN allocaLine' /\ allocaLine'[a] < AllocaMax
<1>1. IInv /\ Next => Stays
  <2> SUFFICES ASSUME IInv, Next PROVE Stays
    OBVIOUS
  <2>1. CASE MarkSensitive
    <3>1. Sensitive \subseteq Nodes /\ \A n \in Nodes : Line(n) < AllocaMax
      BY ProgramFacts DEF IInv, Bookkeeping
    <3> QED
      BY <2>1, <3>1 DEF MarkSensitive
  <2>2. CASE VisitAny
    BY <2>2, VisitLines DEF IInv, LinesAdvance
  <2>3. CASE CollectSensitive \/ Pop \/ Skip \/ Crash \/ EndOfLinks \/ Report
    BY <2>3, OtherSteps
  <2> QED
    BY <2>1, <2>2, <2>3 DEF Next, VisitAny
<1>2. UNCHANGED vars => Stays
  BY DEF vars
<1>3. IInv /\ [Next]_vars => [Stays]_vars
  BY <1>1, <1>2
<1> QED
  BY <1>3, Invariance, PTL DEF Spec, StaysTainted

\* The worklist implements the closure: initial states map to initial states,
\* a first visit marks a dependent, the report is only written once no
\* dependent is unmarked, a crash aborts, and every other step is a stutter.
THEOREM ImplementsTheClosure == Spec => ImplementsClosure
<1>1. Init => Closure!Init
  <2> SUFFICES ASSUME Init PROVE Closure!Init
    OBVIOUS
  <2>1. Seeds \subseteq Nodes
    BY ProgramFacts DEF Init
  <2>2. Edges \subseteq Nodes \X Nodes /\ FatalEdges \subseteq Edges
    BY DEF Edges, FatalEdges
  <2>3. flag = {} /\ pc # "done" /\ pc # "crashed"
    BY DEF Init
  <2> QED
    BY <2>1, <2>2, <2>3 DEF Closure!Init
<1>2. IInv /\ [Next]_vars => [Closure!Next]_(Closure!vars)
  <2> SUFFICES ASSUME IInv, [Next]_vars PROVE [Closure!Next]_(Closure!vars)
    OBVIOUS
  <2> USE DEF IInv
  <2>0. /\ Seeds' = Seeds /\ Edges' = Edges /\ FatalEdges' = FatalEdges
    BY ProgFixed, SeedsFixed DEF vars
  <2>1. CASE /\ CollectSensitive \/ MarkSensitive \/ Pop \/ Skip \/ EndOfLinks
                \/ UNCHANGED vars
    <3>1. /\ flag' = flag
          /\ (pc = "done") = (pc = "done")' /\ (pc = "crashed") = (pc = "crashed")'
      BY <2>1 DEF CollectSensitive, MarkSensitive, Pop, Skip, AtLink, EndOfLinks, vars
    <3> QED
      BY <2>0, <3>1 DEF Closure!vars
  <2>2. ASSUME AtLink, Followed(Link)
        PROVE  /\ <<cur, Adj>> \in Edges /\ cur \in Seeds \union flag
               /\ cur \in colored
               /\ <<cur, Adj>> \in FatalEdges
                     <=> Kind(Adj) = "entry" \/ Kind(cur) = "global"
    <3>1. cur \in Nodes /\ Adj \in Nodes /\ idx \in DOMAIN Links(cur)
      BY <2>2, LinkFacts DEF AtLink
    <3>2. <<cur, Adj>> \in Edges
      BY <2>2, <3>1 DEF Edges, Adj, Link
    <3> QED
      BY <2>2, <3>2 DEF FatalEdges, Bookkeeping, AtLink
  <2>3. CASE VisitAny
    <3>1. AtLink /\ Followed(Link) /\ Adj \notin flag /\ flag' = flag \union {Adj} /\ pc' = pc
      BY <2>3, VisitTaints
    <3>2. ~NullInstruction
      BY <2>3 DEF VisitAny, VisitBranch, VisitStore, VisitLoad, VisitOther, Visit
    <3>3. <<cur, Adj>> \in Edges \ FatalEdges /\ cur \in Seeds \union flag
      BY <2>2, <3>1, <3>2 DEF NullInstruction, FirstVisit
    <3>4. Closure!Mark(<<cur, Adj>>)
      BY <2>0, <3>1, <3>3 DEF Closure!Mark, Closure!Source, AtLink
    <3> QED
      BY <3>3, <3>4 DEF Closure!Next
  <2>4. CASE Crash
    <3>1. AtLink /\ Followed(Link) /\ NullInstruction /\ pc' = "crashed" /\ flag' = flag
      BY <2>4 DEF Crash, worklist
    <3>2. <<cur, Adj>> \in FatalEdges /\ cur \in Seeds \union flag
      BY <2>2, <3>1 DEF NullInstruction
    <3>3. Closure!Abort
      BY <2>0, <3>1, <3>2 DEF Closure!Abort, Closure!Source, AtLink
    <3> QED
      BY <3>3 DEF Closure!Next
  <2>5. CASE Report
    <3>1. pc = "pop" /\ queue = <<>> /\ pc' = "done" /\ flag' = flag
      BY <2>5 DEF Report, worklist
    <3>2. ASSUME NEW edge \in Edges, edge[1] \in Seeds \union flag
          PROVE  edge[2] \in flag
      <4>1. edge[1] \in Nodes /\ ToSet(queue) = {}
        BY <3>1 DEF Edges, ToSet
      <4>2. FlaggedUpTo(edge[1], Len(Links(edge[1])))
        BY <3>1, <3>2, <4>1 DEF NothingLost
      <4>3. DOMAIN Links(edge[1]) = 1..Len(Links(edge[1]))
        BY <4>1, ProgramFacts, LenProperties DEF Bookkeeping
      <4>4. Len(Links(edge[1])) \in Nat
        BY <4>1, ProgramFacts, LenProperties DEF Bookkeeping
      <4> QED
        BY <4>2, <4>3, <4>4 DEF FlaggedUpTo, Edges
    <3>3. Closure!Finish
      BY <2>0, <3>1, <3>2 DEF Closure!Finish, Closure!Successors, Closure!Source
    <3> QED
      BY <3>3 DEF Closure!Next
  <2> QED
    BY <2>1, <2>3, <2>4, <2>5 DEF Next, VisitAny
<1> QED
  BY <1>1, <1>2, Invariance, PTL DEF Spec, ImplementsClosure, Closure!Spec

-----------------------------------------------------------------------------
\* What the report rests on: allocas that allocaMap tracks have an entry, a line
\* below AllocaMax is one from which the alloca may count as tainted, and the
\* annotated ones have such a line.
LinesJustified ==
    /\ Tracked \subseteq DOMAIN allocaLine
    /\ \A a \in DOMAIN allocaLine :
          allocaLine[a] = AllocaMax \/ TaintedFrom(a, allocaLine[a])
    /\ pc # "collect" =>
          \A a \in Sensitive : a \in DOMAIN allocaLine /\ allocaLine[a] < AllocaMax

\* More flags leave a reason a reason.
LEMMA ReasonStable ==
    ASSUME UNCHANGED prog, flag \subseteq flag', NEW a, NEW line, TaintedFrom(a, line)
    PROVE  TaintedFrom(a, line)'
<1>1. \A n : Kind(n)' = Kind(n) /\ Ptr(n)' = Ptr(n) /\ Line(n)' = Line(n)
             /\ Links(n)' = Links(n)
  BY DEF Kind, Ptr, Line, Links
<1>2. \A s, n : Reaches(s, n)' <=> Reaches(s, n)
  BY DEF Reaches, Followed, Kind, Links
<1>3. \A s : Defines(s, a) => Defines(s, a)'
  BY <1>1, <1>2 DEF Defines
<1> QED
  BY <1>1, <1>3 DEF TaintedFrom, Sensitive

\* Only allocas are accessed directly.
LEMMA PointersAreAllocas ==
    ASSUME prog \in Programs, NEW n \in Nodes, AccessesAlloca(n)
    PROVE  Ptr(n) \in Tracked \union prog.untracked
<1>1. /\ prog \in ProgramType
      /\ \A m \in Nodes : prog.ptr[m] # NoNode => prog.kind[prog.ptr[m]] = "alloca"
  BY ProgramsAssumption
<1>2. Ptr(n) \in Nodes \union {NoNode} /\ Ptr(n) # NoNode
  BY <1>1 DEF ProgramType, Ptr, AccessesAlloca
<1> QED
  BY <1>1, <1>2 DEF Ptr, Tracked, Kind

\* Setting one line for a reason leaves every line with one.
LEMMA PutJustified ==
    ASSUME UNCHANGED prog, flag \subseteq flag', LinesJustified,
           NEW p, NEW line,
           p \in Tracked \union prog.untracked,
           p \in prog.untracked => TaintedFrom(p, 0)',
           \/ allocaLine' = allocaLine
           \/ allocaLine' = Touch(allocaLine, p)
           \/ /\ allocaLine' = Put(Touch(allocaLine, p), p, line)
              /\ TaintedFrom(p, line)'
    PROVE  /\ Tracked' \subseteq DOMAIN allocaLine'
           /\ \A a \in DOMAIN allocaLine' :
                 allocaLine'[a] = AllocaMax \/ TaintedFrom(a, allocaLine[a])'
<1>1. Tracked' = Tracked
  BY DEF Tracked, Kind
<1>2. DOMAIN allocaLine \subseteq DOMAIN allocaLine'
  BY DEF Touch, Put
<1>3. ASSUME NEW a \in DOMAIN allocaLine'
      PROVE  allocaLine'[a] = AllocaMax \/ TaintedFrom(a, allocaLine[a])'
  <2>1. CASE a \in DOMAIN allocaLine /\ allocaLine'[a] = allocaLine[a]
    <3>1. CASE allocaLine[a] = AllocaMax
      BY <2>1, <3>1
    <3>2. CASE TaintedFrom(a, allocaLine[a])
      <4>1. PICK l : l = allocaLine[a]
        OBVIOUS
      <4>2. TaintedFrom(a, l)'
        BY <3>2, <4>1, ReasonStable
      <4>3. l = allocaLine'[a]
        BY <2>1, <4>1
      <4> QED
        BY <4>2, <4>3 DEF TaintedFrom
    <3> QED
      BY <2>1, <3>1, <3>2 DEF LinesJustified
  <2>2. CASE a = p /\ p \notin DOMAIN allocaLine /\ allocaLine'[a] = 0
    <3>1. p \in prog.untracked
      BY <2>2 DEF LinesJustified
    <3> QED
      BY <2>2, <3>1 DEF TaintedFrom
  <2>3. CASE a = p /\ allocaLine'[a] = line /\ TaintedFrom(p, line)'
    BY <2>3 DEF TaintedFrom
  <2> QED
    BY <1>3, <2>1, <2>2, <2>3 DEF Touch, Put, Lookup
<1> QED
  BY <1>1, <1>2, <1>3 DEF LinesJustified

\* An annotated alloca counts as tainted from the time the seeds are marked.
LEMMA SensitiveTainted ==
    IInv /\ LinesJustified /\ Next =>
        (pc # "collect" => \A a \in Sensitive : a \in DOMAIN allocaLine /\ allocaLine[a] < AllocaMax)'
<1> SUFFICES ASSUME IInv, LinesJustified, Next, pc' # "collect", NEW a \in Sensitive'
             PROVE  a \in DOMAIN allocaLine' /\ allocaLine'[a] < AllocaMax
  OBVIOUS
<1>1. a \in Sensitive
  BY SeedsFixed, ProgFixed DEF Sensitive
<1>2. CASE MarkSensitive
  <2>1. Line(a) < AllocaMax
    BY <1>1, ProgramFacts DEF IInv, Bookkeeping
  <2> QED
    BY <1>1, <1>2, <2>1 DEF MarkSensitive
<1>3. CASE VisitAny
  <2>1. LinesAdvance /\ pc' = pc
    BY <1>3, VisitLines, VisitTaints DEF IInv
  <2> QED
    BY <1>1, <2>1 DEF LinesAdvance, LinesJustified
<1>4. CASE CollectSensitive \/ Pop \/ Skip \/ Crash \/ EndOfLinks \/ Report
  <2>1. UNCHANGED allocaLine
    BY <1>4, OtherSteps
  <2>2. pc # "collect"
    BY <1>4 DEF CollectSensitive, Pop, Skip, Crash, AtLink, EndOfLinks, Report
  <2> QED
    BY <1>1, <2>1, <2>2 DEF LinesJustified
<1> QED
  BY <1>2, <1>3, <1>4 DEF Next, VisitAny

\* The steps of the pass set a line only to that of a flagged store.
LEMMA LinesJustifiedStep == IInv /\ LinesJustified /\ Next => LinesJustified'
<1> SUFFICES ASSUME IInv, LinesJustified, Next PROVE LinesJustified'
  OBVIOUS
<1> USE DEF IInv
<1>0. UNCHANGED prog /\ Tracked' = Tracked /\ Sensitive' = Sensitive
  BY ProgFixed DEF Tracked, Kind, Sensitive
<1>s. (pc # "collect" => \A a \in Sensitive : a \in DOMAIN allocaLine /\ allocaLine[a] < AllocaMax)'
  BY SensitiveTainted
<1>1. CASE MarkSensitive
  <2>1. flag = {} /\ flag' = {}
    BY <1>1 DEF MarkSensitive, Bookkeeping
  <2>2. allocaLine' = [a \in DOMAIN allocaLine \union Sensitive |->
                        IF a \in Sensitive THEN Line(a) ELSE allocaLine[a]]
    BY <1>1 DEF MarkSensitive
  <2>3. ASSUME NEW a \in DOMAIN allocaLine'
        PROVE  allocaLine'[a] = AllocaMax \/ TaintedFrom(a, allocaLine[a])'
    <3>1. CASE a \in Sensitive
      BY <1>0, <2>2, <3>1 DEF TaintedFrom, Line
    <3>2. CASE a \notin Sensitive
      <4>1. a \in DOMAIN allocaLine /\ allocaLine'[a] = allocaLine[a]
        BY <2>2, <3>2
      <4>2. ~TaintedFrom(a, allocaLine[a])
        BY <2>1, <3>2 DEF TaintedFrom, Defines
      <4> QED
        BY <4>1, <4>2 DEF LinesJustified
    <3> QED
      BY <3>1, <3>2
  <2> QED
    BY <1>0, <1>s, <2>2, <2>3 DEF LinesJustified
<1>2. CASE VisitAny
  <2>1. /\ AtLink /\ flag' = flag \union {Adj} /\ cur \in Seeds \union flag
        /\ cur \in Nodes /\ Adj \in Nodes /\ idx \in DOMAIN Links(cur)
        /\ Adj = Links(cur)[idx].to /\ Followed(Links(cur)[idx])
        /\ prog \in Programs
    BY <1>2, VisitTaints, LinkFacts DEF AtLink, Bookkeeping, Link
  <2>2. AccessesAlloca(Adj) => Ptr(Adj) \in Tracked \union prog.untracked
    BY <2>1, PointersAreAllocas
  <2>3. CASE UNCHANGED allocaLine
    <3>1. ASSUME NEW a \in DOMAIN allocaLine, TaintedFrom(a, allocaLine[a])
          PROVE  TaintedFrom(a, allocaLine[a])'
      <4>1. PICK l : l = allocaLine[a]
        OBVIOUS
      <4>2. TaintedFrom(a, l)'
        BY <1>0, <2>1, <3>1, <4>1, ReasonStable
      <4> QED
        BY <2>3, <4>1, <4>2 DEF TaintedFrom
    <3> QED
      BY <1>0, <1>s, <2>3, <3>1 DEF LinesJustified
  <2>4. CASE VisitStore /\ AccessesAlloca(Adj)
    <3>1. PICK p, line, n : p = Ptr(Adj) /\ line = Line(Adj) /\ n = Adj
      OBVIOUS
    <3>2. \/ allocaLine' = allocaLine
          \/ allocaLine' = Touch(allocaLine, p)
          \/ allocaLine' = Put(Touch(allocaLine, p), p, line)
      BY <2>4, <3>1, Zenon DEF VisitStore, TaintByStore
    <3>3. n \in flag' /\ n \in Nodes /\ Kind(n) = "store" /\ Ptr(n) = p /\ Line(n) = line
      BY <2>1, <2>4, <3>1 DEF VisitStore, Visit
    <3>4. TaintedFrom(p, line)'
      BY <1>0, <3>3 DEF TaintedFrom, Defines, Kind, Ptr, Line
    <3>5. p \in prog.untracked => TaintedFrom(p, 0)'
      BY <1>0, <3>3 DEF TaintedFrom, Kind, Ptr
    <3>6. /\ Tracked' \subseteq DOMAIN allocaLine'
          /\ \A a \in DOMAIN allocaLine' :
                allocaLine'[a] = AllocaMax \/ TaintedFrom(a, allocaLine[a])'
      BY <1>0, <2>1, <2>2, <2>4, <3>1, <3>2, <3>4, <3>5, PutJustified
    <3> QED
      BY <1>s, <3>6 DEF LinesJustified
  <2>5. CASE VisitLoad /\ AccessesAlloca(Adj)
    <3>1. PICK p, line, n, c : p = Ptr(Adj) /\ line = Line(cur) /\ n = Adj /\ c = cur
      OBVIOUS
    <3>2. \/ allocaLine' = allocaLine
          \/ allocaLine' = Touch(allocaLine, p)
          \/ allocaLine' = Put(Touch(allocaLine, p), p, line) /\ Kind(c) = "store"
      BY <2>5, <3>1, Zenon DEF VisitLoad, MoveByLoad
    <3>3. n \in flag' /\ Kind(n) = "load" /\ Ptr(n) = p
      BY <2>1, <2>5, <3>1 DEF VisitLoad, Visit
    <3>4. ASSUME Kind(c) = "store" PROVE TaintedFrom(p, line)'
      <4>1. c \in flag
        <5>1. \A m \in Seeds : Kind(m) \in {"alloca", "global"}
          BY <2>1, ProgramsAssumption DEF Seeds, Sensitive, Kind
        <5> QED
          BY <2>1, <3>1, <3>4, <5>1
      <4>2. Reaches(c, n)
        BY <2>1, <3>1 DEF Reaches
      <4>3. Reaches(c, n)'
        BY <1>0, <4>2 DEF Reaches, Followed, Kind, Links
      <4>4. Defines(c, p)'
        BY <1>0, <2>1, <3>3, <3>4, <4>1, <4>3 DEF Defines, Kind, Ptr
      <4> QED
        BY <1>0, <2>1, <3>1, <4>4 DEF TaintedFrom, Line
    <3>5. p \in prog.untracked => TaintedFrom(p, 0)'
      BY <1>0, <3>3 DEF TaintedFrom, Kind, Ptr
    <3>6. /\ Tracked' \subseteq DOMAIN allocaLine'
          /\ \A a \in DOMAIN allocaLine' :
                allocaLine'[a] = AllocaMax \/ TaintedFrom(a, allocaLine[a])'
      BY <1>0, <2>1, <2>2, <2>5, <3>1, <3>2, <3>4, <3>5, PutJustified
    <3> QED
      BY <1>s, <3>6 DEF LinesJustified
  <2> QED
    BY <1>2, <2>3, <2>4, <2>5 DEF VisitAny, VisitBranch, VisitStore, VisitLoad, VisitOther
<1>3. CASE CollectSensitive \/ Pop \/ Skip \/ Crash \/ EndOfLinks \/ Report
  <2>1. UNCHANGED <<flag, allocaLine>>
    BY <1>3, OtherSteps
  <2>2. ASSUME NEW a \in DOMAIN allocaLine, TaintedFrom(a, allocaLine[a])
        PROVE  TaintedFrom(a, allocaLine[a])'
    <3>1. PICK l : l = allocaLine[a]
      OBVIOUS
    <3>2. TaintedFrom(a, l)'
      BY <1>0, <2>1, <2>2, <3>1, ReasonStable
    <3> QED
      BY <2>1, <3>1, <3>2 DEF TaintedFrom
  <2> QED
    BY <1>0, <1>s, <2>1, <2>2 DEF LinesJustified
<1> QED
  BY <1>1, <1>2, <1>3 DEF Next, VisitAny

\* What the report lists of one alloca: the printed lines from its entry on.
LEMMA ListedLines ==
    ASSUME Report, NEW a, prog.func[a] \in SensitiveFunctions
    PROVE  Listed(a)' = IF a \in DOMAIN allocaLine
                        THEN {l \in ReportedLines(prog.func[a]) : allocaLine[a] <= l}
                        ELSE {}
<1>1. report' = UNION {{e \in ReportedLines(f) \X AllocasOf(f) : allocaLine[e[2]] <= e[1]}
                       : f \in SensitiveFunctions}
  BY DEF Report
<1>2. \A l : l \in Listed(a)' <=> <<l, a>> \in report'
  <2>1. \A e \in report' : e = <<e[1], e[2]>>
    BY <1>1
  <2>2. Listed(a)' = {e[1] : e \in {entry \in report' : entry[2] = a}}
    BY DEF Listed
  <2> QED
    BY <2>1, <2>2
<1>3. \A l : <<l, a>> \in report'
               <=> \E f \in SensitiveFunctions :
                      l \in ReportedLines(f) /\ a \in AllocasOf(f) /\ allocaLine[a] <= l
  BY <1>1
<1>4. \A f : a \in AllocasOf(f) <=> a \in DOMAIN allocaLine /\ prog.func[a] = f
  BY DEF AllocasOf
<1> QED
  BY <1>2, <1>3, <1>4

\* The report step writes what the entries say; nothing comes after it.
LEMMA ReportStep == IInv /\ LinesJustified /\ Next => ReportJustified'
<1> SUFFICES ASSUME IInv, LinesJustified, Next, pc' = "done" PROVE ReportJustified'
  BY DEF ReportJustified
<1>0. UNCHANGED prog
  BY ProgFixed
<1>1. Report
  BY DEF Next, CollectSensitive, MarkSensitive, Pop, Skip, Crash, AtLink, VisitBranch,
         VisitStore, VisitLoad, VisitOther, Visit, EndOfLinks
<1>2. UNCHANGED <<flag, allocaLine>>
  BY <1>1, OtherSteps
<1>3. \A e \in report' : prog.func[e[2]] \in SensitiveFunctions
  BY <1>1 DEF Report, AllocasOf
<1>4. ASSUME NEW a \in Nodes, prog.func[a] \in SensitiveFunctions
      PROVE  \/ Listed(a)' = {} /\ ~MustBeTainted(a)
             \/ \E from \in 0..AllocaMax :
                   /\ TaintedFrom(a, from)
                   /\ Listed(a)' = {l \in ReportedLines(prog.func[a]) : from <= l}
  <2>1. \A l \in ReportedLines(prog.func[a]) : l \in Nat /\ l < AllocaMax
    BY ProgramFacts DEF IInv, Bookkeeping, ReportedLines
  <2>2. CASE a \in DOMAIN allocaLine /\ allocaLine[a] < AllocaMax
    <3>1. PICK from : from = allocaLine[a]
      OBVIOUS
    <3>2. TaintedFrom(a, from) /\ from \in 0..AllocaMax
      BY <2>2, <3>1, ConstantsAssumption DEF LinesJustified, IInv, TypeOK
    <3> QED
      BY <1>1, <1>4, <2>2, <3>1, <3>2, ListedLines
  <2>3. CASE ~(a \in DOMAIN allocaLine /\ allocaLine[a] < AllocaMax)
    <3>1. Listed(a)' = {}
      <4>1. AllocaMax \in Nat /\ (a \in DOMAIN allocaLine => allocaLine[a] \in 0..AllocaMax)
        BY ConstantsAssumption DEF IInv, TypeOK
      <4> QED
        BY <1>1, <1>4, <2>1, <2>3, <4>1, ListedLines
    <3>2. a \notin Sensitive
      BY <1>1, <2>3 DEF LinesJustified, Report
    <3>3. ~(\E s \in flag : Kind(s) = "store" /\ Ptr(s) = a)
      <4>1. NoNode \notin Nodes /\ AllocaMax \in Nat
        BY ConstantsAssumption
      <4> QED
        BY <2>3, <4>1 DEF IInv, StoresTaint, AccessesAlloca, Lookup
    <3> QED
      BY <3>1, <3>2, <3>3 DEF MustBeTainted
  <2> QED
    BY <2>2, <2>3
<1>5. SensitiveFunctions' = SensitiveFunctions
  BY <1>0 DEF SensitiveFunctions, Sensitive
<1>6. \A a : /\ MustBeTainted(a)' <=> MustBeTainted(a)
             /\ \A from : TaintedFrom(a, from) => TaintedFrom(a, from)'
             /\ ReportedLines(prog.func[a])' = ReportedLines(prog.func[a])
  <2>1. \A a, from : TaintedFrom(a, from) => TaintedFrom(a, from)'
    BY <1>0, <1>2, ReasonStable
  <2> QED
    BY <1>0, <1>2, <2>1 DEF MustBeTainted, Sensitive, Kind, Ptr, ReportedLines, Line
<1>7. /\ \A e \in report' : prog'.func[e[2]] \in SensitiveFunctions'
      /\ \A a \in Nodes : prog'.func[a] \in SensitiveFunctions' =>
             \/ Listed(a)' = {} /\ ~MustBeTainted(a)'
             \/ \E from \in 0..AllocaMax :
                   /\ TaintedFrom(a, from)'
                   /\ Listed(a)' = {l \in ReportedLines(prog.func[a])' : from <= l}
  BY <1>0, <1>3, <1>4, <1>5, <1>6
<1> QED
  BY <1>7 DEF ReportJustified

\* The report is exact: an alloca of a function with an annotated one is on no line,
\* and then it is not annotated and no reached store writes it, or on all printed
\* lines from one on that is its own, a reached defining store's, or 0 if untracked.
THEOREM ReportIsJustified == Spec => []ReportJustified
<1>1. Init => LinesJustified /\ ReportJustified
  BY DEF Init, LinesJustified, ReportJustified
<1>2. LinesJustified /\ ReportJustified /\ UNCHANGED vars
        => LinesJustified' /\ ReportJustified'
  <2>1. UNCHANGED vars => UNCHANGED <<prog, pc, flag, allocaLine, report>>
    BY DEF vars
  <2>2. UNCHANGED <<prog, pc, flag, allocaLine, report>> =>
          /\ \A a, l : TaintedFrom(a, l)' <=> TaintedFrom(a, l)
          /\ \A a : (MustBeTainted(a)' <=> MustBeTainted(a)) /\ Listed(a)' = Listed(a)
          /\ \A f : ReportedLines(f)' = ReportedLines(f)
          /\ SensitiveFunctions' = SensitiveFunctions /\ Sensitive' = Sensitive
          /\ Tracked' = Tracked
    BY DEF TaintedFrom, MustBeTainted, Listed, ReportedLines, SensitiveFunctions, Sensitive,
           Tracked, Defines, Reaches, Followed, Kind, Ptr, Links, Line
  <2> QED
    BY <2>1, <2>2 DEF LinesJustified, ReportJustified
<1>3. IInv /\ LinesJustified /\ ReportJustified /\ [Next]_vars
        => LinesJustified' /\ ReportJustified'
  BY <1>2, LinesJustifiedStep, ReportStep
<1> QED
  BY <1>1, <1>3, Invariance, PTL DEF Spec
=============================================================================
