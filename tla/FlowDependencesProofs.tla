----------------------- MODULE FlowDependencesProofs -----------------------
(***************************************************************************)
(* Proofs about FlowDependences, for any functions, any client and any limit *)
(* on the scans.  The invariant is AnalysisOK, built in parts: the function   *)
(* and the local cache with its reverse map, which need no knowledge of what  *)
(* a scan finds; the caches of calls, with the query that is resumed; and the *)
(* caches of pointers, with the stack of calls that fills them.  Each part    *)
(* has a lemma for every operation that touches it.  First come lemmas about  *)
(* the operators FlowDependences is built from: what the helpers on sequences *)
(* return, where an instruction is before and after another one is removed,   *)
(* what a scan of a block can answer, and what sorting a cache or setting one *)
(* of its results does to it.  Last, with what a result that is kept says of   *)
(* the instructions that are there now (FreshOK), the steps of the analysis    *)
(* are those of the abstract specification.                                   *)
(***************************************************************************)
EXTENDS FlowDependences, FiniteSetTheorems, SequenceTheorems, WellFoundedInduction, TLAPS

-----------------------------------------------------------------------------
(***************************************************************************)
(* Numbers and sequences.                                                     *)
(***************************************************************************)

\* A set of numbers that is not empty has a least one.
LEMMA LeastNumber ==
    ASSUME NEW T, T \subseteq Nat, T # {}
    PROVE  \E m \in T : \A n \in T : m <= n
<1>1. IsWellFoundedOn(OpToRel(<, Nat), Nat)
  BY NatLessThanWellFounded
<1>2. PICK m \in T : \A n \in T : ~ (<<n, m>> \in OpToRel(<, Nat))
  BY <1>1, WFMin, Zenon
<1>3. \A n \in Nat : n < m => <<n, m>> \in OpToRel(<, Nat)
  BY DEF OpToRel
<1>4. \A n \in T : ~ (n < m)
  BY <1>2, <1>3, Zenon
<1>5. m \in Nat /\ \A n \in T : m <= n
  BY <1>4
<1> QED BY <1>5

\* One that is bounded has a greatest.
LEMMA GreatestNumber ==
    ASSUME NEW T, NEW k \in Nat, T \subseteq 0..k, T # {}
    PROVE  \E m \in T : \A n \in T : n <= m
<1> DEFINE D == {k - n : n \in T}
<1>0. \A n \in T : n \in 0..k /\ k - n \in Nat
  OBVIOUS
<1>1. D \subseteq Nat /\ D # {}
  BY <1>0
<1>2. PICK d \in D : \A c \in D : d <= c
  BY <1>1, LeastNumber
<1>3. PICK m \in T : d = k - m
  OBVIOUS
<1>4. \A n \in T : k - n \in D
  OBVIOUS
<1> HIDE DEF D
<1>5. \A n \in T : k - m <= k - n
  BY <1>2, <1>3, <1>4
<1> QED BY <1>0, <1>5

LEMMA RemoveAtProperties ==
    ASSUME NEW S, NEW s \in Seq(S), NEW k \in 1..Len(s)
    PROVE  /\ RemoveAt(s, k) \in Seq(S)
           /\ Len(RemoveAt(s, k)) = Len(s) - 1
           /\ \A j \in 1..Len(s) - 1 : RemoveAt(s, k)[j] = IF j < k THEN s[j] ELSE s[j + 1]
<1> DEFINE left == SubSeq(s, 1, k - 1)
           right == SubSeq(s, k + 1, Len(s))
<1>0. Len(s) \in Nat /\ \A j \in 1..Len(s) : s[j] \in S
  BY LenProperties, ElementOfSeq
<1>1. /\ left \in Seq(S) /\ Len(left) = k - 1
      /\ \A j \in 1..k - 1 : left[j] = s[j]
  <2>1. \A j \in 1..k - 1 : s[j] \in S
    BY <1>0
  <2> QED BY <1>0, <2>1, SubSeqProperties
<1>2. /\ right \in Seq(S) /\ Len(right) = Len(s) - k
      /\ \A j \in 1..Len(s) - k : right[j] = s[k + j]
  <2>1. \A j \in k + 1..Len(s) : s[j] \in S
    BY <1>0
  <2>2. /\ right \in Seq(S)
        /\ Len(right) = IF k + 1 <= Len(s) THEN Len(s) - (k + 1) + 1 ELSE 0
        /\ \A j \in 1..Len(s) - (k + 1) + 1 : right[j] = s[k + 1 + j - 1]
    BY <1>0, <2>1, SubSeqProperties
  <2> QED BY <1>0, <2>2
<1> HIDE DEF left, right
<1>3. /\ left \o right \in Seq(S)
      /\ Len(left \o right) = Len(s) - 1
      /\ \A j \in 1..Len(s) - 1 :
            (left \o right)[j] = IF j <= k - 1 THEN left[j] ELSE right[j - (k - 1)]
  <2>1. /\ left \o right \in Seq(S)
        /\ Len(left \o right) = Len(left) + Len(right)
        /\ \A j \in 1..Len(left) + Len(right) :
              (left \o right)[j] = IF j <= Len(left) THEN left[j] ELSE right[j - Len(left)]
    BY <1>1, <1>2, ConcatProperties
  <2> QED BY <1>0, <1>1, <1>2, <2>1
<1>4. RemoveAt(s, k) = left \o right
  BY DEF RemoveAt, left, right
<1>5. ASSUME NEW j \in 1..Len(s) - 1
      PROVE  (left \o right)[j] = IF j < k THEN s[j] ELSE s[j + 1]
  <2>1. CASE j < k
    BY <1>0, <1>1, <1>3, <2>1
  <2>2. CASE ~(j < k)
    <3>1. j - (k - 1) \in 1..Len(s) - k /\ k + (j - (k - 1)) = j + 1
      BY <1>0, <2>2
    <3>2. right[j - (k - 1)] = s[j + 1]
      BY <1>2, <3>1
    <3> QED BY <1>0, <1>3, <2>2, <3>2
  <2> QED BY <2>1, <2>2
<1> QED BY <1>3, <1>4, <1>5

LEMMA InsertAtProperties ==
    ASSUME NEW S, NEW s \in Seq(S), NEW k \in 1..Len(s) + 1, NEW e \in S
    PROVE  /\ InsertAt(s, k, e) \in Seq(S)
           /\ Len(InsertAt(s, k, e)) = Len(s) + 1
           /\ \A j \in 1..Len(s) + 1 :
                 InsertAt(s, k, e)[j] = IF j < k THEN s[j] ELSE IF j = k THEN e ELSE s[j - 1]
<1> DEFINE left == SubSeq(s, 1, k - 1)
           right == SubSeq(s, k, Len(s))
<1>0. Len(s) \in Nat /\ \A j \in 1..Len(s) : s[j] \in S
  BY LenProperties, ElementOfSeq
<1>1. /\ left \in Seq(S) /\ Len(left) = k - 1
      /\ \A j \in 1..k - 1 : left[j] = s[j]
  <2>1. \A j \in 1..k - 1 : s[j] \in S
    BY <1>0
  <2> QED BY <1>0, <2>1, SubSeqProperties
<1>2. /\ right \in Seq(S) /\ Len(right) = Len(s) - k + 1
      /\ \A j \in 1..Len(s) - k + 1 : right[j] = s[k + j - 1]
  <2>1. \A j \in k..Len(s) : s[j] \in S
    BY <1>0
  <2>2. /\ right \in Seq(S)
        /\ Len(right) = IF k <= Len(s) THEN Len(s) - k + 1 ELSE 0
        /\ \A j \in 1..Len(s) - k + 1 : right[j] = s[k + j - 1]
    BY <1>0, <2>1, SubSeqProperties
  <2> QED BY <1>0, <2>2
<1> HIDE DEF left, right
<1> DEFINE begin == left \o <<e>>
<1>3. /\ begin \in Seq(S) /\ Len(begin) = k
      /\ \A j \in 1..k : begin[j] = IF j < k THEN s[j] ELSE e
  <2>1. <<e>> \in Seq(S) /\ Len(<<e>>) = 1 /\ <<e>>[1] = e
    OBVIOUS
  <2>2. /\ begin \in Seq(S)
        /\ Len(begin) = Len(left) + Len(<<e>>)
        /\ \A j \in 1..Len(left) + Len(<<e>>) :
              begin[j] = IF j <= Len(left) THEN left[j] ELSE <<e>>[j - Len(left)]
    BY <1>1, <2>1, ConcatProperties
  <2> QED BY <1>0, <1>1, <2>1, <2>2
<1> HIDE DEF begin
<1>4. /\ begin \o right \in Seq(S)
      /\ Len(begin \o right) = Len(s) + 1
      /\ \A j \in 1..Len(s) + 1 :
            (begin \o right)[j] = IF j <= k THEN begin[j] ELSE right[j - k]
  <2>1. /\ begin \o right \in Seq(S)
        /\ Len(begin \o right) = Len(begin) + Len(right)
        /\ \A j \in 1..Len(begin) + Len(right) :
              (begin \o right)[j] = IF j <= Len(begin) THEN begin[j] ELSE right[j - Len(begin)]
    BY <1>2, <1>3, ConcatProperties
  <2> QED BY <1>0, <1>2, <1>3, <2>1
<1>5. InsertAt(s, k, e) = begin \o right
  BY DEF InsertAt, left, right, begin
<1>6. ASSUME NEW j \in 1..Len(s) + 1
      PROVE  (begin \o right)[j] = IF j < k THEN s[j] ELSE IF j = k THEN e ELSE s[j - 1]
  <2>1. CASE j <= k
    BY <1>0, <1>3, <1>4, <2>1
  <2>2. CASE ~(j <= k)
    <3>1. j - k \in 1..Len(s) - k + 1 /\ k + (j - k) - 1 = j - 1
      BY <1>0, <2>2
    <3>2. right[j - k] = s[j - 1]
      BY <1>2, <3>1
    <3> QED BY <1>0, <1>4, <2>2, <3>2
  <2> QED BY <2>1, <2>2
<1> QED BY <1>4, <1>5, <1>6

LEMMA FrontProperties ==
    ASSUME NEW S, NEW s \in Seq(S), s # <<>>
    PROVE  /\ Front(s) \in Seq(S)
           /\ Len(s) \in Nat \ {0}
           /\ Len(Front(s)) = Len(s) - 1
           /\ \A j \in 1..Len(s) - 1 : Front(s)[j] = s[j]
           /\ Last(s) = s[Len(s)] /\ s[Len(s)] \in S
<1>0. Len(s) \in Nat \ {0} /\ \A j \in 1..Len(s) : s[j] \in S
  BY LenProperties, ElementOfSeq, EmptySeq
<1>1. \A j \in 1..Len(s) - 1 : s[j] \in S
  BY <1>0
<1>2. /\ SubSeq(s, 1, Len(s) - 1) \in Seq(S)
      /\ Len(SubSeq(s, 1, Len(s) - 1)) = IF 1 <= Len(s) - 1 THEN Len(s) - 1 - 1 + 1 ELSE 0
      /\ \A j \in 1..Len(s) - 1 - 1 + 1 : SubSeq(s, 1, Len(s) - 1)[j] = s[1 + j - 1]
  BY <1>0, <1>1, SubSeqProperties
<1>3. Front(s) = SubSeq(s, 1, Len(s) - 1) /\ Last(s) = s[Len(s)]
  BY DEF Front, Last
<1>4. /\ Len(SubSeq(s, 1, Len(s) - 1)) = Len(s) - 1
      /\ \A j \in 1..Len(s) - 1 : SubSeq(s, 1, Len(s) - 1)[j] = s[j]
  <2>1. Len(s) - 1 - 1 + 1 = Len(s) - 1 /\ \A j \in 1..Len(s) - 1 : 1 + j - 1 = j
    BY <1>0
  <2> QED BY <1>0, <1>2, <2>1
<1> QED BY <1>0, <1>2, <1>3, <1>4

LEMMA PrefixProperties ==
    ASSUME NEW S, NEW s \in Seq(S), NEW k \in 0..Len(s)
    PROVE  /\ SubSeq(s, 1, k) \in Seq(S)
           /\ Len(SubSeq(s, 1, k)) = k
           /\ \A j \in 1..k : SubSeq(s, 1, k)[j] = s[j]
<1>0. Len(s) \in Nat /\ \A j \in 1..Len(s) : s[j] \in S
  BY LenProperties, ElementOfSeq
<1>1. \A j \in 1..k : s[j] \in S
  BY <1>0
<1>2. /\ SubSeq(s, 1, k) \in Seq(S)
      /\ Len(SubSeq(s, 1, k)) = IF 1 <= k THEN k - 1 + 1 ELSE 0
      /\ \A j \in 1..k - 1 + 1 : SubSeq(s, 1, k)[j] = s[1 + j - 1]
  BY <1>0, <1>1, SubSeqProperties
<1> QED BY <1>0, <1>2

-----------------------------------------------------------------------------
(***************************************************************************)
(* Where instructions are.  Each is at one place, and stays in its block.     *)
(***************************************************************************)
OncePlaced ==
    \A b, c \in Blocks : \A m \in DOMAIN insts[b], n \in DOMAIN insts[c] :
        insts[b][m] = insts[c][n] => b = c /\ m = n
FunctionOK ==
    /\ fn \in Functions
    /\ insts \in [Blocks -> Seq(Instructions(fn))]
    /\ OncePlaced

Placed ==
    /\ \A i \in Present :
          /\ BlockOf(i) \in Blocks
          /\ PositionOf(i) \in 1..Len(insts[BlockOf(i)])
          /\ insts[BlockOf(i)][PositionOf(i)] = i
          /\ i \in Instructions(fn) /\ i \notin NoInstructions
    /\ \A b \in Blocks : \A n \in 1..Len(insts[b]) :
          /\ insts[b][n] \in Present
          /\ BlockOf(insts[b][n]) = b
          /\ PositionOf(insts[b][n]) = n

LEMMA PlacesOfPresent == FunctionOK => Placed
<1> SUFFICES ASSUME FunctionOK
             PROVE  Placed
  OBVIOUS
<1>1. \A b \in Blocks : insts[b] \in Seq(Instructions(fn)) /\ DOMAIN insts[b] = 1..Len(insts[b])
  BY LenProperties DEF FunctionOK
<1>2. ASSUME NEW i \in Present
      PROVE  /\ BlockOf(i) \in Blocks
             /\ PositionOf(i) \in 1..Len(insts[BlockOf(i)])
             /\ insts[BlockOf(i)][PositionOf(i)] = i
             /\ i \in Instructions(fn) /\ i \notin NoInstructions
  <2>1. PICK b \in Blocks : i \in ToSet(insts[b])
    BY DEF Present
  <2>2. BlockOf(i) \in Blocks /\ i \in ToSet(insts[BlockOf(i)])
    BY <2>1 DEF BlockOf
  <2>3. \E n \in DOMAIN insts[BlockOf(i)] : insts[BlockOf(i)][n] = i
    BY <2>2 DEF ToSet
  <2>4. PositionOf(i) \in DOMAIN insts[BlockOf(i)] /\ insts[BlockOf(i)][PositionOf(i)] = i
    BY <2>3 DEF PositionOf
  <2>5. i \in Instructions(fn)
    BY <1>1, <2>2, <2>4, ElementOfSeq
  <2>6. Instructions(fn) \intersect NoInstructions = {}
    BY FunctionsAssumption DEF FunctionOK
  <2> QED BY <1>1, <2>2, <2>4, <2>5, <2>6
<1>3. ASSUME NEW b \in Blocks, NEW n \in 1..Len(insts[b])
      PROVE  /\ insts[b][n] \in Present
             /\ BlockOf(insts[b][n]) = b
             /\ PositionOf(insts[b][n]) = n
  <2>1. insts[b][n] \in Present
    BY <1>1 DEF Present, ToSet
  <2>2. /\ BlockOf(insts[b][n]) \in Blocks
        /\ PositionOf(insts[b][n]) \in 1..Len(insts[BlockOf(insts[b][n])])
        /\ insts[BlockOf(insts[b][n])][PositionOf(insts[b][n])] = insts[b][n]
    BY <1>2, <2>1
  <2> QED BY <1>1, <2>1, <2>2 DEF FunctionOK, OncePlaced
<1> QED BY <1>2, <1>3 DEF Placed

EachPlaced == \A b \in Blocks : \A i : i \in Each(b) <=> i \in Present /\ BlockOf(i) = b

LEMMA InBlock == FunctionOK => EachPlaced
<1> SUFFICES ASSUME FunctionOK, NEW b \in Blocks, NEW i
             PROVE  i \in Each(b) <=> i \in Present /\ BlockOf(i) = b
  BY DEF EachPlaced
<1>1. DOMAIN insts[b] = 1..Len(insts[b])
  BY LenProperties DEF FunctionOK
<1>2. i \in Each(b) <=> \E n \in 1..Len(insts[b]) : insts[b][n] = i
  BY <1>1 DEF Each, ToSet
<1> QED BY <1>2, PlacesOfPresent DEF Placed

LEMMA InitFunction == Init => FunctionOK
<1> SUFFICES ASSUME Init
             PROVE  FunctionOK
  OBVIOUS
<1>1. fn \in Functions /\ insts = fn.insts
  BY DEF Init
<1> QED BY <1>1, FunctionsAssumption DEF FunctionOK, OncePlaced, Blocks

(***************************************************************************)
(* A removal: the instructions after i in its block move down by one.         *)
(***************************************************************************)
Removed(i) ==
    /\ i \in Present
    /\ fn' = fn
    /\ insts' = [insts EXCEPT ![BlockOf(i)] = RemoveAt(@, PositionOf(i))]

LEMMA RemovedBlocks ==
    ASSUME FunctionOK, NEW i, Removed(i)
    PROVE  /\ Blocks' = Blocks
           /\ \A b \in Blocks \ {BlockOf(i)} : insts'[b] = insts[b]
           /\ insts' \in [Blocks -> Seq(Instructions(fn))]
           /\ Len(insts'[BlockOf(i)]) = Len(insts[BlockOf(i)]) - 1
           /\ \A n \in 1..Len(insts[BlockOf(i)]) - 1 :
                 insts'[BlockOf(i)][n] = IF n < PositionOf(i) THEN insts[BlockOf(i)][n]
                                         ELSE insts[BlockOf(i)][n + 1]
<1> DEFINE b == BlockOf(i)
           k == PositionOf(i)
<1>1. b \in Blocks /\ k \in 1..Len(insts[b]) /\ insts[b] \in Seq(Instructions(fn))
  BY PlacesOfPresent DEF FunctionOK, Placed, Removed
<1>2. insts' = [insts EXCEPT ![b] = RemoveAt(insts[b], k)] /\ fn' = fn
  BY DEF Removed
<1> HIDE DEF b, k
<1>3. /\ RemoveAt(insts[b], k) \in Seq(Instructions(fn))
      /\ Len(RemoveAt(insts[b], k)) = Len(insts[b]) - 1
      /\ \A j \in 1..Len(insts[b]) - 1 :
            RemoveAt(insts[b], k)[j] = IF j < k THEN insts[b][j] ELSE insts[b][j + 1]
  BY <1>1, RemoveAtProperties
<1>4. /\ Blocks' = Blocks
      /\ \A c \in Blocks \ {b} : insts'[c] = insts[c]
      /\ insts' \in [Blocks -> Seq(Instructions(fn))]
      /\ Len(insts'[b]) = Len(insts[b]) - 1
      /\ \A n \in 1..Len(insts[b]) - 1 :
            insts'[b][n] = IF n < k THEN insts[b][n] ELSE insts[b][n + 1]
  BY <1>1, <1>2, <1>3 DEF FunctionOK, Blocks
<1> QED BY <1>4 DEF b, k

\* where what is at position n of block b was before i was removed
OldPosition(i, b, n) == IF b = BlockOf(i) /\ n >= PositionOf(i) THEN n + 1 ELSE n

LEMMA RemovedFunction ==
    ASSUME FunctionOK, NEW i, Removed(i)
    PROVE  /\ FunctionOK'
           /\ \A b \in Blocks : \A n \in 1..Len(insts'[b]) :
                 /\ OldPosition(i, b, n) \in 1..Len(insts[b])
                 /\ insts'[b][n] = insts[b][OldPosition(i, b, n)]
                 /\ insts'[b][n] # i
<1> DEFINE c == BlockOf(i)
           k == PositionOf(i)
           l == Len(insts[c])
<1>1. c \in Blocks /\ k \in 1..l /\ insts[c][k] = i /\ l \in Nat
      /\ \A b \in Blocks : insts[b] \in Seq(Instructions(fn)) /\ Len(insts[b]) \in Nat
  BY PlacesOfPresent, LenProperties DEF FunctionOK, Placed, Removed
<1>2. /\ Blocks' = Blocks
      /\ \A b \in Blocks \ {c} : insts'[b] = insts[b]
      /\ insts' \in [Blocks -> Seq(Instructions(fn))]
      /\ Len(insts'[c]) = l - 1
      /\ \A n \in 1..l - 1 : insts'[c][n] = IF n < k THEN insts[c][n] ELSE insts[c][n + 1]
  BY RemovedBlocks
<1>3. \A b, n : OldPosition(i, b, n) = IF b = c /\ n >= k THEN n + 1 ELSE n
  BY DEF OldPosition
<1>4. \A b \in Blocks : \A n \in 1..Len(insts[b]) : insts[b][n] = i => b = c /\ n = k
  BY PlacesOfPresent DEF Placed
<1> HIDE DEF c, k, l
<1>5. ASSUME NEW b \in Blocks, NEW n \in 1..Len(insts'[b])
      PROVE  /\ OldPosition(i, b, n) \in 1..Len(insts[b])
             /\ insts'[b][n] = insts[b][OldPosition(i, b, n)]
             /\ insts'[b][n] # i
  <2>1. CASE b # c
    <3>1. insts'[b] = insts[b] /\ OldPosition(i, b, n) = n
      BY <1>2, <1>3, <2>1
    <3> QED BY <1>4, <2>1, <3>1
  <2>2. CASE b = c /\ n < k
    <3>1. n \in 1..l - 1 /\ n \in 1..l /\ ~(n >= k) /\ n # k
      BY <1>1, <1>2, <2>2
    <3>2. insts'[b][n] = insts[b][n] /\ OldPosition(i, b, n) = n /\ n \in 1..Len(insts[b])
      BY <1>2, <1>3, <2>2, <3>1 DEF l
    <3> QED BY <1>4, <3>1, <3>2
  <2>3. CASE b = c /\ ~(n < k)
    <3>1. n \in 1..l - 1 /\ n + 1 \in 1..l /\ n >= k /\ n + 1 # k
      BY <1>1, <1>2, <2>3
    <3>2. insts'[b][n] = insts[b][n + 1] /\ OldPosition(i, b, n) = n + 1 /\ n + 1 \in 1..Len(insts[b])
      BY <1>2, <1>3, <2>3, <3>1 DEF l
    <3> QED BY <1>4, <3>1, <3>2
  <2> QED BY <2>1, <2>2, <2>3
<1>6. ASSUME NEW b \in Blocks, NEW d \in Blocks, NEW m \in 1..Len(insts'[b]), NEW n \in 1..Len(insts'[d]),
             insts'[b][m] = insts'[d][n]
      PROVE  b = d /\ m = n
  <2>1. insts'[b][m] = insts[b][OldPosition(i, b, m)] /\ insts'[d][n] = insts[d][OldPosition(i, d, n)]
    BY <1>5
  <2>2. b = d /\ OldPosition(i, b, m) = OldPosition(i, d, n)
    <3>1. /\ BlockOf(insts[b][OldPosition(i, b, m)]) = b
          /\ PositionOf(insts[b][OldPosition(i, b, m)]) = OldPosition(i, b, m)
          /\ BlockOf(insts[d][OldPosition(i, d, n)]) = d
          /\ PositionOf(insts[d][OldPosition(i, d, n)]) = OldPosition(i, d, n)
      BY <1>5, PlacesOfPresent DEF Placed
    <3> QED BY <1>6, <2>1, <3>1
  <2>3. Len(insts'[b]) \in Nat /\ Len(insts'[d]) \in Nat
    BY <1>2, LenProperties
  <2> QED BY <1>1, <1>3, <2>2, <2>3
<1>7. \A b \in Blocks : DOMAIN insts'[b] = 1..Len(insts'[b])
  BY <1>2, LenProperties
<1>8. OncePlaced'
  BY <1>2, <1>6, <1>7 DEF OncePlaced
<1>9. FunctionOK'
  BY <1>2, <1>8 DEF FunctionOK, Removed
<1> QED BY <1>5, <1>9

LEMMA RemovedPlaces ==
    ASSUME FunctionOK, NEW i, Removed(i)
    PROVE  /\ Present' = Present \ {i}
           /\ Gone' = Gone \union {i}
           /\ \A j \in Present \ {i} :
                 /\ BlockOf(j)' = BlockOf(j)
                 /\ PositionOf(j) = OldPosition(i, BlockOf(j), PositionOf(j)')
<1>1. Placed /\ FunctionOK'
  BY RemovedFunction, PlacesOfPresent
<1>2. Placed'
  BY <1>1, PlacesOfPresent, PTL
<1>3. /\ Blocks' = Blocks
      /\ \A b \in Blocks : \A n \in 1..Len(insts'[b]) :
            /\ OldPosition(i, b, n) \in 1..Len(insts[b])
            /\ insts'[b][n] = insts[b][OldPosition(i, b, n)]
            /\ insts'[b][n] # i
  BY RemovedFunction, RemovedBlocks
<1>4. ASSUME NEW j \in Present'
      PROVE  /\ j \in Present \ {i}
             /\ BlockOf(j)' = BlockOf(j)
             /\ PositionOf(j) = OldPosition(i, BlockOf(j), PositionOf(j)')
  <2>1. /\ BlockOf(j)' \in Blocks
        /\ PositionOf(j)' \in 1..Len(insts'[BlockOf(j)'])
        /\ insts'[BlockOf(j)'][PositionOf(j)'] = j
    BY <1>2, <1>3 DEF Placed
  <2> QED BY <1>1, <1>3, <2>1 DEF Placed
<1>5. ASSUME NEW j \in Present \ {i}
      PROVE  j \in Present'
  <2> DEFINE c == BlockOf(i)
             k == PositionOf(i)
             b == BlockOf(j)
             n == PositionOf(j)
             m == IF b = c /\ n > k THEN n - 1 ELSE n
  <2>1. /\ b \in Blocks /\ n \in 1..Len(insts[b]) /\ insts[b][n] = j
        /\ k \in 1..Len(insts[c]) /\ c \in Blocks /\ insts[c][k] = i
    BY <1>1 DEF Placed, Removed
  <2>2. Len(insts[c]) \in Nat
    BY <2>1, LenProperties DEF FunctionOK
  <2>3. b = c => n # k
    BY <2>1
  <2>4. /\ \A d \in Blocks \ {c} : insts'[d] = insts[d]
        /\ Len(insts'[c]) = Len(insts[c]) - 1
        /\ \A p \in 1..Len(insts[c]) - 1 : insts'[c][p] = IF p < k THEN insts[c][p] ELSE insts[c][p + 1]
    BY RemovedBlocks
  <2> HIDE DEF b, n, c, k
  <2>5. m \in 1..Len(insts'[b]) /\ insts'[b][m] = j
    <3>1. CASE b # c
      BY <2>1, <2>4, <3>1
    <3>2. CASE b = c /\ n > k
      <4>1. n - 1 \in 1..Len(insts[c]) - 1 /\ ~(n - 1 < k) /\ n - 1 + 1 = n
        BY <2>1, <2>2, <3>2
      <4> QED BY <2>1, <2>4, <3>2, <4>1
    <3>3. CASE b = c /\ ~(n > k)
      <4>1. n \in 1..Len(insts[c]) - 1 /\ n < k
        BY <2>1, <2>2, <2>3, <3>3
      <4> QED BY <2>1, <2>4, <3>3, <4>1
    <3> QED BY <3>1, <3>2, <3>3
  <2> QED BY <1>2, <1>3, <2>1, <2>5 DEF Placed
<1>6. Present' = Present \ {i}
  BY <1>4, <1>5
<1>7. i \in Instructions(fn) /\ fn' = fn
  BY <1>1 DEF Placed, Removed
<1>8. Gone' = Gone \union {i}
  BY <1>6, <1>7 DEF Gone, Removed
<1> QED BY <1>4, <1>6, <1>8

-----------------------------------------------------------------------------
(***************************************************************************)
(* What a scan can answer: a definition or a clobber in the block it scans,   *)
(* or one of the constants.                                                   *)
(***************************************************************************)
FoundIn(b) == [type : {"Def", "Clobber"}, pointer : Each(b)]
Constants == {NonLocal, NonFuncLocal, Unknown}
ResultsIn(b) == [type : {"Def", "Clobber", "Invalid"}, pointer : Each(b) \union {Null}] \union Constants
Decisions == {"Pass", "Def", "Clobber"}

LEMMA PointerDecision ==
    ASSUME NEW i, NEW loc, NEW isLoad \in BOOLEAN, NEW invariantLoad
    PROVE  OnPointer(i, loc, isLoad, invariantLoad) \in Decisions
<1>1. OnModRef(i, loc, isLoad) \in Decisions
  BY DEF OnModRef, Decisions
<1>2. OnLoad(i, loc, isLoad) \in Decisions
  BY DEF OnLoad, Decisions
<1>3. OnStore(i, loc, invariantLoad) \in Decisions
  BY DEF OnStore, Decisions
<1>4. OnAllocation(i, loc, isLoad) \in Decisions
  BY <1>1 DEF OnAllocation, Decisions
<1> QED BY <1>1, <1>2, <1>3, <1>4 DEF OnPointer, Decisions

LEMMA CallSiteDecision ==
    ASSUME NEW i, NEW c
    PROVE  OnCallSite(i, c) \in Decisions
BY DEF OnCallSite, Decisions

LEMMA LastStopIsLast ==
    ASSUME NEW b, NEW n \in Nat, NEW on, Stops(b, n, on) # {}
    PROVE  /\ LastStop(b, n, on) \in Stops(b, n, on)
           /\ \A j \in Stops(b, n, on) : j <= LastStop(b, n, on)
<1>1. Stops(b, n, on) \subseteq 0..n
  BY DEF Stops
<1>2. \E k \in Stops(b, n, on) : \A j \in Stops(b, n, on) : j <= k
  BY <1>1, GreatestNumber
<1> QED BY <1>2 DEF LastStop

LEMMA UnlimitedResult ==
    ASSUME FunctionOK, NEW b \in Blocks, NEW n \in 0..Len(insts[b]), NEW on,
           \A i \in Each(b) : on[i] \in Decisions
    PROVE  Unlimited(b, n, on) \in FoundIn(b) \union {NonLocal, NonFuncLocal}
<1>1. CASE Stops(b, n, on) = {}
  BY <1>1 DEF Unlimited, AtStart
<1>2. CASE Stops(b, n, on) # {}
  <2> DEFINE k == LastStop(b, n, on)
             i == insts[b][k]
  <2>1. n \in Nat /\ n <= Len(insts[b]) /\ DOMAIN insts[b] = 1..Len(insts[b])
    BY LenProperties DEF FunctionOK
  <2>2. k \in 1..n /\ on[i] # "Pass"
    BY <1>2, <2>1, LastStopIsLast DEF Stops
  <2>3. i \in Each(b)
    BY <2>1, <2>2 DEF Each, ToSet
  <2>4. on[i] \in {"Def", "Clobber"}
    BY <2>2, <2>3 DEF Decisions
  <2>5. Unlimited(b, n, on) = [type |-> on[i], pointer |-> i]
    BY <1>2 DEF Unlimited
  <2> QED BY <2>3, <2>4, <2>5 DEF FoundIn
<1> QED BY <1>1, <1>2

LEMMA ScanResult ==
    ASSUME FunctionOK, NEW b \in Blocks, NEW n \in 0..Len(insts[b]), NEW on, NEW counted,
           \A i \in Each(b) : on[i] \in Decisions
    PROVE  Scan(b, n, on, counted) \in FoundIn(b) \union Constants
BY UnlimitedResult DEF Scan, Constants

LEMMA PointerDependencyResult ==
    ASSUME FunctionOK, NEW b \in Blocks, NEW n \in 0..Len(insts[b]),
           NEW loc, NEW isLoad \in BOOLEAN, NEW invariantLoad
    PROVE  PointerDependency(loc, isLoad, invariantLoad, b, n) \in FoundIn(b) \union Constants
<1>1. \A i \in Each(b) : AsPointer(loc, isLoad, invariantLoad, b)[i] \in Decisions
  BY PointerDecision DEF AsPointer
<1> QED BY <1>1, ScanResult DEF PointerDependency

LEMMA CallSiteDependencyResult ==
    ASSUME FunctionOK, NEW b \in Blocks, NEW n \in 0..Len(insts[b]), NEW c
    PROVE  CallSiteDependency(c, b, n) \in FoundIn(b) \union Constants
<1>1. \A i \in Each(b) : AsCallSite(c, b)[i] \in Decisions
  BY CallSiteDecision DEF AsCallSite
<1> QED BY <1>1, ScanResult DEF CallSiteDependency

LEMMA LocalDependencyResult ==
    ASSUME FunctionOK, NEW q \in Present, NEW n \in 0..Len(insts[BlockOf(q)])
    PROVE  LocalDependency(q, n) \in FoundIn(BlockOf(q)) \union Constants
<1>1. BlockOf(q) \in Blocks
  BY PlacesOfPresent DEF Placed
<1>2. IsLoadQuery(q) \in BOOLEAN
  BY DEF IsLoadQuery
<1>3. /\ PointerDependency(fn.loc[q], IsLoadQuery(q), IsInvariantLoad(q), BlockOf(q), n)
            \in FoundIn(BlockOf(q)) \union Constants
      /\ CallSiteDependency(q, BlockOf(q), n) \in FoundIn(BlockOf(q)) \union Constants
  BY <1>1, <1>2, PointerDependencyResult, CallSiteDependencyResult
<1>4. AtStart(BlockOf(q)) \in Constants /\ Unknown \in Constants
  BY DEF AtStart, Constants
<1> QED BY <1>3, <1>4 DEF LocalDependency

\* A result names an instruction of its block, if it is not one of the constants.
LEMMA ResultInst ==
    ASSUME FunctionOK, NEW b \in Blocks, NEW r \in ResultsIn(b)
    PROVE  /\ IsDirty(r) => GetInst(r) \in Each(b) \union {Null}
           /\ GetInst(r) \in Present => GetInst(r) \in Each(b)
           /\ r.type = "Other" <=> r \in Constants
           /\ r \in Constants => GetInst(r) \notin Instructions(fn) /\ GetInst(r) # Null
           /\ r \notin Constants => GetInst(r) \in Each(b) \union {Null}
<1>1. \A c \in Constants : c.type = "Other" /\ GetInst(c) \in NoInstructions /\ GetInst(c) # Null
  BY FunctionsAssumption DEF Constants, NonLocal, NonFuncLocal, Unknown, GetInst, NoInstructions
<1>2. /\ Instructions(fn) \intersect NoInstructions = {}
      /\ \A i \in Present : i \in Instructions(fn)
  BY FunctionsAssumption, PlacesOfPresent DEF FunctionOK, Placed
<1>3. \A i \in Each(b) : i \in Present
  BY InBlock DEF EachPlaced
<1>4. CASE r \in Constants
  BY <1>1, <1>2, <1>4 DEF IsDirty
<1>5. CASE r \in [type : {"Def", "Clobber", "Invalid"}, pointer : Each(b) \union {Null}]
  <2>1. r.type # "Other" /\ GetInst(r) \in Each(b) \union {Null}
    BY <1>5 DEF GetInst
  <2>2. Null \notin Present
    BY <1>2 DEF NoInstructions
  <2> QED BY <1>1, <1>3, <2>1, <2>2
<1> QED BY <1>4, <1>5 DEF ResultsIn

-----------------------------------------------------------------------------
(***************************************************************************)
(* Results when an instruction is removed: one that does not have it stays a  *)
(* result of its block, and so is the dirty one that has the next.            *)
(***************************************************************************)
LEMMA RemovedEach ==
    ASSUME FunctionOK, NEW i, Removed(i), NEW b \in Blocks
    PROVE  Each(b)' = Each(b) \ {i}
<1>1. /\ FunctionOK' /\ Blocks' = Blocks /\ Present' = Present \ {i}
      /\ \A j \in Present \ {i} : BlockOf(j)' = BlockOf(j)
  BY RemovedFunction, RemovedBlocks, RemovedPlaces
<1>2. EachPlaced /\ EachPlaced'
  BY <1>1, InBlock, PTL
<1> QED BY <1>1, <1>2 DEF EachPlaced

LEMMA NextInBlock ==
    ASSUME FunctionOK, NEW i \in Present
    PROVE  NextOf(i) \in (Each(BlockOf(i)) \ {i}) \union {Null}
<1> DEFINE b == BlockOf(i)
           n == PositionOf(i)
<1>1. Placed /\ b \in Blocks /\ n \in 1..Len(insts[b]) /\ DOMAIN insts[b] = 1..Len(insts[b])
      /\ Len(insts[b]) \in Nat
  BY PlacesOfPresent, LenProperties DEF FunctionOK, Placed
<1>2. CASE n = Len(insts[b])
  BY <1>2 DEF NextOf
<1>3. CASE n # Len(insts[b])
  <2>1. n + 1 \in 1..Len(insts[b]) /\ n + 1 # n
    BY <1>1, <1>3
  <2>2. NextOf(i) = insts[b][n + 1]
    BY <1>3 DEF NextOf
  <2>3. insts[b][n + 1] \in Each(b)
    BY <1>1, <2>1 DEF Each, ToSet
  <2>4. insts[b][n + 1] # i
    BY <1>1, <2>1 DEF Placed
  <2> QED BY <2>2, <2>3, <2>4
<1> QED BY <1>2, <1>3

LEMMA RemovedResults ==
    ASSUME FunctionOK, NEW i, Removed(i), NEW b \in Blocks
    PROVE  /\ \A r \in ResultsIn(b) : GetInst(r) # i => r \in ResultsIn(b)'
           /\ b = BlockOf(i) => GetDirty(NextOf(i)) \in ResultsIn(b)'
<1>1. Each(b)' = Each(b) \ {i}
  BY RemovedEach
<1>2. \A r : r \in ResultsIn(b)' <=>
                \/ r \in [type : {"Def", "Clobber", "Invalid"}, pointer : Each(b)' \union {Null}]
                \/ r \in Constants
  BY DEF ResultsIn, Constants, NonLocal, NonFuncLocal, Unknown
<1>3. ASSUME NEW r \in ResultsIn(b), GetInst(r) # i
      PROVE  r \in ResultsIn(b)'
  BY <1>1, <1>2, <1>3 DEF ResultsIn, GetInst
<1>4. ASSUME b = BlockOf(i)
      PROVE  GetDirty(NextOf(i)) \in ResultsIn(b)'
  <2>1. NextOf(i) \in Each(b)' \union {Null}
    BY <1>1, <1>4, NextInBlock DEF Removed
  <2> QED BY <1>2, <2>1 DEF GetDirty
<1> QED BY <1>3, <1>4

\* What is said of instructions and blocks stays when the function does.
LEMMA SameFunction ==
    ASSUME UNCHANGED <<fn, insts>>
    PROVE  /\ FunctionOK' = FunctionOK
           /\ Blocks' = Blocks /\ Present' = Present /\ Gone' = Gone
           /\ \A b : Each(b)' = Each(b) /\ ResultsIn(b)' = ResultsIn(b)
           /\ \A i : BlockOf(i)' = BlockOf(i) /\ PositionOf(i)' = PositionOf(i)
<1>1. Blocks' = Blocks
  BY DEF Blocks
<1>2. Present' = Present
  BY <1>1 DEF Present
<1>3. Gone' = Gone
  BY <1>2 DEF Gone
<1>4. \A b : Each(b)' = Each(b)
  BY DEF Each
<1>5. \A b : ResultsIn(b)' = ResultsIn(b)
  BY <1>4 DEF ResultsIn, Constants, NonLocal, NonFuncLocal, Unknown
<1>6. \A i : BlockOf(i)' = BlockOf(i)
  BY <1>1 DEF BlockOf
<1>7. \A i : PositionOf(i)' = PositionOf(i)
  BY <1>6 DEF PositionOf
<1>8. FunctionOK' = FunctionOK
  BY <1>1 DEF FunctionOK, OncePlaced
<1> QED BY <1>1, <1>2, <1>3, <1>4, <1>5, <1>6, <1>7, <1>8

-----------------------------------------------------------------------------
(***************************************************************************)
(* Sorting.  A cache is a sequence of entries; a sorting of it has the same   *)
(* entries, and no block twice if it had none twice.                          *)
(***************************************************************************)
Entries == UNION {[bb : {b}, result : ResultsIn(b)] : b \in Blocks}
AddressOf(e) == fn.address[e.bb]
Distinct(info) == \A m, n \in 1..Len(info) : info[m].bb = info[n].bb => m = n
Permutes(new, info) ==
    /\ new \in Seq(Entries) /\ Len(new) = Len(info)
    /\ ToSet(new) = ToSet(info)
    /\ Distinct(info) => Distinct(new)

LEMMA EntryFields ==
    ASSUME FunctionOK, NEW e \in Entries
    PROVE  /\ e.bb \in Blocks /\ e.result \in ResultsIn(e.bb)
           /\ e = [bb |-> e.bb, result |-> e.result]
           /\ AddressOf(e) \in Nat
           /\ \A d \in Entries : /\ Less(e, d) <=> AddressOf(e) < AddressOf(d)
                                 /\ AddressOf(e) = AddressOf(d) => e.bb = d.bb
<1>1. \A d \in Entries : d.bb \in Blocks /\ d.result \in ResultsIn(d.bb)
                           /\ d = [bb |-> d.bb, result |-> d.result]
  BY DEF Entries
<1>2. fn.address \in [Blocks -> Nat] /\ IsInjective(fn.address)
  BY FunctionsAssumption DEF FunctionOK, Blocks
<1>3. \A a, b \in Blocks : fn.address[a] = fn.address[b] => a = b
  BY <1>2 DEF IsInjective
<1> QED BY <1>1, <1>2, <1>3 DEF Less, AddressOf

LEMMA CacheFields ==
    ASSUME FunctionOK, NEW info \in Seq(Entries)
    PROVE  /\ Len(info) \in Nat /\ DOMAIN info = 1..Len(info)
           /\ \A n \in 1..Len(info) : info[n] \in Entries /\ AddressOf(info[n]) \in Nat
           /\ \A m, n \in 1..Len(info) :
                 Less(info[m], info[n]) <=> AddressOf(info[m]) < AddressOf(info[n])
           /\ ToSet(info) = {info[n] : n \in 1..Len(info)}
<1>1. Len(info) \in Nat /\ DOMAIN info = 1..Len(info) /\ \A n \in 1..Len(info) : info[n] \in Entries
  BY LenProperties, ElementOfSeq
<1> QED BY <1>1, EntryFields DEF ToSet

LEMMA SameElements ==
    ASSUME NEW s, NEW t,
           \A k \in DOMAIN s : \E n \in DOMAIN t : s[k] = t[n],
           \A n \in DOMAIN t : \E k \in DOMAIN s : s[k] = t[n]
    PROVE  ToSet(s) = ToSet(t)
<1>1. \A x : x \in ToSet(s) => x \in ToSet(t)
  BY DEF ToSet
<1>2. \A x : x \in ToSet(t) => x \in ToSet(s)
  BY DEF ToSet
<1> QED BY <1>1, <1>2

LEMMA DistinctBlocks ==
    ASSUME FunctionOK, NEW info \in Seq(Entries)
    PROVE  Distinct(info) <=> IsInjective(BlocksIn(info))
<1>1. DOMAIN BlocksIn(info) = 1..Len(info) /\ \A n \in 1..Len(info) : BlocksIn(info)[n] = info[n].bb
  BY CacheFields DEF BlocksIn
<1> QED BY <1>1 DEF Distinct, IsInjective

\* What is sorted step by step is sorted over any distance.
LEMMA SortedThroughout ==
    ASSUME FunctionOK, NEW info \in Seq(Entries), IsSortedInfo(info),
           NEW i \in 1..Len(info), NEW j \in i..Len(info)
    PROVE  AddressOf(info[i]) <= AddressOf(info[j])
<1> DEFINE T == {n \in i..Len(info) : AddressOf(info[n]) < AddressOf(info[i])}
<1>1. /\ Len(info) \in Nat
      /\ \A n \in 1..Len(info) : AddressOf(info[n]) \in Nat
      /\ \A n \in 1..Len(info) - 1 : ~ (AddressOf(info[n + 1]) < AddressOf(info[n]))
  BY CacheFields DEF IsSortedInfo
<1>2. SUFFICES ASSUME T # {}
               PROVE  FALSE
  BY <1>1
<1>3. T \subseteq Nat
  BY <1>1
<1>4. PICK m \in T : \A n \in T : m <= n
  BY <1>2, <1>3, LeastNumber
<1>5. m \in i..Len(info) /\ AddressOf(info[m]) < AddressOf(info[i])
  OBVIOUS
<1>6. m # i
  BY <1>1, <1>5
<1>7. m - 1 \in i..Len(info) /\ m - 1 \in 1..Len(info) - 1 /\ m - 1 + 1 = m
  BY <1>1, <1>5, <1>6
<1>8. m - 1 \notin T
  BY <1>1, <1>4, <1>7
<1>9. ~ (AddressOf(info[m - 1]) < AddressOf(info[i]))
  BY <1>7, <1>8
<1> HIDE DEF T
<1> QED BY <1>1, <1>5, <1>7, <1>9

(***************************************************************************)
(* SortAll: the ranks of the entries are 1 to their number, each taken once.  *)
(***************************************************************************)
Ahead(info, m, n) ==
    \/ AddressOf(info[m]) < AddressOf(info[n])
    \/ AddressOf(info[m]) = AddressOf(info[n]) /\ m <= n

LEMMA RankGrows ==
    ASSUME FunctionOK, NEW info \in Seq(Entries)
    PROVE  /\ \A n \in 1..Len(info) : Rank(info, n) \in 1..Len(info)
           /\ \A m, n \in 1..Len(info) :
                 Ahead(info, m, n) /\ m # n => Rank(info, m) < Rank(info, n)
<1> DEFINE N == 1..Len(info)
           R(n) == {m \in N : Ahead(info, m, n)}
<1>1. /\ Len(info) \in Nat /\ DOMAIN info = N
      /\ \A n \in N : AddressOf(info[n]) \in Nat /\ n \in Nat
      /\ \A m, n \in N : Less(info[m], info[n]) <=> AddressOf(info[m]) < AddressOf(info[n])
  BY CacheFields
<1>2. IsFiniteSet(N) /\ Cardinality(N) = Len(info)
  BY <1>1, FS_Interval
<1>3. ASSUME NEW n \in N
      PROVE  /\ Rank(info, n) = Cardinality(R(n))
             /\ IsFiniteSet(R(n)) /\ n \in R(n)
             /\ Rank(info, n) \in 1..Len(info)
  <2>1. R(n) = {m \in DOMAIN info : \/ Less(info[m], info[n])
                                    \/ ~Less(info[n], info[m]) /\ m <= n}
    BY <1>1 DEF Ahead
  <2>2. R(n) \in SUBSET N /\ n \in R(n)
    BY <1>1 DEF Ahead
  <2>3. Rank(info, n) = Cardinality(R(n))
    BY <2>1 DEF Rank
  <2> HIDE DEF N, R
  <2>4. IsFiniteSet(R(n)) /\ Cardinality(R(n)) <= Len(info) /\ Cardinality(R(n)) \in Nat
    BY <1>2, <2>2, FS_Subset, FS_CardinalityType
  <2>5. Cardinality(R(n)) # 0
    BY <2>2, <2>4, FS_EmptySet
  <2> QED BY <1>1, <2>2, <2>3, <2>4, <2>5
<1>4. ASSUME NEW m \in N, NEW n \in N, Ahead(info, m, n), m # n
      PROVE  Rank(info, m) < Rank(info, n)
  <2>1. R(m) \in SUBSET R(n) /\ n \notin R(m) /\ n \in R(n)
    BY <1>1, <1>4 DEF Ahead
  <2> HIDE DEF R
  <2>2. Cardinality(R(m)) <= Cardinality(R(n)) /\ Cardinality(R(n)) # Cardinality(R(m))
    BY <1>3, <2>1, FS_Subset
  <2>3. Cardinality(R(m)) \in Nat /\ Cardinality(R(n)) \in Nat
    BY <1>3, FS_CardinalityType
  <2> QED BY <1>3, <2>2, <2>3
<1> QED BY <1>3, <1>4

\* what SortAll takes for its k-th entry
Ranked(info, k) == CHOOSE n \in DOMAIN info : Rank(info, n) = k

LEMMA RankedIsOnto ==
    ASSUME FunctionOK, NEW info \in Seq(Entries)
    PROVE  /\ \A k \in 1..Len(info) : Ranked(info, k) \in 1..Len(info) /\ Rank(info, Ranked(info, k)) = k
           /\ \A n \in 1..Len(info) : Ranked(info, Rank(info, n)) = n
<1> DEFINE N == 1..Len(info)
           r == [n \in N |-> Rank(info, n)]
<1>1. /\ Len(info) \in Nat /\ DOMAIN info = N /\ \A n \in N : AddressOf(info[n]) \in Nat /\ n \in Nat
  BY CacheFields
<1>2. \A n \in N : Rank(info, n) \in N
  BY RankGrows
<1>3. ASSUME NEW m \in N, NEW n \in N, m # n
      PROVE  Rank(info, m) # Rank(info, n)
  <2>1. Ahead(info, m, n) \/ Ahead(info, n, m)
    BY <1>1 DEF Ahead
  <2>2. Rank(info, m) < Rank(info, n) \/ Rank(info, n) < Rank(info, m)
    BY <1>3, <2>1, RankGrows
  <2> QED BY <1>1, <1>2, <2>2
<1>4. r \in Injection(N, N)
  BY <1>2, <1>3 DEF Injection, IsInjective
<1>5. r \in Surjection(N, N)
  BY <1>1, <1>4, FS_Injection, FS_Interval
<1>6. \A k \in N : \E n \in N : Rank(info, n) = k
  BY <1>5 DEF Surjection
<1>7. \A k \in N : Ranked(info, k) \in N /\ Rank(info, Ranked(info, k)) = k
  BY <1>1, <1>6 DEF Ranked
<1>8. \A n \in N : Ranked(info, Rank(info, n)) = n
  BY <1>2, <1>3, <1>7
<1> QED BY <1>7, <1>8

LEMMA SortAllSorts ==
    ASSUME FunctionOK, NEW info \in Seq(Entries)
    PROVE  Permutes(SortAll(info), info) /\ IsSortedInfo(SortAll(info))
<1> DEFINE N == 1..Len(info)
           new == SortAll(info)
<1>1. /\ Len(info) \in Nat /\ DOMAIN info = N
      /\ \A n \in N : info[n] \in Entries /\ AddressOf(info[n]) \in Nat
      /\ ToSet(info) = {info[n] : n \in N}
  BY CacheFields
<1>2. /\ \A k \in N : Ranked(info, k) \in N /\ Rank(info, Ranked(info, k)) = k
      /\ \A n \in N : Ranked(info, Rank(info, n)) = n
      /\ \A n \in N : Rank(info, n) \in N
  BY RankedIsOnto, RankGrows
<1>3. new = [k \in N |-> info[Ranked(info, k)]]
  BY <1>1 DEF SortAll, Ranked
<1> HIDE DEF new
<1>4. new \in Seq(Entries) /\ Len(new) = Len(info)
  BY <1>1, <1>2, <1>3
<1>5. ToSet(new) = ToSet(info)
  <2>1. \A n \in N : \E k \in N : new[k] = info[n]
    BY <1>2, <1>3
  <2>2. \A k \in N : \E n \in N : new[k] = info[n]
    BY <1>2, <1>3
  <2>3. DOMAIN new = N
    BY <1>3
  <2> HIDE DEF N
  <2> QED BY <1>1, <2>1, <2>2, <2>3, SameElements
<1>6. ASSUME Distinct(info)
      PROVE  Distinct(new)
  <2>1. ASSUME NEW j \in N, NEW k \in N, new[j].bb = new[k].bb
        PROVE  j = k
    <3>1. Ranked(info, j) = Ranked(info, k)
      BY <1>2, <1>3, <1>6, <2>1 DEF Distinct
    <3> QED BY <1>2, <3>1
  <2> QED BY <1>4, <2>1 DEF Distinct
<1>7. ASSUME NEW k \in 1..Len(info) - 1
      PROVE  ~Less(new[k + 1], new[k])
  <2>1. k \in N /\ k + 1 \in N
    BY <1>1
  <2> DEFINE m == Ranked(info, k + 1)
             n == Ranked(info, k)
  <2>2. m \in N /\ n \in N /\ Rank(info, m) = k + 1 /\ Rank(info, n) = k
    BY <1>2, <2>1
  <2>3. new[k + 1] = info[m] /\ new[k] = info[n]
    BY <1>3, <2>1
  <2> HIDE DEF m, n
  <2>4. CASE Less(info[m], info[n])
    <3>1. AddressOf(info[m]) < AddressOf(info[n])
      BY <2>2, <2>4, CacheFields
    <3>2. Ahead(info, m, n) /\ m # n
      BY <1>1, <2>2, <3>1 DEF Ahead
    <3>3. k + 1 < k
      BY <2>2, <3>2, RankGrows
    <3> QED BY <1>1, <3>3
  <2> QED BY <2>3, <2>4
<1> QED BY <1>4, <1>5, <1>6, <1>7 DEF Permutes, IsSortedInfo, new

(***************************************************************************)
(* InsertSorted: in a sorted cache the entries not above e are the first.     *)
(***************************************************************************)
LEMMA InsertSortedInserts ==
    ASSUME FunctionOK, NEW info \in Seq(Entries), NEW e \in Entries
    PROVE  /\ InsertSorted(info, e) \in Seq(Entries)
           /\ Len(InsertSorted(info, e)) = Len(info) + 1
           /\ ToSet(InsertSorted(info, e)) = ToSet(info) \union {e}
           /\ Distinct(info) /\ (\A n \in 1..Len(info) : info[n].bb # e.bb)
                 => Distinct(InsertSorted(info, e))
           /\ IsSortedInfo(info) => IsSortedInfo(InsertSorted(info, e))
<1> DEFINE N == 1..Len(info)
           T == {n \in DOMAIN info : ~Less(e, info[n])}
           k == 1 + Cardinality(T)
           new == InsertSorted(info, e)
<1>1. /\ Len(info) \in Nat /\ DOMAIN info = N
      /\ \A n \in N : info[n] \in Entries /\ AddressOf(info[n]) \in Nat
      /\ ToSet(info) = {info[n] : n \in N}
  BY CacheFields
<1>2. /\ AddressOf(e) \in Nat
      /\ \A n \in N : Less(e, info[n]) <=> AddressOf(e) < AddressOf(info[n])
  BY <1>1, EntryFields
<1>3. IsFiniteSet(N) /\ Cardinality(N) = Len(info) /\ T \in SUBSET N
  <2>1. T \in SUBSET N
    BY <1>1
  <2>2. IsFiniteSet(N) /\ Cardinality(N) = IF 1 > Len(info) THEN 0 ELSE Len(info) - 1 + 1
    BY <1>1, FS_Interval
  <2> QED BY <1>1, <2>1, <2>2
<1>4. k \in 1..Len(info) + 1
  <2> HIDE DEF T, N
  <2>1. Cardinality(T) <= Cardinality(N) /\ Cardinality(T) \in Nat
    BY <1>3, FS_Subset, FS_CardinalityType
  <2> QED BY <1>1, <1>3, <2>1
<1>5. new = InsertAt(info, k, e)
  BY DEF InsertSorted
<1>6. \A n \in N : n \in T <=> AddressOf(info[n]) <= AddressOf(e)
  BY <1>1, <1>2
<1>7. ASSUME IsSortedInfo(info)
      PROVE  \A n \in N : n < k <=> AddressOf(info[n]) <= AddressOf(e)
  <2>1. ASSUME NEW m \in N, NEW n \in T, m <= n
        PROVE  m \in T
    <3>1. AddressOf(info[m]) <= AddressOf(info[n])
      BY <1>1, <1>7, <2>1, SortedThroughout
    <3> QED BY <1>1, <1>2, <1>6, <2>1, <3>1
  <2>2. CASE T = {}
    <3>1. Cardinality(T) = 0
      BY <2>2, FS_EmptySet
    <3> QED BY <1>1, <1>6, <2>2, <3>1
  <2>3. CASE T # {}
    <3>1. T \subseteq 0..Len(info)
      BY <1>1
    <3> HIDE DEF T
    <3>2. PICK p \in T : \A n \in T : n <= p
      BY <1>1, <2>3, <3>1, GreatestNumber
    <3>3. p \in N
      BY <1>3
    <3>4. \A m : m \in T <=> m \in 1..p
      <4>1. \A m \in T : m \in N /\ m <= p
        BY <1>3, <3>2
      <4>2. \A m \in 1..p : m \in N /\ m <= p
        BY <1>1, <3>3
      <4>3. \A m \in 1..p : m \in T
        BY <2>1, <3>2, <4>2
      <4> QED BY <1>1, <4>1, <4>3
    <3>5. Cardinality(T) = p
      <4>1. T = 1..p
        BY <3>4
      <4>2. Cardinality(1..p) = IF 1 > p THEN 0 ELSE p - 1 + 1
        BY <1>1, <3>3, FS_Interval
      <4> QED BY <1>1, <3>3, <4>1, <4>2
    <3> QED BY <1>1, <1>6, <3>3, <3>4, <3>5
  <2> QED BY <2>2, <2>3
<1> HIDE DEF T, k, new
<1>8. /\ new \in Seq(Entries) /\ Len(new) = Len(info) + 1
      /\ \A j \in 1..Len(info) + 1 :
            new[j] = IF j < k THEN info[j] ELSE IF j = k THEN e ELSE info[j - 1]
  BY <1>4, <1>5, InsertAtProperties
<1>9. /\ new[k] = e
      /\ \A j \in N : j < k => new[j] = info[j]
      /\ \A j \in N : j >= k => j + 1 \in 1..Len(info) + 1 /\ new[j + 1] = info[j]
  BY <1>1, <1>4, <1>8
<1>10. \A j \in 1..Len(info) + 1 :
          \/ j < k /\ j \in N /\ new[j] = info[j]
          \/ j = k /\ new[j] = e
          \/ j > k /\ j - 1 \in N /\ new[j] = info[j - 1]
  BY <1>1, <1>4, <1>8
<1>11. ToSet(new) = ToSet(info) \union {e}
  <2>1. ToSet(new) = {new[j] : j \in 1..Len(info) + 1}
    BY <1>8, CacheFields
  <2>2. \A n \in N : \E j \in 1..Len(info) + 1 : new[j] = info[n]
    BY <1>1, <1>4, <1>9
  <2>3. \A j \in 1..Len(info) + 1 : new[j] = e \/ \E n \in N : new[j] = info[n]
    BY <1>10
  <2>4. \A x : x \in ToSet(new) => x \in ToSet(info) \union {e}
    BY <1>1, <2>1, <2>3
  <2>5. \A x : x \in ToSet(info) \union {e} => x \in ToSet(new)
    BY <1>1, <1>4, <1>9, <2>1, <2>2
  <2> QED BY <2>4, <2>5
<1>12. ASSUME Distinct(info), \A n \in N : info[n].bb # e.bb
       PROVE  Distinct(new)
  <2>1. ASSUME NEW i \in 1..Len(info) + 1, NEW j \in 1..Len(info) + 1, new[i].bb = new[j].bb
        PROVE  i = j
    <3> DEFINE from(m) == IF m < k THEN m ELSE m - 1
    <3>1. \A m \in 1..Len(info) + 1 : m # k => from(m) \in N /\ new[m] = info[from(m)]
      BY <1>1, <1>4, <1>10
    <3>2. i = k <=> j = k
      BY <1>9, <1>12, <2>1, <3>1
    <3>3. CASE i # k /\ j # k
      <4>1. from(i) = from(j)
        BY <1>12, <2>1, <3>1, <3>3 DEF Distinct
      <4> QED BY <1>1, <1>4, <3>3, <4>1
    <3> QED BY <3>2, <3>3
  <2> QED BY <1>8, <2>1 DEF Distinct
<1>13. ASSUME IsSortedInfo(info)
       PROVE  IsSortedInfo(new)
  <2>1. ASSUME NEW j \in 1..Len(info)
        PROVE  ~ (AddressOf(new[j + 1]) < AddressOf(new[j]))
    <3>1. \A n \in 1..Len(info) - 1 : ~ (AddressOf(info[n + 1]) < AddressOf(info[n]))
      <4>1. \A n \in 1..Len(info) - 1 : n \in N /\ n + 1 \in N
        BY <1>1
      <4> QED BY <1>13, <4>1, CacheFields DEF IsSortedInfo
    <3>2. CASE j + 1 < k
      BY <1>1, <1>4, <1>9, <3>1, <3>2
    <3>3. CASE j + 1 = k
      BY <1>1, <1>2, <1>4, <1>7, <1>9, <1>13, <3>3
    <3>4. CASE j = k
      BY <1>1, <1>2, <1>4, <1>7, <1>9, <1>13, <3>4
    <3>5. CASE j > k
      <4>1. j - 1 \in 1..Len(info) - 1 /\ j - 1 \in N /\ j - 1 >= k /\ j >= k /\ j - 1 + 1 = j
        BY <1>1, <1>4, <3>5
      <4>2. new[j] = info[j - 1] /\ new[j + 1] = info[j]
        BY <1>1, <1>9, <4>1
      <4> QED BY <3>1, <4>1, <4>2
    <3> QED BY <1>1, <1>4, <3>2, <3>3, <3>4, <3>5
  <2>2. \A j \in 1..Len(info) : j \in 1..Len(new) /\ j + 1 \in 1..Len(new)
    BY <1>1, <1>8
  <2>3. \A j \in 1..Len(info) : ~Less(new[j + 1], new[j])
    BY <1>8, <2>1, <2>2, CacheFields
  <2> QED BY <1>1, <1>8, <2>3 DEF IsSortedInfo
<1> QED BY <1>8, <1>11, <1>12, <1>13 DEF new

(***************************************************************************)
(* A sorted prefix, and SortNonLocalDepInfoCache, which sorts the rest in.    *)
(***************************************************************************)
SortedTo(info, k) == \A n \in 1..k - 1 : ~Less(info[n + 1], info[n])

LEMMA SortedPrefix ==
    ASSUME NEW info \in Seq(Entries), NEW k \in 0..Len(info)
    PROVE  IsSortedInfo(SubSeq(info, 1, k)) <=> SortedTo(info, k)
<1>1. Len(SubSeq(info, 1, k)) = k /\ \A j \in 1..k : SubSeq(info, 1, k)[j] = info[j]
  BY PrefixProperties
<1>2. \A n \in 1..k - 1 : n \in 1..k /\ n + 1 \in 1..k
  BY LenProperties
<1> QED BY <1>1, <1>2 DEF IsSortedInfo, SortedTo

LEMMA PermutesItself ==
    ASSUME NEW info \in Seq(Entries)
    PROVE  Permutes(info, info)
BY DEF Permutes

LEMMA SortsTheRest ==
    ASSUME FunctionOK, NEW info \in Seq(Entries), NEW sorted \in 0..Len(info), SortedTo(info, sorted)
    PROVE  /\ Permutes(SortNonLocalDepInfoCache(info, sorted), info)
           /\ IsSortedInfo(SortNonLocalDepInfoCache(info, sorted))
<1> DEFINE p == SubSeq(info, 1, sorted)
           l == Len(info)
           new == SortNonLocalDepInfoCache(info, sorted)
<1>1. l \in Nat /\ DOMAIN info = 1..l /\ \A n \in 1..l : info[n] \in Entries
  BY CacheFields
<1>2. p \in Seq(Entries) /\ Len(p) = sorted /\ \A j \in 1..sorted : p[j] = info[j]
  BY PrefixProperties
<1>3. IsSortedInfo(p)
  BY SortedPrefix
<1>4. ASSUME Distinct(info)
      PROVE  Distinct(p) /\ \A n \in 1..sorted, m \in sorted + 1..l : p[n].bb # info[m].bb
  BY <1>1, <1>2, <1>4 DEF Distinct
<1>5. DOMAIN p = 1..sorted /\ sorted \in 0..l /\ Last(info) = info[l]
  BY <1>2, LenProperties DEF Last
<1> HIDE DEF p, l
<1>6. CASE l - sorted = 0
  <2>1. new = info
    BY <1>6 DEF SortNonLocalDepInfoCache, l
  <2>2. sorted = l
    BY <1>1, <1>6
  <2>3. IsSortedInfo(info)
    BY <2>2, SubSeqFull, <1>3 DEF p, l
  <2> QED BY <2>1, <2>3, PermutesItself
<1>7. CASE l - sorted = 1
  <2>1. l = sorted + 1 /\ l \in 1..l /\ Last(info) = info[l]
    BY <1>1, <1>5, <1>7
  <2>2. new = InsertSorted(p, info[l])
    BY <1>7, <2>1 DEF SortNonLocalDepInfoCache, p, l
  <2>3. /\ new \in Seq(Entries) /\ Len(new) = l /\ ToSet(new) = ToSet(p) \union {info[l]}
        /\ Distinct(p) /\ (\A n \in 1..sorted : p[n].bb # info[l].bb) => Distinct(new)
        /\ IsSortedInfo(new)
    BY <1>1, <1>2, <1>3, <2>1, <2>2, InsertSortedInserts
  <2>4. \A x : x \in ToSet(info) <=> x \in ToSet(p) \union {info[l]}
    <3>1. \A n \in 1..l : n \in 1..sorted \/ n = l
      BY <1>1, <2>1
    <3> QED BY <1>1, <1>2, <1>5, <2>1, <3>1 DEF ToSet
  <2>5. Distinct(info) => Distinct(new)
    BY <1>1, <1>4, <2>1, <2>3
  <2> QED BY <2>3, <2>4, <2>5 DEF Permutes, l
<1>8. CASE l - sorted = 2
  <2> DEFINE k == sorted + 1
             q == InsertSorted(p, info[l])
  <2>1. l = k + 1 /\ k \in 1..l /\ l \in 1..l /\ Last(info) = info[l] /\ k \in sorted + 1..l
        /\ l \in sorted + 1..l /\ k # l
    BY <1>1, <1>5, <1>8
  <2>2. l - sorted # 0 /\ l - sorted # 1
    BY <1>8
  <2>3. new = InsertSorted(q, info[k])
    BY <1>8, <2>1, <2>2 DEF SortNonLocalDepInfoCache, p, l
  <2>4. /\ q \in Seq(Entries) /\ Len(q) = sorted + 1 /\ ToSet(q) = ToSet(p) \union {info[l]}
        /\ Distinct(p) /\ (\A n \in 1..sorted : p[n].bb # info[l].bb) => Distinct(q)
        /\ IsSortedInfo(q)
    BY <1>1, <1>2, <1>3, <2>1, InsertSortedInserts
  <2> HIDE DEF q, k
  <2>5. /\ new \in Seq(Entries) /\ Len(new) = sorted + 1 + 1 /\ ToSet(new) = ToSet(q) \union {info[k]}
        /\ Distinct(q) /\ (\A n \in 1..Len(q) : q[n].bb # info[k].bb) => Distinct(new)
        /\ IsSortedInfo(new)
    BY <1>1, <2>1, <2>3, <2>4, InsertSortedInserts
  <2>6. \A x : x \in ToSet(info) <=> x \in ToSet(p) \union {info[l], info[k]}
    <3>1. \A n \in 1..l : n \in 1..sorted \/ n = k \/ n = l
      BY <1>1, <2>1 DEF k
    <3>2. \A n \in 1..sorted : n \in 1..l
      BY <1>1, <2>1 DEF k
    <3> QED BY <1>1, <1>2, <1>5, <2>1, <3>1, <3>2 DEF ToSet
  <2>7. ASSUME Distinct(info)
        PROVE  Distinct(new)
    <3>1. Distinct(q)
      BY <1>4, <2>1, <2>4, <2>7
    <3>2. info[l].bb # info[k].bb
      BY <2>1, <2>7 DEF Distinct, l
    <3>3. ASSUME NEW n \in 1..Len(q)
          PROVE  q[n].bb # info[k].bb
      <4>1. q[n] \in ToSet(q)
        BY <2>4, CacheFields
      <4>2. q[n] = info[l] \/ \E m \in 1..sorted : q[n] = p[m]
        BY <1>5, <2>4, <4>1 DEF ToSet
      <4> QED BY <1>4, <2>1, <2>7, <3>2, <4>2
    <3> QED BY <2>5, <3>1, <3>3
  <2>8. sorted + 1 + 1 = l
    BY <2>1 DEF k
  <2>9. \A x : x \in ToSet(new) <=> x \in ToSet(info)
    BY <2>4, <2>5, <2>6
  <2> QED BY <2>5, <2>7, <2>8, <2>9 DEF Permutes, l
<1>9. CASE l - sorted \notin {0, 1, 2}
  <2>1. new = SortAll(info)
    BY <1>9 DEF SortNonLocalDepInfoCache, l
  <2> QED BY <2>1, SortAllSorts
<1> QED BY <1>6, <1>7, <1>8, <1>9

(***************************************************************************)
(* Former and SetResult: the block is searched in the sorted prefix only, so  *)
(* a block that is not twice stays so if it is not in the rest.               *)
(***************************************************************************)
LEMMA FormerResult ==
    ASSUME FunctionOK, NEW info \in Seq(Entries), NEW sorted \in 0..Len(info), NEW b \in Blocks
    PROVE  /\ Former(info, sorted, b) \in ResultsIn(b)
           /\ Former(info, sorted, b) # GetDirty(Null) =>
                 \E n \in Found(info, sorted, b) : Former(info, sorted, b) = info[n].result
           /\ Found(info, sorted, b) # {} =>
                 \E n \in Found(info, sorted, b) : Former(info, sorted, b) = info[n].result
<1>1. CASE Found(info, sorted, b) = {}
  BY <1>1 DEF Former, GetDirty, ResultsIn
<1>2. CASE Found(info, sorted, b) # {}
  <2>1. PICK n \in Found(info, sorted, b) : Former(info, sorted, b) = info[n].result
    BY <1>2 DEF Former
  <2>2. n \in 1..Len(info) /\ info[n].bb = b
    BY CacheFields DEF Found
  <2> QED BY <2>1, <2>2, CacheFields, EntryFields
<1> QED BY <1>1, <1>2

LEMMA SetResultSets ==
    ASSUME FunctionOK, NEW info \in Seq(Entries), NEW sorted \in 0..Len(info),
           NEW b \in Blocks, NEW dep \in ResultsIn(b)
    PROVE  /\ SetResult(info, sorted, b, dep) \in Seq(Entries)
           /\ Len(SetResult(info, sorted, b, dep)) = IF Found(info, sorted, b) = {} THEN Len(info) + 1 ELSE Len(info)
           /\ \A n \in 1..Len(info) :
                 /\ n \in Found(info, sorted, b) =>
                       SetResult(info, sorted, b, dep)[n] = [bb |-> b, result |-> dep]
                 /\ n \notin Found(info, sorted, b) =>
                       SetResult(info, sorted, b, dep)[n] = info[n]
           /\ Found(info, sorted, b) = {} =>
                 SetResult(info, sorted, b, dep)[Len(info) + 1] = [bb |-> b, result |-> dep]
           /\ \A n \in 1..Len(info) : SetResult(info, sorted, b, dep)[n].bb = info[n].bb
<1> DEFINE new == SetResult(info, sorted, b, dep)
           e == [bb |-> b, result |-> dep]
<1>1. /\ Len(info) \in Nat /\ DOMAIN info = 1..Len(info)
      /\ \A n \in 1..Len(info) : info[n] \in Entries
  BY CacheFields
<1>2. e \in Entries /\ e.bb = b
  BY DEF Entries
<1>3. \A n \in Found(info, sorted, b) : info[n].bb = b
  BY DEF Found
<1>4. CASE Found(info, sorted, b) = {}
  <2>1. new = Append(info, e)
    BY <1>4 DEF SetResult
  <2> HIDE DEF new, e
  <2>2. /\ new \in Seq(Entries) /\ Len(new) = Len(info) + 1
        /\ \A n \in 1..Len(info) : new[n] = info[n]
        /\ new[Len(info) + 1] = e
    BY <1>2, <2>1, AppendProperties
  <2> QED BY <1>4, <2>2 DEF new, e
<1>5. CASE Found(info, sorted, b) # {}
  <2>1. new = [n \in 1..Len(info) |-> IF n \in Found(info, sorted, b) THEN e ELSE info[n]]
    BY <1>1, <1>5 DEF SetResult
  <2> HIDE DEF new, e
  <2>2. new \in Seq(Entries) /\ Len(new) = Len(info)
    BY <1>1, <1>2, <2>1
  <2>3. \A n \in 1..Len(info) : new[n].bb = info[n].bb
    BY <1>2, <1>3, <2>1
  <2> QED BY <1>5, <2>1, <2>2, <2>3 DEF new, e
<1> QED BY <1>4, <1>5

\* Setting a result keeps the prefix sorted, and no block twice if the block is
\* not in the rest.
LEMMA SetResultKeeps ==
    ASSUME FunctionOK, NEW info \in Seq(Entries), NEW sorted \in 0..Len(info),
           NEW b \in Blocks, NEW dep \in ResultsIn(b),
           SortedTo(info, sorted), Distinct(info),
           \A n \in sorted + 1..Len(info) : info[n].bb # b
    PROVE  /\ SortedTo(SetResult(info, sorted, b, dep), sorted)
           /\ Distinct(SetResult(info, sorted, b, dep))
<1> DEFINE new == SetResult(info, sorted, b, dep)
<1>1. /\ Len(info) \in Nat /\ \A n \in 1..Len(info) : info[n] \in Entries
  BY CacheFields
<1>2. /\ new \in Seq(Entries)
      /\ Len(new) = IF Found(info, sorted, b) = {} THEN Len(info) + 1 ELSE Len(info)
      /\ \A n \in 1..Len(info) : new[n].bb = info[n].bb
      /\ Found(info, sorted, b) = {} => new[Len(info) + 1] = [bb |-> b, result |-> dep]
  BY SetResultSets
<1> HIDE DEF new
<1>3. \A n \in 1..sorted - 1 : n \in 1..Len(info) /\ n + 1 \in 1..Len(info)
  BY <1>1
<1>4. SortedTo(new, sorted)
  BY <1>2, <1>3 DEF SortedTo, Less
<1>5. ASSUME Found(info, sorted, b) # {}
      PROVE  Distinct(new)
  BY <1>2, <1>5 DEF Distinct
<1>6. ASSUME Found(info, sorted, b) = {}
      PROVE  Distinct(new)
  <2>1. \A n \in 1..Len(info) : info[n].bb # b
    <3>1. \A n \in 1..sorted : info[n].bb # b
      BY <1>6 DEF Found
    <3>2. \A n \in 1..Len(info) : n \in 1..sorted \/ n \in sorted + 1..Len(info)
      BY <1>1
    <3> QED BY <3>1, <3>2
  <2>2. Len(new) = Len(info) + 1 /\ new[Len(info) + 1].bb = b
    BY <1>2, <1>6
  <2>3. \A n \in 1..Len(info) + 1 : n \in 1..Len(info) \/ n = Len(info) + 1
    BY <1>1
  <2>4. ASSUME NEW m \in 1..Len(info) + 1, NEW n \in 1..Len(info) + 1, new[m].bb = new[n].bb
        PROVE  m = n
    BY <1>2, <2>1, <2>2, <2>3, <2>4 DEF Distinct
  <2> QED BY <2>2, <2>4 DEF Distinct
<1> QED BY <1>4, <1>5, <1>6 DEF new

-----------------------------------------------------------------------------
(***************************************************************************)
(* A reverse map and the caches it is for, as a function from the keys: what  *)
(* is in one is in the other.  Of the constants, only the first half is said. *)
(***************************************************************************)
Mirrored(present, reverse, infos) ==
    /\ \A x \in reverse :
          /\ x = <<x[1], x[2]>> /\ x[1] # Null /\ x[2] \in DOMAIN infos
          /\ Has(infos[x[2]], x[1])
    /\ \A k \in DOMAIN infos : \A i \in present : Has(infos[k], i) => <<i, k>> \in reverse

\* A cache that has each block once has each instruction once.
LEMMA OneEntryPerInst ==
    ASSUME FunctionOK, NEW info \in Seq(Entries), Distinct(info),
           NEW m \in 1..Len(info), NEW n \in 1..Len(info),
           GetInst(info[m].result) \in Present,
           GetInst(info[m].result) = GetInst(info[n].result)
    PROVE  m = n
<1>1. info[m] \in Entries /\ info[n] \in Entries
  BY CacheFields
<1>2. /\ info[m].bb \in Blocks /\ info[m].result \in ResultsIn(info[m].bb)
      /\ info[n].bb \in Blocks /\ info[n].result \in ResultsIn(info[n].bb)
  BY <1>1, EntryFields
<1>3. GetInst(info[m].result) \in Each(info[m].bb) /\ GetInst(info[m].result) \in Each(info[n].bb)
  BY <1>2, ResultInst
<1>4. info[m].bb = info[n].bb
  BY <1>2, <1>3, InBlock DEF EachPlaced
<1> QED BY <1>4 DEF Distinct

\* What a cache has when the result of one of its blocks is set.
LEMMA SetResultHas ==
    ASSUME FunctionOK, NEW info \in Seq(Entries), Distinct(info), NEW sorted \in 0..Len(info),
           NEW b \in Blocks, NEW dep \in ResultsIn(b)
    PROVE  /\ \A i : Has(info, i) /\ i # GetInst(Former(info, sorted, b))
                       => Has(SetResult(info, sorted, b, dep), i)
           /\ Has(SetResult(info, sorted, b, dep), GetInst(dep))
           /\ \A i \in Present : Has(SetResult(info, sorted, b, dep), i) =>
                 \/ i = GetInst(dep)
                 \/ Has(info, i) /\ i # GetInst(Former(info, sorted, b))
<1> DEFINE new == SetResult(info, sorted, b, dep)
           F == Found(info, sorted, b)
           former == Former(info, sorted, b)
<1>1. /\ Len(info) \in Nat /\ DOMAIN info = 1..Len(info)
      /\ F \subseteq 1..Len(info) /\ \A n \in F : info[n].bb = b
  BY CacheFields DEF Found
<1>2. /\ new \in Seq(Entries)
      /\ Len(new) = IF F = {} THEN Len(info) + 1 ELSE Len(info)
      /\ \A n \in 1..Len(info) : /\ n \in F => new[n] = [bb |-> b, result |-> dep]
                                 /\ n \notin F => new[n] = info[n]
      /\ F = {} => new[Len(info) + 1] = [bb |-> b, result |-> dep]
  BY SetResultSets
<1>3. /\ former # GetDirty(Null) => \E n \in F : former = info[n].result
      /\ F # {} => \E n \in F : former = info[n].result
  BY FormerResult
<1>4. Len(new) \in Nat /\ DOMAIN new = 1..Len(new)
  BY <1>2, CacheFields
<1> HIDE DEF new, F, former
<1>5. \A m, n \in F : m = n
  BY <1>1 DEF Distinct
<1>6. ASSUME NEW i, Has(info, i), i # GetInst(former)
      PROVE  Has(new, i)
  <2>1. PICK n \in 1..Len(info) : GetInst(info[n].result) = i
    BY <1>1, <1>6 DEF Has
  <2>2. n \notin F
    BY <1>3, <1>5, <1>6, <2>1
  <2>3. n \in DOMAIN new /\ new[n] = info[n]
    BY <1>1, <1>2, <1>4, <2>2
  <2> QED BY <2>1, <2>3 DEF Has
<1>7. Has(new, GetInst(dep))
  <2>1. \E n \in DOMAIN new : new[n] = [bb |-> b, result |-> dep]
    BY <1>1, <1>2, <1>4
  <2> QED BY <2>1 DEF Has
<1>8. ASSUME NEW i \in Present, Has(new, i), i # GetInst(dep)
      PROVE  Has(info, i) /\ i # GetInst(former)
  <2>1. PICK n \in 1..Len(new) : GetInst(new[n].result) = i
    BY <1>4, <1>8 DEF Has
  <2>2. n \in 1..Len(info) /\ n \notin F /\ info[n] = new[n]
    BY <1>1, <1>2, <1>8, <2>1
  <2>3. Has(info, i)
    BY <1>1, <2>1, <2>2 DEF Has
  <2>4. ASSUME i = GetInst(former)
        PROVE  FALSE
    <3>1. former # GetDirty(Null)
      BY <1>8, <2>4, PlacesOfPresent DEF Placed, NoInstructions, GetDirty, GetInst
    <3>2. PICK m \in F : former = info[m].result
      BY <1>3, <3>1
    <3>3. m = n
      BY <1>1, <1>8, <2>1, <2>2, <2>4, <3>2, OneEntryPerInst
    <3> QED BY <2>2, <3>3
  <2> QED BY <2>3, <2>4
<1> QED BY <1>6, <1>7, <1>8 DEF new, former

\* The cache of one key changes: its pair for the former result is taken out of
\* the reverse map, and the one for the new result put in, if that is needed.
LEMMA MirroredSet ==
    ASSUME FunctionOK, NEW reverse, NEW infos, Mirrored(Present, reverse, infos),
           NEW k, NEW info \in Seq(Entries), Distinct(info),
           info = IF k \in DOMAIN infos THEN infos[k] ELSE <<>>,
           NEW sorted \in 0..Len(info), NEW b \in Blocks, NEW dep \in ResultsIn(b),
           NEW links, links \subseteq Link(dep, k),
           GetInst(dep) \in Present => Link(dep, k) \subseteq links
    PROVE  Mirrored(Present, (reverse \ Link(Former(info, sorted, b), k)) \union links,
                    Put(infos, k, SetResult(info, sorted, b, dep)))
<1> DEFINE new == SetResult(info, sorted, b, dep)
           former == Former(info, sorted, b)
           reverse1 == (reverse \ Link(former, k)) \union links
           infos1 == Put(infos, k, new)
<1>1. /\ \A i : Has(info, i) /\ i # GetInst(former) => Has(new, i)
      /\ Has(new, GetInst(dep))
      /\ \A i \in Present : Has(new, i) => i = GetInst(dep) \/ (Has(info, i) /\ i # GetInst(former))
  BY SetResultHas
<1>2. DOMAIN infos1 = DOMAIN infos \union {k} /\ infos1[k] = new
      /\ \A j \in DOMAIN infos \ {k} : infos1[j] = infos[j]
  BY DEF Put
<1>3. \A x : /\ x \in Link(dep, k) <=> GetInst(dep) # Null /\ x = <<GetInst(dep), k>>
             /\ x \in Link(former, k) <=> GetInst(former) # Null /\ x = <<GetInst(former), k>>
  BY DEF Link
<1>4. \A i : k \notin DOMAIN infos => ~Has(info, i)
  BY DEF Has
<1>5. Null \notin Present
  BY PlacesOfPresent DEF Placed, NoInstructions
<1> HIDE DEF new, former, infos1
<1>6. ASSUME NEW x \in reverse1
      PROVE  /\ x = <<x[1], x[2]>> /\ x[1] # Null /\ x[2] \in DOMAIN infos1
             /\ Has(infos1[x[2]], x[1])
  <2>1. CASE x \in links
    BY <1>1, <1>2, <1>3, <2>1
  <2>2. CASE x \notin links
    <3>1. /\ x \notin Link(former, k)
          /\ x = <<x[1], x[2]>> /\ x[1] # Null /\ x[2] \in DOMAIN infos /\ Has(infos[x[2]], x[1])
      BY <1>6, <2>2 DEF Mirrored
    <3>2. CASE x[2] = k
      <4>1. x[1] # GetInst(former)
        BY <1>3, <3>1, <3>2
      <4> QED BY <1>1, <1>2, <3>1, <3>2, <4>1
    <3>3. CASE x[2] # k
      BY <1>2, <3>1, <3>3
    <3> QED BY <3>2, <3>3
  <2> QED BY <2>1, <2>2
<1>7. ASSUME NEW j \in DOMAIN infos1, NEW i \in Present, Has(infos1[j], i)
      PROVE  <<i, j>> \in reverse1
  <2>1. CASE j # k
    <3>1. <<i, j>> \in reverse
      BY <1>2, <1>7, <2>1 DEF Mirrored
    <3> QED BY <1>3, <2>1, <3>1
  <2>2. CASE j = k /\ i = GetInst(dep)
    BY <1>3, <1>5, <2>2
  <2>3. CASE j = k /\ i # GetInst(dep)
    <3>1. Has(info, i) /\ i # GetInst(former)
      BY <1>1, <1>2, <1>7, <2>3
    <3>2. <<i, k>> \in reverse
      BY <1>4, <3>1 DEF Mirrored
    <3> QED BY <1>3, <2>3, <3>1, <3>2
  <2> QED BY <2>1, <2>2, <2>3
<1> QED BY <1>6, <1>7 DEF Mirrored, new, former, infos1

\* Without some caches and their links, the others have theirs.
LEMMA MirroredWithout ==
    ASSUME NEW present, NEW reverse, NEW infos, Mirrored(present, reverse, infos),
           NEW S, S \subseteq DOMAIN infos,
           NEW without, DOMAIN without = DOMAIN infos \ S,
           \A k \in DOMAIN without : without[k] = infos[k],
           NEW links, \A x : x \in links <=> \E k \in S : x \in Links(infos[k], k)
    PROVE  Mirrored(present, reverse \ links, without)
<1>1. \A x : x \in links <=> \E k \in S : \E n \in DOMAIN infos[k] : x \in Link(infos[k][n].result, k)
  BY DEF Links
<1>2. \A x, r, k : x \in Link(r, k) <=> GetInst(r) # Null /\ x = <<GetInst(r), k>>
  BY DEF Link
<1>3. ASSUME NEW x \in reverse \ links
      PROVE  /\ x = <<x[1], x[2]>> /\ x[1] # Null /\ x[2] \in DOMAIN without
             /\ Has(without[x[2]], x[1])
  <2>1. x = <<x[1], x[2]>> /\ x[1] # Null /\ x[2] \in DOMAIN infos /\ Has(infos[x[2]], x[1])
    BY <1>3 DEF Mirrored
  <2>2. PICK n \in DOMAIN infos[x[2]] : GetInst(infos[x[2]][n].result) = x[1]
    BY <2>1 DEF Has
  <2>3. x \in Link(infos[x[2]][n].result, x[2])
    BY <1>2, <2>1, <2>2
  <2>4. x[2] \notin S
    BY <1>1, <1>3, <2>2, <2>3
  <2> QED BY <2>1, <2>4
<1>4. ASSUME NEW k \in DOMAIN without, NEW i \in present, Has(without[k], i)
      PROVE  <<i, k>> \in reverse \ links
  <2>1. <<i, k>> \in reverse
    BY <1>4 DEF Mirrored
  <2>2. <<i, k>> \notin links
    BY <1>1, <1>2
  <2> QED BY <2>1, <2>2
<1> QED BY <1>3, <1>4 DEF Mirrored

\* Only what a cache has matters, not in which order.
LEMMA MirroredSame ==
    ASSUME NEW present, NEW reverse, NEW infos, Mirrored(present, reverse, infos),
           NEW same, DOMAIN same = DOMAIN infos,
           \A k \in DOMAIN infos : \A i : Has(same[k], i) <=> Has(infos[k], i)
    PROVE  Mirrored(present, reverse, same)
BY DEF Mirrored

LEMMA PermutesHas ==
    ASSUME NEW new, NEW info, Permutes(new, info)
    PROVE  \A i : Has(new, i) <=> Has(info, i)
<1>1. \A s, i : Has(s, i) <=> \E e \in ToSet(s) : GetInst(e.result) = i
  BY DEF Has, ToSet
<1> QED BY <1>1 DEF Permutes

(***************************************************************************)
(* A removal: entries that have the instruction become dirty.                 *)
(***************************************************************************)
LEMMA RemovedEntries ==
    ASSUME FunctionOK, NEW i, Removed(i), NEW info \in Seq(Entries)
    PROVE  /\ Redirected(info, i) \in Seq(Entries')
           /\ Len(Redirected(info, i)) = Len(info)
           /\ \A n \in 1..Len(info) :
                 /\ Redirected(info, i)[n].bb = info[n].bb
                 /\ GetInst(Redirected(info, i)[n].result) =
                       IF GetInst(info[n].result) = i THEN NextOf(i) ELSE GetInst(info[n].result)
           /\ ~Has(info, i) => info \in Seq(Entries') /\ Redirected(info, i) = info
<1> DEFINE new == Redirected(info, i)
<1>1. /\ Len(info) \in Nat /\ DOMAIN info = 1..Len(info)
      /\ \A n \in 1..Len(info) : info[n] \in Entries
  BY CacheFields
<1>2. \A n \in 1..Len(info) : /\ info[n].bb \in Blocks /\ info[n].result \in ResultsIn(info[n].bb)
                              /\ info[n] = [bb |-> info[n].bb, result |-> info[n].result]
  BY <1>1, EntryFields
<1>3. new = [n \in 1..Len(info) |->
                IF GetInst(info[n].result) = i THEN [info[n] EXCEPT !.result = GetDirty(NextOf(i))]
                ELSE info[n]]
  BY <1>1 DEF Redirected
<1> HIDE DEF new
<1>4. ASSUME NEW n \in 1..Len(info)
      PROVE  /\ new[n].bb = info[n].bb /\ new[n] \in Entries'
             /\ GetInst(new[n].result) =
                   IF GetInst(info[n].result) = i THEN NextOf(i) ELSE GetInst(info[n].result)
  <2>1. PICK b \in Blocks : b = info[n].bb
    BY <1>2
  <2>2. Blocks' = Blocks
    BY RemovedBlocks
  <2>3. info[n].result \in ResultsIn(b) /\ info[n] = [bb |-> b, result |-> info[n].result]
    BY <1>2, <2>1
  <2>4. \A e : e \in Entries' <=> \E c \in Blocks' : e \in [bb : {c}, result : ResultsIn(c)']
    BY DEF Entries
  <2>5. CASE GetInst(info[n].result) = i
    <3>1. new[n] = [bb |-> b, result |-> GetDirty(NextOf(i))]
      BY <1>3, <2>3, <2>5
    <3>2. b = BlockOf(i)
      <4>1. i \in Each(b)
        BY <2>3, <2>5, ResultInst DEF Removed
      <4> QED BY <4>1, InBlock DEF EachPlaced
    <3>3. GetDirty(NextOf(i)) \in ResultsIn(b)'
      BY <3>2, RemovedResults
    <3> QED BY <2>1, <2>2, <2>4, <2>5, <3>1, <3>3 DEF GetInst, GetDirty
  <2>6. CASE GetInst(info[n].result) # i
    <3>1. new[n] = info[n]
      BY <1>3, <2>6
    <3>2. info[n].result \in ResultsIn(b)'
      BY <2>3, <2>6, RemovedResults
    <3> QED BY <2>2, <2>3, <2>4, <2>6, <3>1, <3>2
  <2> QED BY <2>5, <2>6
<1>5. new \in Seq(Entries') /\ Len(new) = Len(info)
  BY <1>1, <1>3, <1>4
<1>6. ASSUME ~Has(info, i)
      PROVE  new = info
  BY <1>1, <1>3, <1>6 DEF Has
<1> QED BY <1>4, <1>5, <1>6 DEF new

\* The pairs that had the instruction have the next, if there is one.
LEMMA MirroredMoved ==
    ASSUME FunctionOK, NEW i, Removed(i), NEW reverse, NEW infos,
           Mirrored(Present, reverse, infos),
           \A k \in DOMAIN infos : infos[k] \in Seq(Entries),
           NEW moved, DOMAIN moved = DOMAIN infos,
           \A k \in DOMAIN infos :
              moved[k] = IF k \in Dependents(reverse, i) THEN Redirected(infos[k], i) ELSE infos[k]
    PROVE  /\ Mirrored(Present', Moved(reverse, i, {k \in Dependents(reverse, i) : Has(infos[k], i)}), moved)
           /\ \A k \in DOMAIN infos : k \in Dependents(reverse, i) <=> Has(infos[k], i)
<1> DEFINE D == Dependents(reverse, i)
           next == NextOf(i)
           S == {k \in D : Has(infos[k], i)}
           new == Moved(reverse, i, S)
<1>1. i \in Present /\ i # Null /\ Null \notin Present /\ Present' = Present \ {i}
  BY PlacesOfPresent, RemovedPlaces DEF Placed, NoInstructions, Removed
<1>2. next # i /\ next \in Present \union {Null}
  <2>1. BlockOf(i) \in Blocks
    BY <1>1, PlacesOfPresent DEF Placed
  <2>2. next \in (Each(BlockOf(i)) \ {i}) \union {Null}
    BY <1>1, NextInBlock
  <2> QED BY <1>1, <2>1, <2>2, InBlock DEF EachPlaced
<1>3. \A k : k \in D <=> \E x \in reverse : x[1] = i /\ x[2] = k
  BY DEF Dependents
<1>4. \A x \in reverse : /\ x = <<x[1], x[2]>> /\ x[1] # Null /\ x[2] \in DOMAIN infos
                         /\ Has(infos[x[2]], x[1])
  BY DEF Mirrored
<1>5. \A k \in DOMAIN infos : \A j \in Present : Has(infos[k], j) => <<j, k>> \in reverse
  BY DEF Mirrored
<1>6. ASSUME NEW k
      PROVE  k \in D <=> k \in DOMAIN infos /\ Has(infos[k], i)
  <2> HIDE DEF D
  <2>1. ASSUME k \in D
        PROVE  k \in DOMAIN infos /\ Has(infos[k], i)
    BY <1>3, <1>4, <2>1
  <2>2. ASSUME k \in DOMAIN infos, Has(infos[k], i)
        PROVE  k \in D
    <3>1. <<i, k>> \in reverse
      BY <1>1, <1>5, <2>2
    <3> QED BY <1>3, <3>1
  <2> QED BY <2>1, <2>2
<1>7. \A x : x \in new <=> \/ x \in reverse /\ x[1] # i
                           \/ next # Null /\ \E k \in D : x = <<next, k>>
  BY <1>6 DEF Moved, From
<1>8. ASSUME NEW k \in DOMAIN infos
      PROVE  \A j : Has(moved[k], j) <=> \/ Has(infos[k], j) /\ j # i
                                         \/ j = next /\ k \in D
  <2>1. /\ Len(infos[k]) \in Nat /\ DOMAIN infos[k] = 1..Len(infos[k])
    BY <1>8, CacheFields
  <2>2. CASE k \in D
    <3>1. moved[k] = Redirected(infos[k], i)
      BY <2>2
    <3>2. DOMAIN Redirected(infos[k], i) = 1..Len(infos[k])
      BY <2>1 DEF Redirected
    <3>3. \A n \in 1..Len(infos[k]) :
             GetInst(moved[k][n].result) =
                IF GetInst(infos[k][n].result) = i THEN next ELSE GetInst(infos[k][n].result)
      BY <3>1, RemovedEntries
    <3>4. \E n \in 1..Len(infos[k]) : GetInst(infos[k][n].result) = i
      BY <1>6, <2>1, <2>2 DEF Has
    <3> HIDE DEF D, next
    <3> QED BY <1>2, <2>1, <2>2, <3>1, <3>2, <3>3, <3>4 DEF Has
  <2>3. CASE k \notin D
    BY <1>6, <1>8, <2>3
  <2> QED BY <2>2, <2>3
<1> HIDE DEF D, next, S, new
<1>9. ASSUME NEW x \in new
      PROVE  /\ x = <<x[1], x[2]>> /\ x[1] # Null /\ x[2] \in DOMAIN moved
             /\ Has(moved[x[2]], x[1])
  <2>1. CASE x \in reverse /\ x[1] # i
    BY <1>4, <1>8, <2>1
  <2>2. CASE next # Null /\ \E k \in D : x = <<next, k>>
    BY <1>6, <1>8, <2>2
  <2> QED BY <1>7, <2>1, <2>2
<1>10. ASSUME NEW k \in DOMAIN moved, NEW j \in Present', Has(moved[k], j)
       PROVE  <<j, k>> \in new
  <2>1. CASE Has(infos[k], j) /\ j # i
    BY <1>1, <1>5, <1>7, <1>10, <2>1
  <2>2. CASE j = next /\ k \in D
    BY <1>1, <1>7, <1>10, <2>2
  <2> QED BY <1>8, <1>10, <2>1, <2>2
<1>11. \A x \in Present' : x \in Present
  BY <1>1
<1> QED BY <1>6, <1>9, <1>10 DEF Mirrored, new, S, D

-----------------------------------------------------------------------------
(***************************************************************************)
(* Picked: the k-th that is picked is at a position of its own.               *)
(***************************************************************************)
CountTo(I, n) == Cardinality({m \in I : m <= n})
TakenAt(at, new, s, I) ==
    /\ at \in [1..Len(new) -> I]
    /\ \A k \in 1..Len(new) : new[k] = s[at[k]]
    /\ \A j, k \in 1..Len(new) : at[j] = at[k] => j = k
    /\ \A n \in I : \E k \in 1..Len(new) : at[k] = n

LEMMA PickedProperties ==
    ASSUME NEW S, NEW s \in Seq(S), NEW I, I \subseteq 1..Len(s)
    PROVE  /\ Picked(s, I) \in Seq(S)
           /\ \E at : TakenAt(at, Picked(s, I), s, I)
<1> DEFINE N == 1..Cardinality(I)
           at == [k \in N |-> CHOOSE n \in I : CountTo(I, n) = k]
           count == [n \in I |-> CountTo(I, n)]
<1>1. Len(s) \in Nat /\ I \subseteq Nat /\ \A n \in I : s[n] \in S
  BY LenProperties, ElementOfSeq
<1>2. IsFiniteSet(I) /\ Cardinality(I) \in Nat
  <2>1. IsFiniteSet(1..Len(s))
    BY <1>1, FS_Interval
  <2> QED BY <2>1, FS_Subset, FS_CardinalityType
<1>3. ASSUME NEW n \in I
      PROVE  CountTo(I, n) \in N
  <2>1. {m \in I : m <= n} \in SUBSET I /\ n \in {m \in I : m <= n}
    BY <1>1
  <2>2. IsFiniteSet({m \in I : m <= n}) /\ Cardinality({m \in I : m <= n}) <= Cardinality(I)
    BY <1>2, <2>1, FS_Subset
  <2>3. Cardinality({m \in I : m <= n}) \in Nat /\ Cardinality({m \in I : m <= n}) # 0
    BY <2>1, <2>2, FS_CardinalityType, FS_EmptySet
  <2> QED BY <1>2, <2>2, <2>3 DEF CountTo
<1>4. ASSUME NEW m \in I, NEW n \in I, m < n
      PROVE  CountTo(I, m) < CountTo(I, n)
  <2> DEFINE A == {j \in I : j <= m}
             B == {j \in I : j <= n}
  <2>1. A \in SUBSET B /\ n \in B /\ n \notin A /\ B \in SUBSET I
    <3>1. m \in Nat /\ n \in Nat /\ \A j \in I : j \in Nat
      BY <1>1
    <3>2. \A j \in I : j <= m => j <= n
      BY <1>4, <3>1
    <3>3. n \in B /\ n \notin A
      BY <1>4, <3>1
    <3>4. A \subseteq B /\ B \subseteq I
      BY <3>2
    <3> QED BY <3>3, <3>4
  <2> HIDE DEF A, B
  <2>2. IsFiniteSet(B)
    BY <1>2, <2>1, FS_Subset
  <2>3. Cardinality(A) <= Cardinality(B) /\ Cardinality(A) # Cardinality(B) /\ IsFiniteSet(A)
    BY <2>1, <2>2, FS_Subset
  <2>4. Cardinality(A) \in Nat /\ Cardinality(B) \in Nat
    BY <2>2, <2>3, FS_CardinalityType
  <2> QED BY <2>3, <2>4 DEF CountTo, A, B
<1>5. \A m, n \in I : CountTo(I, m) = CountTo(I, n) => m = n
  <2>1. \A m, n \in I : m < n \/ n < m \/ m = n
    BY <1>1
  <2>2. \A n \in I : CountTo(I, n) \in Nat
    BY <1>2, <1>3
  <2> QED BY <1>4, <2>1, <2>2
<1>6. count \in Injection(I, N)
  BY <1>3, <1>5 DEF Injection, IsInjective
<1>7. IsFiniteSet(N) /\ Cardinality(N) = Cardinality(I)
  BY <1>2, FS_Interval
<1>8. count \in Surjection(I, N)
  <2> HIDE DEF N, count
  <2> QED BY <1>2, <1>6, <1>7, FS_Injection
<1>9. \A k \in N : \E n \in I : CountTo(I, n) = k
  BY <1>8 DEF Surjection
<1>10. \A k \in N : at[k] \in I /\ CountTo(I, at[k]) = k
  BY <1>9
<1>11. at \in [N -> I] /\ \A j, k \in N : at[j] = at[k] => j = k
  BY <1>10
<1>12. Picked(s, I) = [k \in N |-> s[at[k]]]
  BY DEF Picked, CountTo
<1> HIDE DEF at, N, count
<1>13. Picked(s, I) \in Seq(S) /\ Len(Picked(s, I)) = Cardinality(I)
  <2>1. \A k \in N : s[at[k]] \in S
    BY <1>1, <1>11
  <2>2. Picked(s, I) \in [N -> S]
    BY <1>12, <2>1
  <2>3. Picked(s, I) \in [1..Cardinality(I) -> S]
    BY <2>2 DEF N
  <2> QED BY <1>2, <2>3, SeqDef, LenProperties
<1>14. \A k \in N : Picked(s, I)[k] = s[at[k]]
  BY <1>12
<1>15. 1..Len(Picked(s, I)) = N
  BY <1>13 DEF N
<1>16. \A n \in I : \E k \in N : at[k] = n
  BY <1>3, <1>5, <1>10
<1>17. TakenAt(at, Picked(s, I), s, I)
  BY <1>11, <1>14, <1>15, <1>16 DEF TakenAt
<1> QED BY <1>13, <1>17

-----------------------------------------------------------------------------
\* What is said of entries stays when the function does.
LEMMA SameEntries ==
    ASSUME UNCHANGED <<fn, insts>>
    PROVE  /\ Entries' = Entries
           /\ \A info : IsSortedInfo(info)' <=> IsSortedInfo(info)
           /\ \A info, k : SortedTo(info, k)' <=> SortedTo(info, k)
<1>1. Entries' = Entries
  <2>1. \A e : e \in Entries <=> \E b \in Blocks : e \in [bb : {b}, result : ResultsIn(b)]
    BY DEF Entries
  <2>2. \A e : e \in Entries' <=> \E b \in Blocks' : e \in [bb : {b}, result : ResultsIn(b)']
    BY DEF Entries
  <2>3. Blocks' = Blocks /\ \A b : ResultsIn(b)' = ResultsIn(b)
    BY SameFunction
  <2> QED BY <2>1, <2>2, <2>3
<1> QED BY <1>1 DEF IsSortedInfo, SortedTo, Less

\* Where a scan for a dirty result begins.
LEMMA ScanToRange ==
    ASSUME FunctionOK, NEW b \in Blocks, NEW r \in ResultsIn(b), IsDirty(r)
    PROVE  ScanTo(b, r) \in 0..Len(insts[b])
<1>1. Len(insts[b]) \in Nat
  BY LenProperties DEF FunctionOK
<1>2. CASE GetInst(r) = Null
  BY <1>1, <1>2 DEF ScanTo
<1>3. CASE GetInst(r) # Null
  <2>1. GetInst(r) \in Each(b)
    BY <1>3, ResultInst
  <2>2. PositionOf(GetInst(r)) \in 1..Len(insts[b])
    BY <2>1, InBlock, PlacesOfPresent DEF EachPlaced, Placed
  <2> QED BY <1>1, <1>3, <2>2 DEF ScanTo
<1> QED BY <1>2, <1>3

-----------------------------------------------------------------------------
LocalUnchanged == UNCHANGED <<localDeps, reverseLocalDeps>>

-----------------------------------------------------------------------------
\* Link gives a pair for a query exactly when the result has an instruction.
LEMMA LinkMembers ==
    ASSUME NEW dep, NEW query, NEW x
    PROVE  x \in Link(dep, query)
              <=> GetInst(dep) # Null /\ x = <<GetInst(dep), query>>
BY DEF Link

LEMMA InitMirror == Init => LocalMirror
BY DEF Init, LocalMirror, Empty

\* A step that leaves the local cache and its reverse map alone.
LEMMA UnchangedMirror == LocalMirror /\ LocalUnchanged => LocalMirror'
BY DEF LocalMirror, LocalUnchanged, Link, GetInst

LEMMA GetDependencyMirror ==
    ASSUME NEW q, LocalMirror, GetDependency(q)
    PROVE  LocalMirror'
<1> DEFINE dep == LocalDependency(q, ScanPos(q) - 1)
<1>1. /\ localDeps' = Put(localDeps, q, dep)
      /\ reverseLocalDeps' = (reverseLocalDeps \ Link(Cached(q), q)) \union Link(dep, q)
  BY DEF GetDependency
<1> HIDE DEF dep
<1>2. Cached(q) = IF q \in DOMAIN localDeps THEN localDeps[q] ELSE GetDirty(Null)
  BY DEF Cached
<1>3. Link(GetDirty(Null), q) = {}
  BY DEF Link, GetInst, GetDirty
<1>4. ASSUME NEW x
      PROVE  x \in reverseLocalDeps' <=> \E r \in DOMAIN localDeps' : x \in Link(localDeps'[r], r)
  <2>1. DOMAIN localDeps' = DOMAIN localDeps \union {q}
    BY <1>1 DEF Put
  <2>2. localDeps'[q] = dep
    BY <1>1 DEF Put
  <2>3. \A r \in DOMAIN localDeps \ {q} : localDeps'[r] = localDeps[r]
    BY <1>1 DEF Put
  <2>4. x \in reverseLocalDeps <=> \E r \in DOMAIN localDeps : x \in Link(localDeps[r], r)
    BY DEF LocalMirror
  <2>5. \A r, d, e : r # q /\ x \in Link(d, r) => x \notin Link(e, q)
    BY DEF Link
  <2> QED BY <1>1, <1>2, <1>3, <2>1, <2>2, <2>3, <2>4, <2>5
<1>5. reverseLocalDeps' = UNION {Link(localDeps'[r], r) : r \in DOMAIN localDeps'}
  BY <1>4
<1> QED BY <1>5 DEF LocalMirror, Link, GetInst

(***************************************************************************)
(* A removal.  Without what is cached for i itself, the reverse map holds     *)
(* what the other queries have; those that have i become dirty and have the   *)
(* next instruction, which exists because i is then no terminator.            *)
(***************************************************************************)
LEMMA WithoutMirror ==
    ASSUME NEW i, LocalMirror
    PROVE  \A x : x \in ReverseLocalWithout(i)
                    <=> \E r \in DOMAIN localDeps \ {i} : x \in Link(localDeps[r], r)
<1> SUFFICES ASSUME NEW x
             PROVE  x \in ReverseLocalWithout(i)
                       <=> \E r \in DOMAIN localDeps \ {i} : x \in Link(localDeps[r], r)
  OBVIOUS
<1>1. x \in reverseLocalDeps <=> \E r \in DOMAIN localDeps : x \in Link(localDeps[r], r)
  BY DEF LocalMirror
<1>2. \A r, d, e : r # i /\ x \in Link(d, r) => x \notin Link(e, i)
  BY DEF Link
<1>3. i \in DOMAIN localDeps => Cached(i) = localDeps[i]
  BY DEF Cached
<1>4. x \in ReverseLocalWithout(i) <=> x \in reverseLocalDeps /\ x \notin Link(Cached(i), i)
  BY DEF ReverseLocalWithout
<1> QED BY <1>1, <1>2, <1>3, <1>4

LEMMA DependentsHaveIt ==
    ASSUME NEW i, LocalMirror
    PROVE  \A r : r \in LocalDependents(i)
                    <=> /\ r \in DOMAIN localDeps \ {i}
                        /\ i # Null
                        /\ GetInst(localDeps[r]) = i
<1> SUFFICES ASSUME NEW r
             PROVE  r \in LocalDependents(i)
                       <=> /\ r \in DOMAIN localDeps \ {i}
                           /\ i # Null
                           /\ GetInst(localDeps[r]) = i
  OBVIOUS
<1>1. r \in LocalDependents(i) <=> \E x \in ReverseLocalWithout(i) : x[1] = i /\ x[2] = r
  BY DEF LocalDependents, Dependents
<1>2. \A x : x \in ReverseLocalWithout(i)
               <=> \E s \in DOMAIN localDeps \ {i} : x \in Link(localDeps[s], s)
  BY WithoutMirror
<1>3. \A s, x : x \in Link(localDeps[s], s)
                  => x[1] = GetInst(localDeps[s]) /\ x[2] = s /\ x[1] # Null
  BY LinkMembers
<1>4. ASSUME r \in DOMAIN localDeps \ {i}, i # Null, GetInst(localDeps[r]) = i
      PROVE  \E x \in ReverseLocalWithout(i) : x[1] = i /\ x[2] = r
  <2>1. <<i, r>> \in Link(localDeps[r], r)
    BY <1>4, LinkMembers
  <2>2. <<i, r>> \in ReverseLocalWithout(i)
    BY <1>2, <1>4, <2>1
  <2> QED BY <2>2
<1> QED BY <1>1, <1>2, <1>3, <1>4

LEMMA RemoveMirror ==
    ASSUME NEW i, LocalMirror, RemoveLocal(i),
           LocalDependents(i) # {} => NextOf(i) # Null
    PROVE  LocalMirror'
<1> DEFINE D == LocalDependents(i)
           next == NextOf(i)
<1>1. localDeps' = [q \in (DOMAIN localDeps \ {i}) \union D |->
                       IF q \in D THEN GetDirty(next) ELSE localDeps[q]]
  BY DEF RemoveLocal
<1>2. reverseLocalDeps' = (ReverseLocalWithout(i) \ From(ReverseLocalWithout(i), i))
                            \union (IF next = Null THEN {} ELSE {<<next, x>> : x \in D})
  BY DEF RemoveLocal, Moved
<1>3. \A r : r \in D <=> /\ r \in DOMAIN localDeps \ {i}
                          /\ i # Null
                          /\ GetInst(localDeps[r]) = i
  BY DependentsHaveIt
<1>4. D # {} => next # Null
  OBVIOUS
<1> HIDE DEF D, next
<1>5. DOMAIN localDeps' = DOMAIN localDeps \ {i}
  BY <1>1, <1>3
<1>6. \A r \in D : localDeps'[r] = GetDirty(next)
  BY <1>1
<1>7. \A r \in DOMAIN localDeps \ {i} : r \notin D => localDeps'[r] = localDeps[r]
  BY <1>1
<1>8. GetInst(GetDirty(next)) = next
  BY DEF GetInst, GetDirty
<1>9. ASSUME NEW x
      PROVE  x \in reverseLocalDeps' <=> \E r \in DOMAIN localDeps' : x \in Link(localDeps'[r], r)
  <2>1. x \in ReverseLocalWithout(i)
           <=> \E r \in DOMAIN localDeps \ {i} : x \in Link(localDeps[r], r)
    BY WithoutMirror
  <2>2. x \in From(ReverseLocalWithout(i), i) <=> x \in ReverseLocalWithout(i) /\ x[1] = i
    BY DEF From
  <2>3. ASSUME x \in reverseLocalDeps'
        PROVE  \E r \in DOMAIN localDeps' : x \in Link(localDeps'[r], r)
    <3>1. CASE x \in ReverseLocalWithout(i) /\ x[1] # i
      <4>1. PICK r \in DOMAIN localDeps \ {i} : x \in Link(localDeps[r], r)
        BY <2>1, <3>1
      <4>2. x[1] = GetInst(localDeps[r])
        BY <4>1, LinkMembers
      <4>3. r \notin D
        BY <1>3, <3>1, <4>2
      <4> QED BY <1>5, <1>7, <4>1, <4>3
    <3>2. CASE next # Null /\ \E r \in D : x = <<next, r>>
      <4>1. PICK r \in D : x = <<next, r>>
        BY <3>2
      <4>2. x \in Link(localDeps'[r], r)
        BY <1>6, <1>8, <3>2, <4>1, LinkMembers
      <4> QED BY <1>3, <1>5, <4>1, <4>2
    <3> QED BY <1>2, <2>2, <2>3, <3>1, <3>2
  <2>4. ASSUME NEW r \in DOMAIN localDeps', x \in Link(localDeps'[r], r)
        PROVE  x \in reverseLocalDeps'
    <3>1. CASE r \in D
      <4>1. next # Null
        BY <1>4, <3>1
      <4>2. x = <<next, r>>
        BY <1>6, <1>8, <2>4, <3>1, LinkMembers
      <4> QED BY <1>2, <3>1, <4>1, <4>2
    <3>2. CASE r \notin D
      <4>1. localDeps'[r] = localDeps[r]
        BY <1>5, <1>7, <3>2
      <4>2. /\ x[1] = GetInst(localDeps[r])
            /\ x[1] # Null
        BY <2>4, <4>1, LinkMembers
      <4>3. x[1] # i
        BY <1>3, <1>5, <3>2, <4>2
      <4>4. x \in ReverseLocalWithout(i)
        BY <1>5, <2>1, <2>4, <4>1
      <4> QED BY <1>2, <2>2, <4>3, <4>4
    <3> QED BY <3>1, <3>2
  <2> QED BY <2>3, <2>4
<1>10. reverseLocalDeps' = UNION {Link(localDeps'[r], r) : r \in DOMAIN localDeps'}
  BY <1>9
<1> QED BY <1>10 DEF LocalMirror, Link, GetInst

-----------------------------------------------------------------------------
(***************************************************************************)
(* All other steps.                                                           *)
(***************************************************************************)
LEMMA ClientMirror == LocalMirror /\ Client => LocalMirror'
<1> SUFFICES ASSUME LocalMirror, Client
             PROVE  LocalMirror'
  OBVIOUS
<1>1. ASSUME NEW q \in fn.queries, GetCachedDependency(q)
      PROVE  LocalMirror'
  BY <1>1, UnchangedMirror DEF GetCachedDependency, caches, LocalUnchanged
<1>2. ASSUME NEW q \in fn.queries, GetDependency(q)
      PROVE  LocalMirror'
  BY <1>2, GetDependencyMirror
<1>3. ASSUME NEW q \in fn.queries, GetCachedCallDependency(q)
      PROVE  LocalMirror'
  BY <1>3, UnchangedMirror DEF GetCachedCallDependency, caches, LocalUnchanged
<1>4. ASSUME NEW q \in fn.queries, GetNonLocalCallDependency(q)
      PROVE  LocalMirror'
  BY <1>4, UnchangedMirror DEF GetNonLocalCallDependency, LocalUnchanged
<1>5. ASSUME NEW query \in fn.pointerQueries, AskPointer(query)
      PROVE  LocalMirror'
  BY <1>5, UnchangedMirror DEF AskPointer, caches, LocalUnchanged
<1>6. ASSUME NEW i \in fn.removable, RemoveInstruction(i)
      PROVE  LocalMirror'
  <2>1. RemoveLocal(i) /\ (LocalDependents(i) # {} => NextOf(i) # Null)
    BY <1>6 DEF RemoveInstruction, RemovalInSync
  <2> QED BY <2>1, RemoveMirror
<1>7. ASSUME NEW p, InvalidateCachedPointerInfo(p)
      PROVE  LocalMirror'
  BY <1>7, UnchangedMirror DEF InvalidateCachedPointerInfo, LocalUnchanged
<1>8. CASE ReleaseMemory
  <2>1. localDeps' = Empty /\ reverseLocalDeps' = {}
    BY <1>8 DEF ReleaseMemory
  <2> QED BY <2>1 DEF LocalMirror, Empty
<1> QED BY <1>1, <1>2, <1>3, <1>4, <1>5, <1>6, <1>7, <1>8 DEF Client

LEMMA CallStepLeavesLocal == CallStep => LocalUnchanged
BY DEF CallStep, SkipDirtyBlock, ScanDirtyBlock, EndCallQuery, caches, LocalUnchanged

LEMMA PointerStepLeavesLocal == PointerStep => LocalUnchanged
<1> SUFFICES ASSUME PointerStep
             PROVE  LocalUnchanged
  OBVIOUS
<1>1. CASE ThrowOutSmaller \/ RestartWithSize \/ ThrowOutTagged \/ RestartWithoutTag
  BY <1>1 DEF ThrowOutSmaller, RestartWithSize, ThrowOutTagged, RestartWithoutTag, caches,
              LocalUnchanged
<1>2. CASE ReturnCached \/ ReturnConflict \/ Begin
  BY <1>2 DEF ReturnCached, ReturnConflict, Begin, caches, LocalUnchanged
<1>3. CASE Lookup \/ SkipFirstBlock \/ PassUntranslated \/ PassTranslated
  BY <1>3 DEF Lookup, SkipFirstBlock, PassUntranslated, PassTranslated, caches, LocalUnchanged
<1>4. CASE UnknownPred \/ Recurse \/ PredsDone
  BY <1>4 DEF UnknownPred, Recurse, PredsDone, caches, LocalUnchanged
<1>5. CASE TranslationFailsAtFirst \/ TranslationFails \/ Return \/ EndPointerQuery
  BY <1>5 DEF TranslationFailsAtFirst, TranslationFails, Return, EndPointerQuery, caches,
              LocalUnchanged
<1> QED BY <1>1, <1>2, <1>3, <1>4, <1>5 DEF PointerStep

LEMMA FailureLeavesLocal == RequestFails \/ StepFails => LocalUnchanged
BY DEF RequestFails, StepFails, Fail, caches, LocalUnchanged

LEMMA LocalMirrorStep == LocalMirror /\ [Next]_vars => LocalMirror'
<1> SUFFICES ASSUME LocalMirror, [Next]_vars
             PROVE  LocalMirror'
  OBVIOUS
<1>1. CASE Client
  BY <1>1, ClientMirror
<1>2. CASE CallStep
  BY <1>2, CallStepLeavesLocal, UnchangedMirror
<1>3. CASE PointerStep
  BY <1>3, PointerStepLeavesLocal, UnchangedMirror
<1>4. CASE RequestFails \/ StepFails
  BY <1>4, FailureLeavesLocal, UnchangedMirror
<1>5. CASE UNCHANGED vars
  BY <1>5, UnchangedMirror DEF vars, caches, LocalUnchanged
<1> QED BY <1>1, <1>2, <1>3, <1>4, <1>5 DEF Next

\* The reverse map of the local cache holds exactly the pairs of an instruction
\* and a query whose result has it (RemoveFromReverseMap, line 258): none is
\* lost, and none is left, by any sequence of queries and removals.
THEOREM LocalCacheMirrored == Spec => []LocalMirror
BY InitMirror, LocalMirrorStep, PTL DEF Spec

-----------------------------------------------------------------------------
(***************************************************************************)
(* The function: only a removal changes it.                                   *)
(***************************************************************************)
FunctionUnchanged == UNCHANGED <<fn, insts>>

LEMMA RemovalRemoves ==
    ASSUME NEW i, RemoveInstruction(i)
    PROVE  Removed(i)
BY DEF RemoveInstruction, Removed, Removable

LEMMA ClientLeavesFunction ==
    Client => FunctionUnchanged \/ \E i \in fn.removable : RemoveInstruction(i)
<1> SUFFICES ASSUME Client
             PROVE  FunctionUnchanged \/ \E i \in fn.removable : RemoveInstruction(i)
  OBVIOUS
<1>1. ASSUME NEW q, GetCachedDependency(q) \/ GetDependency(q)
      PROVE  FunctionUnchanged
  BY <1>1 DEF GetCachedDependency, GetDependency, FunctionUnchanged
<1>2. ASSUME NEW q, GetCachedCallDependency(q) \/ GetNonLocalCallDependency(q)
      PROVE  FunctionUnchanged
  BY <1>2 DEF GetCachedCallDependency, GetNonLocalCallDependency, FunctionUnchanged
<1>3. ASSUME NEW query, AskPointer(query)
      PROVE  FunctionUnchanged
  BY <1>3 DEF AskPointer, FunctionUnchanged
<1>4. ASSUME NEW p, InvalidateCachedPointerInfo(p)
      PROVE  FunctionUnchanged
  BY <1>4 DEF InvalidateCachedPointerInfo, FunctionUnchanged
<1>5. ReleaseMemory => FunctionUnchanged
  BY DEF ReleaseMemory, FunctionUnchanged
<1> QED BY <1>1, <1>2, <1>3, <1>4, <1>5 DEF Client

LEMMA QueryStepsLeaveFunction ==
    CallStep \/ PointerStep \/ RequestFails \/ StepFails => FunctionUnchanged
<1>1. CallStep => FunctionUnchanged
  BY DEF CallStep, SkipDirtyBlock, ScanDirtyBlock, EndCallQuery, FunctionUnchanged
<1>2. ThrowOutSmaller \/ RestartWithSize \/ ThrowOutTagged \/ RestartWithoutTag => FunctionUnchanged
  BY DEF ThrowOutSmaller, RestartWithSize, ThrowOutTagged, RestartWithoutTag, FunctionUnchanged
<1>3. ReturnCached \/ ReturnConflict \/ Begin \/ Lookup \/ SkipFirstBlock => FunctionUnchanged
  BY DEF ReturnCached, ReturnConflict, Begin, Lookup, SkipFirstBlock, FunctionUnchanged
<1>4. PassUntranslated \/ PassTranslated \/ UnknownPred \/ Recurse \/ PredsDone => FunctionUnchanged
  BY DEF PassUntranslated, PassTranslated, UnknownPred, Recurse, PredsDone, FunctionUnchanged
<1>5. TranslationFailsAtFirst \/ TranslationFails \/ Return \/ EndPointerQuery => FunctionUnchanged
  BY DEF TranslationFailsAtFirst, TranslationFails, Return, EndPointerQuery, FunctionUnchanged
<1>6. RequestFails \/ StepFails => FunctionUnchanged
  BY DEF RequestFails, StepFails, Fail, FunctionUnchanged
<1> QED BY <1>1, <1>2, <1>3, <1>4, <1>5, <1>6 DEF PointerStep

\* A step leaves the function alone or removes one instruction.
LEMMA StepsOfFunction ==
    [Next]_vars => FunctionUnchanged \/ \E i \in fn.removable : RemoveInstruction(i)
BY ClientLeavesFunction, QueryStepsLeaveFunction DEF Next, vars, FunctionUnchanged

LEMMA FunctionStep == FunctionOK /\ [Next]_vars => FunctionOK'
BY StepsOfFunction, RemovalRemoves, RemovedFunction, SameFunction DEF FunctionUnchanged

\* An instruction is at one place of one block, whatever is removed.
THEOREM FunctionStaysOK == Spec => []FunctionOK
BY InitFunction, FunctionStep, PTL DEF Spec

-----------------------------------------------------------------------------
(***************************************************************************)
(* The local cache holds results of the block of each query.                  *)
(***************************************************************************)
LocalOK == \A q \in DOMAIN localDeps : q \in Present /\ localDeps[q] \in ResultsIn(BlockOf(q))

LEMMA GetDependencyLocal ==
    ASSUME FunctionOK, LocalOK, NEW q, GetDependency(q)
    PROVE  LocalOK'
<1> DEFINE dep == LocalDependency(q, ScanPos(q) - 1)
<1>1. /\ localDeps' = Put(localDeps, q, dep)
      /\ q \in Present /\ IsDirty(Cached(q)) /\ UNCHANGED <<fn, insts>>
  BY DEF GetDependency
<1>2. Placed /\ EachPlaced /\ BlockOf(q) \in Blocks
  BY <1>1, PlacesOfPresent, InBlock DEF Placed
<1>3. GetInst(Cached(q)) \in Each(BlockOf(q)) \union {Null}
  <2>1. CASE q \in DOMAIN localDeps
    BY <1>1, <1>2, <2>1, ResultInst DEF LocalOK, Cached
  <2>2. CASE q \notin DOMAIN localDeps
    BY <2>2 DEF Cached, GetDirty, GetInst
  <2> QED BY <2>1, <2>2
<1>4. ScanPos(q) \in 1..Len(insts[BlockOf(q)])
  BY <1>1, <1>2, <1>3 DEF ScanPos, Placed, EachPlaced
<1>5. Len(insts[BlockOf(q)]) \in Nat
  BY <1>2, LenProperties DEF FunctionOK
<1>6. ScanPos(q) - 1 \in 0..Len(insts[BlockOf(q)])
  BY <1>4, <1>5
<1>7. dep \in FoundIn(BlockOf(q)) \union Constants
  BY <1>1, <1>6, LocalDependencyResult
<1> HIDE DEF dep
<1>8. dep \in ResultsIn(BlockOf(q))
  BY <1>7 DEF ResultsIn, FoundIn
<1> QED BY <1>1, <1>8, SameFunction DEF LocalOK, Put

LEMMA RemoveLocalOK ==
    ASSUME FunctionOK, LocalMirror, LocalOK, NEW i, Removed(i), RemoveLocal(i)
    PROVE  LocalOK'
<1> DEFINE D == LocalDependents(i)
<1>1. \A r : r \in D <=> /\ r \in DOMAIN localDeps \ {i}
                          /\ i # Null
                          /\ GetInst(localDeps[r]) = i
  BY DependentsHaveIt
<1>2. localDeps' = [q \in (DOMAIN localDeps \ {i}) \union D |->
                       IF q \in D THEN GetDirty(NextOf(i)) ELSE localDeps[q]]
  BY DEF RemoveLocal
<1> HIDE DEF D
<1>3. Placed /\ EachPlaced /\ i \in Present /\ i # Null
  BY PlacesOfPresent, InBlock DEF Placed, NoInstructions, Removed
<1>4. Present' = Present \ {i} /\ \A j \in Present \ {i} : BlockOf(j)' = BlockOf(j)
  BY RemovedPlaces
<1>5. ASSUME NEW q \in DOMAIN localDeps'
      PROVE  q \in Present' /\ localDeps'[q] \in ResultsIn(BlockOf(q))'
  <2>1. q \in DOMAIN localDeps \ {i} /\ q \in Present \ {i}
    BY <1>1, <1>2 DEF LocalOK
  <2>2. PICK b \in Blocks : b = BlockOf(q)
    BY <1>3, <2>1 DEF Placed
  <2>3. localDeps[q] \in ResultsIn(b) /\ BlockOf(q)' = b
    BY <1>4, <2>1, <2>2 DEF LocalOK
  <2>4. CASE q \in D
    <3>1. GetInst(localDeps[q]) \in Each(b)
      BY <1>1, <1>3, <2>3, <2>4, ResultInst
    <3>2. BlockOf(i) = b
      BY <1>1, <1>3, <2>4, <3>1 DEF EachPlaced
    <3>3. localDeps'[q] \in ResultsIn(b)'
      BY <1>2, <2>4, <3>2, RemovedResults
    <3> QED BY <1>4, <2>1, <2>3, <3>3
  <2>5. CASE q \notin D
    <3>1. GetInst(localDeps[q]) # i /\ localDeps'[q] = localDeps[q]
      BY <1>1, <1>2, <1>3, <2>1, <2>5
    <3>2. localDeps'[q] \in ResultsIn(b)'
      BY <2>3, <3>1, RemovedResults
    <3> QED BY <1>4, <2>1, <2>3, <3>2
  <2> QED BY <2>4, <2>5
<1> QED BY <1>5 DEF LocalOK

LEMMA ReleasedLocalOK == ReleaseMemory => LocalOK'
BY DEF ReleaseMemory, LocalOK, Empty

LEMMA SameLocalOK == LocalOK /\ FunctionUnchanged /\ LocalUnchanged => LocalOK'
BY SameFunction DEF LocalOK, FunctionUnchanged, LocalUnchanged

\* A step that is none of these leaves the local cache alone.
LEMMA StepsOfLocal ==
    Next => \/ LocalUnchanged
            \/ \E q \in fn.queries : GetDependency(q)
            \/ \E i \in fn.removable : RemoveInstruction(i)
            \/ ReleaseMemory
<1>1. ASSUME NEW q, GetCachedDependency(q) \/ GetCachedCallDependency(q)
                      \/ GetNonLocalCallDependency(q)
      PROVE  LocalUnchanged
  BY <1>1 DEF GetCachedDependency, GetCachedCallDependency, GetNonLocalCallDependency, caches,
              LocalUnchanged
<1>2. ASSUME NEW query, AskPointer(query)
      PROVE  LocalUnchanged
  BY <1>2 DEF AskPointer, caches, LocalUnchanged
<1>3. ASSUME NEW p, InvalidateCachedPointerInfo(p)
      PROVE  LocalUnchanged
  BY <1>3 DEF InvalidateCachedPointerInfo, LocalUnchanged
<1> QED BY <1>1, <1>2, <1>3, CallStepLeavesLocal, PointerStepLeavesLocal, FailureLeavesLocal
        DEF Next, Client

LEMMA LocalOKStep == FunctionOK /\ LocalMirror /\ LocalOK /\ [Next]_vars => LocalOK'
<1> SUFFICES ASSUME FunctionOK, LocalMirror, LocalOK, [Next]_vars
             PROVE  LocalOK'
  OBVIOUS
<1>1. ASSUME NEW i, RemoveInstruction(i)
      PROVE  LocalOK'
  <2>1. Removed(i) /\ RemoveLocal(i)
    BY <1>1, RemovalRemoves DEF RemoveInstruction
  <2> QED BY <2>1, RemoveLocalOK
<1>2. CASE LocalUnchanged
  BY <1>1, <1>2, StepsOfFunction, SameLocalOK
<1>3. UNCHANGED vars => LocalUnchanged
  BY DEF vars, caches, LocalUnchanged
<1> QED BY <1>1, <1>2, <1>3, StepsOfLocal, GetDependencyLocal, ReleasedLocalOK

-----------------------------------------------------------------------------
(***************************************************************************)
(* The caches of calls.  What is added to a cache while a query runs is for   *)
(* blocks that the query has seen, so that it is not added again.             *)
(***************************************************************************)
CallInfos == [q \in DOMAIN nonLocalDeps |-> nonLocalDeps[q].info]

CallCachesOK ==
    \A q \in DOMAIN nonLocalDeps :
        /\ q \in Present
        /\ nonLocalDeps[q] \in [info : Seq(Entries), dirty : BOOLEAN]
        /\ Distinct(nonLocalDeps[q].info)
CallsMirrored == Mirrored(Present, reverseNonLocalDeps, CallInfos)
JobOK ==
    pc = "call" =>
        /\ job \in [query : DOMAIN nonLocalDeps, dirtyBlocks : Seq(Blocks), seen : SUBSET Blocks,
                    sorted : 0..Len(JobInfo)]
        /\ SortedTo(JobInfo, job.sorted)
        /\ \A n \in job.sorted + 1..Len(JobInfo) : JobInfo[n].bb \in job.seen
CallsOK == CallCachesOK /\ CallsMirrored /\ JobOK

CallsUnchanged ==
    /\ UNCHANGED <<fn, insts, nonLocalDeps, reverseNonLocalDeps>>
    /\ UNCHANGED <<pc, job>> \/ pc' # "call"

LEMMA InitCalls == Init => CallsOK
BY DEF Init, Empty, CallsOK, CallCachesOK, CallsMirrored, CallInfos, Mirrored, JobOK

LEMMA SameCallCaches ==
    ASSUME UNCHANGED <<fn, insts, nonLocalDeps, reverseNonLocalDeps>>, CallCachesOK, CallsMirrored
    PROVE  CallCachesOK' /\ CallsMirrored'
<1>1. Present' = Present /\ Entries' = Entries /\ CallInfos' = CallInfos
  BY SameFunction, SameEntries DEF CallInfos
<1>2. CallCachesOK'
  BY <1>1 DEF CallCachesOK, Distinct
<1>3. CallsMirrored'
  BY <1>1 DEF CallsMirrored, Mirrored, Has, GetInst
<1> QED BY <1>2, <1>3

LEMMA SameCalls ==
    ASSUME CallsOK, CallsUnchanged
    PROVE  CallsOK'
<1>1. CallCachesOK' /\ CallsMirrored'
  BY SameCallCaches DEF CallsOK, CallsUnchanged
<1>2. ASSUME UNCHANGED <<pc, job>>
      PROVE  JobOK'
  <2>1. Blocks' = Blocks /\ JobInfo' = JobInfo
    BY <1>2, SameFunction DEF JobInfo, CallsUnchanged
  <2>2. \A info, k : SortedTo(info, k)' <=> SortedTo(info, k)
    BY SameEntries DEF CallsUnchanged
  <2> QED BY <1>2, <2>1, <2>2 DEF JobOK, CallsOK, CallsUnchanged, SortedTo, Less
<1>3. pc' # "call" => JobOK'
  BY DEF JobOK
<1> QED BY <1>1, <1>2, <1>3 DEF CallsOK, CallsUnchanged

(***************************************************************************)
(* A query of a call.                                                         *)
(***************************************************************************)
LEMMA BeginCallOK ==
    ASSUME FunctionOK, CallsOK, NEW q, GetNonLocalCallDependency(q)
    PROVE  CallsOK'
<1> DEFINE info == CallInfo(q).info
           new == SortAll(info)
           begin == IF info = <<>> THEN Preds(BlockOf(q)) ELSE DirtyBlocksIn(info)
<1>1. /\ q \in Present /\ UNCHANGED <<fn, insts, reverseNonLocalDeps>> /\ pc' = "call"
      /\ nonLocalDeps' = Put(nonLocalDeps, q, [CallInfo(q) EXCEPT !.info = new])
      /\ job' = [query |-> q, dirtyBlocks |-> begin, seen |-> {}, sorted |-> Len(info)]
  BY DEF GetNonLocalCallDependency, CallQuery
<1>2. CallInfo(q) \in [info : Seq(Entries), dirty : BOOLEAN] /\ Distinct(info)
  <2>1. CASE q \in DOMAIN nonLocalDeps
    BY <2>1 DEF CallsOK, CallCachesOK, CallInfo
  <2>2. CASE q \notin DOMAIN nonLocalDeps
    <3>1. <<>> \in Seq(Entries) /\ Len(<<>>) = 0
      BY EmptySeq
    <3> QED BY <2>2, <3>1 DEF CallInfo, NoInfo, Distinct
  <2> QED BY <2>1, <2>2
<1>3. info \in Seq(Entries)
  BY <1>2
<1>4. Permutes(new, info) /\ IsSortedInfo(new)
  BY <1>3, SortAllSorts
<1>5. begin \in Seq(Blocks)
  <2>1. Preds(BlockOf(q)) \in Seq(Blocks)
    BY <1>1, PlacesOfPresent, FunctionsAssumption DEF Placed, FunctionOK, Blocks, Preds
  <2>2. BlocksIn(info) \in Seq(Blocks) /\ Len(BlocksIn(info)) = Len(info) /\ DOMAIN info = 1..Len(info)
    <3>1. Len(info) \in Nat /\ DOMAIN info = 1..Len(info) /\ \A n \in 1..Len(info) : info[n] \in Entries
      BY <1>3, CacheFields
    <3>2. \A n \in 1..Len(info) : info[n].bb \in Blocks
      BY <3>1, EntryFields
    <3> HIDE DEF info
    <3> QED BY <3>1, <3>2 DEF BlocksIn
  <2>3. {n \in DOMAIN info : IsDirty(info[n].result)} \subseteq 1..Len(BlocksIn(info))
    BY <2>2
  <2>4. DirtyBlocksIn(info) \in Seq(Blocks)
    BY <2>2, <2>3, PickedProperties DEF DirtyBlocksIn
  <2> QED BY <2>1, <2>4
<1> HIDE DEF begin
<1>6. [CallInfo(q) EXCEPT !.info = new] = [info |-> new, dirty |-> CallInfo(q).dirty]
  BY <1>2
<1>7. /\ DOMAIN nonLocalDeps' = DOMAIN nonLocalDeps \union {q}
      /\ nonLocalDeps'[q] = [info |-> new, dirty |-> CallInfo(q).dirty]
      /\ \A r \in DOMAIN nonLocalDeps \ {q} : nonLocalDeps'[r] = nonLocalDeps[r]
  BY <1>1, <1>6 DEF Put
<1>8. Present' = Present /\ Entries' = Entries /\ Blocks' = Blocks
  BY <1>1, SameFunction, SameEntries
<1>9. new \in Seq(Entries) /\ Distinct(new) /\ Len(new) = Len(info) /\ Len(info) \in Nat
  BY <1>2, <1>3, <1>4, CacheFields DEF Permutes
<1>10. \A i : Has(new, i) <=> Has(info, i)
  BY <1>4, PermutesHas
<1>11. q \in DOMAIN nonLocalDeps => info = nonLocalDeps[q].info
  BY DEF CallInfo
<1>12. q \notin DOMAIN nonLocalDeps => info = <<>>
  BY DEF CallInfo, NoInfo
<1> HIDE DEF info, new
<1>13. CallCachesOK'
  <2>1. \A r \in DOMAIN nonLocalDeps' :
           /\ r \in Present
           /\ nonLocalDeps'[r] \in [info : Seq(Entries), dirty : BOOLEAN]
           /\ Distinct(nonLocalDeps'[r].info)
    BY <1>1, <1>2, <1>7, <1>9 DEF CallsOK, CallCachesOK
  <2> QED BY <1>8, <2>1 DEF CallCachesOK, Distinct
<1>14. CallsMirrored'
  <2> DEFINE N == [r \in DOMAIN nonLocalDeps' |-> nonLocalDeps'[r].info]
  <2>1. DOMAIN CallInfos = DOMAIN nonLocalDeps
        /\ \A r \in DOMAIN nonLocalDeps : CallInfos[r] = nonLocalDeps[r].info
    BY DEF CallInfos
  <2>2. DOMAIN N = DOMAIN nonLocalDeps \union {q} /\ N[q] = new
        /\ \A r \in DOMAIN nonLocalDeps \ {q} : N[r] = CallInfos[r]
    BY <1>7, <2>1
  <2>3. \A r \in DOMAIN nonLocalDeps : \A i : Has(N[r], i) <=> Has(CallInfos[r], i)
    BY <1>10, <1>11, <2>1, <2>2
  <2>4. q \notin DOMAIN nonLocalDeps => \A i : ~Has(N[q], i)
    BY <1>10, <1>12, <2>2 DEF Has
  <2>5. N = CallInfos'
    BY DEF CallInfos
  <2> HIDE DEF N
  <2>6. Mirrored(Present, reverseNonLocalDeps, N)
    BY <2>1, <2>2, <2>3, <2>4 DEF CallsOK, CallsMirrored, Mirrored
  <2> QED BY <1>1, <1>8, <2>5, <2>6 DEF CallsMirrored, Mirrored, Has, GetInst
<1>15. JobOK'
  <2>1. JobInfo' = new
    BY <1>1, <1>7 DEF JobInfo
  <2>2. SortedTo(new, Len(new)) /\ \A n \in Len(new) + 1..Len(new) : FALSE
    BY <1>4, <1>9 DEF SortedTo, IsSortedInfo
  <2>3. job' \in [query : DOMAIN nonLocalDeps', dirtyBlocks : Seq(Blocks), seen : SUBSET Blocks,
                  sorted : 0..Len(new)]
    BY <1>1, <1>5, <1>7, <1>9
  <2>4. job'.sorted = Len(new)
    BY <1>1, <1>9
  <2>5. SortedTo(JobInfo, job.sorted)'
    BY <1>1, <2>1, <2>2, <2>4 DEF SortedTo, Less
  <2>6. \A n \in (job.sorted + 1..Len(JobInfo))' : FALSE
    BY <1>9, <2>1, <2>4
  <2> QED BY <1>8, <2>1, <2>3, <2>5, <2>6 DEF JobOK
<1> QED BY <1>13, <1>14, <1>15 DEF CallsOK

\* What a step of a running query has.
LEMMA RunningCall ==
    ASSUME FunctionOK, CallsOK, InCall, job.dirtyBlocks # <<>>
    PROVE  /\ job = [query |-> job.query, dirtyBlocks |-> job.dirtyBlocks, seen |-> job.seen,
                     sorted |-> job.sorted]
           /\ job.query \in DOMAIN nonLocalDeps /\ job.query \in Present
           /\ JobInfo \in Seq(Entries) /\ Distinct(JobInfo) /\ job.sorted \in 0..Len(JobInfo)
           /\ nonLocalDeps[job.query] = [info |-> JobInfo, dirty |-> nonLocalDeps[job.query].dirty]
           /\ nonLocalDeps[job.query].dirty \in BOOLEAN
           /\ DirtyBB \in Blocks /\ Popped \in Seq(Blocks) /\ job.seen \subseteq Blocks
<1>1. pc = "call"
  BY DEF InCall
<1>2. /\ job \in [query : DOMAIN nonLocalDeps, dirtyBlocks : Seq(Blocks), seen : SUBSET Blocks,
                  sorted : 0..Len(JobInfo)]
  BY <1>1 DEF CallsOK, JobOK
<1>3. DirtyBB \in Blocks /\ Popped \in Seq(Blocks)
  BY <1>2, FrontProperties DEF DirtyBB, Popped
<1> QED BY <1>2, <1>3 DEF CallsOK, CallCachesOK, JobInfo

LEMMA SkipDirtyBlockOK ==
    ASSUME FunctionOK, CallsOK, SkipDirtyBlock
    PROVE  CallsOK'
<1>1. InCall /\ job.dirtyBlocks # <<>> /\ UNCHANGED <<fn, insts, nonLocalDeps, reverseNonLocalDeps, pc>>
      /\ job' = [job EXCEPT !.dirtyBlocks = Popped, !.seen = @ \union {DirtyBB}]
  BY DEF SkipDirtyBlock, caches
<1>2. /\ job = [query |-> job.query, dirtyBlocks |-> job.dirtyBlocks, seen |-> job.seen,
                sorted |-> job.sorted]
      /\ job.query \in DOMAIN nonLocalDeps /\ job.sorted \in 0..Len(JobInfo)
      /\ DirtyBB \in Blocks /\ Popped \in Seq(Blocks) /\ job.seen \subseteq Blocks
  BY <1>1, RunningCall
<1>3. job' = [query |-> job.query, dirtyBlocks |-> Popped, seen |-> job.seen \union {DirtyBB},
              sorted |-> job.sorted]
  BY <1>1, <1>2
<1>4. SortedTo(JobInfo, job.sorted)
      /\ \A n \in job.sorted + 1..Len(JobInfo) : JobInfo[n].bb \in job.seen
  BY <1>1 DEF CallsOK, JobOK, InCall
<1>5. CallCachesOK' /\ CallsMirrored'
  BY <1>1, SameCallCaches DEF CallsOK
<1>6. JobInfo' = JobInfo /\ Blocks' = Blocks
  BY <1>1, <1>3, SameFunction DEF JobInfo
<1>7. SortedTo(JobInfo, job.sorted)'
  BY <1>1, <1>3, <1>4, <1>6 DEF SortedTo, Less
<1> QED BY <1>1, <1>2, <1>3, <1>4, <1>5, <1>6, <1>7 DEF CallsOK, JobOK

LEMMA ScanDirtyBlockOK ==
    ASSUME FunctionOK, CallsOK, ScanDirtyBlock
    PROVE  CallsOK'
<1> DEFINE q == job.query
           b == DirtyBB
           info == JobInfo
           sorted == job.sorted
           former == Former(info, sorted, b)
           dep == CallSiteDependency(q, b, ScanTo(b, former))
           new == SetResult(info, sorted, b, dep)
           links == IF Transparent(dep) THEN {} ELSE Link(dep, q)
           next == Popped \o (IF Transparent(dep) THEN Preds(b) ELSE <<>>)
<1>1. /\ InCall /\ job.dirtyBlocks # <<>> /\ ~IsDone(b) /\ UNCHANGED <<fn, insts, pc>>
      /\ reverseNonLocalDeps' = (reverseNonLocalDeps \ Link(former, q)) \union links
  BY DEF ScanDirtyBlock, JobInfo
<1>16. nonLocalDeps' = [nonLocalDeps EXCEPT ![q].info = new]
  BY DEF ScanDirtyBlock, JobInfo
<1>17. job' = [job EXCEPT !.dirtyBlocks = next, !.seen = @ \union {b}]
  BY DEF ScanDirtyBlock, JobInfo
<1>2. /\ job = [query |-> q, dirtyBlocks |-> job.dirtyBlocks, seen |-> job.seen, sorted |-> sorted]
      /\ q \in DOMAIN nonLocalDeps /\ q \in Present
      /\ info \in Seq(Entries) /\ Distinct(info) /\ sorted \in 0..Len(info)
      /\ nonLocalDeps[q] = [info |-> info, dirty |-> nonLocalDeps[q].dirty]
      /\ nonLocalDeps[q].dirty \in BOOLEAN
      /\ b \in Blocks /\ Popped \in Seq(Blocks) /\ job.seen \subseteq Blocks
  BY <1>1, RunningCall
<1>3. SortedTo(info, sorted) /\ \A n \in sorted + 1..Len(info) : info[n].bb \in job.seen
  BY <1>1 DEF CallsOK, JobOK, InCall
<1>4. b \notin job.seen /\ \A n \in Found(info, sorted, b) : IsDirty(info[n].result)
  BY <1>1 DEF IsDone
<1>5. former \in ResultsIn(b) /\ IsDirty(former)
  <2>1. IsDirty(GetDirty(Null))
    BY DEF IsDirty, GetDirty
  <2> HIDE DEF info, b, sorted
  <2> QED BY <1>2, <1>4, <2>1, FormerResult
<1>6. dep \in ResultsIn(b)
  <2>1. dep \in FoundIn(b) \union Constants
    BY <1>2, <1>5, ScanToRange, CallSiteDependencyResult
  <2> QED BY <2>1 DEF ResultsIn, FoundIn
<1>7. next \in Seq(Blocks)
  <2>1. Preds(b) \in Seq(Blocks)
    BY <1>2, FunctionsAssumption DEF FunctionOK, Blocks, Preds
  <2>2. (IF Transparent(dep) THEN Preds(b) ELSE <<>>) \in Seq(Blocks)
    BY <2>1, EmptySeq
  <2> QED BY <1>2, <2>2, ConcatProperties
<1>8. links \subseteq Link(dep, q) /\ (GetInst(dep) \in Present => Link(dep, q) \subseteq links)
  <2>1. "NonLocal" \notin Present
    BY PlacesOfPresent DEF Placed, NoInstructions
  <2> QED BY <2>1 DEF Transparent, NonLocal, GetInst
<1> HIDE DEF q, b, info, sorted, dep, links, next
<1>9. /\ new \in Seq(Entries) /\ SortedTo(new, sorted) /\ Distinct(new)
      /\ Len(new) = IF Found(info, sorted, b) = {} THEN Len(info) + 1 ELSE Len(info)
      /\ \A n \in 1..Len(info) : new[n].bb = info[n].bb
      /\ Found(info, sorted, b) = {} => new[Len(info) + 1] = [bb |-> b, result |-> dep]
  <2>1. \A n \in sorted + 1..Len(info) : info[n].bb # b
    BY <1>3, <1>4
  <2> QED BY <1>2, <1>3, <1>6, <2>1, SetResultSets, SetResultKeeps
<1>10. Mirrored(Present, reverseNonLocalDeps', Put(CallInfos, q, new))
  <2>1. info = IF q \in DOMAIN CallInfos THEN CallInfos[q] ELSE <<>>
    BY <1>2 DEF CallInfos, info, q, JobInfo
  <2>2. Mirrored(Present, reverseNonLocalDeps, CallInfos)
    BY DEF CallsOK, CallsMirrored
  <2> QED BY <1>1, <1>2, <1>6, <1>8, <2>1, <2>2, MirroredSet
<1> HIDE DEF new, former
<1>11. /\ DOMAIN nonLocalDeps' = DOMAIN nonLocalDeps
       /\ nonLocalDeps'[q] = [info |-> new, dirty |-> nonLocalDeps[q].dirty]
       /\ \A r \in DOMAIN nonLocalDeps \ {q} : nonLocalDeps'[r] = nonLocalDeps[r]
  BY <1>2, <1>16
<1>12. Present' = Present /\ Entries' = Entries /\ Blocks' = Blocks
  BY <1>1, SameFunction, SameEntries
<1>13. CallCachesOK'
  <2>1. \A r \in DOMAIN nonLocalDeps' :
           /\ r \in Present
           /\ nonLocalDeps'[r] \in [info : Seq(Entries), dirty : BOOLEAN]
           /\ Distinct(nonLocalDeps'[r].info)
    <3>1. ASSUME NEW r \in DOMAIN nonLocalDeps, r # q
          PROVE  /\ r \in Present
                 /\ nonLocalDeps'[r] \in [info : Seq(Entries), dirty : BOOLEAN]
                 /\ Distinct(nonLocalDeps'[r].info)
      BY <1>11, <3>1 DEF CallsOK, CallCachesOK
    <3>2. /\ nonLocalDeps'[q] \in [info : Seq(Entries), dirty : BOOLEAN]
          /\ nonLocalDeps'[q].info = new
      BY <1>2, <1>9, <1>11
    <3> QED BY <1>2, <1>9, <1>11, <3>1, <3>2
  <2> QED BY <1>12, <2>1 DEF CallCachesOK, Distinct
<1>14. CallsMirrored'
  <2>1. CallInfos' = Put(CallInfos, q, new)
    <3>1. nonLocalDeps'[q].info = new
      BY <1>11
    <3>2. DOMAIN CallInfos = DOMAIN nonLocalDeps
          /\ \A r \in DOMAIN nonLocalDeps : CallInfos[r] = nonLocalDeps[r].info
      BY DEF CallInfos
    <3>3. Put(CallInfos, q, new) = [r \in DOMAIN nonLocalDeps |-> IF r = q THEN new ELSE nonLocalDeps[r].info]
      BY <1>2, <3>2 DEF Put
    <3>4. CallInfos' = [r \in DOMAIN nonLocalDeps |-> nonLocalDeps'[r].info]
      BY <1>11 DEF CallInfos
    <3>5. \A r \in DOMAIN nonLocalDeps : nonLocalDeps'[r].info = IF r = q THEN new ELSE nonLocalDeps[r].info
      BY <1>11, <3>1
    <3> QED BY <3>3, <3>4, <3>5
  <2>2. Mirrored(Present, reverseNonLocalDeps', CallInfos')
    BY <1>10, <2>1
  <2> QED BY <1>12, <2>2 DEF CallsMirrored, Mirrored, Has, GetInst
<1>15. JobOK'
  <2>1. job' = [query |-> q, dirtyBlocks |-> next, seen |-> job.seen \union {b}, sorted |-> sorted]
    <3>1. job \in [query : {q}, dirtyBlocks : {job.dirtyBlocks}, seen : {job.seen}, sorted : {sorted}]
      BY <1>2
    <3> QED BY <1>17, <3>1
  <2>2. JobInfo' = new
    BY <1>11, <2>1 DEF JobInfo
  <2>3. Len(info) \in Nat /\ Len(new) \in Nat /\ sorted \in 0..Len(new)
    BY <1>2, <1>9, CacheFields
  <2>4. SortedTo(JobInfo, job.sorted)'
    <3>1. fn' = fn /\ job'.sorted = sorted
      BY <1>1, <2>1
    <3>2. SortedTo(new, sorted)
      BY <1>9
    <3> QED BY <2>2, <3>1, <3>2 DEF SortedTo, Less
  <2>5. ASSUME NEW n \in sorted + 1..Len(new)
        PROVE  new[n].bb \in job'.seen
    <3>1. CASE n \in 1..Len(info)
      <4>1. n \in sorted + 1..Len(info)
        BY <2>5, <3>1
      <4> QED BY <1>3, <1>9, <2>1, <3>1, <4>1
    <3>2. CASE n \notin 1..Len(info)
      <4>1. Found(info, sorted, b) = {} /\ n = Len(info) + 1
        BY <1>2, <1>9, <2>3, <3>2
      <4> QED BY <1>9, <2>1, <4>1
    <3> QED BY <3>1, <3>2
  <2>6. job' \in [query : DOMAIN nonLocalDeps', dirtyBlocks : Seq(Blocks'), seen : SUBSET Blocks',
                  sorted : 0..Len(JobInfo')]
    BY <1>2, <1>7, <1>11, <1>12, <2>1, <2>2, <2>3
  <2> QED BY <1>12, <2>1, <2>2, <2>4, <2>5, <2>6 DEF JobOK
<1> QED BY <1>13, <1>14, <1>15 DEF CallsOK

LEMMA CallsWithout ==
    ASSUME CallsOK, NEW i, NEW W, W = [q \in DOMAIN nonLocalDeps \ {i} |-> nonLocalDeps[q].info]
    PROVE  Mirrored(Present, ReverseNonLocalWithout(i), W)
<1> DEFINE S == DOMAIN nonLocalDeps \intersect {i}
           links == Links(CallInfo(i).info, i)
<1>1. DOMAIN CallInfos = DOMAIN nonLocalDeps
      /\ \A q \in DOMAIN nonLocalDeps : CallInfos[q] = nonLocalDeps[q].info
  BY DEF CallInfos
<1>2. \A x : x \in links <=> \E k \in S : x \in Links(CallInfos[k], k)
  <2>1. CASE i \in DOMAIN nonLocalDeps
    <3>1. CallInfo(i).info = CallInfos[i]
      BY <1>1, <2>1 DEF CallInfo
    <3> QED BY <2>1, <3>1
  <2>2. CASE i \notin DOMAIN nonLocalDeps
    <3>1. CallInfo(i).info = <<>>
      BY <2>2 DEF CallInfo, NoInfo
    <3> QED BY <2>2, <3>1 DEF Links
  <2> QED BY <2>1, <2>2
<1>3. Mirrored(Present, reverseNonLocalDeps, CallInfos)
  BY DEF CallsOK, CallsMirrored
<1>4. S \subseteq DOMAIN CallInfos /\ DOMAIN W = DOMAIN CallInfos \ S
      /\ \A q \in DOMAIN W : W[q] = CallInfos[q]
  BY <1>1
<1> HIDE DEF S, links
<1>5. Mirrored(Present, reverseNonLocalDeps \ links, W)
  BY <1>2, <1>3, <1>4, MirroredWithout
<1> QED BY <1>5 DEF ReverseNonLocalWithout, links

\* A removal: the caches of the other calls are marked dirty where they have it.
LEMMA RemoveNonLocalOK ==
    ASSUME FunctionOK, CallsOK, NEW i, RemoveInstruction(i)
    PROVE  CallsOK'
<1> DEFINE reverse == ReverseNonLocalWithout(i)
           D == CallDependents(i)
           W == [q \in DOMAIN nonLocalDeps \ {i} |-> nonLocalDeps[q].info]
           N == [q \in DOMAIN nonLocalDeps \ {i} |-> IF q \in D THEN Redirected(W[q], i) ELSE W[q]]
<1>1. Removed(i) /\ pc' = "idle"
  BY RemovalRemoves DEF RemoveInstruction, Idle, running
<1>2. nonLocalDeps' = [q \in DOMAIN nonLocalDeps \ {i} |->
                          IF q \in D THEN [info |-> Redirected(nonLocalDeps[q].info, i), dirty |-> TRUE]
                          ELSE nonLocalDeps[q]]
  BY DEF RemoveInstruction, RemoveNonLocal
<1>3. reverseNonLocalDeps' = Moved(reverse, i, {q \in D : Has(nonLocalDeps[q].info, i)})
  BY DEF RemoveInstruction, RemoveNonLocal
<1>4. D = Dependents(reverse, i)
  BY DEF CallDependents
<1>5. \A q \in DOMAIN nonLocalDeps :
         /\ q \in Present /\ nonLocalDeps[q].info \in Seq(Entries) /\ Distinct(nonLocalDeps[q].info)
         /\ nonLocalDeps[q] = [info |-> nonLocalDeps[q].info, dirty |-> nonLocalDeps[q].dirty]
         /\ nonLocalDeps[q].dirty \in BOOLEAN
  BY DEF CallsOK, CallCachesOK
<1>6. Mirrored(Present, reverse, W)
  BY CallsWithout
<1>7. DOMAIN W = DOMAIN nonLocalDeps \ {i} /\ \A q \in DOMAIN W : W[q] = nonLocalDeps[q].info
  OBVIOUS
<1>8. DOMAIN N = DOMAIN W /\ \A q \in DOMAIN W : N[q] = IF q \in D THEN Redirected(W[q], i) ELSE W[q]
  OBVIOUS
<1>9. \A x \in reverse : x[2] \in DOMAIN W
  BY <1>6 DEF Mirrored
<1>10. \A q \in D : q \in DOMAIN W
  BY <1>4, <1>9 DEF Dependents
<1> HIDE DEF reverse, D, W, N
<1>11. \A q \in DOMAIN W : W[q] \in Seq(Entries)
  BY <1>5, <1>7
<1>12. /\ Mirrored(Present', Moved(reverse, i, {q \in D : Has(W[q], i)}), N)
       /\ \A q \in DOMAIN W : q \in D <=> Has(W[q], i)
  BY <1>1, <1>4, <1>6, <1>8, <1>11, MirroredMoved
<1>13. {q \in D : Has(W[q], i)} = {q \in D : Has(nonLocalDeps[q].info, i)}
  BY <1>7, <1>10
<1>14. Present' = Present \ {i}
  BY <1>1, RemovedPlaces
<1>15. ASSUME NEW q \in DOMAIN nonLocalDeps'
       PROVE  /\ q \in Present' /\ Distinct(nonLocalDeps'[q].info)
              /\ nonLocalDeps'[q] \in [info : Seq(Entries'), dirty : BOOLEAN]
              /\ nonLocalDeps'[q].info = N[q]
  <2>1. q \in DOMAIN nonLocalDeps /\ q # i /\ q \in DOMAIN W /\ W[q] = nonLocalDeps[q].info
    BY <1>2, <1>7, <1>15
  <2>2. /\ Redirected(W[q], i) \in Seq(Entries') /\ Len(Redirected(W[q], i)) = Len(W[q])
        /\ \A n \in 1..Len(W[q]) : Redirected(W[q], i)[n].bb = W[q][n].bb
        /\ ~Has(W[q], i) => W[q] \in Seq(Entries')
    BY <1>1, <1>11, <2>1, RemovedEntries
  <2>3. Distinct(W[q])
    BY <1>5, <2>1
  <2>4. CASE q \in D
    <3>1. nonLocalDeps'[q] = [info |-> Redirected(W[q], i), dirty |-> TRUE]
      BY <1>2, <2>1, <2>4
    <3>2. Distinct(Redirected(W[q], i))
      BY <2>2, <2>3 DEF Distinct
    <3> QED BY <1>5, <1>8, <1>14, <2>1, <2>2, <2>4, <3>1, <3>2
  <2>5. CASE q \notin D
    <3>1. nonLocalDeps'[q] = nonLocalDeps[q] /\ W[q] \in Seq(Entries')
      BY <1>2, <1>12, <2>1, <2>2, <2>5
    <3> QED BY <1>5, <1>8, <1>14, <2>1, <2>3, <2>5, <3>1
  <2> QED BY <2>4, <2>5
<1>16. CallCachesOK'
  BY <1>15 DEF CallCachesOK, Distinct
<1>17. CallsMirrored'
  <2>1. DOMAIN nonLocalDeps' = DOMAIN N
    BY <1>2, <1>7, <1>8
  <2>2. CallInfos' = [q \in DOMAIN nonLocalDeps' |-> nonLocalDeps'[q].info]
    BY DEF CallInfos
  <2>3. DOMAIN CallInfos' = DOMAIN N /\ \A q \in DOMAIN N : CallInfos'[q] = N[q]
    BY <1>15, <2>1, <2>2
  <2>4. Mirrored(Present', reverseNonLocalDeps', N)
    BY <1>3, <1>12, <1>13
  <2>5. Mirrored(Present', reverseNonLocalDeps', CallInfos')
    BY <2>3, <2>4 DEF Mirrored
  <2> QED BY <2>5 DEF CallsMirrored, Mirrored, Has, GetInst
<1>18. JobOK'
  BY <1>1 DEF JobOK
<1> QED BY <1>16, <1>17, <1>18 DEF CallsOK

LEMMA ReleasedCalls == Idle /\ ReleaseMemory => CallsOK'
<1> SUFFICES ASSUME Idle, ReleaseMemory
             PROVE  CallsOK'
  OBVIOUS
<1>1. nonLocalDeps' = Empty /\ reverseNonLocalDeps' = {} /\ pc' = "idle"
  BY DEF ReleaseMemory, Idle, running
<1> QED BY <1>1 DEF Empty, CallsOK, CallCachesOK, CallsMirrored, CallInfos, Mirrored, JobOK

\* A step that is none of these leaves the caches of calls alone.
LEMMA StepsOfCalls ==
    Next => \/ CallsUnchanged
            \/ \E q \in fn.queries : GetNonLocalCallDependency(q)
            \/ SkipDirtyBlock \/ ScanDirtyBlock
            \/ \E i \in fn.removable : RemoveInstruction(i)
            \/ Idle /\ ReleaseMemory
<1>1. ASSUME NEW q, GetCachedDependency(q) \/ GetDependency(q) \/ GetCachedCallDependency(q)
      PROVE  CallsUnchanged
  BY <1>1 DEF GetCachedDependency, GetDependency, GetCachedCallDependency, caches, running,
              CallsUnchanged
<1>2. ASSUME NEW query, AskPointer(query)
      PROVE  CallsUnchanged
  BY <1>2 DEF AskPointer, caches, CallsUnchanged
<1>3. ASSUME NEW p, InvalidateCachedPointerInfo(p)
      PROVE  CallsUnchanged
  BY <1>3 DEF InvalidateCachedPointerInfo, running, CallsUnchanged
<1>4. ReleaseMemory => Idle
  BY DEF ReleaseMemory
<1>5. EndCallQuery \/ EndPointerQuery => CallsUnchanged
  BY DEF EndCallQuery, EndPointerQuery, caches, CallsUnchanged
<1>6. ThrowOutSmaller \/ RestartWithSize \/ ThrowOutTagged \/ RestartWithoutTag => CallsUnchanged
  BY DEF ThrowOutSmaller, RestartWithSize, ThrowOutTagged, RestartWithoutTag, caches, running,
         CallsUnchanged
<1>7. ReturnCached \/ ReturnConflict \/ Begin \/ Lookup \/ SkipFirstBlock => CallsUnchanged
  BY DEF ReturnCached, ReturnConflict, Begin, Lookup, SkipFirstBlock, caches, CallsUnchanged
<1>8. PassUntranslated \/ PassTranslated \/ UnknownPred \/ Recurse \/ PredsDone => CallsUnchanged
  BY DEF PassUntranslated, PassTranslated, UnknownPred, Recurse, PredsDone, caches, CallsUnchanged
<1>9. TranslationFailsAtFirst \/ TranslationFails \/ Return => CallsUnchanged
  BY DEF TranslationFailsAtFirst, TranslationFails, Return, caches, CallsUnchanged
<1>10. RequestFails \/ StepFails => CallsUnchanged
  BY DEF RequestFails, StepFails, Fail, caches, running, CallsUnchanged
<1> QED BY <1>1, <1>2, <1>3, <1>4, <1>5, <1>6, <1>7, <1>8, <1>9, <1>10
        DEF Next, Client, CallStep, PointerStep

LEMMA CallsOKStep == FunctionOK /\ CallsOK /\ [Next]_vars => CallsOK'
<1> SUFFICES ASSUME FunctionOK, CallsOK, [Next]_vars
             PROVE  CallsOK'
  OBVIOUS
<1>1. UNCHANGED vars => CallsUnchanged
  BY DEF vars, caches, running, CallsUnchanged
<1> QED BY <1>1, StepsOfCalls, SameCalls, BeginCallOK, SkipDirtyBlockOK, ScanDirtyBlockOK,
           RemoveNonLocalOK, ReleasedCalls

LEMMA CallsAreMirrored == CallsOK => NonLocalMirror
<1> SUFFICES ASSUME CallsOK
             PROVE  NonLocalMirror
  OBVIOUS
<1>1. DOMAIN CallInfos = DOMAIN nonLocalDeps
      /\ \A q \in DOMAIN nonLocalDeps : CallInfos[q] = nonLocalDeps[q].info
  BY DEF CallInfos
<1>2. \A x \in reverseNonLocalDeps : x[2] \in DOMAIN nonLocalDeps
  BY <1>1 DEF CallsOK, CallsMirrored, Mirrored
<1>3. ASSUME NEW q \in DOMAIN nonLocalDeps, NEW i \in Present
      PROVE  <<i, q>> \in reverseNonLocalDeps <=> Has(nonLocalDeps[q].info, i)
  <2>1. <<i, q>>[1] = i /\ <<i, q>>[2] = q
    OBVIOUS
  <2> QED BY <1>1, <2>1 DEF CallsOK, CallsMirrored, Mirrored
<1> QED BY <1>2, <1>3 DEF NonLocalMirror, Mirrors

\* The reverse map of the caches of calls holds exactly the pairs of an
\* instruction that is there and a call one of whose results has it (lines 842
\* and 1529 to 1560): removeInstruction finds every entry to mark dirty, however often
\* the caches were resumed.
THEOREM CallCachesMirrored == Spec => []NonLocalMirror
<1>1. Init => FunctionOK /\ CallsOK
  BY InitFunction, InitCalls
<1> QED BY <1>1, FunctionStep, CallsOKStep, CallsAreMirrored, PTL DEF Spec

-----------------------------------------------------------------------------
(***************************************************************************)
(* The caches of pointers and the calls of a query.  A call that waits for    *)
(* the one it made has put its entries in order; only the one that runs has   *)
(* entries it has not sorted in yet, all for blocks that are visited and not  *)
(* on its worklist.                                                           *)
(***************************************************************************)
Pointers ==
    {q.loc.ptr : q \in fn.pointerQueries} \union {fn.translate[x] : x \in DOMAIN fn.translate}
    \union {Null}
Tags == {q.loc.tag : q \in fn.pointerQueries} \union {Null}
Alive == Pointers \ Gone
Keys == [ptr : Alive, isLoad : BOOLEAN]
Infos == [pair : [bb : Blocks \union {Null}, skip : BOOLEAN], deps : Seq(Entries),
          size : fn.sizes, tag : Tags]

PointerInfos == [k \in DOMAIN nonLocalPointerDeps |-> nonLocalPointerDeps[k].deps]
PointerCachesOK ==
    \A k \in DOMAIN nonLocalPointerDeps :
        /\ k \in Keys
        /\ nonLocalPointerDeps[k] \in Infos
        /\ Distinct(nonLocalPointerDeps[k].deps)
PointersMirrored ==
    /\ Mirrored(Present, reverseNonLocalPtrDeps, PointerInfos)
    /\ \A x \in reverseNonLocalPtrDeps : x[1] \in Present
CachesOK == PointerCachesOK /\ PointersMirrored

Frames ==
    [mode : {"enter", "loop", "pass", "preds"}, loc : [ptr : Alive, size : fn.sizes, tag : Tags],
     isLoad : BOOLEAN, start : Blocks, skip : BOOLEAN, work : Seq(Blocks), sorted : Nat,
     bb : Blocks \union {Null}, preds : Seq(Blocks \X Alive)]

\* the blocks a call has still to look at are visited, and on its worklist once
WorkOK(f) ==
    IF f.skip
    THEN /\ f.mode = "loop" => f.work = <<f.start>>
         /\ f.mode \in {"pass", "preds"} => f.work = <<>>
    ELSE /\ f.mode = "enter" => f.start \in DOMAIN visited
         /\ \A n \in 1..Len(f.work) : f.work[n] \in DOMAIN visited
         /\ \A m, n \in 1..Len(f.work) : f.work[m] = f.work[n] => m = n
FrameOK(f) ==
    /\ f \in Frames
    /\ f.mode \in {"pass", "preds"} => f.bb \in Blocks
    /\ f.mode = "preds" => \A n \in 1..Len(f.preds) : f.preds[n][1] \in DOMAIN visited
    /\ WorkOK(f)
StackOK ==
    /\ pc # "pointer" => stack = <<>>
    /\ stack \in Seq(Frames)
    /\ \A n \in 1..Len(stack) : FrameOK(stack[n])
    /\ \A n \in 2..Len(stack) : stack[n].mode = "preds"

Filling == stack # <<>> /\ Top.mode \in {"loop", "pass"}
CachesSorted ==
    \A k \in DOMAIN nonLocalPointerDeps :
        (Filling => k # Key) => IsSortedInfo(nonLocalPointerDeps[k].deps)
TopOK ==
    Filling =>
        /\ Top.sorted \in 0..Len(Deps)
        /\ SortedTo(Deps, Top.sorted)
        /\ Top.skip => Top.sorted = Len(Deps)
        /\ \A n \in Top.sorted + 1..Len(Deps) :
              /\ Deps[n].bb \in DOMAIN visited
              /\ \A m \in 1..Len(Top.work) : Top.work[m] # Deps[n].bb
SortedOK == CachesSorted /\ TopOK

PointersOK == CachesOK /\ StackOK /\ SortedOK

\* What pointers, keys, caches and frames may be stays when the function does.
LEMMA SameSets ==
    ASSUME UNCHANGED <<fn, insts>>
    PROVE  /\ Blocks' = Blocks /\ Present' = Present /\ Entries' = Entries
           /\ Alive' = Alive /\ Keys' = Keys /\ Infos' = Infos /\ Frames' = Frames
<1>1. Blocks' = Blocks /\ Present' = Present /\ Entries' = Entries /\ Gone' = Gone
  BY SameFunction, SameEntries
<1>2. Alive' = Alive /\ Tags' = Tags
  BY <1>1 DEF Alive, Pointers, Tags
<1>3. Keys' = Keys /\ Infos' = Infos
  BY <1>1, <1>2 DEF Keys, Infos
<1>4. Frames' = Frames
  BY <1>1, <1>2 DEF Frames
<1> QED BY <1>1, <1>2, <1>3, <1>4

(***************************************************************************)
(* The stack: what becomes of it when its top changes, returns or calls.      *)
(***************************************************************************)
LEMMA FrameStays ==
    ASSUME UNCHANGED <<fn, insts>>, DOMAIN visited \subseteq DOMAIN visited',
           NEW f, FrameOK(f)
    PROVE  FrameOK(f)'
<1>1. Frames' = Frames /\ Blocks' = Blocks
  BY SameSets
<1>2. WorkOK(f)'
  BY DEF FrameOK, WorkOK
<1> QED BY <1>1, <1>2 DEF FrameOK

LEMMA TopFrame ==
    ASSUME FunctionOK, StackOK, stack # <<>>
    PROVE  /\ pc = "pointer" /\ Top = stack[1] /\ Len(stack) \in Nat \ {0}
           /\ Top \in Frames /\ FrameOK(Top) /\ Key \in Keys
           /\ Tail(stack) \in Seq(Frames) /\ Len(Tail(stack)) = Len(stack) - 1
           /\ \A n \in 1..Len(stack) - 1 : Tail(stack)[n] = stack[n + 1]
<1>1. stack \in Seq(Frames)
  BY DEF StackOK
<1>2. /\ Tail(stack) \in Seq(Frames) /\ Len(Tail(stack)) = Len(stack) - 1
      /\ \A n \in 1..Len(stack) - 1 : Tail(stack)[n] = stack[n + 1]
      /\ Len(stack) \in Nat \ {0}
  BY <1>1, HeadTailProperties, EmptySeq
<1>3. Top = stack[1]
  BY <1>1 DEF Top
<1>4. FrameOK(Top)
  BY <1>2, <1>3 DEF StackOK
<1>5. Top \in Frames
  BY <1>4 DEF FrameOK
<1>6. Key \in Keys
  BY <1>5 DEF Key, Keys, Frames
<1> QED BY <1>2, <1>3, <1>4, <1>5, <1>6 DEF StackOK

LEMMA BecomeStack ==
    ASSUME FunctionOK, StackOK, stack # <<>>, UNCHANGED <<fn, insts, pc>>,
           DOMAIN visited \subseteq DOMAIN visited',
           NEW g, Become(g), FrameOK(g)'
    PROVE  /\ StackOK' /\ stack' # <<>> /\ Top' = g
           /\ Key' = [ptr |-> g.loc.ptr, isLoad |-> g.isLoad]
<1>1. Frames' = Frames
  BY SameSets
<1>2. g \in Frames
  BY <1>1 DEF FrameOK
<1>3. /\ pc = "pointer" /\ Len(stack) \in Nat \ {0}
      /\ Tail(stack) \in Seq(Frames) /\ Len(Tail(stack)) = Len(stack) - 1
      /\ \A n \in 1..Len(stack) - 1 : Tail(stack)[n] = stack[n + 1]
  BY TopFrame
<1>4. stack' = <<g>> \o Tail(stack)
  BY DEF Become
<1>5. <<g>> \in Seq(Frames) /\ Len(<<g>>) = 1
  BY <1>2
<1>6. /\ stack' \in Seq(Frames) /\ Len(stack') = Len(stack)
      /\ stack'[1] = g /\ \A n \in 2..Len(stack) : stack'[n] = stack[n]
  <2>1. /\ stack' \in Seq(Frames) /\ Len(stack') = 1 + (Len(stack) - 1)
        /\ \A n \in 1..1 + (Len(stack) - 1) :
              stack'[n] = IF n <= 1 THEN <<g>>[n] ELSE Tail(stack)[n - 1]
    BY <1>3, <1>4, <1>5, ConcatProperties
  <2>2. Len(stack') = Len(stack) /\ stack'[1] = g
    BY <1>3, <2>1
  <2>3. ASSUME NEW n \in 2..Len(stack)
        PROVE  stack'[n] = stack[n]
    <3>1. n - 1 \in 1..Len(stack) - 1 /\ n - 1 + 1 = n /\ n \in 1..1 + (Len(stack) - 1) /\ ~(n <= 1)
      BY <1>3, <2>3
    <3> QED BY <1>3, <2>1, <3>1
  <2> QED BY <2>1, <2>2, <2>3
<1>7. stack' # <<>>
  BY <1>3, <1>6
<1>8. Top' = g
  BY <1>6, <1>7 DEF Top
<1>9. \A n \in 1..Len(stack') : FrameOK(stack[n])'
  <2>1. SUFFICES ASSUME NEW n \in 1..Len(stack')
                 PROVE  FrameOK(stack[n])'
    OBVIOUS
  <2>2. CASE n = 1
    BY <1>6, <2>2
  <2>3. CASE n # 1
    <3>1. PICK f : f = stack[n]
      OBVIOUS
    <3>2. n \in 2..Len(stack) /\ n \in 1..Len(stack)
      BY <1>3, <1>6, <2>3
    <3>3. FrameOK(f)
      BY <3>1, <3>2 DEF StackOK
    <3>4. FrameOK(f)' /\ stack'[n] = f
      BY <1>6, <3>1, <3>2, <3>3, FrameStays
    <3> QED BY <3>4
  <2> QED BY <2>2, <2>3
<1>10. \A n \in 2..Len(stack') : stack'[n].mode = "preds"
  BY <1>6 DEF StackOK
<1>11. StackOK'
  BY <1>1, <1>3, <1>6, <1>9, <1>10 DEF StackOK
<1> QED BY <1>7, <1>8, <1>11 DEF Key

LEMMA PopStack ==
    ASSUME FunctionOK, StackOK, stack # <<>>, UNCHANGED <<fn, insts, pc>>,
           DOMAIN visited \subseteq DOMAIN visited', stack' = Tail(stack)
    PROVE  StackOK' /\ ~Filling'
<1>1. Frames' = Frames
  BY SameSets
<1>2. /\ pc = "pointer" /\ Len(stack) \in Nat \ {0}
      /\ stack' \in Seq(Frames) /\ Len(stack') = Len(stack) - 1
      /\ \A n \in 1..Len(stack) - 1 : stack'[n] = stack[n + 1]
  BY TopFrame
<1>3. \A n \in 1..Len(stack') : n + 1 \in 1..Len(stack) /\ n + 1 \in 2..Len(stack)
  BY <1>2
<1>4. \A n \in 1..Len(stack') : FrameOK(stack[n])'
  <2>1. SUFFICES ASSUME NEW n \in 1..Len(stack')
                 PROVE  FrameOK(stack[n])'
    OBVIOUS
  <2>2. PICK f : f = stack[n + 1]
    OBVIOUS
  <2>3. FrameOK(f) /\ stack'[n] = f
    BY <1>2, <1>3, <2>1, <2>2 DEF StackOK
  <2>4. FrameOK(f)'
    BY <2>3, FrameStays
  <2> QED BY <2>3, <2>4
<1>5. \A n \in 1..Len(stack') : stack'[n].mode = "preds"
  BY <1>2, <1>3 DEF StackOK
<1>6. StackOK'
  BY <1>1, <1>2, <1>4, <1>5 DEF StackOK
<1>7. ~Filling'
  <2>1. SUFFICES ASSUME stack' # <<>>
                 PROVE  Top'.mode = "preds"
    BY DEF Filling
  <2>2. Top' = stack'[1] /\ 1 \in 1..Len(stack')
    BY <1>2, <2>1, EmptySeq DEF Top
  <2> QED BY <1>5, <2>2
<1> QED BY <1>6, <1>7

LEMMA PushStack ==
    ASSUME FunctionOK, StackOK, stack # <<>>, UNCHANGED <<fn, insts, pc>>,
           DOMAIN visited \subseteq DOMAIN visited',
           NEW g, NEW old, stack' = <<g, old>> \o Tail(stack),
           FrameOK(g)', g.mode = "enter", FrameOK(old)', old.mode = "preds"
    PROVE  StackOK' /\ ~Filling'
<1>1. Frames' = Frames
  BY SameSets
<1>2. g \in Frames /\ old \in Frames
  BY <1>1 DEF FrameOK
<1>3. /\ pc = "pointer" /\ Len(stack) \in Nat \ {0}
      /\ Tail(stack) \in Seq(Frames) /\ Len(Tail(stack)) = Len(stack) - 1
      /\ \A n \in 1..Len(stack) - 1 : Tail(stack)[n] = stack[n + 1]
  BY TopFrame
<1>4. <<g, old>> \in Seq(Frames) /\ Len(<<g, old>>) = 2 /\ <<g, old>>[1] = g /\ <<g, old>>[2] = old
  BY <1>2
<1>5. /\ stack' \in Seq(Frames) /\ Len(stack') = Len(stack) + 1
      /\ stack'[1] = g /\ stack'[2] = old
      /\ \A n \in 3..Len(stack) + 1 : stack'[n] = stack[n - 1]
  <2>1. /\ stack' \in Seq(Frames) /\ Len(stack') = 2 + (Len(stack) - 1)
        /\ \A n \in 1..2 + (Len(stack) - 1) :
              stack'[n] = IF n <= 2 THEN <<g, old>>[n] ELSE Tail(stack)[n - 2]
    BY <1>3, <1>4, ConcatProperties
  <2>2. Len(stack') = Len(stack) + 1 /\ stack'[1] = g /\ stack'[2] = old
    BY <1>3, <1>4, <2>1
  <2>3. ASSUME NEW n \in 3..Len(stack) + 1
        PROVE  stack'[n] = stack[n - 1]
    <3>1. /\ n - 2 \in 1..Len(stack) - 1 /\ n - 2 + 1 = n - 1
          /\ n \in 1..2 + (Len(stack) - 1) /\ ~(n <= 2)
      BY <1>3, <2>3
    <3> QED BY <1>3, <2>1, <3>1
  <2> QED BY <2>1, <2>2, <2>3
<1>6. stack' # <<>> /\ Top' = g
  <2>1. stack' # <<>>
    BY <1>3, <1>5
  <2> QED BY <1>5, <2>1 DEF Top
<1>7. \A n \in 1..Len(stack') : n = 1 \/ n = 2 \/ (n \in 3..Len(stack) + 1 /\ n - 1 \in 2..Len(stack))
  BY <1>3, <1>5
<1>8. \A n \in 1..Len(stack') : FrameOK(stack[n])'
  <2>1. SUFFICES ASSUME NEW n \in 1..Len(stack')
                 PROVE  FrameOK(stack[n])'
    OBVIOUS
  <2>2. CASE n = 1 \/ n = 2
    BY <1>5, <2>2
  <2>3. CASE n \in 3..Len(stack) + 1 /\ n - 1 \in 2..Len(stack)
    <3>1. PICK f : f = stack[n - 1]
      OBVIOUS
    <3>2. FrameOK(f) /\ stack'[n] = f
      BY <1>5, <2>3, <3>1 DEF StackOK
    <3>3. FrameOK(f)'
      BY <3>2, FrameStays
    <3> QED BY <3>2, <3>3
  <2> QED BY <1>7, <2>1, <2>2, <2>3
<1>9. \A n \in 2..Len(stack') : stack'[n].mode = "preds"
  <2>1. \A n \in 2..Len(stack') : n = 2 \/ (n \in 3..Len(stack) + 1 /\ n - 1 \in 2..Len(stack))
    BY <1>3, <1>5
  <2> QED BY <1>5, <2>1 DEF StackOK
<1>10. StackOK'
  BY <1>1, <1>3, <1>5, <1>8, <1>9 DEF StackOK
<1> QED BY <1>6, <1>10 DEF Filling

(***************************************************************************)
(* The caches: what becomes of them when only the order of entries, results   *)
(* that are no instructions, or the blocks they are from change.              *)
(***************************************************************************)
LEMMA PointerInfosOf ==
    /\ DOMAIN PointerInfos = DOMAIN nonLocalPointerDeps
    /\ \A k \in DOMAIN nonLocalPointerDeps : PointerInfos[k] = nonLocalPointerDeps[k].deps
BY DEF PointerInfos

LEMMA TopInfo ==
    ASSUME FunctionOK, CachesOK, StackOK, stack # <<>>
    PROVE  /\ Info \in Infos /\ Distinct(Deps) /\ Deps = Info.deps
           /\ Info = [pair |-> Info.pair, deps |-> Deps, size |-> Info.size, tag |-> Info.tag]
           /\ Deps \in Seq(Entries) /\ Len(Deps) \in Nat
           /\ Info.pair \in [bb : Blocks \union {Null}, skip : BOOLEAN]
           /\ Info.size \in fn.sizes /\ Info.tag \in Tags
           /\ Key \in DOMAIN nonLocalPointerDeps => Info = nonLocalPointerDeps[Key]
           /\ Key \notin DOMAIN nonLocalPointerDeps => Deps = <<>>
<1>1. Info \in Infos /\ Distinct(Info.deps)
  <2>1. CASE Key \in DOMAIN nonLocalPointerDeps
    BY <2>1 DEF Info, CachesOK, PointerCachesOK
  <2>2. CASE Key \notin DOMAIN nonLocalPointerDeps
    <3>1. <<>> \in Seq(Entries) /\ Len(<<>>) = 0
      BY EmptySeq
    <3>2. Top.loc.size \in fn.sizes /\ Top.loc.tag \in Tags
      BY TopFrame DEF Frames
    <3>3. Info = NewInfo(Top.loc)
      BY <2>2 DEF Info
    <3> QED BY <3>1, <3>2, <3>3 DEF NewInfo, NoPair, Infos, Distinct
  <2> QED BY <2>1, <2>2
<1>2. /\ Info = [pair |-> Info.pair, deps |-> Info.deps, size |-> Info.size, tag |-> Info.tag]
      /\ Info.deps \in Seq(Entries) /\ Info.pair \in [bb : Blocks \union {Null}, skip : BOOLEAN]
      /\ Info.size \in fn.sizes /\ Info.tag \in Tags
  BY <1>1 DEF Infos
<1>3. Len(Info.deps) \in Nat
  BY <1>2, LenProperties
<1>4. Key \in DOMAIN nonLocalPointerDeps => Info = nonLocalPointerDeps[Key]
  BY DEF Info
<1>5. Key \notin DOMAIN nonLocalPointerDeps => Info.deps = <<>>
  BY DEF Info, NewInfo
<1> QED BY <1>1, <1>2, <1>3, <1>4, <1>5 DEF Deps

LEMMA CachesKept ==
    ASSUME FunctionOK, CachesOK, UNCHANGED <<fn, insts, reverseNonLocalPtrDeps>>,
           DOMAIN nonLocalPointerDeps \subseteq DOMAIN nonLocalPointerDeps',
           \A k \in DOMAIN nonLocalPointerDeps' :
              /\ k \in Keys /\ nonLocalPointerDeps'[k] \in Infos
              /\ Distinct(nonLocalPointerDeps'[k].deps)
              /\ \A i \in Present :
                    Has(nonLocalPointerDeps'[k].deps, i)
                       <=> k \in DOMAIN nonLocalPointerDeps /\ Has(nonLocalPointerDeps[k].deps, i)
    PROVE  CachesOK'
<1>1. Present' = Present /\ Keys' = Keys /\ Infos' = Infos
  BY SameSets
<1>2. PointerCachesOK'
  BY <1>1 DEF PointerCachesOK, Distinct
<1>3. PointersMirrored'
  <2> DEFINE N == [k \in DOMAIN nonLocalPointerDeps' |-> nonLocalPointerDeps'[k].deps]
  <2>1. N = PointerInfos'
    BY DEF PointerInfos
  <2>2. DOMAIN N = DOMAIN nonLocalPointerDeps'
        /\ \A k \in DOMAIN nonLocalPointerDeps' : N[k] = nonLocalPointerDeps'[k].deps
    OBVIOUS
  <2> HIDE DEF N
  <2>3. /\ \A x \in reverseNonLocalPtrDeps :
              /\ x = <<x[1], x[2]>> /\ x[1] # Null /\ x[2] \in DOMAIN nonLocalPointerDeps
              /\ Has(nonLocalPointerDeps[x[2]].deps, x[1]) /\ x[1] \in Present
        /\ \A k \in DOMAIN nonLocalPointerDeps : \A i \in Present :
              Has(nonLocalPointerDeps[k].deps, i) => <<i, k>> \in reverseNonLocalPtrDeps
    BY PointerInfosOf DEF CachesOK, PointersMirrored, Mirrored
  <2>4. Mirrored(Present, reverseNonLocalPtrDeps, N)
    BY <2>2, <2>3 DEF Mirrored
  <2> QED BY <1>1, <2>1, <2>3, <2>4 DEF PointersMirrored, Mirrored, Has, GetInst
<1> QED BY <1>2, <1>3 DEF CachesOK

LEMMA SetInfoCaches ==
    ASSUME FunctionOK, CachesOK, StackOK, stack # <<>>,
           UNCHANGED <<fn, insts, reverseNonLocalPtrDeps>>,
           NEW info \in Infos, SetInfo(info), Distinct(info.deps),
           \A i \in Present : Has(info.deps, i) <=> Has(Deps, i)
    PROVE  /\ CachesOK'
           /\ DOMAIN nonLocalPointerDeps' = DOMAIN nonLocalPointerDeps \union {Key}
           /\ nonLocalPointerDeps'[Key] = info
           /\ \A k \in DOMAIN nonLocalPointerDeps \ {Key} :
                 nonLocalPointerDeps'[k] = nonLocalPointerDeps[k]
<1>1. /\ DOMAIN nonLocalPointerDeps' = DOMAIN nonLocalPointerDeps \union {Key}
      /\ nonLocalPointerDeps'[Key] = info
      /\ \A k \in DOMAIN nonLocalPointerDeps \ {Key} :
            nonLocalPointerDeps'[k] = nonLocalPointerDeps[k]
  BY DEF SetInfo, Put
<1>2. ASSUME NEW k \in DOMAIN nonLocalPointerDeps'
      PROVE  /\ k \in Keys /\ nonLocalPointerDeps'[k] \in Infos
             /\ Distinct(nonLocalPointerDeps'[k].deps)
             /\ \A i \in Present :
                   Has(nonLocalPointerDeps'[k].deps, i)
                      <=> k \in DOMAIN nonLocalPointerDeps /\ Has(nonLocalPointerDeps[k].deps, i)
  <2>1. CASE k = Key
    <3>1. Key \in Keys
      BY TopFrame
    <3>2. Key \in DOMAIN nonLocalPointerDeps => Deps = nonLocalPointerDeps[Key].deps
      BY TopInfo
    <3>3. Key \notin DOMAIN nonLocalPointerDeps => \A i : ~Has(Deps, i)
      BY TopInfo DEF Has
    <3> QED BY <1>1, <2>1, <3>1, <3>2, <3>3
  <2>2. CASE k # Key
    BY <1>1, <1>2, <2>2 DEF CachesOK, PointerCachesOK
  <2> QED BY <2>1, <2>2
<1>3. CachesOK'
  BY <1>1, <1>2, CachesKept
<1> QED BY <1>1, <1>3

LEMMA UnpairedInfos ==
    ASSUME NEW f, NEW keys, \A k \in DOMAIN f : f[k] \in Infos
    PROVE  /\ DOMAIN Unpaired(f, keys) = DOMAIN f
           /\ \A k \in DOMAIN f : /\ Unpaired(f, keys)[k] \in Infos
                                  /\ Unpaired(f, keys)[k].deps = f[k].deps
<1>1. \A k \in DOMAIN f : [f[k] EXCEPT !.pair = NoPair] \in Infos
                          /\ [f[k] EXCEPT !.pair = NoPair].deps = f[k].deps
  BY DEF Infos, NoPair
<1> QED BY <1>1 DEF Unpaired

LEMMA SameCaches ==
    ASSUME FunctionOK, CachesOK, UNCHANGED <<fn, insts, nonLocalPointerDeps, reverseNonLocalPtrDeps>>
    PROVE  CachesOK'
<1>1. DOMAIN nonLocalPointerDeps' = DOMAIN nonLocalPointerDeps
      /\ \A k \in DOMAIN nonLocalPointerDeps : nonLocalPointerDeps'[k] = nonLocalPointerDeps[k]
  OBVIOUS
<1> QED BY <1>1, CachesKept DEF CachesOK, PointerCachesOK

LEMMA UnpairedCaches ==
    ASSUME FunctionOK, CachesOK, UNCHANGED <<fn, insts, reverseNonLocalPtrDeps>>,
           NEW keys, nonLocalPointerDeps' = Unpaired(nonLocalPointerDeps, keys)
    PROVE  /\ CachesOK'
           /\ DOMAIN nonLocalPointerDeps' = DOMAIN nonLocalPointerDeps
           /\ \A k \in DOMAIN nonLocalPointerDeps :
                 nonLocalPointerDeps'[k].deps = nonLocalPointerDeps[k].deps
<1>1. \A k \in DOMAIN nonLocalPointerDeps :
         /\ k \in Keys /\ nonLocalPointerDeps[k] \in Infos /\ Distinct(nonLocalPointerDeps[k].deps)
  BY DEF CachesOK, PointerCachesOK
<1>2. /\ DOMAIN nonLocalPointerDeps' = DOMAIN nonLocalPointerDeps
      /\ \A k \in DOMAIN nonLocalPointerDeps :
            /\ nonLocalPointerDeps'[k] \in Infos
            /\ nonLocalPointerDeps'[k].deps = nonLocalPointerDeps[k].deps
  BY <1>1, UnpairedInfos
<1>3. CachesOK'
  BY <1>1, <1>2, CachesKept
<1> QED BY <1>2, <1>3

LEMMA AllSorted ==
    ASSUME UNCHANGED <<fn, insts>>, ~Filling',
           \A k \in DOMAIN nonLocalPointerDeps' : IsSortedInfo(nonLocalPointerDeps'[k].deps)
    PROVE  SortedOK'
<1>1. \A info : IsSortedInfo(info)' <=> IsSortedInfo(info)
  BY SameEntries
<1>2. CachesSorted'
  BY <1>1 DEF CachesSorted, IsSortedInfo, Less
<1> QED BY <1>2 DEF SortedOK, TopOK

LEMMA SameStack ==
    ASSUME FunctionOK, StackOK, UNCHANGED <<fn, insts, pc, stack, visited>>
    PROVE  /\ StackOK' /\ Top' = Top /\ Key' = Key /\ (Filling' <=> Filling)
<1>1. Frames' = Frames
  BY SameSets
<1>2. \A n \in 1..Len(stack') : FrameOK(stack[n])'
  <2>1. SUFFICES ASSUME NEW n \in 1..Len(stack)
                 PROVE  FrameOK(stack[n])'
    OBVIOUS
  <2>2. PICK f : f = stack[n]
    OBVIOUS
  <2>3. FrameOK(f)
    BY <2>1, <2>2 DEF StackOK
  <2>4. FrameOK(f)' /\ stack'[n] = f
    BY <2>2, <2>3, FrameStays
  <2> QED BY <2>4
<1>3. StackOK'
  BY <1>1, <1>2 DEF StackOK
<1>4. Top' = Top
  BY DEF Top
<1> QED BY <1>3, <1>4 DEF Key, Filling

LEMMA TopSorted ==
    ASSUME FunctionOK, CachesOK, StackOK, stack # <<>>, CachesSorted, ~Filling
    PROVE  IsSortedInfo(Deps) /\ SortedTo(Deps, Len(Deps))
<1>1. IsSortedInfo(Deps)
  <2>1. CASE Key \in DOMAIN nonLocalPointerDeps
    BY <2>1, TopInfo DEF CachesSorted
  <2>2. CASE Key \notin DOMAIN nonLocalPointerDeps
    BY <2>2, TopInfo, EmptySeq DEF IsSortedInfo
  <2> QED BY <2>1, <2>2
<1> QED BY <1>1, TopInfo DEF IsSortedInfo, SortedTo

(***************************************************************************)
(* Where a call begins.                                                       *)
(***************************************************************************)
LEMMA ThrowOutCaches ==
    ASSUME FunctionOK, CachesOK, StackOK, stack # <<>>, UNCHANGED <<fn, insts>>,
           NEW info \in Infos, ThrowOut(info)
    PROVE  /\ CachesOK'
           /\ DOMAIN nonLocalPointerDeps' = DOMAIN nonLocalPointerDeps \union {Key}
           /\ nonLocalPointerDeps'[Key].deps = <<>>
           /\ \A k \in DOMAIN nonLocalPointerDeps \ {Key} :
                 nonLocalPointerDeps'[k] = nonLocalPointerDeps[k]
<1> DEFINE new == [info EXCEPT !.pair = NoPair, !.deps = <<>>]
           links == Links(Deps, Key)
<1>1. new \in Infos /\ new.deps = <<>>
  <2>1. <<>> \in Seq(Entries)
    BY EmptySeq
  <2> QED BY <2>1 DEF Infos, NoPair
<1>2. nonLocalPointerDeps' = Put(nonLocalPointerDeps, Key, new)
      /\ reverseNonLocalPtrDeps' = reverseNonLocalPtrDeps \ links
  BY DEF ThrowOut, SetInfo, Deps
<1> HIDE DEF new
<1>3. /\ DOMAIN nonLocalPointerDeps' = DOMAIN nonLocalPointerDeps \union {Key}
      /\ nonLocalPointerDeps'[Key] = new
      /\ \A k \in DOMAIN nonLocalPointerDeps \ {Key} :
            nonLocalPointerDeps'[k] = nonLocalPointerDeps[k]
  BY <1>2 DEF Put
<1>4. Present' = Present /\ Keys' = Keys /\ Infos' = Infos
  BY SameSets
<1>5. PointerCachesOK'
  <2>1. Len(<<>>) = 0 /\ Key \in Keys
    BY EmptySeq, TopFrame
  <2> QED BY <1>1, <1>3, <1>4, <2>1 DEF CachesOK, PointerCachesOK, Distinct
<1>6. \A x : x \in links <=> \E n \in DOMAIN Deps :
                GetInst(Deps[n].result) # Null /\ x = <<GetInst(Deps[n].result), Key>>
  BY DEF Links, Link
<1> HIDE DEF links
<1>7. /\ \A x \in reverseNonLocalPtrDeps :
            /\ x = <<x[1], x[2]>> /\ x[1] # Null /\ x[2] \in DOMAIN nonLocalPointerDeps
            /\ Has(nonLocalPointerDeps[x[2]].deps, x[1]) /\ x[1] \in Present
      /\ \A k \in DOMAIN nonLocalPointerDeps : \A i \in Present :
            Has(nonLocalPointerDeps[k].deps, i) => <<i, k>> \in reverseNonLocalPtrDeps
  BY PointerInfosOf DEF CachesOK, PointersMirrored, Mirrored
<1> DEFINE N == [k \in DOMAIN nonLocalPointerDeps' |-> nonLocalPointerDeps'[k].deps]
<1>8. N = PointerInfos'
  BY DEF PointerInfos
<1>9. DOMAIN N = DOMAIN nonLocalPointerDeps'
      /\ \A k \in DOMAIN nonLocalPointerDeps' : N[k] = nonLocalPointerDeps'[k].deps
  OBVIOUS
<1> HIDE DEF N
<1>10. ASSUME NEW x \in reverseNonLocalPtrDeps'
       PROVE  /\ x = <<x[1], x[2]>> /\ x[1] # Null /\ x[1] \in Present
              /\ x[2] \in DOMAIN N /\ Has(N[x[2]], x[1])
  <2>1. x \in reverseNonLocalPtrDeps /\ x \notin links
    BY <1>2
  <2>2. /\ x = <<x[1], x[2]>> /\ x[1] # Null /\ x[2] \in DOMAIN nonLocalPointerDeps
        /\ Has(nonLocalPointerDeps[x[2]].deps, x[1]) /\ x[1] \in Present
    BY <1>7, <2>1
  <2>3. x[2] # Key
    <3>1. SUFFICES ASSUME x[2] = Key
                   PROVE  FALSE
      OBVIOUS
    <3>2. Has(Deps, x[1])
      BY <2>2, <3>1, TopInfo
    <3> QED BY <1>6, <2>1, <2>2, <3>1, <3>2 DEF Has
  <2> QED BY <1>3, <1>9, <2>2, <2>3
<1>11. ASSUME NEW k \in DOMAIN N, NEW i \in Present, Has(N[k], i)
       PROVE  <<i, k>> \in reverseNonLocalPtrDeps'
  <2>1. k # Key
    BY <1>1, <1>3, <1>9, <1>11 DEF Has
  <2>2. <<i, k>> \in reverseNonLocalPtrDeps
    BY <1>3, <1>7, <1>9, <1>11, <2>1
  <2> QED BY <1>2, <1>6, <2>1, <2>2
<1>12. Mirrored(Present, reverseNonLocalPtrDeps', N)
  BY <1>10, <1>11 DEF Mirrored
<1>13. PointersMirrored'
  BY <1>4, <1>8, <1>10, <1>12 DEF PointersMirrored, Mirrored, Has, GetInst
<1> QED BY <1>1, <1>3, <1>5, <1>13 DEF CachesOK

LEMMA ThrowOutOK ==
    ASSUME FunctionOK, PointersOK, ThrowOutSmaller \/ ThrowOutTagged
    PROVE  PointersOK'
<1>1. CachesOK /\ StackOK /\ CachesSorted
  BY DEF PointersOK, SortedOK
<1>2. stack # <<>> /\ UNCHANGED <<fn, insts, pc, stack, visited>> /\ ~Filling
  BY DEF ThrowOutSmaller, ThrowOutTagged, In, running, Filling
<1>3. \E info \in Infos : ThrowOut(info)
  <2>1. Info \in Infos /\ Top.loc.size \in fn.sizes
    BY <1>1, <1>2, TopInfo, TopFrame DEF Frames
  <2>2. [Info EXCEPT !.size = Top.loc.size] \in Infos /\ [Info EXCEPT !.tag = Null] \in Infos
    BY <2>1 DEF Infos, Tags
  <2> QED BY <2>2 DEF ThrowOutSmaller, ThrowOutTagged
<1>4. /\ CachesOK'
      /\ DOMAIN nonLocalPointerDeps' = DOMAIN nonLocalPointerDeps \union {Key}
      /\ nonLocalPointerDeps'[Key].deps = <<>>
      /\ \A k \in DOMAIN nonLocalPointerDeps \ {Key} :
            nonLocalPointerDeps'[k] = nonLocalPointerDeps[k]
  BY <1>1, <1>2, <1>3, ThrowOutCaches
<1>5. StackOK' /\ ~Filling'
  BY <1>1, <1>2, SameStack
<1>6. \A k \in DOMAIN nonLocalPointerDeps' : IsSortedInfo(nonLocalPointerDeps'[k].deps)
  <2>1. IsSortedInfo(<<>>)
    BY EmptySeq DEF IsSortedInfo
  <2> QED BY <1>1, <1>2, <1>4, <2>1 DEF CachesSorted
<1> QED BY <1>2, <1>4, <1>5, <1>6, AllSorted DEF PointersOK

\* Only the frame changes, and it fills no cache before or after.
LEMMA OnlyStack ==
    ASSUME FunctionOK, PointersOK, StackOK', ~Filling, ~Filling',
           UNCHANGED <<fn, insts, nonLocalPointerDeps, reverseNonLocalPtrDeps>>
    PROVE  PointersOK'
<1>1. \A k \in DOMAIN nonLocalPointerDeps' : IsSortedInfo(nonLocalPointerDeps'[k].deps)
  BY DEF PointersOK, SortedOK, CachesSorted
<1> QED BY <1>1, SameCaches, AllSorted DEF PointersOK

LEMMA RestartOK ==
    ASSUME FunctionOK, PointersOK, RestartWithSize \/ RestartWithoutTag
    PROVE  PointersOK'
<1>1. CachesOK /\ StackOK
  BY DEF PointersOK
<1>2. /\ stack # <<>> /\ ~Filling /\ Top.mode = "enter"
      /\ UNCHANGED <<fn, insts, pc, visited, nonLocalPointerDeps, reverseNonLocalPtrDeps>>
  BY DEF RestartWithSize, RestartWithoutTag, In, caches, Filling
<1>3. Top \in Frames /\ FrameOK(Top) /\ Info.size \in fn.sizes
  BY <1>1, <1>2, TopFrame, TopInfo
<1>4. ASSUME NEW g \in Frames, Become(g), g.mode = "enter", g.skip = Top.skip, g.start = Top.start,
             g.work = Top.work
      PROVE  PointersOK'
  <2>1. FrameOK(g)
    BY <1>2, <1>3, <1>4 DEF FrameOK, WorkOK
  <2>2. FrameOK(g)'
    BY <1>2, <2>1, FrameStays
  <2>3. StackOK' /\ Top' = g
    BY <1>1, <1>2, <1>4, <2>2, BecomeStack
  <2>4. ~Filling'
    BY <1>4, <2>3 DEF Filling
  <2> QED BY <1>2, <2>3, <2>4, OnlyStack
<1>5. CASE RestartWithSize
  <2> DEFINE g == [Top EXCEPT !.loc.size = Info.size]
  <2>1. Become(g)
    BY <1>5 DEF RestartWithSize
  <2>2. g \in Frames /\ g.mode = "enter" /\ g.skip = Top.skip /\ g.start = Top.start /\ g.work = Top.work
    BY <1>2, <1>3 DEF Frames
  <2> QED BY <1>4, <2>1, <2>2
<1>6. CASE RestartWithoutTag
  <2> DEFINE g == [Top EXCEPT !.loc.tag = Null]
  <2>1. Become(g)
    BY <1>6 DEF RestartWithoutTag
  <2>2. Null \in Tags
    BY DEF Tags
  <2>3. g \in Frames /\ g.mode = "enter" /\ g.skip = Top.skip /\ g.start = Top.start /\ g.work = Top.work
    BY <1>2, <1>3, <2>2 DEF Frames
  <2> QED BY <1>4, <2>1, <2>3
<1> QED BY <1>5, <1>6

LEMMA ReturnCachedOK ==
    ASSUME FunctionOK, PointersOK, ReturnCached
    PROVE  PointersOK'
<1>1. /\ stack # <<>> /\ ~Filling /\ stack' = Tail(stack)
      /\ UNCHANGED <<fn, insts, pc, nonLocalPointerDeps, reverseNonLocalPtrDeps>>
  BY DEF ReturnCached, In, caches, Filling
<1>2. DOMAIN visited \subseteq DOMAIN visited'
  BY DEF ReturnCached
<1>3. StackOK' /\ ~Filling'
  BY <1>1, <1>2, PopStack DEF PointersOK
<1> QED BY <1>1, <1>3, OnlyStack

LEMMA ReturnConflictOK ==
    ASSUME FunctionOK, PointersOK, ReturnConflict
    PROVE  PointersOK'
<1>1. /\ stack # <<>> /\ ~Filling /\ stack' = Tail(stack)
      /\ UNCHANGED <<fn, insts, pc, visited, reverseNonLocalPtrDeps>>
      /\ nonLocalPointerDeps' = Unpaired(nonLocalPointerDeps, CallerKeys)
  BY DEF ReturnConflict, ReturnUnknown, In, Filling
<1>2. StackOK' /\ ~Filling'
  BY <1>1, PopStack DEF PointersOK
<1>3. /\ CachesOK'
      /\ DOMAIN nonLocalPointerDeps' = DOMAIN nonLocalPointerDeps
      /\ \A k \in DOMAIN nonLocalPointerDeps :
            nonLocalPointerDeps'[k].deps = nonLocalPointerDeps[k].deps
  BY <1>1, UnpairedCaches DEF PointersOK
<1>4. \A k \in DOMAIN nonLocalPointerDeps' : IsSortedInfo(nonLocalPointerDeps'[k].deps)
  BY <1>1, <1>3 DEF PointersOK, SortedOK, CachesSorted
<1> QED BY <1>1, <1>2, <1>3, <1>4, AllSorted DEF PointersOK

\* A call that goes on filling the cache of its pointer, now deps.
LEMMA StillFilling ==
    ASSUME FunctionOK, CachesSorted, CachesOK', StackOK', UNCHANGED <<fn, insts>>,
           NEW g, stack' # <<>>, Top' = g, Key' = Key, g.mode \in {"loop", "pass"},
           \A k \in DOMAIN nonLocalPointerDeps' \ {Key} :
              k \in DOMAIN nonLocalPointerDeps
              /\ nonLocalPointerDeps'[k].deps = nonLocalPointerDeps[k].deps,
           NEW deps, Deps' = deps,
           g.sorted \in 0..Len(deps), SortedTo(deps, g.sorted), g.skip => g.sorted = Len(deps),
           \A n \in g.sorted + 1..Len(deps) :
              /\ deps[n].bb \in DOMAIN visited'
              /\ \A m \in 1..Len(g.work) : g.work[m] # deps[n].bb
    PROVE  PointersOK'
<1>1. Filling'
  BY DEF Filling
<1>2. CachesSorted'
  <2>1. \A k \in DOMAIN nonLocalPointerDeps' : k # Key => IsSortedInfo(nonLocalPointerDeps'[k].deps)
    BY DEF CachesSorted
  <2>2. \A info : IsSortedInfo(info)' <=> IsSortedInfo(info)
    BY SameEntries
  <2> QED BY <1>1, <2>1, <2>2 DEF CachesSorted, IsSortedInfo, Less
<1>3. TopOK'
  <2>1. SortedTo(Deps, Top.sorted)'
    BY DEF SortedTo, Less
  <2> QED BY <2>1 DEF TopOK
<1> QED BY <1>2, <1>3 DEF PointersOK, SortedOK

LEMMA BeginOK ==
    ASSUME FunctionOK, PointersOK, Begin
    PROVE  PointersOK'
<1>0. PICK g : g = [Top EXCEPT !.mode = "loop", !.work = <<Top.start>>, !.sorted = Len(Deps)]
  OBVIOUS
<1> DEFINE info == [Info EXCEPT !.pair = IF Deps = <<>> THEN [bb |-> Top.start, skip |-> Top.skip]
                                         ELSE NoPair]
<1>1. CachesOK /\ StackOK /\ CachesSorted
  BY DEF PointersOK, SortedOK
<1>2. /\ stack # <<>> /\ ~Filling /\ Top.mode = "enter"
      /\ UNCHANGED <<fn, insts, pc, visited, reverseNonLocalPtrDeps>>
      /\ SetInfo(info) /\ Become(g)
  BY <1>0 DEF Begin, In, Filling, Deps
<1>3. Top \in Frames /\ FrameOK(Top) /\ Key = [ptr |-> Top.loc.ptr, isLoad |-> Top.isLoad]
  BY <1>1, <1>2, TopFrame DEF Key
<1>4. Info \in Infos /\ Distinct(Deps) /\ Deps = Info.deps /\ Len(Deps) \in Nat
  BY <1>1, <1>2, TopInfo
<1>5. info \in Infos /\ info.deps = Deps
  <2>1. Top.start \in Blocks /\ Top.skip \in BOOLEAN
    BY <1>3 DEF Frames
  <2> QED BY <1>4, <2>1 DEF Infos, NoPair
<1> HIDE DEF info
<1>6. /\ CachesOK'
      /\ DOMAIN nonLocalPointerDeps' = DOMAIN nonLocalPointerDeps \union {Key}
      /\ nonLocalPointerDeps'[Key] = info
      /\ \A k \in DOMAIN nonLocalPointerDeps \ {Key} :
            nonLocalPointerDeps'[k] = nonLocalPointerDeps[k]
  BY <1>1, <1>2, <1>4, <1>5, SetInfoCaches
<1>7. /\ g \in Frames /\ g.mode = "loop" /\ g.work = <<Top.start>> /\ g.sorted = Len(Deps)
      /\ g.skip = Top.skip /\ g.start = Top.start /\ g.loc = Top.loc /\ g.isLoad = Top.isLoad
  <2>1. <<Top.start>> \in Seq(Blocks)
    BY <1>3 DEF Frames
  <2> QED BY <1>0, <1>3, <1>4, <2>1 DEF Frames
<1>8. FrameOK(g)
  <2>1. Len(<<Top.start>>) = 1 /\ \A n \in 1..1 : n = 1 /\ <<Top.start>>[n] = Top.start
    OBVIOUS
  <2>2. ~Top.skip => Top.start \in DOMAIN visited
    BY <1>2, <1>3 DEF FrameOK, WorkOK
  <2>3. WorkOK(g)
    BY <1>7, <2>1, <2>2 DEF WorkOK
  <2> QED BY <1>7, <2>3 DEF FrameOK
<1>9. FrameOK(g)'
  BY <1>2, <1>8, FrameStays
<1>10. StackOK' /\ stack' # <<>> /\ Top' = g /\ Key' = Key
  BY <1>1, <1>2, <1>3, <1>7, <1>9, BecomeStack
<1>11. Deps' = Deps
  <2>1. Info' = info
    BY <1>6, <1>10 DEF Info
  <2> QED BY <1>5, <2>1 DEF Deps
<1>12. SortedTo(Deps, Len(Deps))
  BY <1>1, <1>2, TopSorted
<1>13. PICK deps : deps = Deps
  OBVIOUS
<1>14. /\ g.sorted \in 0..Len(deps) /\ SortedTo(deps, g.sorted) /\ g.sorted = Len(deps)
       /\ g.sorted + 1..Len(deps) = {}
  BY <1>4, <1>7, <1>12, <1>13
<1> QED BY <1>1, <1>2, <1>6, <1>7, <1>10, <1>11, <1>13, <1>14, StillFilling

(***************************************************************************)
(* A block of the worklist.                                                   *)
(***************************************************************************)
LEMMA RescanCaches ==
    ASSUME FunctionOK, CachesOK, StackOK, stack # <<>>, UNCHANGED <<fn, insts>>,
           Block \in Blocks, Top.sorted \in 0..Len(Deps), SortedTo(Deps, Top.sorted),
           \A n \in Top.sorted + 1..Len(Deps) : Deps[n].bb # Block,
           NEW dep \in FoundIn(Block) \union Constants, Rescan(dep)
    PROVE  \E new \in Seq(Entries) :
              /\ CachesOK' /\ SortedTo(new, Top.sorted) /\ Len(new) >= Len(Deps)
              /\ \A n \in 1..Len(Deps) : new[n].bb = Deps[n].bb
              /\ Len(new) # Len(Deps) => Len(new) = Len(Deps) + 1 /\ new[Len(new)].bb = Block
              /\ DOMAIN nonLocalPointerDeps' = DOMAIN nonLocalPointerDeps \union {Key}
              /\ nonLocalPointerDeps'[Key].deps = new
              /\ \A k \in DOMAIN nonLocalPointerDeps \ {Key} :
                    nonLocalPointerDeps'[k] = nonLocalPointerDeps[k]
<1>1. PICK b : b = Block
  OBVIOUS
<1>2. PICK sorted : sorted = Top.sorted
  OBVIOUS
<1>3. PICK new : new = SetResult(Deps, sorted, b, dep)
  OBVIOUS
<1>4. /\ b \in Blocks /\ sorted \in 0..Len(Deps) /\ SortedTo(Deps, sorted)
      /\ \A n \in sorted + 1..Len(Deps) : Deps[n].bb # b
      /\ dep \in FoundIn(b) \union Constants
  BY <1>1, <1>2
<1>5. /\ SetInfo([Info EXCEPT !.deps = new])
      /\ reverseNonLocalPtrDeps' =
           (reverseNonLocalPtrDeps \ Link(Former(Deps, sorted, b), Key)) \union Remembered(dep)
  BY <1>1, <1>2, <1>3 DEF Rescan, Deps, FormerDep
<1> DEFINE info == [Info EXCEPT !.deps = new]
           N == Put(PointerInfos, Key, new)
<1>6. Info \in Infos /\ Deps \in Seq(Entries) /\ Distinct(Deps) /\ Key \in Keys
  BY TopInfo, TopFrame
<1>7. dep \in ResultsIn(b)
  BY <1>4 DEF FoundIn, ResultsIn
<1>8. new \in Seq(Entries) /\ SortedTo(new, sorted) /\ Distinct(new)
  BY <1>6, <1>7, <1>3, <1>4, SetResultSets, SetResultKeeps
<1>9. /\ Len(new) = IF Found(Deps, sorted, b) = {} THEN Len(Deps) + 1 ELSE Len(Deps)
      /\ \A n \in 1..Len(Deps) : new[n].bb = Deps[n].bb
      /\ Found(Deps, sorted, b) = {} => new[Len(Deps) + 1].bb = b
  <2>1. PICK deps : deps = Deps
    OBVIOUS
  <2>2. deps \in Seq(Entries) /\ sorted \in 0..Len(deps)
    BY <1>6, <1>4, <2>1
  <2>3. /\ Len(SetResult(deps, sorted, b, dep)) =
              IF Found(deps, sorted, b) = {} THEN Len(deps) + 1 ELSE Len(deps)
        /\ Found(deps, sorted, b) = {} =>
              SetResult(deps, sorted, b, dep)[Len(deps) + 1] = [bb |-> b, result |-> dep]
        /\ \A n \in 1..Len(deps) : SetResult(deps, sorted, b, dep)[n].bb = deps[n].bb
    BY <1>7, <1>4, <2>2, SetResultSets
  <2> QED BY <1>3, <2>1, <2>3
<1>10. info \in Infos /\ info.deps = new
  BY <1>6, <1>8 DEF Infos
<1> HIDE DEF info
<1>11. /\ DOMAIN nonLocalPointerDeps' = DOMAIN nonLocalPointerDeps \union {Key}
      /\ nonLocalPointerDeps'[Key] = info
      /\ \A k \in DOMAIN nonLocalPointerDeps \ {Key} :
            nonLocalPointerDeps'[k] = nonLocalPointerDeps[k]
  <2>1. nonLocalPointerDeps' = Put(nonLocalPointerDeps, Key, info)
    BY <1>5 DEF SetInfo, info
  <2> QED BY <2>1 DEF Put
<1>12. Present' = Present /\ Keys' = Keys /\ Infos' = Infos
  BY SameSets
<1>13. PointerCachesOK'
  BY <1>6, <1>8, <1>10, <1>11, <1>12 DEF CachesOK, PointerCachesOK, Distinct
<1>14. N = PointerInfos'
  BY <1>10, <1>11, PointerInfosOf DEF PointerInfos, Put
<1>15. Deps = IF Key \in DOMAIN PointerInfos THEN PointerInfos[Key] ELSE <<>>
  BY TopInfo, PointerInfosOf
<1>16. Each(b) \subseteq Present
  BY <1>4, InBlock DEF EachPlaced
<1>17. /\ Remembered(dep) \subseteq Link(dep, Key)
       /\ GetInst(dep) \in Present => Link(dep, Key) \subseteq Remembered(dep)
       /\ \A x \in Remembered(dep) : x[1] \in Present
  <2>1. CASE dep \in FoundIn(b)
    BY <1>16, <2>1 DEF Remembered, FoundIn, Link, GetInst
  <2>2. CASE dep \in Constants
    <3>1. Remembered(dep) = {}
      BY <2>2 DEF Constants, Remembered, NonLocal, NonFuncLocal, Unknown
    <3>2. GetInst(dep) \notin Present
      BY <1>7, <1>4, <2>2, ResultInst, PlacesOfPresent DEF Placed
    <3> QED BY <3>1, <3>2
  <2> QED BY <1>4, <2>1, <2>2
<1> HIDE DEF N
<1>18. Mirrored(Present, reverseNonLocalPtrDeps', N)
  <2>1. Mirrored(Present, reverseNonLocalPtrDeps, PointerInfos)
    BY DEF CachesOK, PointersMirrored
  <2>2. PICK links : links = Remembered(dep)
    OBVIOUS
  <2>3. links \subseteq Link(dep, Key)
    BY <1>17, <2>2
  <2>4. GetInst(dep) \in Present => Link(dep, Key) \subseteq links
    BY <1>17, <2>2
  <2>5. Mirrored(Present, (reverseNonLocalPtrDeps \ Link(Former(Deps, sorted, b), Key)) \union links,
                 Put(PointerInfos, Key, SetResult(Deps, sorted, b, dep)))
    BY <1>6, <1>7, <1>15, <1>4, <2>1, <2>3, <2>4, MirroredSet
  <2> QED BY <1>3, <1>5, <2>2, <2>5 DEF N
<1>19. \A x \in reverseNonLocalPtrDeps' : x[1] \in Present
  BY <1>17, <1>5 DEF CachesOK, PointersMirrored
<1>20. PointersMirrored'
  BY <1>12, <1>14, <1>18, <1>19 DEF PointersMirrored, Mirrored, Has, GetInst
<1>21. CachesOK'
  BY <1>13, <1>20 DEF CachesOK
<1>22. Len(Deps) \in Nat
  BY <1>6, LenProperties
<1>23. /\ Len(new) >= Len(Deps)
       /\ Len(new) # Len(Deps) => Len(new) = Len(Deps) + 1 /\ new[Len(new)].bb = b
  BY <1>9, <1>22
<1> QED BY <1>8, <1>10, <1>11, <1>9, <1>1, <1>2, <1>21, <1>23

\* What is known of a call that fills the cache of its pointer.
LEMMA FillingCall ==
    ASSUME FunctionOK, PointersOK, Filling
    PROVE  /\ CachesOK /\ StackOK /\ CachesSorted /\ stack # <<>>
           /\ Top \in Frames /\ FrameOK(Top) /\ Key = [ptr |-> Top.loc.ptr, isLoad |-> Top.isLoad]
           /\ Top.work \in Seq(Blocks) /\ Len(Top.work) \in Nat
           /\ Deps \in Seq(Entries) /\ Len(Deps) \in Nat /\ Distinct(Deps)
           /\ Top.sorted \in 0..Len(Deps) /\ SortedTo(Deps, Top.sorted)
           /\ Top.skip => Top.sorted = Len(Deps)
           /\ \A n \in Top.sorted + 1..Len(Deps) :
                 /\ Deps[n].bb \in DOMAIN visited
                 /\ \A m \in 1..Len(Top.work) : Top.work[m] # Deps[n].bb
<1>1. CachesOK /\ StackOK /\ CachesSorted /\ stack # <<>> /\ TopOK
  BY DEF PointersOK, SortedOK, Filling
<1>2. Top \in Frames /\ FrameOK(Top) /\ Key = [ptr |-> Top.loc.ptr, isLoad |-> Top.isLoad]
  BY <1>1, TopFrame DEF Key
<1>3. Top.work \in Seq(Blocks)
  BY <1>2 DEF Frames
<1>4. Deps \in Seq(Entries) /\ Len(Deps) \in Nat /\ Distinct(Deps) /\ Len(Top.work) \in Nat
  BY <1>1, <1>3, TopInfo, LenProperties
<1> QED BY <1>1, <1>2, <1>3, <1>4 DEF TopOK

LEMMA SameDeps ==
    ASSUME UNCHANGED nonLocalPointerDeps, Key' = Key, Top'.loc = Top.loc
    PROVE  Deps' = Deps
<1>1. Info' = Info
  BY DEF Info, NewInfo
<1> QED BY <1>1 DEF Deps

LEMMA NewDeps ==
    ASSUME Key' = Key, Key \in DOMAIN nonLocalPointerDeps'
    PROVE  Deps' = nonLocalPointerDeps'[Key].deps
BY DEF Deps, Info

LEMMA LookupOK ==
    ASSUME FunctionOK, PointersOK, Lookup
    PROVE  PointersOK'
<1>1. /\ Filling /\ Top.mode = "loop" /\ Top.work # <<>> /\ ~Top.skip
      /\ UNCHANGED <<fn, insts, pc, visited>>
  BY DEF Lookup, In, Filling
<1>2. /\ CachesOK /\ StackOK /\ CachesSorted /\ stack # <<>>
      /\ Top \in Frames /\ FrameOK(Top) /\ Key = [ptr |-> Top.loc.ptr, isLoad |-> Top.isLoad]
      /\ Top.work \in Seq(Blocks) /\ Len(Top.work) \in Nat
      /\ Deps \in Seq(Entries) /\ Len(Deps) \in Nat /\ Distinct(Deps)
      /\ Top.sorted \in 0..Len(Deps) /\ SortedTo(Deps, Top.sorted)
      /\ \A n \in Top.sorted + 1..Len(Deps) :
            /\ Deps[n].bb \in DOMAIN visited
            /\ \A m \in 1..Len(Top.work) : Top.work[m] # Deps[n].bb
  BY <1>1, FillingCall
<1>3. PICK b : b = Block
  OBVIOUS
<1>4. PICK rest : rest = Front(Top.work)
  OBVIOUS
<1>5. /\ rest \in Seq(Blocks) /\ Len(rest) = Len(Top.work) - 1 /\ Len(Top.work) \in Nat \ {0}
      /\ \A m \in 1..Len(rest) : rest[m] = Top.work[m]
      /\ b = Top.work[Len(Top.work)] /\ b \in Blocks
  BY <1>1, <1>2, <1>3, <1>4, FrontProperties DEF Block
<1>6. /\ b \in DOMAIN visited
      /\ \A m \in 1..Len(Top.work) : Top.work[m] \in DOMAIN visited
      /\ \A m \in 1..Len(rest) : rest[m] # b
      /\ \A m, n \in 1..Len(rest) : rest[m] = rest[n] => m = n
      /\ \A n \in Top.sorted + 1..Len(Deps) :
            /\ Deps[n].bb \in DOMAIN visited /\ Deps[n].bb # b
            /\ \A m \in 1..Len(rest) : rest[m] # Deps[n].bb
  <2>1. /\ \A m \in 1..Len(Top.work) : Top.work[m] \in DOMAIN visited
        /\ \A m, n \in 1..Len(Top.work) : Top.work[m] = Top.work[n] => m = n
    BY <1>1, <1>2 DEF FrameOK, WorkOK
  <2>2. 1..Len(rest) \subseteq 1..Len(Top.work) /\ Len(Top.work) \in 1..Len(Top.work)
        /\ \A m \in 1..Len(rest) : m # Len(Top.work)
    BY <1>5
  <2>3. ASSUME NEW n \in Top.sorted + 1..Len(Deps)
        PROVE  /\ Deps[n].bb \in DOMAIN visited /\ Deps[n].bb # b
               /\ \A m \in 1..Len(rest) : rest[m] # Deps[n].bb
    BY <1>2, <1>5, <2>2
  <2> QED BY <1>5, <2>1, <2>2, <2>3
<1>7. \E g : /\ Become(g)
             /\ \/ g = [Top EXCEPT !.work = rest]
                \/ g = [Top EXCEPT !.work = rest, !.mode = "pass", !.bb = b]
  BY <1>3, <1>4 DEF Lookup
<1>8. PICK g : /\ Become(g)
               /\ \/ g = [Top EXCEPT !.work = rest]
                  \/ g = [Top EXCEPT !.work = rest, !.mode = "pass", !.bb = b]
  BY <1>7
<1>9. /\ g \in Frames /\ g.mode \in {"loop", "pass"}
      /\ g.mode = "pass" => g.bb \in Blocks
      /\ g.work = rest /\ g.sorted = Top.sorted /\ ~g.skip /\ g.loc = Top.loc /\ g.isLoad = Top.isLoad
  <2>1. ASSUME g = [Top EXCEPT !.work = rest]
        PROVE  /\ g \in Frames /\ g.mode = "loop" /\ g.work = rest /\ g.sorted = Top.sorted
               /\ ~g.skip /\ g.loc = Top.loc /\ g.isLoad = Top.isLoad
    BY <1>1, <1>2, <1>5, <2>1 DEF Frames
  <2>2. ASSUME g = [Top EXCEPT !.work = rest, !.mode = "pass", !.bb = b]
        PROVE  /\ g \in Frames /\ g.mode = "pass" /\ g.bb = b /\ g.work = rest
               /\ g.sorted = Top.sorted /\ ~g.skip /\ g.loc = Top.loc /\ g.isLoad = Top.isLoad
    BY <1>1, <1>2, <1>5, <2>2 DEF Frames
  <2> QED BY <1>5, <1>8, <2>1, <2>2
<1>10. FrameOK(g)
  <2>1. WorkOK(g)
    BY <1>5, <1>6, <1>9 DEF WorkOK
  <2> QED BY <1>9, <2>1 DEF FrameOK
<1>11. FrameOK(g)'
  BY <1>1, <1>10, FrameStays
<1>12. StackOK' /\ stack' # <<>> /\ Top' = g /\ Key' = Key
  BY <1>1, <1>2, <1>8, <1>9, <1>11, BecomeStack
<1>13. CASE ~IsDirty(FormerDep) /\ UNCHANGED <<nonLocalPointerDeps, reverseNonLocalPtrDeps>>
  <2>1. CachesOK'
    BY <1>1, <1>2, <1>13, SameCaches
  <2>2. PICK deps : deps = Deps
    OBVIOUS
  <2>3. Deps' = deps
    BY <1>9, <1>12, <1>13, <2>2, SameDeps
  <2>4. \A n \in g.sorted + 1..Len(deps) :
           /\ deps[n].bb \in DOMAIN visited'
           /\ \A m \in 1..Len(g.work) : g.work[m] # deps[n].bb
    BY <1>1, <1>6, <1>9, <2>2
  <2>5. g.sorted \in 0..Len(deps) /\ SortedTo(deps, g.sorted)
    BY <1>2, <1>9, <2>2
  <2> QED BY <1>1, <1>2, <1>9, <1>12, <1>13, <2>1, <2>3, <2>4, <2>5, StillFilling
<1>14. CASE IsDirty(FormerDep) /\ Rescan(BlockDep)
  <2>1. PICK dep : dep = BlockDep
    OBVIOUS
  <2>2. dep \in FoundIn(Block) \union Constants
    <3>1. FormerDep \in ResultsIn(b)
      BY <1>2, <1>3, <1>5, FormerResult DEF FormerDep
    <3>2. ScanTo(b, FormerDep) \in 0..Len(insts[b])
      BY <1>5, <1>14, <3>1, ScanToRange
    <3>3. Top.isLoad \in BOOLEAN
      BY <1>2 DEF Frames
    <3>4. dep = PointerDependency(Top.loc, Top.isLoad, FALSE, b, ScanTo(b, FormerDep))
      BY <1>3, <1>14, <2>1 DEF BlockDep
    <3> QED BY <1>3, <1>5, <3>2, <3>3, <3>4, PointerDependencyResult
  <2>3. \A n \in Top.sorted + 1..Len(Deps) : Deps[n].bb # Block
    BY <1>3, <1>6
  <2>4. Rescan(dep) /\ Block \in Blocks
    BY <1>3, <1>5, <1>14, <2>1
  <2>5. PICK new \in Seq(Entries) :
              /\ CachesOK' /\ SortedTo(new, Top.sorted) /\ Len(new) >= Len(Deps)
              /\ \A n \in 1..Len(Deps) : new[n].bb = Deps[n].bb
              /\ Len(new) # Len(Deps) => Len(new) = Len(Deps) + 1 /\ new[Len(new)].bb = Block
              /\ DOMAIN nonLocalPointerDeps' = DOMAIN nonLocalPointerDeps \union {Key}
              /\ nonLocalPointerDeps'[Key].deps = new
              /\ \A k \in DOMAIN nonLocalPointerDeps \ {Key} :
                    nonLocalPointerDeps'[k] = nonLocalPointerDeps[k]
    BY <1>1, <1>2, <2>2, <2>3, <2>4, RescanCaches
  <2>6. Deps' = new
    BY <1>12, <2>5, NewDeps
  <2>7. ASSUME NEW n \in g.sorted + 1..Len(new)
        PROVE  /\ new[n].bb \in DOMAIN visited'
               /\ \A m \in 1..Len(g.work) : g.work[m] # new[n].bb
    <3>1. CASE n \in 1..Len(Deps)
      BY <1>1, <1>6, <1>9, <2>5, <3>1
    <3>2. CASE n \notin 1..Len(Deps)
      <4>1. n = Len(new) /\ new[n].bb = b
        BY <1>2, <1>3, <1>9, <2>5, <3>2, LenProperties
      <4> QED BY <1>1, <1>6, <1>9, <4>1
    <3> QED BY <3>1, <3>2
  <2>8. g.sorted \in 0..Len(new) /\ SortedTo(new, g.sorted)
    BY <1>2, <1>9, <2>5, LenProperties
  <2> QED BY <1>1, <1>2, <1>9, <1>12, <2>5, <2>6, <2>7, <2>8, StillFilling
<1> QED BY <1>13, <1>14 DEF Lookup

LEMMA SkipFirstBlockOK ==
    ASSUME FunctionOK, PointersOK, SkipFirstBlock
    PROVE  PointersOK'
<1>1. /\ Filling /\ Top.mode = "loop" /\ Top.work # <<>> /\ Top.skip
      /\ UNCHANGED <<fn, insts, pc, visited, nonLocalPointerDeps, reverseNonLocalPtrDeps>>
  BY DEF SkipFirstBlock, In, Filling, caches
<1>2. /\ CachesOK /\ StackOK /\ CachesSorted /\ stack # <<>>
      /\ Top \in Frames /\ FrameOK(Top) /\ Key = [ptr |-> Top.loc.ptr, isLoad |-> Top.isLoad]
      /\ Len(Deps) \in Nat /\ Top.sorted = Len(Deps) /\ SortedTo(Deps, Top.sorted)
  BY <1>1, FillingCall
<1>3. PICK b : b = Block
  OBVIOUS
<1>4. PICK rest : rest = Front(Top.work)
  OBVIOUS
<1>5. Top.work = <<Top.start>> /\ b = Top.start /\ b \in Blocks /\ rest = <<>>
  <2>1. Top.work = <<Top.start>> /\ Top.start \in Blocks
    BY <1>1, <1>2 DEF FrameOK, WorkOK, Frames
  <2>2. Top.work \in Seq(Blocks) /\ Len(Top.work) = 1 /\ Top.work[1] = Top.start
    BY <2>1
  <2>3. rest \in Seq(Blocks) /\ Len(rest) = 0 /\ b = Top.work[1]
    BY <1>1, <1>3, <1>4, <2>2, FrontProperties DEF Block
  <2> QED BY <2>1, <2>2, <2>3, EmptySeq
<1>6. PICK g : g = [Top EXCEPT !.mode = "pass", !.bb = b, !.work = rest]
  OBVIOUS
<1>7. Become(g)
  BY <1>3, <1>4, <1>6 DEF SkipFirstBlock
<1>8. /\ g \in Frames /\ g.mode = "pass" /\ g.bb \in Blocks /\ g.work = <<>> /\ g.skip
      /\ g.sorted = Top.sorted /\ g.loc = Top.loc /\ g.isLoad = Top.isLoad
  BY <1>1, <1>2, <1>5, <1>6, EmptySeq DEF Frames
<1>9. FrameOK(g)
  BY <1>8 DEF FrameOK, WorkOK
<1>10. FrameOK(g)'
  BY <1>1, <1>9, FrameStays
<1>11. StackOK' /\ stack' # <<>> /\ Top' = g /\ Key' = Key
  BY <1>1, <1>2, <1>7, <1>8, <1>10, BecomeStack
<1>12. CachesOK'
  BY <1>1, <1>2, SameCaches
<1>13. PICK deps : deps = Deps
  OBVIOUS
<1>14. Deps' = deps
  BY <1>1, <1>8, <1>11, <1>13, SameDeps
<1>15. /\ g.sorted \in 0..Len(deps) /\ SortedTo(deps, g.sorted) /\ g.sorted = Len(deps)
       /\ g.sorted + 1..Len(deps) = {}
  BY <1>2, <1>8, <1>13
<1> QED BY <1>1, <1>2, <1>8, <1>11, <1>12, <1>14, <1>15, StillFilling

(***************************************************************************)
(* Past a block, to its predecessors.                                         *)
(***************************************************************************)
LEMMA StepsProperties ==
    ASSUME FunctionOK, Top.loc.ptr \in Alive, Top.bb \in Blocks
    PROVE  Steps \in Seq(Blocks \X Alive)
<1>1. PICK preds : preds = Preds(Top.bb)
  OBVIOUS
<1>2. preds \in Seq(Blocks)
  BY <1>1, FunctionsAssumption DEF FunctionOK, Blocks, Preds
<1>3. Len(preds) \in Nat /\ DOMAIN preds = 1..Len(preds) /\ \A n \in 1..Len(preds) : preds[n] \in Blocks
  BY <1>2, LenProperties, ElementOfSeq
<1>4. Null \in Alive
  <2>1. Gone \intersect NoInstructions = {}
    BY FunctionsAssumption DEF FunctionOK, Gone
  <2> QED BY <2>1 DEF Alive, Pointers, NoInstructions
<1>5. ASSUME NEW a
      PROVE  Into(Top.bb, Top.loc.ptr, a) \in Alive
  BY <1>4 DEF Into, Available, Alive, Pointers
<1>6. Steps = [n \in 1..Len(preds) |-> <<preds[n], Into(Top.bb, Top.loc.ptr, preds[n])>>]
  BY <1>1, <1>3 DEF Steps, Translation
<1>7. Steps \in [1..Len(preds) -> Blocks \X Alive]
  BY <1>3, <1>5, <1>6
<1> QED BY <1>3, <1>7, SeqDef

LEMMA NewStepsProperties ==
    ASSUME FunctionOK, Top.loc.ptr \in Alive, Top.bb \in Blocks
    PROVE  /\ NewSteps \in Seq(Blocks \X Alive)
           /\ \A n \in 1..Len(NewSteps) : NewSteps[n][1] \notin DOMAIN visited
           /\ \A m, n \in 1..Len(NewSteps) : NewSteps[m][1] = NewSteps[n][1] => m = n
<1>1. PICK I : I = {n \in DOMAIN Steps : /\ Steps[n][1] \notin DOMAIN visited
                                         /\ \A m \in 1..n - 1 : Steps[m][1] # Steps[n][1]}
  OBVIOUS
<1>2. PICK s : s = Steps
  OBVIOUS
<1>3. s \in Seq(Blocks \X Alive) /\ DOMAIN s = 1..Len(s) /\ Len(s) \in Nat
  BY <1>2, StepsProperties, LenProperties
<1>4. /\ I \subseteq 1..Len(s)
      /\ \A n \in I : s[n][1] \notin DOMAIN visited /\ \A m \in 1..n - 1 : s[m][1] # s[n][1]
  BY <1>1, <1>2, <1>3
<1>5. PICK new : new = NewSteps
  OBVIOUS
<1>6. new = Picked(s, I)
  BY <1>1, <1>2, <1>5 DEF NewSteps
<1>7. new \in Seq(Blocks \X Alive) /\ \E at : TakenAt(at, new, s, I)
  BY <1>3, <1>4, <1>6, PickedProperties
<1>8. PICK at : /\ at \in [1..Len(new) -> I]
                /\ \A k \in 1..Len(new) : new[k] = s[at[k]]
                /\ \A j, k \in 1..Len(new) : at[j] = at[k] => j = k
  BY <1>7 DEF TakenAt
<1>9. ASSUME NEW m \in 1..Len(new), NEW n \in 1..Len(new), new[m][1] = new[n][1]
      PROVE  m = n
  <2>1. at[m] \in I /\ at[n] \in I /\ at[m] \in Nat /\ at[n] \in Nat /\ at[m] >= 1 /\ at[n] >= 1
    <3>1. at[m] \in I /\ at[n] \in I
      BY <1>8
    <3>2. at[m] \in 1..Len(s) /\ at[n] \in 1..Len(s)
      BY <1>4, <3>1
    <3> QED BY <1>3, <3>1, <3>2
  <2>2. s[at[m]][1] = s[at[n]][1]
    BY <1>8, <1>9
  <2>3. ~(at[m] < at[n]) /\ ~(at[n] < at[m])
    BY <1>4, <2>1, <2>2
  <2> QED BY <1>8, <2>1, <2>3
<1>10. \A n \in 1..Len(new) : new[n][1] \notin DOMAIN visited
  BY <1>4, <1>8
<1> QED BY <1>5, <1>7, <1>9, <1>10

LEMMA VisitDomain ==
    ASSUME NEW S, NewSteps \in Seq(S), Visit(NewSteps)
    PROVE  /\ DOMAIN visited \subseteq DOMAIN visited'
           /\ \A n \in 1..Len(NewSteps) : NewSteps[n][1] \in DOMAIN visited'
<1>1. DOMAIN NewSteps = 1..Len(NewSteps)
  BY LenProperties
<1>2. DOMAIN visited' = DOMAIN visited \union {NewSteps[n][1] : n \in DOMAIN NewSteps}
  BY DEF Visit
<1> QED BY <1>1, <1>2

\* The frame of a call that is to go past a block.
LEMMA PassingFrame ==
    ASSUME FunctionOK, PointersOK, Filling, Top.mode = "pass"
    PROVE  /\ Top.loc.ptr \in Alive /\ Top.bb \in Blocks
           /\ \A n \in 1..Len(Top.work) : Top.work[n] \in DOMAIN visited
           /\ \A m, n \in 1..Len(Top.work) : Top.work[m] = Top.work[n] => m = n
           /\ Top.skip => Top.work = <<>>
<1>1. Top \in Frames /\ FrameOK(Top)
  BY FillingCall
<1>2. Top.loc.ptr \in Alive /\ Top.bb \in Blocks
  BY <1>1 DEF Frames, FrameOK
<1>3. CASE Top.skip
  <2>1. Top.work = <<>> /\ Len(<<>>) = 0
    BY <1>1, <1>3 DEF FrameOK, WorkOK
  <2> QED BY <1>2, <2>1
<1>4. CASE ~Top.skip
  BY <1>1, <1>2, <1>4 DEF FrameOK, WorkOK
<1> QED BY <1>3, <1>4

LEMMA PassUntranslatedOK ==
    ASSUME FunctionOK, PointersOK, PassUntranslated
    PROVE  PointersOK'
<1>1. /\ Filling /\ Top.mode = "pass" /\ Visit(NewSteps)
      /\ UNCHANGED <<fn, insts, pc, nonLocalPointerDeps, reverseNonLocalPtrDeps>>
  BY DEF PassUntranslated, In, Filling, caches
<1>2. /\ CachesOK /\ StackOK /\ CachesSorted /\ stack # <<>>
      /\ Top \in Frames /\ Key = [ptr |-> Top.loc.ptr, isLoad |-> Top.isLoad]
      /\ Top.work \in Seq(Blocks) /\ Len(Top.work) \in Nat /\ Len(Deps) \in Nat
      /\ Top.sorted \in 0..Len(Deps) /\ SortedTo(Deps, Top.sorted)
      /\ \A n \in Top.sorted + 1..Len(Deps) :
            /\ Deps[n].bb \in DOMAIN visited
            /\ \A m \in 1..Len(Top.work) : Top.work[m] # Deps[n].bb
  BY <1>1, FillingCall
<1>3. /\ Top.loc.ptr \in Alive /\ Top.bb \in Blocks
      /\ \A n \in 1..Len(Top.work) : Top.work[n] \in DOMAIN visited
      /\ \A m, n \in 1..Len(Top.work) : Top.work[m] = Top.work[n] => m = n
  BY <1>1, PassingFrame
<1>4. PICK new : new = NewSteps
  OBVIOUS
<1>5. /\ new \in Seq(Blocks \X Alive) /\ Len(new) \in Nat /\ DOMAIN new = 1..Len(new)
      /\ \A n \in 1..Len(new) : new[n][1] \in Blocks /\ new[n][1] \notin DOMAIN visited
      /\ \A m, n \in 1..Len(new) : new[m][1] = new[n][1] => m = n
  <2>1. /\ new \in Seq(Blocks \X Alive)
        /\ \A n \in 1..Len(new) : new[n][1] \notin DOMAIN visited
        /\ \A m, n \in 1..Len(new) : new[m][1] = new[n][1] => m = n
    BY <1>3, <1>4, NewStepsProperties
  <2>2. \A n \in 1..Len(new) : new[n] \in Blocks \X Alive
    BY <2>1, ElementOfSeq
  <2> QED BY <2>1, <2>2, LenProperties
<1>6. /\ DOMAIN visited \subseteq DOMAIN visited'
      /\ \A n \in 1..Len(new) : new[n][1] \in DOMAIN visited'
  BY <1>1, <1>4, <1>5, VisitDomain
<1>7. PICK more : more = [n \in 1..Len(new) |-> new[n][1]]
  OBVIOUS
<1>8. more \in Seq(Blocks) /\ Len(more) = Len(new) /\ \A n \in 1..Len(new) : more[n] = new[n][1]
  <2>1. more \in [1..Len(new) -> Blocks]
    BY <1>5, <1>7
  <2> QED BY <1>5, <1>7, <2>1, SeqDef, LenProperties
<1>9. PICK work : work = Top.work \o more
  OBVIOUS
<1>10. /\ work \in Seq(Blocks) /\ Len(work) \in Nat
       /\ \A n \in 1..Len(work) :
             \/ n \in 1..Len(Top.work) /\ work[n] = Top.work[n]
             \/ n - Len(Top.work) \in 1..Len(new) /\ work[n] = new[n - Len(Top.work)][1]
  <2>1. PICK old : old = Top.work
    OBVIOUS
  <2>2. old \in Seq(Blocks) /\ more \in Seq(Blocks) /\ Len(old) \in Nat
    BY <1>2, <1>8, <2>1
  <2>3. /\ old \o more \in Seq(Blocks) /\ Len(old \o more) = Len(old) + Len(more)
        /\ \A n \in 1..Len(old) + Len(more) :
              (old \o more)[n] = IF n <= Len(old) THEN old[n] ELSE more[n - Len(old)]
    BY <2>2, ConcatProperties
  <2>4. work = old \o more
    BY <1>9, <2>1
  <2> HIDE <2>4
  <2>5. work \in Seq(Blocks) /\ Len(work) = Len(old) + Len(new)
    BY <1>8, <2>3, <2>4
  <2>6. ASSUME NEW n \in 1..Len(work)
        PROVE  \/ n \in 1..Len(old) /\ work[n] = old[n]
               \/ n - Len(old) \in 1..Len(new) /\ work[n] = new[n - Len(old)][1]
    <3>1. work[n] = IF n <= Len(old) THEN old[n] ELSE more[n - Len(old)]
      BY <1>8, <2>3, <2>4, <2>5
    <3> QED BY <1>5, <1>8, <2>2, <2>5, <3>1
  <2> QED BY <1>5, <2>1, <2>2, <2>5, <2>6
<1>11. /\ \A n \in 1..Len(work) : work[n] \in DOMAIN visited'
       /\ \A m, n \in 1..Len(work) : work[m] = work[n] => m = n
  <2>1. \A n \in 1..Len(work) : work[n] \in DOMAIN visited'
    BY <1>3, <1>6, <1>10
  <2>2. ASSUME NEW m \in 1..Len(work), NEW n \in 1..Len(work), work[m] = work[n]
        PROVE  m = n
    <3>1. CASE m \in 1..Len(Top.work) /\ work[m] = Top.work[m]
      <4>1. Top.work[m] \in DOMAIN visited
        BY <1>3, <3>1
      <4>2. n \in 1..Len(Top.work) /\ work[n] = Top.work[n]
        BY <1>5, <1>10, <2>2, <3>1, <4>1
      <4> QED BY <1>3, <2>2, <3>1, <4>2
    <3>2. CASE m - Len(Top.work) \in 1..Len(new) /\ work[m] = new[m - Len(Top.work)][1]
      <4>1. n - Len(Top.work) \in 1..Len(new) /\ work[n] = new[n - Len(Top.work)][1]
        BY <1>3, <1>5, <1>10, <2>2, <3>2
      <4>2. m - Len(Top.work) = n - Len(Top.work)
        BY <1>5, <2>2, <3>2, <4>1
      <4> QED BY <1>2, <1>10, <4>2
    <3> QED BY <1>10, <3>1, <3>2
  <2> QED BY <2>1, <2>2
<1>12. PICK g : g = [Top EXCEPT !.mode = "loop", !.skip = FALSE, !.work = work]
  OBVIOUS
<1>13. Become(g)
  BY <1>1, <1>4, <1>5, <1>7, <1>9, <1>12 DEF PassUntranslated
<1>14. /\ g \in Frames /\ g.mode = "loop" /\ ~g.skip /\ g.work = work
       /\ g.sorted = Top.sorted /\ g.loc = Top.loc /\ g.isLoad = Top.isLoad
  BY <1>2, <1>10, <1>12 DEF Frames
<1>15. FrameOK(g)'
  <2>1. Frames' = Frames
    BY <1>1, SameSets
  <2>2. WorkOK(g)'
    BY <1>11, <1>14 DEF WorkOK
  <2> QED BY <1>14, <2>1, <2>2 DEF FrameOK
<1>16. StackOK' /\ stack' # <<>> /\ Top' = g /\ Key' = Key
  BY <1>1, <1>2, <1>6, <1>13, <1>14, <1>15, BecomeStack
<1>17. CachesOK'
  BY <1>1, <1>2, SameCaches
<1>18. PICK deps : deps = Deps
  OBVIOUS
<1>19. Deps' = deps
  BY <1>1, <1>14, <1>16, <1>18, SameDeps
<1>20. ASSUME NEW n \in g.sorted + 1..Len(deps)
       PROVE  /\ deps[n].bb \in DOMAIN visited'
              /\ \A m \in 1..Len(g.work) : g.work[m] # deps[n].bb
  <2>1. /\ deps[n].bb \in DOMAIN visited
        /\ \A m \in 1..Len(Top.work) : Top.work[m] # deps[n].bb
    BY <1>2, <1>14, <1>18
  <2> QED BY <1>5, <1>6, <1>10, <1>14, <2>1
<1>21. g.sorted \in 0..Len(deps) /\ SortedTo(deps, g.sorted)
  BY <1>2, <1>14, <1>18
<1> QED BY <1>1, <1>2, <1>14, <1>16, <1>17, <1>19, <1>20, <1>21, StillFilling

\* What was added to the cache of the top call is sorted into the rest.
LEMMA SortTop ==
    ASSUME FunctionOK, PointersOK, Filling, UNCHANGED <<fn, insts, reverseNonLocalPtrDeps>>,
           SetInfo([Info EXCEPT !.deps = SortNonLocalDepInfoCache(@, Top.sorted)])
    PROVE  /\ CachesOK'
           /\ \A k \in DOMAIN nonLocalPointerDeps' : IsSortedInfo(nonLocalPointerDeps'[k].deps)
<1>1. PICK new : new = SortNonLocalDepInfoCache(Deps, Top.sorted)
  OBVIOUS
<1>2. /\ CachesOK /\ StackOK /\ CachesSorted /\ stack # <<>>
      /\ Deps \in Seq(Entries) /\ Distinct(Deps)
      /\ Top.sorted \in 0..Len(Deps) /\ SortedTo(Deps, Top.sorted)
  BY FillingCall
<1>3. Permutes(new, Deps) /\ IsSortedInfo(new)
  BY <1>1, <1>2, SortsTheRest
<1>4. \A i : Has(new, i) <=> Has(Deps, i)
  BY <1>3, PermutesHas
<1>5. new \in Seq(Entries) /\ Distinct(new)
  BY <1>2, <1>3 DEF Permutes
<1>6. PICK info : info = [Info EXCEPT !.deps = new]
  OBVIOUS
<1>7. info \in Infos /\ info.deps = new
  BY <1>2, <1>5, <1>6, TopInfo DEF Infos
<1>8. SetInfo(info)
  BY <1>1, <1>6 DEF Deps
<1>9. /\ CachesOK'
      /\ DOMAIN nonLocalPointerDeps' = DOMAIN nonLocalPointerDeps \union {Key}
      /\ nonLocalPointerDeps'[Key] = info
      /\ \A k \in DOMAIN nonLocalPointerDeps \ {Key} :
            nonLocalPointerDeps'[k] = nonLocalPointerDeps[k]
  BY <1>2, <1>4, <1>5, <1>7, <1>8, SetInfoCaches
<1> QED BY <1>2, <1>3, <1>7, <1>9 DEF CachesSorted

LEMMA PassTranslatedOK ==
    ASSUME FunctionOK, PointersOK, PassTranslated
    PROVE  PointersOK'
<1>1. /\ Filling /\ Top.mode = "pass" /\ Visit(NewSteps)
      /\ UNCHANGED <<fn, insts, pc, reverseNonLocalPtrDeps>>
      /\ SetInfo([Info EXCEPT !.deps = SortNonLocalDepInfoCache(@, Top.sorted)])
  BY DEF PassTranslated, In, Filling
<1>2. StackOK /\ stack # <<>> /\ Top \in Frames /\ FrameOK(Top)
  BY <1>1, FillingCall
<1>3. CachesOK' /\ \A k \in DOMAIN nonLocalPointerDeps' : IsSortedInfo(nonLocalPointerDeps'[k].deps)
  BY <1>1, SortTop
<1>4. PICK new : new = NewSteps
  OBVIOUS
<1>5. new \in Seq(Blocks \X Alive)
  BY <1>1, <1>4, PassingFrame, NewStepsProperties
<1>6. /\ DOMAIN visited \subseteq DOMAIN visited'
      /\ \A n \in 1..Len(new) : new[n][1] \in DOMAIN visited'
  BY <1>1, <1>4, <1>5, VisitDomain
<1>7. PICK g : g = [Top EXCEPT !.mode = "preds", !.preds = new]
  OBVIOUS
<1>8. Become(g)
  BY <1>4, <1>7 DEF PassTranslated
<1>9. /\ g \in Frames /\ g.mode = "preds" /\ g.preds = new /\ g.skip = Top.skip /\ g.work = Top.work
      /\ g.bb = Top.bb
  BY <1>2, <1>5, <1>7 DEF Frames
<1>10. FrameOK(g)'
  <2>1. Frames' = Frames /\ Blocks' = Blocks
    BY <1>1, SameSets
  <2>2. WorkOK(g)'
    BY <1>1, <1>6, <1>9, PassingFrame DEF WorkOK
  <2> QED BY <1>1, <1>6, <1>9, <2>1, <2>2, PassingFrame DEF FrameOK
<1>11. StackOK' /\ Top' = g
  BY <1>1, <1>2, <1>6, <1>8, <1>10, BecomeStack
<1>12. ~Filling'
  BY <1>9, <1>11 DEF Filling
<1> QED BY <1>1, <1>3, <1>11, <1>12, AllSorted DEF PointersOK

LEMMA ReturnOK ==
    ASSUME FunctionOK, PointersOK, Return
    PROVE  PointersOK'
<1>1. /\ Filling /\ stack' = Tail(stack)
      /\ UNCHANGED <<fn, insts, pc, visited, reverseNonLocalPtrDeps>>
      /\ SetInfo([Info EXCEPT !.deps = SortNonLocalDepInfoCache(@, Top.sorted)])
  BY DEF Return, In, Filling
<1>2. CachesOK' /\ \A k \in DOMAIN nonLocalPointerDeps' : IsSortedInfo(nonLocalPointerDeps'[k].deps)
  BY <1>1, SortTop
<1>3. StackOK /\ stack # <<>>
  BY <1>1 DEF PointersOK, Filling
<1>4. StackOK' /\ ~Filling'
  BY <1>1, <1>3, PopStack
<1> QED BY <1>1, <1>2, <1>4, AllSorted DEF PointersOK

(***************************************************************************)
(* The predecessors a call recurses into.                                     *)
(***************************************************************************)

\* The first predecessor, and the frame without it.
LEMMA PredsFrame ==
    ASSUME FunctionOK, StackOK, stack # <<>>, Top.mode = "preds", Top.preds # <<>>
    PROVE  /\ Head(Top.preds) \in Blocks \X Alive /\ Head(Top.preds)[1] \in DOMAIN visited
           /\ \E g : g = [Top EXCEPT !.preds = Tail(@)] /\ FrameOK(g) /\ g.mode = "preds"
<1>1. Top \in Frames /\ FrameOK(Top)
  BY TopFrame
<1>2. PICK preds : preds = Top.preds
  OBVIOUS
<1>3. preds \in Seq(Blocks \X Alive) /\ preds # <<>>
  BY <1>1, <1>2 DEF Frames
<1>4. PICK S : S = Blocks \X Alive
  OBVIOUS
<1>5. /\ Len(preds) \in Nat \ {0} /\ Head(preds) = preds[1]
      /\ Tail(preds) \in Seq(Blocks \X Alive) /\ Len(Tail(preds)) = Len(preds) - 1
      /\ \A n \in 1..Len(preds) - 1 : Tail(preds)[n] = preds[n + 1]
  <2>1. preds \in Seq(S)
    BY <1>3, <1>4
  <2>2. /\ Tail(preds) \in Seq(S) /\ Len(Tail(preds)) = Len(preds) - 1
        /\ \A n \in 1..Len(Tail(preds)) : Tail(preds)[n] = preds[n + 1]
    BY <1>3, <2>1, HeadTailProperties
  <2>3. Len(preds) \in Nat \ {0} /\ Head(preds) = preds[1]
    BY <1>3, <2>1, EmptySeq, LenProperties
  <2> QED BY <1>4, <2>2, <2>3
<1>6. \A n \in 1..Len(preds) : preds[n][1] \in DOMAIN visited
  BY <1>1, <1>2 DEF FrameOK
<1>7. Head(preds) \in Blocks \X Alive /\ Head(preds)[1] \in DOMAIN visited
  BY <1>3, <1>5, <1>6, ElementOfSeq
<1>8. PICK rest : rest = Tail(preds)
  OBVIOUS
<1>9. PICK g : g = [Top EXCEPT !.preds = rest]
  OBVIOUS
<1>10. /\ g \in Frames /\ g.mode = "preds" /\ g.preds = rest /\ g.skip = Top.skip
       /\ g.work = Top.work /\ g.bb = Top.bb
  BY <1>1, <1>5, <1>8, <1>9 DEF Frames
<1>11. \A n \in 1..Len(rest) : rest[n][1] \in DOMAIN visited
  BY <1>5, <1>6, <1>8
<1>12. WorkOK(g)
  BY <1>1, <1>10 DEF FrameOK, WorkOK
<1>13. FrameOK(g)
  BY <1>1, <1>10, <1>11, <1>12 DEF FrameOK
<1>14. g = [Top EXCEPT !.preds = Tail(@)]
  BY <1>2, <1>8, <1>9
<1> QED BY <1>2, <1>7, <1>10, <1>13, <1>14

LEMMA UnknownPredOK ==
    ASSUME FunctionOK, PointersOK, UnknownPred
    PROVE  PointersOK'
<1>1. /\ stack # <<>> /\ ~Filling /\ Top.mode = "preds" /\ Top.preds # <<>>
      /\ UNCHANGED <<fn, insts, pc, visited, reverseNonLocalPtrDeps>>
      /\ nonLocalPointerDeps' = Unpaired(nonLocalPointerDeps, {Key})
  BY DEF UnknownPred, In, Filling
<1>2. PICK g : g = [Top EXCEPT !.preds = Tail(@)] /\ FrameOK(g) /\ g.mode = "preds"
  BY <1>1, PredsFrame DEF PointersOK
<1>3. Become(g)
  BY <1>2 DEF UnknownPred
<1>4. FrameOK(g)'
  BY <1>1, <1>2, FrameStays
<1>5. StackOK' /\ Top' = g
  BY <1>1, <1>3, <1>4, BecomeStack DEF PointersOK
<1>6. ~Filling'
  BY <1>2, <1>5 DEF Filling
<1>7. /\ CachesOK'
      /\ DOMAIN nonLocalPointerDeps' = DOMAIN nonLocalPointerDeps
      /\ \A k \in DOMAIN nonLocalPointerDeps :
            nonLocalPointerDeps'[k].deps = nonLocalPointerDeps[k].deps
  BY <1>1, UnpairedCaches DEF PointersOK
<1>8. \A k \in DOMAIN nonLocalPointerDeps' : IsSortedInfo(nonLocalPointerDeps'[k].deps)
  BY <1>1, <1>7 DEF PointersOK, SortedOK, CachesSorted
<1> QED BY <1>1, <1>5, <1>6, <1>7, <1>8, AllSorted DEF PointersOK

LEMMA RecurseOK ==
    ASSUME FunctionOK, PointersOK, Recurse
    PROVE  PointersOK'
<1>1. /\ stack # <<>> /\ ~Filling /\ Top.mode = "preds" /\ Top.preds # <<>>
      /\ UNCHANGED <<fn, insts, pc, visited, nonLocalPointerDeps, reverseNonLocalPtrDeps>>
  BY DEF Recurse, In, Filling, caches
<1>2. PICK old : old = [Top EXCEPT !.preds = Tail(@)] /\ FrameOK(old) /\ old.mode = "preds"
  BY <1>1, PredsFrame DEF PointersOK
<1>3. PICK pred : pred = Head(Top.preds)
  OBVIOUS
<1>4. pred[1] \in Blocks /\ pred[2] \in Alive /\ pred[1] \in DOMAIN visited
  BY <1>1, <1>3, PredsFrame DEF PointersOK
<1>5. PICK loc : loc = [Top.loc EXCEPT !.ptr = pred[2]]
  OBVIOUS
<1>6. Top \in Frames
  BY <1>1, TopFrame DEF PointersOK
<1>7. loc \in [ptr : Alive, size : fn.sizes, tag : Tags] /\ Top.isLoad \in BOOLEAN
  BY <1>4, <1>5, <1>6 DEF Frames
<1>8. PICK g : g = Frame(loc, Top.isLoad, pred[1], FALSE)
  OBVIOUS
<1>9. /\ g \in Frames /\ g.mode = "enter" /\ ~g.skip /\ g.start = pred[1] /\ g.work = <<>>
  <2>1. <<>> \in Seq(Blocks) /\ <<>> \in Seq(Blocks \X Alive)
    BY EmptySeq
  <2> QED BY <1>4, <1>7, <1>8, <2>1 DEF Frame, Frames
<1>10. FrameOK(g)
  <2>1. Len(<<>>) = 0
    BY EmptySeq
  <2>2. WorkOK(g)
    BY <1>4, <1>9, <2>1 DEF WorkOK
  <2> QED BY <1>9, <2>2 DEF FrameOK
<1>11. stack' = <<g, old>> \o Tail(stack)
  BY <1>2, <1>3, <1>5, <1>8 DEF Recurse
<1>12. FrameOK(g)' /\ FrameOK(old)'
  BY <1>1, <1>2, <1>10, FrameStays
<1>13. StackOK' /\ ~Filling'
  BY <1>1, <1>2, <1>9, <1>11, <1>12, PushStack DEF PointersOK
<1> QED BY <1>1, <1>13, OnlyStack

LEMMA PredsDoneOK ==
    ASSUME FunctionOK, PointersOK, PredsDone
    PROVE  PointersOK'
<1>1. /\ stack # <<>> /\ ~Filling /\ Top.mode = "preds"
      /\ UNCHANGED <<fn, insts, pc, visited, reverseNonLocalPtrDeps>>
      /\ nonLocalPointerDeps' = Unpaired(nonLocalPointerDeps, {Key})
  BY DEF PredsDone, In, Filling
<1>2. CachesOK /\ StackOK /\ CachesSorted
  BY DEF PointersOK, SortedOK
<1>3. Top \in Frames /\ FrameOK(Top) /\ Key = [ptr |-> Top.loc.ptr, isLoad |-> Top.isLoad]
  BY <1>1, <1>2, TopFrame DEF Key
<1>4. PICK deps : deps = Deps
  OBVIOUS
<1>5. /\ Len(deps) \in Nat /\ SortedTo(deps, Len(deps))
      /\ Key \in DOMAIN nonLocalPointerDeps => deps = nonLocalPointerDeps[Key].deps
  BY <1>1, <1>2, <1>4, TopInfo, TopSorted
<1>6. /\ CachesOK'
      /\ DOMAIN nonLocalPointerDeps' = DOMAIN nonLocalPointerDeps
      /\ \A k \in DOMAIN nonLocalPointerDeps :
            nonLocalPointerDeps'[k].deps = nonLocalPointerDeps[k].deps
  BY <1>1, <1>2, UnpairedCaches
<1>7. PICK g : g = [Top EXCEPT !.mode = "loop", !.skip = FALSE, !.sorted = Len(deps)]
  OBVIOUS
<1>8. Become(g)
  BY <1>4, <1>7 DEF PredsDone
<1>9. /\ g \in Frames /\ g.mode = "loop" /\ ~g.skip /\ g.sorted = Len(deps) /\ g.work = Top.work
      /\ g.loc = Top.loc /\ g.isLoad = Top.isLoad
  BY <1>3, <1>5, <1>7 DEF Frames
<1>10. FrameOK(g)
  <2>1. WorkOK(g)
    <3>1. CASE Top.skip
      <4>1. Top.work = <<>> /\ Len(<<>>) = 0
        BY <1>1, <1>3, <3>1 DEF FrameOK, WorkOK
      <4> QED BY <1>9, <4>1 DEF WorkOK
    <3>2. CASE ~Top.skip
      BY <1>1, <1>3, <1>9, <3>2 DEF FrameOK, WorkOK
    <3> QED BY <3>1, <3>2
  <2> QED BY <1>9, <2>1 DEF FrameOK
<1>11. FrameOK(g)'
  BY <1>1, <1>10, FrameStays
<1>12. StackOK' /\ stack' # <<>> /\ Top' = g /\ Key' = Key
  BY <1>1, <1>2, <1>3, <1>8, <1>9, <1>11, BecomeStack
<1>13. Deps' = deps
  <2>1. CASE Key \in DOMAIN nonLocalPointerDeps
    BY <1>5, <1>6, <1>12, <2>1, NewDeps
  <2>2. CASE Key \notin DOMAIN nonLocalPointerDeps
    <3>1. Deps = <<>>
      BY <1>1, <1>2, <2>2, TopInfo
    <3>2. Deps' = <<>>
      BY <1>6, <1>12, <2>2 DEF Deps, Info, NewInfo
    <3> QED BY <1>4, <3>1, <3>2
  <2> QED BY <2>1, <2>2
<1>14. g.sorted \in 0..Len(deps) /\ SortedTo(deps, g.sorted) /\ g.sorted + 1..Len(deps) = {}
  BY <1>5, <1>9
<1> QED BY <1>1, <1>2, <1>6, <1>9, <1>12, <1>13, <1>14, StillFilling

(***************************************************************************)
(* A translation that fails.                                                  *)
(***************************************************************************)
LEMMA FailedDepsSame ==
    ASSUME FunctionOK, PointersOK, Filling
    PROVE  /\ FailedDeps \in Seq(Entries) /\ Len(FailedDeps) = Len(Deps) /\ Distinct(FailedDeps)
           /\ \A i : Has(FailedDeps, i) <=> Has(Deps, i)
           /\ SortedFirst => IsSortedInfo(FailedDeps)
           /\ ~SortedFirst => FailedDeps = Deps
           /\ Top.skip => IsSortedInfo(FailedDeps)
<1>1. /\ Deps \in Seq(Entries) /\ Distinct(Deps) /\ Len(Deps) \in Nat
      /\ Top.sorted \in 0..Len(Deps) /\ SortedTo(Deps, Top.sorted)
      /\ Top.skip => Top.sorted = Len(Deps)
  BY FillingCall
<1>2. CASE SortedFirst
  <2>1. PICK new : new = SortNonLocalDepInfoCache(Deps, Top.sorted)
    OBVIOUS
  <2>2. Permutes(new, Deps) /\ IsSortedInfo(new)
    BY <1>1, <2>1, SortsTheRest
  <2>3. \A i : Has(new, i) <=> Has(Deps, i)
    BY <2>2, PermutesHas
  <2>4. FailedDeps = new
    BY <1>2, <2>1 DEF FailedDeps
  <2> QED BY <1>1, <1>2, <2>2, <2>3, <2>4 DEF Permutes
<1>3. CASE ~SortedFirst
  <2>1. FailedDeps = Deps
    BY <1>3 DEF FailedDeps
  <2>2. Top.skip => IsSortedInfo(Deps)
    BY <1>1 DEF SortedTo, IsSortedInfo
  <2> QED BY <1>1, <1>3, <2>1, <2>2
<1> QED BY <1>2, <1>3

LEMMA TranslationFailsAtFirstOK ==
    ASSUME FunctionOK, PointersOK, TranslationFailsAtFirst
    PROVE  PointersOK'
<1>1. PICK info : info = [Info EXCEPT !.deps = FailedDeps, !.pair = NoPair]
  OBVIOUS
<1>2. PICK put : put = Put(nonLocalPointerDeps, Key, info)
  OBVIOUS
<1>3. /\ Filling /\ Top.skip /\ stack' = Tail(stack)
      /\ UNCHANGED <<fn, insts, pc, visited, reverseNonLocalPtrDeps>>
      /\ nonLocalPointerDeps' = Unpaired(put, CallerKeys)
  BY <1>1, <1>2 DEF TranslationFailsAtFirst, ReturnUnknown, In, Filling
<1>4. /\ CachesOK /\ StackOK /\ CachesSorted /\ stack # <<>>
  BY <1>3, FillingCall
<1>5. /\ FailedDeps \in Seq(Entries) /\ Distinct(FailedDeps) /\ IsSortedInfo(FailedDeps)
      /\ \A i : Has(FailedDeps, i) <=> Has(Deps, i)
  BY <1>3, FailedDepsSame
<1>6. info \in Infos /\ info.deps = FailedDeps
  <2>1. Info \in Infos
    BY <1>4, TopInfo
  <2> QED BY <1>1, <1>5, <2>1 DEF Infos, NoPair
<1>7. /\ DOMAIN put = DOMAIN nonLocalPointerDeps \union {Key} /\ put[Key] = info
      /\ \A k \in DOMAIN nonLocalPointerDeps \ {Key} : put[k] = nonLocalPointerDeps[k]
  BY <1>2 DEF Put
<1>8. \A k \in DOMAIN nonLocalPointerDeps :
         /\ k \in Keys /\ nonLocalPointerDeps[k] \in Infos /\ Distinct(nonLocalPointerDeps[k].deps)
  BY <1>4 DEF CachesOK, PointerCachesOK
<1>9. /\ DOMAIN nonLocalPointerDeps' = DOMAIN nonLocalPointerDeps \union {Key}
      /\ \A k \in DOMAIN nonLocalPointerDeps' :
            /\ nonLocalPointerDeps'[k] \in Infos
            /\ nonLocalPointerDeps'[k].deps = put[k].deps
  <2>1. \A k \in DOMAIN put : put[k] \in Infos
    BY <1>6, <1>7, <1>8
  <2> QED BY <1>3, <1>7, <2>1, UnpairedInfos
<1>10. Key \in Keys /\ (Key \in DOMAIN nonLocalPointerDeps => Deps = nonLocalPointerDeps[Key].deps)
       /\ (Key \notin DOMAIN nonLocalPointerDeps => \A i : ~Has(Deps, i))
  BY <1>4, TopInfo, TopFrame DEF Has
<1>11. ASSUME NEW k \in DOMAIN nonLocalPointerDeps'
       PROVE  /\ k \in Keys /\ Distinct(nonLocalPointerDeps'[k].deps)
              /\ IsSortedInfo(nonLocalPointerDeps'[k].deps)
              /\ \A i \in Present : Has(nonLocalPointerDeps'[k].deps, i)
                    <=> k \in DOMAIN nonLocalPointerDeps /\ Has(nonLocalPointerDeps[k].deps, i)
  <2>1. CASE k = Key
    BY <1>5, <1>6, <1>7, <1>9, <1>10, <2>1
  <2>2. CASE k # Key
    BY <1>4, <1>7, <1>8, <1>9, <2>2 DEF CachesSorted
  <2> QED BY <2>1, <2>2
<1>12. CachesOK'
  BY <1>3, <1>4, <1>9, <1>11, CachesKept
<1>13. StackOK' /\ ~Filling'
  BY <1>3, <1>4, PopStack
<1> QED BY <1>3, <1>11, <1>12, <1>13, AllSorted DEF PointersOK

LEMMA LastEntryThere ==
    ASSUME FunctionOK, NEW deps \in Seq(Entries), NEW b, EntriesOf(deps, b) # {}
    PROVE  LastEntry(deps, b) \in 1..Len(deps) /\ deps[LastEntry(deps, b)].bb = b
<1>1. Len(deps) \in Nat /\ DOMAIN deps = 1..Len(deps)
  BY CacheFields
<1>2. EntriesOf(deps, b) \subseteq 0..Len(deps)
  BY <1>1 DEF EntriesOf
<1>3. \E m \in EntriesOf(deps, b) : \A n \in EntriesOf(deps, b) : n <= m
  BY <1>1, <1>2, GreatestNumber
<1>4. LastEntry(deps, b) \in EntriesOf(deps, b)
  BY <1>3 DEF LastEntry
<1> QED BY <1>1, <1>4 DEF EntriesOf

LEMMA TranslationFailsOK ==
    ASSUME FunctionOK, PointersOK, TranslationFails
    PROVE  PointersOK'
<1>1. PICK failed : failed = FailedDeps
  OBVIOUS
<1>2. PICK last : last = LastEntry(failed, Top.bb)
  OBVIOUS
<1>3. PICK new : new = [failed EXCEPT ![last].result = Unknown]
  OBVIOUS
<1>4. PICK info : info = [Info EXCEPT !.deps = new, !.pair = NoPair]
  OBVIOUS
<1>5. PICK g : g = [Top EXCEPT !.mode = "loop", !.sorted = IF SortedFirst THEN Len(Deps) ELSE @]
  OBVIOUS
<1>6. /\ Filling /\ Top.mode = "pass" /\ ~Top.skip
      /\ UNCHANGED <<fn, insts, pc, visited, reverseNonLocalPtrDeps>>
      /\ Transparents(failed, Top.bb) /\ SetInfo(info) /\ Become(g)
  BY <1>1, <1>2, <1>3, <1>4, <1>5 DEF TranslationFails, In, Filling
<1>7. /\ CachesOK /\ StackOK /\ CachesSorted /\ stack # <<>>
      /\ Top \in Frames /\ FrameOK(Top) /\ Key = [ptr |-> Top.loc.ptr, isLoad |-> Top.isLoad]
      /\ Len(Deps) \in Nat
      /\ Top.sorted \in 0..Len(Deps) /\ SortedTo(Deps, Top.sorted)
      /\ \A n \in Top.sorted + 1..Len(Deps) :
            /\ Deps[n].bb \in DOMAIN visited
            /\ \A m \in 1..Len(Top.work) : Top.work[m] # Deps[n].bb
  BY <1>6, FillingCall
<1>8. /\ failed \in Seq(Entries) /\ Len(failed) = Len(Deps) /\ Distinct(failed)
      /\ \A i : Has(failed, i) <=> Has(Deps, i)
      /\ SortedFirst => IsSortedInfo(failed)
      /\ ~SortedFirst => failed = Deps
  BY <1>1, <1>6, FailedDepsSame
<1>9. last \in 1..Len(failed) /\ failed[last].bb = Top.bb /\ failed[last].result = NonLocal
  BY <1>2, <1>6, <1>8, LastEntryThere DEF Transparents, Transparent
<1>10. /\ DOMAIN failed = 1..Len(failed)
       /\ \A n \in 1..Len(failed) : failed[n] \in Entries /\ failed[n].bb \in Blocks
             /\ failed[n] = [bb |-> failed[n].bb, result |-> failed[n].result]
  BY <1>8, CacheFields, EntryFields
<1>11. /\ \A n \in 1..Len(failed) : new[n] = IF n = last THEN [bb |-> Top.bb, result |-> Unknown]
                                             ELSE failed[n]
       /\ DOMAIN new = 1..Len(failed)
  <2>1. \A n \in 1..Len(failed) \ {last} : new[n] = failed[n]
    BY <1>3, <1>10
  <2>2. new[last] = [failed[last] EXCEPT !.result = Unknown] /\ DOMAIN new = 1..Len(failed)
    BY <1>3, <1>9, <1>10
  <2>3. failed[last] = [bb |-> Top.bb, result |-> failed[last].result]
    BY <1>9, <1>10
  <2>4. new[last] = [bb |-> Top.bb, result |-> Unknown]
    BY <2>2, <2>3
  <2> QED BY <2>1, <2>2, <2>4
<1>12. /\ new \in Seq(Entries) /\ Len(new) = Len(failed)
       /\ \A n \in 1..Len(failed) : new[n].bb = failed[n].bb
  <2>1. [bb |-> Top.bb, result |-> Unknown] \in Entries
    BY <1>9, <1>10 DEF Entries, ResultsIn, Constants
  <2>2. new \in [1..Len(failed) -> Entries]
    <3>1. \A n \in 1..Len(failed) : new[n] \in Entries
      BY <1>10, <1>11, <2>1
    <3>2. new = [n \in DOMAIN new |-> new[n]]
      BY <1>3
    <3> QED BY <1>11, <3>1, <3>2
  <2>3. Len(failed) \in Nat
    BY <1>7, <1>8
  <2> QED BY <1>9, <1>11, <2>2, <2>3, SeqDef, LenProperties
<1>13. \A i \in Present : Has(new, i) <=> Has(Deps, i)
  <2>1. \A i \in Present : i # GetInst(NonLocal) /\ i # GetInst(Unknown)
    BY PlacesOfPresent DEF Placed, NoInstructions, GetInst, NonLocal, Unknown
  <2>2. new[last].result = Unknown
    BY <1>9, <1>11
  <2>3. \A i \in Present : Has(new, i) <=> Has(failed, i)
    BY <1>9, <1>10, <1>11, <2>1, <2>2 DEF Has
  <2> QED BY <1>8, <2>3
<1>14. Distinct(new)
  BY <1>8, <1>12 DEF Distinct
<1>15. info \in Infos /\ info.deps = new
  <2>1. Info \in Infos
    BY <1>7, TopInfo
  <2> QED BY <1>4, <1>12, <2>1 DEF Infos, NoPair
<1>16. /\ CachesOK'
       /\ DOMAIN nonLocalPointerDeps' = DOMAIN nonLocalPointerDeps \union {Key}
       /\ nonLocalPointerDeps'[Key] = info
       /\ \A k \in DOMAIN nonLocalPointerDeps \ {Key} :
             nonLocalPointerDeps'[k] = nonLocalPointerDeps[k]
  BY <1>6, <1>7, <1>13, <1>14, <1>15, SetInfoCaches
<1>17. /\ g \in Frames /\ g.mode = "loop" /\ g.skip = Top.skip /\ g.work = Top.work
       /\ g.loc = Top.loc /\ g.isLoad = Top.isLoad
       /\ g.sorted = IF SortedFirst THEN Len(Deps) ELSE Top.sorted
  <2>1. PICK sorted \in Nat : sorted = IF SortedFirst THEN Len(Deps) ELSE Top.sorted
    BY <1>7
  <2>2. g = [Top EXCEPT !.mode = "loop", !.sorted = sorted]
    BY <1>5, <2>1
  <2> QED BY <1>7, <2>1, <2>2 DEF Frames
<1>18. FrameOK(g)
  <2>1. WorkOK(g)
    BY <1>6, <1>7, <1>17 DEF FrameOK, WorkOK
  <2> QED BY <1>17, <2>1 DEF FrameOK
<1>19. FrameOK(g)'
  BY <1>6, <1>18, FrameStays
<1>20. StackOK' /\ stack' # <<>> /\ Top' = g /\ Key' = Key
  BY <1>6, <1>7, <1>17, <1>19, BecomeStack
<1>21. Deps' = new
  BY <1>15, <1>16, <1>20, NewDeps
<1>22. /\ g.sorted \in 0..Len(new) /\ SortedTo(new, g.sorted)
       /\ \A n \in g.sorted + 1..Len(new) :
             /\ new[n].bb \in DOMAIN visited'
             /\ \A m \in 1..Len(g.work) : g.work[m] # new[n].bb
  <2>1. ASSUME NEW n \in 1..Len(new) - 1
        PROVE  Less(new[n + 1], new[n]) <=> Less(failed[n + 1], failed[n])
    <3>1. n \in 1..Len(failed) /\ n + 1 \in 1..Len(failed)
      BY <1>7, <1>8, <1>12
    <3>2. new[n].bb = failed[n].bb /\ new[n + 1].bb = failed[n + 1].bb
      BY <1>12, <3>1
    <3> QED BY <3>2 DEF Less
  <2>2. CASE SortedFirst
    <3>1. g.sorted = Len(new) /\ g.sorted + 1..Len(new) = {}
      BY <1>7, <1>8, <1>12, <1>17, <2>2
    <3>2. SortedTo(new, g.sorted)
      BY <1>8, <1>12, <2>1, <2>2, <3>1 DEF SortedTo, IsSortedInfo
    <3> QED BY <1>7, <1>8, <1>12, <3>1, <3>2
  <2>3. CASE ~SortedFirst
    <3>1. g.sorted = Top.sorted /\ failed = Deps /\ Len(new) = Len(Deps)
      BY <1>8, <1>12, <1>17, <2>3
    <3>2. SortedTo(new, g.sorted)
      BY <1>7, <2>1, <3>1 DEF SortedTo
    <3>3. \A n \in Top.sorted + 1..Len(Deps) : new[n].bb = Deps[n].bb
      BY <1>7, <1>12, <3>1
    <3> QED BY <1>6, <1>7, <1>17, <3>1, <3>2, <3>3
  <2> QED BY <2>2, <2>3
<1> QED BY <1>6, <1>7, <1>16, <1>15, <1>17, <1>20, <1>21, <1>22, StillFilling

(***************************************************************************)
(* What the client does: a query begins on an empty stack and ends on one;    *)
(* between queries instructions are removed and caches invalidated.           *)
(***************************************************************************)
LEMMA EmptyStack ==
    ASSUME stack' = <<>>
    PROVE  StackOK' /\ ~Filling'
<1>1. stack' \in Seq(Frames') /\ Len(stack') = 0
  BY EmptySeq
<1> QED BY <1>1 DEF StackOK, Filling

LEMMA AskPointerOK ==
    ASSUME FunctionOK, PointersOK, NEW query \in fn.pointerQueries, AskPointer(query)
    PROVE  PointersOK'
<1>1. /\ stack = <<>> /\ pc' = "pointer"
      /\ UNCHANGED <<fn, insts, nonLocalPointerDeps, reverseNonLocalPtrDeps>>
  BY DEF AskPointer, Idle, PointersOK, StackOK, caches
<1>2. PICK loc : loc = query.loc
  OBVIOUS
<1>3. /\ loc \in [ptr : {loc.ptr}, size : fn.sizes, tag : {loc.tag}]
      /\ query.isLoad \in BOOLEAN /\ query.from \in Blocks
      /\ loc.ptr \in Instructions(fn) => fn.defined[loc.ptr] # Null
  BY <1>2, FunctionsAssumption DEF FunctionOK, Blocks
<1>4. loc.ptr \in Alive
  <2>1. loc.ptr \in Pointers
    BY <1>2 DEF Pointers
  <2>2. loc.ptr \notin Gone
    BY <1>2, <1>3 DEF AskPointer, Gone
  <2> QED BY <2>1, <2>2 DEF Alive
<1>5. loc \in [ptr : Alive, size : fn.sizes, tag : Tags]
  <2>1. loc.tag \in Tags
    BY <1>2 DEF Tags
  <2> QED BY <1>3, <1>4, <2>1
<1>6. PICK g : g = Frame(loc, query.isLoad, query.from, TRUE)
  OBVIOUS
<1>7. g \in Frames /\ g.mode = "enter" /\ g.skip
  <2>1. <<>> \in Seq(Blocks) /\ <<>> \in Seq(Blocks \X Alive)
    BY EmptySeq
  <2> QED BY <1>3, <1>5, <1>6, <2>1 DEF Frame, Frames
<1>8. stack' = <<g>>
  BY <1>2, <1>6 DEF AskPointer
<1>9. Frames' = Frames
  BY <1>1, SameSets
<1>10. FrameOK(g)'
  <2>1. WorkOK(g)'
    BY <1>7 DEF WorkOK
  <2> QED BY <1>7, <1>9, <2>1 DEF FrameOK
<1>11. /\ stack' \in Seq(Frames) /\ Len(stack') = 1 /\ stack'[1] = g /\ stack' # <<>> /\ Top' = g
  <2>1. stack' \in Seq(Frames) /\ Len(stack') = 1 /\ stack'[1] = g
    BY <1>7, <1>8
  <2>2. stack' # <<>>
    BY <2>1, EmptySeq
  <2> QED BY <2>1, <2>2 DEF Top
<1>12. \A n \in 1..Len(stack') : FrameOK(stack[n])'
  BY <1>10, <1>11
<1>13. StackOK'
  BY <1>1, <1>9, <1>11, <1>12 DEF StackOK
<1>14. ~Filling'
  BY <1>7, <1>11 DEF Filling
<1>15. ~Filling
  BY <1>1 DEF Filling
<1> QED BY <1>1, <1>13, <1>14, <1>15, OnlyStack

LEMMA EndPointerQueryOK ==
    ASSUME FunctionOK, PointersOK, EndPointerQuery
    PROVE  PointersOK'
<1>1. /\ stack = <<>> /\ stack' = <<>>
      /\ UNCHANGED <<fn, insts, nonLocalPointerDeps, reverseNonLocalPtrDeps>>
  BY DEF EndPointerQuery, caches
<1>2. ~Filling
  BY <1>1 DEF Filling
<1> QED BY <1>1, <1>2, EmptyStack, OnlyStack

PointersUnchanged ==
    /\ UNCHANGED <<fn, insts, nonLocalPointerDeps, reverseNonLocalPtrDeps, stack, visited>>
    /\ \/ pc' = pc
       \/ pc \in {"idle", "call"} /\ pc' \in {"idle", "call"}

LEMMA SamePointers ==
    ASSUME FunctionOK, PointersOK, PointersUnchanged
    PROVE  PointersOK'
<1>1. CachesOK /\ StackOK
  BY DEF PointersOK
<1>2. UNCHANGED <<fn, insts, nonLocalPointerDeps, reverseNonLocalPtrDeps, stack, visited>>
  BY DEF PointersUnchanged
<1>3. CASE pc' = pc
  <2>1. StackOK' /\ Top' = Top /\ Key' = Key /\ (Filling' <=> Filling)
    BY <1>1, <1>2, <1>3, SameStack
  <2>2. CASE ~Filling
    BY <1>2, <2>1, <2>2, OnlyStack
  <2>3. CASE Filling
    <3>1. PICK g : g = Top
      OBVIOUS
    <3>2. PICK deps : deps = Deps
      OBVIOUS
    <3>3. /\ CachesSorted /\ stack' # <<>> /\ g.mode \in {"loop", "pass"}
          /\ g.sorted \in 0..Len(deps) /\ SortedTo(deps, g.sorted)
          /\ g.skip => g.sorted = Len(deps)
          /\ \A n \in g.sorted + 1..Len(deps) :
                /\ deps[n].bb \in DOMAIN visited'
                /\ \A m \in 1..Len(g.work) : g.work[m] # deps[n].bb
      BY <1>2, <2>3, <3>1, <3>2 DEF PointersOK, SortedOK, TopOK, Filling
    <3>4. CachesOK' /\ Deps' = deps
      BY <1>1, <1>2, <2>1, <3>2, SameCaches, SameDeps
    <3> QED BY <1>2, <2>1, <3>1, <3>3, <3>4, StillFilling
  <2> QED BY <2>2, <2>3
<1>4. CASE pc \in {"idle", "call"}
  <2>1. stack = <<>> /\ stack' = <<>>
    BY <1>1, <1>2, <1>4 DEF StackOK
  <2>2. ~Filling
    BY <2>1 DEF Filling
  <2> QED BY <1>2, <2>1, <2>2, EmptyStack, OnlyStack
<1> QED BY <1>3, <1>4 DEF PointersUnchanged

LEMMA ReleasedPointers ==
    ASSUME FunctionOK, PointersOK, ReleaseMemory
    PROVE  PointersOK'
<1>1. /\ nonLocalPointerDeps' = Empty /\ reverseNonLocalPtrDeps' = {}
      /\ UNCHANGED <<fn, insts>> /\ stack' = <<>>
  BY DEF ReleaseMemory, Idle, running, PointersOK, StackOK
<1>2. DOMAIN nonLocalPointerDeps' = {}
  BY <1>1 DEF Empty
<1>3. CachesOK'
  BY <1>1, <1>2 DEF CachesOK, PointerCachesOK, PointersMirrored, PointerInfos, Mirrored
<1> QED BY <1>1, <1>2, <1>3, EmptyStack, AllSorted DEF PointersOK

\* The caches and the reverse map without those of some keys.
LEMMA MirroredWithoutKeys ==
    ASSUME PointersOK, NEW p
    PROVE  \E W : /\ DOMAIN W = DOMAIN nonLocalPointerDeps \ KeysOf(p)
                  /\ \A k \in DOMAIN W : W[k] = nonLocalPointerDeps[k].deps
                  /\ Mirrored(Present, reverseNonLocalPtrDeps \ PointerLinks(p), W)
<1> DEFINE W == [k \in DOMAIN nonLocalPointerDeps \ KeysOf(p) |-> nonLocalPointerDeps[k].deps]
           S == KeysOf(p)
           links == PointerLinks(p)
<1>1. S \subseteq DOMAIN nonLocalPointerDeps
  BY DEF KeysOf
<1>2. \A x : x \in links <=> \E k \in S : x \in Links(PointerInfos[k], k)
  <2>1. \A k \in S : PointerInfos[k] = nonLocalPointerDeps[k].deps
    BY <1>1, PointerInfosOf
  <2> QED BY <2>1 DEF PointerLinks
<1>3. DOMAIN W = DOMAIN nonLocalPointerDeps \ S /\ \A k \in DOMAIN W : W[k] = nonLocalPointerDeps[k].deps
  OBVIOUS
<1> HIDE DEF W, S, links
<1>4. /\ S \subseteq DOMAIN PointerInfos /\ DOMAIN W = DOMAIN PointerInfos \ S
      /\ \A k \in DOMAIN W : W[k] = PointerInfos[k]
  BY <1>1, <1>3, PointerInfosOf
<1>5. Mirrored(Present, reverseNonLocalPtrDeps, PointerInfos)
  BY DEF PointersOK, CachesOK, PointersMirrored
<1>6. Mirrored(Present, reverseNonLocalPtrDeps \ links, W)
  BY <1>2, <1>4, <1>5, MirroredWithout
<1> QED BY <1>3, <1>6 DEF S, links

LEMMA InvalidateOK ==
    ASSUME FunctionOK, PointersOK, NEW p, InvalidateCachedPointerInfo(p)
    PROVE  PointersOK'
<1>1. /\ UNCHANGED <<fn, insts>> /\ stack = <<>> /\ stack' = <<>>
      /\ nonLocalPointerDeps' = Without(nonLocalPointerDeps, KeysOf(p))
      /\ reverseNonLocalPtrDeps' = reverseNonLocalPtrDeps \ PointerLinks(p)
  BY DEF InvalidateCachedPointerInfo, Idle, running, PointersOK, StackOK
<1>2. PICK W : /\ DOMAIN W = DOMAIN nonLocalPointerDeps \ KeysOf(p)
               /\ \A k \in DOMAIN W : W[k] = nonLocalPointerDeps[k].deps
               /\ Mirrored(Present, reverseNonLocalPtrDeps \ PointerLinks(p), W)
  BY MirroredWithoutKeys
<1>3. /\ DOMAIN nonLocalPointerDeps' = DOMAIN W
      /\ \A k \in DOMAIN W : k \in DOMAIN nonLocalPointerDeps
                             /\ nonLocalPointerDeps'[k] = nonLocalPointerDeps[k]
  BY <1>1, <1>2 DEF Without
<1>4. Present' = Present /\ Keys' = Keys /\ Infos' = Infos
  BY <1>1, SameSets
<1>5. PointerCachesOK'
  BY <1>3, <1>4 DEF PointersOK, CachesOK, PointerCachesOK, Distinct
<1>6. PointersMirrored'
  <2>1. DOMAIN PointerInfos' = DOMAIN W /\ \A k \in DOMAIN W : PointerInfos'[k] = W[k]
    BY <1>2, <1>3 DEF PointerInfos
  <2>2. Mirrored(Present', reverseNonLocalPtrDeps', PointerInfos')
    BY <1>1, <1>2, <1>4, <2>1 DEF Mirrored
  <2>3. \A x \in reverseNonLocalPtrDeps' : x[1] \in Present'
    BY <1>1, <1>4 DEF PointersOK, CachesOK, PointersMirrored
  <2> QED BY <2>2, <2>3 DEF PointersMirrored, Mirrored, Has, GetInst
<1>7. ~Filling
  BY <1>1 DEF Filling
<1>8. \A k \in DOMAIN nonLocalPointerDeps' : IsSortedInfo(nonLocalPointerDeps'[k].deps)
  BY <1>3, <1>7 DEF PointersOK, SortedOK, CachesSorted
<1> QED BY <1>1, <1>5, <1>6, <1>8, EmptyStack, AllSorted DEF PointersOK, CachesOK

SortsAll ==
    \A info \in Seq(Entries) : Permutes(SortAll(info), info) /\ IsSortedInfo(SortAll(info))

LEMMA AllIsSorted == FunctionOK => SortsAll
BY SortAllSorts DEF SortsAll

\* The same, of entries as they are after a removal.
LEMMA SortedAfter ==
    ASSUME FunctionOK', fn' = fn, NEW info \in Seq(Entries')
    PROVE  /\ SortAll(info) \in Seq(Entries') /\ IsSortedInfo(SortAll(info))
           /\ ToSet(SortAll(info)) = ToSet(info)
           /\ Distinct(info) => Distinct(SortAll(info))
           /\ \A i : Has(SortAll(info), i) <=> Has(info, i)
<1>1. SortsAll'
  BY AllIsSorted, PTL
<1>2. SortAll(info)' = SortAll(info)
  BY DEF SortAll, Rank, Less
<1>3. /\ SortAll(info) \in Seq(Entries') /\ ToSet(SortAll(info)) = ToSet(info)
      /\ Distinct(info) => Distinct(SortAll(info))
  BY <1>1, <1>2 DEF SortsAll, Permutes, Distinct
<1>4. IsSortedInfo(SortAll(info))
  <2>1. (IsSortedInfo(SortAll(info)))'
    BY <1>1 DEF SortsAll
  <2> QED BY <1>2, <2>1 DEF IsSortedInfo, Less
<1>5. \A i : Has(SortAll(info), i) <=> Has(info, i)
  BY <1>3 DEF Has, ToSet
<1> QED BY <1>3, <1>4, <1>5

LEMMA RemovePointersOK ==
    ASSUME FunctionOK, PointersOK, NEW i, RemoveInstruction(i)
    PROVE  PointersOK'
<1>a. PICK reverse : reverse = ReversePtrWithout(i)
  OBVIOUS
<1> DEFINE D == Dependents(reverse, i)
<1>1. /\ Removed(i) /\ fn' = fn /\ stack = <<>> /\ stack' = <<>>
      /\ nonLocalPointerDeps' = [k \in DOMAIN nonLocalPointerDeps \ KeysOf(i) |->
            IF k \in D
            THEN [nonLocalPointerDeps[k] EXCEPT !.pair = NoPair, !.deps = SortAll(Redirected(@, i))]
            ELSE nonLocalPointerDeps[k]]
      /\ reverseNonLocalPtrDeps' =
            Moved(reverse, i, {k \in D : Has(nonLocalPointerDeps[k].deps, i)})
  BY <1>a, RemovalRemoves
     DEF RemoveInstruction, RemovePointers, Idle, running, PointersOK, StackOK, KeyDependents
<1>2. D = Dependents(reverse, i) /\ reverse = reverseNonLocalPtrDeps \ PointerLinks(i)
  BY <1>a DEF KeyDependents, ReversePtrWithout
<1> HIDE DEF D
<1>3. PICK W : /\ DOMAIN W = DOMAIN nonLocalPointerDeps \ KeysOf(i)
               /\ \A k \in DOMAIN W : W[k] = nonLocalPointerDeps[k].deps
               /\ Mirrored(Present, reverse, W)
  BY <1>2, MirroredWithoutKeys
<1>4. PICK N : N = [k \in DOMAIN W |-> IF k \in D THEN Redirected(W[k], i) ELSE W[k]]
  OBVIOUS
<1>5. DOMAIN N = DOMAIN W /\ \A k \in DOMAIN W : N[k] = IF k \in D THEN Redirected(W[k], i) ELSE W[k]
  BY <1>4
<1>6. \A k \in DOMAIN nonLocalPointerDeps :
         /\ k \in Keys /\ nonLocalPointerDeps[k] \in Infos
         /\ nonLocalPointerDeps[k].deps \in Seq(Entries) /\ Distinct(nonLocalPointerDeps[k].deps)
         /\ IsSortedInfo(nonLocalPointerDeps[k].deps)
  <2>1. ~Filling
    BY <1>1 DEF Filling
  <2> QED BY <2>1 DEF PointersOK, CachesOK, PointerCachesOK, SortedOK, CachesSorted, Infos
<1>7. \A k \in DOMAIN W : W[k] \in Seq(Entries) /\ Distinct(W[k]) /\ IsSortedInfo(W[k])
  BY <1>3, <1>6
<1>8. \A k \in D : k \in DOMAIN W
  BY <1>2, <1>3 DEF Mirrored, Dependents
<1>9. /\ Mirrored(Present', Moved(reverse, i, {k \in D : Has(W[k], i)}), N)
      /\ \A k \in DOMAIN W : k \in D <=> Has(W[k], i)
  <2>1. Removed(i) /\ Mirrored(Present, reverse, W) /\ DOMAIN N = DOMAIN W
    BY <1>1, <1>3, <1>5
  <2>2. \A k \in DOMAIN W :
           N[k] = IF k \in Dependents(reverse, i) THEN Redirected(W[k], i) ELSE W[k]
    BY <1>2, <1>5
  <2>3. \A k \in DOMAIN W : W[k] \in Seq(Entries)
    BY <1>7
  <2>4. /\ Mirrored(Present', Moved(reverse, i, {k \in Dependents(reverse, i) : Has(W[k], i)}), N)
        /\ \A k \in DOMAIN W : k \in Dependents(reverse, i) <=> Has(W[k], i)
    BY <2>1, <2>2, <2>3, MirroredMoved
  <2> QED BY <1>2, <2>4
<1>10. {k \in D : Has(W[k], i)} = {k \in D : Has(nonLocalPointerDeps[k].deps, i)}
  BY <1>3, <1>8
<1>11. /\ Present' = Present \ {i} /\ Gone' = Gone \union {i} /\ Blocks' = Blocks
       /\ FunctionOK' /\ i \in Present
  BY <1>1, RemovedPlaces, RemovedFunction, RemovedBlocks DEF Removed
<1>12. \A k \in Keys : k.ptr # i => k \in Keys'
  BY <1>1, <1>11 DEF Keys, Alive, Pointers
<1>13. ASSUME NEW k \in DOMAIN W
       PROVE  /\ N[k] \in Seq(Entries') /\ Distinct(N[k])
              /\ k \in D => nonLocalPointerDeps'[k] =
                               [nonLocalPointerDeps[k] EXCEPT !.pair = NoPair, !.deps = SortAll(N[k])]
              /\ k \notin D => nonLocalPointerDeps'[k] = nonLocalPointerDeps[k]
                              /\ N[k] = nonLocalPointerDeps[k].deps
  <2>1. k \in DOMAIN nonLocalPointerDeps \ KeysOf(i) /\ W[k] = nonLocalPointerDeps[k].deps
    BY <1>3
  <2>2. /\ Redirected(W[k], i) \in Seq(Entries') /\ Len(Redirected(W[k], i)) = Len(W[k])
        /\ \A n \in 1..Len(W[k]) : Redirected(W[k], i)[n].bb = W[k][n].bb
        /\ ~Has(W[k], i) => W[k] \in Seq(Entries')
    BY <1>1, <1>7, RemovedEntries
  <2>3. Distinct(W[k])
    BY <1>7
  <2>4. CASE k \in D
    <3>1. Distinct(Redirected(W[k], i))
      BY <2>2, <2>3 DEF Distinct
    <3>2. N[k] = Redirected(W[k], i)
      BY <1>5, <2>4
    <3>3. nonLocalPointerDeps'[k] =
             [nonLocalPointerDeps[k] EXCEPT !.pair = NoPair,
                                            !.deps = SortAll(Redirected(nonLocalPointerDeps[k].deps, i))]
      BY <1>1, <2>1, <2>4
    <3> QED BY <2>1, <2>2, <2>4, <3>1, <3>2, <3>3
  <2>5. CASE k \notin D
    <3>1. nonLocalPointerDeps'[k] = nonLocalPointerDeps[k]
      BY <1>1, <2>1, <2>5
    <3> QED BY <1>5, <1>9, <2>1, <2>2, <2>3, <2>5, <3>1
  <2> QED BY <2>4, <2>5
<1>14. ASSUME NEW k \in DOMAIN nonLocalPointerDeps'
       PROVE  /\ k \in DOMAIN W /\ k \in Keys' /\ nonLocalPointerDeps'[k] \in Infos'
              /\ Distinct(nonLocalPointerDeps'[k].deps)
              /\ IsSortedInfo(nonLocalPointerDeps'[k].deps)
              /\ \A j : Has(nonLocalPointerDeps'[k].deps, j) <=> Has(N[k], j)
  <2>1. k \in DOMAIN W /\ k \in DOMAIN nonLocalPointerDeps /\ k \notin KeysOf(i)
    BY <1>1, <1>3
  <2>2. k \in Keys'
    BY <1>6, <1>12, <2>1 DEF KeysOf
  <2>3. nonLocalPointerDeps[k] \in Infos /\ N[k] \in Seq(Entries') /\ Distinct(N[k])
    BY <1>6, <1>13, <2>1
  <2>4. Infos' = [pair : [bb : Blocks \union {Null}, skip : BOOLEAN], deps : Seq(Entries'),
                  size : fn.sizes, tag : Tags]
    BY <1>1, <1>11 DEF Infos, Tags
  <2>5. CASE k \in D
    <3>1. PICK new : new = SortAll(N[k])
      OBVIOUS
    <3>2. /\ new \in Seq(Entries') /\ IsSortedInfo(new) /\ Distinct(new)
          /\ \A j : Has(new, j) <=> Has(N[k], j)
      BY <1>1, <1>11, <2>3, <3>1, SortedAfter
    <3>3. nonLocalPointerDeps'[k] = [nonLocalPointerDeps[k] EXCEPT !.pair = NoPair, !.deps = new]
      BY <1>13, <2>1, <2>5, <3>1
    <3>4. nonLocalPointerDeps'[k] \in Infos' /\ nonLocalPointerDeps'[k].deps = new
      BY <2>3, <2>4, <3>2, <3>3 DEF Infos, NoPair
    <3> QED BY <2>1, <2>2, <3>2, <3>4
  <2>6. CASE k \notin D
    <3>1. nonLocalPointerDeps'[k] = nonLocalPointerDeps[k] /\ N[k] = nonLocalPointerDeps[k].deps
      BY <1>13, <2>1, <2>6
    <3>2. nonLocalPointerDeps'[k] \in Infos'
      BY <2>3, <2>4, <3>1 DEF Infos
    <3> QED BY <1>6, <2>1, <2>2, <2>3, <3>1, <3>2
  <2> QED BY <2>5, <2>6
<1>15. PointerCachesOK'
  BY <1>14 DEF PointerCachesOK, Distinct
<1>16. \A x \in reverseNonLocalPtrDeps' : x[1] \in Present'
  <2>1. \A x \in reverse : x[1] \in Present
    BY <1>2 DEF PointersOK, CachesOK, PointersMirrored
  <2>2. NextOf(i) # Null => NextOf(i) \in Present'
    BY <1>11, NextInBlock, InBlock, PlacesOfPresent DEF EachPlaced, Placed
  <2>3. \A x \in reverseNonLocalPtrDeps' :
           \/ x \in reverse /\ x[1] # i
           \/ NextOf(i) # Null /\ x[1] = NextOf(i)
    <3>1. PICK S : reverseNonLocalPtrDeps' = Moved(reverse, i, S)
      BY <1>1
    <3>2. PICK next : next = NextOf(i)
      OBVIOUS
    <3>3. reverseNonLocalPtrDeps' =
             (reverse \ {x \in reverse : x[1] = i})
             \union (IF next = Null THEN {} ELSE {<<next, x>> : x \in S})
      BY <3>1, <3>2 DEF Moved, From
    <3> QED BY <3>2, <3>3
  <2> QED BY <1>11, <2>1, <2>2, <2>3
<1>17. PointersMirrored'
  <2>1. DOMAIN nonLocalPointerDeps' = DOMAIN N
    BY <1>1, <1>3, <1>5
  <2>2. PointerInfos' = [k \in DOMAIN nonLocalPointerDeps' |-> nonLocalPointerDeps'[k].deps]
    BY DEF PointerInfos
  <2>3. /\ DOMAIN PointerInfos' = DOMAIN N
        /\ \A k \in DOMAIN N : \A j : Has(PointerInfos'[k], j) <=> Has(N[k], j)
    BY <1>14, <2>1, <2>2
  <2>4. Mirrored(Present', reverseNonLocalPtrDeps', N)
    BY <1>1, <1>9, <1>10
  <2>5. Mirrored(Present', reverseNonLocalPtrDeps', PointerInfos')
    BY <2>3, <2>4, MirroredSame
  <2> QED BY <1>16, <2>5 DEF PointersMirrored, Mirrored, Has, GetInst
<1>18. StackOK' /\ ~Filling'
  BY <1>1, EmptyStack
<1>19. SortedOK'
  <2>1. CachesSorted'
    BY <1>1, <1>14, <1>18 DEF CachesSorted, IsSortedInfo, Less
  <2> QED BY <1>18, <2>1 DEF SortedOK, TopOK
<1> QED BY <1>15, <1>17, <1>18, <1>19 DEF PointersOK, CachesOK

LEMMA InitPointers == Init => PointersOK
<1> SUFFICES ASSUME Init
             PROVE  PointersOK
  OBVIOUS
<1>1. /\ DOMAIN nonLocalPointerDeps = {} /\ reverseNonLocalPtrDeps = {}
      /\ stack = <<>> /\ Len(stack) = 0
  BY DEF Init, Empty
<1>2. stack \in Seq(Frames)
  BY <1>1, EmptySeq
<1>3. CachesOK
  BY <1>1 DEF CachesOK, PointerCachesOK, PointersMirrored, PointerInfos, Mirrored
<1> QED BY <1>1, <1>2, <1>3 DEF PointersOK, StackOK, SortedOK, CachesSorted, TopOK, Filling

\* A step of the client that is none of these leaves the caches of pointers alone.
LEMMA ClientPointers ==
    Client => \/ PointersUnchanged
              \/ \E query \in fn.pointerQueries : AskPointer(query)
              \/ \E i \in fn.removable : RemoveInstruction(i)
              \/ \E k \in DOMAIN nonLocalPointerDeps : InvalidateCachedPointerInfo(k.ptr)
              \/ ReleaseMemory
<1>1. ASSUME NEW q, GetCachedDependency(q) \/ GetDependency(q) \/ GetCachedCallDependency(q)
      PROVE  PointersUnchanged
  BY <1>1 DEF GetCachedDependency, GetDependency, GetCachedCallDependency, caches, running,
              PointersUnchanged
<1>2. ASSUME NEW q, GetNonLocalCallDependency(q)
      PROVE  PointersUnchanged
  BY <1>2 DEF GetNonLocalCallDependency, CallQuery, Idle, PointersUnchanged
<1> QED BY <1>1, <1>2 DEF Client

LEMMA OtherStepsLeavePointers ==
    CallStep \/ RequestFails \/ StepFails \/ UNCHANGED vars => PointersUnchanged
<1>1. SkipDirtyBlock \/ ScanDirtyBlock => PointersUnchanged
  BY DEF SkipDirtyBlock, ScanDirtyBlock, caches, PointersUnchanged
<1>2. EndCallQuery => PointersUnchanged
  BY DEF EndCallQuery, InCall, caches, PointersUnchanged
<1>3. RequestFails \/ StepFails \/ UNCHANGED vars => PointersUnchanged
  BY DEF RequestFails, StepFails, Fail, vars, caches, running, PointersUnchanged
<1> QED BY <1>1, <1>2, <1>3 DEF CallStep

LEMMA PointerStepOK ==
    ASSUME FunctionOK, PointersOK, PointerStep
    PROVE  PointersOK'
<1>1. CASE ThrowOutSmaller \/ ThrowOutTagged
  BY <1>1, ThrowOutOK
<1>2. CASE RestartWithSize \/ RestartWithoutTag
  BY <1>2, RestartOK
<1>3. CASE ReturnCached \/ ReturnConflict \/ Begin
  BY <1>3, ReturnCachedOK, ReturnConflictOK, BeginOK
<1>4. CASE Lookup \/ SkipFirstBlock \/ PassUntranslated \/ PassTranslated
  BY <1>4, LookupOK, SkipFirstBlockOK, PassUntranslatedOK, PassTranslatedOK
<1>5. CASE UnknownPred \/ Recurse \/ PredsDone
  BY <1>5, UnknownPredOK, RecurseOK, PredsDoneOK
<1>6. CASE TranslationFailsAtFirst \/ TranslationFails \/ Return \/ EndPointerQuery
  BY <1>6, TranslationFailsAtFirstOK, TranslationFailsOK, ReturnOK, EndPointerQueryOK
<1> QED BY <1>1, <1>2, <1>3, <1>4, <1>5, <1>6 DEF PointerStep

LEMMA PointersOKStep == FunctionOK /\ PointersOK /\ [Next]_vars => PointersOK'
<1> SUFFICES ASSUME FunctionOK, PointersOK, [Next]_vars
             PROVE  PointersOK'
  OBVIOUS
<1>1. CASE Client
  BY <1>1, ClientPointers, SamePointers, AskPointerOK, RemovePointersOK, InvalidateOK,
     ReleasedPointers
<1>2. CASE PointerStep
  BY <1>2, PointerStepOK
<1>3. CASE CallStep \/ RequestFails \/ StepFails \/ UNCHANGED vars
  BY <1>3, OtherStepsLeavePointers, SamePointers
<1> QED BY <1>1, <1>2, <1>3 DEF Next

LEMMA PointersAreMirrored == PointersOK => PointerMirror
<1> SUFFICES ASSUME PointersOK
             PROVE  PointerMirror
  OBVIOUS
<1>1. DOMAIN PointerInfos = DOMAIN nonLocalPointerDeps
      /\ \A k \in DOMAIN nonLocalPointerDeps : PointerInfos[k] = nonLocalPointerDeps[k].deps
  BY DEF PointerInfos
<1>2. \A x \in reverseNonLocalPtrDeps : x[2] \in DOMAIN nonLocalPointerDeps
  BY <1>1 DEF PointersOK, CachesOK, PointersMirrored, Mirrored
<1>3. ASSUME NEW k \in DOMAIN nonLocalPointerDeps, NEW i \in Present
      PROVE  <<i, k>> \in reverseNonLocalPtrDeps <=> Has(nonLocalPointerDeps[k].deps, i)
  <2>1. <<i, k>>[1] = i /\ <<i, k>>[2] = k
    OBVIOUS
  <2> QED BY <1>1, <2>1 DEF PointersOK, CachesOK, PointersMirrored, Mirrored
<1> QED BY <1>2, <1>3 DEF PointerMirror, Mirrors

-----------------------------------------------------------------------------
(***************************************************************************)
(* The theorems.                                                              *)
(***************************************************************************)
AnalysisOK == FunctionOK /\ LocalMirror /\ LocalOK /\ CallsOK /\ PointersOK

\* Every step keeps the function, the three caches, their reverse maps and the
\* calls of a query that runs consistent with each other.
THEOREM AnalysisStaysOK == Spec => []AnalysisOK
<1>1. Init => AnalysisOK
  BY InitFunction, InitMirror, InitCalls, InitPointers DEF AnalysisOK, LocalOK, Init, Empty
<1>2. AnalysisOK /\ [Next]_vars => AnalysisOK'
  BY FunctionStep, LocalMirrorStep, LocalOKStep, CallsOKStep, PointersOKStep DEF AnalysisOK
<1> QED BY <1>1, <1>2, PTL DEF Spec

\* The reverse map of the caches of pointers holds exactly the pairs of an
\* instruction that is there and a pointer one of whose results has it (lines
\* 960 to 986, 1073 and 1562 to 1605): through restarts with a larger size, recursion into the
\* predecessors and removals between queries.
THEOREM PointerCachesMirrored == Spec => []PointerMirror
BY AnalysisStaysOK, PointersAreMirrored, PTL DEF AnalysisOK

-----------------------------------------------------------------------------
\* A result of a block that is there has no instruction that is gone.
LEMMA ResultIsHere ==
    ASSUME FunctionOK, NEW b \in Blocks, NEW r \in ResultsIn(b)
    PROVE  r \in Results /\ GetInst(r) \notin Gone
<1>1. \A i \in Each(b) : i \in Present
  BY InBlock DEF EachPlaced
<1>2. Null \notin Instructions(fn)
  BY FunctionsAssumption DEF FunctionOK, NoInstructions
<1>3. GetInst(r) \notin Gone
  BY <1>1, <1>2, ResultInst DEF Gone
<1>4. CASE r \in Constants
  BY <1>3, <1>4 DEF Results, Constants
<1>5. CASE r \notin Constants
  <2>1. r \in [type : {"Def", "Clobber", "Invalid"}, pointer : Each(b) \union {Null}]
    BY <1>5 DEF ResultsIn
  <2>2. r.pointer \in Present \union {Null}
    BY <1>1, <2>1
  <2>3. r = [type |-> r.type, pointer |-> r.pointer] /\ r.type \in {"Def", "Clobber", "Invalid"}
    BY <2>1
  <2> QED BY <1>3, <2>2, <2>3 DEF Results
<1> QED BY <1>4, <1>5

LEMMA EntriesAreHere ==
    ASSUME FunctionOK, NEW info \in Seq(Entries)
    PROVE  info \in BlockResults /\ \A i \in Gone : ~Has(info, i)
<1>1. ASSUME NEW n \in 1..Len(info)
      PROVE  info[n] \in [bb : Blocks, result : Results] /\ GetInst(info[n].result) \notin Gone
  <2>1. PICK e : e = info[n]
    OBVIOUS
  <2>2. e \in Entries
    BY <2>1, CacheFields
  <2>3. e.bb \in Blocks /\ e.result \in ResultsIn(e.bb) /\ e = [bb |-> e.bb, result |-> e.result]
    BY <2>2, EntryFields
  <2>4. e.result \in Results /\ GetInst(e.result) \notin Gone
    BY <2>3, ResultIsHere
  <2> QED BY <2>1, <2>3, <2>4
<1>2. DOMAIN info = 1..Len(info) /\ Len(info) \in Nat
  BY CacheFields
<1>3. info \in Seq([bb : Blocks, result : Results])
  <2>1. PICK S : S = [bb : Blocks, result : Results]
    OBVIOUS
  <2>2. \A n \in 1..Len(info) : info[n] \in S
    BY <1>1, <2>1
  <2>3. info \in Seq(S)
    BY <1>2, <2>2
  <2> QED BY <2>1, <2>3
<1> QED BY <1>1, <1>2, <1>3 DEF BlockResults, Has

LEMMA RemovedAreGone == AnalysisOK => RemovedIsGone
<1> SUFFICES ASSUME AnalysisOK, NEW i \in Gone
             PROVE  /\ i \notin DOMAIN localDeps /\ i \notin DOMAIN nonLocalDeps /\ KeysOf(i) = {}
                    /\ \A q \in DOMAIN localDeps : GetInst(localDeps[q]) # i
                    /\ \A q \in DOMAIN nonLocalDeps : ~Has(nonLocalDeps[q].info, i)
                    /\ \A k \in DOMAIN nonLocalPointerDeps : ~Has(nonLocalPointerDeps[k].deps, i)
                    /\ \A x \in reverseLocalDeps \union reverseNonLocalDeps : i \notin {x[1], x[2]}
                    /\ \A x \in reverseNonLocalPtrDeps : i \notin {x[1], x[2].ptr}
  BY DEF RemovedIsGone
<1> USE DEF AnalysisOK
<1>1. i \notin Present
  BY DEF Gone
<1>2. i \notin DOMAIN localDeps /\ i \notin DOMAIN nonLocalDeps
  BY <1>1 DEF LocalOK, CallsOK, CallCachesOK
<1>3. \A k \in DOMAIN nonLocalPointerDeps : k.ptr # i
  BY DEF PointersOK, CachesOK, PointerCachesOK, Keys, Alive
<1>4. ASSUME NEW q \in DOMAIN localDeps
      PROVE  GetInst(localDeps[q]) # i
  <2>1. BlockOf(q) \in Blocks /\ localDeps[q] \in ResultsIn(BlockOf(q))
    BY PlacesOfPresent DEF LocalOK, Placed
  <2> QED BY <2>1, ResultIsHere
<1>5. ASSUME NEW q \in DOMAIN nonLocalDeps
      PROVE  ~Has(nonLocalDeps[q].info, i)
  <2>1. nonLocalDeps[q].info \in Seq(Entries)
    BY DEF CallsOK, CallCachesOK
  <2> QED BY <2>1, EntriesAreHere
<1>6. ASSUME NEW k \in DOMAIN nonLocalPointerDeps
      PROVE  ~Has(nonLocalPointerDeps[k].deps, i)
  <2>1. nonLocalPointerDeps[k].deps \in Seq(Entries)
    BY DEF PointersOK, CachesOK, PointerCachesOK, Infos
  <2> QED BY <2>1, EntriesAreHere
<1>7. ASSUME NEW x \in reverseLocalDeps
      PROVE  i \notin {x[1], x[2]}
  <2>1. PICK q \in DOMAIN localDeps : x \in Link(localDeps[q], q)
    BY DEF LocalMirror
  <2>2. x = <<GetInst(localDeps[q]), q>>
    BY <2>1, LinkMembers
  <2> QED BY <1>2, <1>4, <2>2
<1>8. ASSUME NEW x \in reverseNonLocalDeps
      PROVE  i \notin {x[1], x[2]}
  <2>1. x[2] \in DOMAIN nonLocalDeps /\ Has(nonLocalDeps[x[2]].info, x[1])
    BY DEF CallsOK, CallsMirrored, Mirrored, CallInfos
  <2> QED BY <1>2, <1>5, <2>1
<1>9. ASSUME NEW x \in reverseNonLocalPtrDeps
      PROVE  i \notin {x[1], x[2].ptr}
  <2>1. x[2] \in DOMAIN nonLocalPointerDeps /\ Has(nonLocalPointerDeps[x[2]].deps, x[1])
    BY DEF PointersOK, CachesOK, PointersMirrored, Mirrored, PointerInfos
  <2> QED BY <1>3, <1>6, <2>1
<1> QED BY <1>2, <1>3, <1>4, <1>5, <1>6, <1>7, <1>8, <1>9 DEF KeysOf

\* An instruction that was removed is in no cache and no reverse map, as a key
\* or as a value (verifyRemoved, lines 1614 to 1669), whatever the client asked
\* before and after.
THEOREM NothingRefersToRemoved == Spec => []RemovedIsGone
BY AnalysisStaysOK, RemovedAreGone, PTL

LEMMA CachesAreSearchable == AnalysisOK => CacheSearchable
<1> SUFFICES ASSUME AnalysisOK
             PROVE  CacheSearchable
  OBVIOUS
<1> USE DEF AnalysisOK
<1>1. pc = "idle" => \A k \in DOMAIN nonLocalPointerDeps : IsSortedInfo(nonLocalPointerDeps[k].deps)
  BY DEF PointersOK, StackOK, SortedOK, CachesSorted, Filling
<1>2. ASSUME stack # <<>>, Top.mode \in {"loop", "pass"}
      PROVE  Top.sorted <= Len(Deps) /\ IsSortedInfo(SubSeq(Deps, 1, Top.sorted))
  <2>1. Deps \in Seq(Entries) /\ Len(Deps) \in Nat
    BY <1>2, TopInfo DEF PointersOK
  <2>2. Top.sorted \in 0..Len(Deps) /\ SortedTo(Deps, Top.sorted)
    BY <1>2 DEF PointersOK, SortedOK, TopOK, Filling
  <2> QED BY <2>1, <2>2, SortedPrefix
<1>3. ASSUME pc = "call"
      PROVE  IsSortedInfo(SubSeq(JobInfo, 1, job.sorted))
  <2>1. /\ job.query \in DOMAIN nonLocalDeps
        /\ job.sorted \in 0..Len(JobInfo) /\ SortedTo(JobInfo, job.sorted)
    BY <1>3 DEF CallsOK, JobOK
  <2>2. JobInfo \in Seq(Entries)
    BY <2>1 DEF CallsOK, CallCachesOK, JobInfo
  <2> QED BY <2>1, <2>2, SortedPrefix
<1>4. ASSUME NEW k \in DOMAIN nonLocalPointerDeps
      PROVE  IsInjective(BlocksIn(nonLocalPointerDeps[k].deps))
  <2>1. nonLocalPointerDeps[k].deps \in Seq(Entries) /\ Distinct(nonLocalPointerDeps[k].deps)
    BY DEF PointersOK, CachesOK, PointerCachesOK, Infos
  <2> QED BY <2>1, DistinctBlocks
<1>5. ASSUME NEW q \in DOMAIN nonLocalDeps
      PROVE  IsInjective(BlocksIn(nonLocalDeps[q].info))
  <2>1. nonLocalDeps[q].info \in Seq(Entries) /\ Distinct(nonLocalDeps[q].info)
    BY DEF CallsOK, CallCachesOK
  <2> QED BY <2>1, DistinctBlocks
<1> QED BY <1>1, <1>2, <1>3, <1>4, <1>5 DEF CacheSearchable, Sorted, OneResultPerBlock

\* What a cache is searched in is in order, between queries and, up to what the
\* running call counts as sorted, within them, whatever the calls it made have
\* added; and a block has one result, however often a query is resumed (lines
\* 929 and 1168).
THEOREM CachesStaySearchable == Spec => []CacheSearchable
BY AnalysisStaysOK, CachesAreSearchable, PTL

-----------------------------------------------------------------------------
ProgressOK == pc \in {"idle", "call", "pointer"} /\ fault \in BOOLEAN

LEMMA ProgressStep == ProgressOK /\ [Next]_vars => ProgressOK'
<1> SUFFICES ASSUME ProgressOK, [Next]_vars
             PROVE  ProgressOK'
  OBVIOUS
<1> USE DEF ProgressOK
<1>1. CASE Client
  BY <1>1 DEF Client, GetCachedDependency, GetDependency, GetCachedCallDependency,
              GetNonLocalCallDependency, AskPointer, RemoveInstruction,
              InvalidateCachedPointerInfo, ReleaseMemory, running
<1>2. CASE CallStep
  BY <1>2 DEF CallStep, SkipDirtyBlock, ScanDirtyBlock, EndCallQuery
<1>3. ThrowOutSmaller \/ RestartWithSize \/ ThrowOutTagged \/ RestartWithoutTag => ProgressOK'
  BY DEF ThrowOutSmaller, RestartWithSize, ThrowOutTagged, RestartWithoutTag, running
<1>4. ReturnCached \/ ReturnConflict \/ Begin \/ Lookup \/ SkipFirstBlock => ProgressOK'
  BY DEF ReturnCached, ReturnConflict, Begin, Lookup, SkipFirstBlock
<1>5. PassUntranslated \/ PassTranslated \/ UnknownPred \/ Recurse \/ PredsDone => ProgressOK'
  BY DEF PassUntranslated, PassTranslated, UnknownPred, Recurse, PredsDone
<1>6. TranslationFailsAtFirst \/ TranslationFails \/ Return \/ EndPointerQuery => ProgressOK'
  BY DEF TranslationFailsAtFirst, TranslationFails, Return, EndPointerQuery
<1>7. RequestFails \/ StepFails \/ UNCHANGED vars => ProgressOK'
  BY DEF RequestFails, StepFails, Fail, vars, running
<1> QED BY <1>1, <1>2, <1>3, <1>4, <1>5, <1>6, <1>7 DEF Next, PointerStep

LEMMA TypesAreOK == AnalysisOK /\ ProgressOK => TypeOK
<1> SUFFICES ASSUME AnalysisOK, ProgressOK
             PROVE  TypeOK
  OBVIOUS
<1> USE DEF AnalysisOK
<1>1. ASSUME NEW q \in DOMAIN localDeps
      PROVE  q \in Present /\ localDeps[q] \in Results
  <2>1. /\ q \in Present /\ BlockOf(q) \in Blocks
        /\ localDeps[q] \in ResultsIn(BlockOf(q))
    BY PlacesOfPresent DEF LocalOK, Placed
  <2> QED BY <2>1, ResultIsHere
<1>2. ASSUME NEW q \in DOMAIN nonLocalDeps
      PROVE  nonLocalDeps[q].info \in BlockResults /\ nonLocalDeps[q].dirty \in BOOLEAN
  <2>1. nonLocalDeps[q].info \in Seq(Entries) /\ nonLocalDeps[q].dirty \in BOOLEAN
    BY DEF CallsOK, CallCachesOK
  <2> QED BY <2>1, EntriesAreHere
<1>3. ASSUME NEW k \in DOMAIN nonLocalPointerDeps
      PROVE  /\ k.isLoad \in BOOLEAN
             /\ nonLocalPointerDeps[k].deps \in BlockResults
             /\ nonLocalPointerDeps[k].size \in fn.sizes
             /\ nonLocalPointerDeps[k].pair \in [bb : Blocks \union {Null}, skip : BOOLEAN]
  <2>1. k \in Keys /\ nonLocalPointerDeps[k] \in Infos
    BY DEF PointersOK, CachesOK, PointerCachesOK
  <2>2. /\ nonLocalPointerDeps[k].deps \in Seq(Entries)
        /\ nonLocalPointerDeps[k].size \in fn.sizes
        /\ nonLocalPointerDeps[k].pair \in [bb : Blocks \union {Null}, skip : BOOLEAN]
    BY <2>1 DEF Infos
  <2> QED BY <2>1, <2>2, EntriesAreHere DEF Keys
<1> QED BY <1>1, <1>2, <1>3 DEF TypeOK, ProgressOK

\* The caches keep the types of their declarations (FlowDependenceAnalysis.h),
\* and a result that is kept names an instruction that is present.
THEOREM TypesStayOK == Spec => []TypeOK
<1>1. Init => ProgressOK
  BY DEF Init, ProgressOK
<1> QED BY <1>1, ProgressStep, AnalysisStaysOK, TypesAreOK, PTL DEF Spec

-----------------------------------------------------------------------------
(***************************************************************************)
(* What a result that is kept says of its block.  on[i] is what the scan of   *)
(* the query makes of instruction i; the scan is of the first n instructions  *)
(* of s and has start for an answer when it passes all.                       *)
(***************************************************************************)
Passed(s, m, n, on) == \A k \in m..n : on[s[k]] = "Pass"

\* A result is unknown, or what a scan finds now; a dirty one is where a scan may
\* begin, as all from there on is passed.
Fits(s, start, n, on, r) ==
    \/ r = Unknown
    \/ r = start /\ Passed(s, 1, n, on)
    \/ \E k \in 1..n : /\ r = [type |-> on[s[k]], pointer |-> s[k]]
                       /\ on[s[k]] # "Pass" /\ Passed(s, k + 1, n, on)
    \/ r = GetDirty(Null)
    \/ \E k \in 1..n + 1 : /\ k <= Len(s) /\ r = GetDirty(s[k])
                           /\ Passed(s, k, n, on)

PointerDecisions(loc, isLoad, invariantLoad) ==
    [i \in Instructions(fn) |-> OnPointer(i, loc, isLoad, invariantLoad)]
CallDecisions(c) == [i \in Instructions(fn) |-> OnCallSite(i, c)]

\* The instructions of a block are a sequence, each of them once.
LEMMA BlockSequence ==
    ASSUME FunctionOK, NEW b \in Blocks
    PROVE  /\ insts[b] \in Seq(Instructions(fn)) /\ Len(insts[b]) \in Nat
           /\ DOMAIN insts[b] = 1..Len(insts[b])
           /\ \A k \in 1..Len(insts[b]) : insts[b][k] \in Each(b) /\ insts[b][k] \in Instructions(fn)
           /\ \A j, k \in 1..Len(insts[b]) : insts[b][j] = insts[b][k] => j = k
<1>1. insts[b] \in Seq(Instructions(fn)) /\ Len(insts[b]) \in Nat /\ DOMAIN insts[b] = 1..Len(insts[b])
  BY LenProperties DEF FunctionOK
<1>2. \A k \in 1..Len(insts[b]) : insts[b][k] \in Each(b) /\ insts[b][k] \in Instructions(fn)
  BY <1>1, ElementOfSeq DEF Each, ToSet
<1>3. \A j, k \in 1..Len(insts[b]) : insts[b][j] = insts[b][k] => j = k
  BY <1>1 DEF FunctionOK, OncePlaced
<1> QED BY <1>1, <1>2, <1>3

\* What a scan without a limit finds fits.
LEMMA UnlimitedFits ==
    ASSUME FunctionOK, NEW b \in Blocks, NEW n \in 0..Len(insts[b]), NEW on, NEW as,
           \A i \in Each(b) : as[i] = on[i]
    PROVE  Fits(insts[b], AtStart(b), n, on, Unlimited(b, n, as))
<1>1. n \in Nat /\ n <= Len(insts[b]) /\ \A k \in 1..n : insts[b][k] \in Each(b)
  BY BlockSequence
<1>2. \A k \in 1..n : as[insts[b][k]] = on[insts[b][k]]
  BY <1>1
<1>3. CASE Stops(b, n, as) = {}
  <2>1. \A k \in 1..n : as[insts[b][k]] = "Pass"
    BY <1>3 DEF Stops
  <2>2. Unlimited(b, n, as) = AtStart(b)
    BY <1>3 DEF Unlimited
  <2> QED BY <1>2, <2>1, <2>2 DEF Fits, Passed
<1>4. CASE Stops(b, n, as) # {}
  <2>1. PICK k : k = LastStop(b, n, as)
    OBVIOUS
  <2>2. k \in Stops(b, n, as) /\ \A j \in Stops(b, n, as) : j <= k
    BY <1>1, <1>4, <2>1, LastStopIsLast
  <2>3. k \in 1..n /\ as[insts[b][k]] # "Pass"
    BY <2>2 DEF Stops
  <2>4. \A j \in k + 1..n : as[insts[b][j]] = "Pass"
    <3> SUFFICES ASSUME NEW j \in k + 1..n, as[insts[b][j]] # "Pass"
                 PROVE  FALSE
      OBVIOUS
    <3>1. j \in 1..n /\ ~(j <= k)
      BY <1>1, <2>3
    <3>2. j \in Stops(b, n, as)
      BY <3>1 DEF Stops
    <3> QED BY <2>2, <3>1, <3>2
  <2>5. Unlimited(b, n, as) = [type |-> as[insts[b][k]], pointer |-> insts[b][k]]
    BY <1>4, <2>1 DEF Unlimited
  <2>6. \A j \in k + 1..n : j \in 1..n
    BY <1>1, <2>3
  <2> QED BY <1>2, <2>3, <2>4, <2>5, <2>6 DEF Fits, Passed
<1> QED BY <1>3, <1>4

\* So does what a scan with a limit answers.
LEMMA ScanFits ==
    ASSUME FunctionOK, NEW b \in Blocks, NEW n \in 0..Len(insts[b]), NEW on, NEW as, NEW counted,
           \A i \in Each(b) : as[i] = on[i]
    PROVE  Fits(insts[b], AtStart(b), n, on, Scan(b, n, as, counted))
<1>1. Fits(insts[b], AtStart(b), n, on, Unlimited(b, n, as))
  BY UnlimitedFits
<1>2. Fits(insts[b], AtStart(b), n, on, Unknown)
  BY DEF Fits
<1> QED BY <1>1, <1>2 DEF Scan

\* A clean result that fits is unknown or what a scan without a limit finds.
LEMMA FittingIsTrue ==
    ASSUME FunctionOK, NEW b \in Blocks, NEW n \in 0..Len(insts[b]), NEW on, NEW as,
           \A i \in Each(b) : as[i] = on[i],
           NEW r, Fits(insts[b], AtStart(b), n, on, r), ~IsDirty(r)
    PROVE  r \in {Unknown, Unlimited(b, n, as)}
<1>1. n \in Nat /\ n <= Len(insts[b]) /\ \A k \in 1..n : insts[b][k] \in Each(b)
  BY BlockSequence
<1>2. \A k \in 1..n : as[insts[b][k]] = on[insts[b][k]]
  BY <1>1
<1>3. \A i : IsDirty(GetDirty(i))
  BY DEF IsDirty, GetDirty
<1>4. CASE r = AtStart(b) /\ Passed(insts[b], 1, n, on)
  BY <1>2, <1>4 DEF Passed, Stops, Unlimited
<1>5. ASSUME NEW k \in 1..n, r = [type |-> on[insts[b][k]], pointer |-> insts[b][k]],
             on[insts[b][k]] # "Pass", Passed(insts[b], k + 1, n, on)
      PROVE  r = Unlimited(b, n, as)
  <2>1. k \in Stops(b, n, as)
    BY <1>2, <1>5 DEF Stops
  <2>2. PICK m : m = LastStop(b, n, as)
    OBVIOUS
  <2>3. m \in Stops(b, n, as) /\ k <= m
    BY <1>1, <2>1, <2>2, LastStopIsLast
  <2>4. m \in 1..n /\ on[insts[b][m]] # "Pass"
    BY <1>2, <2>3 DEF Stops
  <2>5. ~(m \in k + 1..n)
    BY <1>5, <2>4 DEF Passed
  <2>6. m = k
    BY <1>1, <2>3, <2>4, <2>5
  <2> QED BY <1>2, <1>5, <2>1, <2>2, <2>6 DEF Unlimited
<1> QED BY <1>3, <1>4, <1>5 DEF Fits

\* A scan that begins at a dirty result finds what one over all would.
LEMMA ResumedFits ==
    ASSUME NEW s, NEW start, NEW n \in Nat, NEW on, NEW k \in 1..n + 1, Passed(s, k, n, on),
           NEW r, Fits(s, start, k - 1, on, r), ~IsDirty(r)
    PROVE  Fits(s, start, n, on, r)
<1>1. \A i : IsDirty(GetDirty(i))
  BY DEF IsDirty, GetDirty
<1>2. \A m \in Nat : Passed(s, m, k - 1, on) => Passed(s, m, n, on)
  <2> SUFFICES ASSUME NEW m \in Nat, Passed(s, m, k - 1, on), NEW j \in m..n
               PROVE  on[s[j]] = "Pass"
    BY DEF Passed
  <2>1. j \in m..k - 1 \/ j \in k..n
    OBVIOUS
  <2> QED BY <2>1 DEF Passed
<1>3. CASE r = start /\ Passed(s, 1, k - 1, on)
  BY <1>2, <1>3 DEF Fits
<1>4. ASSUME NEW j \in 1..k - 1, r = [type |-> on[s[j]], pointer |-> s[j]],
             on[s[j]] # "Pass", Passed(s, j + 1, k - 1, on)
      PROVE  Fits(s, start, n, on, r)
  <2>1. j \in 1..n /\ j + 1 \in Nat
    OBVIOUS
  <2>2. Passed(s, j + 1, n, on)
    BY <1>2, <1>4, <2>1
  <2> QED BY <1>4, <2>1, <2>2 DEF Fits
<1> QED BY <1>1, <1>3, <1>4 DEF Fits

\* Where the instructions are that are passed once one is removed.
LEMMA RemovedPassed ==
    ASSUME NEW S, NEW s \in Seq(S), NEW p \in 1..Len(s), NEW on,
           NEW m \in Nat \ {0}, NEW n \in 0..Len(s), Passed(s, m, n, on)
    PROVE  Passed(RemoveAt(s, p), IF p < m THEN m - 1 ELSE m, IF p <= n THEN n - 1 ELSE n, on)
<1> DEFINE m2 == IF p < m THEN m - 1 ELSE m
           n2 == IF p <= n THEN n - 1 ELSE n
<1>1. Len(s) \in Nat /\ \A j \in 1..Len(s) - 1 : RemoveAt(s, p)[j] = IF j < p THEN s[j] ELSE s[j + 1]
  BY RemoveAtProperties, LenProperties
<1>2. ASSUME NEW j \in m2..n2
      PROVE  on[RemoveAt(s, p)[j]] = "Pass"
  <2>1. /\ j \in 1..Len(s) - 1
        /\ j < p => j \in m..n
        /\ ~(j < p) => j + 1 \in m..n
    BY <1>1, <1>2
  <2> QED BY <1>1, <2>1 DEF Passed
<1> QED BY <1>2 DEF Passed

\* A result that does not have the instruction that is removed fits as before.
LEMMA RemovedFits ==
    ASSUME NEW S, NEW s \in Seq(S), NEW p \in 1..Len(s), NEW on, NEW start,
           NEW n \in 0..Len(s), NEW r, Fits(s, start, n, on, r), GetInst(r) # s[p]
    PROVE  Fits(RemoveAt(s, p), start, IF p <= n THEN n - 1 ELSE n, on, r)
<1>1. PICK t : t = RemoveAt(s, p)
  OBVIOUS
<1>2. PICK n2 \in Nat : n2 = IF p <= n THEN n - 1 ELSE n
  OBVIOUS
<1>3. /\ Len(s) \in Nat /\ Len(t) = Len(s) - 1
      /\ \A j \in 1..Len(s) - 1 : t[j] = IF j < p THEN s[j] ELSE s[j + 1]
  BY <1>1, RemoveAtProperties, LenProperties
<1>4. ASSUME NEW m \in Nat \ {0}, Passed(s, m, n, on)
      PROVE  Passed(t, IF p < m THEN m - 1 ELSE m, n2, on)
  BY <1>1, <1>2, <1>4, RemovedPassed
<1>5. ASSUME r = start, Passed(s, 1, n, on)
      PROVE  Fits(t, start, n2, on, r)
  <2>1. Passed(t, IF p < 1 THEN 1 - 1 ELSE 1, n2, on)
    BY <1>4, <1>5
  <2>2. Passed(t, 1, n2, on)
    BY <2>1
  <2> QED BY <1>5, <2>2 DEF Fits
<1>6. ASSUME NEW k \in 1..n, r = [type |-> on[s[k]], pointer |-> s[k]],
             on[s[k]] # "Pass", Passed(s, k + 1, n, on)
      PROVE  Fits(t, start, n2, on, r)
  <2>1. k # p
    BY <1>6 DEF GetInst
  <2>2. PICK k2 \in Nat : k2 = IF p < k THEN k - 1 ELSE k
    OBVIOUS
  <2>3. k2 \in 1..n2 /\ k2 \in 1..Len(s) - 1 /\ (k2 < p => k2 = k) /\ (~(k2 < p) => k2 + 1 = k)
    BY <1>2, <1>3, <2>1, <2>2
  <2>4. t[k2] = s[k]
    BY <1>3, <2>3
  <2>5. Passed(t, k2 + 1, n2, on)
    BY <1>4, <1>6, <2>1, <2>2
  <2> QED BY <1>6, <2>3, <2>4, <2>5 DEF Fits
<1>7. ASSUME NEW k \in 1..n + 1, k <= Len(s), r = GetDirty(s[k]), Passed(s, k, n, on)
      PROVE  Fits(t, start, n2, on, r)
  <2>1. k # p
    BY <1>7 DEF GetInst, GetDirty
  <2>2. PICK k2 \in Nat : k2 = IF p < k THEN k - 1 ELSE k
    OBVIOUS
  <2>3. /\ k2 \in 1..n2 + 1 /\ k2 \in 1..Len(s) - 1
        /\ (k2 < p => k2 = k) /\ (~(k2 < p) => k2 + 1 = k)
    BY <1>2, <1>3, <1>7, <2>1, <2>2
  <2>4. t[k2] = s[k]
    BY <1>3, <2>3
  <2>5. Passed(t, k2, n2, on)
    BY <1>4, <1>7, <2>1, <2>2
  <2> QED BY <1>3, <1>7, <2>3, <2>4, <2>5 DEF Fits
<1>8. r = Unknown \/ r = GetDirty(Null) => Fits(t, start, n2, on, r)
  BY DEF Fits
<1>9. Fits(t, start, n2, on, r)
  BY <1>5, <1>6, <1>7, <1>8 DEF Fits
<1> QED BY <1>1, <1>2, <1>9

\* One that has it is replaced by where a scan may begin.
LEMMA RedirectedFits ==
    ASSUME NEW S, NEW s \in Seq(S), NEW p \in 1..Len(s), NEW on, NEW start,
           \A j, k \in 1..Len(s) : s[j] = s[k] => j = k,
           NEW n \in 0..Len(s), p <= n,
           NEW r, Fits(s, start, n, on, r), GetInst(r) = s[p],
           s[p] \notin {GetInst(start), GetInst(Unknown), Null}
    PROVE  Fits(RemoveAt(s, p), start, n - 1, on, GetDirty(IF p = Len(s) THEN Null ELSE s[p + 1]))
<1>1. PICK t : t = RemoveAt(s, p)
  OBVIOUS
<1>2. /\ Len(s) \in Nat /\ Len(t) = Len(s) - 1
      /\ \A j \in 1..Len(s) - 1 : t[j] = IF j < p THEN s[j] ELSE s[j + 1]
  BY <1>1, RemoveAtProperties, LenProperties
<1>3. Passed(s, p + 1, n, on)
  <2>1. ASSUME NEW k \in 1..n, r = [type |-> on[s[k]], pointer |-> s[k]], Passed(s, k + 1, n, on)
        PROVE  Passed(s, p + 1, n, on)
    <3>1. k = p
      BY <1>2, <2>1 DEF GetInst
    <3> QED BY <2>1, <3>1
  <2>2. ASSUME NEW k \in 1..n + 1, k <= Len(s), r = GetDirty(s[k]), Passed(s, k, n, on)
        PROVE  Passed(s, p + 1, n, on)
    <3>1. k = p
      BY <1>2, <2>2 DEF GetInst, GetDirty
    <3> QED BY <2>2, <3>1 DEF Passed
  <2>3. r # GetDirty(Null)
    BY DEF GetDirty, GetInst
  <2> QED BY <2>1, <2>2, <2>3 DEF Fits
<1>4. Passed(t, p, n - 1, on)
  <2>1. Passed(RemoveAt(s, p), IF p < p + 1 THEN p + 1 - 1 ELSE p + 1, IF p <= n THEN n - 1 ELSE n, on)
    BY <1>3, RemovedPassed
  <2> QED BY <1>1, <2>1
<1>5. CASE p = Len(s)
  BY <1>1, <1>5 DEF Fits
<1>6. CASE p # Len(s)
  <2>1. p \in 1..(n - 1) + 1 /\ p <= Len(t) /\ t[p] = s[p + 1]
    BY <1>2, <1>6
  <2> QED BY <1>1, <1>4, <1>6, <2>1 DEF Fits
<1> QED BY <1>5, <1>6

-----------------------------------------------------------------------------
(***************************************************************************)
(* What the scans make of an instruction depends on the function only.        *)
(***************************************************************************)
LEMMA SameDecisions ==
    ASSUME fn' = fn
    PROVE  /\ \A q : HasLocation(q)' <=> HasLocation(q)
           /\ \A q : IsCallSite(q)' <=> IsCallSite(q)
           /\ \A q : IsLoadQuery(q)' = IsLoadQuery(q) /\ IsInvariantLoad(q)' = IsInvariantLoad(q)
           /\ \A b : AtStart(b)' = AtStart(b)
           /\ \A loc, isLoad, invariantLoad :
                 PointerDecisions(loc, isLoad, invariantLoad)' = PointerDecisions(loc, isLoad, invariantLoad)
           /\ \A c : CallDecisions(c)' = CallDecisions(c)
<1>1. \A i : Kind(i)' = Kind(i) /\ Ordering(i)' = Ordering(i)
  BY DEF Kind, Ordering
<1>2. \A q : (HasLocation(q)' <=> HasLocation(q)) /\ (IsCallSite(q)' <=> IsCallSite(q))
  BY <1>1 DEF HasLocation, IsCallSite
<1>3. \A i : ModRefOf(i)' = ModRefOf(i)
  BY <1>1 DEF ModRefOf
<1>4. \A q : IsLoadQuery(q)' = IsLoadQuery(q) /\ IsInvariantLoad(q)' = IsInvariantLoad(q)
  BY <1>1, <1>3 DEF IsLoadQuery, IsInvariantLoad, Modifies
<1>5. \A b : AtStart(b)' = AtStart(b)
  BY DEF AtStart
<1>6. \A loc, p : (MustAlias(loc, p)' <=> MustAlias(loc, p)) /\ (NoAlias(loc, p)' <=> NoAlias(loc, p))
  BY DEF MustAlias, NoAlias
<1>7. \A loc, i : Widenable(loc, i)' <=> Widenable(loc, i)
  BY DEF Widenable, FullWidthSize, Widths, MinWidth
<1>8. \A i, loc, isLoad : OnLoad(i, loc, isLoad)' = OnLoad(i, loc, isLoad)
  BY <1>1, <1>6, <1>7 DEF OnLoad
<1>9. \A i, loc, invariantLoad : OnStore(i, loc, invariantLoad)' = OnStore(i, loc, invariantLoad)
  BY <1>1, <1>6 DEF OnStore
<1>10. \A i, loc, isLoad : OnModRef(i, loc, isLoad)' = OnModRef(i, loc, isLoad)
  BY DEF OnModRef
<1>11. \A i, loc, isLoad : OnAllocation(i, loc, isLoad)' = OnAllocation(i, loc, isLoad)
  BY <1>1, <1>6, <1>10 DEF OnAllocation
<1>12. \A i, loc, isLoad, invariantLoad :
          OnPointer(i, loc, isLoad, invariantLoad)' = OnPointer(i, loc, isLoad, invariantLoad)
  BY <1>1, <1>6, <1>8, <1>9, <1>10, <1>11 DEF OnPointer, Allocates
<1>13. \A i, c : OnCallSite(i, c)' = OnCallSite(i, c)
  BY <1>1, <1>2, <1>3 DEF OnCallSite, ReadsOnly, Modifies
<1>14. Instructions(fn') = Instructions(fn) /\ Instructions(fn)' = Instructions(fn)
  OBVIOUS
<1> QED BY <1>2, <1>4, <1>5, <1>12, <1>13, <1>14 DEF PointerDecisions, CallDecisions

\* A dirty result that fits has an instruction from which on all are passed.
LEMMA DirtyFits ==
    ASSUME NEW s, NEW start, NEW n \in Nat, NEW on, NEW r, Fits(s, start, n, on, r),
           IsDirty(r), ~IsDirty(start), \A k \in 1..n : on[s[k]] # "Invalid", GetInst(r) # Null
    PROVE  \E k \in 1..n + 1 : k <= Len(s) /\ GetInst(r) = s[k] /\ Passed(s, k, n, on)
<1>1. r # Unknown /\ r # start
  BY DEF IsDirty, Unknown
<1>2. r # GetDirty(Null)
  BY DEF GetInst, GetDirty
<1>3. \A k \in 1..n : r # [type |-> on[s[k]], pointer |-> s[k]]
  BY DEF IsDirty
<1>4. PICK k \in 1..n + 1 : k <= Len(s) /\ r = GetDirty(s[k]) /\ Passed(s, k, n, on)
  BY <1>1, <1>2, <1>3 DEF Fits
<1> QED BY <1>4 DEF GetInst, GetDirty

\* What a scan answers is never dirty.
LEMMA NoneDirty ==
    ASSUME FunctionOK, NEW b \in Blocks
    PROVE  /\ ~IsDirty(AtStart(b)) /\ ~IsDirty(Unknown) /\ ~IsDirty(NonLocal)
           /\ \A r \in FoundIn(b) \union Constants : ~IsDirty(r)
           /\ \A r : r = GetDirty(Null) => IsDirty(r) /\ GetInst(r) = Null
BY DEF IsDirty, AtStart, NonLocal, NonFuncLocal, Unknown, FoundIn, Constants, GetDirty, GetInst

(***************************************************************************)
(* The local cache: what is kept for a query fits what is before it.          *)
(***************************************************************************)
HasScan(q) == HasLocation(q) \/ IsCallSite(q)
LocalDecisions(q) ==
    IF HasLocation(q) THEN PointerDecisions(fn.loc[q], IsLoadQuery(q), IsInvariantLoad(q))
    ELSE CallDecisions(q)
LocalFits(q, r) ==
    IF HasScan(q)
    THEN Fits(insts[BlockOf(q)], AtStart(BlockOf(q)), PositionOf(q) - 1, LocalDecisions(q), r)
    ELSE \/ r = Unknown
         \/ PositionOf(q) = 1 /\ r = AtStart(BlockOf(q))
LocalsFresh == \A q \in DOMAIN localDeps : LocalFits(q, localDeps[q])

\* An instruction decides, or is passed.
LEMMA LocalDecision ==
    ASSUME NEW q, NEW i \in Instructions(fn)
    PROVE  LocalDecisions(q)[i] \in Decisions
<1>1. IsLoadQuery(q) \in BOOLEAN
  BY DEF IsLoadQuery, Modifies
<1> QED BY <1>1, PointerDecision, CallSiteDecision DEF LocalDecisions, PointerDecisions, CallDecisions

\* What the scan of a query makes of the instructions of its block.
AsLocal(q) ==
    IF HasLocation(q)
    THEN AsPointer(fn.loc[q], IsLoadQuery(q), IsInvariantLoad(q), BlockOf(q))
    ELSE AsCallSite(q, BlockOf(q))

LEMMA AsLocalDecides ==
    ASSUME FunctionOK, NEW q \in Present
    PROVE  \A i \in Each(BlockOf(q)) : AsLocal(q)[i] = LocalDecisions(q)[i]
<1>1. BlockOf(q) \in Blocks
  BY PlacesOfPresent DEF Placed
<1>2. \A i \in Each(BlockOf(q)) : i \in Instructions(fn)
  BY <1>1, InBlock, PlacesOfPresent DEF EachPlaced, Placed
<1> QED BY <1>2 DEF AsLocal, LocalDecisions, AsPointer, AsCallSite, PointerDecisions, CallDecisions

\* A query that is not of the first instruction, with a scan, is answered by it.
LEMMA LocalScan ==
    ASSUME FunctionOK, NEW q \in Present, PositionOf(q) # 1, HasScan(q), NEW n
    PROVE  \E counted : LocalDependency(q, n) = Scan(BlockOf(q), n, AsLocal(q), counted)
<1>1. CASE HasLocation(q)
  BY <1>1 DEF LocalDependency, PointerDependency, AsLocal
<1>2. CASE ~HasLocation(q)
  BY <1>2 DEF LocalDependency, CallSiteDependency, AsLocal, HasScan
<1> QED BY <1>1, <1>2

\* A clean result that fits is right, or unknown.
LEMMA FittingLocalIsTrue ==
    ASSUME FunctionOK, NEW q \in Present, NEW r, LocalFits(q, r), ~IsDirty(r)
    PROVE  r \in {LocalTruth(q), Unknown}
<1> DEFINE b == BlockOf(q)
           n == PositionOf(q) - 1
<1>1. b \in Blocks /\ PositionOf(q) \in 1..Len(insts[b])
  BY PlacesOfPresent DEF Placed
<1>2. Len(insts[b]) \in Nat
  BY <1>1, BlockSequence
<1>3. n \in 0..Len(insts[b]) /\ (n = 0 <=> PositionOf(q) = 1)
  BY <1>1, <1>2
<1>4. CASE HasScan(q)
  <2>1. Fits(insts[b], AtStart(b), n, LocalDecisions(q), r)
    BY <1>4 DEF LocalFits
  <2>2. r \in {Unknown, Unlimited(b, n, AsLocal(q))}
    <3>1. \A i \in Each(b) : AsLocal(q)[i] = LocalDecisions(q)[i]
      BY AsLocalDecides
    <3> HIDE DEF b, n
    <3> QED BY <1>1, <1>3, <2>1, <3>1, FittingIsTrue
  <2>3. CASE n = 0
    <3>1. Unlimited(b, n, AsLocal(q)) = AtStart(b)
      <4>1. Stops(b, n, AsLocal(q)) = {}
        BY <2>3 DEF Stops
      <4> QED BY <4>1 DEF Unlimited
    <3> QED BY <2>2, <2>3, <3>1 DEF LocalTruth
  <2>4. CASE n # 0 /\ HasLocation(q)
    BY <2>2, <2>4 DEF LocalTruth, PointerTruth, AsLocal
  <2>5. CASE n # 0 /\ ~HasLocation(q)
    BY <1>4, <2>2, <2>5 DEF LocalTruth, CallSiteTruth, AsLocal, HasScan
  <2> QED BY <2>3, <2>4, <2>5
<1>5. CASE ~HasScan(q)
  BY <1>3, <1>5 DEF LocalFits, LocalTruth
<1> QED BY <1>4, <1>5

\* A scan gives what fits, from wherever the dirty result lets it begin.
LEMMA LocalDependencyFits ==
    ASSUME FunctionOK, LocalOK, LocalsFresh, NEW q \in Present, IsDirty(Cached(q))
    PROVE  /\ LocalFits(q, LocalDependency(q, ScanPos(q) - 1))
           /\ ~IsDirty(LocalDependency(q, ScanPos(q) - 1))
<1>1. PICK b \in Blocks : b = BlockOf(q)
  BY PlacesOfPresent DEF Placed
<1>2. PICK n \in 0..Len(insts[b]) : n = PositionOf(q) - 1
  BY <1>1, PlacesOfPresent, BlockSequence DEF Placed
<1>3. n \in Nat /\ Len(insts[b]) \in Nat /\ n + 1 = PositionOf(q) /\ n < Len(insts[b])
  BY <1>1, <1>2, PlacesOfPresent, BlockSequence DEF Placed
<1>4. PICK k \in 1..n + 1 : /\ k = ScanPos(q) /\ k <= Len(insts[b])
                            /\ HasScan(q) => Passed(insts[b], k, n, LocalDecisions(q))
  <2>1. CASE GetInst(Cached(q)) = Null
    <3>1. ScanPos(q) = n + 1
      BY <1>3, <2>1 DEF ScanPos
    <3> QED BY <1>3, <3>1 DEF Passed
  <2>2. CASE GetInst(Cached(q)) # Null
    <3>1. q \in DOMAIN localDeps /\ Cached(q) = localDeps[q]
      BY <2>2 DEF Cached, GetDirty, GetInst
    <3>2. CASE HasScan(q)
      <4>1. Fits(insts[b], AtStart(b), n, LocalDecisions(q), Cached(q))
        BY <1>1, <1>2, <3>1, <3>2 DEF LocalsFresh, LocalFits
      <4>2. \A j \in 1..n : LocalDecisions(q)[insts[b][j]] # "Invalid"
        <5>1. \A j \in 1..n : insts[b][j] \in Instructions(fn)
          BY <1>3, BlockSequence
        <5> QED BY <5>1, LocalDecision DEF Decisions
      <4>3. PICK k \in 1..n + 1 : /\ k <= Len(insts[b]) /\ GetInst(Cached(q)) = insts[b][k]
                                  /\ Passed(insts[b], k, n, LocalDecisions(q))
        BY <1>3, <2>2, <4>1, <4>2, DirtyFits, NoneDirty
      <4>4. PositionOf(insts[b][k]) = k
        BY <1>3, <4>3, PlacesOfPresent DEF Placed
      <4> QED BY <2>2, <4>3, <4>4 DEF ScanPos
    <3>3. CASE ~HasScan(q)
      BY <1>1, <3>1, <3>3, NoneDirty DEF LocalsFresh, LocalFits
    <3> QED BY <3>2, <3>3
  <2> QED BY <2>1, <2>2
<1>5. k - 1 \in 0..Len(insts[b])
  BY <1>3, <1>4
<1>6. PICK dep : dep = LocalDependency(q, k - 1)
  OBVIOUS
<1>7. ~IsDirty(dep)
  <2>1. dep \in FoundIn(b) \union Constants
    BY <1>1, <1>5, <1>6, LocalDependencyResult
  <2> QED BY <2>1, NoneDirty
<1>8. LocalFits(q, dep)
  <2>1. CASE PositionOf(q) = 1
    <3>1. dep = AtStart(b)
      BY <1>1, <1>6, <2>1 DEF LocalDependency
    <3>2. Passed(insts[b], 1, n, LocalDecisions(q))
      BY <1>2, <2>1 DEF Passed
    <3>3. Fits(insts[b], AtStart(b), n, LocalDecisions(q), dep)
      BY <3>1, <3>2 DEF Fits
    <3> QED BY <1>1, <1>2, <2>1, <3>1, <3>3 DEF LocalFits
  <2>2. CASE PositionOf(q) # 1 /\ HasScan(q)
    <3>1. PICK counted : dep = Scan(b, k - 1, AsLocal(q), counted)
      BY <1>1, <1>6, <2>2, LocalScan
    <3>2. \A i \in Each(b) : AsLocal(q)[i] = LocalDecisions(q)[i]
      BY <1>1, AsLocalDecides
    <3>3. Fits(insts[b], AtStart(b), k - 1, LocalDecisions(q), dep)
      BY <1>5, <3>1, <3>2, ScanFits
    <3>4. Fits(insts[b], AtStart(b), n, LocalDecisions(q), dep)
      BY <1>3, <1>4, <1>7, <2>2, <3>3, ResumedFits
    <3> QED BY <1>1, <1>2, <2>2, <3>4 DEF LocalFits
  <2>3. CASE PositionOf(q) # 1 /\ ~HasScan(q)
    BY <1>6, <2>3 DEF LocalDependency, LocalFits, HasScan
  <2> QED BY <2>1, <2>2, <2>3
<1> QED BY <1>4, <1>6, <1>7, <1>8

\* What fits a block before a removal and, redirected, after.
LEMMA MovedFits ==
    ASSUME FunctionOK, NEW i, Removed(i), NEW b \in Blocks,
           NEW n \in 0..Len(insts[b]), NEW n2,
           n2 = IF b = BlockOf(i) /\ PositionOf(i) <= n THEN n - 1 ELSE n,
           NEW on, NEW r \in ResultsIn(b), Fits(insts[b], AtStart(b), n, on, r),
           GetInst(r) = i => PositionOf(i) <= n
    PROVE  Fits(insts'[b], AtStart(b), n2, on, IF GetInst(r) = i THEN GetDirty(NextOf(i)) ELSE r)
<1>1. i \in Present /\ BlockOf(i) \in Blocks /\ i # Null /\ i \notin NoInstructions
  BY PlacesOfPresent DEF Placed, NoInstructions, Removed
<1>2. PositionOf(i) \in 1..Len(insts[BlockOf(i)]) /\ insts[BlockOf(i)][PositionOf(i)] = i
  BY <1>1, PlacesOfPresent DEF Placed
<1>3. insts[b] \in Seq(Instructions(fn)) /\ \A j, k \in 1..Len(insts[b]) : insts[b][j] = insts[b][k] => j = k
  BY BlockSequence
<1>4. CASE b = BlockOf(i)
  <2>1. PICK p \in 1..Len(insts[b]) : p = PositionOf(i)
    BY <1>2, <1>4
  <2>2. insts'[b] = RemoveAt(insts[b], p) /\ insts[b][p] = i
    BY <1>1, <1>2, <1>4, <2>1 DEF Removed, FunctionOK
  <2>3. n2 = IF p <= n THEN n - 1 ELSE n
    BY <1>4, <2>1
  <2>4. CASE GetInst(r) # i
    BY <1>3, <2>2, <2>3, <2>4, RemovedFits
  <2>5. CASE GetInst(r) = i
    <3>1. NextOf(i) = IF p = Len(insts[b]) THEN Null ELSE insts[b][p + 1]
      BY <1>4, <2>1 DEF NextOf
    <3>2. insts[b][p] \notin {GetInst(AtStart(b)), GetInst(Unknown), Null}
      BY <1>1, <2>2 DEF NoInstructions, AtStart, NonLocal, NonFuncLocal, Unknown, GetInst
    <3>3. p <= n /\ n2 = n - 1
      BY <2>1, <2>3, <2>5
    <3>4. Fits(RemoveAt(insts[b], p), AtStart(b), n - 1, on,
               GetDirty(IF p = Len(insts[b]) THEN Null ELSE insts[b][p + 1]))
      BY <1>3, <2>2, <2>5, <3>2, <3>3, RedirectedFits
    <3> QED BY <2>2, <2>5, <3>1, <3>3, <3>4
  <2> QED BY <2>4, <2>5
<1>5. CASE b # BlockOf(i)
  <2>1. insts'[b] = insts[b] /\ n2 = n
    BY <1>5, RemovedBlocks
  <2>2. GetInst(r) # i
    BY <1>1, <1>5, InBlock, ResultInst DEF EachPlaced
  <2> QED BY <2>1, <2>2
<1> QED BY <1>4, <1>5

\* The instruction of a result is where a scan may begin.
LEMMA InstOfFitting ==
    ASSUME FunctionOK, NEW b \in Blocks, NEW n \in 0..Len(insts[b]), NEW on,
           NEW r, Fits(insts[b], AtStart(b), n, on, r), GetInst(r) \in Present
    PROVE  BlockOf(GetInst(r)) = b /\ PositionOf(GetInst(r)) <= n + 1
<1>1. n \in Nat /\ Len(insts[b]) \in Nat /\ n <= Len(insts[b])
  BY BlockSequence
<1>2. \A k \in 1..Len(insts[b]) : BlockOf(insts[b][k]) = b /\ PositionOf(insts[b][k]) = k
  BY PlacesOfPresent DEF Placed
<1>3. \A i \in Present : i \notin NoInstructions
  BY PlacesOfPresent DEF Placed
<1>4. r # Unknown /\ r # AtStart(b) /\ r # GetDirty(Null)
  BY <1>3 DEF NoInstructions, AtStart, NonLocal, NonFuncLocal, Unknown, GetInst, GetDirty
<1>5. PICK k \in 1..n + 1 : k <= Len(insts[b]) /\ GetInst(r) = insts[b][k]
  <2>1. ASSUME NEW k \in 1..n, r = [type |-> on[insts[b][k]], pointer |-> insts[b][k]]
        PROVE  \E j \in 1..n + 1 : j <= Len(insts[b]) /\ GetInst(r) = insts[b][j]
    <3>1. k \in 1..n + 1 /\ k <= Len(insts[b])
      BY <1>1
    <3> QED BY <2>1, <3>1 DEF GetInst
  <2>2. ASSUME NEW k \in 1..n + 1, k <= Len(insts[b]), r = GetDirty(insts[b][k])
        PROVE  \E j \in 1..n + 1 : j <= Len(insts[b]) /\ GetInst(r) = insts[b][j]
    BY <2>2 DEF GetInst, GetDirty
  <2> QED BY <1>4, <2>1, <2>2 DEF Fits
<1> QED BY <1>1, <1>2, <1>5

\* A removal: what had the instruction is dirty, what was before it stays.
LEMMA RemovedLocalsFresh ==
    ASSUME FunctionOK, LocalMirror, LocalOK, LocalsFresh, NEW i, Removed(i), RemoveLocal(i)
    PROVE  LocalsFresh'
<1> DEFINE D == LocalDependents(i)
<1>1. \A r : r \in D <=> /\ r \in DOMAIN localDeps \ {i}
                          /\ i # Null
                          /\ GetInst(localDeps[r]) = i
  BY DependentsHaveIt
<1>2. localDeps' = [q \in (DOMAIN localDeps \ {i}) \union D |->
                       IF q \in D THEN GetDirty(NextOf(i)) ELSE localDeps[q]]
  BY DEF RemoveLocal
<1> HIDE DEF D
<1>3. Placed /\ i \in Present /\ i # Null /\ fn' = fn /\ i \notin NoInstructions
  BY PlacesOfPresent DEF Placed, NoInstructions, Removed
<1>4. \A j \in Present \ {i} : BlockOf(j)' = BlockOf(j) /\ PositionOf(j) = OldPosition(i, BlockOf(j), PositionOf(j)')
  BY RemovedPlaces
<1>5. \A j \in Present \ {i} : PositionOf(j)' \in Nat
  <2>1. FunctionOK' /\ Present' = Present \ {i} /\ Blocks' = Blocks
    BY RemovedFunction, RemovedPlaces, RemovedBlocks
  <2>2. Placed'
    BY <2>1, PlacesOfPresent, PTL
  <2>3. \A b \in Blocks : Len(insts'[b]) \in Nat
    BY RemovedBlocks, LenProperties
  <2> QED BY <2>1, <2>2, <2>3 DEF Placed
<1>6. ASSUME NEW q \in DOMAIN localDeps'
      PROVE  LocalFits(q, localDeps[q])'
  <2>1. q \in DOMAIN localDeps /\ q \in Present \ {i}
    BY <1>1, <1>2 DEF LocalOK
  <2>2. localDeps'[q] = IF GetInst(localDeps[q]) = i THEN GetDirty(NextOf(i)) ELSE localDeps[q]
    BY <1>1, <1>2, <1>3, <2>1
  <2>3. PICK b \in Blocks : b = BlockOf(q) /\ BlockOf(q)' = b
    BY <1>3, <1>4, <2>1 DEF Placed
  <2>4. PICK n \in 0..Len(insts[b]) : n = PositionOf(q) - 1
    BY <1>3, <2>1, <2>3, BlockSequence DEF Placed
  <2>5. PICK n2 : n2 = PositionOf(q)' - 1
    OBVIOUS
  <2>6. n2 = IF b = BlockOf(i) /\ PositionOf(i) <= n THEN n - 1 ELSE n
    <3>4. PositionOf(q)' \in Nat
      BY <1>5, <2>1
    <3>5. PositionOf(i) \in Nat
      BY <1>3, BlockSequence DEF Placed
    <3>6. PositionOf(q) = OldPosition(i, b, PositionOf(q)')
      BY <1>4, <2>1, <2>3
    <3> QED BY <2>4, <2>5, <3>4, <3>5, <3>6 DEF OldPosition
  <2>7. localDeps[q] \in ResultsIn(b)
    BY <2>1, <2>3 DEF LocalOK
  <2>8. /\ HasScan(q)' <=> HasScan(q)
        /\ LocalDecisions(q)' = LocalDecisions(q) /\ AtStart(b)' = AtStart(b)
    BY <1>3, SameDecisions DEF HasScan, LocalDecisions
  <2>9. CASE HasScan(q)
    <3>1. Fits(insts[b], AtStart(b), n, LocalDecisions(q), localDeps[q])
      BY <2>1, <2>3, <2>4, <2>9 DEF LocalsFresh, LocalFits
    <3>2. GetInst(localDeps[q]) = i => PositionOf(i) <= n
      <4>1. SUFFICES ASSUME GetInst(localDeps[q]) = i
                     PROVE  PositionOf(i) <= n
        OBVIOUS
      <4>2. BlockOf(i) = b /\ PositionOf(i) <= n + 1
        BY <1>3, <3>1, <4>1, InstOfFitting
      <4>3. PositionOf(i) # n + 1
        BY <1>3, <2>1, <2>3, <2>4, <4>2, BlockSequence DEF Placed
      <4>4. n \in Nat /\ PositionOf(i) \in Nat
        BY <1>3, <4>2, BlockSequence DEF Placed
      <4> QED BY <4>2, <4>3, <4>4
    <3>3. Fits(insts'[b], AtStart(b), n2, LocalDecisions(q), localDeps'[q])
      BY <2>2, <2>6, <2>7, <3>1, <3>2, MovedFits
    <3> QED BY <2>3, <2>5, <2>8, <2>9, <3>3 DEF LocalFits
  <2>10. CASE ~HasScan(q)
    <3>1. localDeps[q] = Unknown \/ (n = 0 /\ localDeps[q] = AtStart(b))
      BY <2>1, <2>3, <2>4, <2>10 DEF LocalsFresh, LocalFits
    <3>2. GetInst(localDeps[q]) # i
      BY <1>3, <3>1 DEF NoInstructions, AtStart, NonLocal, NonFuncLocal, Unknown, GetInst
    <3>3. n = 0 => n2 = 0
      BY <1>3, <2>6, BlockSequence DEF Placed
    <3>4. n2 = 0 => PositionOf(q)' = 1
      BY <1>5, <2>1, <2>5
    <3> QED BY <2>2, <2>3, <2>8, <2>10, <3>1, <3>2, <3>3, <3>4 DEF LocalFits
  <2> QED BY <2>9, <2>10
<1> QED BY <1>6 DEF LocalsFresh

\* Every step keeps the local cache fresh.
LEMMA LocalsFreshStep ==
    FunctionOK /\ LocalMirror /\ LocalOK /\ LocalsFresh /\ [Next]_vars => LocalsFresh'
<1> SUFFICES ASSUME FunctionOK, LocalMirror, LocalOK, LocalsFresh, [Next]_vars
             PROVE  LocalsFresh'
  OBVIOUS
<1>1. ASSUME UNCHANGED <<fn, insts>>
      PROVE  \A q, r : LocalFits(q, r)' <=> LocalFits(q, r)
  BY <1>1, SameFunction, SameDecisions DEF LocalFits, HasScan, LocalDecisions
<1>2. CASE LocalUnchanged /\ FunctionUnchanged
  BY <1>1, <1>2 DEF LocalsFresh, LocalUnchanged, FunctionUnchanged
<1>3. ASSUME NEW q \in fn.queries, GetDependency(q)
      PROVE  LocalsFresh'
  <2>1. q \in Present /\ IsDirty(Cached(q)) /\ UNCHANGED <<fn, insts>>
    BY <1>3 DEF GetDependency
  <2>2. PICK dep : dep = LocalDependency(q, ScanPos(q) - 1)
    OBVIOUS
  <2>3. localDeps' = Put(localDeps, q, dep)
    BY <1>3, <2>2 DEF GetDependency
  <2>4. LocalFits(q, dep)
    BY <2>1, <2>2, LocalDependencyFits
  <2> QED BY <1>1, <2>1, <2>3, <2>4 DEF LocalsFresh, Put
<1>4. ASSUME NEW i \in fn.removable, RemoveInstruction(i)
      PROVE  LocalsFresh'
  <2>1. Removed(i) /\ RemoveLocal(i)
    BY <1>4, RemovalRemoves DEF RemoveInstruction
  <2> QED BY <2>1, RemovedLocalsFresh
<1>5. CASE ReleaseMemory
  BY <1>5 DEF ReleaseMemory, LocalsFresh, Empty
<1>6. UNCHANGED vars => LocalUnchanged /\ FunctionUnchanged
  BY DEF vars, caches, LocalUnchanged, FunctionUnchanged
<1> QED BY <1>2, <1>3, <1>4, <1>5, <1>6, StepsOfLocal, StepsOfFunction

(***************************************************************************)
(* The results of calls: each fits its block; of a query that is not running, *)
(* no predecessor of the block of the call, or of one that is passed, is      *)
(* without a result.  While it runs those can be in the worklist.             *)
(***************************************************************************)
EntryFits(q, e) ==
    Fits(insts[e.bb], AtStart(e.bb), Len(insts[e.bb]), CallDecisions(q), e.result)
BlocksOf(info) == {e.bb : e \in ToSet(info)}
Covers(S, q, info) ==
    /\ ToSet(Preds(BlockOf(q))) \subseteq S
    /\ \A e \in ToSet(info) : e.result = NonLocal => ToSet(Preds(e.bb)) \subseteq S
AnyDirty(info) == \E e \in ToSet(info) : IsDirty(e.result)

InfoFresh(q, info) == \A e \in ToSet(info) : EntryFits(q, e)
CallFresh(q) ==
    LET info == nonLocalDeps[q].info
    IN  /\ InfoFresh(q, info)
        /\ AnyDirty(info) => nonLocalDeps[q].dirty
        /\ (pc = "call" => job.query # q) => info = <<>> \/ Covers(BlocksOf(info), q, info)
CallsFresh == \A q \in DOMAIN nonLocalDeps : CallFresh(q)
JobFresh ==
    pc = "call" =>
        /\ job.seen \subseteq BlocksOf(JobInfo)
        /\ Covers(BlocksOf(JobInfo) \union ToSet(job.dirtyBlocks), job.query, JobInfo)
        /\ \A e \in ToSet(JobInfo) :
              IsDirty(e.result) => e.bb \in ToSet(job.dirtyBlocks) /\ e.bb \notin job.seen

\* What fits depends on the function and its instructions only.
LEMMA SameFits ==
    ASSUME UNCHANGED <<fn, insts>>
    PROVE  /\ \A q, info : InfoFresh(q, info)' <=> InfoFresh(q, info)
           /\ \A S, q, info : Covers(S, q, info)' <=> Covers(S, q, info)
           /\ \A info : BlocksOf(info)' = BlocksOf(info) /\ (AnyDirty(info)' <=> AnyDirty(info))
<1>1. \A q, e : EntryFits(q, e)' <=> EntryFits(q, e)
  BY SameDecisions DEF EntryFits
<1>2. \A b : Preds(b)' = Preds(b) /\ BlockOf(b)' = BlockOf(b)
  BY SameFunction DEF Preds
<1> QED BY <1>1, <1>2 DEF InfoFresh, Covers, BlocksOf, AnyDirty

\* A query of a call stops only when its worklist is empty.
LEMMA CallEnds == Next /\ pc = "call" /\ pc' # "call" => EndCallQuery
<1>1. Client => pc = "idle"
  BY DEF Client, GetCachedDependency, GetDependency, GetCachedCallDependency, CallQuery,
         GetNonLocalCallDependency, AskPointer, RemoveInstruction, InvalidateCachedPointerInfo,
         ReleaseMemory, Idle
<1>2. SkipDirtyBlock \/ ScanDirtyBlock \/ RequestFails \/ StepFails => pc' = pc
  BY DEF SkipDirtyBlock, ScanDirtyBlock, RequestFails, StepFails, Fail, running
<1>3. ThrowOutSmaller \/ RestartWithSize \/ ThrowOutTagged \/ RestartWithoutTag => pc = "pointer"
  BY DEF ThrowOutSmaller, RestartWithSize, ThrowOutTagged, RestartWithoutTag, In
<1>4. ReturnCached \/ ReturnConflict \/ Begin \/ Lookup \/ SkipFirstBlock => pc = "pointer"
  BY DEF ReturnCached, ReturnConflict, Begin, Lookup, SkipFirstBlock, In
<1>5. PassUntranslated \/ PassTranslated \/ UnknownPred \/ Recurse \/ PredsDone => pc = "pointer"
  BY DEF PassUntranslated, PassTranslated, UnknownPred, Recurse, PredsDone, In
<1>6. TranslationFailsAtFirst \/ TranslationFails \/ Return \/ EndPointerQuery => pc = "pointer"
  BY DEF TranslationFailsAtFirst, TranslationFails, Return, EndPointerQuery, In
<1> QED BY <1>1, <1>2, <1>3, <1>4, <1>5, <1>6 DEF Next, CallStep, PointerStep

\* A query that runs leaves the results of all others alone.
LEMMA SameCallsFresh ==
    ASSUME FunctionOK, CallsOK, CallsFresh, JobFresh, Next, CallsUnchanged
    PROVE  CallsFresh' /\ JobFresh'
<1>1. UNCHANGED <<fn, insts, nonLocalDeps>>
  BY DEF CallsUnchanged
<1>2. CASE UNCHANGED <<pc, job>>
  BY <1>1, <1>2, SameFits DEF CallsFresh, CallFresh, JobFresh, JobInfo
<1>3. CASE pc' # "call" /\ pc # "call"
  BY <1>1, <1>3, SameFits DEF CallsFresh, CallFresh, JobFresh
<1>4. CASE pc' # "call" /\ pc = "call"
  <2>1. EndCallQuery
    BY <1>4, CallEnds
  <2>2. job.dirtyBlocks = <<>>
    BY <2>1 DEF EndCallQuery
  <2>3. Covers(BlocksOf(JobInfo), job.query, JobInfo)
    BY <1>4, <2>2 DEF JobFresh, ToSet
  <2> QED BY <1>1, <1>4, <2>3, SameFits DEF CallsFresh, CallFresh, JobFresh, JobInfo
<1> QED BY <1>2, <1>3, <1>4 DEF CallsUnchanged

\* The blocks of the dirty results, from which a query that is resumed begins.
LEMMA DirtyBlocks ==
    ASSUME FunctionOK, NEW info \in Seq(Entries), NEW e \in ToSet(info), IsDirty(e.result)
    PROVE  e.bb \in ToSet(DirtyBlocksIn(info))
<1> DEFINE I == {n \in DOMAIN info : IsDirty(info[n].result)}
           s == BlocksIn(info)
<1>1. /\ DOMAIN info = 1..Len(info) /\ Len(info) \in Nat
      /\ \A n \in 1..Len(info) : info[n] \in Entries
      /\ ToSet(info) = {info[n] : n \in 1..Len(info)}
  BY CacheFields
<1>2. s \in Seq(Blocks) /\ Len(s) = Len(info) /\ \A n \in 1..Len(info) : s[n] = info[n].bb
  <2>1. \A n \in 1..Len(info) : info[n].bb \in Blocks
    BY <1>1, EntryFields
  <2> QED BY <1>1, <2>1 DEF BlocksIn
<1>3. PICK n \in 1..Len(info) : info[n] = e
  BY <1>1
<1>4. n \in I /\ I \subseteq 1..Len(s)
  BY <1>1, <1>2, <1>3
<1> HIDE DEF I, s
<1>5. Picked(s, I) \in Seq(Blocks) /\ \E at : TakenAt(at, Picked(s, I), s, I)
  BY <1>2, <1>4, PickedProperties
<1>6. PICK k \in 1..Len(Picked(s, I)) : Picked(s, I)[k] = s[n]
  BY <1>4, <1>5 DEF TakenAt
<1>7. k \in DOMAIN Picked(s, I)
  BY <1>5, <1>6, LenProperties
<1>8. Picked(s, I)[k] = e.bb
  BY <1>2, <1>3, <1>6
<1> QED BY <1>7, <1>8 DEF DirtyBlocksIn, ToSet, I, s

\* A query begins with the predecessors, or with the dirty blocks of its cache.
LEMMA BeginCallFresh ==
    ASSUME FunctionOK, CallsOK, CallsFresh, NEW q, GetNonLocalCallDependency(q)
    PROVE  CallsFresh' /\ JobFresh'
<1> DEFINE info == CallInfo(q).info
           new == SortAll(info)
           begin == IF info = <<>> THEN Preds(BlockOf(q)) ELSE DirtyBlocksIn(info)
<1>1. /\ q \in Present /\ UNCHANGED <<fn, insts>> /\ pc = "idle" /\ pc' = "call"
      /\ nonLocalDeps' = Put(nonLocalDeps, q, [CallInfo(q) EXCEPT !.info = new])
      /\ job' = [query |-> q, dirtyBlocks |-> begin, seen |-> {}, sorted |-> Len(info)]
  BY DEF GetNonLocalCallDependency, CallQuery, Idle
<1>2. CallInfo(q) \in [info : Seq(Entries), dirty : BOOLEAN]
  <2>1. CASE q \in DOMAIN nonLocalDeps
    BY <2>1 DEF CallsOK, CallCachesOK, CallInfo
  <2>2. CASE q \notin DOMAIN nonLocalDeps
    <3>1. <<>> \in Seq(Entries)
      BY EmptySeq
    <3> QED BY <2>2, <3>1 DEF CallInfo, NoInfo
  <2> QED BY <2>1, <2>2
<1>3. info \in Seq(Entries)
  BY <1>2
<1>4. ToSet(new) = ToSet(info)
  BY <1>3, SortAllSorts DEF Permutes
<1>5. /\ InfoFresh(q, info) /\ (AnyDirty(info) => CallInfo(q).dirty)
      /\ info = <<>> \/ Covers(BlocksOf(info), q, info)
  <2>1. CASE q \in DOMAIN nonLocalDeps
    BY <1>1, <2>1 DEF CallsFresh, CallFresh, CallInfo
  <2>2. CASE q \notin DOMAIN nonLocalDeps
    BY <2>2 DEF CallInfo, NoInfo, InfoFresh, AnyDirty, ToSet
  <2> QED BY <2>1, <2>2
<1>6. \A e \in ToSet(info) : IsDirty(e.result) => e.bb \in ToSet(begin)
  <2>1. CASE info = <<>>
    BY <2>1 DEF ToSet
  <2>2. CASE info # <<>>
    <3>1. begin = DirtyBlocksIn(info)
      BY <2>2
    <3> HIDE DEF begin, info
    <3> QED BY <1>3, <3>1, DirtyBlocks
  <2> QED BY <2>1, <2>2
<1>7. Covers(BlocksOf(info) \union ToSet(begin), q, info)
  <2>1. CASE info = <<>>
    BY <2>1 DEF ToSet, Covers
  <2>2. CASE info # <<>>
    BY <1>5, <2>2 DEF Covers
  <2> QED BY <2>1, <2>2
<1>8. InfoFresh(q, new) /\ BlocksOf(new) = BlocksOf(info) /\ (AnyDirty(new) <=> AnyDirty(info))
      /\ Covers(BlocksOf(new) \union ToSet(begin), q, new)
  BY <1>4, <1>5, <1>7 DEF InfoFresh, BlocksOf, AnyDirty, Covers
<1> HIDE DEF begin
<1>9. [CallInfo(q) EXCEPT !.info = new] = [info |-> new, dirty |-> CallInfo(q).dirty]
  BY <1>2
<1>10. /\ DOMAIN nonLocalDeps' = DOMAIN nonLocalDeps \union {q}
       /\ nonLocalDeps'[q] = [info |-> new, dirty |-> CallInfo(q).dirty]
       /\ \A r \in DOMAIN nonLocalDeps \ {q} : nonLocalDeps'[r] = nonLocalDeps[r]
  BY <1>1, <1>9 DEF Put
<1> HIDE DEF info, new
<1>11. CallFresh(q)'
  BY <1>1, <1>5, <1>8, <1>10, SameFits DEF CallFresh
<1>12. ASSUME NEW r \in DOMAIN nonLocalDeps \ {q}
       PROVE  CallFresh(r)'
  BY <1>1, <1>10, SameFits DEF CallsFresh, CallFresh
<1>13. JobFresh'
  <2>1. JobInfo' = new
    BY <1>1, <1>10 DEF JobInfo
  <2>2. job'.query = q /\ job'.dirtyBlocks = begin /\ job'.seen = {}
    BY <1>1
  <2> QED BY <1>1, <1>4, <1>6, <1>8, <2>1, <2>2, SameFits DEF JobFresh, IsDirty
<1> QED BY <1>10, <1>11, <1>12 , <1>13 DEF CallsFresh

\* The worklist and the block that is taken from its end.
LEMMA PoppedBlock ==
    ASSUME FunctionOK, CallsOK, InCall, job.dirtyBlocks # <<>>
    PROVE  ToSet(job.dirtyBlocks) = ToSet(Popped) \union {DirtyBB}
<1> DEFINE s == job.dirtyBlocks
<1>1. s \in Seq(Blocks)
  BY DEF CallsOK, JobOK, InCall
<1>2. /\ Popped \in Seq(Blocks) /\ Len(s) \in Nat \ {0} /\ Len(Popped) = Len(s) - 1
      /\ \A j \in 1..Len(s) - 1 : Popped[j] = s[j]
      /\ DirtyBB = s[Len(s)]
  BY <1>1, FrontProperties DEF Popped, DirtyBB
<1>3. DOMAIN s = 1..Len(s) /\ DOMAIN Popped = 1..Len(s) - 1
  BY <1>1, <1>2, LenProperties
<1> HIDE DEF s
<1>4. \A j : j \in 1..Len(s) <=> j \in 1..Len(s) - 1 \/ j = Len(s)
  BY <1>2
<1>5. ToSet(s) = ToSet(Popped) \union {DirtyBB}
  BY <1>2, <1>3, <1>4 DEF ToSet
<1> QED BY <1>5 DEF s

\* A block that has been seen is not scanned again, and has a result.
LEMMA SkipDirtyBlockFresh ==
    ASSUME FunctionOK, CallsOK, CallsFresh, JobFresh, SkipDirtyBlock
    PROVE  CallsFresh' /\ JobFresh'
<1>1. /\ InCall /\ job.dirtyBlocks # <<>> /\ IsDone(DirtyBB)
      /\ job' = [job EXCEPT !.dirtyBlocks = Popped, !.seen = @ \union {DirtyBB}]
      /\ UNCHANGED <<fn, insts, nonLocalDeps, pc>> /\ pc = "call"
  BY DEF SkipDirtyBlock, InCall, caches
<1>2. /\ job = [query |-> job.query, dirtyBlocks |-> job.dirtyBlocks, seen |-> job.seen,
                sorted |-> job.sorted]
      /\ JobInfo \in Seq(Entries) /\ Distinct(JobInfo) /\ job.sorted \in 0..Len(JobInfo)
  BY <1>1, RunningCall
<1>3. job' = [query |-> job.query, dirtyBlocks |-> Popped, seen |-> job.seen \union {DirtyBB},
              sorted |-> job.sorted]
  <2>1. job \in [query : {job.query}, dirtyBlocks : {job.dirtyBlocks}, seen : {job.seen}, sorted : {job.sorted}]
    BY <1>2
  <2> QED BY <1>1, <2>1
<1>4. JobInfo' = JobInfo /\ job'.query = job.query
  BY <1>1, <1>3 DEF JobInfo
<1>5. ToSet(job.dirtyBlocks) = ToSet(Popped) \union {DirtyBB}
  BY <1>1, PoppedBlock
<1>6. /\ job.seen \subseteq BlocksOf(JobInfo)
      /\ Covers(BlocksOf(JobInfo) \union ToSet(job.dirtyBlocks), job.query, JobInfo)
      /\ \A e \in ToSet(JobInfo) :
            IsDirty(e.result) => e.bb \in ToSet(job.dirtyBlocks) /\ e.bb \notin job.seen
  BY <1>1 DEF JobFresh
<1>7. DirtyBB \in BlocksOf(JobInfo) /\ \A e \in ToSet(JobInfo) : IsDirty(e.result) => e.bb # DirtyBB
  <2>1. CASE DirtyBB \in job.seen
    BY <1>6, <2>1
  <2>2. CASE DirtyBB \notin job.seen
    <3>1. PICK n \in Found(JobInfo, job.sorted, DirtyBB) : ~IsDirty(JobInfo[n].result)
      BY <1>1, <2>2 DEF IsDone
    <3>2. n \in 1..Len(JobInfo) /\ JobInfo[n].bb = DirtyBB
      BY <1>2, <3>1, CacheFields DEF Found
    <3>3. ToSet(JobInfo) = {JobInfo[m] : m \in 1..Len(JobInfo)}
      BY <1>2, CacheFields
    <3> QED BY <1>2, <3>1, <3>2, <3>3 DEF Distinct, BlocksOf
  <2> QED BY <2>1, <2>2
<1>8. JobFresh'
  <2>1. PICK info, popped, q : info = JobInfo /\ popped = Popped /\ q = job.query
    OBVIOUS
  <2>2. JobInfo' = info /\ job'.query = q /\ job'.dirtyBlocks = popped
        /\ job'.seen = job.seen \union {DirtyBB}
    BY <1>3, <1>4, <2>1
  <2>3. Covers(BlocksOf(info) \union ToSet(popped), q, info)
    BY <1>5, <1>6, <1>7, <2>1
  <2>4. /\ job.seen \union {DirtyBB} \subseteq BlocksOf(info)
        /\ \A e \in ToSet(info) :
              IsDirty(e.result) => e.bb \in ToSet(popped) /\ e.bb \notin job.seen \union {DirtyBB}
    BY <1>5, <1>6, <1>7, <2>1
  <2>5. Covers(BlocksOf(info) \union ToSet(popped), q, info)' /\ BlocksOf(info)' = BlocksOf(info)
    BY <1>1, <2>3, SameFits
  <2> QED BY <2>2, <2>4, <2>5 DEF JobFresh, IsDirty
<1>9. CallsFresh'
  BY <1>1, <1>4, SameFits DEF CallsFresh, CallFresh
<1> QED BY <1>8, <1>9

\* What a cache has when a result is set: it is replaced, or added.
LEMMA SetResultMembers ==
    ASSUME FunctionOK, NEW info \in Seq(Entries), Distinct(info), NEW sorted \in 0..Len(info),
           NEW b \in Blocks, NEW dep \in ResultsIn(b),
           \A n \in sorted + 1..Len(info) : info[n].bb # b
    PROVE  ToSet(SetResult(info, sorted, b, dep))
              = {e \in ToSet(info) : e.bb # b} \union {[bb |-> b, result |-> dep]}
<1> DEFINE new == SetResult(info, sorted, b, dep)
           F == Found(info, sorted, b)
           N == [bb |-> b, result |-> dep]
<1>1. /\ new \in Seq(Entries)
      /\ Len(new) = IF F = {} THEN Len(info) + 1 ELSE Len(info)
      /\ \A n \in 1..Len(info) : /\ n \in F => new[n] = N
                                 /\ n \notin F => new[n] = info[n]
      /\ F = {} => new[Len(info) + 1] = N
  BY SetResultSets
<1>2. Len(info) \in Nat /\ ToSet(info) = {info[n] : n \in 1..Len(info)}
  BY CacheFields
<1>3. ToSet(new) = {new[n] : n \in 1..Len(new)}
  BY <1>1, CacheFields
<1>4. \A n \in 1..Len(info) : n \in F <=> info[n].bb = b
  BY <1>2 DEF Found
<1>5. N.bb = b
  OBVIOUS
<1>6. F \subseteq 1..Len(info)
  BY <1>2 DEF Found
<1> HIDE DEF new, F, N
<1>7. ASSUME NEW e \in ToSet(new)
      PROVE  e = N \/ (e \in ToSet(info) /\ e.bb # b)
  <2>1. PICK n \in 1..Len(new) : e = new[n]
    BY <1>3
  <2>2. CASE n \in 1..Len(info)
    BY <1>1, <1>2, <1>4, <2>1, <2>2
  <2>3. CASE n \notin 1..Len(info)
    <3>1. F = {} /\ n = Len(info) + 1
      BY <1>1, <1>2, <2>3
    <3> QED BY <1>1, <2>1, <3>1
  <2> QED BY <2>2, <2>3
<1>8. ASSUME NEW e \in ToSet(info), e.bb # b
      PROVE  e \in ToSet(new)
  <2>1. PICK n \in 1..Len(info) : e = info[n]
    BY <1>2
  <2>2. new[n] = e /\ n \in 1..Len(new)
    BY <1>1, <1>2, <1>4, <1>8, <2>1
  <2> QED BY <1>3, <2>2
<1>9. N \in ToSet(new)
  <2>1. CASE F = {}
    <3>1. Len(info) + 1 \in 1..Len(new)
      BY <1>1, <1>2, <2>1
    <3> QED BY <1>1, <1>3, <2>1, <3>1
  <2>2. CASE F # {}
    <3>1. PICK n \in F : TRUE
      BY <2>2
    <3>2. n \in 1..Len(info) /\ n \in 1..Len(new)
      BY <1>1, <1>6, <2>2
    <3> QED BY <1>1, <1>3, <3>2
  <2> QED BY <2>1, <2>2
<1>10. ToSet(new) = {e \in ToSet(info) : e.bb # b} \union {N}
  BY <1>7, <1>8, <1>9
<1> QED BY <1>10 DEF new, N

\* The scan of a block is by the decisions of the call.
LEMMA CallDecides ==
    ASSUME FunctionOK, NEW b \in Blocks, NEW c
    PROVE  /\ \A i \in Each(b) : AsCallSite(c, b)[i] = CallDecisions(c)[i]
           /\ \A k \in 1..Len(insts[b]) : CallDecisions(c)[insts[b][k]] # "Invalid"
<1>1. \A i \in Each(b) : i \in Instructions(fn)
  BY InBlock, PlacesOfPresent DEF EachPlaced, Placed
<1>2. \A k \in 1..Len(insts[b]) : insts[b][k] \in Instructions(fn)
  BY BlockSequence
<1> QED BY <1>1, <1>2, CallSiteDecision DEF AsCallSite, CallDecisions, Decisions

\* The scan of a block, from where its dirty result lets it begin.
LEMMA CallScanFits ==
    ASSUME FunctionOK, NEW b \in Blocks, NEW c, NEW former \in ResultsIn(b), IsDirty(former),
           \/ former = GetDirty(Null)
           \/ Fits(insts[b], AtStart(b), Len(insts[b]), CallDecisions(c), former)
    PROVE  Fits(insts[b], AtStart(b), Len(insts[b]), CallDecisions(c),
                CallSiteDependency(c, b, ScanTo(b, former)))
<1>1. PICK s, n, on, start : s = insts[b] /\ n = Len(insts[b]) /\ on = CallDecisions(c) /\ start = AtStart(b)
  OBVIOUS
<1>2. n \in Nat /\ n = Len(s)
  BY <1>1, BlockSequence
<1>3. PICK k \in 1..n + 1 : Passed(s, k, n, on) /\ ScanTo(b, former) = k - 1
  <2>1. CASE GetInst(former) = Null
    <3>1. ScanTo(b, former) = n /\ Passed(s, n + 1, n, on)
      BY <1>1, <1>2, <2>1 DEF ScanTo, Passed
    <3> QED BY <1>2, <3>1
  <2>2. CASE GetInst(former) # Null
    <3>1. Fits(s, start, n, on, former)
      BY <1>1, <2>2 DEF GetDirty, GetInst
    <3>2. ~IsDirty(start) /\ \A k \in 1..n : on[s[k]] # "Invalid"
      BY <1>1, CallDecides, NoneDirty
    <3>3. PICK k \in 1..n + 1 : k <= n /\ GetInst(former) = s[k] /\ Passed(s, k, n, on)
      BY <1>2, <2>2, <3>1, <3>2, DirtyFits
    <3>4. PositionOf(s[k]) = k
      BY <1>1, <1>2, <3>3, PlacesOfPresent DEF Placed
    <3> QED BY <2>2, <3>3, <3>4 DEF ScanTo
  <2> QED BY <2>1, <2>2
<1>4. k - 1 \in 0..Len(insts[b])
  BY <1>1, <1>2
<1>5. PICK dep : dep = CallSiteDependency(c, b, k - 1)
  OBVIOUS
<1>6. Fits(s, start, k - 1, on, dep)
  BY <1>1, <1>4, <1>5, CallDecides, ScanFits DEF CallSiteDependency
<1>7. ~IsDirty(dep)
  BY <1>4, <1>5, CallSiteDependencyResult, NoneDirty
<1>8. Fits(s, start, n, on, dep)
  BY <1>2, <1>3, <1>6, <1>7, ResumedFits
<1> QED BY <1>1, <1>3, <1>5, <1>8

\* A block that is scanned has a clean result; if it is passed, its predecessors
\* are in the worklist.
LEMMA ScanDirtyBlockFresh ==
    ASSUME FunctionOK, CallsOK, CallsFresh, JobFresh, ScanDirtyBlock
    PROVE  CallsFresh' /\ JobFresh'
<1>1. PICK q, b, info, sorted, former, dep, popped, seen, blocks :
         /\ q = job.query /\ b = DirtyBB /\ info = JobInfo /\ sorted = job.sorted
         /\ former = Former(info, sorted, b) /\ dep = CallSiteDependency(q, b, ScanTo(b, former))
         /\ popped = Popped /\ seen = job.seen /\ blocks = job.dirtyBlocks
  OBVIOUS
<1>2. PICK new, next : /\ new = SetResult(info, sorted, b, dep)
                       /\ next = popped \o (IF Transparent(dep) THEN Preds(b) ELSE <<>>)
  OBVIOUS
<1>3. /\ InCall /\ blocks # <<>> /\ ~IsDone(b) /\ UNCHANGED <<fn, insts, pc>> /\ pc = "call"
      /\ nonLocalDeps' = [nonLocalDeps EXCEPT ![q].info = new]
      /\ job' = [job EXCEPT !.dirtyBlocks = next, !.seen = @ \union {b}]
  BY <1>1, <1>2 DEF ScanDirtyBlock, JobInfo, InCall
<1>4. /\ job = [query |-> q, dirtyBlocks |-> blocks, seen |-> seen, sorted |-> sorted]
      /\ q \in DOMAIN nonLocalDeps /\ q \in Present
      /\ info \in Seq(Entries) /\ Distinct(info) /\ sorted \in 0..Len(info)
      /\ nonLocalDeps[q] = [info |-> info, dirty |-> nonLocalDeps[q].dirty]
      /\ b \in Blocks /\ popped \in Seq(Blocks) /\ seen \subseteq Blocks
  BY <1>1, <1>3, RunningCall
<1>5. /\ b \notin seen /\ \A n \in Found(info, sorted, b) : IsDirty(info[n].result)
      /\ \A n \in sorted + 1..Len(info) : info[n].bb # b
  <2>1. b \notin seen /\ \A n \in Found(info, sorted, b) : IsDirty(info[n].result)
    BY <1>1, <1>3 DEF IsDone
  <2>2. \A n \in sorted + 1..Len(info) : info[n].bb \in seen
    BY <1>1, <1>3 DEF CallsOK, JobOK
  <2> QED BY <2>1, <2>2
<1>6. InfoFresh(q, info) /\ (AnyDirty(info) => nonLocalDeps[q].dirty)
  BY <1>4 DEF CallsFresh, CallFresh
<1>7. /\ seen \subseteq BlocksOf(info)
      /\ Covers(BlocksOf(info) \union ToSet(blocks), q, info)
      /\ \A e \in ToSet(info) : IsDirty(e.result) => e.bb \in ToSet(blocks) /\ e.bb \notin seen
  BY <1>1, <1>3 DEF JobFresh
<1>8. /\ former \in ResultsIn(b) /\ IsDirty(former)
      /\ \/ former = GetDirty(Null)
         \/ Fits(insts[b], AtStart(b), Len(insts[b]), CallDecisions(q), former)
  <2>1. IsDirty(GetDirty(Null))
    BY DEF IsDirty, GetDirty
  <2>2. former \in ResultsIn(b)
    BY <1>1, <1>4, FormerResult
  <2>3. CASE former = GetDirty(Null)
    BY <2>1, <2>2, <2>3
  <2>4. CASE former # GetDirty(Null)
    <3>1. PICK n \in Found(info, sorted, b) : former = info[n].result
      BY <1>1, <1>4, <2>4, FormerResult
    <3>2. n \in 1..Len(info) /\ info[n].bb = b
      BY <1>4, <3>1, CacheFields DEF Found
    <3>3. info[n] \in ToSet(info)
      BY <1>4, <3>2, CacheFields
    <3>4. EntryFits(q, info[n])
      BY <1>6, <3>3 DEF InfoFresh
    <3> QED BY <1>5, <2>2, <3>1, <3>2, <3>4 DEF EntryFits
  <2> QED BY <2>3, <2>4
<1>9. dep \in ResultsIn(b) /\ ~IsDirty(dep)
  <2>1. dep \in FoundIn(b) \union Constants
    BY <1>1, <1>4, <1>8, ScanToRange, CallSiteDependencyResult
  <2> QED BY <1>4, <2>1, NoneDirty DEF ResultsIn, FoundIn
<1>10. Fits(insts[b], AtStart(b), Len(insts[b]), CallDecisions(q), dep)
  BY <1>1, <1>4, <1>8, CallScanFits
<1>11. PICK N : N = [bb |-> b, result |-> dep]
  OBVIOUS
<1>12. ToSet(new) = {e \in ToSet(info) : e.bb # b} \union {N} /\ N.bb = b /\ N.result = dep
  BY <1>2, <1>4, <1>5, <1>9, <1>11, SetResultMembers
<1>13. BlocksOf(new) = BlocksOf(info) \union {b}
  BY <1>12 DEF BlocksOf
<1>14. /\ ToSet(blocks) = ToSet(popped) \union {b}
       /\ ToSet(next) = ToSet(popped) \union (IF Transparent(dep) THEN ToSet(Preds(b)) ELSE {})
  <2>1. ToSet(blocks) = ToSet(popped) \union {b}
    BY <1>1, <1>3, PoppedBlock
  <2>2. Preds(b) \in Seq(Blocks) /\ <<>> \in Seq(Blocks)
    BY <1>4, EmptySeq, FunctionsAssumption DEF FunctionOK, Blocks, Preds
  <2>3. \A s, t \in Seq(Blocks) : ToSet(s \o t) = ToSet(s) \union ToSet(t)
    <3> SUFFICES ASSUME NEW s \in Seq(Blocks), NEW t \in Seq(Blocks)
                 PROVE  ToSet(s \o t) = ToSet(s) \union ToSet(t)
      OBVIOUS
    <3>1. /\ DOMAIN (s \o t) = 1..Len(s) + Len(t) /\ DOMAIN s = 1..Len(s) /\ DOMAIN t = 1..Len(t)
          /\ Len(s) \in Nat /\ Len(t) \in Nat
          /\ \A k \in 1..Len(s) + Len(t) : (s \o t)[k] = IF k <= Len(s) THEN s[k] ELSE t[k - Len(s)]
      BY ConcatProperties, LenProperties
    <3>2. \A k \in 1..Len(t) : (s \o t)[k + Len(s)] = t[k] /\ k + Len(s) \in 1..Len(s) + Len(t)
      BY <3>1
    <3>3. \A k \in 1..Len(s) : (s \o t)[k] = s[k] /\ k \in 1..Len(s) + Len(t)
      BY <3>1
    <3>4. \A k \in 1..Len(s) + Len(t) : k \in 1..Len(s) \/ (k - Len(s) \in 1..Len(t) /\ k = (k - Len(s)) + Len(s))
      BY <3>1
    <3>5. ASSUME NEW e \in ToSet(s \o t)
          PROVE  e \in ToSet(s) \union ToSet(t)
      <4>1. PICK k \in 1..Len(s) + Len(t) : e = (s \o t)[k]
        BY <3>1, <3>5 DEF ToSet
      <4> QED BY <3>1, <3>2, <3>3, <3>4, <4>1 DEF ToSet
    <3>6. ASSUME NEW e \in ToSet(s) \union ToSet(t)
          PROVE  e \in ToSet(s \o t)
      <4>1. (\E k \in 1..Len(s) : e = s[k]) \/ \E k \in 1..Len(t) : e = t[k]
        BY <3>1, <3>6 DEF ToSet
      <4> QED BY <3>1, <3>2, <3>3, <4>1 DEF ToSet
    <3> QED BY <3>5, <3>6
  <2>4. ToSet(<<>>) = {}
    BY DEF ToSet
  <2> QED BY <1>2, <1>4, <2>1, <2>2, <2>3, <2>4
<1>15. InfoFresh(q, new) /\ (AnyDirty(new) => AnyDirty(info))
  <2>1. EntryFits(q, N)
    BY <1>10, <1>12 DEF EntryFits
  <2> QED BY <1>6, <1>9, <1>12, <2>1 DEF InfoFresh, AnyDirty
<1>16. Covers(BlocksOf(new) \union ToSet(next), q, new)
  <2>1. BlocksOf(info) \union ToSet(blocks) \subseteq BlocksOf(new) \union ToSet(next)
    BY <1>13, <1>14
  <2>2. dep = NonLocal => ToSet(Preds(b)) \subseteq ToSet(next)
    BY <1>14 DEF Transparent
  <2>3. \A e \in ToSet(new) : e = N \/ e \in ToSet(info)
    BY <1>12
  <2> QED BY <1>7, <1>12, <2>1, <2>2, <2>3 DEF Covers
<1>17. \A e \in ToSet(new) : IsDirty(e.result) => e.bb \in ToSet(next) /\ e.bb \notin seen \union {b}
  BY <1>7, <1>9, <1>12, <1>14
<1>18. seen \union {b} \subseteq BlocksOf(new)
  BY <1>7, <1>13
<1>19. job' = [query |-> q, dirtyBlocks |-> next, seen |-> seen \union {b}, sorted |-> sorted]
  <2>1. job \in [query : {q}, dirtyBlocks : {blocks}, seen : {seen}, sorted : {sorted}]
    BY <1>4
  <2> QED BY <1>3, <2>1
<1>20. /\ DOMAIN nonLocalDeps' = DOMAIN nonLocalDeps
       /\ nonLocalDeps'[q] = [info |-> new, dirty |-> nonLocalDeps[q].dirty]
       /\ \A r \in DOMAIN nonLocalDeps \ {q} : nonLocalDeps'[r] = nonLocalDeps[r]
  BY <1>3, <1>4
<1>21. JobFresh'
  <2>1. JobInfo' = new
    BY <1>19, <1>20 DEF JobInfo
  <2>2. PICK S : S = BlocksOf(new) \union ToSet(next)
    OBVIOUS
  <2>3. Covers(S, q, new)' /\ BlocksOf(new)' = BlocksOf(new)
    BY <1>3, <1>16, <2>2, SameFits
  <2>4. job'.query = q /\ job'.dirtyBlocks = next /\ job'.seen = seen \union {b}
    BY <1>19
  <2> QED BY <1>17, <1>18, <2>1, <2>2, <2>3, <2>4 DEF JobFresh, IsDirty
<1>22. CallFresh(q)'
  <2>1. InfoFresh(q, new)' /\ (AnyDirty(new)' => nonLocalDeps[q].dirty)
    BY <1>3, <1>6, <1>15, SameFits
  <2>2. pc' = "call"
    BY <1>3
  <2>3. job'.query = q
    BY <1>19
  <2>4. nonLocalDeps'[q].info = new /\ nonLocalDeps'[q].dirty = nonLocalDeps[q].dirty
    BY <1>20
  <2> QED BY <2>1, <2>2, <2>3, <2>4 DEF CallFresh
<1>23. ASSUME NEW r \in DOMAIN nonLocalDeps \ {q}
       PROVE  CallFresh(r)'
  <2>1. CallFresh(r) /\ job.query = q /\ job'.query = q /\ r # q
    BY <1>4, <1>19, <1>23 DEF CallsFresh
  <2> QED BY <1>3, <1>20, <2>1, SameFits DEF CallFresh
<1> QED BY <1>20, <1>21, <1>22, <1>23 DEF CallsFresh

(***************************************************************************)
(* A removal: a result that has the instruction is redirected, and the cache  *)
(* is marked.                                                                 *)
(***************************************************************************)
RedirectedEntry(e, i) ==
    IF GetInst(e.result) = i THEN [bb |-> e.bb, result |-> GetDirty(NextOf(i))] ELSE e

\* The results of the cache, redirected.
LEMMA RedirectedMembers ==
    ASSUME FunctionOK, NEW info \in Seq(Entries), NEW i
    PROVE  ToSet(Redirected(info, i)) = {RedirectedEntry(e, i) : e \in ToSet(info)}
<1>1. /\ DOMAIN info = 1..Len(info) /\ ToSet(info) = {info[n] : n \in 1..Len(info)}
      /\ \A n \in 1..Len(info) : info[n] \in Entries
  BY CacheFields
<1>2. DOMAIN Redirected(info, i) = 1..Len(info)
  BY <1>1 DEF Redirected
<1>3. \A n \in 1..Len(info) : Redirected(info, i)[n] = RedirectedEntry(info[n], i)
  <2>1. \A n \in 1..Len(info) : info[n] = [bb |-> info[n].bb, result |-> info[n].result]
    BY <1>1, EntryFields
  <2> QED BY <1>1, <2>1 DEF Redirected, RedirectedEntry
<1>4. ToSet(Redirected(info, i)) = {Redirected(info, i)[n] : n \in 1..Len(info)}
  BY <1>2 DEF ToSet
<1> QED BY <1>1, <1>3, <1>4

\* They cover the blocks they did, and fit the blocks without the instruction.
LEMMA RedirectedFresh ==
    ASSUME FunctionOK, NEW i, Removed(i), NEW q \in Present \ {i}, NEW info \in Seq(Entries),
           InfoFresh(q, info), NEW new, new = Redirected(info, i)
    PROVE  /\ InfoFresh(q, new)'
           /\ Covers(BlocksOf(info), q, info) => Covers(BlocksOf(new), q, new)'
           /\ ~Has(info, i) => new = info
<1>1. PICK next : next = NextOf(i)
  OBVIOUS
<1>2. ToSet(new) = {IF GetInst(e.result) = i THEN [bb |-> e.bb, result |-> GetDirty(next)] ELSE e : e \in ToSet(info)}
  BY <1>1, RedirectedMembers DEF RedirectedEntry
<1>3. fn' = fn /\ i \in Present /\ Placed /\ BlockOf(q)' = BlockOf(q) /\ Blocks' = Blocks
  BY PlacesOfPresent, RemovedPlaces, RemovedBlocks DEF Removed
<1>4. \A e \in ToSet(info) : e.bb \in Blocks /\ e.result \in ResultsIn(e.bb)
  BY CacheFields, EntryFields
<1>5. ASSUME NEW e \in ToSet(info),
             NEW r, r = IF GetInst(e.result) = i THEN GetDirty(next) ELSE e.result
      PROVE  Fits(insts'[e.bb], AtStart(e.bb)', Len(insts'[e.bb]), CallDecisions(q)', r)
  <2>1. PICK b \in Blocks, n \in 0..Len(insts[e.bb]) : b = e.bb /\ n = Len(insts[b])
    BY <1>4, BlockSequence
  <2>2. Fits(insts[b], AtStart(b), n, CallDecisions(q), e.result) /\ e.result \in ResultsIn(b)
    BY <1>4, <2>1 DEF InfoFresh, EntryFits
  <2>3. PositionOf(i) \in 1..Len(insts[BlockOf(i)]) /\ i # Null
    BY <1>3 DEF Placed, NoInstructions
  <2>4. GetInst(e.result) = i => PositionOf(i) <= n
    <3>1. GetInst(e.result) = i => BlockOf(i) = b
      BY <1>3, <2>1, <2>2, InBlock, ResultInst DEF EachPlaced
    <3>2. n \in Nat /\ (BlockOf(i) = b => PositionOf(i) \in 1..n)
      BY <2>1, <2>3, BlockSequence
    <3> QED BY <3>1, <3>2
  <2>5. Len(insts'[b]) = IF b = BlockOf(i) /\ PositionOf(i) <= n THEN n - 1 ELSE n
    <3>1. CASE b = BlockOf(i)
      BY <2>1, <2>3, <3>1, RemovedBlocks, BlockSequence
    <3>2. CASE b # BlockOf(i)
      BY <2>1, <3>2, RemovedBlocks
    <3> QED BY <3>1, <3>2
  <2>6. Fits(insts'[b], AtStart(b), Len(insts'[b]), CallDecisions(q), r)
    BY <1>1, <1>5, <2>1, <2>2, <2>4, <2>5, MovedFits
  <2>7. AtStart(b)' = AtStart(b) /\ CallDecisions(q)' = CallDecisions(q)
    BY <1>3, SameDecisions
  <2> QED BY <2>1, <2>6, <2>7
<1>6. InfoFresh(q, new)'
  <2> SUFFICES ASSUME NEW d \in ToSet(new)
               PROVE  EntryFits(q, d)'
    BY DEF InfoFresh
  <2>1. PICK e \in ToSet(info) :
           d = IF GetInst(e.result) = i THEN [bb |-> e.bb, result |-> GetDirty(next)] ELSE e
    BY <1>2
  <2>2. d.bb = e.bb /\ d.result = IF GetInst(e.result) = i THEN GetDirty(next) ELSE e.result
    BY <2>1
  <2> QED BY <1>5, <2>2 DEF EntryFits
<1>7. BlocksOf(new) = BlocksOf(info)
  <2>1. \A e : (IF GetInst(e.result) = i THEN [bb |-> e.bb, result |-> GetDirty(next)] ELSE e).bb = e.bb
    OBVIOUS
  <2>2. BlocksOf(new) = {(IF GetInst(e.result) = i THEN [bb |-> e.bb, result |-> GetDirty(next)] ELSE e).bb : e \in ToSet(info)}
    BY <1>2 DEF BlocksOf
  <2> QED BY <2>1, <2>2 DEF BlocksOf
<1>8. ASSUME Covers(BlocksOf(info), q, info)
      PROVE  Covers(BlocksOf(info), q, new)'
  <2>1. \A b : Preds(b)' = Preds(b)
    BY <1>3 DEF Preds
  <2>2. ASSUME NEW d \in ToSet(new), d.result = NonLocal
        PROVE  d \in ToSet(info)
    <3>1. GetDirty(next) # NonLocal
      BY DEF GetDirty, NonLocal
    <3> QED BY <1>2, <2>2, <3>1
  <2>3. ToSet(Preds(BlockOf(q))) \subseteq BlocksOf(info)
        /\ \A d \in ToSet(new) : d.result = NonLocal => ToSet(Preds(d.bb)) \subseteq BlocksOf(info)
    BY <1>8, <2>2 DEF Covers
  <2>4. BlocksOf(info)' = BlocksOf(info)
    BY DEF BlocksOf
  <2>5. NonLocal' = NonLocal
    BY DEF NonLocal
  <2> QED BY <1>3, <2>1, <2>3, <2>4, <2>5 DEF Covers
<1>9. ~Has(info, i) => new = info
  BY RemovedEntries
<1>10. BlocksOf(new)' = BlocksOf(new) /\ BlocksOf(info)' = BlocksOf(info)
  BY DEF BlocksOf
<1> QED BY <1>6, <1>7, <1>8, <1>9, <1>10

\* A removal keeps the caches of calls fresh.
LEMMA RemovedCallsFresh ==
    ASSUME FunctionOK, CallsOK, CallsFresh, NEW i, RemoveInstruction(i)
    PROVE  CallsFresh' /\ JobFresh'
<1> DEFINE D == CallDependents(i)
<1>1. Removed(i) /\ pc = "idle" /\ pc' = "idle"
  BY RemovalRemoves DEF RemoveInstruction, Idle, running
<1>2. nonLocalDeps' = [q \in DOMAIN nonLocalDeps \ {i} |->
                          IF q \in D THEN [info |-> Redirected(nonLocalDeps[q].info, i), dirty |-> TRUE]
                          ELSE nonLocalDeps[q]]
  BY DEF RemoveInstruction, RemoveNonLocal
<1>3. \A q \in DOMAIN nonLocalDeps \ {i} : q \notin D => ~Has(nonLocalDeps[q].info, i)
  <2>1. PICK W : W = [q \in DOMAIN nonLocalDeps \ {i} |-> nonLocalDeps[q].info]
    OBVIOUS
  <2>2. Mirrored(Present, ReverseNonLocalWithout(i), W) /\ i \in Present
    BY <1>1, <2>1, CallsWithout DEF Removed
  <2>3. \A q \in DOMAIN W : Has(W[q], i) => <<i, q>> \in ReverseNonLocalWithout(i)
    BY <2>2 DEF Mirrored
  <2>4. \A q : <<i, q>> \in ReverseNonLocalWithout(i) => q \in D
    BY DEF CallDependents, Dependents
  <2> QED BY <2>1, <2>3, <2>4
<1> HIDE DEF D
<1>4. ASSUME NEW q \in DOMAIN nonLocalDeps'
      PROVE  CallFresh(q)'
  <2>1. q \in DOMAIN nonLocalDeps \ {i}
    BY <1>2
  <2>2. PICK info, new : info = nonLocalDeps[q].info /\ new = Redirected(info, i)
    OBVIOUS
  <2>3. q \in Present \ {i} /\ info \in Seq(Entries)
    BY <2>1, <2>2 DEF CallsOK, CallCachesOK
  <2>4. /\ InfoFresh(q, info) /\ (AnyDirty(info) => nonLocalDeps[q].dirty)
        /\ info = <<>> \/ Covers(BlocksOf(info), q, info)
    BY <1>1, <2>1, <2>2 DEF CallsFresh, CallFresh
  <2>5. /\ InfoFresh(q, new)' /\ (Covers(BlocksOf(info), q, info) => Covers(BlocksOf(new), q, new)')
        /\ ~Has(info, i) => new = info
    BY <1>1, <2>2, <2>3, <2>4, RedirectedFresh
  <2>6. nonLocalDeps'[q].info = new
        /\ (new # info \/ nonLocalDeps[q].dirty => nonLocalDeps'[q].dirty)
    BY <1>2, <1>3, <2>1, <2>2, <2>5
  <2>7. info = <<>> => new = <<>>
    BY <2>2 DEF Redirected
  <2>8. AnyDirty(new)' => nonLocalDeps'[q].dirty
    BY <2>4, <2>6 DEF AnyDirty, IsDirty
  <2> QED BY <2>4, <2>5, <2>6, <2>7, <2>8 DEF CallFresh
<1>5. JobFresh'
  BY <1>1 DEF JobFresh
<1> QED BY <1>4, <1>5 DEF CallsFresh

\* The caches of the queries are fresh: what they keep is what a scan finds now,
\* or unknown, or dirty and where a scan may begin again.
FreshOK == LocalsFresh /\ CallsFresh /\ JobFresh

\* Empty caches are.
LEMMA InitFresh == Init => FreshOK
BY DEF Init, FreshOK, LocalsFresh, CallsFresh, JobFresh, Empty

\* Every step keeps them so.
LEMMA FreshStep == AnalysisOK /\ FreshOK /\ [Next]_vars => FreshOK'
<1> SUFFICES ASSUME AnalysisOK, FreshOK, [Next]_vars
             PROVE  FreshOK'
  OBVIOUS
<1>1. /\ FunctionOK /\ LocalMirror /\ LocalOK /\ CallsOK
      /\ LocalsFresh /\ CallsFresh /\ JobFresh
  BY DEF AnalysisOK, FreshOK
<1>2. LocalsFresh'
  BY <1>1, LocalsFreshStep
<1>3. CASE UNCHANGED vars
  <2>1. UNCHANGED <<fn, insts, nonLocalDeps, pc, job>>
    BY <1>3 DEF vars, caches, running
  <2>2. CallsFresh'
    BY <1>1, <2>1, SameFits DEF CallsFresh, CallFresh
  <2>3. JobFresh'
    BY <1>1, <2>1, SameFits DEF JobFresh, JobInfo, IsDirty
  <2> QED BY <1>2, <2>2, <2>3 DEF FreshOK
<1>4. CASE Idle /\ ReleaseMemory
  <2>1. nonLocalDeps' = Empty /\ pc' = "idle"
    BY <1>4 DEF ReleaseMemory, Idle, running
  <2> QED BY <1>2, <2>1 DEF FreshOK, CallsFresh, JobFresh, Empty
<1>5. CASE Next
  <2>1. CASE CallsUnchanged
    BY <1>1, <1>2, <1>5, <2>1, SameCallsFresh DEF FreshOK
  <2>2. ASSUME NEW q \in fn.queries, GetNonLocalCallDependency(q)
        PROVE  FreshOK'
    BY <1>1, <1>2, <2>2, BeginCallFresh DEF FreshOK
  <2>3. CASE SkipDirtyBlock
    BY <1>1, <1>2, <2>3, SkipDirtyBlockFresh DEF FreshOK
  <2>4. CASE ScanDirtyBlock
    BY <1>1, <1>2, <2>4, ScanDirtyBlockFresh DEF FreshOK
  <2>5. ASSUME NEW i \in fn.removable, RemoveInstruction(i)
        PROVE  FreshOK'
    BY <1>1, <1>2, <2>5, RemovedCallsFresh DEF FreshOK
  <2> QED BY <1>4, <1>5, <2>1, <2>2, <2>3, <2>4, <2>5, StepsOfCalls
<1> QED BY <1>3, <1>5

\* What is kept for a local query (localDeps) or a block of a call (nonLocalDeps)
\* is never stale: it is unknown, or what a scan of the block would find among the
\* instructions that are there now, or it is dirty and all from its instruction on
\* is passed by the scan that getDependency and getNonLocalCallDependency begin
\* there; and a call's cache that is not being filled has a result for every
\* predecessor of the call's block and of each block that is passed, however many
\* instructions removeInstruction has taken out in between.
THEOREM CachesStayFresh == Spec => []FreshOK
<1>1. Spec => []AnalysisOK
  BY AnalysisStaysOK
<1> QED BY <1>1, InitFresh, FreshStep, PTL DEF Spec

-----------------------------------------------------------------------------
(***************************************************************************)
(* The abstract specification has the same scans.                             *)
(***************************************************************************)
LEMMA SameScans ==
    /\ Queries!Unknown = Unknown /\ Queries!NonLocal = NonLocal
    /\ \A s : Queries!ToSet(s) = ToSet(s)
    /\ \A b : Queries!Preds(b) = Preds(b)
    /\ \A i : Queries!BlockOf(i) = BlockOf(i) /\ Queries!PositionOf(i) = PositionOf(i)
    /\ Queries!Present = Present /\ \A s, k : Queries!RemoveAt(s, k) = RemoveAt(s, k)
    /\ \A q : Queries!LocalTruth(q) = LocalTruth(q)
    /\ \A q, b, n : Queries!CallSiteTruth(q, b, n) = CallSiteTruth(q, b, n)
<1>1. /\ Queries!Unknown = Unknown /\ Queries!NonLocal = NonLocal
      /\ Queries!NonFuncLocal = NonFuncLocal /\ Queries!UnknownSize = UnknownSize
  BY DEF Queries!Unknown, Unknown, Queries!NonLocal, NonLocal, Queries!NonFuncLocal, NonFuncLocal,
         Queries!UnknownSize, UnknownSize
<1>2. \A s : Queries!ToSet(s) = ToSet(s)
  BY DEF Queries!ToSet, ToSet
<1>3. \A b : Queries!Preds(b) = Preds(b) /\ Queries!AtStart(b) = AtStart(b) /\ Queries!Each(b) = Each(b)
  BY <1>1, <1>2 DEF Queries!Preds, Preds, Queries!AtStart, AtStart, Queries!Each, Each
<1>4. \A i : Queries!BlockOf(i) = BlockOf(i)
  BY <1>2 DEF Queries!BlockOf, BlockOf, Queries!Blocks, Blocks
<1>5. \A i : Queries!PositionOf(i) = PositionOf(i)
  BY <1>4 DEF Queries!PositionOf, PositionOf
<1>6. \A b, n, on : Queries!Unlimited(b, n, on) = Unlimited(b, n, on)
  <2>1. \A b, n, on : Queries!Stops(b, n, on) = Stops(b, n, on)
    BY DEF Queries!Stops, Stops
  <2>2. \A b, n, on : Queries!LastStop(b, n, on) = LastStop(b, n, on)
    BY <2>1 DEF Queries!LastStop, LastStop
  <2> QED BY <1>3, <2>1, <2>2 DEF Queries!Unlimited, Unlimited
<1>7. \A i : Queries!Kind(i) = Kind(i) /\ Queries!Ordering(i) = Ordering(i)
  BY DEF Queries!Kind, Kind, Queries!Ordering, Ordering
<1>8. \A i : /\ Queries!HasLocation(i) <=> HasLocation(i)
             /\ Queries!IsCallSite(i) <=> IsCallSite(i)
             /\ Queries!ModRefOf(i) = ModRefOf(i)
  BY <1>7 DEF Queries!HasLocation, HasLocation, Queries!IsCallSite, IsCallSite,
              Queries!ModRefOf, ModRefOf
<1>9. \A i : /\ Queries!IsLoadQuery(i) = IsLoadQuery(i)
             /\ Queries!IsInvariantLoad(i) = IsInvariantLoad(i)
  BY <1>7, <1>8 DEF Queries!IsLoadQuery, IsLoadQuery, Queries!IsInvariantLoad, IsInvariantLoad,
                    Queries!Modifies, Modifies
<1>10. \A loc, p : (Queries!MustAlias(loc, p) <=> MustAlias(loc, p))
                  /\ (Queries!NoAlias(loc, p) <=> NoAlias(loc, p))
  BY DEF Queries!MustAlias, MustAlias, Queries!NoAlias, NoAlias
<1>11. \A loc, i : Queries!Widenable(loc, i) <=> Widenable(loc, i)
  BY DEF Queries!Widenable, Widenable, Queries!FullWidthSize, FullWidthSize, Queries!Widths, Widths,
         Queries!MinWidth, MinWidth
<1>12. \A i, loc, isLoad : Queries!OnLoad(i, loc, isLoad) = OnLoad(i, loc, isLoad)
  BY <1>7, <1>10, <1>11 DEF Queries!OnLoad, OnLoad
<1>13. \A i, loc, invariantLoad : Queries!OnStore(i, loc, invariantLoad) = OnStore(i, loc, invariantLoad)
  BY <1>7, <1>10 DEF Queries!OnStore, OnStore
<1>14. \A i, loc, isLoad : Queries!OnModRef(i, loc, isLoad) = OnModRef(i, loc, isLoad)
  BY DEF Queries!OnModRef, OnModRef
<1>15. \A i, loc, isLoad : Queries!OnAllocation(i, loc, isLoad) = OnAllocation(i, loc, isLoad)
  BY <1>1, <1>7, <1>10, <1>14 DEF Queries!OnAllocation, OnAllocation
<1>16. \A i, loc, isLoad, invariantLoad :
          Queries!OnPointer(i, loc, isLoad, invariantLoad) = OnPointer(i, loc, isLoad, invariantLoad)
  BY <1>7, <1>10, <1>12, <1>13, <1>14, <1>15
     DEF Queries!OnPointer, OnPointer, Queries!Allocates, Allocates
<1>17. \A i, c : Queries!OnCallSite(i, c) = OnCallSite(i, c)
  BY <1>7, <1>8 DEF Queries!OnCallSite, OnCallSite, Queries!ReadsOnly, ReadsOnly,
                    Queries!Modifies, Modifies
<1>18. \A q, b, n : Queries!CallSiteTruth(q, b, n) = CallSiteTruth(q, b, n)
  BY <1>3, <1>6, <1>17 DEF Queries!CallSiteTruth, CallSiteTruth, Queries!AsCallSite, AsCallSite
<1>19. \A loc, isLoad, invariantLoad, b, n :
          Queries!PointerTruth(loc, isLoad, invariantLoad, b, n) = PointerTruth(loc, isLoad, invariantLoad, b, n)
  BY <1>3, <1>6, <1>16 DEF Queries!PointerTruth, PointerTruth, Queries!AsPointer, AsPointer
<1>20. \A q : Queries!LocalTruth(q) = LocalTruth(q)
  BY <1>3, <1>4, <1>5, <1>8, <1>9, <1>18, <1>19, <1>1 DEF Queries!LocalTruth, LocalTruth
<1>21. Queries!Present = Present
  BY <1>2 DEF Queries!Present, Present, Queries!Blocks, Blocks
<1>22. \A s, k : Queries!RemoveAt(s, k) = RemoveAt(s, k)
  BY DEF Queries!RemoveAt, RemoveAt
<1> QED BY <1>1, <1>3, <1>4, <1>5, <1>18, <1>20, <1>2, <1>21, <1>22

\* The answer to a local query, from the cache or by a scan, is right.
LEMMA LocalAnswerRight ==
    ASSUME AnalysisOK, FreshOK, NEW q, GetCachedDependency(q) \/ GetDependency(q)
    PROVE  Queries!Right(answer')
<1>1. FunctionOK /\ LocalOK /\ LocalsFresh
  BY DEF AnalysisOK, FreshOK
<1>2. q \in Present
  BY DEF GetCachedDependency, GetDependency
<1>3. PICK r : answer' = [kind |-> "local", query |-> q, results |-> {r}]
               /\ r \in {LocalTruth(q), Unknown}
  <2>1. CASE GetCachedDependency(q)
    <3>1. answer' = [kind |-> "local", query |-> q, results |-> {Cached(q)}] /\ ~IsDirty(Cached(q))
      BY <2>1 DEF GetCachedDependency, Answer
    <3>2. q \in DOMAIN localDeps /\ Cached(q) = localDeps[q]
      BY <3>1 DEF Cached, IsDirty, GetDirty
    <3>3. LocalFits(q, Cached(q))
      BY <1>1, <3>2 DEF LocalsFresh
    <3> QED BY <1>1, <1>2, <3>1, <3>3, FittingLocalIsTrue
  <2>2. CASE GetDependency(q)
    <3>1. PICK dep : dep = LocalDependency(q, ScanPos(q) - 1)
      OBVIOUS
    <3>2. answer' = [kind |-> "local", query |-> q, results |-> {dep}] /\ IsDirty(Cached(q))
      BY <2>2, <3>1 DEF GetDependency, Answer
    <3>3. LocalFits(q, dep) /\ ~IsDirty(dep)
      BY <1>1, <1>2, <3>1, <3>2, LocalDependencyFits
    <3> QED BY <1>1, <1>2, <3>2, <3>3, FittingLocalIsTrue
  <2> QED BY <2>1, <2>2
<1>4. /\ answer'.kind = "local" /\ answer'.query = q /\ answer'.results = {r}
  BY <1>3
<1> QED BY <1>3, <1>4, SameScans DEF Queries!Right

\* The results of a call that has none that is dirty.
LEMMA FreshCallRight ==
    ASSUME FunctionOK, NEW q \in Present, NEW info \in Seq(Entries),
           InfoFresh(q, info), ~AnyDirty(info), Covers(BlocksOf(info), q, info)
    PROVE  Queries!RightForCall(q, ToSet(info))
<1>1. ASSUME NEW e \in ToSet(info)
      PROVE  e.result \in {CallSiteTruth(q, e.bb, Len(insts[e.bb])), Unknown}
  <2>1. PICK b \in Blocks : b = e.bb
    BY CacheFields, EntryFields
  <2>2. PICK n \in 0..Len(insts[b]) : n = Len(insts[b])
    BY BlockSequence
  <2>3. Fits(insts[b], AtStart(b), n, CallDecisions(q), e.result) /\ ~IsDirty(e.result)
    BY <2>1, <2>2 DEF InfoFresh, EntryFits, AnyDirty
  <2>4. e.result \in {Unknown, Unlimited(b, n, AsCallSite(q, b))}
    BY <2>3, CallDecides, FittingIsTrue
  <2> QED BY <2>1, <2>2, <2>4 DEF CallSiteTruth
<1> QED BY <1>1, SameScans DEF Queries!RightForCall, Covers, BlocksOf

\* So is a cache of a call that is returned as it is,
LEMMA CallAnswerRight ==
    ASSUME AnalysisOK, FreshOK, NEW q, GetCachedCallDependency(q)
    PROVE  Queries!Right(answer')
<1>1. FunctionOK /\ CallsOK /\ CallsFresh
  BY DEF AnalysisOK, FreshOK
<1>2. PICK info : info = CallInfo(q).info
  OBVIOUS
<1>3. /\ q \in Present /\ info # <<>> /\ ~CallInfo(q).dirty /\ pc = "idle"
      /\ answer' = [kind |-> "call", query |-> q, results |-> ToSet(info)]
  BY <1>2 DEF GetCachedCallDependency, CallQuery, Answer, Idle
<1>4. q \in DOMAIN nonLocalDeps /\ CallInfo(q) = nonLocalDeps[q]
  BY <1>2, <1>3 DEF CallInfo, NoInfo
<1>5. info \in Seq(Entries) /\ InfoFresh(q, info) /\ ~AnyDirty(info) /\ Covers(BlocksOf(info), q, info)
  BY <1>1, <1>2, <1>3, <1>4 DEF CallsFresh, CallFresh, CallsOK, CallCachesOK
<1>6. Queries!RightForCall(q, ToSet(info))
  BY <1>1, <1>3, <1>5, FreshCallRight
<1> QED BY <1>3, <1>6 DEF Queries!Right

\* and what the query of a call has found when its worklist is empty.
LEMMA EndCallRight ==
    ASSUME AnalysisOK, FreshOK, EndCallQuery
    PROVE  Queries!Right(answer')
<1>1. FunctionOK /\ CallsOK /\ CallsFresh /\ JobFresh
  BY DEF AnalysisOK, FreshOK
<1>2. PICK q, info : q = job.query /\ info = JobInfo
  OBVIOUS
<1>3. /\ pc = "call" /\ job.dirtyBlocks = <<>>
      /\ answer' = [kind |-> "call", query |-> q, results |-> ToSet(info)]
  BY <1>2 DEF EndCallQuery, InCall, Answer
<1>4. q \in DOMAIN nonLocalDeps /\ q \in Present /\ info \in Seq(Entries) /\ InfoFresh(q, info)
  BY <1>1, <1>2, <1>3 DEF CallsOK, CallCachesOK, JobOK, JobInfo, CallsFresh, CallFresh
<1>5. ToSet(job.dirtyBlocks) = {}
  BY <1>3 DEF ToSet
<1>6. ~AnyDirty(info) /\ Covers(BlocksOf(info), q, info)
  BY <1>1, <1>2, <1>3, <1>5 DEF JobFresh, AnyDirty
<1>7. Queries!RightForCall(q, ToSet(info))
  BY <1>1, <1>4, <1>6, FreshCallRight
<1> QED BY <1>3, <1>7 DEF Queries!Right

\* Only the end of a query changes the answer, and only a removal the function.
LEMMA StepsOfAnswers ==
    Next => \/ UNCHANGED <<fn, insts, answer>>
            \/ \E q \in fn.queries : GetCachedDependency(q) \/ GetDependency(q)
            \/ \E q \in fn.queries : GetCachedCallDependency(q)
            \/ EndCallQuery \/ EndPointerQuery
            \/ \E i \in fn.removable : RemoveInstruction(i)
<1>1. ASSUME NEW q, GetNonLocalCallDependency(q)
      PROVE  UNCHANGED <<fn, insts, answer>>
  BY <1>1 DEF GetNonLocalCallDependency
<1>2. ASSUME NEW query, AskPointer(query)
      PROVE  UNCHANGED <<fn, insts, answer>>
  BY <1>2 DEF AskPointer
<1>3. ASSUME NEW p, InvalidateCachedPointerInfo(p)
      PROVE  UNCHANGED <<fn, insts, answer>>
  BY <1>3 DEF InvalidateCachedPointerInfo
<1>4. ReleaseMemory \/ SkipDirtyBlock \/ ScanDirtyBlock => UNCHANGED <<fn, insts, answer>>
  BY DEF ReleaseMemory, SkipDirtyBlock, ScanDirtyBlock
<1>5. ThrowOutSmaller \/ RestartWithSize \/ ThrowOutTagged \/ RestartWithoutTag
         => UNCHANGED <<fn, insts, answer>>
  BY DEF ThrowOutSmaller, RestartWithSize, ThrowOutTagged, RestartWithoutTag
<1>6. ReturnCached \/ ReturnConflict \/ Begin \/ Lookup \/ SkipFirstBlock
         => UNCHANGED <<fn, insts, answer>>
  BY DEF ReturnCached, ReturnConflict, Begin, Lookup, SkipFirstBlock
<1>7. PassUntranslated \/ PassTranslated \/ UnknownPred \/ Recurse \/ PredsDone
         => UNCHANGED <<fn, insts, answer>>
  BY DEF PassUntranslated, PassTranslated, UnknownPred, Recurse, PredsDone
<1>8. TranslationFailsAtFirst \/ TranslationFails \/ Return => UNCHANGED <<fn, insts, answer>>
  BY DEF TranslationFailsAtFirst, TranslationFails, Return
<1>9. RequestFails \/ StepFails => UNCHANGED <<fn, insts, answer>>
  BY DEF RequestFails, StepFails, Fail
<1> QED BY <1>1, <1>2, <1>3, <1>4, <1>5, <1>6, <1>7, <1>8, <1>9
        DEF Next, Client, CallStep, PointerStep

\* A step of a fresh analysis is one of the abstract specification.
LEMMA StepImplements ==
    AnalysisOK /\ FreshOK /\ [Next]_vars
       => [Queries!Next]_(Queries!avars) \/ EndPointerQuery
<1> SUFFICES ASSUME AnalysisOK, FreshOK, [Next]_vars
             PROVE  [Queries!Next]_(Queries!avars) \/ EndPointerQuery
  OBVIOUS
<1>1. UNCHANGED <<fn, insts, answer>> => UNCHANGED Queries!avars
  BY DEF Queries!avars
<1>2. ASSUME UNCHANGED <<fn, insts>>, Queries!Right(answer')
      PROVE  [Queries!Next]_(Queries!avars)
  BY <1>1, <1>2 DEF Queries!Next, Queries!Ask
<1>3. ASSUME NEW q, GetCachedDependency(q) \/ GetDependency(q)
      PROVE  [Queries!Next]_(Queries!avars)
  <2>1. UNCHANGED <<fn, insts>>
    BY <1>3 DEF GetCachedDependency, GetDependency
  <2> QED BY <1>2, <1>3, <2>1, LocalAnswerRight
<1>4. ASSUME NEW q, GetCachedCallDependency(q)
      PROVE  [Queries!Next]_(Queries!avars)
  <2>1. UNCHANGED <<fn, insts>>
    BY <1>4 DEF GetCachedCallDependency
  <2> QED BY <1>2, <1>4, <2>1, CallAnswerRight
<1>5. CASE EndCallQuery
  <2>1. UNCHANGED <<fn, insts>>
    BY <1>5 DEF EndCallQuery
  <2> QED BY <1>2, <1>5, <2>1, EndCallRight
<1>6. ASSUME NEW i, RemoveInstruction(i)
      PROVE  [Queries!Next]_(Queries!avars)
  <2>1. /\ i \in Present /\ UNCHANGED <<fn, answer>>
        /\ insts' = [insts EXCEPT ![BlockOf(i)] = RemoveAt(@, PositionOf(i))]
    BY <1>6 DEF RemoveInstruction, Removable
  <2>2. Queries!RemoveInstruction
    BY <2>1, SameScans DEF Queries!RemoveInstruction
  <2> QED BY <2>2 DEF Queries!Next
<1>7. UNCHANGED vars => UNCHANGED <<fn, insts, answer>>
  BY DEF vars
<1> QED BY <1>1, <1>3, <1>4, <1>5, <1>6, <1>7, StepsOfAnswers

\* The caches of local queries and of calls are not seen: the analysis starts as
\* the abstract specification DependenceQueries does, and each of its steps is one
\* that it allows or a stutter, so that getDependency and getNonLocalCallDependency
\* answer what is right for the instructions that are there now; all but the step
\* that ends the query of a pointer (getNonLocalPointerDependency), of which
\* AnswersRight says the same.
THEOREM StepsImplementQueries ==
    Spec => Queries!Init /\ [][[Queries!Next]_(Queries!avars) \/ EndPointerQuery]_vars
<1>1. Init => Queries!Init
  BY DEF Init, Queries!Init
<1>2. Spec => []AnalysisOK /\ []FreshOK
  BY AnalysisStaysOK, CachesStayFresh
<1> QED BY <1>1, <1>2, StepImplements, PTL DEF Spec

(***************************************************************************)
(* The caches of pointers (lines 1026 to 1393) while a query runs. A call that*)
(* has blocks to look at relies on its cache: that it is still there, and for*)
(* the size and the tag it asks with, although the calls it makes in between*)
(* can throw the caches of other sizes out. What keeps the cache there is an*)
(* entry that is in no reverse map (NonLocal, or unknown): throwing a cache*)
(* out takes each of its entries out of that map, where it must be (lines 1069*)
(* to 1072).                                                               *)
(***************************************************************************)

\* The cache of a call is for the size and the tag of its location.
FrameKey(f) == [ptr |-> f.loc.ptr, isLoad |-> f.isLoad]
Settled(f) ==
    /\ FrameKey(f) \in DOMAIN nonLocalPointerDeps
    /\ nonLocalPointerDeps[FrameKey(f)].size = f.loc.size
    /\ nonLocalPointerDeps[FrameKey(f)].tag = f.loc.tag

\* The cache of a call has an entry that keeps it from being thrown out.
Pins(deps) == \E e \in ToSet(deps) : e.result \in {NonLocal, Unknown}
Pinned(f) == Pins(nonLocalPointerDeps[FrameKey(f)].deps)

\* What a call of getNonLocalPointerDepFromBB relies on while it has blocks left.
FrameFresh(f) ==
    /\ f.mode = "loop" => f.work = <<>> \/ Settled(f)
    /\ f.mode = "pass" => Settled(f) /\ (f.skip \/ Pinned(f))
    /\ f.mode = "preds" => f.work = <<>> \/ (Settled(f) /\ Pinned(f))
StackFresh == \A n \in 1..Len(stack) : FrameFresh(stack[n])

\* An entry of a cache of pointers fits the instructions of its block: a clean one
\* is what a scan of the block finds, a dirty one where such a scan may resume.
LocOf(k, info) == [ptr |-> k.ptr, size |-> info.size, tag |-> info.tag]
PointerFits(loc, isLoad, e) ==
    Fits(insts[e.bb], AtStart(e.bb), Len(insts[e.bb]), PointerDecisions(loc, isLoad, FALSE), e.result)
PointerFresh(k, info) == \A e \in ToSet(info.deps) : PointerFits(LocOf(k, info), k.isLoad, e)
PointersFresh == \A k \in DOMAIN nonLocalPointerDeps : PointerFresh(k, nonLocalPointerDeps[k])

\* The inductive invariant of the caches of pointers, where every block can be reached.
Running == StackFresh /\ PointersFresh
PointerInv == AllReached => Running

\* Each cache is still there, for the same size and tag, and with what keeps it there.
Keeps(new, old) ==
    /\ new.size = old.size /\ new.tag = old.tag
    /\ Pins(old.deps) => Pins(new.deps)
CachesStay ==
    \A k \in DOMAIN nonLocalPointerDeps :
        k \in DOMAIN nonLocalPointerDeps' /\ Keeps(nonLocalPointerDeps'[k], nonLocalPointerDeps[k])

\* A call relies on nothing that a step that keeps its cache takes away.
LEMMA FrameKept ==
    ASSUME NEW f, FrameFresh(f),
           FrameKey(f) \in DOMAIN nonLocalPointerDeps =>
              /\ FrameKey(f) \in DOMAIN nonLocalPointerDeps'
              /\ Keeps(nonLocalPointerDeps'[FrameKey(f)], nonLocalPointerDeps[FrameKey(f)])
    PROVE  FrameFresh(f)'
<1>1. Settled(f) => Settled(f)' /\ (Pinned(f) => Pinned(f)')
  BY DEF Settled, Keeps, Pinned, FrameKey, Pins, NonLocal, Unknown
<1> QED BY <1>1 DEF FrameFresh

\* Where the caches stay, only the calls that the step changes are to be looked at.
LEMMA StackKept ==
    ASSUME StackFresh, CachesStay, NEW S, \A f \in S : FrameFresh(f)',
           \A n \in 1..Len(stack') : \/ stack'[n] \in S
                                     \/ \E m \in 1..Len(stack) : stack'[n] = stack[m]
    PROVE  StackFresh'
<1> SUFFICES ASSUME NEW n \in 1..Len(stack')
             PROVE  FrameFresh(stack[n])'
  BY DEF StackFresh
<1>1. PICK f : f = stack'[n]
  OBVIOUS
<1>2. CASE f \in S
  BY <1>1, <1>2
<1>3. CASE f \notin S
  <2>1. PICK m \in 1..Len(stack) : f = stack[m]
    BY <1>1, <1>3
  <2>2. FrameFresh(f)
    BY <2>1 DEF StackFresh
  <2>3. FrameFresh(f)'
    BY <2>2, FrameKept DEF CachesStay
  <2> QED BY <1>1, <2>3
<1> QED BY <1>2, <1>3

\* The calls on the stack after one more call, one call replaced or one returned.
LEMMA StackPositions ==
    ASSUME FunctionOK, StackOK, stack # <<>>
    PROVE  /\ \A n \in 1..Len(Tail(stack)) : \E m \in 2..Len(stack) : Tail(stack)[n] = stack[m]
           /\ \A g : \A n \in 1..Len(<<g>> \o Tail(stack)) :
                 \/ (<<g>> \o Tail(stack))[n] = g
                 \/ \E m \in 2..Len(stack) : (<<g>> \o Tail(stack))[n] = stack[m]
           /\ \A g, h : \A n \in 1..Len(<<g, h>> \o Tail(stack)) :
                 \/ (<<g, h>> \o Tail(stack))[n] \in {g, h}
                 \/ \E m \in 2..Len(stack) : (<<g, h>> \o Tail(stack))[n] = stack[m]
<1>1. PICK tail : tail = Tail(stack)
  OBVIOUS
<1>2. /\ Len(stack) \in Nat \ {0}
      /\ tail \in Seq(Frames) /\ Len(tail) = Len(stack) - 1
      /\ \A n \in 1..Len(stack) - 1 : tail[n] = stack[n + 1]
  BY <1>1, TopFrame
<1>3. \A n \in 1..Len(tail) : \E m \in 2..Len(stack) : tail[n] = stack[m]
  <2> SUFFICES ASSUME NEW n \in 1..Len(tail)
               PROVE  \E m \in 2..Len(stack) : tail[n] = stack[m]
    OBVIOUS
  <2>1. n + 1 \in 2..Len(stack) /\ tail[n] = stack[n + 1]
    BY <1>2
  <2> QED BY <2>1
<1>4. ASSUME NEW g, NEW n \in 1..Len(<<g>> \o tail)
      PROVE  (<<g>> \o tail)[n] = g \/ \E m \in 2..Len(stack) : (<<g>> \o tail)[n] = stack[m]
  <2>1. <<g>> \in Seq({g}) /\ Len(<<g>>) = 1 /\ <<g>>[1] = g
    OBVIOUS
  <2>2. /\ Len(<<g>> \o tail) = 1 + Len(tail)
        /\ \A i \in 1..1 + Len(tail) : (<<g>> \o tail)[i] = IF i <= 1 THEN <<g>>[i] ELSE tail[i - 1]
    BY <1>2, <2>1, ConcatProperties
  <2>3. CASE n = 1
    BY <1>2, <2>1, <2>2, <2>3
  <2>4. CASE n # 1
    <3>1. n - 1 \in 1..Len(tail) /\ n \in 1..1 + Len(tail) /\ ~(n <= 1)
      BY <1>2, <2>2, <2>4
    <3> QED BY <1>3, <2>2, <3>1
  <2> QED BY <2>3, <2>4
<1>5. ASSUME NEW g, NEW h, NEW n \in 1..Len(<<g, h>> \o tail)
      PROVE  (<<g, h>> \o tail)[n] \in {g, h} \/ \E m \in 2..Len(stack) : (<<g, h>> \o tail)[n] = stack[m]
  <2>1. <<g, h>> \in Seq({g, h}) /\ Len(<<g, h>>) = 2 /\ <<g, h>>[1] = g /\ <<g, h>>[2] = h
    OBVIOUS
  <2>2. /\ Len(<<g, h>> \o tail) = 2 + Len(tail)
        /\ \A i \in 1..2 + Len(tail) : (<<g, h>> \o tail)[i] = IF i <= 2 THEN <<g, h>>[i] ELSE tail[i - 2]
    BY <1>2, <2>1, ConcatProperties
  <2>3. CASE n \in {1, 2}
    BY <1>2, <2>1, <2>2, <2>3
  <2>4. CASE n \notin {1, 2}
    <3>1. n - 2 \in 1..Len(tail) /\ n \in 1..2 + Len(tail) /\ ~(n <= 2)
      BY <1>2, <2>2, <2>4
    <3> QED BY <1>3, <2>2, <3>1
  <2> QED BY <2>3, <2>4
<1> QED BY <1>1, <1>3, <1>4, <1>5

\* The running call goes on as another frame, and the caches stay.
LEMMA BecomesFresh ==
    ASSUME FunctionOK, StackOK, stack # <<>>, StackFresh, CachesStay,
           NEW g \in Frames, Become(g), FrameFresh(g)'
    PROVE  StackFresh'
<1>1. Len(stack) \in Nat
  BY TopFrame
<1>2. PICK S : S = {g}
  OBVIOUS
<1>3. \A n \in 1..Len(stack') : stack'[n] \in S \/ \E m \in 1..Len(stack) : stack'[n] = stack[m]
  <2>1. \A m \in 2..Len(stack) : m \in 1..Len(stack)
    BY <1>1
  <2> QED BY <1>2, <2>1, StackPositions DEF Become
<1>4. \A f \in S : FrameFresh(f)'
  BY <1>2
<1> QED BY <1>3, <1>4, StackKept

\* The running call returns, and the caches stay.
LEMMA ReturnsFresh ==
    ASSUME FunctionOK, StackOK, stack # <<>>, StackFresh, CachesStay, stack' = Tail(stack)
    PROVE  StackFresh'
<1>1. Len(stack) \in Nat
  BY TopFrame
<1>2. PICK S : S = {}
  OBVIOUS
<1>3. \A n \in 1..Len(stack') : stack'[n] \in S \/ \E m \in 1..Len(stack) : stack'[n] = stack[m]
  <2>1. \A m \in 2..Len(stack) : m \in 1..Len(stack)
    BY <1>1
  <2> QED BY <2>1, StackPositions
<1>4. \A f \in S : FrameFresh(f)'
  BY <1>2
<1> QED BY <1>3, <1>4, StackKept

\* What is kept fits for the instructions that are there, which stay.
LEMMA SamePointerFits ==
    ASSUME UNCHANGED <<fn, insts>>
    PROVE  /\ \A loc, isLoad, e : PointerFits(loc, isLoad, e)' <=> PointerFits(loc, isLoad, e)
           /\ AllReached' <=> AllReached
<1>1. \A loc, isLoad, e : PointerFits(loc, isLoad, e)' <=> PointerFits(loc, isLoad, e)
  BY SameDecisions DEF PointerFits
<1>2. AllReached' <=> AllReached
  BY SameFunction DEF AllReached
<1> QED BY <1>1, <1>2

\* A step that keeps the results of the cache of the pointer, or adds what fits.
LEMMA CacheChanges ==
    ASSUME FunctionOK, CachesOK, StackOK, stack # <<>>, PointersFresh, UNCHANGED <<fn, insts>>,
           DOMAIN nonLocalPointerDeps' = DOMAIN nonLocalPointerDeps \union {Key},
           \A k \in DOMAIN nonLocalPointerDeps \ {Key} :
              /\ nonLocalPointerDeps'[k].deps = nonLocalPointerDeps[k].deps
              /\ nonLocalPointerDeps'[k].size = nonLocalPointerDeps[k].size
              /\ nonLocalPointerDeps'[k].tag = nonLocalPointerDeps[k].tag,
           NEW new, nonLocalPointerDeps'[Key].deps = new,
           nonLocalPointerDeps'[Key].size = Info.size, nonLocalPointerDeps'[Key].tag = Info.tag,
           Pins(Deps) => Pins(new),
           \A e \in ToSet(new) : e \in ToSet(Deps) \/ PointerFits(LocOf(Key, Info), Key.isLoad, e)
    PROVE  CachesStay /\ PointersFresh'
<1>1. /\ Key \in DOMAIN nonLocalPointerDeps => Info = nonLocalPointerDeps[Key] /\ Deps = Info.deps
      /\ Key \notin DOMAIN nonLocalPointerDeps => Deps = <<>>
  BY TopInfo
<1>2. CachesStay
  <2>1. ASSUME NEW k \in DOMAIN nonLocalPointerDeps
        PROVE  Keeps(nonLocalPointerDeps'[k], nonLocalPointerDeps[k])
    BY <1>1 DEF Keeps
  <2> QED BY <2>1 DEF CachesStay
<1>3. ToSet(<<>>) = {}
  BY DEF ToSet
<1>4. ASSUME NEW k \in DOMAIN nonLocalPointerDeps', NEW e \in ToSet(nonLocalPointerDeps'[k].deps)
      PROVE  PointerFits(LocOf(k, nonLocalPointerDeps'[k]), k.isLoad, e)
  <2>1. CASE k # Key
    BY <1>4, <2>1 DEF PointersFresh, PointerFresh, LocOf
  <2>2. CASE k = Key
    <3>1. LocOf(k, nonLocalPointerDeps'[k]) = LocOf(Key, Info)
      BY <2>2 DEF LocOf
    <3>2. CASE e \in ToSet(Deps)
      BY <1>1, <1>3, <2>2, <3>1, <3>2 DEF PointersFresh, PointerFresh
    <3> QED BY <1>4, <2>2, <3>1, <3>2
  <2> QED BY <2>1, <2>2
<1>5. PointersFresh'
  <2>1. PICK now : now = nonLocalPointerDeps'
    OBVIOUS
  <2>2. \A k \in DOMAIN now : \A e \in ToSet(now[k].deps) : PointerFits(LocOf(k, now[k]), k.isLoad, e)'
    BY <1>4, <2>1, SamePointerFits
  <2> QED BY <2>1, <2>2 DEF PointersFresh, PointerFresh, LocOf
<1> QED BY <1>2, <1>5

\* A step that changes no entry, size or tag of a cache.
LEMMA CachesSame ==
    ASSUME PointersFresh, UNCHANGED <<fn, insts>>,
           DOMAIN nonLocalPointerDeps' = DOMAIN nonLocalPointerDeps,
           \A k \in DOMAIN nonLocalPointerDeps :
              /\ nonLocalPointerDeps'[k].deps = nonLocalPointerDeps[k].deps
              /\ nonLocalPointerDeps'[k].size = nonLocalPointerDeps[k].size
              /\ nonLocalPointerDeps'[k].tag = nonLocalPointerDeps[k].tag
    PROVE  CachesStay /\ PointersFresh'
<1>1. CachesStay
  BY DEF CachesStay, Keeps
<1>2. \A k \in DOMAIN nonLocalPointerDeps' : \A e \in ToSet(nonLocalPointerDeps'[k].deps) :
         PointerFits(LocOf(k, nonLocalPointerDeps'[k]), k.isLoad, e)
  BY DEF PointersFresh, PointerFresh, LocOf
<1>3. PICK now : now = nonLocalPointerDeps'
  OBVIOUS
<1>4. PointersFresh'
  <2>1. \A k \in DOMAIN now : \A e \in ToSet(now[k].deps) : PointerFits(LocOf(k, now[k]), k.isLoad, e)'
    BY <1>2, <1>3, SamePointerFits
  <2> QED BY <1>3, <2>1 DEF PointersFresh, PointerFresh, LocOf
<1> QED BY <1>1, <1>4

\* Resetting the block and the flag of a cache changes no entry (lines 1325 to 1332).
LEMMA UnpairedSame ==
    ASSUME NEW f, NEW keys, \A k \in DOMAIN f : f[k] \in Infos
    PROVE  /\ DOMAIN Unpaired(f, keys) = DOMAIN f
           /\ \A k \in DOMAIN f : /\ Unpaired(f, keys)[k].deps = f[k].deps
                                  /\ Unpaired(f, keys)[k].size = f[k].size
                                  /\ Unpaired(f, keys)[k].tag = f[k].tag
<1>1. \A k \in DOMAIN f : LET u == [f[k] EXCEPT !.pair = NoPair]
                          IN  u.deps = f[k].deps /\ u.size = f[k].size /\ u.tag = f[k].tag
  BY DEF Infos
<1> QED BY <1>1 DEF Unpaired

\* A cache that is thrown out has no entry that keeps it there: the calls below
\* that have its pointer have no more blocks to look at.
LEMMA NotPinned ==
    ASSUME FunctionOK, CachesOK, StackOK, stack # <<>>,
           AllInSync(reverseNonLocalPtrDeps, Info.deps, Key)
    PROVE  ~Pins(Deps)
<1> SUFFICES ASSUME Pins(Deps)
             PROVE  FALSE
  OBVIOUS
<1>1. Deps \in Seq(Entries) /\ Deps = Info.deps
  BY TopInfo
<1>2. PICK n \in 1..Len(Deps) : Deps[n].result \in {NonLocal, Unknown} /\ n \in DOMAIN Deps
  BY <1>1, CacheFields DEF Pins
<1>3. GetInst(Deps[n].result) \in NoInstructions /\ GetInst(Deps[n].result) # Null
  BY <1>2, FunctionsAssumption DEF NonLocal, Unknown, GetInst, NoInstructions
<1>4. n \in Linked(Deps)
  BY <1>2, <1>3 DEF Linked
<1>5. <<GetInst(Deps[n].result), Key>> \in reverseNonLocalPtrDeps
  BY <1>1, <1>3, <1>4 DEF AllInSync, InSync, Link
<1>6. GetInst(Deps[n].result) \in Present
  BY <1>5 DEF CachesOK, PointersMirrored
<1> QED BY <1>3, <1>6, PlacesOfPresent DEF Placed

\* The results for a smaller size, or for a tag, are thrown out (lines 1064 to 1101):
\* no call below has blocks to look at in this cache, which would have kept it there.
LEMMA ThrowOutFresh ==
    ASSUME FunctionOK, PointersOK, Running, ThrowOutSmaller \/ ThrowOutTagged
    PROVE  Running'
<1>1. /\ CachesOK /\ StackOK /\ stack # <<>> /\ Top.mode = "enter" /\ StackFresh /\ PointersFresh
      /\ UNCHANGED <<fn, insts, stack>>
  BY DEF ThrowOutSmaller, ThrowOutTagged, In, running, PointersOK, Running
<1>2. Info \in Infos /\ Top.loc.size \in fn.sizes
  BY <1>1, TopInfo, TopFrame DEF Frames
<1>3. PICK info \in Infos : ThrowOut(info)
  <2>1. [Info EXCEPT !.size = Top.loc.size] \in Infos /\ [Info EXCEPT !.tag = Null] \in Infos
    BY <1>2 DEF Infos, Tags
  <2> QED BY <2>1 DEF ThrowOutSmaller, ThrowOutTagged
<1>4. AllInSync(reverseNonLocalPtrDeps, Info.deps, Key)
  BY <1>3 DEF ThrowOut
<1>5. /\ DOMAIN nonLocalPointerDeps' = DOMAIN nonLocalPointerDeps \union {Key}
      /\ nonLocalPointerDeps'[Key].deps = <<>>
      /\ \A k \in DOMAIN nonLocalPointerDeps \ {Key} :
            nonLocalPointerDeps'[k] = nonLocalPointerDeps[k]
  BY <1>1, <1>3, ThrowOutCaches
<1>6. PointersFresh'
  <2>1. PICK now : now = nonLocalPointerDeps'
    OBVIOUS
  <2>2. ToSet(<<>>) = {}
    BY DEF ToSet
  <2>3. \A k \in DOMAIN now : \A e \in ToSet(now[k].deps) : PointerFits(LocOf(k, now[k]), k.isLoad, e)
    BY <1>1, <1>5, <2>1, <2>2 DEF PointersFresh, PointerFresh
  <2>4. \A k \in DOMAIN now : \A e \in ToSet(now[k].deps) : PointerFits(LocOf(k, now[k]), k.isLoad, e)'
    BY <1>1, <2>3, SamePointerFits
  <2> QED BY <2>1, <2>4 DEF PointersFresh, PointerFresh, LocOf
<1>7. StackFresh'
  <2> SUFFICES ASSUME NEW n \in 1..Len(stack)
               PROVE  FrameFresh(stack[n])'
    BY <1>1 DEF StackFresh
  <2>1. PICK f : f = stack[n]
    OBVIOUS
  <2>2. FrameFresh(f)
    BY <1>1, <2>1 DEF StackFresh
  <2>3. CASE FrameKey(f) # Key
    <3>1. FrameFresh(f)'
      BY <1>5, <2>2, <2>3, FrameKept DEF Keeps
    <3> QED BY <1>1, <2>1, <3>1
  <2>4. CASE FrameKey(f) = Key
    <3>1. f.mode = "enter" \/ f.mode = "preds"
      <4>1. n = 1 \/ n \in 2..Len(stack)
        BY <1>1, TopFrame
      <4>2. Top = stack[1]
        BY <1>1, TopFrame
      <4> QED BY <1>1, <2>1, <4>1, <4>2 DEF StackOK
    <3>2. ~(Settled(f) /\ Pinned(f))
      <4>1. ~Pins(Deps)
        BY <1>1, <1>4, NotPinned
      <4>2. Key \in DOMAIN nonLocalPointerDeps => Deps = nonLocalPointerDeps[Key].deps
        BY <1>1, TopInfo
      <4> QED BY <2>4, <4>1, <4>2 DEF Settled, Pinned
    <3>3. FrameFresh(f)'
      BY <2>2, <3>1, <3>2 DEF FrameFresh
    <3> QED BY <1>1, <2>1, <3>3
  <2> QED BY <2>3, <2>4
<1> QED BY <1>6, <1>7 DEF Running

\* Steps that leave the caches alone.
LEMMA CachesUnchangedFresh ==
    ASSUME PointersFresh, UNCHANGED <<fn, insts, nonLocalPointerDeps>>
    PROVE  CachesStay /\ PointersFresh'
<1>1. \A k \in DOMAIN nonLocalPointerDeps : nonLocalPointerDeps'[k] = nonLocalPointerDeps[k]
  OBVIOUS
<1> QED BY <1>1, CachesSame

\* A call that has not begun relies on no cache.
LEMMA EnteringFresh ==
    ASSUME NEW f, f.mode = "enter"
    PROVE  FrameFresh(f)'
BY DEF FrameFresh

\* The query is asked anew with the size, or without the tag, of the cache (1075 to 1101).
LEMMA RestartFresh ==
    ASSUME FunctionOK, PointersOK, Running, RestartWithSize \/ RestartWithoutTag
    PROVE  Running'
<1>1. /\ StackOK /\ stack # <<>> /\ Top.mode = "enter" /\ StackFresh /\ PointersFresh
      /\ UNCHANGED <<fn, insts, nonLocalPointerDeps>>
  BY DEF RestartWithSize, RestartWithoutTag, In, caches, PointersOK, Running
<1>2. Top \in Frames /\ Info.size \in fn.sizes
  BY <1>1, TopFrame, TopInfo DEF PointersOK
<1>3. PICK g \in Frames : Become(g) /\ g.mode = "enter"
  <2>1. Null \in Tags
    BY DEF Tags
  <2>2. /\ [Top EXCEPT !.loc.size = Info.size] \in Frames
        /\ [Top EXCEPT !.loc.size = Info.size].mode = "enter"
        /\ [Top EXCEPT !.loc.tag = Null] \in Frames
        /\ [Top EXCEPT !.loc.tag = Null].mode = "enter"
    BY <1>1, <1>2, <2>1 DEF Frames
  <2> QED BY <2>2 DEF RestartWithSize, RestartWithoutTag
<1>4. CachesStay /\ PointersFresh'
  BY <1>1, CachesUnchangedFresh
<1>5. FrameFresh(g)'
  BY <1>3, EnteringFresh
<1>6. StackFresh'
  BY <1>1, <1>3, <1>4, <1>5, BecomesFresh
<1> QED BY <1>4, <1>6 DEF Running

\* Resetting the blocks and flags of caches changes no entry.
LEMMA UnpairedFresh ==
    ASSUME FunctionOK, CachesOK, PointersFresh, UNCHANGED <<fn, insts>>,
           NEW keys, nonLocalPointerDeps' = Unpaired(nonLocalPointerDeps, keys)
    PROVE  /\ CachesStay /\ PointersFresh'
           /\ DOMAIN nonLocalPointerDeps' = DOMAIN nonLocalPointerDeps
<1>1. \A k \in DOMAIN nonLocalPointerDeps : nonLocalPointerDeps[k] \in Infos
  BY DEF CachesOK, PointerCachesOK
<1>2. /\ DOMAIN nonLocalPointerDeps' = DOMAIN nonLocalPointerDeps
      /\ \A k \in DOMAIN nonLocalPointerDeps :
            /\ nonLocalPointerDeps'[k].deps = nonLocalPointerDeps[k].deps
            /\ nonLocalPointerDeps'[k].size = nonLocalPointerDeps[k].size
            /\ nonLocalPointerDeps'[k].tag = nonLocalPointerDeps[k].tag
  BY <1>1, UnpairedSame
<1> QED BY <1>2, CachesSame

\* A call that finds its answers in a complete cache, or a block seen with another pointer.
LEMMA ReturnsAtOnceFresh ==
    ASSUME FunctionOK, PointersOK, Running, ReturnCached \/ ReturnConflict
    PROVE  Running'
<1>1. /\ CachesOK /\ StackOK /\ stack # <<>> /\ StackFresh /\ PointersFresh
      /\ UNCHANGED <<fn, insts>> /\ stack' = Tail(stack)
      /\ nonLocalPointerDeps' = nonLocalPointerDeps
         \/ nonLocalPointerDeps' = Unpaired(nonLocalPointerDeps, CallerKeys)
  BY DEF ReturnCached, ReturnConflict, ReturnUnknown, In, caches, PointersOK, Running
<1>2. CachesStay /\ PointersFresh'
  BY <1>1, CachesUnchangedFresh, UnpairedFresh
<1>3. StackFresh'
  BY <1>1, <1>2, ReturnsFresh
<1> QED BY <1>2, <1>3 DEF Running

\* Where a call begins its cache is for its own size and tag.
LEMMA BeginFresh ==
    ASSUME FunctionOK, PointersOK, Running, Begin
    PROVE  Running'
<1>0. PICK g : g = [Top EXCEPT !.mode = "loop", !.work = <<Top.start>>, !.sorted = Len(Deps)]
  OBVIOUS
<1> DEFINE info == [Info EXCEPT !.pair = IF Deps = <<>> THEN [bb |-> Top.start, skip |-> Top.skip]
                                         ELSE NoPair]
<1>1. /\ CachesOK /\ StackOK /\ stack # <<>> /\ Top.mode = "enter" /\ StackFresh /\ PointersFresh
      /\ UNCHANGED <<fn, insts>>
      /\ SetInfo(info) /\ Become(g) /\ Consistent
  BY <1>0 DEF Begin, In, Deps, PointersOK, Running
<1>2. Top \in Frames /\ Key = FrameKey(Top) /\ Len(Deps) \in Nat
  BY <1>1, TopFrame, TopInfo DEF Key, FrameKey
<1>3. Info \in Infos
  BY <1>1, TopInfo
<1>4. info.deps = Deps /\ info.size = Info.size /\ info.tag = Info.tag
  BY <1>3 DEF Infos, Deps
<1> HIDE DEF info
<1>5. /\ DOMAIN nonLocalPointerDeps' = DOMAIN nonLocalPointerDeps \union {Key}
      /\ nonLocalPointerDeps'[Key] = info
      /\ \A k \in DOMAIN nonLocalPointerDeps \ {Key} :
            nonLocalPointerDeps'[k] = nonLocalPointerDeps[k]
  BY <1>1 DEF SetInfo, Put
<1>6. CachesStay /\ PointersFresh'
  BY <1>1, <1>4, <1>5, CacheChanges
<1>7. /\ g \in Frames /\ g.mode = "loop" /\ g.loc = Top.loc /\ g.isLoad = Top.isLoad
  <2>1. <<Top.start>> \in Seq(Blocks)
    BY <1>2 DEF Frames
  <2> QED BY <1>0, <1>2, <2>1 DEF Frames
<1>8. FrameFresh(g)'
  <2>1. FrameKey(g) = Key
    BY <1>2, <1>7 DEF FrameKey
  <2>2. Settled(g)'
    BY <1>1, <1>4, <1>5, <1>7, <2>1 DEF Settled, Consistent, FrameKey
  <2> QED BY <1>7, <2>2 DEF FrameFresh
<1>9. StackFresh'
  BY <1>1, <1>6, <1>7, <1>8, BecomesFresh
<1> QED BY <1>6, <1>9 DEF Running

\* The first block is skipped (lines 1174 to 1175): the cache is not touched.
LEMMA SkipFirstBlockFresh ==
    ASSUME FunctionOK, PointersOK, Running, SkipFirstBlock
    PROVE  Running'
<1>1. /\ StackOK /\ stack # <<>> /\ Top.mode = "loop" /\ Top.skip /\ Top.work # <<>>
      /\ StackFresh /\ PointersFresh
      /\ UNCHANGED <<fn, insts, nonLocalPointerDeps>>
  BY DEF SkipFirstBlock, In, caches, PointersOK, Running
<1>2. Top \in Frames /\ FrameFresh(Top)
  <2>1. Len(stack) \in Nat \ {0} /\ Top = stack[1] /\ Top \in Frames
    BY <1>1, TopFrame
  <2> QED BY <1>1, <2>1 DEF StackFresh
<1>3. PICK g : g = [Top EXCEPT !.mode = "pass", !.bb = Block, !.work = Front(@)]
  OBVIOUS
<1>4. Become(g)
  BY <1>3 DEF SkipFirstBlock
<1>5. /\ g.mode = "pass" /\ g.skip = Top.skip /\ g.loc = Top.loc /\ g.isLoad = Top.isLoad
  BY <1>2, <1>3 DEF Frames
<1>6. g \in Frames
  <2>1. Top.work \in Seq(Blocks)
    BY <1>2 DEF Frames
  <2>2. Front(Top.work) \in Seq(Blocks) /\ Block \in Blocks
    BY <1>1, <2>1, FrontProperties DEF Block
  <2> QED BY <1>2, <1>3, <2>2 DEF Frames
<1>7. FrameFresh(g)
  BY <1>1, <1>2, <1>5 DEF FrameFresh, Settled, FrameKey
<1>8. CachesStay /\ PointersFresh'
  BY <1>1, CachesUnchangedFresh
<1>9. FrameFresh(g)'
  BY <1>7, <1>8, FrameKept DEF CachesStay
<1>10. StackFresh'
  BY <1>1, <1>4, <1>6, <1>8, <1>9, BecomesFresh
<1> QED BY <1>8, <1>10 DEF Running

\* The scan of a block from where its dirty result lets it begin.
LEMMA ResumedScanFits ==
    ASSUME FunctionOK, NEW b \in Blocks, NEW on, \A k \in 1..Len(insts[b]) : on[insts[b][k]] # "Invalid",
           NEW former \in ResultsIn(b), IsDirty(former),
           \/ former = GetDirty(Null)
           \/ Fits(insts[b], AtStart(b), Len(insts[b]), on, former)
    PROVE  /\ ScanTo(b, former) \in 0..Len(insts[b])
           /\ \A r : Fits(insts[b], AtStart(b), ScanTo(b, former), on, r) /\ ~IsDirty(r)
                     => Fits(insts[b], AtStart(b), Len(insts[b]), on, r)
<1>1. PICK s, n, start : s = insts[b] /\ n = Len(insts[b]) /\ start = AtStart(b)
  OBVIOUS
<1>2. n \in Nat /\ n = Len(s)
  BY <1>1, BlockSequence
<1>3. PICK k \in 1..n + 1 : Passed(s, k, n, on) /\ ScanTo(b, former) = k - 1
  <2>1. CASE GetInst(former) = Null
    <3>1. ScanTo(b, former) = n /\ Passed(s, n + 1, n, on)
      BY <1>1, <1>2, <2>1 DEF ScanTo, Passed
    <3> QED BY <1>2, <3>1
  <2>2. CASE GetInst(former) # Null
    <3>1. Fits(s, start, n, on, former)
      BY <1>1, <2>2 DEF GetDirty, GetInst
    <3>2. ~IsDirty(start) /\ \A k \in 1..n : on[s[k]] # "Invalid"
      BY <1>1, NoneDirty
    <3>3. PICK k \in 1..n + 1 : k <= n /\ GetInst(former) = s[k] /\ Passed(s, k, n, on)
      BY <1>2, <2>2, <3>1, <3>2, DirtyFits
    <3>4. PositionOf(s[k]) = k
      BY <1>1, <1>2, <3>3, PlacesOfPresent DEF Placed
    <3> QED BY <2>2, <3>3, <3>4 DEF ScanTo
  <2> QED BY <2>1, <2>2
<1>4. k - 1 \in 0..Len(insts[b])
  BY <1>1, <1>2
<1>5. ASSUME NEW r, Fits(s, start, k - 1, on, r), ~IsDirty(r)
      PROVE  Fits(s, start, n, on, r)
  BY <1>2, <1>3, <1>5, ResumedFits
<1> QED BY <1>1, <1>3, <1>4, <1>5

\* What GetNonLocalInfoForBlock finds, from the end of the block or from a dirty result.
LEMMA PointerScanFits ==
    ASSUME FunctionOK, NEW b \in Blocks, NEW loc, NEW isLoad \in BOOLEAN,
           NEW former \in ResultsIn(b), IsDirty(former),
           NEW on, on = PointerDecisions(loc, isLoad, FALSE),
           \/ former = GetDirty(Null)
           \/ Fits(insts[b], AtStart(b), Len(insts[b]), on, former)
    PROVE  Fits(insts[b], AtStart(b), Len(insts[b]), on,
                PointerDependency(loc, isLoad, FALSE, b, ScanTo(b, former)))
<1>1. PICK n : n = ScanTo(b, former)
  OBVIOUS
<1>2. PICK as : as = AsPointer(loc, isLoad, FALSE, b)
  OBVIOUS
<1>3. /\ \A i \in Each(b) : as[i] = on[i]
      /\ \A k \in 1..Len(insts[b]) : on[insts[b][k]] # "Invalid"
  <2>1. \A i \in Each(b) : i \in Instructions(fn)
    BY InBlock, PlacesOfPresent DEF EachPlaced, Placed
  <2>2. \A k \in 1..Len(insts[b]) : insts[b][k] \in Instructions(fn)
    BY BlockSequence
  <2>3. \A i \in Each(b) : as[i] = on[i]
    BY <1>2, <2>1 DEF AsPointer, PointerDecisions
  <2>4. \A i \in Instructions(fn) : on[i] \in Decisions
    BY PointerDecision DEF PointerDecisions
  <2> QED BY <2>2, <2>3, <2>4 DEF Decisions
<1>4. /\ n \in 0..Len(insts[b])
      /\ \A r : Fits(insts[b], AtStart(b), n, on, r) /\ ~IsDirty(r)
                => Fits(insts[b], AtStart(b), Len(insts[b]), on, r)
  BY <1>1, <1>3, ResumedScanFits
<1>5. PICK dep : dep = PointerDependency(loc, isLoad, FALSE, b, n)
  OBVIOUS
<1>6. dep = Scan(b, n, as, NotDebug(b))
  BY <1>2, <1>5 DEF PointerDependency
<1>7. Fits(insts[b], AtStart(b), n, on, dep)
  BY <1>3, <1>4, <1>6, ScanFits
<1>8. dep \in FoundIn(b) \union Constants
  BY <1>4, <1>5, PointerDependencyResult
<1>9. ~IsDirty(dep)
  BY <1>8, NoneDirty
<1> QED BY <1>1, <1>4, <1>5, <1>7, <1>9

\* The frame that runs, and its cache when that is for its own size and tag.
LEMMA RunningFrame ==
    ASSUME FunctionOK, PointersOK, Running, Filling
    PROVE  /\ CachesOK /\ StackOK /\ stack # <<>> /\ StackFresh /\ PointersFresh
           /\ Top \in Frames /\ FrameOK(Top) /\ FrameFresh(Top) /\ Key = FrameKey(Top)
           /\ Deps \in Seq(Entries) /\ Len(Deps) \in Nat /\ Distinct(Deps)
           /\ Settled(Top) =>
                 /\ Key \in DOMAIN nonLocalPointerDeps /\ Info = nonLocalPointerDeps[Key]
                 /\ LocOf(Key, Info) = Top.loc /\ Key.isLoad = Top.isLoad
                 /\ \A e \in ToSet(Deps) : PointerFits(Top.loc, Top.isLoad, e)
                 /\ Pinned(Top) <=> Pins(Deps)
<1>1. /\ CachesOK /\ StackOK /\ stack # <<>> /\ StackFresh /\ PointersFresh
      /\ Top \in Frames /\ FrameOK(Top) /\ Key = FrameKey(Top)
      /\ Deps \in Seq(Entries) /\ Len(Deps) \in Nat /\ Distinct(Deps)
  BY FillingCall DEF Running, FrameKey
<1>2. FrameFresh(Top)
  <2>1. Len(stack) \in Nat \ {0} /\ Top = stack[1]
    BY <1>1, TopFrame
  <2> QED BY <1>1, <2>1 DEF StackFresh
<1>3. ASSUME Settled(Top)
      PROVE  /\ Key \in DOMAIN nonLocalPointerDeps /\ Info = nonLocalPointerDeps[Key]
             /\ LocOf(Key, Info) = Top.loc /\ Key.isLoad = Top.isLoad
             /\ \A e \in ToSet(Deps) : PointerFits(Top.loc, Top.isLoad, e)
             /\ Pinned(Top) <=> Pins(Deps)
  <2>1. Key \in DOMAIN nonLocalPointerDeps /\ Info = nonLocalPointerDeps[Key] /\ Deps = Info.deps
    BY <1>1, <1>3, TopInfo DEF Settled
  <2>2. LocOf(Key, Info) = Top.loc /\ Key.isLoad = Top.isLoad
    <3>1. Top.loc = [ptr |-> Top.loc.ptr, size |-> Top.loc.size, tag |-> Top.loc.tag]
      BY <1>1 DEF Frames
    <3> QED BY <1>1, <1>3, <2>1, <3>1 DEF Settled, LocOf, FrameKey
  <2> QED BY <1>1, <2>1, <2>2 DEF PointersFresh, PointerFresh, Pinned
<1> QED BY <1>1, <1>2, <1>3

\* The result a block has in the cache, and if it is kept.
LEMMA FormerEntry ==
    ASSUME FunctionOK, NEW deps \in Seq(Entries), NEW sorted \in 0..Len(deps), NEW b
    PROVE  LET former == Former(deps, sorted, b)
           IN  former = GetDirty(Null) \/ \E e \in ToSet(deps) : e.bb = b /\ e.result = former
<1>1. CASE Found(deps, sorted, b) = {}
  BY <1>1 DEF Former
<1>2. CASE Found(deps, sorted, b) # {}
  <2>1. PICK n : n = CHOOSE m \in Found(deps, sorted, b) : TRUE
    OBVIOUS
  <2>2. n \in Found(deps, sorted, b) /\ Former(deps, sorted, b) = deps[n].result
    BY <1>2, <2>1 DEF Former
  <2>3. n \in 1..Len(deps) /\ deps[n].bb = b
    BY <2>2, CacheFields DEF Found
  <2> QED BY <2>2, <2>3, CacheFields
<1> QED BY <1>1, <1>2

\* The result of a scan of the block at hand is not dirty.
LEMMA BlockScanned ==
    ASSUME FunctionOK, PointersOK, Filling, Top.work # <<>>
    PROVE  /\ Block \in Blocks /\ FormerDep \in ResultsIn(Block)
           /\ BlockDep \in ResultsIn(Block) /\ ~IsDirty(BlockDep)
<1>1. /\ Top \in Frames /\ Deps \in Seq(Entries) /\ Top.sorted \in 0..Len(Deps) /\ Distinct(Deps)
  BY FillingCall
<1>2. PICK b, former, loc, isLoad : b = Block /\ former = FormerDep /\ loc = Top.loc /\ isLoad = Top.isLoad
  OBVIOUS
<1>3. Top.work \in Seq(Blocks)
  BY <1>1 DEF Frames
<1>4. b \in Blocks
  BY <1>2, <1>3, FrontProperties DEF Block
<1>5. former \in ResultsIn(b)
  BY <1>1, <1>2, <1>4, FormerResult DEF FormerDep
<1>6. ASSUME IsDirty(former)
      PROVE  BlockDep \in ResultsIn(b) /\ ~IsDirty(BlockDep)
  <2>1. ScanTo(b, former) \in 0..Len(insts[b]) /\ isLoad \in BOOLEAN
    BY <1>1, <1>2, <1>4, <1>5, <1>6, ScanToRange DEF Frames
  <2>2. BlockDep = PointerDependency(loc, isLoad, FALSE, b, ScanTo(b, former))
    BY <1>2, <1>6 DEF BlockDep
  <2>3. BlockDep \in FoundIn(b) \union Constants
    BY <1>4, <2>1, <2>2, PointerDependencyResult
  <2> QED BY <1>4, <2>3, NoneDirty DEF ResultsIn, FoundIn
<1>7. ~IsDirty(former) => BlockDep = former
  BY <1>2 DEF BlockDep
<1> QED BY <1>2, <1>4, <1>5, <1>6, <1>7

\* The result that a block gets is for the location of the running frame: the one its
\* cache has, or that of the scan.
LEMMA LookedUpFits ==
    ASSUME FunctionOK, PointersOK, Running, Filling, Top.mode = "loop", Top.work # <<>>
    PROVE  PointerFits(Top.loc, Top.isLoad, [bb |-> Block, result |-> BlockDep])
<1>1. PICK b, former, dep : b = Block /\ former = FormerDep /\ dep = BlockDep
  OBVIOUS
<1>2. /\ Top \in Frames /\ Deps \in Seq(Entries) /\ Top.sorted \in 0..Len(Deps)
      /\ b \in Blocks /\ former \in ResultsIn(b)
      /\ \A e \in ToSet(Deps) : PointerFits(Top.loc, Top.isLoad, e)
  BY <1>1, RunningFrame, FillingCall, BlockScanned DEF FrameFresh
<1>3. PICK on : on = PointerDecisions(Top.loc, Top.isLoad, FALSE)
  OBVIOUS
<1>4. former = GetDirty(Null) \/ Fits(insts[b], AtStart(b), Len(insts[b]), on, former)
  <2>1. former = GetDirty(Null) \/ \E e \in ToSet(Deps) : e.bb = b /\ e.result = former
    BY <1>1, <1>2, FormerEntry DEF FormerDep
  <2> QED BY <1>2, <1>3, <2>1 DEF PointerFits
<1>5. Fits(insts[b], AtStart(b), Len(insts[b]), on, dep)
  <2>1. CASE IsDirty(former)
    <3>1. dep = PointerDependency(Top.loc, Top.isLoad, FALSE, b, ScanTo(b, former)) /\ Top.isLoad \in BOOLEAN
      BY <1>1, <1>2, <2>1 DEF BlockDep, Frames
    <3> QED BY <1>2, <1>3, <1>4, <2>1, <3>1, PointerScanFits
  <2>2. CASE ~IsDirty(former)
    <3>1. dep = former /\ former # GetDirty(Null)
      BY <1>1, <2>2 DEF BlockDep, IsDirty, GetDirty
    <3> QED BY <1>4, <3>1
  <2> QED BY <2>1, <2>2
<1> QED BY <1>1, <1>3, <1>5 DEF PointerFits

\* A block that is looked up: what its cache has is for the frame's own location,
\* as is the result of the scan; what kept the cache there stays.
LEMMA LookupFresh ==
    ASSUME FunctionOK, PointersOK, AllReached, Running, Lookup
    PROVE  Running'
<1>1. /\ Filling /\ Top.mode = "loop" /\ Top.work # <<>> /\ UNCHANGED <<fn, insts>>
  BY DEF Lookup, In, Filling
<1>2. /\ CachesOK /\ StackOK /\ stack # <<>> /\ StackFresh /\ PointersFresh
      /\ Top \in Frames /\ FrameOK(Top) /\ FrameFresh(Top) /\ Key = FrameKey(Top)
      /\ Deps \in Seq(Entries) /\ Len(Deps) \in Nat /\ Distinct(Deps)
      /\ Settled(Top)
      /\ Key \in DOMAIN nonLocalPointerDeps /\ Info = nonLocalPointerDeps[Key]
      /\ LocOf(Key, Info) = Top.loc /\ Key.isLoad = Top.isLoad
      /\ \A e \in ToSet(Deps) : PointerFits(Top.loc, Top.isLoad, e)
  BY <1>1, RunningFrame DEF FrameFresh
<1>3. PICK b, sorted, former, dep : /\ b = Block /\ sorted = Top.sorted
                                    /\ former = FormerDep /\ dep = BlockDep
  OBVIOUS
<1>4. /\ b \in Blocks /\ Front(Top.work) \in Seq(Blocks) /\ sorted \in 0..Len(Deps)
      /\ \A n \in sorted + 1..Len(Deps) : Deps[n].bb # b
  <2>1. Top.work \in Seq(Blocks)
    BY <1>2 DEF Frames
  <2>2. b = Top.work[Len(Top.work)] /\ Len(Top.work) \in 1..Len(Top.work) /\ b \in Blocks
        /\ Front(Top.work) \in Seq(Blocks)
    BY <1>1, <1>3, <2>1, FrontProperties DEF Block
  <2>3. /\ Top.sorted \in 0..Len(Deps)
        /\ \A n \in Top.sorted + 1..Len(Deps) : \A m \in 1..Len(Top.work) : Top.work[m] # Deps[n].bb
    BY <1>1, FillingCall
  <2> QED BY <1>3, <2>2, <2>3
<1>5. former = GetDirty(Null) \/ \E e \in ToSet(Deps) : e.bb = b /\ e.result = former
  BY <1>2, <1>3, <1>4, FormerEntry DEF FormerDep
<1>6. PICK g : /\ Become(g)
               /\ \/ g = [Top EXCEPT !.work = Front(@)]
                  \/ g = [[Top EXCEPT !.work = Front(@)] EXCEPT !.mode = "pass", !.bb = b] /\ dep = NonLocal
  <2>1. ~Reports(b, dep) => dep = NonLocal
    BY <1>4, <1>3 DEF Reports, Transparent, AllReached
  <2>2. Become(IF Reports(b, dep) THEN [Top EXCEPT !.work = Front(@)]
               ELSE [[Top EXCEPT !.work = Front(@)] EXCEPT !.mode = "pass", !.bb = b])
    BY <1>3 DEF Lookup
  <2> QED BY <2>1, <2>2
<1>7. /\ g \in Frames /\ g.loc = Top.loc /\ g.isLoad = Top.isLoad
      /\ g.mode = "loop" \/ (g.mode = "pass" /\ dep = NonLocal)
  <2>1. ASSUME g = [Top EXCEPT !.work = Front(@)]
        PROVE  g \in Frames /\ g.loc = Top.loc /\ g.isLoad = Top.isLoad /\ g.mode = "loop"
    BY <1>1, <1>2, <1>4, <2>1 DEF Frames
  <2>2. ASSUME g = [[Top EXCEPT !.work = Front(@)] EXCEPT !.mode = "pass", !.bb = b]
        PROVE  g \in Frames /\ g.loc = Top.loc /\ g.isLoad = Top.isLoad /\ g.mode = "pass"
    BY <1>2, <1>4, <2>2 DEF Frames
  <2> QED BY <1>6, <2>1, <2>2
<1>8. FrameKey(g) = Key
  BY <1>2, <1>7 DEF FrameKey
<1>9. CASE ~IsDirty(former) /\ UNCHANGED nonLocalPointerDeps
  <2>1. dep = former
    BY <1>3, <1>9 DEF BlockDep
  <2>2. dep = NonLocal => Pins(Deps)
    BY <1>4, <1>5, <1>9, <2>1, NoneDirty DEF Pins
  <2>3. CachesStay /\ PointersFresh'
    BY <1>1, <1>2, <1>9, CachesUnchangedFresh
  <2>4. FrameFresh(g)
    BY <1>2, <1>7, <1>8, <2>2, TopInfo DEF FrameFresh, Settled, Pinned
  <2>5. FrameFresh(g)'
    BY <2>3, <2>4, FrameKept DEF CachesStay
  <2>6. StackFresh'
    BY <1>2, <1>6, <1>7, <2>3, <2>5, BecomesFresh
  <2> QED BY <2>3, <2>6 DEF Running
<1>10. CASE IsDirty(former) /\ Rescan(dep)
  <2>4. dep \in ResultsIn(b)
    BY <1>1, <1>3, BlockScanned
  <2>5. PointerFits(Top.loc, Top.isLoad, [bb |-> b, result |-> dep])
    BY <1>1, <1>3, LookedUpFits
  <2>6. PICK new : new = SetResult(Deps, sorted, b, dep)
    OBVIOUS
  <2>7. ToSet(new) = {e \in ToSet(Deps) : e.bb # b} \union {[bb |-> b, result |-> dep]}
    BY <1>2, <1>4, <2>4, <2>6, SetResultMembers
  <2>8. Pins(Deps) => Pins(new)
    <3> SUFFICES ASSUME NEW e \in ToSet(Deps), e.result \in {NonLocal, Unknown}
                 PROVE  Pins(new)
      BY DEF Pins
    <3>1. e.bb # b
      <4> SUFFICES ASSUME e.bb = b
                   PROVE  FALSE
        OBVIOUS
      <4>1. PICK n \in 1..Len(Deps) : e = Deps[n]
        BY <1>2, CacheFields
      <4>2. n \in Found(Deps, sorted, b)
        BY <1>2, <1>4, <4>1 DEF Found
      <4>3. \A m \in Found(Deps, sorted, b) : m = n
        BY <1>2, <1>4, <4>1 DEF Found, Distinct
      <4>4. former = e.result
        BY <1>3, <4>1, <4>2, <4>3 DEF FormerDep, Former
      <4> QED BY <1>4, <1>10, <4>4, NoneDirty
    <3> QED BY <2>7, <3>1 DEF Pins
  <2>9. Info \in Infos
    BY <1>2, TopInfo
  <2>10. PICK info : info = [Info EXCEPT !.deps = new]
    OBVIOUS
  <2>11. info.deps = new /\ info.size = Info.size /\ info.tag = Info.tag
    BY <2>9, <2>10 DEF Infos
  <2>12. nonLocalPointerDeps' = Put(nonLocalPointerDeps, Key, info)
    BY <1>3, <1>10, <2>6, <2>10 DEF Rescan, Deps, SetInfo
  <2>13. /\ DOMAIN nonLocalPointerDeps' = DOMAIN nonLocalPointerDeps \union {Key}
         /\ nonLocalPointerDeps'[Key] = info
         /\ \A k \in DOMAIN nonLocalPointerDeps \ {Key} :
               nonLocalPointerDeps'[k] = nonLocalPointerDeps[k]
    BY <2>12 DEF Put
  <2>14. \A e \in ToSet(new) : e \in ToSet(Deps) \/ PointerFits(LocOf(Key, Info), Key.isLoad, e)
    BY <1>2, <2>5, <2>7
  <2>15. CachesStay /\ PointersFresh'
    BY <1>1, <1>2, <2>8, <2>11, <2>13, <2>14, CacheChanges
  <2>16. FrameFresh(g)'
    <3>1. Settled(g)'
      BY <1>2, <1>7, <1>8, <2>11, <2>13 DEF Settled, FrameKey
    <3>2. [bb |-> b, result |-> dep] \in ToSet(new) /\ [bb |-> b, result |-> dep].result = dep
      BY <2>7
    <3>3. dep = NonLocal => Pins(new)
      BY <3>2 DEF Pins
    <3>4. dep = NonLocal => Pinned(g)'
      BY <1>8, <2>11, <2>13, <3>3 DEF Pinned, Pins, NonLocal, Unknown, FrameKey
    <3> QED BY <1>7, <3>1, <3>4 DEF FrameFresh
  <2>17. StackFresh'
    BY <1>2, <1>6, <1>7, <2>15, <2>16, BecomesFresh
  <2> QED BY <2>15, <2>17 DEF Running
<1> QED BY <1>3, <1>9, <1>10 DEF Lookup

\* The cache of the running call changes and stays for its size and tag.
LEMMA SetInfoFresh ==
    ASSUME FunctionOK, CachesOK, StackOK, stack # <<>>, PointersFresh, UNCHANGED <<fn, insts>>,
           NEW info, SetInfo(info), info.size = Info.size, info.tag = Info.tag,
           Pins(Deps) => Pins(info.deps),
           \A e \in ToSet(info.deps) : e \in ToSet(Deps) \/ PointerFits(LocOf(Key, Info), Key.isLoad, e)
    PROVE  CachesStay /\ PointersFresh'
<1>1. /\ DOMAIN nonLocalPointerDeps' = DOMAIN nonLocalPointerDeps \union {Key}
      /\ nonLocalPointerDeps'[Key] = info
      /\ \A k \in DOMAIN nonLocalPointerDeps \ {Key} :
            nonLocalPointerDeps'[k] = nonLocalPointerDeps[k]
  BY DEF SetInfo, Put
<1>2. PICK new : new = info.deps
  OBVIOUS
<1> QED BY <1>1, <1>2, CacheChanges

\* A frame that stays for its location, in a step that keeps the caches.
LEMMA ChangedFresh ==
    ASSUME CachesStay, NEW f, FrameFresh(f), NEW g, g.loc = f.loc, g.isLoad = f.isLoad,
           \/ g.mode = "loop" /\ Settled(f)
           \/ g.mode = f.mode /\ g.skip = f.skip /\ g.work = f.work
           \/ g.mode = "preds" /\ (g.work = <<>> \/ (Settled(f) /\ Pinned(f)))
           \/ g.mode = "loop" /\ f.mode = "preds" /\ g.work = f.work
    PROVE  FrameFresh(g)'
<1>1. FrameKey(g) = FrameKey(f)
  BY DEF FrameKey
<1>2. (Settled(g) <=> Settled(f)) /\ (Pinned(g) <=> Pinned(f))
  BY <1>1 DEF Settled, Pinned
<1>3. FrameFresh(g)
  BY <1>2 DEF FrameFresh
<1> QED BY <1>3, FrameKept DEF CachesStay

\* The pointer is the same in the predecessors (lines 1200 to 1230).
LEMMA PassUntranslatedFresh ==
    ASSUME FunctionOK, PointersOK, Running, PassUntranslated
    PROVE  Running'
<1>1. /\ Filling /\ Top.mode = "pass"
      /\ UNCHANGED <<fn, insts, nonLocalPointerDeps>>
  BY DEF PassUntranslated, In, Filling, caches
<1>2. /\ CachesOK /\ StackOK /\ stack # <<>> /\ StackFresh /\ PointersFresh
      /\ Top \in Frames /\ FrameFresh(Top) /\ Settled(Top)
      /\ Top.work \in Seq(Blocks)
  BY <1>1, RunningFrame, FillingCall DEF FrameFresh
<1>3. PICK new : new = NewSteps
  OBVIOUS
<1>4. new \in Seq(Blocks \X Alive)
  BY <1>1, <1>3, PassingFrame, NewStepsProperties
<1>5. PICK work : work = Top.work \o [n \in DOMAIN new |-> new[n][1]]
  OBVIOUS
<1>6. work \in Seq(Blocks)
  <2>1. DOMAIN new = 1..Len(new) /\ Len(new) \in Nat /\ \A n \in 1..Len(new) : new[n] \in Blocks \X Alive
    BY <1>4, LenProperties, ElementOfSeq
  <2>2. PICK more : more = [n \in DOMAIN new |-> new[n][1]]
    OBVIOUS
  <2>3. more \in [1..Len(new) -> Blocks]
    BY <2>1, <2>2
  <2>4. more \in Seq(Blocks)
    BY <2>1, <2>3, SeqDef
  <2> QED BY <1>2, <1>5, <2>2, <2>4, ConcatProperties
<1>7. PICK g : g = [Top EXCEPT !.mode = "loop", !.skip = FALSE, !.work = work]
  OBVIOUS
<1>8. Become(g)
  BY <1>3, <1>5, <1>7 DEF PassUntranslated
<1>9. g \in Frames /\ g.mode = "loop" /\ g.loc = Top.loc /\ g.isLoad = Top.isLoad
  BY <1>2, <1>6, <1>7 DEF Frames
<1>10. CachesStay /\ PointersFresh'
  BY <1>1, <1>2, CachesUnchangedFresh
<1>11. FrameFresh(g)'
  BY <1>2, <1>9, <1>10, ChangedFresh
<1>12. StackFresh'
  BY <1>2, <1>8, <1>9, <1>10, <1>11, BecomesFresh
<1> QED BY <1>10, <1>12 DEF Running

\* Sorting the cache of the top call changes no entry.
LEMMA SortTopFresh ==
    ASSUME FunctionOK, PointersOK, Running, Filling, UNCHANGED <<fn, insts>>,
           SetInfo([Info EXCEPT !.deps = SortNonLocalDepInfoCache(@, Top.sorted)])
    PROVE  CachesStay /\ PointersFresh'
<1>1. PICK new : new = SortNonLocalDepInfoCache(Deps, Top.sorted)
  OBVIOUS
<1>2. /\ CachesOK /\ StackOK /\ stack # <<>> /\ PointersFresh
      /\ Deps \in Seq(Entries) /\ Top.sorted \in 0..Len(Deps) /\ SortedTo(Deps, Top.sorted)
  BY FillingCall DEF Running
<1>3. ToSet(new) = ToSet(Deps)
  BY <1>1, <1>2, SortsTheRest DEF Permutes
<1>4. PICK info : info = [Info EXCEPT !.deps = new]
  OBVIOUS
<1>5. info.deps = new /\ info.size = Info.size /\ info.tag = Info.tag
  BY <1>2, <1>4, TopInfo DEF Infos
<1>6. SetInfo(info)
  BY <1>1, <1>4 DEF Deps
<1> QED BY <1>2, <1>3, <1>5, <1>6, SetInfoFresh DEF Pins

\* The pointer is to be translated into the predecessors (lines 1232 to 1288).
LEMMA PassTranslatedFresh ==
    ASSUME FunctionOK, PointersOK, Running, PassTranslated
    PROVE  Running'
<1>1. /\ Filling /\ Top.mode = "pass" /\ UNCHANGED <<fn, insts>>
      /\ SetInfo([Info EXCEPT !.deps = SortNonLocalDepInfoCache(@, Top.sorted)])
  BY DEF PassTranslated, In, Filling
<1>2. /\ StackOK /\ stack # <<>> /\ StackFresh /\ Top \in Frames /\ FrameFresh(Top)
      /\ Settled(Top) /\ (Top.skip \/ Pinned(Top))
  BY <1>1, RunningFrame DEF FrameFresh
<1>3. CachesStay /\ PointersFresh'
  BY <1>1, SortTopFresh
<1>4. PICK new : new = NewSteps
  OBVIOUS
<1>5. new \in Seq(Blocks \X Alive) /\ (Top.skip => Top.work = <<>>)
  BY <1>1, <1>4, PassingFrame, NewStepsProperties
<1>6. PICK g : g = [Top EXCEPT !.mode = "preds", !.preds = new]
  OBVIOUS
<1>7. Become(g)
  BY <1>4, <1>6 DEF PassTranslated
<1>8. /\ g \in Frames /\ g.mode = "preds" /\ g.work = Top.work
      /\ g.loc = Top.loc /\ g.isLoad = Top.isLoad
  BY <1>2, <1>5, <1>6 DEF Frames
<1>9. FrameFresh(g)'
  BY <1>2, <1>3, <1>5, <1>8, ChangedFresh
<1>10. StackFresh'
  BY <1>2, <1>3, <1>7, <1>8, <1>9, BecomesFresh
<1> QED BY <1>3, <1>10 DEF Running

\* The frame of a call that recurses, and the same for the predecessors that are left.
LEMMA RecursingFrame ==
    ASSUME FunctionOK, PointersOK, Running, stack # <<>>, Top.mode = "preds"
    PROVE  /\ CachesOK /\ StackOK /\ StackFresh /\ PointersFresh
           /\ Top \in Frames /\ FrameFresh(Top)
           /\ Top.preds # <<>> =>
                 \E g \in Frames : /\ g = [Top EXCEPT !.preds = Tail(@)] /\ g.mode = "preds"
                                   /\ g.loc = Top.loc /\ g.isLoad = Top.isLoad
                                   /\ g.skip = Top.skip /\ g.work = Top.work
<1>1. CachesOK /\ StackOK /\ StackFresh /\ PointersFresh
  BY DEF PointersOK, Running
<1>2. Top \in Frames /\ Top = stack[1] /\ Len(stack) \in Nat \ {0}
  BY <1>1, TopFrame
<1>3. FrameFresh(Top)
  BY <1>1, <1>2 DEF StackFresh
<1>4. ASSUME Top.preds # <<>>
      PROVE  \E g \in Frames : /\ g = [Top EXCEPT !.preds = Tail(@)] /\ g.mode = "preds"
                               /\ g.loc = Top.loc /\ g.isLoad = Top.isLoad
                               /\ g.skip = Top.skip /\ g.work = Top.work
  <2>1. PICK g : g = [Top EXCEPT !.preds = Tail(@)] /\ FrameOK(g) /\ g.mode = "preds"
    BY <1>1, <1>4, PredsFrame
  <2>2. /\ g \in Frames /\ g.loc = Top.loc /\ g.isLoad = Top.isLoad
        /\ g.skip = Top.skip /\ g.work = Top.work
    BY <1>2, <2>1 DEF FrameOK, Frames
  <2> QED BY <2>1, <2>2
<1> QED BY <1>1, <1>2, <1>3, <1>4

\* A predecessor where the pointer has no value: an entry that is unknown (1316 to 1333).
LEMMA UnknownPredFresh ==
    ASSUME FunctionOK, PointersOK, Running, UnknownPred
    PROVE  Running'
<1>1. /\ stack # <<>> /\ Top.mode = "preds" /\ Top.preds # <<>> /\ UNCHANGED <<fn, insts>>
      /\ nonLocalPointerDeps' = Unpaired(nonLocalPointerDeps, {Key})
  BY DEF UnknownPred, In
<1>2. CachesOK /\ StackOK /\ StackFresh /\ PointersFresh /\ FrameFresh(Top)
  BY <1>1, RecursingFrame
<1>3. PICK g \in Frames : /\ g = [Top EXCEPT !.preds = Tail(@)] /\ g.mode = "preds"
                          /\ g.loc = Top.loc /\ g.isLoad = Top.isLoad
                          /\ g.skip = Top.skip /\ g.work = Top.work
  BY <1>1, RecursingFrame
<1>4. CachesStay /\ PointersFresh'
  BY <1>1, <1>2, UnpairedFresh
<1>5. FrameFresh(g)'
  BY <1>1, <1>2, <1>3, <1>4, ChangedFresh
<1>6. Become(g)
  BY <1>3 DEF UnknownPred
<1>7. StackFresh'
  BY <1>1, <1>2, <1>3, <1>4, <1>5, <1>6, BecomesFresh
<1> QED BY <1>4, <1>7 DEF Running

\* The predecessors are done (lines 1336 to 1347).
LEMMA PredsDoneFresh ==
    ASSUME FunctionOK, PointersOK, Running, PredsDone
    PROVE  Running'
<1>1. /\ stack # <<>> /\ Top.mode = "preds" /\ UNCHANGED <<fn, insts>>
      /\ nonLocalPointerDeps' = Unpaired(nonLocalPointerDeps, {Key})
  BY DEF PredsDone, In
<1>2. CachesOK /\ StackOK /\ StackFresh /\ PointersFresh /\ FrameFresh(Top) /\ Top \in Frames
  BY <1>1, RecursingFrame
<1>3. Len(Deps) \in Nat
  BY <1>1, <1>2, TopInfo
<1>4. PICK g : g = [Top EXCEPT !.mode = "loop", !.skip = FALSE, !.sorted = Len(Deps)]
  OBVIOUS
<1>5. /\ g \in Frames /\ g.mode = "loop" /\ g.work = Top.work
      /\ g.loc = Top.loc /\ g.isLoad = Top.isLoad
  BY <1>2, <1>3, <1>4 DEF Frames
<1>6. CachesStay /\ PointersFresh'
  BY <1>1, <1>2, UnpairedFresh
<1>7. FrameFresh(g)'
  BY <1>1, <1>2, <1>5, <1>6, ChangedFresh
<1>8. Become(g)
  BY <1>4 DEF PredsDone
<1>9. StackFresh'
  BY <1>1, <1>2, <1>5, <1>6, <1>7, <1>8, BecomesFresh
<1> QED BY <1>6, <1>9 DEF Running

\* The call for the pointer of a predecessor (lines 1316 to 1320).
LEMMA RecurseFresh ==
    ASSUME FunctionOK, PointersOK, Running, Recurse
    PROVE  Running'
<1>1. /\ stack # <<>> /\ Top.mode = "preds" /\ Top.preds # <<>>
      /\ UNCHANGED <<fn, insts, nonLocalPointerDeps>>
  BY DEF Recurse, In, caches
<1>2. CachesOK /\ StackOK /\ StackFresh /\ PointersFresh /\ FrameFresh(Top) /\ Top \in Frames
  BY <1>1, RecursingFrame
<1>3. PICK old \in Frames : /\ old = [Top EXCEPT !.preds = Tail(@)] /\ old.mode = "preds"
                            /\ old.loc = Top.loc /\ old.isLoad = Top.isLoad
                            /\ old.skip = Top.skip /\ old.work = Top.work
  BY <1>1, RecursingFrame
<1>4. PICK pred : pred = Head(Top.preds)
  OBVIOUS
<1>5. pred[1] \in Blocks /\ pred[2] \in Alive
  BY <1>1, <1>2, <1>4, PredsFrame
<1>6. PICK loc : loc = [Top.loc EXCEPT !.ptr = pred[2]]
  OBVIOUS
<1>7. loc \in [ptr : Alive, size : fn.sizes, tag : Tags] /\ Top.isLoad \in BOOLEAN
  BY <1>2, <1>5, <1>6 DEF Frames
<1>8. PICK g : g = Frame(loc, Top.isLoad, pred[1], FALSE)
  OBVIOUS
<1>9. g \in Frames /\ g.mode = "enter"
  <2>1. <<>> \in Seq(Blocks) /\ <<>> \in Seq(Blocks \X Alive)
    BY EmptySeq
  <2> QED BY <1>5, <1>7, <1>8, <2>1 DEF Frame, Frames
<1>10. stack' = <<g, old>> \o Tail(stack)
  BY <1>3, <1>4, <1>6, <1>8 DEF Recurse
<1>11. CachesStay /\ PointersFresh'
  BY <1>1, <1>2, CachesUnchangedFresh
<1>12. FrameFresh(g)' /\ FrameFresh(old)'
  BY <1>1, <1>2, <1>3, <1>9, <1>11, EnteringFresh, ChangedFresh
<1>13. PICK S : S = {g, old}
  OBVIOUS
<1>14. \A n \in 1..Len(stack') : stack'[n] \in S \/ \E m \in 1..Len(stack) : stack'[n] = stack[m]
  <2>1. \A m \in 2..Len(stack) : m \in 1..Len(stack)
    BY <1>1, <1>2, TopFrame
  <2>2. \A n \in 1..Len(<<g, old>> \o Tail(stack)) :
           \/ (<<g, old>> \o Tail(stack))[n] \in {g, old}
           \/ \E m \in 2..Len(stack) : (<<g, old>> \o Tail(stack))[n] = stack[m]
    BY <1>1, <1>2, StackPositions
  <2> QED BY <1>10, <1>13, <2>1, <2>2
<1>15. \A f \in S : FrameFresh(f)'
  BY <1>12, <1>13
<1>16. StackFresh'
  BY <1>2, <1>11, <1>14, <1>15, StackKept
<1> QED BY <1>11, <1>16 DEF Running

\* A call with nothing left to look at sorts its cache and returns (1389 to 1393).
LEMMA ReturnFresh ==
    ASSUME FunctionOK, PointersOK, Running, Return
    PROVE  Running'
<1>1. /\ Filling /\ UNCHANGED <<fn, insts>> /\ stack' = Tail(stack)
      /\ SetInfo([Info EXCEPT !.deps = SortNonLocalDepInfoCache(@, Top.sorted)])
  BY DEF Return, In, Filling
<1>2. StackOK /\ stack # <<>> /\ StackFresh
  BY <1>1, RunningFrame
<1>3. CachesStay /\ PointersFresh'
  BY <1>1, SortTopFresh
<1>4. StackFresh'
  BY <1>1, <1>2, <1>3, ReturnsFresh
<1> QED BY <1>3, <1>4 DEF Running

\* Sorting the cache where a translation fails changes no entry.
LEMMA FailedMembers ==
    ASSUME FunctionOK, PointersOK, Filling
    PROVE  ToSet(FailedDeps) = ToSet(Deps)
<1>1. /\ Deps \in Seq(Entries) /\ Top.sorted \in 0..Len(Deps) /\ SortedTo(Deps, Top.sorted)
  BY FillingCall
<1>2. PICK new : new = SortNonLocalDepInfoCache(Deps, Top.sorted)
  OBVIOUS
<1>3. ToSet(new) = ToSet(Deps)
  BY <1>1, <1>2, SortsTheRest DEF Permutes
<1> QED BY <1>2, <1>3 DEF FailedDeps

\* The translation fails in the block that was skipped (lines 1349 to 1373).
LEMMA TranslationFailsAtFirstFresh ==
    ASSUME FunctionOK, PointersOK, Running, TranslationFailsAtFirst
    PROVE  Running'
<1>1. PICK info : info = [Info EXCEPT !.deps = FailedDeps, !.pair = NoPair]
  OBVIOUS
<1>2. PICK put : put = Put(nonLocalPointerDeps, Key, info)
  OBVIOUS
<1>3. /\ Filling /\ stack' = Tail(stack) /\ UNCHANGED <<fn, insts>>
      /\ nonLocalPointerDeps' = Unpaired(put, CallerKeys)
  BY <1>1, <1>2 DEF TranslationFailsAtFirst, ReturnUnknown, In, Filling
<1>4. /\ CachesOK /\ StackOK /\ stack # <<>> /\ StackFresh /\ PointersFresh
  BY <1>3, RunningFrame
<1>5. FailedDeps \in Seq(Entries) /\ ToSet(FailedDeps) = ToSet(Deps)
  BY <1>3, FailedDepsSame, FailedMembers
<1>6. info \in Infos /\ info.deps = FailedDeps /\ info.size = Info.size /\ info.tag = Info.tag
  <2>1. Info \in Infos
    BY <1>4, TopInfo
  <2> QED BY <1>1, <1>5, <2>1 DEF Infos, NoPair
<1>7. /\ DOMAIN put = DOMAIN nonLocalPointerDeps \union {Key} /\ put[Key] = info
      /\ \A k \in DOMAIN nonLocalPointerDeps \ {Key} : put[k] = nonLocalPointerDeps[k]
  BY <1>2 DEF Put
<1>8. \A k \in DOMAIN put : put[k] \in Infos
  BY <1>4, <1>6, <1>7 DEF CachesOK, PointerCachesOK
<1>9. /\ DOMAIN nonLocalPointerDeps' = DOMAIN put
      /\ \A k \in DOMAIN put :
            /\ nonLocalPointerDeps'[k].deps = put[k].deps
            /\ nonLocalPointerDeps'[k].size = put[k].size
            /\ nonLocalPointerDeps'[k].tag = put[k].tag
  BY <1>3, <1>8, UnpairedSame
<1>10. PICK new : new = FailedDeps
  OBVIOUS
<1>11. /\ nonLocalPointerDeps'[Key].deps = new
       /\ nonLocalPointerDeps'[Key].size = Info.size /\ nonLocalPointerDeps'[Key].tag = Info.tag
  BY <1>6, <1>7, <1>9, <1>10
<1>12. Pins(Deps) => Pins(new)
  BY <1>5, <1>10 DEF Pins
<1>13. CachesStay /\ PointersFresh'
  BY <1>3, <1>4, <1>5, <1>7, <1>9, <1>10, <1>11, <1>12, CacheChanges
<1>14. StackFresh'
  BY <1>3, <1>4, <1>13, ReturnsFresh
<1> QED BY <1>13, <1>14 DEF Running

\* The translation fails in another block: an entry becomes unknown (1349 to 1387).
LEMMA TranslationFailsFresh ==
    ASSUME FunctionOK, PointersOK, Running, TranslationFails
    PROVE  Running'
<1>1. PICK failed : failed = FailedDeps
  OBVIOUS
<1>2. PICK last : last = LastEntry(failed, Top.bb)
  OBVIOUS
<1>3. PICK new : new = [failed EXCEPT ![last].result = Unknown]
  OBVIOUS
<1>4. PICK info : info = [Info EXCEPT !.deps = new, !.pair = NoPair]
  OBVIOUS
<1>5. PICK g : g = [Top EXCEPT !.mode = "loop", !.sorted = IF SortedFirst THEN Len(Deps) ELSE @]
  OBVIOUS
<1>6. /\ Filling /\ Top.mode = "pass" /\ UNCHANGED <<fn, insts>>
      /\ Transparents(failed, Top.bb) /\ SetInfo(info) /\ Become(g)
  BY <1>1, <1>2, <1>3, <1>4, <1>5 DEF TranslationFails, In, Filling
<1>7. /\ CachesOK /\ StackOK /\ stack # <<>> /\ StackFresh /\ PointersFresh
      /\ Top \in Frames /\ FrameFresh(Top) /\ Settled(Top)
      /\ Len(Deps) \in Nat /\ Top.sorted \in 0..Len(Deps)
  BY <1>6, RunningFrame, FillingCall DEF FrameFresh
<1>8. failed \in Seq(Entries) /\ ToSet(failed) = ToSet(Deps)
  BY <1>1, <1>6, FailedDepsSame, FailedMembers
<1>9. last \in 1..Len(failed)
  BY <1>2, <1>6, <1>8, LastEntryThere DEF Transparents
<1>10. /\ DOMAIN failed = 1..Len(failed) /\ ToSet(failed) = {failed[n] : n \in 1..Len(failed)}
       /\ \A n \in 1..Len(failed) : failed[n] \in Entries
  BY <1>8, CacheFields
<1>11. failed[last] = [bb |-> failed[last].bb, result |-> failed[last].result]
  BY <1>9, <1>10, EntryFields
<1>12. /\ DOMAIN new = 1..Len(failed)
       /\ new[last].result = Unknown
       /\ \A n \in 1..Len(failed) \ {last} : new[n] = failed[n]
  BY <1>3, <1>9, <1>10, <1>11
<1>13. Pins(new)
  BY <1>9, <1>12 DEF Pins, ToSet
<1>14. \A e \in ToSet(new) : e \in ToSet(Deps) \/ PointerFits(LocOf(Key, Info), Key.isLoad, e)
  BY <1>8, <1>10, <1>12 DEF ToSet, PointerFits, Fits
<1>15. info.deps = new /\ info.size = Info.size /\ info.tag = Info.tag
  BY <1>4, <1>7, TopInfo DEF Infos
<1>16. CachesStay /\ PointersFresh'
  BY <1>6, <1>7, <1>13, <1>14, <1>15, SetInfoFresh
<1>17. g \in Frames /\ g.mode = "loop" /\ g.loc = Top.loc /\ g.isLoad = Top.isLoad
  <2>1. PICK sorted \in Nat : sorted = IF SortedFirst THEN Len(Deps) ELSE Top.sorted
    BY <1>7
  <2>2. g = [Top EXCEPT !.mode = "loop", !.sorted = sorted]
    BY <1>5, <2>1
  <2> QED BY <1>7, <2>1, <2>2 DEF Frames
<1>18. FrameFresh(g)'
  BY <1>7, <1>16, <1>17, ChangedFresh
<1>19. StackFresh'
  BY <1>6, <1>7, <1>16, <1>17, <1>18, BecomesFresh
<1> QED BY <1>16, <1>19 DEF Running

\* The entry of a whole block before a removal and, redirected, after.
LEMMA MovedEntryFits ==
    ASSUME FunctionOK, NEW i, Removed(i), NEW b \in Blocks, NEW r \in ResultsIn(b), NEW on,
           Fits(insts[b], AtStart(b), Len(insts[b]), on, r),
           NEW r2, r2 = IF GetInst(r) = i THEN GetDirty(NextOf(i)) ELSE r
    PROVE  Fits(insts'[b], AtStart(b), Len(insts'[b]), on, r2)
<1>1. PICK n \in 0..Len(insts[b]) : n = Len(insts[b])
  BY BlockSequence
<1>2. i \in Present /\ PositionOf(i) \in 1..Len(insts[BlockOf(i)]) /\ i # Null
  BY PlacesOfPresent DEF Placed, NoInstructions, Removed
<1>3. GetInst(r) = i => PositionOf(i) <= n
  <2>1. GetInst(r) = i => BlockOf(i) = b
    BY <1>2, InBlock, ResultInst DEF EachPlaced
  <2>2. n \in Nat /\ (BlockOf(i) = b => PositionOf(i) \in 1..n)
    BY <1>1, <1>2, BlockSequence
  <2> QED BY <2>1, <2>2
<1>4. Len(insts'[b]) = IF b = BlockOf(i) /\ PositionOf(i) <= n THEN n - 1 ELSE n
  <2>1. CASE b = BlockOf(i)
    BY <1>1, <1>2, <2>1, RemovedBlocks, BlockSequence
  <2>2. CASE b # BlockOf(i)
    BY <1>1, <2>2, RemovedBlocks
  <2> QED BY <2>1, <2>2
<1> QED BY <1>1, <1>3, <1>4, MovedFits

\* The results that point at a removed instruction are made dirty at the next one,
\* and those of the caches of the removed pointer are gone (removeInstruction).
LEMMA RemovedPointersFresh ==
    ASSUME FunctionOK, PointersOK, PointersFresh, NEW i, RemoveInstruction(i)
    PROVE  PointersFresh'
<1>1. PICK D : D = KeyDependents(i)
  OBVIOUS
<1>2. PICK now : now = nonLocalPointerDeps'
  OBVIOUS
<1>3. /\ Removed(i) /\ fn' = fn
      /\ now = [k \in DOMAIN nonLocalPointerDeps \ KeysOf(i) |->
            IF k \in D
            THEN [nonLocalPointerDeps[k] EXCEPT !.pair = NoPair, !.deps = SortAll(Redirected(@, i))]
            ELSE nonLocalPointerDeps[k]]
  BY <1>1, <1>2, RemovalRemoves DEF RemoveInstruction, RemovePointers
<1>4. \A k \in DOMAIN nonLocalPointerDeps \ KeysOf(i) : k \notin D => ~Has(nonLocalPointerDeps[k].deps, i)
  <2>1. PICK W : /\ DOMAIN W = DOMAIN nonLocalPointerDeps \ KeysOf(i)
                 /\ \A k \in DOMAIN W : W[k] = nonLocalPointerDeps[k].deps
                 /\ Mirrored(Present, ReversePtrWithout(i), W)
    BY MirroredWithoutKeys DEF ReversePtrWithout
  <2>2. \A k \in DOMAIN W : Has(W[k], i) => <<i, k>> \in ReversePtrWithout(i)
    BY <1>3, <2>1 DEF Mirrored, Removed
  <2>3. \A k : <<i, k>> \in ReversePtrWithout(i) => k \in D
    BY <1>1 DEF KeyDependents, Dependents
  <2> QED BY <2>1, <2>2, <2>3
<1>5. \A k \in DOMAIN nonLocalPointerDeps :
         nonLocalPointerDeps[k] \in Infos /\ nonLocalPointerDeps[k].deps \in Seq(Entries)
  BY DEF PointersOK, CachesOK, PointerCachesOK, Infos
<1>6. FunctionOK'
  BY <1>3, RemovedFunction
<1>7. ASSUME NEW k \in DOMAIN now
      PROVE  /\ k \in DOMAIN nonLocalPointerDeps
             /\ LocOf(k, now[k]) = LocOf(k, nonLocalPointerDeps[k])
             /\ ToSet(now[k].deps) = {RedirectedEntry(e, i) : e \in ToSet(nonLocalPointerDeps[k].deps)}
  <2>1. k \in DOMAIN nonLocalPointerDeps \ KeysOf(i)
    BY <1>3
  <2>2. PICK deps : deps = nonLocalPointerDeps[k].deps
    OBVIOUS
  <2>3. deps \in Seq(Entries) /\ DOMAIN deps = 1..Len(deps) /\ ToSet(deps) = {deps[n] : n \in 1..Len(deps)}
    BY <1>5, <2>1, <2>2, CacheFields
  <2>4. CASE k \in D
    <3>1. PICK new : new = SortAll(Redirected(deps, i))
      OBVIOUS
    <3>2. now[k] = [nonLocalPointerDeps[k] EXCEPT !.pair = NoPair, !.deps = new]
      BY <1>3, <2>1, <2>2, <2>4, <3>1
    <3>3. /\ now[k].deps = new /\ now[k].size = nonLocalPointerDeps[k].size
          /\ now[k].tag = nonLocalPointerDeps[k].tag
      BY <1>5, <2>1, <3>2 DEF Infos
    <3>4. Redirected(deps, i) \in Seq(Entries')
      BY <1>3, <2>3, RemovedEntries
    <3>5. ToSet(new) = ToSet(Redirected(deps, i))
      <4>1. PICK s \in Seq(Entries') : s = Redirected(deps, i)
        BY <3>4
      <4>2. ToSet(SortAll(s)) = ToSet(s)
        BY <1>3, <1>6, SortedAfter
      <4> QED BY <3>1, <4>1, <4>2
    <3>6. ToSet(Redirected(deps, i)) = {RedirectedEntry(e, i) : e \in ToSet(deps)}
      BY <2>3, RedirectedMembers
    <3> QED BY <2>1, <2>2, <3>3, <3>5, <3>6 DEF LocOf
  <2>5. CASE k \notin D
    <3>1. now[k] = nonLocalPointerDeps[k] /\ ~Has(deps, i)
      BY <1>3, <1>4, <2>1, <2>2, <2>5
    <3>2. \A e \in ToSet(deps) : RedirectedEntry(e, i) = e
      BY <2>3, <3>1 DEF Has, RedirectedEntry
    <3>3. PICK S : S = ToSet(deps)
      OBVIOUS
    <3>4. {RedirectedEntry(e, i) : e \in S} = S
      BY <3>2, <3>3
    <3> QED BY <2>1, <2>2, <3>1, <3>3, <3>4
  <2> QED BY <2>4, <2>5
<1>8. ASSUME NEW k \in DOMAIN now, NEW d \in ToSet(now[k].deps)
      PROVE  PointerFits(LocOf(k, now[k]), k.isLoad, d)'
  <2>1. PICK loc : loc = LocOf(k, now[k])
    OBVIOUS
  <2>2. PICK isLoad : isLoad = k.isLoad
    OBVIOUS
  <2>3. PICK on : on = PointerDecisions(loc, isLoad, FALSE)
    OBVIOUS
  <2>4. PICK e \in ToSet(nonLocalPointerDeps[k].deps) : d = RedirectedEntry(e, i)
    BY <1>7
  <2>5. PointerFits(loc, isLoad, e)
    BY <1>7, <2>1, <2>2, <2>4 DEF PointersFresh, PointerFresh
  <2>6. PICK b, r : b = e.bb /\ r = e.result
    OBVIOUS
  <2>7. b \in Blocks /\ r \in ResultsIn(b)
    BY <1>5, <1>7, <2>4, <2>6, CacheFields, EntryFields
  <2>8. Fits(insts[b], AtStart(b), Len(insts[b]), on, r)
    BY <2>3, <2>5, <2>6 DEF PointerFits
  <2>9. PICK r2 : r2 = IF GetInst(r) = i THEN GetDirty(NextOf(i)) ELSE r
    OBVIOUS
  <2>10. Fits(insts'[b], AtStart(b), Len(insts'[b]), on, r2)
    BY <1>3, <2>7, <2>8, <2>9, MovedEntryFits
  <2>11. d.bb = b /\ d.result = r2
    BY <2>4, <2>6, <2>9 DEF RedirectedEntry
  <2>12. AtStart(b)' = AtStart(b) /\ PointerDecisions(loc, isLoad, FALSE)' = on
    BY <1>3, <2>3, SameDecisions
  <2>13. PointerFits(loc, isLoad, d)'
    BY <2>10, <2>11, <2>12 DEF PointerFits
  <2> QED BY <2>1, <2>2, <2>13
<1> QED BY <1>2, <1>8 DEF PointersFresh, PointerFresh, LocOf

\* The steps that run on an empty stack.
LEMMA EmptyStackFresh ==
    ASSUME stack' = <<>>
    PROVE  StackFresh'
<1>1. Len(stack') = 0
  BY EmptySeq
<1> QED BY <1>1 DEF StackFresh

\* getNonLocalPointerDependency begins: the stack holds one call that has not begun.
LEMMA AskPointerFresh ==
    ASSUME FunctionOK, PointersOK, Running, NEW query \in fn.pointerQueries, AskPointer(query)
    PROVE  Running'
<1>1. UNCHANGED <<fn, insts, nonLocalPointerDeps>>
  BY DEF AskPointer, caches
<1>2. PICK g : g = Frame(query.loc, query.isLoad, query.from, TRUE)
  OBVIOUS
<1>3. stack' = <<g>> /\ g.mode = "enter"
  BY <1>2 DEF AskPointer, Frame
<1>4. FrameFresh(g)'
  BY <1>3, EnteringFresh
<1>5. Len(stack') = 1 /\ stack'[1] = g
  BY <1>3
<1>6. StackFresh'
  BY <1>4, <1>5 DEF StackFresh
<1>7. PointersFresh'
  BY <1>1, CachesUnchangedFresh DEF Running
<1> QED BY <1>6, <1>7 DEF Running

\* invalidateCachedPointerInfo forgets the caches of a pointer.
LEMMA InvalidateFresh ==
    ASSUME PointersOK, PointersFresh, NEW p, InvalidateCachedPointerInfo(p)
    PROVE  Running'
<1>1. /\ UNCHANGED <<fn, insts>> /\ stack' = <<>>
      /\ nonLocalPointerDeps' = Without(nonLocalPointerDeps, KeysOf(p))
  BY DEF InvalidateCachedPointerInfo, Idle, running, PointersOK, StackOK
<1>2. PICK now : now = nonLocalPointerDeps'
  OBVIOUS
<1>3. \A k \in DOMAIN now : k \in DOMAIN nonLocalPointerDeps /\ now[k] = nonLocalPointerDeps[k]
  BY <1>1, <1>2 DEF Without
<1>4. \A k \in DOMAIN now : \A e \in ToSet(now[k].deps) : PointerFits(LocOf(k, now[k]), k.isLoad, e)
  BY <1>3 DEF PointersFresh, PointerFresh
<1>5. \A k \in DOMAIN now : \A e \in ToSet(now[k].deps) : PointerFits(LocOf(k, now[k]), k.isLoad, e)'
  BY <1>1, <1>4, SamePointerFits
<1>6. PointersFresh'
  BY <1>2, <1>5 DEF PointersFresh, PointerFresh, LocOf
<1> QED BY <1>1, <1>6, EmptyStackFresh DEF Running

\* releaseMemory forgets every cache.
LEMMA ReleasedFresh ==
    ASSUME PointersOK, ReleaseMemory
    PROVE  Running'
<1>1. nonLocalPointerDeps' = Empty /\ stack' = <<>>
  BY DEF ReleaseMemory, Idle, running, PointersOK, StackOK
<1>2. PointersFresh'
  BY <1>1 DEF PointersFresh, Empty
<1> QED BY <1>1, <1>2, EmptyStackFresh DEF Running

\* Steps that leave the caches of pointers and the stack alone.
LEMMA SamePointersFresh ==
    ASSUME Running, UNCHANGED <<fn, insts, nonLocalPointerDeps, stack>>
    PROVE  Running'
<1>1. CachesStay /\ PointersFresh'
  BY CachesUnchangedFresh DEF Running
<1>2. \A n \in 1..Len(stack) : FrameFresh(stack[n])'
  <2> SUFFICES ASSUME NEW n \in 1..Len(stack)
               PROVE  FrameFresh(stack[n])'
    OBVIOUS
  <2>1. PICK f : f = stack[n] /\ f = stack'[n]
    OBVIOUS
  <2>2. FrameFresh(f)
    BY <2>1 DEF Running, StackFresh
  <2>3. FrameFresh(f)'
    BY <1>1, <2>2, FrameKept DEF CachesStay
  <2> QED BY <2>1, <2>3
<1>3. StackFresh'
  BY <1>2 DEF StackFresh
<1> QED BY <1>1, <1>3 DEF Running

\* Each step of getNonLocalPointerDepFromBB.
LEMMA PointerStepFresh ==
    ASSUME FunctionOK, PointersOK, AllReached, Running, PointerStep
    PROVE  Running'
<1>1. CASE ThrowOutSmaller \/ ThrowOutTagged
  BY <1>1, ThrowOutFresh
<1>2. CASE RestartWithSize \/ RestartWithoutTag
  BY <1>2, RestartFresh
<1>3. CASE ReturnCached \/ ReturnConflict \/ Begin
  BY <1>3, ReturnsAtOnceFresh, BeginFresh
<1>4. CASE Lookup \/ SkipFirstBlock \/ PassUntranslated \/ PassTranslated
  BY <1>4, LookupFresh, SkipFirstBlockFresh, PassUntranslatedFresh, PassTranslatedFresh
<1>5. CASE UnknownPred \/ Recurse \/ PredsDone
  BY <1>5, UnknownPredFresh, RecurseFresh, PredsDoneFresh
<1>6. CASE TranslationFailsAtFirst \/ TranslationFails \/ Return
  BY <1>6, TranslationFailsAtFirstFresh, TranslationFailsFresh, ReturnFresh
<1>7. CASE EndPointerQuery
  <2>1. UNCHANGED <<fn, insts, nonLocalPointerDeps, stack>>
    BY <1>7 DEF EndPointerQuery, caches
  <2> QED BY <2>1, SamePointersFresh
<1> QED BY <1>1, <1>2, <1>3, <1>4, <1>5, <1>6, <1>7 DEF PointerStep

\* Each step of the analysis.
LEMMA RunningStep == AnalysisOK /\ AllReached /\ Running /\ [Next]_vars => Running'
<1> SUFFICES ASSUME FunctionOK, PointersOK, AllReached, Running, [Next]_vars
             PROVE  Running'
  BY DEF AnalysisOK
<1>1. PointersUnchanged => Running'
  BY SamePointersFresh DEF PointersUnchanged
<1>2. ASSUME NEW i, RemoveInstruction(i)
      PROVE  Running'
  <2>1. stack' = <<>>
    BY <1>2 DEF RemoveInstruction, Idle, running, PointersOK, StackOK
  <2> QED BY <1>2, <2>1, RemovedPointersFresh, EmptyStackFresh DEF Running
<1>3. CASE Client
  BY <1>1, <1>2, <1>3, ClientPointers, AskPointerFresh, InvalidateFresh, ReleasedFresh DEF Running
<1>4. CASE PointerStep
  BY <1>4, PointerStepFresh
<1>5. CASE CallStep \/ RequestFails \/ StepFails \/ UNCHANGED vars
  BY <1>1, <1>5, OtherStepsLeavePointers
<1> QED BY <1>3, <1>4, <1>5 DEF Next

\* The analysis starts without a cache and without a call.
LEMMA InitRunning == Init => Running
<1> SUFFICES ASSUME Init
             PROVE  Running
  OBVIOUS
<1>1. DOMAIN nonLocalPointerDeps = {} /\ Len(stack) = 0
  BY EmptySeq DEF Init, Empty
<1> QED BY <1>1 DEF Running, StackFresh, PointersFresh

\* The blocks that can be reached do not change.
LEMMA PointerInvStep == AnalysisOK /\ PointerInv /\ [Next]_vars => PointerInv'
<1> SUFFICES ASSUME AnalysisOK, PointerInv, [Next]_vars
             PROVE  PointerInv'
  OBVIOUS
<1>1. fn' = fn
  BY StepsOfFunction DEF RemoveInstruction, FunctionUnchanged
<1>2. AllReached' <=> AllReached
  BY <1>1 DEF AllReached, Blocks
<1> QED BY <1>2, RunningStep DEF PointerInv, Running

\* A clean entry that fits is what a scan of its block would find now, or unknown.
LEMMA EntryTrue ==
    ASSUME FunctionOK, NEW loc, NEW isLoad, NEW e, PointerFits(loc, isLoad, e),
           e.bb \in Blocks, ~IsDirty(e.result), e.result # Unknown
    PROVE  e.result = PointerTruth(loc, isLoad, FALSE, e.bb, Len(insts[e.bb]))
<1>1. PICK b \in Blocks : b = e.bb
  OBVIOUS
<1>2. PICK on : on = PointerDecisions(loc, isLoad, FALSE)
  OBVIOUS
<1>3. PICK as : as = AsPointer(loc, isLoad, FALSE, b)
  OBVIOUS
<1>4. \A i \in Each(b) : as[i] = on[i]
  <2>1. \A i \in Each(b) : i \in Instructions(fn)
    BY InBlock, PlacesOfPresent DEF EachPlaced, Placed
  <2> QED BY <1>2, <1>3, <2>1 DEF AsPointer, PointerDecisions
<1>5. PICK n \in 0..Len(insts[b]) : n = Len(insts[b])
  BY BlockSequence
<1>6. PICK r : r = e.result
  OBVIOUS
<1>7. Fits(insts[b], AtStart(b), n, on, r) /\ ~IsDirty(r)
  BY <1>1, <1>2, <1>5, <1>6 DEF PointerFits
<1>8. r \in {Unknown, Unlimited(b, n, as)}
  BY <1>4, <1>7, FittingIsTrue
<1> QED BY <1>1, <1>3, <1>5, <1>6, <1>8 DEF PointerTruth

LEMMA FreshAreTrue ==
    ASSUME FunctionOK, PointersOK, PointersFresh
    PROVE  PointerCachesFresh
<1> SUFFICES ASSUME NEW k \in DOMAIN nonLocalPointerDeps, NEW e \in ToSet(nonLocalPointerDeps[k].deps),
                    NEW loc, loc = LocOf(k, nonLocalPointerDeps[k]), ~IsDirty(e.result), e.result # Unknown
             PROVE  e.result = PointerTruth(loc, k.isLoad, FALSE, e.bb, Len(insts[e.bb]))
  BY DEF PointerCachesFresh, LocOf
<1>1. PICK deps \in Seq(Entries) : deps = nonLocalPointerDeps[k].deps
  BY DEF PointersOK, CachesOK, PointerCachesOK, Infos
<1>2. e \in Entries
  BY <1>1, CacheFields
<1>3. e.bb \in Blocks /\ PointerFits(loc, k.isLoad, e)
  BY <1>2, EntryFields DEF PointersFresh, PointerFresh
<1> QED BY <1>3, EntryTrue

(***************************************************************************)
(* What a query reports.  A cache of a pointer that is marked with the block   *)
(* of a query has no dirty result, so that it can be handed on as it is (lines *)
(* 1105 to 1154).  Every call asks for what the query asks for, or for a       *)
(* larger size, or without the tag.                                           *)
(***************************************************************************)
IsClean(deps) == \A e \in ToSet(deps) : ~IsDirty(e.result)
PairedClean ==
    \A k \in DOMAIN nonLocalPointerDeps :
        nonLocalPointerDeps[k].pair # NoPair => IsClean(nonLocalPointerDeps[k].deps)
Asks(f) ==
    /\ f.isLoad = job.query.isLoad
    /\ f.loc.size >= job.query.loc.size /\ f.loc.tag \in {job.query.loc.tag, Null}
StackAsks ==
    pc = "pointer" => job.query \in fn.pointerQueries /\ \A n \in 1..Len(stack) : Asks(stack[n])
ReportFits(e) ==
    \/ e.result = Unknown
    \/ /\ e.bb \in Blocks /\ ~IsDirty(e.result)
       /\ \E l \in Queries!Wider(job.query.loc, e.address) : PointerFits(l, job.query.isLoad, e)
ReportsFit == pc = "pointer" => \A e \in result : ReportFits(e)
Reporting == PairedClean /\ StackAsks
ReportInv == Reporting /\ (AllReached => ReportsFit)

\* The caches that change have no block of a query, or no dirty result.
LEMMA CleanKept ==
    ASSUME PairedClean, NEW new, new = nonLocalPointerDeps',
           \A k \in DOMAIN new :
              \/ new[k].pair = NoPair \/ IsClean(new[k].deps)
              \/ /\ k \in DOMAIN nonLocalPointerDeps /\ new[k].pair = nonLocalPointerDeps[k].pair
                 /\ new[k].deps = nonLocalPointerDeps[k].deps
    PROVE  PairedClean'
<1>1. \A k \in DOMAIN new : new[k].pair # NoPair => IsClean(new[k].deps)
  BY DEF PairedClean
<1> QED BY <1>1 DEF PairedClean, IsClean, IsDirty, NoPair

\* Resetting blocks and flags of caches.
LEMMA UnpairedClean ==
    ASSUME PairedClean, NEW keys, NEW f, nonLocalPointerDeps' = Unpaired(f, keys),
           \A k \in DOMAIN f : f[k] \in Infos /\ (f[k].pair # NoPair => IsClean(f[k].deps))
    PROVE  PairedClean'
<1>1. PICK new : new = nonLocalPointerDeps'
  OBVIOUS
<1>2. DOMAIN new = DOMAIN f
  BY <1>1, UnpairedSame
<1>3. ASSUME NEW k \in DOMAIN new
      PROVE  new[k].pair = NoPair \/ IsClean(new[k].deps)
  <2>1. f[k] \in Infos /\ (f[k].pair # NoPair => IsClean(f[k].deps))
    BY <1>2
  <2>2. [f[k] EXCEPT !.pair = NoPair].pair = NoPair
    BY <2>1 DEF Infos
  <2> QED BY <1>1, <1>2, <2>1, <2>2 DEF Unpaired
<1> QED BY <1>1, <1>3, CleanKept

\* The cache of the running call changes.
LEMMA SetInfoClean ==
    ASSUME PairedClean, NEW info, SetInfo(info), info.pair = NoPair \/ IsClean(info.deps)
    PROVE  PairedClean'
<1>1. PICK new : new = nonLocalPointerDeps'
  OBVIOUS
<1>2. /\ DOMAIN new = DOMAIN nonLocalPointerDeps \union {Key} /\ new[Key] = info
      /\ \A k \in DOMAIN nonLocalPointerDeps \ {Key} : new[k] = nonLocalPointerDeps[k]
  BY <1>1 DEF SetInfo, Put
<1> QED BY <1>1, <1>2, CleanKept

\* The cache of the running call, if it is marked with the block of a query.
LEMMA TopClean ==
    ASSUME PairedClean, Info.pair # NoPair
    PROVE  IsClean(Deps) /\ Key \in DOMAIN nonLocalPointerDeps
BY DEF PairedClean, Info, Deps, NewInfo

\* A block that is looked up leaves a clean result.
LEMMA LookupClean ==
    ASSUME FunctionOK, PointersOK, PairedClean, Lookup
    PROVE  PairedClean'
<1>1. Filling /\ Top.work # <<>> /\ (UNCHANGED nonLocalPointerDeps \/ Rescan(BlockDep))
  BY DEF Lookup, In, Filling
<1>2. CASE UNCHANGED nonLocalPointerDeps
  BY <1>2, CleanKept
<1>3. CASE Rescan(BlockDep)
  <2>1. PICK b, dep, sorted : b = Block /\ dep = BlockDep /\ sorted = Top.sorted
    OBVIOUS
  <2>2. PICK new : new = SetResult(Deps, sorted, b, dep)
    OBVIOUS
  <2>3. /\ CachesOK /\ StackOK /\ stack # <<>> /\ Deps \in Seq(Entries) /\ Distinct(Deps)
        /\ sorted \in 0..Len(Deps)
        /\ \A n \in sorted + 1..Len(Deps) : Deps[n].bb # b
    <3>1. Top.work \in Seq(Blocks) /\ Len(Top.work) \in 1..Len(Top.work) /\ b = Top.work[Len(Top.work)]
      BY <1>1, <2>1, FillingCall, FrontProperties DEF Block
    <3> QED BY <1>1, <2>1, <3>1, FillingCall
  <2>4. b \in Blocks /\ dep \in ResultsIn(b) /\ ~IsDirty(dep)
    BY <1>1, <2>1, BlockScanned
  <2>5. ToSet(new) = {e \in ToSet(Deps) : e.bb # b} \union {[bb |-> b, result |-> dep]}
    BY <2>2, <2>3, <2>4, SetResultMembers
  <2>6. PICK info : info = [Info EXCEPT !.deps = new]
    OBVIOUS
  <2>7. Info \in Infos
    BY <2>3, TopInfo
  <2>8. info.deps = new /\ info.pair = Info.pair
    BY <2>6, <2>7 DEF Infos
  <2>9. SetInfo(info)
    BY <1>3, <2>1, <2>2, <2>6 DEF Rescan, Deps
  <2>10. IsClean(Deps) => IsClean(new)
    BY <2>4, <2>5 DEF IsClean
  <2> QED BY <2>8, <2>9, <2>10, SetInfoClean, TopClean
<1> QED BY <1>1, <1>2, <1>3

\* The cache of the running call is sorted.
LEMMA SortTopClean ==
    ASSUME FunctionOK, PointersOK, PairedClean, Filling,
           SetInfo([Info EXCEPT !.deps = SortNonLocalDepInfoCache(@, Top.sorted)])
    PROVE  PairedClean'
<1>1. PICK new : new = SortNonLocalDepInfoCache(Deps, Top.sorted)
  OBVIOUS
<1>2. /\ CachesOK /\ StackOK /\ stack # <<>>
      /\ Deps \in Seq(Entries) /\ Top.sorted \in 0..Len(Deps) /\ SortedTo(Deps, Top.sorted)
  BY FillingCall
<1>3. ToSet(new) = ToSet(Deps)
  BY <1>1, <1>2, SortsTheRest DEF Permutes
<1>4. PICK info : info = [Info EXCEPT !.deps = new]
  OBVIOUS
<1>5. Info \in Infos
  BY <1>2, TopInfo
<1>6. info.deps = new /\ info.pair = Info.pair
  BY <1>4, <1>5 DEF Infos
<1>7. SetInfo(info)
  BY <1>1, <1>4 DEF Deps
<1> QED BY <1>3, <1>6, <1>7, SetInfoClean, TopClean DEF IsClean

\* Each step of getNonLocalPointerDepFromBB.
LEMMA PointerStepClean ==
    ASSUME FunctionOK, PointersOK, PairedClean, PointerStep
    PROVE  PairedClean'
<1>1. /\ CachesOK /\ StackOK
      /\ \A k \in DOMAIN nonLocalPointerDeps :
            /\ nonLocalPointerDeps[k] \in Infos
            /\ nonLocalPointerDeps[k].pair # NoPair => IsClean(nonLocalPointerDeps[k].deps)
  BY DEF PointersOK, CachesOK, PointerCachesOK, PairedClean
<1>2. stack # <<>> => Info \in Infos /\ Deps = Info.deps
  BY <1>1, TopInfo
<1>3. CASE ThrowOutSmaller \/ ThrowOutTagged
  <2>1. stack # <<>>
    BY <1>3 DEF ThrowOutSmaller, ThrowOutTagged, In
  <2>2. PICK info : ThrowOut(info) /\ (\/ info = [Info EXCEPT !.size = Top.loc.size]
                                       \/ info = [Info EXCEPT !.tag = Null])
    BY <1>3 DEF ThrowOutSmaller, ThrowOutTagged
  <2>3. [info EXCEPT !.pair = NoPair, !.deps = <<>>].pair = NoPair
    BY <1>2, <2>1, <2>2 DEF Infos
  <2> QED BY <2>2, <2>3, SetInfoClean DEF ThrowOut
<1>4. CASE Begin
  <2>1. stack # <<>>
    BY <1>4 DEF Begin, In
  <2>2. PICK pair : SetInfo([Info EXCEPT !.pair = pair]) /\ (pair = NoPair \/ Info.deps = <<>>)
    BY <1>4 DEF Begin
  <2>3. [Info EXCEPT !.pair = pair].pair = pair /\ [Info EXCEPT !.pair = pair].deps = Info.deps
    BY <1>2, <2>1 DEF Infos
  <2>4. Info.deps = <<>> => IsClean(Info.deps)
    BY DEF IsClean, ToSet
  <2> QED BY <2>2, <2>3, <2>4, SetInfoClean
<1>5. CASE Lookup
  BY <1>5, LookupClean
<1>6. CASE PassTranslated \/ Return
  BY <1>6, SortTopClean DEF PassTranslated, Return, In, Filling
<1>7. CASE ReturnConflict \/ UnknownPred \/ PredsDone
  BY <1>1, <1>7, UnpairedClean DEF ReturnConflict, UnknownPred, PredsDone
<1>8. CASE TranslationFailsAtFirst
  <2>1. Filling /\ stack # <<>>
    BY <1>8 DEF TranslationFailsAtFirst, In, Filling
  <2>2. PICK info : info = [Info EXCEPT !.deps = FailedDeps, !.pair = NoPair]
    OBVIOUS
  <2>3. FailedDeps \in Seq(Entries)
    BY <2>1, FailedDepsSame
  <2>4. info \in Infos /\ info.pair = NoPair
    BY <1>2, <2>1, <2>2, <2>3 DEF Infos, NoPair
  <2>5. PICK put : put = Put(nonLocalPointerDeps, Key, info)
    OBVIOUS
  <2>6. \A k \in DOMAIN put : put[k] \in Infos /\ (put[k].pair # NoPair => IsClean(put[k].deps))
    BY <1>1, <2>4, <2>5 DEF Put
  <2>7. nonLocalPointerDeps' = Unpaired(put, CallerKeys)
    BY <1>8, <2>2, <2>5 DEF TranslationFailsAtFirst
  <2> QED BY <2>6, <2>7, UnpairedClean
<1>9. CASE TranslationFails
  <2>1. stack # <<>>
    BY <1>9 DEF TranslationFails, In
  <2>2. PICK deps : SetInfo([Info EXCEPT !.deps = deps, !.pair = NoPair])
    BY <1>9 DEF TranslationFails
  <2>3. [Info EXCEPT !.deps = deps, !.pair = NoPair].pair = NoPair
    BY <1>2, <2>1 DEF Infos
  <2> QED BY <2>2, <2>3, SetInfoClean
<1>10. CASE \/ RestartWithSize \/ RestartWithoutTag \/ ReturnCached \/ SkipFirstBlock
            \/ PassUntranslated \/ Recurse \/ EndPointerQuery
  <2>1. UNCHANGED nonLocalPointerDeps
    BY <1>10 DEF RestartWithSize, RestartWithoutTag, ReturnCached, SkipFirstBlock, PassUntranslated,
                 Recurse, EndPointerQuery, caches
  <2> QED BY <2>1, CleanKept
<1> QED BY <1>3, <1>4, <1>5, <1>6, <1>7, <1>8, <1>9, <1>10 DEF PointerStep

\* A step that is not one of a query of a pointer, nor begins one.
LEMMA NoQueryRuns ==
    [Next]_vars => \/ PointerStep \/ (\E query \in fn.pointerQueries : AskPointer(query))
                   \/ pc' # "pointer" \/ UNCHANGED <<fn, insts, nonLocalPointerDeps, running>>
<1>1. ASSUME NEW q, GetCachedDependency(q) \/ GetDependency(q) \/ GetCachedCallDependency(q)
                    \/ GetNonLocalCallDependency(q)
      PROVE  pc' # "pointer"
  BY <1>1 DEF GetCachedDependency, GetDependency, GetCachedCallDependency,
              GetNonLocalCallDependency, CallQuery, Idle, running
<1>2. ASSUME NEW i, RemoveInstruction(i) \/ InvalidateCachedPointerInfo(i)
      PROVE  pc' # "pointer"
  BY <1>2 DEF RemoveInstruction, InvalidateCachedPointerInfo, Idle, running
<1>3. ReleaseMemory => pc' # "pointer"
  BY DEF ReleaseMemory, Idle, running
<1>4. CallStep => pc' # "pointer"
  BY DEF CallStep, SkipDirtyBlock, ScanDirtyBlock, EndCallQuery, InCall
<1>5. RequestFails \/ StepFails \/ UNCHANGED vars
         => UNCHANGED <<fn, insts, nonLocalPointerDeps, running>>
  BY DEF RequestFails, StepFails, Fail, vars, caches
<1> QED BY <1>1, <1>2, <1>3, <1>4, <1>5 DEF Next, Client

\* A call has the location it was made for, with another pointer, the size of its
\* cache if that is larger (lines 1075 to 1078), or without the tag (1083 to 1101).
LEMMA PointerStepAsks ==
    ASSUME FunctionOK, PointersOK, StackAsks, PointerStep
    PROVE  StackAsks'
<1>1. CASE EndPointerQuery
  BY <1>1 DEF EndPointerQuery, StackAsks
<1> SUFFICES ASSUME ~EndPointerQuery, NEW n \in 1..Len(stack')
             PROVE  Asks(stack'[n])
  <2>1. ~EndPointerQuery => job' = job /\ fn' = fn /\ pc' = pc
    BY DEF PointerStep, ThrowOutSmaller, RestartWithSize, ThrowOutTagged, RestartWithoutTag,
           ReturnCached, ReturnConflict, Begin, Lookup, SkipFirstBlock, PassUntranslated,
           PassTranslated, UnknownPred, Recurse, PredsDone, TranslationFailsAtFirst,
           TranslationFails, Return, running
  <2> QED BY <1>1, <2>1 DEF StackAsks, Asks
<1>2. pc = "pointer" /\ stack # <<>> /\ StackOK /\ CachesOK
  BY DEF PointerStep, ThrowOutSmaller, RestartWithSize, ThrowOutTagged, RestartWithoutTag,
         ReturnCached, ReturnConflict, Begin, Lookup, SkipFirstBlock, PassUntranslated,
         PassTranslated, UnknownPred, Recurse, PredsDone, TranslationFailsAtFirst,
         TranslationFails, Return, In, PointersOK
<1>3. /\ Top \in Frames /\ Asks(Top) /\ \A m \in 2..Len(stack) : Asks(stack[m])
      /\ Info.size \in fn.sizes /\ fn.sizes \subseteq Nat /\ job.query.loc.size \in fn.sizes
  <2>1. Len(stack) \in Nat \ {0} /\ Top = stack[1] /\ Top \in Frames /\ Info.size \in fn.sizes
    BY <1>2, TopFrame, TopInfo
  <2>2. fn.sizes \subseteq Nat /\ job.query.loc.size \in fn.sizes
    BY <1>2, FunctionsAssumption DEF FunctionOK, StackAsks
  <2> QED BY <1>2, <2>1, <2>2 DEF StackAsks
<1>4. \/ \E g : Become(g) /\ Asks(g)
      \/ \E g, h : stack' = <<g, h>> \o Tail(stack) /\ Asks(g) /\ Asks(h)
      \/ stack' = stack \/ stack' = Tail(stack)
  <2>1. CASE ThrowOutSmaller \/ ThrowOutTagged
    BY <2>1 DEF ThrowOutSmaller, ThrowOutTagged, running
  <2>2. CASE RestartWithSize \/ RestartWithoutTag
    <3>1. ASSUME RestartWithSize
          PROVE  Asks([Top EXCEPT !.loc.size = Info.size])
      BY <1>3, <3>1 DEF RestartWithSize, Asks, Frames
    <3>2. Asks([Top EXCEPT !.loc.tag = Null])
      BY <1>3 DEF Asks, Frames
    <3> QED BY <2>2, <3>1, <3>2 DEF RestartWithSize, RestartWithoutTag
  <2>3. CASE ReturnCached \/ ReturnConflict \/ TranslationFailsAtFirst \/ Return
    BY <2>3 DEF ReturnCached, ReturnConflict, TranslationFailsAtFirst, Return, ReturnUnknown
  <2>4. CASE \/ Begin \/ Lookup \/ SkipFirstBlock \/ PassUntranslated \/ PassTranslated
             \/ UnknownPred \/ PredsDone \/ TranslationFails
    <3> DEFINE Same(g) == g.loc = Top.loc /\ g.isLoad = Top.isLoad
    <3>1. \A mode, work, sorted : Same([Top EXCEPT !.mode = mode, !.work = work, !.sorted = sorted])
      BY <1>3 DEF Frames
    <3>2. \A mode, bb, work : Same([Top EXCEPT !.mode = mode, !.bb = bb, !.work = work])
      BY <1>3 DEF Frames
    <3>3. /\ \A work : Same([Top EXCEPT !.work = work])
          /\ \A mode, bb, work : Same([[Top EXCEPT !.work = work] EXCEPT !.mode = mode, !.bb = bb])
      BY <1>3 DEF Frames
    <3>4. /\ \A mode, work : Same([Top EXCEPT !.mode = mode, !.skip = FALSE, !.work = work])
          /\ \A mode, preds : Same([Top EXCEPT !.mode = mode, !.preds = preds])
      BY <1>3 DEF Frames
    <3>5. /\ \A preds : Same([Top EXCEPT !.preds = preds])
          /\ \A mode, sorted : /\ Same([Top EXCEPT !.mode = mode, !.skip = FALSE, !.sorted = sorted])
                               /\ Same([Top EXCEPT !.mode = mode, !.sorted = sorted])
      BY <1>3 DEF Frames
    <3> HIDE DEF Same
    <3>6. Begin => \E g : Become(g) /\ Same(g)
      BY <3>1, Zenon DEF Begin
    <3>7. SkipFirstBlock => \E g : Become(g) /\ Same(g)
      BY <3>2, Zenon DEF SkipFirstBlock
    <3>8. Lookup => \E g : Become(g) /\ Same(g)
      BY <3>3, Zenon DEF Lookup
    <3>9. PassUntranslated \/ PassTranslated => \E g : Become(g) /\ Same(g)
      BY <3>4, Zenon DEF PassUntranslated, PassTranslated
    <3>10. UnknownPred \/ PredsDone \/ TranslationFails => \E g : Become(g) /\ Same(g)
      BY <3>5, Zenon DEF UnknownPred, PredsDone, TranslationFails
    <3>11. PICK g : Become(g) /\ Same(g)
      BY <2>4, <3>6, <3>7, <3>8, <3>9, <3>10
    <3> QED BY <1>3, <3>11 DEF Asks, Same
  <2>5. CASE Recurse
    <3>1. PICK g, h : stack' = <<g, h>> \o Tail(stack)
             /\ \E ptr, start : g = Frame([Top.loc EXCEPT !.ptr = ptr], Top.isLoad, start, FALSE)
             /\ \E preds : h = [Top EXCEPT !.preds = preds]
      BY <2>5 DEF Recurse
    <3>2. /\ g.loc.size = Top.loc.size /\ g.loc.tag = Top.loc.tag /\ g.isLoad = Top.isLoad
          /\ h.loc = Top.loc /\ h.isLoad = Top.isLoad
      BY <1>3, <3>1 DEF Frame, Frames
    <3>3. Asks(g) /\ Asks(h)
      BY <1>3, <3>2 DEF Asks
    <3> QED BY <3>1, <3>3
  <2> QED BY <1>1, <2>1, <2>2, <2>3, <2>4, <2>5 DEF PointerStep
<1>5. CASE \E g : Become(g) /\ Asks(g)
  BY <1>2, <1>3, <1>5, StackPositions DEF Become
<1>6. CASE \E g, h : stack' = <<g, h>> \o Tail(stack) /\ Asks(g) /\ Asks(h)
  BY <1>2, <1>3, <1>6, StackPositions
<1>7. CASE stack' = stack \/ stack' = Tail(stack)
  BY <1>2, <1>3, <1>7, StackPositions DEF StackAsks
<1> QED BY <1>4, <1>5, <1>6, <1>7

\* Each step of the analysis: a removal takes the block of a query from every cache
\* that it changes.
LEMMA ReportingStep == AnalysisOK /\ Reporting /\ [Next]_vars => Reporting'
<1> SUFFICES ASSUME FunctionOK, PointersOK, PairedClean, StackAsks, [Next]_vars
             PROVE  PairedClean' /\ StackAsks'
  BY DEF AnalysisOK, Reporting
<1>1. PairedClean'
  <2>1. CASE UNCHANGED nonLocalPointerDeps
    BY <2>1, CleanKept
  <2>2. ASSUME NEW i, RemoveInstruction(i)
        PROVE  PairedClean'
    <3>1. PICK new : new = nonLocalPointerDeps'
      OBVIOUS
    <3>2. \A k \in DOMAIN nonLocalPointerDeps : nonLocalPointerDeps[k] \in Infos
      BY DEF PointersOK, CachesOK, PointerCachesOK
    <3>3. ASSUME NEW k \in DOMAIN nonLocalPointerDeps, NEW deps
          PROVE  [nonLocalPointerDeps[k] EXCEPT !.pair = NoPair, !.deps = deps].pair = NoPair
      BY <3>2 DEF Infos
    <3>4. \A k \in DOMAIN new :
             k \in DOMAIN nonLocalPointerDeps /\ (new[k].pair = NoPair \/ new[k] = nonLocalPointerDeps[k])
      BY <2>2, <3>1, <3>3 DEF RemoveInstruction, RemovePointers
    <3> QED BY <3>1, <3>4, CleanKept
  <2>3. ASSUME NEW p, InvalidateCachedPointerInfo(p)
        PROVE  PairedClean'
    BY <2>3, CleanKept DEF InvalidateCachedPointerInfo, Without
  <2>4. CASE ReleaseMemory
    BY <2>4, CleanKept DEF ReleaseMemory, Empty
  <2>5. CASE Client
    BY <2>1, <2>2, <2>3, <2>4, <2>5, ClientPointers DEF AskPointer, caches, PointersUnchanged
  <2>6. CASE CallStep \/ RequestFails \/ StepFails \/ UNCHANGED vars
    BY <2>1, <2>6, OtherStepsLeavePointers DEF PointersUnchanged
  <2> QED BY <2>5, <2>6, PointerStepClean DEF Next
<1>2. StackAsks'
  <2>1. ASSUME NEW query \in fn.pointerQueries, AskPointer(query)
        PROVE  StackAsks'
    <3>1. PICK g : g = Frame(query.loc, query.isLoad, query.from, TRUE)
      OBVIOUS
    <3>2. /\ Len(stack') = 1 /\ stack'[1] = g /\ fn' = fn /\ job'.query = query
      BY <2>1, <3>1 DEF AskPointer, NoJob
    <3>3. g.isLoad = query.isLoad /\ g.loc = query.loc /\ query.loc.size \in Nat
      BY <3>1, FunctionsAssumption DEF Frame, FunctionOK
    <3> QED BY <3>2, <3>3 DEF StackAsks, Asks
  <2>2. CASE UNCHANGED <<fn, insts, nonLocalPointerDeps, running>>
    BY <2>2 DEF StackAsks, Asks, running
  <2>3. CASE pc' # "pointer"
    BY <2>3 DEF StackAsks
  <2> QED BY <2>1, <2>2, <2>3, NoQueryRuns, PointerStepAsks
<1> QED BY <1>1, <1>2

\* What is reported fits for as long as the query and the instructions stay.
LEMMA SameReportFits ==
    ASSUME UNCHANGED <<fn, insts>>, job'.query = job.query
    PROVE  \A e : ReportFits(e)' <=> ReportFits(e)
<1>1. Blocks' = Blocks
  BY SameFunction
<1>2. PICK load : load = job.query.isLoad
  OBVIOUS
<1>3. \A l, e : PointerFits(l, load, e)' <=> PointerFits(l, load, e)
  BY SamePointerFits
<1>4. \A loc, p : Queries!Wider(loc, p)' = Queries!Wider(loc, p)
  BY DEF Queries!Wider
<1> QED BY <1>1, <1>2, <1>3, <1>4 DEF ReportFits, Unknown, IsDirty

\* A clean result for the location of the running call is one the query may report.
LEMMA ReportedFits ==
    ASSUME FunctionOK, StackOK, StackAsks, stack # <<>>, NEW b \in Blocks, NEW dep, ~IsDirty(dep),
           PointerFits(Top.loc, Top.isLoad, [bb |-> b, result |-> dep])
    PROVE  ReportFits(Reported(b, dep))
<1>1. PICK e : e = Entry(b, dep, Top.loc.ptr)
  OBVIOUS
<1>2. e.bb = b /\ e.result = dep /\ e.address = Top.loc.ptr
  BY <1>1 DEF Entry
<1>3. Top \in Frames /\ Asks(Top)
  <2>1. Len(stack) \in Nat \ {0} /\ Top = stack[1] /\ pc = "pointer" /\ Top \in Frames
    BY TopFrame
  <2> QED BY <2>1 DEF StackAsks
<1>4. Top.loc \in Queries!Wider(job.query.loc, Top.loc.ptr)
  BY <1>3 DEF Asks, Frames, Queries!Wider
<1>5. PointerFits(Top.loc, job.query.isLoad, e)
  BY <1>2, <1>3 DEF PointerFits, Asks
<1>6. ReportFits(e)
  BY <1>2, <1>4, <1>5 DEF ReportFits
<1>7. Entry(b, Unknown, Top.loc.ptr).result = Unknown
  BY DEF Entry
<1> QED BY <1>1, <1>6, <1>7 DEF Reported, ReportFits

\* Each step of a query adds what the running call found, what a complete cache has
\* (lines 1105 to 1154), or that it is unknown.
LEMMA PointerStepReports ==
    ASSUME FunctionOK, PointersOK, Running, Reporting, ReportsFit, PointerStep
    PROVE  ReportsFit'
<1>1. CASE EndPointerQuery
  BY <1>1 DEF EndPointerQuery, ReportsFit
<1>2. CASE ~EndPointerQuery
  <2>1. pc = "pointer" /\ UNCHANGED <<fn, insts, job>>
    BY <1>2 DEF PointerStep, ThrowOutSmaller, RestartWithSize, ThrowOutTagged, RestartWithoutTag,
           ReturnCached, ReturnConflict, Begin, Lookup, SkipFirstBlock, PassUntranslated,
           PassTranslated, UnknownPred, Recurse, PredsDone, TranslationFailsAtFirst,
           TranslationFails, Return, In, running
  <2>2. \A e \in result : ReportFits(e)
    BY <2>1 DEF ReportsFit
  <2>3. \A e \in result' : ReportFits(e)
    <3>1. CASE result' = result
      BY <2>2, <3>1
    <3>2. CASE \E b, p : result' = result \union {Entry(b, Unknown, p)}
      <4>1. \A b, p : ReportFits(Entry(b, Unknown, p))
        BY DEF Entry, ReportFits
      <4> QED BY <2>2, <3>2, <4>1
    <3>3. CASE Lookup
      <4>1. Filling /\ Top.mode = "loop" /\ Top.work # <<>> /\ stack # <<>> /\ StackOK
        BY <3>3 DEF Lookup, In, Filling, PointersOK
      <4>2. PICK b, dep : b = Block /\ dep = BlockDep
        OBVIOUS
      <4>3. b \in Blocks /\ ~IsDirty(dep) /\ PointerFits(Top.loc, Top.isLoad, [bb |-> b, result |-> dep])
        BY <4>1, <4>2, BlockScanned, LookedUpFits
      <4>4. ReportFits(Reported(b, dep))
        BY <4>1, <4>3, ReportedFits DEF Reporting
      <4> QED BY <2>2, <3>3, <4>2, <4>4 DEF Lookup
    <3>4. CASE ReturnCached
      <4>1. /\ stack # <<>> /\ StackOK /\ CachesOK /\ Consistent /\ Info.pair # NoPair
        <5>1. stack # <<>> /\ StackOK /\ CachesOK /\ Consistent /\ CachedFrom(Top.start, Top.skip)
          BY <3>4 DEF ReturnCached, In, PointersOK
        <5>2. Top.start \in Blocks
          BY <5>1, TopFrame DEF Frames
        <5> QED BY <5>1, <5>2, NullIsNoBlock DEF FunctionOK, Blocks, CachedFrom, NoPair
      <4>2. IsClean(Deps) /\ Key \in DOMAIN nonLocalPointerDeps /\ Info = nonLocalPointerDeps[Key]
        BY <4>1, TopClean, TopInfo DEF Reporting
      <4>3. Deps \in Seq(Entries) /\ Top \in Frames
        BY <4>1, TopInfo, TopFrame
      <4>4. LocOf(Key, Info) = Top.loc /\ Key.isLoad = Top.isLoad
        BY <4>1, <4>3 DEF LocOf, Key, Consistent, Frames
      <4>5. ASSUME NEW d \in ToSet(Deps)
            PROVE  ReportFits(Reported(d.bb, d.result))
        <5>1. d.bb \in Blocks /\ d = [bb |-> d.bb, result |-> d.result]
          BY <4>3, CacheFields, EntryFields
        <5>2. ~IsDirty(d.result) /\ PointerFits(Top.loc, Top.isLoad, d)
          BY <4>2, <4>4 DEF IsClean, Running, PointersFresh, PointerFresh, Deps
        <5> QED BY <4>1, <5>1, <5>2, ReportedFits DEF Reporting
      <4> QED BY <2>2, <3>4, <4>5 DEF ReturnCached, Deps
    <3>5. \/ result' = result \/ Lookup \/ ReturnCached
          \/ \E b, p : result' = result \union {Entry(b, Unknown, p)}
      BY <1>2 DEF PointerStep, ThrowOutSmaller, RestartWithSize, ThrowOutTagged,
             RestartWithoutTag, ReturnConflict, ReturnUnknown, Begin, SkipFirstBlock,
             PassUntranslated, PassTranslated, UnknownPred, Recurse, PredsDone,
             TranslationFailsAtFirst, TranslationFails, Return, running
    <3> QED BY <3>1, <3>2, <3>3, <3>4, <3>5
  <2> QED BY <2>1, <2>3, SameReportFits DEF ReportsFit
<1> QED BY <1>1, <1>2

\* The invariant of what is reported, for every step of the analysis.
LEMMA ReportInvStep == AnalysisOK /\ PointerInv /\ ReportInv /\ [Next]_vars => ReportInv'
<1> SUFFICES ASSUME AnalysisOK, PointerInv, Reporting, AllReached => ReportsFit, [Next]_vars
             PROVE  ReportInv'
  BY DEF ReportInv
<1>1. Reporting'
  BY ReportingStep
<1>2. AllReached' <=> AllReached
  <2>1. fn' = fn
    BY StepsOfFunction DEF RemoveInstruction, FunctionUnchanged
  <2> QED BY <2>1 DEF AllReached, Blocks
<1>3. ASSUME AllReached
      PROVE  ReportsFit'
  <2>1. CASE PointerStep
    BY <1>3, <2>1, PointerStepReports DEF AnalysisOK, PointerInv
  <2>2. CASE UNCHANGED <<fn, insts, nonLocalPointerDeps, running>>
    BY <1>3, <2>2, SameReportFits DEF ReportsFit, running
  <2>3. (\E query \in fn.pointerQueries : AskPointer(query)) \/ pc' # "pointer" => ReportsFit'
    BY DEF AskPointer, ReportsFit
  <2> QED BY <2>1, <2>2, <2>3, NoQueryRuns
<1> QED BY <1>1, <1>2, <1>3 DEF ReportInv

LEMMA InitReports == Init => ReportInv
BY DEF Init, Empty, ReportInv, Reporting, PairedClean, StackAsks, ReportsFit

\* What is reported and fits is what a scan of its block would find now, or unknown.
LEMMA ReportsAreTrue ==
    ASSUME FunctionOK, ReportsFit
    PROVE  ReportsFresh
<1> SUFFICES ASSUME NEW e, ReportFits(e), e.result # Unknown
             PROVE  \E l \in Queries!Wider(job.query.loc, e.address) :
                       e.result = PointerTruth(l, job.query.isLoad, FALSE, e.bb, Len(insts[e.bb]))
  BY DEF ReportsFit, ReportsFresh
<1>1. PICK l \in Queries!Wider(job.query.loc, e.address) :
         e.bb \in Blocks /\ ~IsDirty(e.result) /\ PointerFits(l, job.query.isLoad, e)
  BY DEF ReportFits
<1> QED BY <1>1, EntryTrue

\* The entries of the caches of pointers that are neither dirty nor unknown are what a
\* scan of their block finds now, for the size and the tag that the cache is for, where
\* every block can be reached or it is not known which can: through the recursion of
\* getNonLocalPointerDepFromBB with calls that throw out the caches of other sizes and
\* tags (lines 1064 to 1101), the translation of pointers and its failures (1232 to
\* 1387), the resumption of dirty results (GetNonLocalInfoForBlock, 925 to 988), and
\* the removal of instructions, which moves the results that point at them. So is what
\* a query has reported (1135, 1184), for the size and the tag it asks for or wider ones.
THEOREM PointerCachesStayFresh == Spec => []ReachedFresh
<1>1. Spec => []AnalysisOK
  BY AnalysisStaysOK
<1>2. Init => PointerInv /\ ReportInv
  BY InitRunning, InitReports DEF PointerInv, Running
<1>3. AnalysisOK /\ PointerInv /\ ReportInv => ReachedFresh
  BY FreshAreTrue, ReportsAreTrue DEF AnalysisOK, PointerInv, Running, ReportInv, ReachedFresh
<1> QED BY <1>1, <1>2, <1>3, PointerInvStep, ReportInvStep, PTL DEF Spec
=============================================================================
