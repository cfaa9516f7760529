--------------------------- MODULE DispListProofs ---------------------------
(***************************************************************************)
(* Theorems about the screens of traces (DispList), for every set of       *)
(* traces, sort criteria, screen size and sequence of user actions.        *)
(***************************************************************************)
EXTENDS DispList, ListProofs

\* A list of traces that holds each at most once.
DList == {s \in Seq(Trcs) : Distinct(s)}

-----------------------------------------------------------------------------
(* What the operators on lists return.                                     *)

LEMMA EmptyList == <<>> \in DList /\ Elems(<<>>) = {}
BY DEF DList, Distinct, Elems

\* Elements of a list are traces, and its length counts its places.
LEMMA ListBasics ==
    ASSUME NEW s \in DList
    PROVE  /\ s \in Seq(Trcs) /\ Distinct(s) /\ Elems(s) \subseteq Trcs
           /\ Len(s) \in Nat /\ DOMAIN s = 1 .. Len(s)
           /\ (s = <<>> <=> Len(s) = 0) /\ (s = <<>> <=> Elems(s) = {})
           /\ \A k \in 1 .. Len(s) : s[k] \in Trcs
<1>1. s \in Seq(Trcs) /\ Distinct(s)
  BY DEF DList
<1>2. Len(s) \in Nat /\ DOMAIN s = 1 .. Len(s) /\ \A k \in 1 .. Len(s) : s[k] \in Trcs
  BY <1>1
<1>3. s = <<>> <=> Len(s) = 0
  BY <1>1
<1>4. Elems(s) = {} <=> Len(s) = 0
  <2>1. Len(s) # 0 => 1 \in DOMAIN s
    BY <1>2
  <2>2. Len(s) = 0 => DOMAIN s = {}
    BY <1>2
  <2> QED BY <2>1, <2>2 DEF Elems
<1>5. Elems(s) \subseteq Trcs
  BY <1>2 DEF Elems
<1> QED BY <1>1, <1>2, <1>3, <1>4, <1>5

\* A run of a list of traces, after a of them and up to the b-th.
LEMMA RunIsList ==
    ASSUME NEW s \in DList, NEW a \in 0 .. Len(s), NEW b \in a .. Len(s)
    PROVE  /\ SubSeq(s, a + 1, b) \in DList
           /\ Len(SubSeq(s, a + 1, b)) = b - a
           /\ Elems(SubSeq(s, a + 1, b)) = {s[k] : k \in a + 1 .. b}
           /\ Elems(SubSeq(s, a + 1, b)) \subseteq Elems(s)
BY RunProperties, ListBasics DEF DList

\* FromIndex: a window of the list, empty exactly when it begins outside of it.
LEMMA FromIndexIsList ==
    ASSUME NEW s \in DList, NEW from \in Int, NEW n \in Nat \ {0}
    PROVE  /\ FromIndex(s, from, n) \in DList
           /\ Elems(FromIndex(s, from, n)) \subseteq Elems(s)
           /\ from \notin 0 .. Len(s) - 1 => FromIndex(s, from, n) = <<>>
           /\ from \in 0 .. Len(s) - 1 =>
                /\ FromIndex(s, from, n) # <<>>
                /\ Len(FromIndex(s, from, n)) = IF from + n < Len(s) THEN n ELSE Len(s) - from
                /\ Elems(FromIndex(s, from, n))
                     = {s[k] : k \in {k \in 1 .. Len(s) : from < k /\ k <= from + n}}
<1>0. Len(s) \in Nat
  BY ListBasics
<1>1. CASE from \notin 0 .. Len(s) - 1
  BY <1>0, <1>1, EmptyList DEF FromIndex
<1>2. CASE from \in 0 .. Len(s) - 1
  <2> DEFINE b == IF from + n < Len(s) THEN from + n ELSE Len(s)
             r == SubSeq(s, from + 1, b)
  <2>1. from \in 0 .. Len(s) /\ b \in from .. Len(s) /\ b > from
    BY <1>0, <1>2
  <2>2. FromIndex(s, from, n) = r
    BY <1>0, <1>2 DEF FromIndex
  <2>3. from + 1 .. b = {k \in 1 .. Len(s) : from < k /\ k <= from + n}
    BY <1>0, <1>2
  <2>4. b - from = IF from + n < Len(s) THEN n ELSE Len(s) - from
    BY <1>0, <1>2
  <2> HIDE DEF b
  <2>5. r \in DList /\ Len(r) = b - from /\ Elems(r) = {s[k] : k \in from + 1 .. b}
        /\ Elems(r) \subseteq Elems(s)
    BY <2>1, RunIsList
  <2>6. r # <<>>
    <3>1. b - from # 0
      BY <2>1, <1>0, <1>2
    <3> QED BY <3>1, <2>5, ListBasics
  <2> HIDE DEF r
  <2> QED BY <1>2, <2>2, <2>3, <2>4, <2>5, <2>6
<1> QED BY <1>1, <1>2

\* Gathered: a run from the place asked for, of traces that start within Spread
\* of the first, and not empty.
LEMMA GatheredIsRun ==
    ASSUME NEW s \in DList, NEW from \in 0 .. Len(s) - 1
    PROVE  \E end \in from + 1 .. Len(s) :
             /\ Gathered(s, from) = SubSeq(s, from + 1, end)
             /\ \A k \in from + 1 .. end : Epochs[s[k]] - Epochs[s[from + 1]] <= Spread
<1> DEFINE N == Len(s)
           first == Epochs[s[from + 1]]
           far == {k \in from + 1 .. N : Epochs[s[k]] - first > Spread}
           least == CHOOSE k \in far : \A j \in far : k <= j
           end == IF far = {} THEN N ELSE least - 1
<1>0. N \in Nat /\ from \in 0 .. N - 1 /\ from \in Nat /\ \A k \in 1 .. N : s[k] \in Trcs
  BY ListBasics
<1>1. \A k \in 1 .. N : Epochs[s[k]] \in Nat
  BY <1>0, DispAssumption
<1>1a. Spread \in Nat /\ first \in Nat
  BY <1>0, <1>1, DispAssumption
<1>2. Gathered(s, from) = SubSeq(s, from + 1, end)
  BY DEF Gathered
<1>3. CASE far = {}
  <2>1. end = N /\ N \in from + 1 .. N
    BY <1>3, <1>0
  <2>2. ASSUME NEW k \in from + 1 .. N PROVE Epochs[s[k]] - first <= Spread
    <3>1. k \notin far
      BY <1>3
    <3>2. k \in 1 .. N
      BY <1>0
    <3> HIDE DEF first
    <3> QED BY <3>1, <3>2, <1>0, <1>1, <1>1a
  <2> QED BY <1>2, <2>1, <2>2
<1>4. CASE far # {}
  <2>1. far \in SUBSET Nat
    BY <1>0
  <2> HIDE DEF far
  <2>2. least \in far /\ \A j \in far : least <= j
    BY <2>1, <1>4, LeastElement
  <2>3. end = least - 1
    BY <1>4
  <2> HIDE DEF least, end, first
  <2>4. least \in from + 1 .. N /\ Epochs[s[least]] - first > Spread
    BY <2>2 DEF far, N
  <2>5. least # from + 1
    BY <2>4, <1>1a DEF first
  <2>6. end \in from + 1 .. N
    BY <1>0, <2>3, <2>4, <2>5
  <2>7. ASSUME NEW k \in from + 1 .. end PROVE Epochs[s[k]] - first <= Spread
    <3>1. k < least /\ k \in from + 1 .. N /\ k \in 1 .. N
      BY <1>0, <2>3, <2>4, <2>6
    <3>2. k \notin far
      BY <3>1, <2>2, <2>1, <1>0
    <3>3. ~(Epochs[s[k]] - first > Spread)
      BY <3>1, <3>2 DEF far
    <3> QED BY <3>1, <3>3, <1>1, <1>1a
  <2> QED BY <1>2, <2>6, <2>7 DEF first
<1> QED BY <1>3, <1>4

LEMMA GatheredIsList ==
    ASSUME NEW s \in DList, NEW from \in 0 .. Len(s) - 1
    PROVE  /\ Gathered(s, from) \in DList
           /\ Elems(Gathered(s, from)) \subseteq Elems(s)
           /\ Len(Gathered(s, from)) \in 1 .. Len(s) - from
           /\ Gathered(s, from) = SubSeq(s, from + 1, from + Len(Gathered(s, from)))
           /\ \A k \in from + 1 .. from + Len(Gathered(s, from)) :
                 Epochs[s[k]] - Epochs[s[from + 1]] <= Spread
<1>1. Len(s) \in Nat
  BY ListBasics
<1>2. PICK end \in from + 1 .. Len(s) :
             /\ Gathered(s, from) = SubSeq(s, from + 1, end)
             /\ \A k \in from + 1 .. end : Epochs[s[k]] - Epochs[s[from + 1]] <= Spread
  BY GatheredIsRun
<1>3. from \in 0 .. Len(s) /\ end \in from .. Len(s)
  BY <1>1
<1>4. /\ Gathered(s, from) \in DList /\ Len(Gathered(s, from)) = end - from
      /\ Elems(Gathered(s, from)) \subseteq Elems(s)
  BY <1>2, <1>3, RunIsList
<1>5. from + Len(Gathered(s, from)) = end /\ end - from \in 1 .. Len(s) - from
  BY <1>1, <1>4
<1> QED BY <1>2, <1>4, <1>5

\* sortList, where the criterion it is given exists: the same traces.
LEMMA sortListIsList ==
    ASSUME NEW s \in DList, NEW crit \in Nat, ~NoCriterion(s, crit)
    PROVE  /\ sortList(s, crit) \in DList
           /\ Elems(sortList(s, crit)) = Elems(s)
           /\ Len(sortList(s, crit)) = Len(s)
<1>1. CASE Len(s) < 2
  BY <1>1 DEF sortList
<1>2. CASE ~(Len(s) < 2)
  <2>0. Len(s) \in Nat /\ s \in Seq(Trcs) /\ Distinct(s)
    BY ListBasics
  <2>1. crit + 1 \in DOMAIN Criteria
    BY <1>2, <2>0, DispAssumption DEF NoCriterion
  <2>2. Criteria[crit + 1] \in [Trcs -> Nat]
    BY <2>1, DispAssumption
  <2>2a. Criteria[crit + 1] \in [Trcs -> Int]
    BY <2>2
  <2>3. sortList(s, crit) = StableSort(s, Criteria[crit + 1])
    BY <1>2 DEF sortList
  <2> DEFINE key == Criteria[crit + 1]
  <2> HIDE DEF key
  <2>4. /\ StableSort(s, key) \in Seq(Trcs) /\ Len(StableSort(s, key)) = Len(s)
        /\ Elems(StableSort(s, key)) = Elems(s) /\ Distinct(StableSort(s, key))
    BY <2>0, <2>2a, SortProperties DEF key
  <2> QED BY <2>3, <2>4 DEF DList, key
<1> QED BY <1>1, <1>2

\* The list sorted by a key of the user's.
LEMMA SortedIsList ==
    ASSUME NEW s \in DList, NEW key \in [Trcs -> Int]
    PROVE  /\ StableSort(s, key) \in DList
           /\ Elems(StableSort(s, key)) = Elems(s)
           /\ Len(StableSort(s, key)) = Len(s)
BY SortProperties DEF DList

LEMMA NumberedType ==
    ASSUME NEW pos \in [Trcs -> Int], NEW s \in Seq(Trcs), NEW first \in Int
    PROVE  Numbered(pos, s, first) \in [Trcs -> Int]
<1> SUFFICES ASSUME NEW x \in Trcs, x \in Elems(s)
             PROVE  first + (CHOOSE k \in DOMAIN s : s[k] = x) - 1 \in Int
  BY DEF Numbered
<1> DEFINE n == CHOOSE k \in DOMAIN s : s[k] = x
<1>1. n \in DOMAIN s
  BY DEF Elems
<1>2. DOMAIN s \subseteq Nat
  OBVIOUS
<1> HIDE DEF n
<1>3. first + n - 1 \in Int
  BY <1>1, <1>2
<1> QED BY <1>3 DEF n

-----------------------------------------------------------------------------
(* What makeDispList leaves.                                               *)

Modes == {"TRACE", "GATHER"}

\* g is a list of traces of t.
PartOf(g, t) == g \in DList /\ Elems(g) \subseteq Elems(t)

LEMMA PlotCountsType == \A p \in PlotCounts : p \in Nat \ {0}
BY DispAssumption

LEMMA StartsType ==
    ASSUME NEW start \in Int, NEW p \in Nat \ {0}, NEW n \in Nat
    PROVE  PrevStart(start, p) \in Int /\ NextStart(start, p, n) \in Int
BY DEF PrevStart, NextStart

\* The next group before it is sorted.
LEMMA NextGroupOfIsPart ==
    ASSUME NEW tr \in DList, NEW n \in Nat, n <= Len(tr), NEW m \in Modes, NEW p \in Nat \ {0},
           NEW start \in Int, NEW cur \in DList
    PROVE  PartOf(NextGroupOf(tr, n, m, p, start, cur), tr)
<1>0. Len(tr) \in Nat /\ Len(cur) \in Nat
  BY ListBasics
<1>1. CASE m = "TRACE"
  <2>1. NextStart(start, p, n) \in Int
    BY DEF NextStart
  <2> DEFINE from == NextStart(start, p, n)
  <2> HIDE DEF from
  <2>2. PartOf(FromIndex(tr, from, p), tr)
    BY <2>1, FromIndexIsList DEF from, PartOf
  <2> QED BY <1>1, <2>2 DEF NextGroupOf, from
<1>2. CASE m # "TRACE" /\ (start + Len(cur) < 0 \/ start + Len(cur) >= n)
  BY <1>2, EmptyList DEF NextGroupOf, PartOf
<1>3. CASE m # "TRACE" /\ ~(start + Len(cur) < 0 \/ start + Len(cur) >= n)
  <2>1. start + Len(cur) \in 0 .. Len(tr) - 1
    BY <1>0, <1>3
  <2> DEFINE from == start + Len(cur)
  <2> HIDE DEF from
  <2>2. PartOf(Gathered(tr, from), tr)
    BY <2>1, GatheredIsList DEF from, PartOf
  <2> QED BY <1>3, <2>2 DEF NextGroupOf, from
<1> QED BY <1>1, <1>2, <1>3

\* The next group as sortList leaves it.
LEMMA NextGroupIsPart ==
    ASSUME NEW run \in DList, NEW m \in Modes, NextGroup(run, m)
    PROVE  /\ nextGrp' \in DList /\ Elems(nextGrp') \subseteq Elems(run) /\ crashed' \in BOOLEAN
           /\ m = "TRACE" => nextGrp' = run /\ crashed' = FALSE
           /\ ~crashed' => Elems(nextGrp') = Elems(run) /\ Len(nextGrp') = Len(run)
<1>1. CASE m = "TRACE"
  <2>1. nextGrp' = run /\ crashed' = FALSE
    BY <1>1 DEF NextGroup
  <2> QED BY <2>1
<1>2. CASE m # "TRACE" /\ NoCriterion(run, SORTINSTID)
  <2>1. nextGrp' = <<>> /\ crashed' = TRUE
    BY <1>2 DEF NextGroup, Modes
  <2> QED BY <1>2, <2>1, EmptyList
<1>3. CASE m # "TRACE" /\ ~NoCriterion(run, SORTINSTID)
  <2>1. nextGrp' = sortList(run, SORTINSTID) /\ crashed' = FALSE
    BY <1>3 DEF NextGroup
  <2>2. SORTINSTID \in Nat
    BY DEF SORTINSTID
  <2> QED BY <1>3, <2>1, <2>2, sortListIsList
<1> QED BY <1>1, <1>2, <1>3

\* INITGROUP in trace mode: the windows at start, before and after it.
LEMMA InitGroupTrace ==
    ASSUME NEW tr \in DList, NEW n \in Nat, n <= Len(tr), NEW p \in Nat \ {0},
           NEW start \in Int, InitGroup(tr, n, "TRACE", p, start)
    PROVE  /\ traces' = tr /\ crashed' = FALSE
           /\ curGrp' = FromIndex(tr, start, p)
           /\ prevGrp' = FromIndex(tr, PrevStart(start, p), p)
           /\ nextGrp' = FromIndex(tr, NextStart(start, p, n), p)
<1>1. /\ traces' = tr
      /\ curGrp' = FromIndex(tr, start, p)
      /\ prevGrp' = FromIndex(tr, PrevStart(start, p), p)
      /\ NextGroup(NextGroupOf(tr, n, "TRACE", p, start, curGrp'), "TRACE")
  BY DEF InitGroup
<1>2. NextGroupOf(tr, n, "TRACE", p, start, curGrp') = FromIndex(tr, NextStart(start, p, n), p)
  BY DEF NextGroupOf
<1>3. /\ nextGrp' = NextGroupOf(tr, n, "TRACE", p, start, curGrp')
      /\ crashed' = FALSE
  BY <1>1 DEF NextGroup
<1> QED BY <1>1, <1>2, <1>3

\* INITGROUP in gather mode: it stops at a NULL, or sorts the list and gathers
\* from its first trace.
LEMMA InitGroupGather ==
    ASSUME NEW tr \in DList, NEW n \in Nat, n <= Len(tr), NEW p \in Nat \ {0},
           NEW start \in Int, InitGroup(tr, n, "GATHER", p, start)
    PROVE  \/ /\ crashed' = TRUE /\ traces' = tr
              /\ curGrp' = <<>> /\ prevGrp' = <<>> /\ nextGrp' = <<>>
           \/ /\ tr # <<>> /\ ~NoCriterion(tr, SORTSTARTTIME)
              /\ traces' = sortList(tr, SORTSTARTTIME)
              /\ PartOf(traces', tr) /\ Elems(traces') = Elems(tr) /\ Len(traces') = Len(tr)
              /\ curGrp' = sortList(Gathered(traces', 0), SORTINSTID)
              /\ curGrp' \in DList /\ Elems(curGrp') = Elems(Gathered(traces', 0))
              /\ Len(curGrp') = Len(Gathered(traces', 0))
              /\ prevGrp' = <<>>
              /\ NextGroup(NextGroupOf(traces', n, "GATHER", p, start, curGrp'), "GATHER")
<1>1. CASE tr = <<>> \/ NoCriterion(tr, SORTSTARTTIME)
  BY <1>1 DEF InitGroup
<1>2. CASE ~(tr = <<>> \/ NoCriterion(tr, SORTSTARTTIME))
  <2>0. SORTSTARTTIME \in Nat /\ SORTINSTID \in Nat
    BY DEF SORTSTARTTIME, SORTINSTID
  <2>1. /\ traces' = sortList(tr, SORTSTARTTIME)
        /\ curGrp' = sortList(Gathered(traces', 0), SORTINSTID)
        /\ prevGrp' = <<>>
        /\ NextGroup(NextGroupOf(traces', n, "GATHER", p, start, curGrp'), "GATHER")
    BY <1>2 DEF InitGroup
  <2>2. traces' \in DList /\ Elems(traces') = Elems(tr) /\ Len(traces') = Len(tr)
    BY <1>2, <2>0, <2>1, sortListIsList
  <2>3. Len(tr) \in Nat /\ Len(tr) # 0 /\ 0 \in 0 .. Len(traces') - 1
    BY <1>2, <2>2, ListBasics
  <2>4. Gathered(traces', 0) \in DList /\ Len(Gathered(traces', 0)) \in 1 .. Len(tr)
    BY <2>2, <2>3, GatheredIsList
  <2>5. ~NoCriterion(Gathered(traces', 0), SORTINSTID)
    <3>1. Len(Criteria) \in Nat
      BY DispAssumption
    <3> QED BY <3>1, <1>2, <2>3, <2>4 DEF NoCriterion, SORTSTARTTIME, SORTINSTID
  <2>6. /\ curGrp' \in DList /\ Elems(curGrp') = Elems(Gathered(traces', 0))
        /\ Len(curGrp') = Len(Gathered(traces', 0))
    BY <2>0, <2>1, <2>4, <2>5, sortListIsList
  <2> QED BY <1>2, <2>1, <2>2, <2>6 DEF PartOf
<1> QED BY <1>1, <1>2

\* INITGROUP: the same traces, in another order in gather mode, and groups of
\* them that hold each at most once.
LEMMA InitGroupParts ==
    ASSUME NEW tr \in DList, NEW n \in Nat, n <= Len(tr), NEW m \in Modes, NEW p \in Nat \ {0},
           NEW start \in Int, InitGroup(tr, n, m, p, start)
    PROVE  /\ traces' \in DList /\ Elems(traces') = Elems(tr) /\ Len(traces') = Len(tr)
           /\ numTraces' = n /\ startRec' = start /\ origin' = start /\ prevList' = <<>>
           /\ PartOf(curGrp', tr) /\ PartOf(prevGrp', tr) /\ PartOf(nextGrp', tr)
           /\ crashed' \in BOOLEAN
<1>0. numTraces' = n /\ startRec' = start /\ origin' = start /\ prevList' = <<>>
  BY DEF InitGroup
<1>1. CASE m = "TRACE"
  <2>0. InitGroup(tr, n, "TRACE", p, start)
    BY <1>1
  <2>1. /\ traces' = tr /\ crashed' = FALSE
        /\ curGrp' = FromIndex(tr, start, p)
        /\ prevGrp' = FromIndex(tr, PrevStart(start, p), p)
        /\ nextGrp' = FromIndex(tr, NextStart(start, p, n), p)
    BY <2>0, InitGroupTrace
  <2>2. PrevStart(start, p) \in Int /\ NextStart(start, p, n) \in Int
    BY StartsType
  <2> DEFINE a == PrevStart(start, p)
             b == NextStart(start, p, n)
  <2> HIDE DEF a, b
  <2>3. PartOf(FromIndex(tr, a, p), tr) /\ PartOf(FromIndex(tr, b, p), tr)
        /\ PartOf(FromIndex(tr, start, p), tr)
    BY <2>2, FromIndexIsList DEF PartOf, a, b
  <2>4. crashed' \in BOOLEAN
    BY <2>1
  <2> QED BY <1>0, <2>1, <2>3, <2>4 DEF a, b
<1>2. CASE m = "GATHER"
  <2>0. InitGroup(tr, n, "GATHER", p, start)
    BY <1>2
  <2>1. CASE /\ crashed' = TRUE /\ traces' = tr
             /\ curGrp' = <<>> /\ prevGrp' = <<>> /\ nextGrp' = <<>>
    <3>1. crashed' \in BOOLEAN
      BY <2>1
    <3> QED BY <1>0, <2>1, <3>1, EmptyList DEF PartOf
  <2>2. CASE /\ tr # <<>>
             /\ PartOf(traces', tr) /\ Elems(traces') = Elems(tr) /\ Len(traces') = Len(tr)
             /\ curGrp' \in DList /\ Elems(curGrp') = Elems(Gathered(traces', 0))
             /\ prevGrp' = <<>>
             /\ NextGroup(NextGroupOf(traces', n, "GATHER", p, start, curGrp'), "GATHER")
    <3>1. traces' \in DList /\ Len(traces') \in Nat /\ 0 \in 0 .. Len(traces') - 1
      BY <2>2, ListBasics DEF PartOf
    <3>2. Elems(curGrp') \subseteq Elems(tr)
      BY <3>1, <2>2, GatheredIsList
    <3> DEFINE run == NextGroupOf(traces', n, "GATHER", p, start, curGrp')
    <3>3. PartOf(run, traces')
      <4>1. "GATHER" \in Modes /\ n <= Len(traces')
        BY <2>2 DEF Modes
      <4> QED BY <4>1, <2>2, <3>1, NextGroupOfIsPart
    <3> HIDE DEF run
    <3>4. nextGrp' \in DList /\ Elems(nextGrp') \subseteq Elems(run) /\ crashed' \in BOOLEAN
      <4>1. "GATHER" \in Modes /\ NextGroup(run, "GATHER")
        BY <2>2 DEF Modes, run
      <4> QED BY <4>1, <3>3, NextGroupIsPart DEF PartOf
    <3> QED BY <1>0, <2>2, <3>1, <3>2, <3>3, <3>4, EmptyList DEF PartOf
  <2> QED BY <2>0, <2>1, <2>2, InitGroupGather
<1> QED BY <1>1, <1>2 DEF Modes

-----------------------------------------------------------------------------
(* The lists: types, and that nothing outside of the list is kept.         *)

\* Lists of traces, each trace in a list at most once.
ListsOK ==
    /\ traces \in DList /\ selection \in DList
    /\ prevGrp \in DList /\ curGrp \in DList /\ nextGrp \in DList
    /\ prevList \in Seq(DList)
    /\ numTraces \in Nat /\ numTraces <= Len(traces)

OthersOK ==
    /\ startRec \in Int /\ mode \in Modes /\ numPlots \in PlotCounts
    /\ selected \subseteq Trcs /\ position \in [Trcs -> Int] /\ hasData \subseteq Trcs
    /\ prevStart \in Int /\ prevPlots \in Nat
    /\ state \in {"READDATA", "DATADONE"} /\ redraw \in {"no", "keep", "reset"}
    /\ origin \in Int

FlagsOK == crashed \in BOOLEAN /\ sortFile \in BOOLEAN

\* A replacing open that found nothing leaves no list and no selection.
EmptiedInv == "emptied" \in since => traces = <<>> /\ numTraces = 0 /\ selection = <<>>

\* The stack of earlier groups holds traces of the list.
StackIn(st, t) == \A k \in 1 .. Len(st) : Elems(st[k]) \subseteq Elems(t)

HeldInv ==
    "emptied" \notin since =>
        /\ Elems(prevGrp) \subseteq Elems(traces) /\ Elems(curGrp) \subseteq Elems(traces)
        /\ Elems(nextGrp) \subseteq Elems(traces) /\ Elems(selection) \subseteq Elems(traces)
        /\ StackIn(prevList, traces)

ListInv == ListsOK /\ OthersOK /\ FlagsOK /\ EmptiedInv /\ HeldInv

LEMMA InitListInv == Init => ListInv
<1> SUFFICES ASSUME Init PROVE ListInv
  OBVIOUS
<1>1. ListsOK
  <2>1. <<>> \in Seq(DList) /\ Len(<<>>) = 0
    OBVIOUS
  <2> QED BY <2>1, EmptyList DEF Init, ListsOK
<1>2. OthersOK
  BY DEF Init, OthersOK, Modes
<1>3. crashed \in BOOLEAN
  BY DEF Init
<1>4. sortFile \in BOOLEAN
  BY DEF Init
<1>5. EmptiedInv
  BY DEF Init, EmptiedInv
<1>6. HeldInv
  BY EmptyList DEF Init, HeldInv, StackIn
<1> QED BY <1>1, <1>2, <1>3, <1>4, <1>5, <1>6 DEF ListInv, FlagsOK

\* The positions gather mode gives.
LEMMA GatherNumbersType ==
    ASSUME NEW pos \in [Trcs -> Int], NEW start \in Int,
           traces' \in DList, curGrp' \in DList, nextGrp' \in DList
    PROVE  GatherNumbers(pos, start) \in [Trcs -> Int]
<1> DEFINE a == Numbered(pos, traces', start)
           b == Numbered(a, curGrp', start)
           c == Numbered(b, nextGrp', start)
<1>0. traces' \in Seq(Trcs) /\ curGrp' \in Seq(Trcs) /\ nextGrp' \in Seq(Trcs)
  BY DEF DList
<1>1. a \in [Trcs -> Int]
  BY <1>0, NumberedType
<1> HIDE DEF a
<1>2. b \in [Trcs -> Int]
  BY <1>0, <1>1, NumberedType
<1> HIDE DEF b
<1>3. c \in [Trcs -> Int]
  BY <1>0, <1>2, NumberedType
<1> QED BY <1>3 DEF a, b, c, GatherNumbers

\* Whatever rebuilds the groups keeps the invariant.
LEMMA RebuiltListInv ==
    ASSUME NEW tr \in DList, NEW n \in Nat, n <= Len(tr), NEW m \in Modes, NEW p \in PlotCounts,
           NEW start \in Int, InitGroup(tr, n, m, p, start),
           mode' = m, numPlots' = p, sortFile' \in BOOLEAN,
           position' \in [Trcs -> Int], selected' \subseteq Trcs, hasData' \subseteq Trcs,
           prevStart' \in Int, prevPlots' \in Nat,
           state' \in {"READDATA", "DATADONE"}, redraw' \in {"no", "keep", "reset"},
           selection' \in DList, Elems(selection') \subseteq Elems(tr),
           "emptied" \in since' => tr = <<>> /\ n = 0 /\ selection' = <<>>
    PROVE  ListInv'
<1>0. p \in Nat \ {0}
  BY PlotCountsType
<1>1. /\ traces' \in DList /\ Elems(traces') = Elems(tr) /\ Len(traces') = Len(tr)
      /\ numTraces' = n /\ startRec' = start /\ origin' = start /\ prevList' = <<>>
      /\ PartOf(curGrp', tr) /\ PartOf(prevGrp', tr) /\ PartOf(nextGrp', tr)
      /\ crashed' \in BOOLEAN
  BY <1>0, InitGroupParts
<1>2. ListsOK'
  BY <1>1 DEF ListsOK, PartOf
<1>3. OthersOK'
  BY <1>1 DEF OthersOK
<1>4. FlagsOK'
  BY <1>1, Zenon DEF FlagsOK
<1>5. EmptiedInv'
  <2>1. tr = <<>> => traces' = <<>>
    BY <1>1, ListBasics
  <2> QED BY <2>1, <1>1 DEF EmptiedInv
<1>6. HeldInv'
  BY <1>1 DEF HeldInv, PartOf, StackIn
<1> QED BY <1>2, <1>3, <1>4, <1>5, <1>6 DEF ListInv

\* Deselecting empties the selection or leaves it.
LEMMA DeselectedKeeps ==
    ASSUME ListsOK, selected \subseteq Trcs, Deselected
    PROVE  /\ selected' \subseteq Trcs /\ selection' \in DList
           /\ Elems(selection') \subseteq Elems(selection)
           /\ selection = <<>> => selection' = <<>>
<1>1. CASE numTraces = 0
  BY <1>1 DEF Deselected, selVars, ListsOK
<1>2. CASE numTraces # 0
  BY <1>2, EmptyList DEF Deselected, selVars, ListsOK
<1> QED BY <1>1, <1>2

-----------------------------------------------------------------------------
(* Each action keeps the lists.                                            *)

LEMMA RestartListInv ==
    ASSUME ListInv, NEW start \in Int, NEW newState \in {"READDATA", "DATADONE"},
           Restart(start, newState), UNCHANGED <<selVars, dataVars, modeVars>>
    PROVE  ListInv'
<1>0. numPlots \in Nat \ {0}
  BY PlotCountsType DEF ListInv, OthersOK
<1>1. InitGroup(traces, numTraces, mode, numPlots, start)
  BY DEF Restart
<1>2. /\ traces \in DList /\ numTraces \in Nat /\ numTraces <= Len(traces) /\ mode \in Modes
      /\ numPlots \in PlotCounts /\ position \in [Trcs -> Int] /\ selection \in DList
  BY DEF ListInv, ListsOK, OthersOK
<1>3. traces' \in DList /\ curGrp' \in DList /\ nextGrp' \in DList
  BY <1>0, <1>1, <1>2, InitGroupParts DEF PartOf
<1>4. position' \in [Trcs -> Int]
  BY <1>2, <1>3, GatherNumbersType DEF Restart
<1>5. /\ mode' = mode /\ numPlots' = numPlots /\ sortFile' = sortFile
      /\ selected' = selected /\ selection' = selection
      /\ hasData' = hasData /\ prevStart' = prevStart /\ prevPlots' = prevPlots
  BY DEF selVars, dataVars, modeVars
<1>6. state' \in {"READDATA", "DATADONE"} /\ redraw' \in {"no", "keep", "reset"}
  BY DEF Restart
<1>7. "emptied" \in since' => "emptied" \in since
  BY DEF Restart, MovedBy
<1>8. "emptied" \in since' => traces = <<>> /\ numTraces = 0 /\ selection = <<>>
  BY <1>7 DEF ListInv, EmptiedInv
<1>9. Elems(selection) \subseteq Elems(traces)
  BY EmptyList DEF ListInv, EmptiedInv, HeldInv
<1>10. sortFile' \in BOOLEAN
  BY <1>5 DEF ListInv, FlagsOK
<1>11. selected' \subseteq Trcs /\ hasData' \subseteq Trcs /\ prevStart' \in Int /\ prevPlots' \in Nat
  BY <1>5 DEF ListInv, OthersOK
<1>12. "emptied" \in since' => traces = <<>> /\ numTraces = 0 /\ selection' = <<>>
  BY <1>5, <1>8
<1>13. selection' \in DList /\ Elems(selection') \subseteq Elems(traces)
  BY <1>2, <1>5, <1>9
<1> QED BY <1>1, <1>2, <1>4, <1>5, <1>6, <1>10, <1>11, <1>12, <1>13, RebuiltListInv

\* The selection is of the list, also when the list was emptied.
LEMMA SelectionHeld == ListInv => Elems(selection) \subseteq Elems(traces)
BY EmptyList DEF ListInv, EmptiedInv, HeldInv

LEMMA newStartListInv == ListInv /\ newStart => ListInv'
<1> SUFFICES ASSUME ListInv, newStart PROVE ListInv'
  OBVIOUS
<1>1. /\ traces \in DList /\ curGrp \in DList /\ selection \in DList /\ startRec \in Int
      /\ position \in [Trcs -> Int]
  BY DEF ListInv, ListsOK, OthersOK
<1>2. PICK start \in 0 .. Len(traces) - 1
                    \cup {startRec + r : r \in 0 .. Len(curGrp) - 1}
                    \cup {position[selection[k]] : k \in DOMAIN selection} :
         start <= MaxStart /\ Restart(start, "READDATA")
  BY DEF newStart
<1>3. start \in Int
  <2>1. Len(traces) \in Nat /\ Len(curGrp) \in Nat
    BY <1>1, ListBasics
  <2>2. \A k \in DOMAIN selection : selection[k] \in Trcs
    BY <1>1, ListBasics
  <2> QED BY <2>1, <2>2, <1>1, <1>2
<1>4. UNCHANGED <<selVars, dataVars, modeVars>>
  BY DEF newStart
<1> QED BY <1>2, <1>3, <1>4, RestartListInv

LEMMA moveToFirstListInv == ListInv /\ moveToFirst => ListInv'
<1> SUFFICES ASSUME ListInv, moveToFirst PROVE ListInv'
  OBVIOUS
<1>1. PICK row \in 0 .. numPlots - 1 : Restart(startRec + row, state)
  BY DEF moveToFirst
<1>2. startRec + row \in Int /\ state \in {"READDATA", "DATADONE"}
  BY PlotCountsType DEF ListInv, OthersOK
<1>3. UNCHANGED <<selVars, dataVars, modeVars>>
  BY DEF moveToFirst
<1> QED BY <1>1, <1>2, <1>3, RestartListInv


\* The panel's two buttons: the groups rebuilt from start.
LEMMA PanelListInv ==
    ASSUME ListInv, traces # <<>>, NEW m \in Modes, NEW p \in PlotCounts, NEW start \in Int,
           mode' = m, numPlots' = p, UNCHANGED sortFile,
           InitGroup(traces, numTraces, m, p, start),
           position' = IF m = "GATHER" THEN GatherNumbers(position, start) ELSE position,
           state' = "READDATA", redraw' \in {"no", "keep", "reset"}, since' = since \cup MovedBy(m),
           UNCHANGED <<selVars, dataVars>>
    PROVE  ListInv'
<1>0. p \in Nat \ {0}
  BY PlotCountsType
<1>1. /\ traces \in DList /\ numTraces \in Nat /\ numTraces <= Len(traces)
      /\ position \in [Trcs -> Int] /\ selection \in DList
  BY DEF ListInv, ListsOK, OthersOK
<1>2. traces' \in DList /\ curGrp' \in DList /\ nextGrp' \in DList
  BY <1>0, <1>1, InitGroupParts DEF PartOf
<1>3. position' \in [Trcs -> Int]
  BY <1>1, <1>2, GatherNumbersType
<1>4. "emptied" \notin since'
  BY DEF MovedBy, ListInv, EmptiedInv
<1>5. sortFile' \in BOOLEAN
  BY DEF ListInv, FlagsOK
<1>6. selected' \subseteq Trcs /\ hasData' \subseteq Trcs /\ prevStart' \in Int /\ prevPlots' \in Nat
  BY DEF ListInv, OthersOK, selVars, dataVars
<1>7. selection' \in DList /\ Elems(selection') \subseteq Elems(traces)
  BY <1>1, SelectionHeld DEF selVars
<1> QED BY <1>1, <1>3, <1>4, <1>5, <1>6, <1>7, RebuiltListInv

LEMMA restartWithListInv ==
    ASSUME ListInv, NEW m \in Modes, NEW p \in PlotCounts, restartWith(m, p)
    PROVE  ListInv'
<1>1. /\ traces # <<>> /\ mode' = m /\ numPlots' = p /\ UNCHANGED sortFile
      /\ InitGroup(traces, numTraces, m, p, 0)
      /\ position' = IF m = "GATHER" THEN GatherNumbers(position, 0) ELSE position
      /\ state' = "READDATA" /\ redraw' = "reset" /\ since' = since \cup MovedBy(m)
      /\ UNCHANGED <<selVars, dataVars>>
  BY DEF restartWith
<1> QED BY <1>1, PanelListInv

\* A step that leaves the lists, the groups and the selection.
LEMMA ListsKept ==
    ASSUME ListInv, UNCHANGED <<listVars, prevGrp, curGrp, nextGrp, prevList, selection, since>>,
           UNCHANGED <<startRec, position, crashed, sortFile>>,
           mode' \in Modes, numPlots' \in PlotCounts, origin' \in Int,
           selected' \subseteq Trcs, hasData' \subseteq Trcs,
           prevStart' \in Int, prevPlots' \in Nat,
           state' \in {"READDATA", "DATADONE"}, redraw' \in {"no", "keep", "reset"}
    PROVE  ListInv'
<1>1. ListsOK'
  BY DEF ListInv, ListsOK, listVars
<1>2. OthersOK'
  BY DEF ListInv, OthersOK
<1>3. FlagsOK'
  BY DEF ListInv, FlagsOK
<1>4. EmptiedInv'
  BY DEF ListInv, EmptiedInv, listVars
<1>5. HeldInv'
  BY DEF ListInv, HeldInv, listVars, StackIn
<1> QED BY <1>1, <1>2, <1>3, <1>4, <1>5 DEF ListInv

LEMMA continueWithListInv ==
    ASSUME ListInv, NEW m \in Modes, NEW p \in PlotCounts, continueWith(m, p)
    PROVE  ListInv'
<1>0. /\ traces # <<>> /\ mode' = m /\ numPlots' = p /\ UNCHANGED sortFile
      /\ redraw' = "keep" /\ since' = since \cup MovedBy(m)
      /\ UNCHANGED <<selVars, dataVars>>
  BY DEF continueWith
<1>1. CASE p # numPlots
  <2>1. /\ InitGroup(traces, numTraces, m, p, startRec)
        /\ position' = IF m = "GATHER" THEN GatherNumbers(position, startRec) ELSE position
        /\ state' = "READDATA"
    BY <1>1 DEF continueWith
  <2>2. startRec \in Int
    BY DEF ListInv, OthersOK
  <2> QED BY <1>0, <2>1, <2>2, PanelListInv
<1>2. CASE p = numPlots
  <2>1. UNCHANGED <<listVars, startRec, prevGrp, curGrp, nextGrp, prevList, position, crashed, state>>
    BY <1>2 DEF continueWith
  <2>1a. origin' = IF m # mode THEN -1 ELSE origin
    BY <1>2 DEF continueWith
  <2>2. /\ ListsOK' /\ OthersOK'
    BY <1>0, <2>1, <2>1a DEF ListInv, ListsOK, OthersOK, listVars, selVars, dataVars
  <2>3. FlagsOK'
    BY <1>0, <2>1 DEF ListInv, FlagsOK
  <2>4. "emptied" \notin since /\ "emptied" \notin since'
    BY <1>0 DEF MovedBy, ListInv, EmptiedInv
  <2>5. EmptiedInv'
    BY <2>4 DEF EmptiedInv
  <2>6. HeldInv'
    BY <1>0, <2>1, <2>4 DEF ListInv, HeldInv, listVars, selVars, StackIn
  <2> QED BY <2>2, <2>3, <2>5, <2>6 DEF ListInv
<1> QED BY <1>1, <1>2

LEMMA controlPanelListInv == ListInv /\ controlPanel => ListInv'
<1> SUFFICES ASSUME ListInv, controlPanel PROVE ListInv'
  OBVIOUS
<1>1. PICK m \in (IF "gather" \in Features THEN {"TRACE", "GATHER"} ELSE {mode}),
           p \in (IF "resize" \in Features THEN PlotCounts ELSE {numPlots}) :
             continueWith(m, p) \/ restartWith(m, p)
  BY DEF controlPanel
<1>2. m \in Modes /\ p \in PlotCounts
  BY <1>1 DEF ListInv, OthersOK, Modes
<1> QED BY <1>1, <1>2, continueWithListInv, restartWithListInv

\* The selection made anew is of the current group.
LEMMA SelectionIsPart ==
    ASSUME NEW grp \in DList, NEW sel, NEW pos \in [Trcs -> Int]
    PROVE  SelectionOf(grp, sel, pos) \in DList /\ Elems(SelectionOf(grp, sel, pos)) \subseteq Elems(grp)
<1>1. Only(grp, sel) \in DList /\ Elems(Only(grp, sel)) \subseteq Elems(grp)
  BY OnlyProperties DEF DList
<1> DEFINE s == Only(grp, sel)
<1> HIDE DEF s
<1>2. StableSort(s, pos) \in DList /\ Elems(StableSort(s, pos)) = Elems(s)
  BY <1>1, SortedIsList DEF s
<1> QED BY <1>1, <1>2 DEF SelectionOf, s

LEMMA selectTracesListInv == ListInv /\ selectTraces => ListInv'
<1> SUFFICES ASSUME ListInv, selectTraces PROVE ListInv'
  OBVIOUS
<1>0. UNCHANGED <<listVars, groups, dataVars, modeVars, state, since>> /\ redraw' = "keep"
  BY DEF selectTraces
<1>1. curGrp \in DList /\ position \in [Trcs -> Int]
  BY DEF ListInv, ListsOK, OthersOK
<1>2. PICK s \in {Elems(curGrp)} \cup {{x} : x \in Elems(curGrp)} : selected' = selected \cup s
  BY DEF selectTraces
<1>3. selected' \subseteq Trcs
  <2>1. Elems(curGrp) \subseteq Trcs
    BY <1>1, ListBasics
  <2> QED BY <2>1, <1>2 DEF ListInv, OthersOK
<1>4. selection' \in DList /\ Elems(selection') \subseteq Elems(curGrp)
  <2>1. selection' = SelectionOf(curGrp, selected', position)
    BY DEF selectTraces
  <2> QED BY <1>1, <2>1, SelectionIsPart
<1>5. "emptied" \notin since
  BY DEF selectTraces, ListInv, EmptiedInv
<1>6. ListsOK'
  BY <1>0, <1>4 DEF ListInv, ListsOK, listVars, groups
<1>7. OthersOK'
  BY <1>0, <1>3 DEF ListInv, OthersOK, groups, dataVars, modeVars
<1>8. FlagsOK'
  BY <1>0 DEF ListInv, FlagsOK, groups, modeVars
<1>9. EmptiedInv'
  BY <1>0, <1>5 DEF EmptiedInv
<1>10. HeldInv'
  BY <1>0, <1>4, <1>5 DEF ListInv, HeldInv, StackIn, listVars, groups
<1> QED BY <1>6, <1>7, <1>8, <1>9, <1>10 DEF ListInv

\* Where Remove lets the screen begin.
RemoveStart(left) == IF startRec >= Len(left) THEN Len(left) - numPlots ELSE startRec

LEMMA removeSelectedListInv == ListInv /\ removeSelected => ListInv'
<1> SUFFICES ASSUME ListInv, removeSelected PROVE ListInv'
  OBVIOUS
<1> DEFINE left == Without(traces, Elems(selection))
           start == RemoveStart(left)
           renumbered == Numbered(position, left, 0)
<1>0. /\ traces \in DList /\ position \in [Trcs -> Int] /\ startRec \in Int /\ mode \in Modes
      /\ numPlots \in PlotCounts /\ numPlots \in Nat \ {0}
  BY PlotCountsType DEF ListInv, ListsOK, OthersOK
<1>1. /\ InitGroup(left, Len(left), mode, numPlots, start)
      /\ position' = IF mode = "GATHER" /\ left # <<>> THEN GatherNumbers(renumbered, start)
                     ELSE renumbered
      /\ hasData' = hasData \ Elems(selection) /\ selected' = selected \ Elems(selection)
      /\ selection' = <<>> /\ redraw' = "reset" /\ since' = since \cup {"moved", "unread"}
      /\ UNCHANGED <<prevStart, prevPlots, modeVars, state>> /\ selection # <<>>
  BY DEF removeSelected, RemoveStart
<1>2. left \in DList
  BY <1>0, WithoutProperties DEF DList
<1> HIDE DEF left
<1>3. Len(left) \in Nat /\ left \in Seq(Trcs)
  BY <1>2, ListBasics
<1>4. start \in Int
  BY <1>0, <1>3 DEF RemoveStart
<1>5. renumbered \in [Trcs -> Int]
  BY <1>0, <1>3, NumberedType
<1> HIDE DEF start, renumbered
<1>6. traces' \in DList /\ curGrp' \in DList /\ nextGrp' \in DList
  BY <1>0, <1>1, <1>2, <1>3, <1>4, InitGroupParts DEF PartOf
<1>7. position' \in [Trcs -> Int]
  BY <1>1, <1>4, <1>5, <1>6, GatherNumbersType
<1>8. "emptied" \notin since'
  BY <1>1 DEF ListInv, EmptiedInv
<1>9. selection' \in DList /\ Elems(selection') \subseteq Elems(left)
  BY <1>1, EmptyList
<1>10. /\ selected' \subseteq Trcs /\ hasData' \subseteq Trcs /\ prevStart' \in Int /\ prevPlots' \in Nat
       /\ state' \in {"READDATA", "DATADONE"} /\ redraw' \in {"no", "keep", "reset"}
       /\ mode' = mode /\ numPlots' = numPlots
  BY <1>1 DEF ListInv, OthersOK, modeVars
<1>11. sortFile' \in BOOLEAN
  BY <1>1 DEF ListInv, FlagsOK, modeVars
<1>12. Len(left) <= Len(left)
  BY <1>3
<1> QED BY <1>0, <1>1, <1>2, <1>3, <1>4, <1>7, <1>8, <1>9, <1>10, <1>11, <1>12, RebuiltListInv

LEMMA SortKeysType == \A key \in SortKeys : key \in [Trcs -> Int]
<1> SUFFICES ASSUME NEW key \in SortKeys PROVE key \in [Trcs -> Int]
  OBVIOUS
<1>1. key \in [Trcs -> Nat]
  BY DispAssumption
<1> QED BY <1>1

LEMMA sortTracesListInv == ListInv /\ sortTraces => ListInv'
<1> SUFFICES ASSUME ListInv, sortTraces PROVE ListInv'
  OBVIOUS
<1>0. /\ traces \in DList /\ position \in [Trcs -> Int] /\ startRec \in Int /\ mode \in Modes
      /\ numPlots \in PlotCounts /\ numPlots \in Nat \ {0} /\ numTraces \in Nat
      /\ numTraces <= Len(traces) /\ 0 \in Int
  BY PlotCountsType DEF ListInv, ListsOK, OthersOK
<1>1. /\ mode = "TRACE" /\ traces # <<>> /\ Deselected /\ redraw' = "reset"
      /\ UNCHANGED <<dataVars, modeVars>>
  BY DEF sortTraces
<1>2. PICK key \in SortKeys :
        LET list == StableSort(traces, key) IN
        /\ position' = Numbered(position, list, 0)
        /\ \/ /\ InitGroup(list, numTraces, mode, numPlots, startRec)
              /\ since' = since \cup {"moved", "unread"}
              /\ UNCHANGED state
           \/ /\ InitGroup(list, numTraces, mode, numPlots, 0)
              /\ state' = "READDATA"
              /\ since' = since \cup {"moved"}
  BY DEF sortTraces
<1> DEFINE list == StableSort(traces, key)
<1>3. list \in DList /\ Elems(list) = Elems(traces) /\ Len(list) = Len(traces)
  BY <1>0, SortKeysType, SortedIsList
<1>4. /\ position' = Numbered(position, list, 0)
      /\ \E start \in {0, startRec} : InitGroup(list, numTraces, mode, numPlots, start)
  BY <1>2
<1>5. "emptied" \notin since' /\ state' \in {"READDATA", "DATADONE"}
  BY <1>1, <1>2 DEF ListInv, EmptiedInv, OthersOK
<1> HIDE DEF list
<1>6. list \in Seq(Trcs)
  BY <1>3, ListBasics
<1>7. position' \in [Trcs -> Int]
  BY <1>0, <1>4, <1>6, NumberedType
<1>8. /\ selected' \subseteq Trcs /\ selection' \in DList /\ Elems(selection') \subseteq Elems(list)
  BY <1>1, <1>3, DeselectedKeeps, SelectionHeld DEF ListInv, OthersOK
<1>9. /\ hasData' \subseteq Trcs /\ prevStart' \in Int /\ prevPlots' \in Nat
      /\ mode' = mode /\ numPlots' = numPlots /\ redraw' \in {"no", "keep", "reset"}
  BY <1>1 DEF ListInv, OthersOK, modeVars, dataVars
<1>10. sortFile' \in BOOLEAN
  BY <1>1 DEF ListInv, FlagsOK, modeVars
<1>11. PICK start \in {0, startRec} : InitGroup(list, numTraces, mode, numPlots, start)
  BY <1>4
<1>12. start \in Int /\ numTraces <= Len(list)
  BY <1>0, <1>3
<1> QED BY <1>0, <1>3, <1>5, <1>7, <1>8, <1>9, <1>10, <1>11, <1>12, RebuiltListInv


\* The list after an open: the traces read, the last first, before the old ones.
LEMMA AddedIsList ==
    ASSUME NEW new \in DList, NEW old \in DList, Elems(new) \cap Elems(old) = {}
    PROVE  /\ Reverse(new) \o old \in DList
           /\ Len(Reverse(new) \o old) = Len(new) + Len(old)
           /\ Elems(Reverse(new) \o old) = Elems(new) \cup Elems(old)
<1>1. new \in Seq(Trcs) /\ Distinct(new) /\ old \in Seq(Trcs) /\ Distinct(old)
  BY DEF DList
<1>2. /\ Reverse(new) \in Seq(Trcs) /\ Len(Reverse(new)) = Len(new)
      /\ Elems(Reverse(new)) = Elems(new) /\ Distinct(Reverse(new))
  BY <1>1, ReversedElements
<1> DEFINE r == Reverse(new)
<1> HIDE DEF r
<1>3. /\ r \o old \in Seq(Trcs) /\ Len(r \o old) = Len(r) + Len(old)
      /\ Elems(r \o old) = Elems(r) \cup Elems(old) /\ Distinct(r \o old)
  BY <1>1, <1>2, ConcatenationProperties DEF r
<1> QED BY <1>2, <1>3 DEF DList, r

\* The old list, the count and the data an open begins with.
OldList(replace) == IF replace THEN <<>> ELSE traces
OldCount(replace) == IF replace THEN 0 ELSE numTraces
OldData(replace) == IF replace THEN {} ELSE hasData

\* The list an open that found traces makes, before the groups are rebuilt.
OpenedList(new, replace, key) ==
    IF mode = "TRACE" /\ ~sortFile THEN StableSort(Reverse(new) \o OldList(replace), key)
    ELSE Reverse(new) \o OldList(replace)

LEMMA OpenedIsList ==
    ASSUME ListInv, NEW new \in DList, Elems(new) \cap Elems(traces) = {},
           NEW replace \in BOOLEAN, NEW key \in SortKeys
    PROVE  /\ OpenedList(new, replace, key) \in DList
           /\ Len(OpenedList(new, replace, key)) = Len(new) + Len(OldList(replace))
           /\ Elems(OpenedList(new, replace, key)) = Elems(new) \cup Elems(OldList(replace))
<1> DEFINE old == OldList(replace)
           added == Reverse(new) \o old
<1>1. old \in DList /\ Elems(new) \cap Elems(old) = {}
  BY EmptyList DEF OldList, ListInv, ListsOK
<1> HIDE DEF old
<1>2. /\ added \in DList /\ Len(added) = Len(new) + Len(old)
      /\ Elems(added) = Elems(new) \cup Elems(old)
  BY <1>1, AddedIsList
<1> HIDE DEF added
<1>3. /\ StableSort(added, key) \in DList /\ Elems(StableSort(added, key)) = Elems(added)
      /\ Len(StableSort(added, key)) = Len(added)
  BY <1>2, SortKeysType, SortedIsList
<1>4. OpenedList(new, replace, key) \in {added, StableSort(added, key)}
  BY DEF OpenedList, added, old
<1> QED BY <1>2, <1>3, <1>4 DEF old

\* An open that finds traces, in parts.
LEMMA OpenFound ==
    ASSUME NEW new, NEW replace \in BOOLEAN, NEW read, new # <<>>, Open(new, replace, read)
    PROVE  /\ \E key \in SortKeys :
                /\ InitGroup(OpenedList(new, replace, key), OldCount(replace) + read, mode, numPlots, 0)
                /\ position' \in {Numbered(position, OpenedList(new, replace, key), 0),
                                  GatherNumbers(position, 0), position}
           /\ hasData' = OldData(replace)
           /\ selected' \subseteq selected
           /\ selection' = IF replace \/ mode = "TRACE" THEN <<>> ELSE selection
           /\ state' = "READDATA" /\ redraw' = "reset"
           /\ since' = (since \ {"emptied"}) \cup (IF OldData(replace) = {} THEN {} ELSE {"moved"})
           /\ UNCHANGED <<prevStart, prevPlots, mode, numPlots>>
           /\ sortFile' = FALSE
<1>1. PICK key \in SortKeys :
        /\ InitGroup(OpenedList(new, replace, key), OldCount(replace) + read, mode, numPlots, 0)
        /\ position' = IF mode = "TRACE" /\ ~sortFile THEN Numbered(position, OpenedList(new, replace, key), 0)
                       ELSE IF mode = "GATHER" THEN GatherNumbers(position, 0)
                       ELSE position
  BY DEF Open, OpenedList, OldList, OldCount
<1>2. position' \in {Numbered(position, OpenedList(new, replace, key), 0),
                     GatherNumbers(position, 0), position}
  BY <1>1
<1>3. /\ hasData' = OldData(replace)
      /\ selected' \subseteq selected
      /\ selection' = IF replace \/ mode = "TRACE" THEN <<>> ELSE selection
      /\ state' = "READDATA" /\ redraw' = "reset"
      /\ since' = (since \ {"emptied"}) \cup (IF OldData(replace) = {} THEN {} ELSE {"moved"})
      /\ UNCHANGED <<prevStart, prevPlots, mode, numPlots>>
  BY DEF Open, OldData
<1>4. sortFile' = FALSE
  BY DEF Open
<1> QED BY <1>1, <1>2, <1>3, <1>4

\* An open that finds none: a replacing one has freed all traces.
LEMMA OpenNone ==
    ASSUME NEW replace \in BOOLEAN, NEW read, Open(<<>>, replace, read)
    PROVE  /\ UNCHANGED <<startRec, prevGrp, nextGrp, prevList, position, origin, crashed,
                          selected, prevStart, prevPlots, state, redraw, mode, numPlots>>
           /\ sortFile' = FALSE
           /\ hasData' = OldData(replace)
           /\ replace => /\ traces' = <<>> /\ numTraces' = 0 /\ curGrp' = <<>>
                         /\ selection' = <<>> /\ since' = {"emptied"}
           /\ ~replace => UNCHANGED <<listVars, curGrp, selection, since>>
<1>1. sortFile' = FALSE
  BY DEF Open
<1>2. UNCHANGED <<startRec, prevGrp, nextGrp, prevList, position, origin, crashed,
                  selected, prevStart, prevPlots, state, redraw, mode, numPlots>>
  BY DEF Open
<1>3. hasData' = OldData(replace)
  BY DEF Open, OldData
<1>4. replace => /\ traces' = <<>> /\ numTraces' = 0 /\ curGrp' = <<>>
                 /\ selection' = <<>> /\ since' = {"emptied"}
  BY DEF Open
<1>5. ~replace => UNCHANGED <<listVars, curGrp, selection, since>>
  BY DEF Open, listVars
<1> QED BY <1>1, <1>2, <1>3, <1>4, <1>5

LEMMA OpenListInv ==
    ASSUME ListInv, NEW new \in DList, Elems(new) \cap Elems(traces) = {},
           NEW replace \in BOOLEAN, NEW read \in Nat, read <= Len(new), Open(new, replace, read)
    PROVE  ListInv'
<1>0. /\ traces \in DList /\ numTraces \in Nat /\ numTraces <= Len(traces) /\ mode \in Modes
      /\ numPlots \in PlotCounts /\ numPlots \in Nat \ {0} /\ position \in [Trcs -> Int]
      /\ selection \in DList
  BY PlotCountsType DEF ListInv, ListsOK, OthersOK
<1>1. CASE new # <<>>
  <2>1. /\ hasData' = OldData(replace)
        /\ selected' \subseteq selected
        /\ selection' = IF replace \/ mode = "TRACE" THEN <<>> ELSE selection
        /\ state' = "READDATA" /\ redraw' = "reset"
        /\ since' = (since \ {"emptied"}) \cup (IF OldData(replace) = {} THEN {} ELSE {"moved"})
        /\ UNCHANGED <<prevStart, prevPlots, mode, numPlots>>
        /\ sortFile' = FALSE
    BY <1>1, OpenFound
  <2>2. PICK key \in SortKeys :
        /\ InitGroup(OpenedList(new, replace, key), OldCount(replace) + read, mode, numPlots, 0)
        /\ position' \in {Numbered(position, OpenedList(new, replace, key), 0),
                          GatherNumbers(position, 0), position}
    BY <1>1, OpenFound
  <2> DEFINE list == OpenedList(new, replace, key)
             n == OldCount(replace) + read
  <2>3. /\ list \in DList /\ Len(list) = Len(new) + Len(OldList(replace))
        /\ Elems(list) = Elems(new) \cup Elems(OldList(replace))
    BY OpenedIsList
  <2>4. n \in Nat /\ n <= Len(list)
    <3>1. Len(new) \in Nat /\ Len(traces) \in Nat /\ Len(<<>>) = 0
      BY <1>0, ListBasics
    <3> QED BY <3>1, <2>3, <1>0 DEF OldCount, OldList
  <2> HIDE DEF list, n
  <2>5. InitGroup(list, n, mode, numPlots, 0) /\ 0 \in Int
    BY <2>2 DEF list, n
  <2>6. traces' \in DList /\ curGrp' \in DList /\ nextGrp' \in DList
    BY <1>0, <2>3, <2>4, <2>5, InitGroupParts DEF PartOf
  <2>7. position' \in [Trcs -> Int]
    <3>1. list \in Seq(Trcs)
      BY <2>3, ListBasics
    <3>2. Numbered(position, list, 0) \in [Trcs -> Int]
      BY <3>1, <2>5, <1>0, NumberedType
    <3>3. GatherNumbers(position, 0) \in [Trcs -> Int]
      BY <2>5, <2>6, <1>0, GatherNumbersType
    <3> QED BY <3>2, <3>3, <1>0, <2>2 DEF list
  <2>8. "emptied" \notin since'
    BY <2>1
  <2>9. selection' \in DList /\ Elems(selection') \subseteq Elems(list)
    <3>1. CASE replace \/ mode = "TRACE"
      BY <3>1, <2>1, EmptyList
    <3>2. CASE ~(replace \/ mode = "TRACE")
      <4>1. selection' = selection /\ OldList(replace) = traces
        BY <3>2, <2>1 DEF OldList
      <4> QED BY <4>1, <2>3, <1>0, SelectionHeld
    <3> QED BY <3>1, <3>2
  <2>10. /\ selected' \subseteq Trcs /\ hasData' \subseteq Trcs /\ prevStart' \in Int /\ prevPlots' \in Nat
         /\ state' \in {"READDATA", "DATADONE"} /\ redraw' \in {"no", "keep", "reset"}
         /\ mode' = mode /\ numPlots' = numPlots
    BY <2>1 DEF ListInv, OthersOK, OldData
  <2>11. sortFile' \in BOOLEAN
    BY <2>1
  <2> QED BY <1>0, <2>3, <2>4, <2>5, <2>7, <2>8, <2>9, <2>10, <2>11, RebuiltListInv
<1>2. CASE new = <<>>
  <2>0. Open(<<>>, replace, read)
    BY <1>2
  <2>1. /\ UNCHANGED <<startRec, prevGrp, nextGrp, prevList, position, origin, crashed,
                       selected, prevStart, prevPlots, state, redraw, mode, numPlots>>
        /\ sortFile' = FALSE
        /\ hasData' = OldData(replace)
    BY <2>0, OpenNone
  <2>2. OthersOK'
    BY <2>1 DEF ListInv, OthersOK, OldData
  <2>3. FlagsOK'
    BY <2>1, Zenon DEF ListInv, FlagsOK
  <2>4. CASE replace
    <3>1. /\ traces' = <<>> /\ numTraces' = 0 /\ curGrp' = <<>>
          /\ selection' = <<>> /\ since' = {"emptied"}
      BY <2>0, <2>4, OpenNone
    <3>2. ListsOK'
      BY <3>1, <2>1, EmptyList DEF ListInv, ListsOK
    <3>3. EmptiedInv' /\ HeldInv'
      BY <3>1 DEF EmptiedInv, HeldInv
    <3> QED BY <3>2, <3>3, <2>2, <2>3 DEF ListInv
  <2>5. CASE ~replace
    <3>1. UNCHANGED <<listVars, curGrp, selection, since>>
      BY <2>0, <2>5, OpenNone
    <3>2. ListsOK' /\ EmptiedInv'
      BY <3>1, <2>1 DEF ListInv, ListsOK, EmptiedInv, listVars
    <3>3. HeldInv'
      BY <3>1, <2>1 DEF ListInv, HeldInv, StackIn, listVars
    <3> QED BY <3>2, <3>3, <2>2, <2>3 DEF ListInv
  <2> QED BY <2>4, <2>5
<1> QED BY <1>1, <1>2

\* The opens a user may make.
LEMMA LoadIsOpen ==
    ASSUME Load
    PROVE  \E new \in DList, replace \in BOOLEAN, read \in Nat :
             /\ Elems(new) \cap Elems(traces) = {} /\ read <= Len(new)
             /\ Open(new, replace, read)
             /\ ~replace => new # <<>>
<1>1. PICK new \in Loads :
        /\ Elems(new) \cap Elems(traces) = {}
        /\ \/ Open(new, FALSE, Len(new)) /\ new # <<>>
           \/ Open(new, TRUE, Len(new))
           \/ Len(new) > 1 /\ Open(new, FALSE, 1)
  BY DEF Load
<1>2. new \in DList
  BY <1>1, DispAssumption DEF DList
<1>3. Len(new) \in Nat /\ (Len(new) > 1 => new # <<>>) /\ FALSE \in BOOLEAN /\ TRUE \in BOOLEAN
  BY <1>2, ListBasics
<1>4. CASE Open(new, FALSE, Len(new)) /\ new # <<>>
  <2>1. Len(new) \in Nat /\ Len(new) <= Len(new)
    BY <1>3, <1>4
  <2>2. ~FALSE => new # <<>>
    BY <1>3, <1>4
  <2> WITNESS new \in DList, FALSE \in BOOLEAN, Len(new) \in Nat
  <2> QED BY <1>1, <1>4, <2>1, <2>2
<1>5. CASE Open(new, TRUE, Len(new))
  <2>1. Len(new) \in Nat /\ Len(new) <= Len(new)
    BY <1>3, <1>5
  <2>2. ~TRUE => new # <<>>
    BY <1>3, <1>5
  <2> WITNESS new \in DList, TRUE \in BOOLEAN, Len(new) \in Nat
  <2> QED BY <1>1, <1>5, <2>1, <2>2
<1>6. CASE Len(new) > 1 /\ Open(new, FALSE, 1)
  <2>1. 1 \in Nat /\ 1 <= Len(new)
    BY <1>3, <1>6
  <2>2. ~FALSE => new # <<>>
    BY <1>3, <1>6
  <2> WITNESS new \in DList, FALSE \in BOOLEAN, 1 \in Nat
  <2> QED BY <1>1, <1>6, <2>1, <2>2
<1> QED BY <1>1, <1>4, <1>5, <1>6

LEMMA LoadListInv == ListInv /\ Load => ListInv'
BY LoadIsOpen, OpenListInv

\* Next and Previous, where there is no screen to go to.
LEMMA StayListInv ==
    ASSUME ListInv, Deselected, UNCHANGED <<groups, state, redraw, listVars, dataVars, modeVars, since>>
    PROVE  ListInv'
<1>1. /\ selected' \subseteq Trcs /\ selection' \in DList
      /\ Elems(selection') \subseteq Elems(selection) /\ (selection = <<>> => selection' = <<>>)
  BY DeselectedKeeps DEF ListInv, OthersOK
<1>2. ListsOK'
  BY <1>1 DEF ListInv, ListsOK, groups, listVars
<1>3. OthersOK'
  BY <1>1 DEF ListInv, OthersOK, groups, dataVars, modeVars
<1>4. FlagsOK'
  BY DEF ListInv, FlagsOK, groups, modeVars
<1>5. EmptiedInv'
  BY <1>1 DEF ListInv, EmptiedInv, listVars
<1>6. HeldInv'
  BY <1>1 DEF ListInv, HeldInv, StackIn, groups, listVars
<1> QED BY <1>2, <1>3, <1>4, <1>5, <1>6 DEF ListInv

\* The stack with a group pushed.
LEMMA PushedStack ==
    ASSUME NEW g \in DList, NEW st \in Seq(DList)
    PROVE  /\ <<g>> \o st \in Seq(DList) /\ Len(<<g>> \o st) = Len(st) + 1
           /\ (<<g>> \o st)[1] = g
           /\ \A k \in 2 .. Len(st) + 1 : (<<g>> \o st)[k] = st[k - 1]
OBVIOUS

\* The stack with a group popped.
LEMMA PoppedStack ==
    ASSUME NEW st \in Seq(DList), st # <<>>
    PROVE  /\ Head(st) \in DList /\ Head(st) = st[1] /\ Tail(st) \in Seq(DList)
           /\ Len(Tail(st)) = Len(st) - 1
           /\ \A k \in 1 .. Len(st) - 1 : Tail(st)[k] = st[k + 1]
OBVIOUS

LEMMA NextScreenListInv == ListInv /\ NextScreen => ListInv'
<1> SUFFICES ASSUME ListInv, NextScreen PROVE ListInv'
  OBVIOUS
<1>0. Deselected /\ UNCHANGED <<listVars, dataVars, modeVars, since>>
  BY DEF NextScreen, nextTrace
<1>1. CASE nextGrp = <<>>
  <2>1. UNCHANGED <<groups, state, redraw>>
    BY <1>1 DEF NextScreen, nextTrace
  <2> QED BY <1>0, <2>1, StayListInv
<1>2. CASE nextGrp # <<>>
  <2>0. NEXTGROUP /\ state' = "READDATA" /\ redraw' = "reset" /\ UNCHANGED origin
    BY <1>2 DEF NextScreen, nextTrace
  <2>1. /\ traces \in DList /\ numTraces \in Nat /\ numTraces <= Len(traces) /\ mode \in Modes
        /\ numPlots \in Nat \ {0} /\ startRec \in Int /\ curGrp \in DList /\ nextGrp \in DList
        /\ prevGrp \in DList /\ prevList \in Seq(DList) /\ position \in [Trcs -> Int]
        /\ selected \subseteq Trcs
    BY PlotCountsType DEF ListInv, ListsOK, OthersOK
  <2>2. /\ startRec' = startRec + Len(curGrp) /\ prevGrp' = curGrp /\ curGrp' = nextGrp
        /\ prevList' = IF mode = "GATHER" THEN <<prevGrp>> \o prevList ELSE prevList
        /\ position' = IF mode = "GATHER" THEN Numbered(position, nextGrp', startRec') ELSE position
        /\ NextGroup(NextGroupOf(traces, numTraces, mode, numPlots, startRec', curGrp'), mode)
    BY <2>0 DEF NEXTGROUP
  <2>3. startRec' \in Int
    <3>1. Len(curGrp) \in Nat
      BY <2>1, ListBasics
    <3> QED BY <3>1, <2>1, <2>2
  <2> DEFINE run == NextGroupOf(traces, numTraces, mode, numPlots, startRec', curGrp')
  <2>4. PartOf(run, traces)
    BY <2>1, <2>2, <2>3, NextGroupOfIsPart
  <2> HIDE DEF run
  <2>5. nextGrp' \in DList /\ Elems(nextGrp') \subseteq Elems(traces) /\ crashed' \in BOOLEAN
    <3>1. NextGroup(run, mode) /\ run \in DList
      BY <2>2, <2>4 DEF run, PartOf
    <3> QED BY <3>1, <2>1, <2>4, NextGroupIsPart DEF PartOf
  <2>6. /\ selected' \subseteq Trcs /\ selection' \in DList
        /\ Elems(selection') \subseteq Elems(selection) /\ (selection = <<>> => selection' = <<>>)
    BY <1>0, DeselectedKeeps DEF ListInv, OthersOK
  <2>7. prevList' \in Seq(DList)
    BY <2>1, <2>2, PushedStack
  <2>8. ListsOK'
    BY <1>0, <2>1, <2>2, <2>5, <2>6, <2>7 DEF ListInv, ListsOK, listVars
  <2>9. position' \in [Trcs -> Int]
    <3>1. nextGrp' \in Seq(Trcs)
      BY <2>5, ListBasics
    <3> QED BY <3>1, <2>1, <2>2, <2>3, NumberedType
  <2>10. OthersOK'
    BY <1>0, <2>0, <2>3, <2>6, <2>9 DEF ListInv, OthersOK, dataVars, modeVars
  <2>11. FlagsOK'
    <3>1. sortFile' = sortFile
      BY <1>0 DEF modeVars
    <3> QED BY <2>5, <3>1 DEF ListInv, FlagsOK
  <2>12. EmptiedInv'
    BY <1>0, <2>6 DEF ListInv, EmptiedInv, listVars
  <2>13. HeldInv'
    <3> SUFFICES ASSUME "emptied" \notin since'
                 PROVE  /\ Elems(prevGrp') \subseteq Elems(traces') /\ Elems(curGrp') \subseteq Elems(traces')
                        /\ Elems(nextGrp') \subseteq Elems(traces') /\ Elems(selection') \subseteq Elems(traces')
                        /\ StackIn(prevList', traces')
      BY DEF HeldInv
    <3>1. traces' = traces /\ "emptied" \notin since
      BY <1>0 DEF listVars
    <3>2. /\ Elems(prevGrp) \subseteq Elems(traces) /\ Elems(curGrp) \subseteq Elems(traces)
          /\ Elems(nextGrp) \subseteq Elems(traces) /\ Elems(selection) \subseteq Elems(traces)
          /\ StackIn(prevList, traces)
      BY <3>1 DEF ListInv, HeldInv
    <3>3. StackIn(prevList', traces)
      <4>1. CASE mode = "GATHER"
        <5>1. Len(prevList) \in Nat
          BY <2>1
        <5>2. \A k \in 1 .. Len(prevList) + 1 : k = 1 \/ (k \in 2 .. Len(prevList) + 1 /\ k - 1 \in 1 .. Len(prevList))
          BY <5>1
        <5>3. prevList' = <<prevGrp>> \o prevList
          BY <4>1, <2>2
        <5> QED BY SMTT(30), <5>2, <5>3, <3>2, <2>1, PushedStack DEF StackIn
      <4>2. CASE mode # "GATHER"
        BY <4>2, <3>2, <2>2
      <4> QED BY <4>1, <4>2
    <3> QED BY <3>1, <3>2, <3>3, <2>2, <2>5, <2>6
  <2> QED BY <2>8, <2>10, <2>11, <2>12, <2>13 DEF ListInv
<1> QED BY <1>1, <1>2

LEMMA PrevScreenListInv == ListInv /\ PrevScreen => ListInv'
<1> SUFFICES ASSUME ListInv, PrevScreen PROVE ListInv'
  OBVIOUS
<1>0. Deselected /\ UNCHANGED <<listVars, dataVars, modeVars, since>>
  BY DEF PrevScreen, nextTrace
<1>1. CASE prevGrp = <<>>
  <2>1. UNCHANGED <<groups, state, redraw>>
    BY <1>1 DEF PrevScreen, nextTrace
  <2> QED BY <1>0, <2>1, StayListInv
<1>2. CASE prevGrp # <<>>
  <2>0. PREVGROUP /\ state' = "READDATA" /\ redraw' = "reset" /\ UNCHANGED origin
    BY <1>2 DEF PrevScreen, nextTrace
  <2>1. /\ traces \in DList /\ numPlots \in Nat \ {0} /\ startRec \in Int /\ curGrp \in DList
        /\ prevGrp \in DList /\ prevList \in Seq(DList)
    BY PlotCountsType DEF ListInv, ListsOK, OthersOK
  <2>2. /\ startRec' = IF startRec - Len(prevGrp) < 0 THEN 0 ELSE startRec - Len(prevGrp)
        /\ nextGrp' = curGrp /\ curGrp' = prevGrp /\ UNCHANGED <<position, crashed>>
    BY <2>0 DEF PREVGROUP
  <2>3. startRec' \in Int
    <3>1. Len(prevGrp) \in Nat
      BY <2>1, ListBasics
    <3> QED BY <3>1, <2>1, <2>2
  <2>4. \/ /\ prevList' = prevList /\ PartOf(prevGrp', traces)
        \/ /\ prevList = <<>> /\ prevList' = <<>> /\ prevGrp' = <<>>
        \/ /\ prevList # <<>> /\ prevList' = Tail(prevList) /\ prevGrp' = Head(prevList)
    <3>1. CASE mode = "TRACE"
      <4>1. PrevStart(startRec', numPlots) \in Int
        BY <2>1, <2>3, StartsType
      <4> DEFINE a == PrevStart(startRec', numPlots)
      <4> HIDE DEF a
      <4>2. prevGrp' = FromIndex(traces, a, numPlots) /\ prevList' = prevList
        BY <3>1, <2>0 DEF PREVGROUP, a
      <4>3. PartOf(FromIndex(traces, a, numPlots), traces)
        BY <4>1, <2>1, FromIndexIsList DEF PartOf, a
      <4> QED BY <4>2, <4>3
    <3>2. CASE mode # "TRACE"
      BY <3>2, <2>0 DEF PREVGROUP
    <3> QED BY <3>1, <3>2
  <2>5. prevGrp' \in DList /\ prevList' \in Seq(DList)
    <3>1. <<>> \in Seq(DList)
      OBVIOUS
    <3> QED BY <3>1, <2>1, <2>4, EmptyList, PoppedStack DEF PartOf
  <2>6. /\ selected' \subseteq Trcs /\ selection' \in DList
        /\ Elems(selection') \subseteq Elems(selection) /\ (selection = <<>> => selection' = <<>>)
    BY <1>0, DeselectedKeeps DEF ListInv, OthersOK
  <2>7. ListsOK'
    BY <1>0, <2>1, <2>2, <2>5, <2>6 DEF ListInv, ListsOK, listVars
  <2>8. OthersOK'
    BY <1>0, <2>0, <2>2, <2>3, <2>6 DEF ListInv, OthersOK, dataVars, modeVars
  <2>9. FlagsOK'
    BY <1>0, <2>2 DEF ListInv, FlagsOK, modeVars
  <2>10. EmptiedInv'
    BY <1>0, <2>6 DEF ListInv, EmptiedInv, listVars
  <2>11. HeldInv'
    <3> SUFFICES ASSUME "emptied" \notin since'
                 PROVE  /\ Elems(prevGrp') \subseteq Elems(traces') /\ Elems(curGrp') \subseteq Elems(traces')
                        /\ Elems(nextGrp') \subseteq Elems(traces') /\ Elems(selection') \subseteq Elems(traces')
                        /\ StackIn(prevList', traces')
      BY DEF HeldInv
    <3>1. traces' = traces /\ "emptied" \notin since
      BY <1>0 DEF listVars
    <3>2. /\ Elems(prevGrp) \subseteq Elems(traces) /\ Elems(curGrp) \subseteq Elems(traces)
          /\ Elems(selection) \subseteq Elems(traces) /\ StackIn(prevList, traces)
      BY <3>1 DEF ListInv, HeldInv
    <3>3. Elems(prevGrp') \subseteq Elems(traces) /\ StackIn(prevList', traces)
      <4>1. CASE prevList' = prevList /\ PartOf(prevGrp', traces)
        BY <4>1, <3>2 DEF PartOf
      <4>2. CASE prevList' = <<>> /\ prevGrp' = <<>>
        BY <4>2, EmptyList DEF StackIn
      <4>3. CASE prevList # <<>> /\ prevList' = Tail(prevList) /\ prevGrp' = Head(prevList)
        <5>1. /\ Len(prevList) \in Nat /\ Len(prevList) # 0 /\ prevGrp' = prevList[1]
              /\ Len(prevList') = Len(prevList) - 1
              /\ \A k \in 1 .. Len(prevList) - 1 : prevList'[k] = prevList[k + 1]
          BY <4>3, <2>1, PoppedStack
        <5>2. 1 \in 1 .. Len(prevList) /\ \A k \in 1 .. Len(prevList) - 1 : k + 1 \in 1 .. Len(prevList)
          BY <5>1
        <5>3. Elems(prevGrp') \subseteq Elems(traces)
          BY <5>1, <5>2, <3>2 DEF StackIn
        <5>4. StackIn(prevList', traces)
          BY <5>1, <5>2, <3>2 DEF StackIn
        <5> QED BY <5>3, <5>4
      <4> QED BY <2>4, <4>1, <4>2, <4>3
    <3> QED BY <3>1, <3>2, <3>3, <2>2, <2>6
  <2> QED BY <2>7, <2>8, <2>9, <2>10, <2>11 DEF ListInv
<1> QED BY <1>1, <1>2

LEMMA RedrawListInv == ListInv /\ Redraw => ListInv'
<1> SUFFICES ASSUME ListInv, Redraw PROVE ListInv'
  OBVIOUS
<1>0. UNCHANGED <<listVars, groups, modeVars>> /\ redraw' = "no"
  BY DEF Redraw
<1>1. /\ selected' \subseteq Trcs /\ selection' \in DList
      /\ Elems(selection') \subseteq Elems(selection) /\ (selection = <<>> => selection' = <<>>)
  <2>1. Deselected \/ UNCHANGED selVars
    BY DEF Redraw
  <2> QED BY <2>1, DeselectedKeeps DEF ListInv, ListsOK, OthersOK, selVars
<1>2. /\ hasData' \subseteq Trcs /\ prevStart' \in Int /\ prevPlots' \in Nat
      /\ state' \in {"READDATA", "DATADONE"}
  <2>1. Elems(curGrp) \subseteq Trcs /\ numPlots \in Nat
    BY ListBasics, PlotCountsType DEF ListInv, ListsOK, OthersOK
  <2> QED BY <2>1 DEF Redraw, ListInv, OthersOK, dataVars
<1>3. "emptied" \in since' <=> "emptied" \in since
  <2>1. CASE state = "READDATA"
    BY <2>1 DEF Redraw
  <2>2. CASE state # "READDATA"
    BY <2>2 DEF Redraw
  <2> QED BY <2>1, <2>2
<1>4. ListsOK'
  BY <1>0, <1>1 DEF ListInv, ListsOK, groups, listVars
<1>5. OthersOK'
  BY <1>0, <1>1, <1>2 DEF ListInv, OthersOK, groups, modeVars
<1>6. FlagsOK'
  BY <1>0 DEF ListInv, FlagsOK, groups, modeVars
<1>7. EmptiedInv'
  BY <1>0, <1>1, <1>3 DEF ListInv, EmptiedInv, listVars
<1>8. HeldInv'
  BY <1>0, <1>1, <1>3 DEF ListInv, HeldInv, StackIn, groups, listVars
<1> QED BY <1>4, <1>5, <1>6, <1>7, <1>8 DEF ListInv

LEMMA NextListInv == ListInv /\ [Next]_vars => ListInv'
<1> SUFFICES ASSUME ListInv, [Next]_vars PROVE ListInv'
  OBVIOUS
<1>1. CASE UNCHANGED vars
  <2>1. ListsOK' /\ OthersOK' /\ EmptiedInv'
    BY <1>1 DEF vars, listVars, groups, selVars, dataVars, modeVars, ListInv, ListsOK, OthersOK, EmptiedInv
  <2>2. FlagsOK'
    BY <1>1 DEF vars, groups, modeVars, ListInv, FlagsOK
  <2>3. HeldInv'
    BY <1>1 DEF vars, listVars, groups, selVars, ListInv, HeldInv, StackIn
  <2> QED BY <2>1, <2>2, <2>3 DEF ListInv
<1>2. CASE Next
  BY <1>2, LoadListInv, NextScreenListInv, PrevScreenListInv, newStartListInv, moveToFirstListInv,
     controlPanelListInv, selectTracesListInv, removeSelectedListInv, sortTracesListInv, RedrawListInv
     DEF Next
<1> QED BY <1>1, <1>2

\* The lists are always well formed and hold nothing outside of the list.
LEMMA AlwaysListInv == Spec => []ListInv
BY InitListInv, NextListInv, PTL DEF Spec

LEMMA ListInvType == ListInv => TypeOK
<1> SUFFICES ASSUME ListInv PROVE TypeOK
  OBVIOUS
<1>1. DList \subseteq Seq(Trcs) /\ \A s \in DList : Distinct(s)
  BY DEF DList
<1>2. prevList \in Seq(Seq(Trcs))
  BY <1>1 DEF ListInv, ListsOK
<1>3. /\ Distinct(traces) /\ Distinct(selection)
      /\ traces \in Seq(Trcs) /\ numTraces \in Nat
      /\ prevGrp \in Seq(Trcs) /\ curGrp \in Seq(Trcs) /\ nextGrp \in Seq(Trcs)
      /\ selection \in Seq(Trcs)
  BY <1>1 DEF ListInv, ListsOK
<1>4. /\ startRec \in Int /\ mode \in {"TRACE", "GATHER"} /\ numPlots \in PlotCounts
      /\ selected \subseteq Trcs /\ position \in [Trcs -> Int] /\ hasData \subseteq Trcs
      /\ prevStart \in Int /\ prevPlots \in Nat
      /\ state \in {"READDATA", "DATADONE"} /\ redraw \in {"no", "keep", "reset"}
      /\ origin \in Int
  BY DEF ListInv, OthersOK, Modes
<1>5. crashed \in BOOLEAN /\ sortFile \in BOOLEAN
  BY DEF ListInv, FlagsOK
<1> QED BY <1>2, <1>3, <1>4, <1>5 DEF TypeOK

\* Every variable has its type and no list holds a trace twice, after any sequence
\* of opens, sorts, jumps, resizes and removals (makeDispList and its callers).
THEOREM TypeCorrect == Spec => []TypeOK
BY AlwaysListInv, ListInvType, PTL

\* Nothing on the screens, in the stack of earlier groups or in the selection is
\* a trace that was removed or freed (kill_all_traces): however the actions are
\* ordered, every rebuild of the groups drops what the list no longer holds.
THEOREM NoDanglingAlways == Spec => []NoDangling
<1>1. ListInv => NoDangling
  <2> SUFFICES ASSUME ListInv, "emptied" \notin since
               PROVE  Elems(prevGrp) \cup Elems(curGrp) \cup Elems(nextGrp) \cup Elems(selection)
                        \cup UNION {Elems(prevList[k]) : k \in DOMAIN prevList} \subseteq Elems(traces)
    BY DEF NoDangling
  <2>1. DOMAIN prevList = 1 .. Len(prevList)
    BY DEF ListInv, ListsOK
  <2>2. \A k \in DOMAIN prevList : Elems(prevList[k]) \subseteq Elems(traces)
    BY <2>1 DEF ListInv, HeldInv, StackIn
  <2>3. /\ Elems(prevGrp) \subseteq Elems(traces) /\ Elems(curGrp) \subseteq Elems(traces)
        /\ Elems(nextGrp) \subseteq Elems(traces) /\ Elems(selection) \subseteq Elems(traces)
    BY DEF ListInv, HeldInv
  <2> QED BY <2>2, <2>3
<1> QED BY <1>1, AlwaysListInv, PTL

-----------------------------------------------------------------------------
(* What a step does to the list and the groups: it rebuilds them, it goes  *)
(* to the next or the previous screen, or it leaves them.                  *)

Rebuilds ==
    \E tr \in DList, n \in Nat, start \in Int :
        n <= Len(tr) /\ InitGroup(tr, n, mode', numPlots', start)

Pages(move) == ~crashed /\ move /\ UNCHANGED <<listVars, mode, numPlots, origin>>

GroupsKept ==
    UNCHANGED <<listVars, startRec, prevGrp, curGrp, nextGrp, prevList, crashed, mode, numPlots, origin>>

GroupsStep ==
    \/ Rebuilds
    \/ nextGrp # <<>> /\ Pages(NEXTGROUP)
    \/ prevGrp # <<>> /\ Pages(PREVGROUP)
    \/ GroupsKept
    \/ traces' = <<>>                       \* a replacing open that found nothing
    \/ mode' # mode /\ origin' = -1         \* the mode, without a rebuild

LEMMA IsRebuild ==
    ASSUME NEW tr \in DList, NEW n \in Nat, n <= Len(tr), NEW start \in Int,
           InitGroup(tr, n, mode', numPlots', start)
    PROVE  Rebuilds
BY DEF Rebuilds

LEMMA GroupsStepOf == ListInv /\ [Next]_vars => GroupsStep
<1> SUFFICES ASSUME ListInv, [Next]_vars PROVE GroupsStep
  OBVIOUS
<1>0. /\ traces \in DList /\ numTraces \in Nat /\ numTraces <= Len(traces) /\ startRec \in Int
      /\ numPlots \in Nat \ {0} /\ 0 \in Int
  BY PlotCountsType DEF ListInv, ListsOK, OthersOK
<1>1. CASE UNCHANGED vars
  BY <1>1 DEF vars, groups, modeVars, GroupsStep, GroupsKept
<1>2. CASE Load
  <2>1. PICK new \in DList, replace \in BOOLEAN, read \in Nat :
             /\ Elems(new) \cap Elems(traces) = {} /\ read <= Len(new)
             /\ Open(new, replace, read)
             /\ ~replace => new # <<>>
    BY <1>2, LoadIsOpen
  <2>2. CASE new = <<>>
    <3>1. replace /\ Open(<<>>, replace, read)
      BY <2>1, <2>2
    <3>2. traces' = <<>>
      BY <3>1, OpenNone
    <3> QED BY <3>2 DEF GroupsStep
  <2>3. CASE new # <<>>
    <3>1. PICK key \in SortKeys :
            InitGroup(OpenedList(new, replace, key), OldCount(replace) + read, mode, numPlots, 0)
      BY <2>1, <2>3, OpenFound
    <3>2. UNCHANGED <<mode, numPlots>>
      BY <2>1, <2>3, OpenFound
    <3> DEFINE list == OpenedList(new, replace, key)
               n == OldCount(replace) + read
    <3>3. list \in DList /\ Len(list) = Len(new) + Len(OldList(replace))
      BY <2>1, OpenedIsList
    <3>4. n \in Nat /\ n <= Len(list)
      <4>1. Len(new) \in Nat /\ Len(traces) \in Nat /\ Len(<<>>) = 0
        BY <1>0, ListBasics
      <4> QED BY <4>1, <3>3, <1>0, <2>1 DEF OldCount, OldList
    <3> HIDE DEF list, n
    <3>5. InitGroup(list, n, mode', numPlots', 0)
      BY <3>1, <3>2 DEF list, n
    <3> QED BY <1>0, <3>3, <3>4, <3>5, IsRebuild DEF GroupsStep
  <2> QED BY <2>2, <2>3
<1>3. CASE NextScreen
  <2>1. UNCHANGED <<listVars, modeVars>>
    BY <1>3 DEF NextScreen, nextTrace
  <2>2. CASE nextGrp = <<>>
    <3>1. UNCHANGED groups
      BY <1>3, <2>2 DEF NextScreen, nextTrace
    <3> QED BY <2>1, <3>1 DEF GroupsStep, GroupsKept, groups, modeVars
  <2>3. CASE nextGrp # <<>>
    <3>1. NEXTGROUP /\ UNCHANGED origin /\ ~crashed
      BY <1>3, <2>3 DEF NextScreen, nextTrace, Ready
    <3> QED BY <2>1, <2>3, <3>1 DEF GroupsStep, Pages, modeVars
  <2> QED BY <2>2, <2>3
<1>4. CASE PrevScreen
  <2>1. UNCHANGED <<listVars, modeVars>>
    BY <1>4 DEF PrevScreen, nextTrace
  <2>2. CASE prevGrp = <<>>
    <3>1. UNCHANGED groups
      BY <1>4, <2>2 DEF PrevScreen, nextTrace
    <3> QED BY <2>1, <3>1 DEF GroupsStep, GroupsKept, groups, modeVars
  <2>3. CASE prevGrp # <<>>
    <3>1. PREVGROUP /\ UNCHANGED origin /\ ~crashed
      BY <1>4, <2>3 DEF PrevScreen, nextTrace, Ready
    <3> QED BY <2>1, <2>3, <3>1 DEF GroupsStep, Pages, modeVars
  <2> QED BY <2>2, <2>3
<1>5. CASE newStart
  <2>1. PICK start \in 0 .. Len(traces) - 1
                    \cup {startRec + r : r \in 0 .. Len(curGrp) - 1}
                    \cup {position[selection[k]] : k \in DOMAIN selection} :
           Restart(start, "READDATA")
    BY <1>5 DEF newStart
  <2>2. start \in Int
    <3>1. /\ curGrp \in DList /\ selection \in DList /\ position \in [Trcs -> Int]
      BY DEF ListInv, ListsOK, OthersOK
    <3>2. Len(traces) \in Nat /\ Len(curGrp) \in Nat
      BY <1>0, <3>1, ListBasics
    <3>3. \A k \in DOMAIN selection : selection[k] \in Trcs
      BY <3>1, ListBasics
    <3> QED BY <1>0, <2>1, <3>1, <3>2, <3>3
  <2>3. InitGroup(traces, numTraces, mode', numPlots', start)
    BY <1>5, <2>1 DEF newStart, Restart, modeVars
  <2> QED BY <1>0, <2>2, <2>3, IsRebuild DEF GroupsStep
<1>6. CASE moveToFirst
  <2>1. PICK row \in 0 .. numPlots - 1 : Restart(startRec + row, state)
    BY <1>6 DEF moveToFirst
  <2>2. InitGroup(traces, numTraces, mode', numPlots', startRec + row) /\ startRec + row \in Int
    BY <1>0, <1>6, <2>1 DEF moveToFirst, Restart, modeVars
  <2> QED BY <1>0, <2>2, IsRebuild DEF GroupsStep
<1>7. CASE controlPanel
  <2>1. PICK m, p : continueWith(m, p) \/ restartWith(m, p)
    BY <1>7 DEF controlPanel
  <2>2. CASE restartWith(m, p)
    <3>1. InitGroup(traces, numTraces, mode', numPlots', 0)
      BY <2>2 DEF restartWith
    <3> QED BY <1>0, <3>1, IsRebuild DEF GroupsStep
  <2>3. CASE continueWith(m, p) /\ p # numPlots
    <3>1. InitGroup(traces, numTraces, mode', numPlots', startRec)
      BY <2>3 DEF continueWith
    <3> QED BY <1>0, <3>1, IsRebuild DEF GroupsStep
  <2>4. CASE continueWith(m, p) /\ p = numPlots
    <3>1. UNCHANGED <<listVars, startRec, prevGrp, curGrp, nextGrp, prevList, crashed>>
          /\ mode' = m /\ numPlots' = numPlots /\ origin' = IF m # mode THEN -1 ELSE origin
      BY <2>4 DEF continueWith
    <3> QED BY <3>1 DEF GroupsStep, GroupsKept
  <2> QED BY <2>1, <2>2, <2>3, <2>4
<1>8. CASE selectTraces
  BY <1>8 DEF selectTraces, groups, modeVars, GroupsStep, GroupsKept
<1>9. CASE removeSelected
  <2> DEFINE left == Without(traces, Elems(selection))
             start == RemoveStart(left)
  <2>1. InitGroup(left, Len(left), mode', numPlots', start)
    BY <1>9 DEF removeSelected, RemoveStart, modeVars
  <2>2. left \in DList
    BY <1>0, WithoutProperties DEF DList
  <2> HIDE DEF left
  <2>3. Len(left) \in Nat
    BY <2>2, ListBasics
  <2>4. start \in Int /\ Len(left) <= Len(left)
    BY <1>0, <2>3 DEF RemoveStart
  <2> QED BY <2>1, <2>2, <2>3, <2>4, IsRebuild DEF GroupsStep
<1>10. CASE sortTraces
  <2>1. PICK key \in SortKeys, start \in {0, startRec} :
          InitGroup(StableSort(traces, key), numTraces, mode, numPlots, start)
    BY <1>10 DEF sortTraces
  <2> DEFINE list == StableSort(traces, key)
  <2>2. list \in DList /\ Len(list) = Len(traces)
    BY <1>0, SortKeysType, SortedIsList
  <2>3. InitGroup(list, numTraces, mode', numPlots', start)
    BY <1>10, <2>1 DEF sortTraces, modeVars
  <2> HIDE DEF list
  <2>4. numTraces <= Len(list) /\ start \in Int
    BY <1>0, <2>2
  <2> QED BY <1>0, <2>2, <2>3, <2>4, IsRebuild DEF GroupsStep
<1>11. CASE Redraw
  BY <1>11 DEF Redraw, groups, modeVars, GroupsStep, GroupsKept
<1> QED BY <1>1, <1>2, <1>3, <1>4, <1>5, <1>6, <1>7, <1>8, <1>9, <1>10, <1>11 DEF Next

-----------------------------------------------------------------------------
(* Trace mode: the screens are the windows of the list.                    *)

Multiple(a, n) == \E k \in Nat : a = k * n

LEMMA ModMultiple ==
    ASSUME NEW a \in Nat, NEW n \in Nat \ {0}, a % n = 0
    PROVE  Multiple(a, n)
<1>1. a = (a \div n) * n + (a % n) /\ a \div n \in Nat
  OBVIOUS
<1> QED BY <1>1 DEF Multiple

LEMMA MultipleSteps ==
    ASSUME NEW a \in Nat, NEW n \in Nat \ {0}, Multiple(a, n)
    PROVE  /\ Multiple(a + n, n)
           /\ a # 0 => a >= n /\ Multiple(a - n, n)
<1>1. PICK k \in Nat : a = k * n
  BY DEF Multiple
<1>2. a + n = (k + 1) * n /\ k + 1 \in Nat
  BY <1>1
<1>3. ASSUME a # 0 PROVE a >= n /\ Multiple(a - n, n)
  <2>1. k # 0
    BY <1>1, <1>3
  <2>2. k - 1 \in Nat /\ a - n = (k - 1) * n
    BY <1>1, <2>1
  <2>3. (k - 1) * n >= 0
    BY <2>2
  <2> QED BY <2>2, <2>3 DEF Multiple
<1> QED BY <1>2, <1>3 DEF Multiple

Window(from) == FromIndex(traces, from, numPlots)

\* What Next and Previous keep: the screen begins at a multiple of the screen
\* size, the screens around it are its neighbours, and the next one is missing
\* only where numTraces falls short of the list.
TileInv ==
    Aligned =>
        /\ startRec \in 0 .. Len(traces) - 1 /\ Multiple(startRec, numPlots)
        /\ curGrp = Window(startRec)
        /\ prevGrp = Window(startRec - numPlots)
        /\ nextGrp \in {<<>>, Window(startRec + numPlots)}
        /\ numTraces = Len(traces) => nextGrp = Window(startRec + numPlots)

\* PrevStart is the window before, from a multiple of the screen size.
LEMMA PrevWindow ==
    ASSUME NEW s \in DList, NEW start \in Nat, NEW p \in Nat \ {0}, Multiple(start, p)
    PROVE  FromIndex(s, PrevStart(start, p), p) = FromIndex(s, start - p, p)
<1>0. Len(s) \in Nat
  BY ListBasics
<1>1. CASE start = 0
  <2>1. PrevStart(start, p) = -1 /\ start - p < 0
    BY <1>1 DEF PrevStart
  <2>2. FromIndex(s, -1, p) = <<>> /\ FromIndex(s, start - p, p) = <<>>
    BY <1>0, <2>1 DEF FromIndex
  <2> QED BY <2>1, <2>2
<1>2. CASE start # 0
  <2>1. start >= p
    BY <1>2, MultipleSteps
  <2>2. PrevStart(start, p) = start - p
    BY <1>2, <2>1 DEF PrevStart
  <2> QED BY <2>2
<1> QED BY <1>1, <1>2

\* NextStart is the window after, or none when it counts too few traces.
LEMMA NextWindow ==
    ASSUME NEW s \in DList, NEW start \in Nat, NEW p \in Nat \ {0}, NEW n \in 0 .. Len(s)
    PROVE  /\ FromIndex(s, NextStart(start, p, n), p) \in {<<>>, FromIndex(s, start + p, p)}
           /\ n = Len(s) => FromIndex(s, NextStart(start, p, n), p) = FromIndex(s, start + p, p)
<1>0. Len(s) \in Nat
  BY ListBasics
<1>1. CASE start + p > n
  <2>1. NextStart(start, p, n) = -1
    BY <1>1 DEF NextStart
  <2>2. FromIndex(s, -1, p) = <<>>
    BY <1>0 DEF FromIndex
  <2>3. n = Len(s) => FromIndex(s, start + p, p) = <<>>
    BY <1>0, <1>1 DEF FromIndex
  <2> QED BY <2>1, <2>2, <2>3
<1>2. CASE ~(start + p > n)
  BY <1>2 DEF NextStart
<1> QED BY <1>1, <1>2

LEMMA RebuiltTile ==
    ASSUME ListInv', Rebuilds PROVE TileInv'
<1>1. PICK tr \in DList, n \in Nat, start \in Int :
        n <= Len(tr) /\ InitGroup(tr, n, mode', numPlots', start)
  BY DEF Rebuilds
<1> SUFFICES ASSUME Aligned'
             PROVE  /\ startRec' \in 0 .. Len(traces') - 1 /\ Multiple(startRec', numPlots')
                    /\ curGrp' = FromIndex(traces', startRec', numPlots')
                    /\ prevGrp' = FromIndex(traces', startRec' - numPlots', numPlots')
                    /\ nextGrp' \in {<<>>, FromIndex(traces', startRec' + numPlots', numPlots')}
                    /\ numTraces' = Len(traces') =>
                         nextGrp' = FromIndex(traces', startRec' + numPlots', numPlots')
  BY DEF TileInv, Window
<1>2. mode' = "TRACE" /\ numPlots' \in Nat \ {0}
  BY PlotCountsType DEF Aligned, ListInv, OthersOK
<1> DEFINE p == numPlots'
<1>3. p \in Nat \ {0} /\ InitGroup(tr, n, "TRACE", p, start)
  BY <1>1, <1>2
<1>3a. n <= Len(tr) /\ Len(tr) \in Nat /\ n \in 0 .. Len(tr)
  BY <1>1, ListBasics
<1>4. /\ traces' = tr /\ curGrp' = FromIndex(tr, start, p)
      /\ prevGrp' = FromIndex(tr, PrevStart(start, p), p)
      /\ nextGrp' = FromIndex(tr, NextStart(start, p, n), p)
  <2> HIDE DEF p
  <2> QED BY <1>3, <1>3a, InitGroupTrace
<1>5. startRec' = start /\ origin' = start /\ numTraces' = n
  BY <1>1 DEF InitGroup
<1>6. start \in 0 .. Len(tr) - 1 /\ start \in Nat /\ start % p = 0
  BY <1>3a, <1>4, <1>5 DEF Aligned
<1> HIDE DEF p
<1>7. Multiple(start, p)
  BY <1>3, <1>6, ModMultiple
<1>8. FromIndex(tr, PrevStart(start, p), p) = FromIndex(tr, start - p, p)
  BY <1>3, <1>6, <1>7, PrevWindow
<1>9. /\ FromIndex(tr, NextStart(start, p, n), p) \in {<<>>, FromIndex(tr, start + p, p)}
      /\ n = Len(tr) => FromIndex(tr, NextStart(start, p, n), p) = FromIndex(tr, start + p, p)
  BY <1>3, <1>3a, <1>6, NextWindow
<1> QED BY <1>4, <1>5, <1>6, <1>7, <1>8, <1>9 DEF p

LEMMA NextTile ==
    ASSUME ListInv, TileInv, nextGrp # <<>>, Pages(NEXTGROUP)
    PROVE  TileInv'
<1> SUFFICES ASSUME Aligned'
             PROVE  /\ startRec' \in 0 .. Len(traces) - 1 /\ Multiple(startRec', numPlots)
                    /\ curGrp' = FromIndex(traces, startRec', numPlots)
                    /\ prevGrp' = FromIndex(traces, startRec' - numPlots, numPlots)
                    /\ nextGrp' \in {<<>>, FromIndex(traces, startRec' + numPlots, numPlots)}
                    /\ numTraces = Len(traces) =>
                         nextGrp' = FromIndex(traces, startRec' + numPlots, numPlots)
  BY DEF TileInv, Window, Pages, listVars
<1>0. /\ traces \in DList /\ numTraces \in Nat /\ numTraces <= Len(traces) /\ Len(traces) \in Nat
      /\ numPlots \in Nat \ {0} /\ numTraces \in 0 .. Len(traces)
  BY PlotCountsType, ListBasics DEF ListInv, ListsOK, OthersOK
<1>1. Aligned /\ mode = "TRACE"
  BY DEF Aligned, Pages, listVars
<1>2. /\ startRec \in 0 .. Len(traces) - 1 /\ Multiple(startRec, numPlots)
      /\ curGrp = FromIndex(traces, startRec, numPlots)
      /\ nextGrp = FromIndex(traces, startRec + numPlots, numPlots)
  BY <1>1 DEF TileInv, Window
<1>3. startRec + numPlots \in 0 .. Len(traces) - 1
  <2>1. startRec + numPlots \in Int
    BY <1>0, <1>2
  <2> QED BY <2>1, <1>0, <1>2, FromIndexIsList
<1>4. Len(curGrp) = numPlots
  <2>1. startRec \in Int /\ startRec + numPlots < Len(traces)
    BY <1>0, <1>2, <1>3
  <2> QED BY <2>1, <1>0, <1>2, FromIndexIsList
<1>5. /\ startRec' = startRec + numPlots /\ curGrp' = nextGrp /\ prevGrp' = curGrp
      /\ NextGroup(NextGroupOf(traces, numTraces, mode, numPlots, startRec', curGrp'), mode)
  BY <1>4 DEF Pages, NEXTGROUP
<1>6. nextGrp' = FromIndex(traces, NextStart(startRec', numPlots, numTraces), numPlots)
  BY <1>1, <1>5 DEF NextGroup, NextGroupOf
<1>7. startRec' \in 0 .. Len(traces) - 1 /\ startRec' \in Nat /\ startRec \in Nat
  BY <1>0, <1>2, <1>3, <1>5
<1>8. Multiple(startRec', numPlots)
  BY <1>0, <1>2, <1>5, <1>7, MultipleSteps
<1>9. /\ nextGrp' \in {<<>>, FromIndex(traces, startRec' + numPlots, numPlots)}
      /\ numTraces = Len(traces) => nextGrp' = FromIndex(traces, startRec' + numPlots, numPlots)
  BY <1>0, <1>6, <1>7, NextWindow
<1>10. startRec' - numPlots = startRec
  BY <1>0, <1>5, <1>7
<1> QED BY <1>2, <1>5, <1>7, <1>8, <1>9, <1>10

LEMMA PrevTile ==
    ASSUME ListInv, TileInv, prevGrp # <<>>, Pages(PREVGROUP)
    PROVE  TileInv'
<1> SUFFICES ASSUME Aligned'
             PROVE  /\ startRec' \in 0 .. Len(traces) - 1 /\ Multiple(startRec', numPlots)
                    /\ curGrp' = FromIndex(traces, startRec', numPlots)
                    /\ prevGrp' = FromIndex(traces, startRec' - numPlots, numPlots)
                    /\ nextGrp' = FromIndex(traces, startRec' + numPlots, numPlots)
  BY DEF TileInv, Window, Pages, listVars
<1>0. /\ traces \in DList /\ Len(traces) \in Nat /\ numPlots \in Nat \ {0}
  BY PlotCountsType, ListBasics DEF ListInv, ListsOK, OthersOK
<1>1. Aligned /\ mode = "TRACE"
  BY DEF Aligned, Pages, listVars
<1>2. /\ startRec \in 0 .. Len(traces) - 1 /\ Multiple(startRec, numPlots)
      /\ curGrp = FromIndex(traces, startRec, numPlots)
      /\ prevGrp = FromIndex(traces, startRec - numPlots, numPlots)
  BY <1>1 DEF TileInv, Window
<1>3. startRec - numPlots \in 0 .. Len(traces) - 1
  <2>1. startRec - numPlots \in Int
    BY <1>0, <1>2
  <2> QED BY <2>1, <1>0, <1>2, FromIndexIsList
<1>4. Len(prevGrp) = numPlots
  <2>1. startRec - numPlots \in Int /\ (startRec - numPlots) + numPlots < Len(traces)
    BY <1>0, <1>2, <1>3
  <2> QED BY <2>1, <1>0, <1>2, <1>3, FromIndexIsList
<1>5. /\ startRec' = startRec - numPlots /\ curGrp' = prevGrp /\ nextGrp' = curGrp
  BY <1>0, <1>2, <1>3, <1>4 DEF Pages, PREVGROUP
<1>6. prevGrp' = FromIndex(traces, PrevStart(startRec', numPlots), numPlots)
  BY <1>1 DEF Pages, PREVGROUP
<1>7. startRec' \in 0 .. Len(traces) - 1 /\ startRec' \in Nat /\ startRec \in Nat /\ startRec # 0
  BY <1>0, <1>2, <1>3, <1>5
<1>8. Multiple(startRec', numPlots)
  BY <1>0, <1>2, <1>5, <1>7, MultipleSteps
<1>9. prevGrp' = FromIndex(traces, startRec' - numPlots, numPlots)
  BY <1>0, <1>6, <1>7, <1>8, PrevWindow
<1>10. startRec' + numPlots = startRec
  BY <1>0, <1>5, <1>7
<1> QED BY <1>2, <1>5, <1>7, <1>8, <1>9, <1>10

LEMMA StepTile == ListInv /\ ListInv' /\ TileInv /\ [Next]_vars => TileInv'
<1> SUFFICES ASSUME ListInv, ListInv', TileInv, GroupsStep PROVE TileInv'
  BY GroupsStepOf
<1>1. CASE GroupsKept
  BY <1>1 DEF GroupsKept, TileInv, Aligned, Window, listVars
<1>2. CASE traces' = <<>>
  BY <1>2 DEF TileInv, Aligned
<1>3. CASE origin' = -1
  BY <1>3 DEF TileInv, Aligned
<1> QED BY <1>1, <1>2, <1>3, RebuiltTile, NextTile, PrevTile DEF GroupsStep

\* Trace mode: from a start at a multiple of the screen size, Next and Previous
\* (makeDispList) show the consecutive windows of the list, for every screen size
\* and list, however often either is pressed: no trace is skipped or shown twice.
THEOREM ScreensTileAlways == Spec => []ScreensTile
<1>1. Init => TileInv
  BY DEF Init, TileInv, Aligned
<1>2. TileInv => ScreensTile
  BY DEF TileInv, ScreensTile, Window
<1> QED BY <1>1, <1>2, AlwaysListInv, StepTile, PTL DEF Spec

-----------------------------------------------------------------------------
(* Data: what is drawn was read, and what was read before was freed.       *)

\* The traces at the n places of s from place a on (0-based), those there are.
Places(s, a, n) ==
    {s[k + 1] : k \in {k \in a .. a + n - 1 : 0 <= k /\ k < Len(s)}}

\* A read that was asked for has its redraw still to come.
AskInv == state = "READDATA" => redraw # "no"

DrawnInv ==
    since \cap {"unread", "emptied"} = {} /\ state # "READDATA" => Elems(curGrp) \subseteq hasData

\* The data in memory are those at the places of the last screen read.
LastReadInv ==
    since \cap {"moved", "emptied"} = {} /\ numTraces = Len(traces) =>
        hasData \subseteq Places(traces, prevStart, prevPlots)

ShownInv ==
    state # "READDATA" /\ since = {} /\ numTraces = Len(traces) /\ startRec >= 0 =>
        hasData \subseteq Elems(curGrp)

DataInv == AskInv /\ DrawnInv /\ LastReadInv /\ ShownInv

\* An action that rebuilds the groups, or goes to another screen: it asks for the
\* data or is exempt, and the list keeps its order or the step is marked.
LEMMA MarkedData ==
    ASSUME DataInv, redraw' # "no", state' = "READDATA" \/ "unread" \in since',
           \/ "moved" \in since'
           \/ hasData' = {}
           \/ since \subseteq since' /\ UNCHANGED <<listVars, dataVars>>
    PROVE  DataInv'
<1>1. AskInv' /\ DrawnInv' /\ ShownInv'
  BY DEF AskInv, DrawnInv, ShownInv
<1>2. LastReadInv'
  <2>1. CASE "moved" \in since' \/ hasData' = {}
    BY <2>1 DEF LastReadInv
  <2>2. CASE since \subseteq since' /\ UNCHANGED <<listVars, dataVars>>
    BY <2>2 DEF DataInv, LastReadInv, listVars, dataVars
  <2> QED BY <2>1, <2>2
<1> QED BY <1>1, <1>2 DEF DataInv

\* An action that leaves the list, the current group and the data.
LEMMA KeptData ==
    ASSUME DataInv, UNCHANGED <<listVars, startRec, curGrp, dataVars, state>>, since \subseteq since',
           redraw' # "no" \/ redraw' = redraw
    PROVE  DataInv'
<1>1. AskInv'
  BY DEF DataInv, AskInv
<1>2. DrawnInv' /\ ShownInv' /\ LastReadInv'
  BY DEF DataInv, DrawnInv, ShownInv, LastReadInv, listVars, dataVars
<1> QED BY <1>1, <1>2 DEF DataInv

LEMMA LoadData == DataInv /\ Load => DataInv'
<1> SUFFICES ASSUME DataInv, Load PROVE DataInv'
  OBVIOUS
<1>1. PICK new \in DList, replace \in BOOLEAN, read \in Nat :
             Open(new, replace, read) /\ (~replace => new # <<>>)
  BY LoadIsOpen
<1>2. CASE new # <<>>
  <2>1. /\ hasData' = OldData(replace) /\ state' = "READDATA" /\ redraw' = "reset"
        /\ since' = (since \ {"emptied"}) \cup (IF OldData(replace) = {} THEN {} ELSE {"moved"})
    BY <1>1, <1>2, OpenFound
  <2>2. "moved" \in since' \/ hasData' = {}
    BY <2>1
  <2> QED BY <2>1, <2>2, MarkedData
<1>3. CASE new = <<>>
  <2>1. replace /\ Open(<<>>, replace, read)
    BY <1>1, <1>3
  <2>2. since' = {"emptied"} /\ UNCHANGED <<state, redraw>>
    BY <2>1, OpenNone
  <2> QED BY <2>2 DEF DataInv, AskInv, DrawnInv, LastReadInv, ShownInv
<1> QED BY <1>2, <1>3

LEMMA PageData == DataInv /\ (NextScreen \/ PrevScreen) => DataInv'
<1> SUFFICES ASSUME DataInv, NextScreen \/ PrevScreen PROVE DataInv'
  OBVIOUS
<1>1. UNCHANGED <<listVars, dataVars, since>>
  BY DEF NextScreen, PrevScreen, nextTrace
<1>2. \/ UNCHANGED <<groups, state, redraw>>
      \/ state' = "READDATA" /\ redraw' = "reset"
  BY DEF NextScreen, PrevScreen, nextTrace
<1>3. CASE UNCHANGED <<groups, state, redraw>>
  BY <1>1, <1>3, KeptData DEF groups
<1>4. CASE state' = "READDATA" /\ redraw' = "reset"
  BY <1>1, <1>4, MarkedData
<1> QED BY <1>2, <1>3, <1>4

\* MovedBy marks a list that is reordered.
LEMMA RestartData ==
    ASSUME DataInv, NEW start, NEW newState, Restart(start, newState), UNCHANGED dataVars
    PROVE  DataInv'
<1>1. /\ redraw' # "no" /\ (state' = "READDATA" \/ "unread" \in since') /\ since \subseteq since'
      /\ numTraces' = numTraces
  BY DEF Restart, InitGroup
<1>2. "moved" \in since' \/ traces' = traces
  BY DEF Restart, MovedBy
<1> QED BY <1>1, <1>2, MarkedData DEF listVars

LEMMA JumpData == DataInv /\ (newStart \/ moveToFirst) => DataInv'
<1> SUFFICES ASSUME DataInv, newStart \/ moveToFirst PROVE DataInv'
  OBVIOUS
<1>1. UNCHANGED dataVars /\ \E start, newState : Restart(start, newState)
  BY DEF newStart, moveToFirst
<1> QED BY <1>1, RestartData

LEMMA PanelData == DataInv /\ controlPanel => DataInv'
<1> SUFFICES ASSUME DataInv, NEW m, NEW p, continueWith(m, p) \/ restartWith(m, p) PROVE DataInv'
  BY DEF controlPanel
<1>1. /\ redraw' # "no" /\ UNCHANGED dataVars /\ since' = since \cup MovedBy(m)
  BY DEF continueWith, restartWith
<1>2. "moved" \in since' \/ traces' = traces
  BY <1>1 DEF MovedBy
<1>3. \/ state' = "READDATA" /\ numTraces' = numTraces
      \/ UNCHANGED <<listVars, startRec, curGrp, state>>
  BY DEF continueWith, restartWith, InitGroup
<1>4. CASE state' = "READDATA" /\ numTraces' = numTraces
  BY <1>1, <1>2, <1>4, MarkedData DEF listVars
<1>5. CASE UNCHANGED <<listVars, startRec, curGrp, state>>
  BY <1>1, <1>5, KeptData
<1> QED BY <1>3, <1>4, <1>5

LEMMA SortData == DataInv /\ (removeSelected \/ sortTraces) => DataInv'
<1> SUFFICES ASSUME DataInv, removeSelected \/ sortTraces PROVE DataInv'
  OBVIOUS
<1>1. redraw' # "no" /\ (state' = "READDATA" \/ "unread" \in since') /\ "moved" \in since'
  BY DEF removeSelected, sortTraces
<1> QED BY <1>1, MarkedData

\* makeList: what it frees is what was read before and is not at the places of
\* the screen it now reads.
LEMMA RedrawData == ListInv /\ DataInv /\ Redraw => DataInv'
<1> SUFFICES ASSUME ListInv, DataInv, Redraw PROVE DataInv'
  OBVIOUS
<1>0. UNCHANGED <<listVars, groups, modeVars>> /\ redraw' = "no"
  BY DEF Redraw
<1>1. CASE state # "READDATA"
  <2>1. UNCHANGED <<dataVars, state, since>>
    BY <1>1 DEF Redraw
  <2>2. AskInv'
    BY <1>1, <2>1 DEF AskInv
  <2>3. DrawnInv' /\ ShownInv' /\ LastReadInv'
    BY <1>0, <2>1 DEF DataInv, DrawnInv, ShownInv, LastReadInv, listVars, groups, dataVars
  <2> QED BY <2>2, <2>3 DEF DataInv
<1>2. CASE state = "READDATA"
  <2>0. /\ traces \in DList /\ startRec \in Int /\ numPlots \in Nat \ {0} /\ Len(traces) \in Nat
        /\ numTraces \in Nat /\ prevStart \in Int /\ prevPlots \in Nat
    BY PlotCountsType, ListBasics DEF ListInv, ListsOK, OthersOK
  <2>1. /\ hasData' = (hasData \ ScrolledOut) \cup Elems(curGrp)
        /\ prevStart' = startRec /\ prevPlots' = numPlots /\ state' = "DATADONE"
        /\ since' = IF curGrp # FromIndex(traces, startRec, numPlots) THEN (since \ {"unread"}) \cup {"moved"}
                    ELSE since \ (IF hasData' = Elems(curGrp) THEN {"unread", "moved"} ELSE {"unread"})
    BY <1>2 DEF Redraw
  <2>2. AskInv' /\ DrawnInv'
    BY <1>0, <2>1 DEF AskInv, DrawnInv, groups
  <2> DEFINE screen == Places(traces, startRec, numPlots)
             window == FromIndex(traces, startRec, numPlots)
  <2>3. Elems(window) \subseteq screen /\ (startRec >= 0 => screen \subseteq Elems(window))
    <3>1. CASE startRec \in 0 .. Len(traces) - 1
      <4>1. Elems(window) = {traces[k] : k \in {k \in 1 .. Len(traces) : startRec < k /\ k <= startRec + numPlots}}
        BY <2>0, <3>1, FromIndexIsList
      <4>2. ASSUME NEW k \in 1 .. Len(traces), startRec < k, k <= startRec + numPlots
            PROVE  traces[k] \in screen
        <5>1. k - 1 \in startRec .. startRec + numPlots - 1 /\ 0 <= k - 1 /\ k - 1 < Len(traces) /\ (k - 1) + 1 = k
          BY <4>2, <2>0
        <5>2. traces[(k - 1) + 1] \in screen
          BY <5>1 DEF Places
        <5> QED BY <5>1, <5>2
      <4>3. ASSUME NEW k \in startRec .. startRec + numPlots - 1, 0 <= k, k < Len(traces)
            PROVE  traces[k + 1] \in Elems(window)
        <5>1. k + 1 \in 1 .. Len(traces) /\ startRec < k + 1 /\ k + 1 <= startRec + numPlots
          BY <4>3, <2>0
        <5> QED BY <5>1, <4>1
      <4> QED BY <4>1, <4>2, <4>3 DEF Places
    <3>2. CASE startRec \notin 0 .. Len(traces) - 1
      <4>1. window = <<>>
        BY <2>0, <3>2, FromIndexIsList
      <4>2. startRec >= 0 => screen = {}
        BY <2>0, <3>2 DEF Places
      <4> QED BY <4>1, <4>2, EmptyList
    <3> QED BY <3>1, <3>2
  <2> HIDE DEF screen, window
  <2>4. ASSUME since' \cap {"moved", "emptied"} = {}, numTraces = Len(traces)
        PROVE  curGrp = window /\ hasData' \subseteq screen
    <3>1. curGrp = window
      BY <2>1, <2>4 DEF window
    <3>2. CASE hasData' = Elems(curGrp)
      BY <3>1, <3>2, <2>3
    <3>3. CASE hasData' # Elems(curGrp)
      <4>1. since' = since \ {"unread"}
        BY <2>1, <3>1, <3>3 DEF window
      <4>2. hasData \subseteq Places(traces, prevStart, prevPlots)
        BY <4>1, <2>4 DEF DataInv, LastReadInv
      <4>3. ASSUME NEW x \in Places(traces, prevStart, prevPlots), x \notin ScrolledOut
            PROVE  x \in screen
        <5>1. PICK k \in prevStart .. prevStart + prevPlots - 1 :
                x = traces[k + 1] /\ 0 <= k /\ k < Len(traces)
          BY <4>3 DEF Places
        <5>2. ~(k < startRec \/ k > startRec + numPlots - 1)
          BY <4>3, <5>1, <2>4 DEF ScrolledOut
        <5>3. k \in startRec .. startRec + numPlots - 1
          BY <5>1, <5>2, <2>0
        <5> QED BY <5>1, <5>3 DEF screen, Places
      <4> QED BY <2>1, <2>3, <3>1, <4>2, <4>3
    <3> QED BY <3>1, <3>2, <3>3
  <2>5. LastReadInv'
    <3>1. Places(traces', prevStart', prevPlots') = screen
      BY <1>0, <2>1 DEF screen, listVars
    <3> QED BY <1>0, <2>4, <3>1 DEF LastReadInv, listVars
  <2>6. ShownInv'
    BY <1>0, <2>3, <2>4 DEF ShownInv, listVars, groups
  <2> QED BY <2>2, <2>5, <2>6 DEF DataInv
<1> QED BY <1>1, <1>2

LEMMA NextData == ListInv /\ DataInv /\ [Next]_vars => DataInv'
<1> SUFFICES ASSUME ListInv, DataInv, [Next]_vars PROVE DataInv'
  OBVIOUS
<1>1. CASE UNCHANGED vars
  BY <1>1, KeptData DEF vars, groups
<1>2. CASE selectTraces
  BY <1>2, KeptData DEF selectTraces, groups
<1> QED BY <1>1, <1>2, LoadData, PageData, JumpData, PanelData, SortData, RedrawData DEF Next

LEMMA AlwaysDataInv == Spec => []DataInv
<1>1. Init => DataInv
  BY EmptyList DEF Init, DataInv, AskInv, DrawnInv, LastReadInv, ShownInv
<1> QED BY <1>1, AlwaysListInv, NextData, PTL DEF Spec

\* No trace is drawn without its data: makeList frees by the indices of the last
\* screen read, yet never what the screen now shows, after any sequence of pages,
\* jumps, resizes, opens and sorts that ask for data.
THEOREM DrawnHasDataAlways == Spec => []DrawnHasData
<1>1. DataInv => DrawnHasData
  BY DEF DataInv, AskInv, DrawnInv, DrawnHasData
<1> QED BY <1>1, AlwaysDataInv, PTL

\* Memory holds the data of one screen at most, whatever the size of the list: as
\* long as the list keeps its order, freeing by index frees all of the screen left.
THEOREM HeldIsShownAlways == Spec => []HeldIsShown
<1>1. DataInv => HeldIsShown
  BY DEF DataInv, AskInv, ShownInv, HeldIsShown
<1> QED BY <1>1, AlwaysDataInv, PTL

-----------------------------------------------------------------------------
(* Gather mode: the groups are the consecutive runs of the list.           *)

\* The array of criteria holds the start time where sortList looks for it
\* (pqlx_defs.h:207).
StartTimeInPlace == SORTSTARTTIME < Len(Criteria) => Criteria[SORTSTARTTIME + 1] = Epochs

ByEpoch(t) == \A i, j \in 1 .. Len(t) : i < j => Epochs[t[i]] <= Epochs[t[j]]

\* g holds the traces of t after the first a, as many as it has, within Spread.
RunOf(t, g, a) ==
    /\ a \in Nat /\ a + Len(g) <= Len(t)
    /\ Elems(g) = {t[k] : k \in a + 1 .. a + Len(g)}
    /\ \A x, y \in Elems(g) : Epochs[x] - Epochs[y] <= Spread

\* The groups of the stack G, the latest first, are the runs that end at a: the
\* k-th begins at f[k], where the one before it in time ends.
Chain(t, G, a) ==
    \E f \in [0 .. Len(G) -> Nat] :
        /\ f[0] = a /\ f[Len(G)] = 0
        /\ \A k \in 1 .. Len(G) : f[k - 1] = f[k] + Len(G[k]) /\ RunOf(t, G[k], f[k])

LEMMA EmptyRun ==
    ASSUME NEW t \in DList, NEW a \in 0 .. Len(t)
    PROVE  RunOf(t, <<>>, a)
<1>1. Len(t) \in Nat /\ Elems(<<>>) = {} /\ Len(<<>>) = 0
  BY ListBasics, EmptyList
<1>2. {t[k] : k \in a + 1 .. a + 0} = {}
  BY <1>1
<1> QED BY <1>1, <1>2 DEF RunOf

\* A group that holds what Gathered found, in whatever order, of a list in the
\* order of start times.
LEMMA GatheredRun ==
    ASSUME NEW t \in DList, ByEpoch(t), NEW from \in 0 .. Len(t) - 1, NEW g \in DList,
           Elems(g) = Elems(Gathered(t, from)), Len(g) = Len(Gathered(t, from))
    PROVE  RunOf(t, g, from)
<1> DEFINE N == Len(t)
           e == from + Len(g)
<1>0. /\ N \in Nat /\ from \in 0 .. N - 1 /\ \A k \in 1 .. N : t[k] \in Trcs /\ Epochs[t[k]] \in Nat
      /\ Spread \in Nat
  BY ListBasics, DispAssumption
<1>1. /\ Len(g) \in 1 .. N - from
      /\ Gathered(t, from) = SubSeq(t, from + 1, e)
      /\ \A k \in from + 1 .. e : Epochs[t[k]] - Epochs[t[from + 1]] <= Spread
  BY GatheredIsList
<1>2. from \in 0 .. N /\ e \in from .. N /\ from \in Nat /\ e <= N /\ from + 1 \in 1 .. N
  BY <1>0, <1>1
<1> HIDE DEF e
<1>3. Elems(g) = {t[k] : k \in from + 1 .. e}
  BY <1>1, <1>2, RunIsList
<1>4. ASSUME NEW x \in Elems(g), NEW y \in Elems(g) PROVE Epochs[x] - Epochs[y] <= Spread
  <2>1. PICK i \in from + 1 .. e : x = t[i]
    BY <1>3
  <2>2. PICK j \in from + 1 .. e : y = t[j]
    BY <1>3
  <2>3. i \in 1 .. N /\ j \in 1 .. N
    BY <1>0, <1>2
  <2>4. Epochs[t[from + 1]] <= Epochs[t[j]]
    <3>1. CASE j = from + 1
      BY <3>1, <1>0, <1>2
    <3>2. CASE from + 1 < j
      BY <3>2, <1>2, <2>3 DEF ByEpoch
    <3> QED BY <3>1, <3>2, <1>0
  <2>5. Epochs[t[i]] - Epochs[t[from + 1]] <= Spread
    BY <1>1
  <2>6. Epochs[t[i]] \in Nat /\ Epochs[t[j]] \in Nat /\ Epochs[t[from + 1]] \in Nat
    BY <1>0, <1>2, <2>3
  <2> QED BY SMTT(30), <1>0, <2>1, <2>2, <2>4, <2>5, <2>6
<1> QED BY <1>2, <1>3, <1>4 DEF RunOf, e

LEMMA ChainStart ==
    ASSUME NEW t \in DList
    PROVE  Chain(t, <<<<>>>>, 0)
<1> DEFINE G == <<<<>>>>
           f == [k \in 0 .. 1 |-> 0]
<1>1. Len(G) = 1 /\ G[1] = <<>> /\ Len(<<>>) = 0
  OBVIOUS
<1>2. f \in [0 .. Len(G) -> Nat] /\ f[0] = 0 /\ f[1] = 0
  BY <1>1
<1>3. RunOf(t, <<>>, 0)
  <2>1. 0 \in 0 .. Len(t)
    BY ListBasics
  <2> QED BY <2>1, EmptyRun
<1> HIDE DEF f, G
<1>4. \A k \in 1 .. Len(G) : k = 1
  BY <1>1
<1> QED BY <1>1, <1>2, <1>3, <1>4 DEF Chain, G

LEMMA ChainPush ==
    ASSUME NEW t \in DList, NEW G \in Seq(DList), NEW a \in Nat, Chain(t, G, a),
           NEW g \in DList, RunOf(t, g, a)
    PROVE  Chain(t, <<g>> \o G, a + Len(g))
<1>1. PICK f \in [0 .. Len(G) -> Nat] :
        /\ f[0] = a /\ f[Len(G)] = 0
        /\ \A k \in 1 .. Len(G) : f[k - 1] = f[k] + Len(G[k]) /\ RunOf(t, G[k], f[k])
  BY DEF Chain
<1> DEFINE H == <<g>> \o G
           N == Len(G)
           h == [k \in 0 .. N + 1 |-> IF k = 0 THEN a + Len(g) ELSE f[k - 1]]
<1>2. /\ N \in Nat /\ Len(H) = N + 1 /\ H[1] = g /\ \A k \in 2 .. N + 1 : H[k] = G[k - 1]
  BY PushedStack
<1>3. Len(g) \in Nat
  BY ListBasics
<1>4. h \in [0 .. N + 1 -> Nat]
  <2>1. \A k \in 0 .. N + 1 : k # 0 => k - 1 \in 0 .. N
    BY <1>2
  <2> QED BY <2>1, <1>1, <1>3
<1>5. h[0] = a + Len(g) /\ h[N + 1] = 0
  BY <1>1, <1>2
<1>6. ASSUME NEW k \in 1 .. N + 1 PROVE h[k - 1] = h[k] + Len(H[k]) /\ RunOf(t, H[k], h[k])
  <2>1. h[k] = f[k - 1]
    BY <1>2
  <2>2. CASE k = 1
    <3>1. h[1] = a /\ h[0] = a + Len(g)
      BY <2>1, <2>2, <1>1, <1>5
    <3> HIDE DEF h, H
    <3> QED BY <3>1, <2>2, <1>2
  <2>3. CASE k # 1
    <3>1. k \in 2 .. N + 1 /\ k - 1 \in 1 .. N /\ H[k] = G[k - 1]
      BY <2>3, <1>2
    <3>2. h[k - 1] = f[(k - 1) - 1]
      BY <3>1, <1>2
    <3>3. f[(k - 1) - 1] = f[k - 1] + Len(G[k - 1]) /\ RunOf(t, G[k - 1], f[k - 1])
      BY <3>1, <1>1
    <3> HIDE DEF h, H
    <3> QED BY <2>1, <3>1, <3>2, <3>3
  <2> QED BY <2>2, <2>3
<1> HIDE DEF h, H, N
<1> QED BY <1>2, <1>4, <1>5, <1>6 DEF Chain, H

LEMMA ChainPop ==
    ASSUME NEW t \in DList, NEW G \in Seq(DList), NEW a \in Nat, NEW g \in DList,
           Chain(t, <<g>> \o G, a)
    PROVE  /\ a - Len(g) \in Nat /\ RunOf(t, g, a - Len(g))
           /\ G = <<>> => a = Len(g)
           /\ G # <<>> => Chain(t, G, a - Len(g))
<1> DEFINE H == <<g>> \o G
           N == Len(G)
<1>1. PICK f \in [0 .. Len(H) -> Nat] :
        /\ f[0] = a /\ f[Len(H)] = 0
        /\ \A k \in 1 .. Len(H) : f[k - 1] = f[k] + Len(H[k]) /\ RunOf(t, H[k], f[k])
  BY DEF Chain
<1>2. /\ N \in Nat /\ Len(H) = N + 1 /\ H[1] = g /\ \A k \in 2 .. N + 1 : H[k] = G[k - 1]
  BY PushedStack
<1> HIDE DEF H
<1>3. Len(g) \in Nat
  BY ListBasics
<1>4. f[1] \in Nat /\ a = f[1] + Len(g) /\ RunOf(t, g, f[1])
  <2>1. 1 \in 1 .. Len(H) /\ 1 \in 0 .. Len(H) /\ 1 - 1 = 0
    BY <1>2
  <2>2. f[1 - 1] = f[1] + Len(H[1]) /\ RunOf(t, H[1], f[1])
    BY <2>1, <1>1
  <2> QED BY <2>1, <2>2, <1>1, <1>2
<1>5. a - Len(g) = f[1]
  BY <1>3, <1>4
<1>6. ASSUME G = <<>> PROVE a = Len(g)
  <2>1. f[1] = 0
    BY <1>1, <1>2, <1>6
  <2> QED BY <2>1, <1>3, <1>4
<1>7. Chain(t, G, f[1])
  <2> DEFINE h == [k \in 0 .. N |-> f[k + 1]]
  <2>1. h \in [0 .. N -> Nat]
    <3>1. \A k \in 0 .. N : k + 1 \in 0 .. Len(H)
      BY <1>2
    <3> QED BY <3>1
  <2>2. h[0] = f[1] /\ h[N] = 0
    BY <1>1, <1>2
  <2>3. ASSUME NEW k \in 1 .. N PROVE h[k - 1] = h[k] + Len(G[k]) /\ RunOf(t, G[k], h[k])
    <3>1. k + 1 \in 1 .. Len(H) /\ k + 1 \in 2 .. N + 1 /\ (k + 1) - 1 = k /\ H[k + 1] = G[k]
      BY <1>2
    <3>2. f[(k + 1) - 1] = f[k + 1] + Len(H[k + 1]) /\ RunOf(t, H[k + 1], f[k + 1])
      BY <3>1, <1>1
    <3>3. h[k - 1] = f[k] /\ h[k] = f[k + 1]
      <4>1. k - 1 \in 0 .. N /\ k \in 0 .. N /\ (k - 1) + 1 = k
        BY <1>2
      <4> QED BY <4>1
    <3> QED BY <3>1, <3>2, <3>3
  <2> HIDE DEF h
  <2> QED BY <2>1, <2>2, <2>3 DEF Chain
<1> QED BY <1>4, <1>5, <1>6, <1>7

\* The groups of the stack cover the list up to a.
LEMMA ChainCovers ==
    ASSUME NEW t \in DList, NEW G \in Seq(DList), NEW a \in Nat, Chain(t, G, a)
    PROVE  UNION {Elems(G[k]) : k \in 1 .. Len(G)} = {t[j] : j \in 1 .. a}
<1> DEFINE N == Len(G)
<1>1. PICK f \in [0 .. N -> Nat] :
        /\ f[0] = a /\ f[N] = 0
        /\ \A k \in 1 .. N : f[k - 1] = f[k] + Len(G[k]) /\ RunOf(t, G[k], f[k])
  BY DEF Chain
<1>0. N \in Nat /\ \A k \in 1 .. N : G[k] \in DList /\ Len(G[k]) \in Nat
  BY ListBasics
<1>2. \A k \in 0 .. N : f[k] \in Nat
  OBVIOUS
<1>3. \A k \in 0 .. N : f[k] <= a
  <2> DEFINE S == {k \in Nat : k \in 0 .. N => f[k] <= a}
  <2>1. 0 \in S
    BY <1>1, <1>2
  <2>2. ASSUME NEW k \in S PROVE k + 1 \in S
    <3> SUFFICES ASSUME k + 1 \in 0 .. N PROVE f[k + 1] <= a
      OBVIOUS
    <3>1. k + 1 \in 1 .. N /\ k \in 0 .. N /\ (k + 1) - 1 = k
      BY <1>0
    <3>2. f[(k + 1) - 1] = f[k + 1] + Len(G[k + 1])
      BY <3>1, <1>1
    <3>3. f[k] <= a
      BY <3>1
    <3> QED BY <3>1, <3>2, <3>3, <1>0, <1>2
  <2> HIDE DEF S
  <2>3. S = Nat
    <3>1. S \in SUBSET Nat
      BY DEF S
    <3> QED BY <3>1, <2>1, <2>2, SetInduction
  <2> QED BY <2>3, <1>0 DEF S
<1>4. ASSUME NEW k \in 1 .. N PROVE Elems(G[k]) \subseteq {t[j] : j \in 1 .. a}
  <2>1. k \in 0 .. N /\ k - 1 \in 0 .. N
    BY <1>0
  <2>2. f[k] + Len(G[k]) <= a /\ f[k] \in Nat
    BY <1>1, <1>2, <1>3, <2>1
  <2>3. Elems(G[k]) = {t[j] : j \in f[k] + 1 .. f[k] + Len(G[k])}
    BY <1>1 DEF RunOf
  <2>4. f[k] + 1 .. f[k] + Len(G[k]) \subseteq 1 .. a
    BY <2>2, <1>0
  <2> QED BY <2>3, <2>4
<1>5. ASSUME NEW j \in 1 .. a PROVE \E k \in 1 .. N : t[j] \in Elems(G[k])
  <2> DEFINE S == {k \in 0 .. N : f[k] < j}
             k == CHOOSE i \in S : \A m \in S : i <= m
  <2>1. S \in SUBSET Nat /\ N \in S
    BY <1>0, <1>1
  <2> HIDE DEF S
  <2>2. k \in S /\ \A m \in S : k <= m
    BY <2>1, LeastElement
  <2> HIDE DEF k
  <2>3. k \in 0 .. N /\ f[k] < j
    BY <2>2 DEF S
  <2>4. k # 0
    BY <2>3, <1>1
  <2>5. k \in 1 .. N /\ k - 1 \in 0 .. N
    BY <2>3, <2>4, <1>0
  <2>6. k - 1 \notin S
    BY <2>2, <2>5, <1>0
  <2>7. j <= f[k - 1]
    BY <2>5, <2>6, <1>2 DEF S
  <2>8. f[k - 1] = f[k] + Len(G[k]) /\ Elems(G[k]) = {t[i] : i \in f[k] + 1 .. f[k] + Len(G[k])}
    BY <2>5, <1>1 DEF RunOf
  <2>9. j \in f[k] + 1 .. f[k] + Len(G[k])
    BY <2>3, <2>7, <2>8, <2>5, <1>0, <1>2
  <2> QED BY <2>5, <2>8, <2>9
<1> HIDE DEF N
<1>6. UNION {Elems(G[k]) : k \in 1 .. N} = {t[j] : j \in 1 .. a}
  <2> DEFINE all == UNION {Elems(G[k]) : k \in 1 .. N}
             some == {t[j] : j \in 1 .. a}
  <2>1. ASSUME NEW x \in all PROVE x \in some
    <3>1. PICK k \in 1 .. N : x \in Elems(G[k])
      OBVIOUS
    <3> QED BY <3>1, <1>4
  <2>2. ASSUME NEW x \in some PROVE x \in all
    <3>1. PICK j \in 1 .. a : x = t[j]
      OBVIOUS
    <3>2. PICK k \in 1 .. N : t[j] \in Elems(G[k])
      BY <1>5
    <3> QED BY <3>1, <3>2
  <2> HIDE DEF all, some
  <2>3. all = some
    BY <2>1, <2>2
  <2> QED BY <2>3 DEF all, some
<1> QED BY <1>6 DEF N


Gathering == mode = "GATHER" /\ origin = 0 /\ traces # <<>> /\ ~crashed

\* What Next and Previous keep in gather mode: the list is in the order of start
\* times, the current and the next group are the runs from startRec on, and the
\* stack of groups behind them leads back to the first trace.
GatherInv ==
    Gathering =>
        /\ ByEpoch(traces)
        /\ RunOf(traces, curGrp, startRec)
        /\ RunOf(traces, nextGrp, startRec + Len(curGrp))
        /\ Chain(traces, <<prevGrp>> \o prevList, startRec)

\* The next group, of a list in the order of start times.
LEMMA NextGroupRun ==
    ASSUME NEW t \in DList, ByEpoch(t), NEW n \in Nat, n <= Len(t), NEW p,
           NEW start \in Nat, NEW cur \in DList, start + Len(cur) <= Len(t),
           NextGroup(NextGroupOf(t, n, "GATHER", p, start, cur), "GATHER"), ~crashed'
    PROVE  RunOf(t, nextGrp', start + Len(cur))
<1> DEFINE a == start + Len(cur)
           run == NextGroupOf(t, n, "GATHER", p, start, cur)
<1>0. Len(t) \in Nat /\ Len(cur) \in Nat /\ a \in Nat /\ a <= Len(t)
  BY ListBasics
<1>1. run = IF a >= n THEN <<>> ELSE Gathered(t, a)
  BY <1>0 DEF NextGroupOf
<1> HIDE DEF run, a
<1>2. CASE a >= n
  <2>1. run = <<>>
    BY <1>1, <1>2
  <2>2. nextGrp' = <<>>
    <3>1. "GATHER" \in Modes /\ NextGroup(<<>>, "GATHER") /\ <<>> \in DList
      BY <2>1, EmptyList DEF Modes, run
    <3>2. nextGrp' \in DList /\ Elems(nextGrp') \subseteq Elems(<<>>)
      BY <3>1, NextGroupIsPart
    <3> QED BY <3>2, EmptyList, ListBasics
  <2>3. a \in 0 .. Len(t)
    BY <1>0
  <2> QED BY <2>2, <2>3, EmptyRun DEF a
<1>3. CASE ~(a >= n)
  <2>1. run = Gathered(t, a) /\ a \in 0 .. Len(t) - 1
    BY <1>0, <1>1, <1>3
  <2>2. run \in DList
    BY <2>1, GatheredIsList
  <2>3. nextGrp' \in DList /\ Elems(nextGrp') = Elems(run) /\ Len(nextGrp') = Len(run)
    <3>1. "GATHER" \in Modes /\ NextGroup(run, "GATHER")
      BY DEF Modes, run
    <3> QED BY <3>1, <2>2, NextGroupIsPart
  <2> QED BY <2>1, <2>3, GatheredRun DEF a
<1> QED BY <1>2, <1>3

\* sortList(SORTSTARTTIME) puts the list in the order of start times.
LEMMA SortedByEpoch ==
    ASSUME StartTimeInPlace, NEW s \in DList, ~NoCriterion(s, SORTSTARTTIME)
    PROVE  ByEpoch(sortList(s, SORTSTARTTIME))
<1>0. Len(s) \in Nat /\ s \in Seq(Trcs)
  BY ListBasics
<1>1. CASE Len(s) < 2
  BY <1>0, <1>1 DEF sortList, ByEpoch
<1>2. CASE ~(Len(s) < 2)
  <2>1. SORTSTARTTIME < Len(Criteria)
    <3>1. Len(Criteria) \in Nat /\ SORTSTARTTIME \in Nat
      BY DispAssumption DEF SORTSTARTTIME
    <3> QED BY <3>1, <1>0, <1>2 DEF NoCriterion
  <2>2. sortList(s, SORTSTARTTIME) = StableSort(s, Epochs)
    BY <1>2, <2>1 DEF sortList, StartTimeInPlace
  <2>3. Epochs \in [Trcs -> Int]
    <3>1. Epochs \in [Trcs -> Nat]
      BY DispAssumption
    <3> QED BY <3>1
  <2>4. /\ Len(StableSort(s, Epochs)) = Len(s)
        /\ \A m, n \in 1 .. Len(s) :
              m < n => Epochs[StableSort(s, Epochs)[m]] <= Epochs[StableSort(s, Epochs)[n]]
    BY <1>0, <2>3, SortProperties
  <2> DEFINE r == StableSort(s, Epochs)
  <2> HIDE DEF r
  <2>5. ByEpoch(r)
    BY <2>4 DEF ByEpoch, r
  <2> QED BY <2>2, <2>5 DEF r
<1> QED BY <1>1, <1>2

LEMMA RebuiltGather ==
    ASSUME StartTimeInPlace, ListInv', Rebuilds PROVE GatherInv'
<1>1. PICK tr \in DList, n \in Nat, start \in Int :
        n <= Len(tr) /\ InitGroup(tr, n, mode', numPlots', start)
  BY DEF Rebuilds
<1> SUFFICES ASSUME Gathering'
             PROVE  /\ ByEpoch(traces')
                    /\ RunOf(traces', curGrp', startRec')
                    /\ RunOf(traces', nextGrp', startRec' + Len(curGrp'))
                    /\ Chain(traces', <<prevGrp'>> \o prevList', startRec')
  BY DEF GatherInv
<1>2. mode' = "GATHER" /\ ~crashed' /\ numPlots' \in Nat \ {0}
  BY PlotCountsType DEF Gathering, ListInv, OthersOK
<1>3. startRec' = 0 /\ start = 0 /\ prevList' = <<>>
  BY <1>1 DEF InitGroup, Gathering
<1> DEFINE p == numPlots'
<1>4. p \in Nat \ {0} /\ InitGroup(tr, n, "GATHER", p, start)
  BY <1>1, <1>2
<1> HIDE DEF p
<1>5. /\ tr # <<>> /\ ~NoCriterion(tr, SORTSTARTTIME)
      /\ traces' = sortList(tr, SORTSTARTTIME)
      /\ PartOf(traces', tr) /\ Elems(traces') = Elems(tr) /\ Len(traces') = Len(tr)
      /\ curGrp' = sortList(Gathered(traces', 0), SORTINSTID)
      /\ curGrp' \in DList /\ Elems(curGrp') = Elems(Gathered(traces', 0))
      /\ Len(curGrp') = Len(Gathered(traces', 0))
      /\ prevGrp' = <<>>
      /\ NextGroup(NextGroupOf(traces', n, "GATHER", p, start, curGrp'), "GATHER")
  <2>1. crashed' # TRUE
    BY <1>2
  <2> QED BY <2>1, <1>1, <1>4, InitGroupGather
<1>6. ByEpoch(traces')
  BY <1>5, SortedByEpoch
<1>7. traces' \in DList /\ Len(traces') \in Nat /\ 0 \in 0 .. Len(traces') - 1
  BY <1>5, ListBasics DEF PartOf
<1>8. RunOf(traces', curGrp', 0)
  BY <1>5, <1>6, <1>7, GatheredRun
<1>9. 0 + Len(curGrp') <= Len(traces')
  BY <1>8 DEF RunOf
<1>10. RunOf(traces', nextGrp', 0 + Len(curGrp'))
  <2>1. n <= Len(traces') /\ 0 \in Nat
    BY <1>1, <1>5
  <2>2. NextGroup(NextGroupOf(traces', n, "GATHER", p, 0, curGrp'), "GATHER")
    BY <1>3, <1>5
  <2> QED BY <1>2, <1>5, <1>6, <1>7, <1>9, <2>1, <2>2, NextGroupRun
<1>11. Chain(traces', <<<<>>>>, 0)
  BY <1>7, ChainStart
<1>12. <<prevGrp'>> \o prevList' = <<<<>>>>
  BY <1>3, <1>5
<1> QED BY <1>3, <1>6, <1>8, <1>10, <1>11, <1>12

LEMMA NextGather ==
    ASSUME ListInv, GatherInv, nextGrp # <<>>, Pages(NEXTGROUP)
    PROVE  GatherInv'
<1> SUFFICES ASSUME Gathering'
             PROVE  /\ ByEpoch(traces)
                    /\ RunOf(traces, curGrp', startRec')
                    /\ RunOf(traces, nextGrp', startRec' + Len(curGrp'))
                    /\ Chain(traces, <<prevGrp'>> \o prevList', startRec')
  BY DEF GatherInv, Pages, listVars
<1>0. /\ traces \in DList /\ numTraces \in Nat /\ numTraces <= Len(traces)
      /\ curGrp \in DList /\ nextGrp \in DList /\ prevGrp \in DList /\ prevList \in Seq(DList)
  BY DEF ListInv, ListsOK
<1>1. Gathering /\ mode = "GATHER" /\ ~crashed'
  BY DEF Gathering, Pages, listVars
<1>2. /\ ByEpoch(traces)
      /\ RunOf(traces, curGrp, startRec)
      /\ RunOf(traces, nextGrp, startRec + Len(curGrp))
      /\ Chain(traces, <<prevGrp>> \o prevList, startRec)
  BY <1>1 DEF GatherInv
<1>3. /\ startRec' = startRec + Len(curGrp) /\ prevGrp' = curGrp /\ curGrp' = nextGrp
      /\ prevList' = <<prevGrp>> \o prevList
      /\ NextGroup(NextGroupOf(traces, numTraces, "GATHER", numPlots, startRec', curGrp'), "GATHER")
  BY <1>1 DEF Pages, NEXTGROUP
<1>4. startRec \in Nat /\ startRec' \in Nat /\ startRec' + Len(curGrp') <= Len(traces)
  BY <1>2, <1>3 DEF RunOf
<1>5. RunOf(traces, nextGrp', startRec' + Len(curGrp'))
  BY <1>0, <1>1, <1>2, <1>3, <1>4, NextGroupRun
<1>6. Chain(traces, <<curGrp>> \o (<<prevGrp>> \o prevList), startRec + Len(curGrp))
  <2>1. <<prevGrp>> \o prevList \in Seq(DList)
    BY <1>0, PushedStack
  <2> DEFINE G == <<prevGrp>> \o prevList
  <2> HIDE DEF G
  <2>2. Chain(traces, <<curGrp>> \o G, startRec + Len(curGrp))
    BY <1>0, <1>2, <1>4, <2>1, ChainPush DEF G
  <2> QED BY <2>2 DEF G
<1>7. <<prevGrp'>> \o prevList' = <<curGrp>> \o (<<prevGrp>> \o prevList)
  BY <1>3
<1> QED BY <1>2, <1>3, <1>5, <1>6, <1>7

LEMMA PrevGather ==
    ASSUME ListInv, GatherInv, prevGrp # <<>>, Pages(PREVGROUP)
    PROVE  GatherInv'
<1> SUFFICES ASSUME Gathering'
             PROVE  /\ ByEpoch(traces)
                    /\ RunOf(traces, curGrp', startRec')
                    /\ RunOf(traces, nextGrp', startRec' + Len(curGrp'))
                    /\ Chain(traces, <<prevGrp'>> \o prevList', startRec')
  BY DEF GatherInv, Pages, listVars
<1>0. /\ traces \in DList /\ curGrp \in DList /\ prevGrp \in DList /\ prevList \in Seq(DList)
  BY DEF ListInv, ListsOK
<1>0a. Len(prevGrp) \in Nat
  BY <1>0, ListBasics
<1>1. Gathering /\ mode = "GATHER"
  BY DEF Gathering, Pages, listVars, PREVGROUP
<1>2. /\ ByEpoch(traces)
      /\ RunOf(traces, curGrp, startRec)
      /\ Chain(traces, <<prevGrp>> \o prevList, startRec)
  BY <1>1 DEF GatherInv
<1>3. startRec \in Nat
  BY <1>2 DEF RunOf
<1>4. /\ startRec - Len(prevGrp) \in Nat /\ RunOf(traces, prevGrp, startRec - Len(prevGrp))
      /\ prevList = <<>> => startRec = Len(prevGrp)
      /\ prevList # <<>> => Chain(traces, prevList, startRec - Len(prevGrp))
  BY <1>0, <1>2, <1>3, ChainPop
<1>5. /\ startRec' = startRec - Len(prevGrp) /\ curGrp' = prevGrp /\ nextGrp' = curGrp
      /\ prevGrp' = IF prevList = <<>> THEN <<>> ELSE Head(prevList)
      /\ prevList' = IF prevList = <<>> THEN <<>> ELSE Tail(prevList)
  <2>1. ~(startRec - Len(prevGrp) < 0)
    BY <1>4
  <2>2. mode # "TRACE"
    BY <1>1
  <2> QED BY <2>1, <2>2 DEF Pages, PREVGROUP
<1>6. startRec' + Len(curGrp') = startRec
  BY <1>0a, <1>3, <1>5
<1>7. CASE prevList = <<>>
  <2>1. <<prevGrp'>> \o prevList' = <<<<>>>> /\ startRec' = 0
    BY <1>0a, <1>4, <1>5, <1>7
  <2> QED BY <1>0, <1>2, <1>4, <1>5, <1>6, <2>1, ChainStart
<1>8. CASE prevList # <<>>
  <2>1. <<Head(prevList)>> \o Tail(prevList) = prevList
    BY <1>0, <1>8
  <2> QED BY <1>2, <1>4, <1>5, <1>6, <1>8, <2>1
<1> QED BY <1>7, <1>8

LEMMA StepGather ==
    ASSUME StartTimeInPlace
    PROVE  ListInv /\ ListInv' /\ GatherInv /\ [Next]_vars => GatherInv'
<1> SUFFICES ASSUME ListInv, ListInv', GatherInv, GroupsStep PROVE GatherInv'
  BY GroupsStepOf
<1>1. CASE GroupsKept
  BY <1>1 DEF GroupsKept, GatherInv, Gathering, listVars
<1>2. CASE traces' = <<>>
  BY <1>2 DEF GatherInv, Gathering
<1>3. CASE origin' = -1
  BY <1>3 DEF GatherInv, Gathering
<1> QED BY <1>1, <1>2, <1>3, RebuiltGather, NextGather, PrevGather DEF GroupsStep

LEMMA GatherInvTiles == ListInv /\ GatherInv => GathersTile
<1> SUFFICES ASSUME ListInv, GatherInv, Gathering
             PROVE  /\ Elems(curGrp) = Elems(SubSeq(traces, startRec + 1, startRec + Len(curGrp)))
                    /\ \A x, y \in Elems(curGrp) : Epochs[x] - Epochs[y] <= Spread
                    /\ Elems(prevGrp) \cup UNION {Elems(prevList[k]) : k \in DOMAIN prevList}
                         = Elems(SubSeq(traces, 1, startRec))
  BY DEF GathersTile, Gathering
<1>0. /\ traces \in DList /\ curGrp \in DList /\ prevGrp \in DList /\ prevList \in Seq(DList)
      /\ Len(traces) \in Nat /\ Len(curGrp) \in Nat
  BY ListBasics DEF ListInv, ListsOK
<1>1. /\ RunOf(traces, curGrp, startRec)
      /\ Chain(traces, <<prevGrp>> \o prevList, startRec)
  BY DEF GatherInv
<1>2. startRec \in Nat /\ startRec \in 0 .. Len(traces) /\ startRec + Len(curGrp) \in startRec .. Len(traces)
  BY <1>0, <1>1 DEF RunOf
<1>3. Elems(curGrp) = Elems(SubSeq(traces, startRec + 1, startRec + Len(curGrp)))
  <2>1. Elems(curGrp) = {traces[k] : k \in startRec + 1 .. startRec + Len(curGrp)}
    BY <1>1 DEF RunOf
  <2> QED BY <1>0, <1>2, <2>1, RunIsList
<1>4. \A x, y \in Elems(curGrp) : Epochs[x] - Epochs[y] <= Spread
  BY <1>1 DEF RunOf
<1>5. Elems(SubSeq(traces, 1, startRec)) = {traces[j] : j \in 1 .. startRec}
  <2>1. 0 \in 0 .. Len(traces) /\ startRec \in 0 .. Len(traces) /\ 0 + 1 = 1
    BY <1>0, <1>2
  <2>2. Elems(SubSeq(traces, 0 + 1, startRec)) = {traces[j] : j \in 0 + 1 .. startRec}
    BY <1>0, <2>1, RunIsList
  <2> QED BY <2>1, <2>2
<1> DEFINE G == <<prevGrp>> \o prevList
<1>6. /\ G \in Seq(DList) /\ Len(G) = Len(prevList) + 1 /\ G[1] = prevGrp
      /\ \A k \in 2 .. Len(prevList) + 1 : G[k] = prevList[k - 1]
  BY <1>0, PushedStack
<1>7. UNION {Elems(G[k]) : k \in 1 .. Len(G)} = {traces[j] : j \in 1 .. startRec}
  <2> HIDE DEF G
  <2> QED BY <1>0, <1>1, <1>2, <1>6, ChainCovers DEF G
<1> HIDE DEF G
<1>8. Len(prevList) \in Nat /\ DOMAIN prevList = 1 .. Len(prevList)
  BY <1>0
<1>9. Elems(prevGrp) \cup UNION {Elems(prevList[k]) : k \in DOMAIN prevList}
        = UNION {Elems(G[k]) : k \in 1 .. Len(G)}
  <2> DEFINE lhs == Elems(prevGrp) \cup UNION {Elems(prevList[k]) : k \in DOMAIN prevList}
             rhs == UNION {Elems(G[k]) : k \in 1 .. Len(G)}
  <2>1. /\ 1 \in 1 .. Len(G)
        /\ \A k \in 1 .. Len(prevList) : k + 1 \in 1 .. Len(G) /\ G[k + 1] = prevList[k]
    <3>1. \A k \in 1 .. Len(prevList) : k + 1 \in 2 .. Len(prevList) + 1 /\ (k + 1) - 1 = k
      BY <1>8
    <3>2. 1 \in 1 .. Len(G) /\ \A k \in 1 .. Len(prevList) : k + 1 \in 1 .. Len(G)
      BY <1>6, <1>8
    <3> QED BY <3>1, <3>2, <1>6
  <2>2. \A k \in 1 .. Len(G) : k = 1 \/ (k - 1 \in 1 .. Len(prevList) /\ G[k] = prevList[k - 1])
    <3>1. \A k \in 1 .. Len(G) : k = 1 \/ (k - 1 \in 1 .. Len(prevList) /\ k \in 2 .. Len(prevList) + 1)
      BY <1>6, <1>8
    <3> QED BY <3>1, <1>6
  <2>3. ASSUME NEW x \in lhs PROVE x \in rhs
    <3>1. CASE x \in Elems(prevGrp)
      BY <3>1, <2>1, <1>6
    <3>2. CASE x \in UNION {Elems(prevList[k]) : k \in DOMAIN prevList}
      <4>1. PICK k \in 1 .. Len(prevList) : x \in Elems(prevList[k])
        BY <3>2, <1>8
      <4> QED BY <4>1, <2>1
    <3> QED BY <3>1, <3>2
  <2>4. ASSUME NEW x \in rhs PROVE x \in lhs
    <3>1. PICK k \in 1 .. Len(G) : x \in Elems(G[k])
      OBVIOUS
    <3>2. CASE k = 1
      BY <3>1, <3>2, <1>6
    <3>3. CASE k # 1
      BY <3>1, <3>3, <2>2, <1>8
    <3> QED BY <3>2, <3>3
  <2> HIDE DEF lhs, rhs
  <2>5. lhs = rhs
    BY <2>3, <2>4
  <2> QED BY <2>5 DEF lhs, rhs
<1> QED BY <1>3, <1>4, <1>5, <1>7, <1>9

\* Gather mode: with the start time where sortList looks for it, the groups Next
\* and Previous show are consecutive runs of the list in the order of start times,
\* none wider than Spread, and those behind the current one cover the list up to
\* it: prevList gives back every group that was left.
THEOREM GathersTileAlways ==
    ASSUME StartTimeInPlace
    PROVE  Spec => []GathersTile
<1>1. Init => GatherInv
  BY DEF Init, GatherInv, Gathering
<1> QED BY <1>1, AlwaysListInv, StepGather, GatherInvTiles, PTL DEF Spec
=============================================================================
