------------------------- MODULE ThreadTraceProofs -------------------------
(***************************************************************************)
(* Proofs about the pool of data-reading threads: for every screen of      *)
(* traces, any number of CPUs and any number of calls of readData_1.       *)
(***************************************************************************)
EXTENDS ThreadTrace, ListProofs

-----------------------------------------------------------------------------
(* Types.                                                                  *)

\* Where a thread has a trace in hand, and where it has none; between two traces
\* it still holds the last.
Working == {"read", "kill", "unlink", "killGroup", "unlinkGroup"}
Holding ==
    \A t \in Threads :
        /\ pc[t] \in Working => trcData[t] \in Trcs
        /\ pc[t] \in {"none", "finish", "free", "post", "exit"} => trcData[t] = NoTrace

\* The lists stay within the screen they began with, and readTraces runs only
\* after a call, with a queue that was not empty.
Bounded ==
    /\ Len(traces) <= Len(Group0) /\ Len(CURGRP) <= Len(Group0)
    /\ \A t \in Threads : Len(snap[t]) <= Len(Group0)
    /\ main # "loop" => call > 0 /\ QLen > 0
TypeInv == TypeOK /\ Bounded /\ Holding

LEMMA MaxThreadsBound ==
    ASSUME NEW n \in Nat \ {0} PROVE maxThreads(n) \in 1 .. 3 * NumCPUs
BY BoundsAssumption DEF maxThreads

\* The lists may begin with any traces of Group0, each once.
StartList(list) == list \in Seq(Trcs) /\ Len(list) <= Len(Group0) /\ Distinct(list)

LEMMA StartLists == StartList(Group0) /\ StartList(<<>>)
<1>1. Group0 \in Seq(Trcs) /\ Distinct(Group0) /\ Len(Group0) \in Nat
  BY GroupAssumption
<1>2. <<>> \in Seq(Trcs) /\ Len(<<>>) = 0 /\ Distinct(<<>>)
  BY DEF Distinct
<1> QED BY <1>1, <1>2 DEF StartList

LEMMA TypeInit == ASSUME NEW list, StartList(list), InitWith(list) PROVE TypeInv
<1>1. Len(Group0) \in Nat /\ <<>> \in Seq(Trcs) /\ Len(<<>>) = 0
  BY GroupAssumption
<1>2. TypeOK
  <2>1. 0 \in 0 .. MaxCalls /\ 0 \in 0 .. 3 * NumCPUs /\ 0 \in 0 .. Len(Group0)
    BY <1>1, BoundsAssumption
  <2>2. list \in Seq(Trcs) /\ Len(list) \in Nat
    BY DEF StartList
  <2>3. traceQ \in Seq(Trcs) /\ snap \in [Threads -> Seq(Trcs)]
    BY <1>1 DEF InitWith
  <2>4. traces \in Seq(Trcs) /\ CURGRP \in Seq(Trcs) /\ numTraces \in Nat
    BY <1>1, <2>2 DEF InitWith
  <2>5. call \in 0 .. MaxCalls /\ i \in 0 .. 3 * NumCPUs /\ QLen \in 0 .. Len(Group0)
    BY <2>1 DEF InitWith
  <2>6. reentered \in BOOLEAN /\ raced \in BOOLEAN
    BY Zenon DEF InitWith
  <2>7. pc \in [Threads -> {"none", "next", "read", "kill", "unlink", "killGroup",
                           "unlinkGroup", "finish", "free", "post", "exit"}]
    BY DEF InitWith
  <2>8. trcData \in [Threads -> Trcs \cup {NoTrace}]
    BY DEF InitWith
  <2>9. /\ main \in {"loop", "zero", "spawn"} /\ numThreads \in Int /\ reports \in Nat
        /\ hasData \subseteq Trcs /\ freed \subseteq Trcs /\ batch \subseteq Trcs
    BY DEF InitWith
  <2> QED BY <2>3, <2>4, <2>5, <2>6, <2>7, <2>8, <2>9 DEF TypeOK
<1>3. Bounded
  BY <1>1, BoundsAssumption DEF InitWith, Bounded, StartList
<1>4. Holding
  BY DEF InitWith, Holding, Working
<1> QED BY <1>2, <1>3, <1>4 DEF TypeInv

\* What the queue built from the screen holds.
LEMMA QueueOf ==
    ASSUME CURGRP \in Seq(Trcs), NEW q, q = Reverse(Without(CURGRP, hasData))
    PROVE  /\ q \in Seq(Trcs) /\ Len(q) <= Len(CURGRP)
           /\ Elems(q) = Elems(CURGRP) \ hasData
           /\ Distinct(CURGRP) => Distinct(q)
<1> DEFINE w == Without(CURGRP, hasData)
<1>1. /\ w \in Seq(Trcs) /\ Elems(w) = Elems(CURGRP) \ hasData /\ Len(w) <= Len(CURGRP)
      /\ Distinct(CURGRP) => Distinct(w)
  BY WithoutProperties
<1> HIDE DEF w
<1>2. /\ Reverse(w) \in Seq(Trcs) /\ Len(Reverse(w)) = Len(w) /\ Elems(Reverse(w)) = Elems(w)
      /\ Distinct(w) => Distinct(Reverse(w))
  BY <1>1, ReversedElements
<1> QED BY <1>1, <1>2 DEF w

\* What a relink leaves of a list: the thread's own walk or the list without
\* the thread's trace.
LEMMA UnlinkedOf ==
    ASSUME NEW t \in Threads, snap[t] \in Seq(Trcs), NEW list \in Seq(Trcs), NEW new \in Unlinked(t, list)
    PROVE  /\ new \in Seq(Trcs) /\ trcData[t] \notin Elems(new)
           /\ Len(new) <= Len(snap[t]) \/ Len(new) <= Len(list)
           /\ Distinct(snap[t]) /\ Distinct(list) => Distinct(new)
           /\ snap[t] = list => Elems(new) = Elems(list) \ {trcData[t]}
<1> DEFINE a == snap[t]
           x == {trcData[t]}
<1>1. /\ Without(a, x) \in Seq(Trcs) /\ Elems(Without(a, x)) = Elems(a) \ x
      /\ Len(Without(a, x)) <= Len(a) /\ (Distinct(a) => Distinct(Without(a, x)))
  BY WithoutProperties
<1>2. /\ Without(list, x) \in Seq(Trcs) /\ Elems(Without(list, x)) = Elems(list) \ x
      /\ Len(Without(list, x)) <= Len(list) /\ (Distinct(list) => Distinct(Without(list, x)))
  BY WithoutProperties
<1>3. new = Without(a, x) \/ new = Without(list, x)
  BY DEF Unlinked
<1> QED BY <1>1, <1>2, <1>3

LEMMA TypeStep == TypeInv /\ [Next]_vars => TypeInv'
<1> SUFFICES ASSUME TypeInv, [Next]_vars PROVE TypeInv'
  OBVIOUS
<1> USE GroupAssumption, BoundsAssumption
<1>0. Len(Group0) \in Nat /\ <<>> \in Seq(Trcs) /\ Len(<<>>) = 0 /\ \A s \in Seq(Trcs) : Len(s) \in Nat
  OBVIOUS
<1>1. CASE readData_1
  <2> DEFINE q == Reverse(Without(CURGRP, hasData))
  <2>1. q \in Seq(Trcs) /\ Len(q) <= Len(CURGRP) /\ Elems(q) = Elems(CURGRP) \ hasData
    BY QueueOf DEF TypeInv, TypeOK
  <2>2. Elems(CURGRP) \subseteq Trcs
    BY DEF TypeInv, TypeOK, Elems
  <2>3. q # <<>> => Len(q) > 0
    BY <2>1
  <2> HIDE DEF q
  <2>4. /\ call' = call + 1 /\ call < MaxCalls
        /\ UNCHANGED <<i, numThreads, pc, trcData, snap, listVars, hasData>>
        /\ \/ reports' = reports + 1 /\ UNCHANGED <<main, QLen, traceQ, batch, reentered>>
           \/ /\ q # <<>> /\ QLen' = Len(q) /\ traceQ' = q /\ main' = "zero"
              /\ batch' = batch \cup Elems(q) /\ reentered' \in BOOLEAN /\ UNCHANGED reports
    BY <1>1 DEF readData_1, q, TypeInv, TypeOK
  <2>5. QLen' \in 0 .. Len(Group0) /\ traceQ' \in Seq(Trcs) /\ batch' \subseteq Trcs
    BY <1>0, <2>1, <2>2, <2>4 DEF TypeInv, TypeOK, Bounded, Holding, Working
  <2> QED BY <1>0, <2>3, <2>4, <2>5 DEF TypeInv, TypeOK, Bounded, Holding, Working, listVars
<1>2. CASE ZeroCounter
  BY <1>2 DEF ZeroCounter, TypeInv, TypeOK, Bounded, Holding, Working, listVars
<1>3. CASE Spawn
  <2>1. maxThreads(QLen) \in 1 .. 3 * NumCPUs
    BY <1>3, MaxThreadsBound DEF Spawn, TypeInv, TypeOK, Bounded, Holding, Working
  <2>2. CASE i < maxThreads(QLen) /\ numThreads' = numThreads + 1
               /\ pc' = [pc EXCEPT ![<<call, i>>] = "next"] /\ i' = i + 1 /\ UNCHANGED main
    <3>1. <<call, i>> \in Threads /\ i' \in 0 .. 3 * NumCPUs /\ numThreads' \in Int
      BY <1>3, <2>1, <2>2 DEF Spawn, TypeInv, TypeOK, Bounded, Threads, ThreadNums
    <3>2. TypeOK'
      BY <1>3, <2>2, <3>1 DEF Spawn, TypeInv, TypeOK, listVars
    <3>3. Bounded'
      BY <1>3, <2>2 DEF Spawn, TypeInv, Bounded, listVars
    <3>4. Holding'
      BY <1>3, <2>2, <3>1 DEF Spawn, TypeInv, TypeOK, Holding, Working
    <3> QED BY <3>2, <3>3, <3>4 DEF TypeInv
  <2>3. CASE main' = "loop" /\ UNCHANGED <<numThreads, pc, i>>
    BY <1>3, <2>3 DEF Spawn, TypeInv, TypeOK, Bounded, Holding, Working, listVars
  <2> QED BY <1>3, <2>2, <2>3 DEF Spawn
<1>4. ASSUME NEW t \in Threads, Worker(t) PROVE TypeInv'
  <2>1. CASE getNextTrace(t)
    <3>1. traceQ # <<>> => Head(traceQ) \in Trcs /\ Tail(traceQ) \in Seq(Trcs)
      BY DEF TypeInv, TypeOK
    <3>5. /\ pc' \in [Threads -> {"none", "next", "read", "kill", "unlink", "killGroup",
                                 "unlinkGroup", "finish", "free", "post", "exit"}]
          /\ trcData' \in [Threads -> Trcs \cup {NoTrace}] /\ traceQ' \in Seq(Trcs)
      <4>1. CASE traceQ # <<>>
        <5>1. /\ pc' = [pc EXCEPT ![t] = "read"] /\ traceQ' = Tail(traceQ)
              /\ trcData' = [trcData EXCEPT ![t] = Head(traceQ)]
          BY <2>1, <4>1 DEF getNextTrace
        <5> QED BY <3>1, <4>1, <5>1 DEF TypeInv, TypeOK
      <4>2. CASE traceQ = <<>>
        BY <2>1, <4>2 DEF getNextTrace, TypeInv, TypeOK
      <4> QED BY <4>1, <4>2
    <3>6. /\ \A s \in Threads \ {t} : pc'[s] = pc[s] /\ trcData'[s] = trcData[s]
          /\ \/ pc'[t] = "read" /\ trcData'[t] \in Trcs
             \/ pc'[t] = "finish" /\ trcData'[t] = NoTrace
      <4>1. CASE traceQ # <<>>
        BY <2>1, <3>1, <4>1 DEF getNextTrace, TypeInv, TypeOK
      <4>2. CASE traceQ = <<>>
        BY <2>1, <4>2 DEF getNextTrace, TypeInv, TypeOK
      <4> QED BY <4>1, <4>2
    <3>2. TypeOK'
      BY <2>1, <3>5 DEF getNextTrace, TypeInv, TypeOK, mainVars, listVars
    <3>3. Bounded'
      BY <2>1 DEF getNextTrace, TypeInv, Bounded, mainVars, listVars
    <3>4. Holding'
      BY <3>6 DEF TypeInv, Holding, Working
    <3> QED BY <3>2, <3>3, <3>4 DEF TypeInv
  <2>2. CASE readTrace(t)
    <3>1. hasData' \subseteq Trcs
      BY <2>2 DEF readTrace, TypeInv, TypeOK, Holding, Working
    <3> QED BY <2>2, <3>1 DEF readTrace, TypeInv, TypeOK, Bounded, Holding, Working, mainVars, poolVars, listVars
  <2>3. CASE WalkList(t)
    BY <2>3 DEF WalkList, TypeInv, TypeOK, Bounded, Holding, Working, mainVars, poolVars
  <2>4. CASE UnlinkTrace(t)
    <3>1. traces' \in Seq(Trcs) /\ Len(traces') <= Len(Group0)
      <4>1. snap[t] \in Seq(Trcs) /\ traces \in Seq(Trcs) /\ traces' \in Unlinked(t, traces)
        BY <2>4 DEF UnlinkTrace, TypeInv, TypeOK
      <4>2. traces' \in Seq(Trcs) /\ (Len(traces') <= Len(snap[t]) \/ Len(traces') <= Len(traces))
        BY <4>1, UnlinkedOf
      <4> QED BY <1>0, <4>1, <4>2 DEF TypeInv, Bounded
    <3> QED BY <1>0, <2>4, <3>1 DEF UnlinkTrace, TypeInv, TypeOK, Bounded, Holding, Working, mainVars, poolVars
  <2>5. CASE UnlinkGroup(t)
    <3>1. CURGRP' \in Seq(Trcs) /\ Len(CURGRP') <= Len(Group0)
      <4>1. snap[t] \in Seq(Trcs) /\ CURGRP \in Seq(Trcs) /\ CURGRP' \in Unlinked(t, CURGRP)
        BY <2>5 DEF UnlinkGroup, TypeInv, TypeOK
      <4>2. CURGRP' \in Seq(Trcs) /\ (Len(CURGRP') <= Len(snap[t]) \/ Len(CURGRP') <= Len(CURGRP))
        BY <4>1, UnlinkedOf
      <4> QED BY <1>0, <4>1, <4>2 DEF TypeInv, Bounded
    <3>2. trcData[t] \in Trcs
      BY <2>5 DEF UnlinkGroup, TypeInv, Holding, Working
    <3> QED BY <1>0, <2>5, <3>1, <3>2 DEF UnlinkGroup, TypeInv, TypeOK, Bounded, Holding, Working, mainVars, poolVars
  <2>6. CASE Finish(t)
    BY <2>6 DEF Finish, TypeInv, TypeOK, Bounded, Holding, Working, mainVars, listVars
  <2>7. CASE FreeQueue(t)
    BY <1>0, <2>7 DEF FreeQueue, TypeInv, TypeOK, Bounded, Holding, Working, mainVars, listVars
  <2>8. CASE PostFinish(t)
    BY <2>8 DEF PostFinish, TypeInv, TypeOK, Bounded, Holding, Working, mainVars, poolVars, listVars
  <2> QED BY <1>4, <2>1, <2>2, <2>3, <2>4, <2>5, <2>6, <2>7, <2>8 DEF Worker
<1>5. CASE UNCHANGED vars
  BY <1>5 DEF vars, mainVars, poolVars, listVars, TypeInv, TypeOK, Bounded, Holding, Working
<1> QED BY <1>1, <1>2, <1>3, <1>4, <1>5 DEF Next, Quiet

\* Every variable keeps its type.
THEOREM TypeCorrect == Spec => []TypeOK
<1>1. TypeInv => TypeOK
  BY DEF TypeInv
<1>2. Init => TypeInv
  BY StartLists, TypeInit DEF Init
<1> QED BY <1>1, <1>2, TypeStep, PTL DEF Spec

-----------------------------------------------------------------------------
(* One reader for every trace.                                             *)

\* No list holds a trace twice.
DistinctLists ==
    /\ Distinct(traces) /\ Distinct(CURGRP) /\ Distinct(traceQ)
    /\ \A t \in Threads : Distinct(snap[t])
ReaderInv == DistinctLists /\ SingleReader

LEMMA EmptyDistinct == Distinct(<<>>) /\ Elems(<<>>) = {}
BY DEF Distinct, Elems

LEMMA ReaderInit == ASSUME NEW list, StartList(list), InitWith(list) PROVE ReaderInv
<1>1. DistinctLists
  BY EmptyDistinct DEF InitWith, DistinctLists, StartList
<1>2. SingleReader
  BY EmptyDistinct DEF InitWith, SingleReader
<1> QED BY <1>1, <1>2 DEF ReaderInv

LEMMA ReaderStep == TypeInv /\ ReaderInv /\ [Next]_vars => ReaderInv'
<1> SUFFICES ASSUME TypeInv, ReaderInv, [Next]_vars PROVE ReaderInv'
  OBVIOUS
<1>0. NoTrace \notin Trcs
  BY GroupAssumption
<1>1. CASE readData_1
  <2> DEFINE q == Reverse(Without(CURGRP, hasData))
  <2>1. q \in Seq(Trcs) /\ Distinct(q)
    BY QueueOf DEF TypeInv, TypeOK, ReaderInv, DistinctLists
  <2>2. NoTrace \notin Elems(q)
    BY <1>0, <2>1 DEF Elems
  <2> HIDE DEF q
  <2>3. CASE UNCHANGED <<traceQ, reentered>>
    BY <1>1, <2>3 DEF readData_1, listVars, ReaderInv, DistinctLists, SingleReader
  <2>4. CASE traceQ' = q
               /\ reentered' = (reentered \/ \E t \in Threads : pc[t] \notin {"none", "exit"})
    <3>1. DistinctLists'
      BY <1>1, <2>1, <2>4 DEF readData_1, listVars, ReaderInv, DistinctLists
    <3>2. ~reentered' => \A t \in Threads : trcData'[t] = NoTrace
      BY <1>1, <2>4 DEF readData_1, TypeInv, Holding
    <3>3. SingleReader'
      BY <2>2, <2>4, <3>2 DEF SingleReader
    <3> QED BY <3>1, <3>3 DEF ReaderInv
  <2> QED BY <1>1, <2>3, <2>4 DEF readData_1, q
<1>2. CASE ZeroCounter
  BY <1>2 DEF ZeroCounter, listVars, ReaderInv, DistinctLists, SingleReader
<1>3. CASE Spawn
  BY <1>3 DEF Spawn, listVars, ReaderInv, DistinctLists, SingleReader
<1>4. ASSUME NEW t \in Threads, Worker(t) PROVE ReaderInv'
  <2>1. CASE getNextTrace(t)
    <3>1. CASE traceQ # <<>>
      <4> DEFINE h == Head(traceQ)
      <4>1. /\ h \in Trcs /\ Elems(traceQ) = {h} \cup Elems(Tail(traceQ))
            /\ Distinct(Tail(traceQ)) /\ h \notin Elems(Tail(traceQ))
        BY <3>1, TailProperties DEF TypeInv, TypeOK, ReaderInv, DistinctLists
      <4>2. trcData' = [trcData EXCEPT ![t] = h] /\ traceQ' = Tail(traceQ)
        BY <2>1, <3>1 DEF getNextTrace
      <4> HIDE DEF h
      <4>3. DistinctLists'
        BY <2>1, <4>1, <4>2 DEF getNextTrace, listVars, ReaderInv, DistinctLists
      <4>4. SingleReader'
        BY <2>1, <4>1, <4>2 DEF getNextTrace, mainVars, ReaderInv, SingleReader, TypeInv, TypeOK
      <4> QED BY <4>3, <4>4 DEF ReaderInv
    <3>2. CASE traceQ = <<>>
      <4>1. trcData' = [trcData EXCEPT ![t] = NoTrace] /\ UNCHANGED traceQ
        BY <2>1, <3>2 DEF getNextTrace
      <4>2. DistinctLists'
        BY <2>1, <4>1 DEF getNextTrace, listVars, ReaderInv, DistinctLists
      <4>3. SingleReader'
        BY <2>1, <3>2, <4>1, EmptyDistinct DEF getNextTrace, mainVars, ReaderInv, SingleReader, TypeInv, TypeOK
      <4> QED BY <4>2, <4>3 DEF ReaderInv
    <3> QED BY <3>1, <3>2
  <2>2. CASE readTrace(t)
    BY <2>2 DEF readTrace, mainVars, poolVars, listVars, ReaderInv, DistinctLists, SingleReader
  <2>3. CASE WalkList(t)
    <3>1. \A s \in Threads : snap'[s] \in {snap[s], traces, CURGRP}
      BY <2>3 DEF WalkList, TypeInv, TypeOK
    <3> QED BY <2>3, <3>1 DEF WalkList, mainVars, poolVars, ReaderInv, DistinctLists, SingleReader
  <2>4. CASE UnlinkTrace(t)
    <3>1. Distinct(traces')
      BY <2>4, UnlinkedOf DEF UnlinkTrace, TypeInv, TypeOK, ReaderInv, DistinctLists
    <3>2. \A s \in Threads : snap'[s] \in {snap[s], <<>>}
      BY <2>4 DEF UnlinkTrace, TypeInv, TypeOK
    <3>3. DistinctLists'
      BY <2>4, <3>1, <3>2, EmptyDistinct DEF UnlinkTrace, poolVars, ReaderInv, DistinctLists
    <3> QED BY <2>4, <3>3 DEF UnlinkTrace, mainVars, poolVars, ReaderInv, SingleReader
  <2>5. CASE UnlinkGroup(t)
    <3>1. Distinct(CURGRP')
      BY <2>5, UnlinkedOf DEF UnlinkGroup, TypeInv, TypeOK, ReaderInv, DistinctLists
    <3>2. \A s \in Threads : snap'[s] \in {snap[s], <<>>}
      BY <2>5 DEF UnlinkGroup, TypeInv, TypeOK
    <3>3. DistinctLists'
      BY <2>5, <3>1, <3>2, EmptyDistinct DEF UnlinkGroup, poolVars, ReaderInv, DistinctLists
    <3> QED BY <2>5, <3>3 DEF UnlinkGroup, mainVars, poolVars, ReaderInv, SingleReader
  <2>6. CASE Finish(t)
    BY <2>6 DEF Finish, mainVars, listVars, ReaderInv, DistinctLists, SingleReader
  <2>7. CASE FreeQueue(t)
    BY <2>7, EmptyDistinct DEF FreeQueue, mainVars, listVars, ReaderInv, DistinctLists, SingleReader
  <2>8. CASE PostFinish(t)
    BY <2>8 DEF PostFinish, mainVars, poolVars, listVars, ReaderInv, DistinctLists, SingleReader
  <2> QED BY <1>4, <2>1, <2>2, <2>3, <2>4, <2>5, <2>6, <2>7, <2>8 DEF Worker
<1>5. CASE UNCHANGED vars
  BY <1>5 DEF vars, mainVars, poolVars, listVars, ReaderInv, DistinctLists, SingleReader
<1> QED BY <1>1, <1>2, <1>3, <1>4, <1>5 DEF Next, Quiet

\* Unless readTraces is entered while threads run, no two threads hold one
\* trace and no thread holds one that is still queued.
THEOREM SingleReaderAlways == Spec => []SingleReader
<1>1. ReaderInv => SingleReader
  BY DEF ReaderInv
<1>2. Init => TypeInv /\ ReaderInv
  BY StartLists, TypeInit, ReaderInit DEF Init
<1> QED BY <1>1, <1>2, TypeStep, ReaderStep, PTL DEF Spec

-----------------------------------------------------------------------------
(* What was removed stays removed.                                         *)

\* While no two threads unlink from one list at once, the list a thread walked
\* is still the list there is, and a trace goes from `traces' before CURGRP.
UnracedInv ==
    ~raced =>
        /\ \A s, t \in Threads : pc[s] = pc[t] /\ pc[t] \in {"unlink", "unlinkGroup"} => s = t
        /\ \A t \in Threads : pc[t] = "unlink" => snap[t] = traces
        /\ \A t \in Threads : pc[t] = "unlinkGroup" => snap[t] = CURGRP
        /\ \A t \in Threads : pc[t] \in {"killGroup", "unlinkGroup"} => trcData[t] \notin Elems(traces)
        /\ \A x \in freed : x \notin Elems(traces) \cup Elems(CURGRP)

LEMMA UnracedInit == ASSUME NEW list, InitWith(list) PROVE UnracedInv
BY DEF InitWith, UnracedInv

LEMMA UnracedStep == TypeInv /\ UnracedInv /\ [Next]_vars => UnracedInv'
<1> SUFFICES ASSUME TypeInv, UnracedInv, [Next]_vars PROVE UnracedInv'
  OBVIOUS
<1>1. CASE readData_1
  BY <1>1 DEF readData_1, listVars, UnracedInv
<1>2. CASE ZeroCounter
  BY <1>2 DEF ZeroCounter, listVars, UnracedInv
<1>3. CASE Spawn
  BY <1>3 DEF Spawn, listVars, UnracedInv, TypeInv, TypeOK
<1>4. ASSUME NEW t \in Threads, Worker(t) PROVE UnracedInv'
  <2>1. CASE getNextTrace(t)
    <3>1. /\ \A s \in Threads \ {t} : pc'[s] = pc[s] /\ trcData'[s] = trcData[s]
          /\ pc'[t] \in {"read", "finish"}
          /\ UNCHANGED <<snap, traces, CURGRP, freed, raced>>
      BY <2>1 DEF getNextTrace, listVars, TypeInv, TypeOK
    <3> QED BY <3>1 DEF UnracedInv
  <2>2. CASE readTrace(t)
    <3>1. /\ \A s \in Threads \ {t} : pc'[s] = pc[s]
          /\ pc'[t] \in {"kill", "next"}
          /\ UNCHANGED <<trcData, snap, traces, CURGRP, freed, raced>>
      BY <2>2 DEF readTrace, mainVars, listVars, TypeInv, TypeOK
    <3> QED BY <3>1 DEF UnracedInv
  <2>3. CASE WalkList(t)
    BY <2>3 DEF WalkList, UnracedInv, TypeInv, TypeOK
  <2>4. CASE UnlinkTrace(t)
    <3>1. ~raced => Elems(traces') = Elems(traces) \ {trcData[t]}
      BY <2>4, UnlinkedOf DEF UnlinkTrace, TypeInv, TypeOK, UnracedInv
    <3> QED BY <2>4, <3>1 DEF UnlinkTrace, UnracedInv, TypeInv, TypeOK
  <2>5. CASE UnlinkGroup(t)
    <3>1. ~raced => Elems(CURGRP') = Elems(CURGRP) \ {trcData[t]}
      BY <2>5, UnlinkedOf DEF UnlinkGroup, TypeInv, TypeOK, UnracedInv
    <3> QED BY <2>5, <3>1 DEF UnlinkGroup, UnracedInv, TypeInv, TypeOK
  <2>6. CASE Finish(t)
    BY <2>6 DEF Finish, listVars, UnracedInv, TypeInv, TypeOK
  <2>7. CASE FreeQueue(t)
    BY <2>7 DEF FreeQueue, listVars, UnracedInv, TypeInv, TypeOK
  <2>8. CASE PostFinish(t)
    BY <2>8 DEF PostFinish, listVars, UnracedInv, TypeInv, TypeOK
  <2> QED BY <1>4, <2>1, <2>2, <2>3, <2>4, <2>5, <2>6, <2>7, <2>8 DEF Worker
<1>5. CASE UNCHANGED vars
  BY <1>5 DEF vars, listVars, UnracedInv
<1> QED BY <1>1, <1>2, <1>3, <1>4, <1>5 DEF Next, Quiet

\* A trace that was removed and freed is in neither list again, however many
\* threads remove traces, unless two unlink from one list at once.
THEOREM RemovedForGoodAlways == Spec => []RemovedForGood
<1>1. Init => TypeInv /\ UnracedInv
  BY StartLists, TypeInit, UnracedInit DEF Init
<1>2. UnracedInv => RemovedForGood
  BY DEF UnracedInv, RemovedForGood
<1> QED BY <1>1, <1>2, TypeStep, UnracedStep, PTL DEF Spec

-----------------------------------------------------------------------------
(* The counter, and what a report means.                                   *)

\* numThreads counts the threads that have yet to pass finish(), unless
\* readTraces was entered while some ran; threads not started are "none".
FreshThreads ==
    \A t \in Threads :
        \/ t[1] > call
        \/ t[1] = call /\ (main = "zero" \/ (main = "spawn" /\ t[2] >= i))
        => pc[t] = "none"
CounterInv ==
    /\ FreshThreads
    /\ call <= 1 => ~reentered
    /\ ~reentered => numThreads = Cardinality(Live)
    /\ ~reentered /\ main = "zero" => \A t \in Threads : pc[t] \in {"none", "exit"}

\* What was queued is read, removed, queued or held by a thread at work; a thread
\* goes to finish() only when the queue is empty, and as long as the queue is
\* not, a thread is at it or the first is about to be started.
Done == hasData \cup freed
AtWork == {t \in Threads : pc[t] \in Working}
Covered == batch \subseteq Done \cup Elems(traceQ) \cup {trcData[t] : t \in AtWork}
EmptyAtFinish == (\E t \in Threads : pc[t] \in {"finish", "free", "post"}) => traceQ = <<>>
Attended ==
    traceQ # <<>> => \/ main = "zero" \/ (main = "spawn" /\ i = 0)
                     \/ \E t \in Threads : pc[t] \in Working \cup {"next"}
AllDone ==
    /\ (\E t \in Threads : pc[t] \in {"free", "post"}) => batch \subseteq Done
    /\ call <= 1 /\ reports > 0 => batch \subseteq Done
    /\ call = 0 => batch = {} /\ reports = 0
CoverInv == ~reentered /\ ~AllocMayFail => Covered /\ EmptyAtFinish /\ Attended /\ AllDone

LEMMA LiveFinite == IsFiniteSet(Threads) /\ IsFiniteSet(Live) /\ Cardinality(Live) \in Nat
<1>1. IsFiniteSet(1 .. MaxCalls) /\ IsFiniteSet(ThreadNums)
  <2>1. 1 \in Int /\ MaxCalls \in Int /\ 0 \in Int /\ 3 * NumCPUs - 1 \in Int
    BY BoundsAssumption
  <2> QED BY <2>1, FS_Interval DEF ThreadNums
<1>2. IsFiniteSet((1 .. MaxCalls) \X ThreadNums)
  BY <1>1, FS_Product
<1>3. Live \subseteq Threads
  BY DEF Live
<1>4. IsFiniteSet(Live)
  BY <1>2, <1>3, FS_Subset DEF Threads
<1> QED BY <1>2, <1>4, FS_CardinalityType DEF Threads

\* A thread that becomes live, or that passes finish().
LEMMA LiveAdded ==
    ASSUME NEW t \in Threads, t \notin Live, Live' = Live \cup {t}
    PROVE  Cardinality(Live') = Cardinality(Live) + 1
BY LiveFinite, FS_AddElement
LEMMA LiveRemoved ==
    ASSUME NEW t \in Live, Live' = Live \ {t}
    PROVE  Cardinality(Live') = Cardinality(Live) - 1
BY LiveFinite, FS_RemoveElement

LEMMA CounterInit == ASSUME NEW list, InitWith(list) PROVE CounterInv
<1>1. Live = {}
  BY DEF InitWith, Live
<1>2. Cardinality(Live) = 0
  BY <1>1, FS_EmptySet
<1>3. FreshThreads
  BY DEF InitWith, FreshThreads
<1> QED BY <1>2, <1>3 DEF InitWith, CounterInv

LEMMA CounterStep == TypeInv /\ CounterInv /\ [Next]_vars => CounterInv'
<1> SUFFICES ASSUME TypeInv, CounterInv, [Next]_vars PROVE CounterInv'
  OBVIOUS
<1>0. /\ call \in Nat /\ i \in Nat /\ \A t \in Threads : t[1] \in Nat /\ t[2] \in Nat
  BY BoundsAssumption DEF TypeInv, TypeOK, Threads, ThreadNums
<1>1. CASE readData_1
  <2>1. UNCHANGED <<pc, i, numThreads>> /\ call' = call + 1 /\ main = "loop" /\ main' \in {"loop", "zero"}
    BY <1>1 DEF readData_1
  <2>2. Live' = Live
    BY <2>1 DEF Live
  <2>3. FreshThreads'
    BY <1>0, <2>1 DEF FreshThreads, CounterInv
  <2>4. /\ reentered' => reentered \/ \E t \in Threads : pc[t] \notin {"none", "exit"}
        /\ reentered => reentered'
        /\ main' = "zero" /\ ~reentered' => \A t \in Threads : pc[t] \in {"none", "exit"}
    <3>1. CASE UNCHANGED <<main, reentered>>
      BY <2>1, <3>1
    <3>2. CASE reentered' = (reentered \/ \E t \in Threads : pc[t] \notin {"none", "exit"})
      BY <3>2
    <3> QED BY <1>1, <3>1, <3>2 DEF readData_1
  <2>5. call' <= 1 => ~reentered'
    <3> SUFFICES ASSUME call' <= 1, reentered' PROVE FALSE
      OBVIOUS
    <3>1. call = 0
      BY <1>0, <2>1
    <3>2. \A t \in Threads : pc[t] = "none"
      BY <3>1 DEF CounterInv, FreshThreads, Threads
    <3> QED BY <2>4, <3>1, <3>2 DEF CounterInv
  <2> QED BY <2>1, <2>2, <2>3, <2>4, <2>5 DEF CounterInv
<1>2. CASE ZeroCounter
  <2>1. Live' = Live
    BY <1>2 DEF ZeroCounter, Live
  <2>2. FreshThreads'
    BY <1>0, <1>2 DEF ZeroCounter, FreshThreads, CounterInv
  <2>3. ~reentered => Live = {}
    BY <1>2 DEF ZeroCounter, CounterInv, Live
  <2>4. ~reentered => Cardinality(Live) = 0
    BY <2>3, FS_EmptySet
  <2> QED BY <1>2, <2>1, <2>2, <2>4 DEF ZeroCounter, CounterInv
<1>3. CASE Spawn
  <2>1. maxThreads(QLen) \in 1 .. 3 * NumCPUs
    BY <1>3, MaxThreadsBound DEF Spawn, TypeInv, TypeOK, Bounded
  <2>2. CASE i < maxThreads(QLen) /\ numThreads' = numThreads + 1
               /\ pc' = [pc EXCEPT ![<<call, i>>] = "next"] /\ i' = i + 1 /\ UNCHANGED main
    <3> DEFINE t == <<call, i>>
    <3>1. t \in Threads /\ t[1] = call /\ t[2] = i
      BY <1>3, <2>1, <2>2, BoundsAssumption DEF Spawn, TypeInv, TypeOK, Bounded, Threads, ThreadNums
    <3>2. pc[t] = "none" /\ pc'[t] = "next" /\ \A s \in Threads \ {t} : pc'[s] = pc[s]
      BY <1>0, <1>3, <2>2, <3>1 DEF Spawn, CounterInv, FreshThreads, TypeInv, TypeOK
    <3>3. \A s \in Threads : s[1] = call /\ s[2] = i => s = t
      BY DEF Threads
    <3>4. \A s \in Threads : s = <<call, i>> => ~(s[1] > call') /\ ~(s[1] = call' /\ s[2] >= i')
      BY <1>0, <1>3, <2>2 DEF Spawn
    <3> HIDE DEF t
    <3>5. t \notin Live /\ Live' = Live \cup {t}
      BY <3>1, <3>2 DEF Live
    <3>6. Cardinality(Live') = Cardinality(Live) + 1
      BY <3>1, <3>5, LiveAdded
    <3>7. FreshThreads'
      BY <1>0, <1>3, <2>2, <3>2, <3>4 DEF Spawn, CounterInv, FreshThreads, t
    <3> QED BY <1>3, <2>2, <3>6, <3>7 DEF Spawn, CounterInv
  <2>3. CASE main' = "loop" /\ UNCHANGED <<numThreads, pc, i>>
    <3>1. Live' = Live
      BY <2>3 DEF Live
    <3>2. FreshThreads'
      BY <1>3, <2>3 DEF Spawn, FreshThreads, CounterInv
    <3> QED BY <1>3, <2>3, <3>1, <3>2 DEF Spawn, CounterInv
  <2> QED BY <1>3, <2>2, <2>3 DEF Spawn
<1>4. ASSUME NEW t \in Threads, Worker(t) PROVE CounterInv'
  <2>1. /\ pc[t] \notin {"none", "exit"} /\ UNCHANGED mainVars
        /\ \A s \in Threads \ {t} : pc'[s] = pc[s]
    BY <1>4 DEF Worker, getNextTrace, readTrace, WalkList, UnlinkTrace, UnlinkGroup, Finish,
                FreeQueue, PostFinish, TypeInv, TypeOK
  <2>2. FreshThreads'
    <3>1. ~(t[1] > call \/ (t[1] = call /\ (main = "zero" \/ (main = "spawn" /\ t[2] >= i))))
      BY <2>1 DEF CounterInv, FreshThreads
    <3> QED BY <2>1, <3>1 DEF CounterInv, FreshThreads, mainVars
  <2>3. ~reentered => main # "zero"
    BY <2>1 DEF CounterInv
  <2>4. CASE ~Finish(t)
    <3>1. UNCHANGED numThreads /\ (pc'[t] \in {"none", "free", "post", "exit"} <=> pc[t] \in {"none", "free", "post", "exit"})
      BY <1>4, <2>4 DEF Worker, getNextTrace, readTrace, WalkList, UnlinkTrace, UnlinkGroup,
                FreeQueue, PostFinish, TypeInv, TypeOK, poolVars
    <3>2. Live' = Live
      BY <2>1, <3>1 DEF Live
    <3> QED BY <2>1, <2>2, <2>3, <3>1, <3>2 DEF CounterInv, mainVars
  <2>5. CASE Finish(t)
    <3>1. numThreads' = numThreads - 1 /\ pc[t] = "finish" /\ pc'[t] \in {"free", "exit"}
      BY <2>5 DEF Finish, TypeInv, TypeOK
    <3>2. t \in Live /\ Live' = Live \ {t}
      BY <2>1, <3>1 DEF Live
    <3>3. Cardinality(Live') = Cardinality(Live) - 1
      BY <3>2, LiveRemoved
    <3> QED BY <2>1, <2>2, <2>3, <3>1, <3>3 DEF CounterInv, mainVars
  <2> QED BY <2>4, <2>5
<1>5. CASE UNCHANGED vars
  <2>1. UNCHANGED <<mainVars, numThreads, pc>>
    BY <1>5 DEF vars, poolVars
  <2>2. Live' = Live
    BY <2>1 DEF Live
  <2> QED BY <2>1, <2>2 DEF CounterInv, FreshThreads, mainVars
<1> QED BY <1>1, <1>2, <1>3, <1>4, <1>5 DEF Next, Quiet

LEMMA CoverInit == ASSUME NEW list, InitWith(list) PROVE CoverInv
BY DEF InitWith, CoverInv, Covered, EmptyAtFinish, Attended, AllDone

LEMMA CoverStep == TypeInv /\ CounterInv /\ CoverInv /\ [Next]_vars => CoverInv'
<1> SUFFICES ASSUME TypeInv, CounterInv, CoverInv, [Next]_vars, ~reentered', ~AllocMayFail
             PROVE  Covered' /\ EmptyAtFinish' /\ Attended' /\ AllDone'
  BY DEF CoverInv
<1>0. call \in Nat /\ i \in Nat /\ reports \in Nat
  BY BoundsAssumption DEF TypeInv, TypeOK
<1>1. CASE readData_1
  <2> DEFINE q == Reverse(Without(CURGRP, hasData))
  <2>1. /\ main = "loop" /\ call' = call + 1 /\ UNCHANGED <<pc, trcData, freed, hasData>>
    BY <1>1 DEF readData_1, listVars
  <2>2. Done' = Done /\ AtWork' = AtWork
    BY <2>1 DEF Done, AtWork
  <2> HIDE DEF q
  <2>3. CASE q = <<>> /\ reports' = reports + 1 /\ UNCHANGED <<main, QLen, traceQ, batch, reentered>>
    <3>1. Covered /\ EmptyAtFinish /\ Attended /\ AllDone
      BY <2>3 DEF CoverInv
    <3>2. Covered' /\ EmptyAtFinish'
      BY <2>1, <2>2, <2>3, <3>1 DEF Covered, EmptyAtFinish
    <3>3. Attended'
      BY <2>1, <2>3, <3>1 DEF Attended
    <3>4. AllDone'
      <4>1. call' <= 1 => batch' = {}
        BY <1>0, <2>1, <2>3, <3>1 DEF AllDone
      <4> QED BY <1>0, <2>1, <2>2, <2>3, <3>1, <4>1 DEF AllDone
    <3> QED BY <3>2, <3>3, <3>4
  <2>4. CASE /\ traceQ' = q /\ main' = "zero" /\ batch' = batch \cup Elems(q) /\ UNCHANGED reports
             /\ reentered' = (reentered \/ \E t \in Threads : pc[t] \notin {"none", "exit"})
    <3>1. ~reentered /\ \A t \in Threads : pc[t] \in {"none", "exit"}
      BY <2>4
    <3>2. Covered /\ EmptyAtFinish /\ Attended /\ AllDone
      BY <3>1 DEF CoverInv
    <3>3. traceQ = <<>> /\ AtWork = {}
      BY <2>1, <3>1, <3>2 DEF Attended, Working, AtWork
    <3>4. batch \subseteq Done
      BY <3>2, <3>3, EmptyDistinct DEF Covered
    <3>5. Covered' /\ EmptyAtFinish' /\ Attended'
      BY <2>1, <2>2, <2>4, <3>1, <3>4 DEF Covered, EmptyAtFinish, Attended
    <3>6. AllDone'
      BY <1>0, <2>1, <2>4, <3>1, <3>2 DEF AllDone
    <3> QED BY <3>5, <3>6
  <2> QED BY <1>1, <2>3, <2>4 DEF readData_1, q
<1>2. ASSUME UNCHANGED reentered PROVE Covered /\ EmptyAtFinish /\ Attended /\ AllDone
  BY <1>2 DEF CoverInv
<1>3. CASE ZeroCounter
  <2>1. /\ Covered /\ EmptyAtFinish /\ Attended /\ AllDone
        /\ main' = "spawn" /\ i' = 0
        /\ UNCHANGED <<call, batch, traceQ, pc, trcData, freed, hasData, reports>>
    BY <1>2, <1>3 DEF ZeroCounter, listVars
  <2> QED BY <2>1 DEF Covered, EmptyAtFinish, Attended, AllDone, Done, AtWork
<1>4. CASE Spawn
  <2>1. /\ Covered /\ EmptyAtFinish /\ Attended /\ AllDone /\ main = "spawn"
        /\ UNCHANGED <<call, batch, traceQ, trcData, freed, hasData, reports>>
    BY <1>2, <1>4 DEF Spawn, listVars
  <2>2. maxThreads(QLen) \in 1 .. 3 * NumCPUs
    BY <1>4, MaxThreadsBound DEF Spawn, TypeInv, TypeOK, Bounded
  <2>3. CASE i < maxThreads(QLen) /\ pc' = [pc EXCEPT ![<<call, i>>] = "next"] /\ i' = i + 1 /\ UNCHANGED main
    <3> DEFINE t == <<call, i>>
    <3>1. t \in Threads /\ t[1] = call /\ t[2] = i
      BY <1>4, <2>2, <2>3, BoundsAssumption DEF Spawn, TypeInv, TypeOK, Bounded, Threads, ThreadNums
    <3>2. pc[t] = "none" /\ pc'[t] = "next" /\ \A s \in Threads \ {t} : pc'[s] = pc[s]
      BY <1>0, <2>1, <2>3, <3>1 DEF CounterInv, FreshThreads, TypeInv, TypeOK
    <3> HIDE DEF t
    <3>3. AtWork' = AtWork /\ Done' = Done
      BY <2>1, <3>1, <3>2 DEF AtWork, Working, Done
    <3>4. Covered' /\ EmptyAtFinish' /\ AllDone'
      BY <2>1, <3>1, <3>2, <3>3 DEF Covered, EmptyAtFinish, AllDone
    <3>5. Attended'
      BY <3>1, <3>2 DEF Attended
    <3> QED BY <3>4, <3>5
  <2>4. CASE i >= maxThreads(QLen) /\ main' = "loop" /\ UNCHANGED <<pc, i>>
    <3>1. i # 0
      BY <1>0, <2>2, <2>4
    <3> QED BY <2>1, <2>4, <3>1 DEF Covered, EmptyAtFinish, Attended, AllDone, Done, AtWork
  <2> QED BY <1>4, <2>3, <2>4 DEF Spawn
<1>5. ASSUME NEW t \in Threads, Worker(t) PROVE Covered' /\ EmptyAtFinish' /\ Attended' /\ AllDone'
  <2>1. /\ pc[t] \notin {"none", "exit"} /\ UNCHANGED <<call, main, i, batch, reentered>>
        /\ \A s \in Threads \ {t} : pc'[s] = pc[s] /\ trcData'[s] = trcData[s]
        /\ Done \subseteq Done'
    BY <1>5 DEF Worker, getNextTrace, readTrace, WalkList, UnlinkTrace, UnlinkGroup, Finish,
                FreeQueue, PostFinish, TypeInv, TypeOK, mainVars, listVars, Done
  <2>2. Covered /\ EmptyAtFinish /\ Attended /\ AllDone
    BY <1>2, <2>1
  <2>3. call > 0
    BY <1>0, <2>1 DEF CounterInv, FreshThreads, Threads
  <2>4. CASE getNextTrace(t)
    <3>1. UNCHANGED <<reports, freed, hasData>> /\ pc[t] = "next"
      BY <2>4 DEF getNextTrace, listVars
    <3>2. CASE traceQ # <<>>
      <4>1. Elems(traceQ) = {Head(traceQ)} \cup Elems(Tail(traceQ))
        BY <3>2, TailProperties DEF TypeInv, TypeOK
      <4>2. trcData'[t] = Head(traceQ) /\ traceQ' = Tail(traceQ) /\ pc'[t] = "read"
        BY <2>4, <3>2 DEF getNextTrace, TypeInv, TypeOK
      <4>3. AtWork' = AtWork \cup {t} /\ t \notin AtWork
        BY <2>1, <3>1, <4>2 DEF AtWork, Working
      <4>4. Covered'
        BY <2>1, <2>2, <3>1, <4>1, <4>2, <4>3 DEF Covered, Done, AtWork
      <4>5. EmptyAtFinish' /\ Attended'
        BY <2>1, <2>2, <3>1, <3>2, <4>2 DEF EmptyAtFinish, Attended, Working
      <4>6. AllDone'
        BY <2>1, <2>2, <3>1, <4>2 DEF AllDone, Done
      <4> QED BY <4>4, <4>5, <4>6
    <3>3. CASE traceQ = <<>>
      <4>1. traceQ' = traceQ /\ pc'[t] = "finish"
        BY <2>4, <3>3 DEF getNextTrace, TypeInv, TypeOK
      <4>2. AtWork' = AtWork /\ t \notin AtWork
        BY <2>1, <3>1, <4>1 DEF AtWork, Working
      <4>3. Covered'
        BY <2>1, <2>2, <3>1, <4>1, <4>2 DEF Covered, Done, AtWork
      <4>4. EmptyAtFinish' /\ Attended'
        BY <2>1, <2>2, <3>1, <3>3, <4>1 DEF EmptyAtFinish, Attended
      <4>5. AllDone'
        BY <2>1, <2>2, <3>1, <4>1 DEF AllDone, Done
      <4> QED BY <4>3, <4>4, <4>5
    <3> QED BY <3>2, <3>3
  <2>5. CASE readTrace(t) \/ WalkList(t) \/ UnlinkTrace(t) \/ UnlinkGroup(t)
    <3>1. /\ UNCHANGED <<traceQ, trcData, reports>> /\ pc[t] \in Working /\ pc'[t] \in Working \cup {"next"}
          /\ pc'[t] = "next" => trcData[t] \in Done'
      BY <2>5 DEF readTrace, WalkList, UnlinkTrace, UnlinkGroup, poolVars, TypeInv, TypeOK, Working, Done
    <3>2. AtWork \ {t} \subseteq AtWork' /\ (pc'[t] # "next" => AtWork' = AtWork)
      BY <2>1, <3>1 DEF AtWork
    <3>3. Covered'
      BY <2>1, <2>2, <3>1, <3>2 DEF Covered
    <3>4. EmptyAtFinish' /\ Attended' /\ AllDone'
      BY <2>1, <2>2, <3>1 DEF EmptyAtFinish, Attended, AllDone, Working
    <3> QED BY <3>3, <3>4
  <2>6. CASE Finish(t)
    <3>1. /\ UNCHANGED <<traceQ, trcData, reports>> /\ pc[t] = "finish" /\ Done' = Done
          /\ pc'[t] = IF numThreads' = 0 THEN "free" ELSE "exit"
      BY <2>6 DEF Finish, listVars, TypeInv, TypeOK, Done
    <3>2. traceQ = <<>> /\ AtWork' = AtWork
      BY <2>1, <2>2, <3>1 DEF EmptyAtFinish, AtWork, Working
    <3>3. Covered' /\ EmptyAtFinish' /\ Attended'
      BY <2>1, <2>2, <3>1, <3>2 DEF Covered, EmptyAtFinish, Attended
    <3>4. numThreads' = 0 => batch \subseteq Done
      <4> SUFFICES ASSUME numThreads' = 0 PROVE batch \subseteq Done
        OBVIOUS
      <4>1. Cardinality(Live') = 0
        BY <2>1, CounterStep DEF CounterInv
      <4>2. IsFiniteSet(Live')
        <5>1. IsFiniteSet(Threads) /\ Live' \subseteq Threads
          BY LiveFinite DEF Live
        <5> QED BY <5>1, FS_Subset
      <4>3. Live' = {}
        BY <4>1, <4>2, FS_EmptySet
      <4>4. AtWork' = {}
        BY <4>3 DEF AtWork, Live, Working
      <4> QED BY <2>2, <3>2, <4>4, EmptyDistinct DEF Covered
    <3>5. AllDone'
      BY <2>1, <2>2, <3>1, <3>4 DEF AllDone
    <3> QED BY <3>3, <3>5
  <2>7. CASE FreeQueue(t)
    <3>1. /\ UNCHANGED <<trcData, reports>> /\ pc[t] = "free" /\ Done' = Done
          /\ traceQ' = <<>> /\ pc'[t] = "post"
      BY <2>7 DEF FreeQueue, listVars, TypeInv, TypeOK, Done
    <3>2. traceQ = <<>> /\ AtWork' = AtWork
      BY <2>1, <2>2, <3>1 DEF EmptyAtFinish, AtWork, Working
    <3> QED BY <2>1, <2>2, <3>1, <3>2 DEF Covered, EmptyAtFinish, Attended, AllDone
  <2>8. CASE PostFinish(t)
    <3>1. /\ UNCHANGED <<traceQ, trcData>> /\ pc[t] = "post" /\ Done' = Done
          /\ reports' = reports + 1 /\ pc'[t] = "exit"
      BY <2>8 DEF PostFinish, poolVars, listVars, TypeInv, TypeOK, Done
    <3>2. AtWork' = AtWork
      BY <2>1, <3>1 DEF AtWork, Working
    <3>3. Covered' /\ EmptyAtFinish'
      BY <2>1, <2>2, <3>1, <3>2 DEF Covered, EmptyAtFinish
    <3>4. Attended' /\ AllDone'
      BY <2>1, <2>2, <2>3, <3>1 DEF Attended, AllDone, EmptyAtFinish
    <3> QED BY <3>3, <3>4
  <2> QED BY <1>5, <2>4, <2>5, <2>6, <2>7, <2>8 DEF Worker
<1>6. CASE UNCHANGED vars
  <2>1. UNCHANGED <<call, main, i, batch, reentered, traceQ, pc, trcData, freed, hasData, reports>>
    BY <1>6 DEF vars, mainVars, poolVars, listVars
  <2>2. Covered /\ EmptyAtFinish /\ Attended /\ AllDone
    BY <1>2, <2>1
  <2> QED BY <2>1, <2>2 DEF Covered, EmptyAtFinish, Attended, AllDone, Done, AtWork
<1> QED BY <1>1, <1>3, <1>4, <1>5, <1>6 DEF Next, Quiet

\* Whenever readData_finish was posted, every trace queued was read or removed:
\* for the first call at any time, for later calls once their threads are done.
THEOREM ReadBeforeReportAlways == Spec => []ReadBeforeReport
<1>1. TypeInv /\ CoverInv => ReadBeforeReport
  <2> SUFFICES ASSUME TypeInv, CoverInv, ~reentered, ~AllocMayFail, reports > 0,
                      call > 1 => main = "loop" /\ Live = {}
               PROVE  batch \subseteq hasData \cup freed
    BY DEF ReadBeforeReport
  <2>1. call \in Nat
    BY BoundsAssumption DEF TypeInv, TypeOK
  <2>2. Covered /\ Attended /\ AllDone
    BY DEF CoverInv
  <2>3. CASE call <= 1
    BY <2>2, <2>3 DEF AllDone, Done
  <2>4. CASE call > 1
    <3>1. AtWork = {} /\ traceQ = <<>>
      BY <2>2, <2>4 DEF Attended, AtWork, Working, Live
    <3> QED BY <2>2, <3>1, EmptyDistinct DEF Covered, Done
  <2> QED BY <2>1, <2>3, <2>4
<1>2. Init => TypeInv /\ CounterInv /\ CoverInv
  BY StartLists, TypeInit, CounterInit, CoverInit DEF Init
<1> QED BY <1>1, <1>2, TypeStep, CounterStep, CoverStep, PTL DEF Spec

-----------------------------------------------------------------------------
(* One call of the pool implements ReadPool.                               *)

\* One read, of a screen that is not empty, with memory for every thread.
OneCall == MaxCalls = 1 /\ ~AllocMayFail /\ Group0 # <<>>

\* Before the call the screen is as it was found.
StartInv == call = 0 => CURGRP = Group0 /\ hasData = {} /\ freed = {}

LEMMA StartStep == TypeInv /\ CounterInv /\ StartInv /\ [Next]_vars => StartInv'
<1> SUFFICES ASSUME TypeInv, CounterInv, StartInv, [Next]_vars, call' = 0
             PROVE  CURGRP' = Group0 /\ hasData' = {} /\ freed' = {}
  BY DEF StartInv
<1>0. call \in Nat
  BY BoundsAssumption DEF TypeInv, TypeOK
<1>1. ~readData_1
  BY <1>0 DEF readData_1
<1>2. CASE ZeroCounter \/ Spawn
  BY <1>2 DEF ZeroCounter, Spawn, StartInv, listVars
<1>3. ASSUME NEW t \in Threads, Worker(t) PROVE FALSE
  <2>1. UNCHANGED call /\ pc[t] # "none"
    BY <1>3 DEF Worker, getNextTrace, readTrace, WalkList, UnlinkTrace, UnlinkGroup, Finish,
                FreeQueue, PostFinish, mainVars
  <2> QED BY <2>1 DEF CounterInv, FreshThreads, Threads
<1>4. CASE UNCHANGED vars
  BY <1>4 DEF vars, mainVars, listVars, StartInv
<1> QED BY <1>1, <1>2, <1>3, <1>4 DEF Next, Quiet

PoolInv == TypeInv /\ CounterInv /\ CoverInv /\ StartInv

\* Threads at any place but the first and the last.
Active == \E t \in Threads : pc[t] \notin {"none", "exit"}
Starting == main = "zero" \/ (main = "spawn" /\ i < maxThreads(QLen))
poolState == IF call = 0 THEN "new" ELSE IF Starting \/ Active THEN "busy" ELSE "rest"
poolLeft == batch \ Done
LEMMA PoolDefs ==
    /\ Pool!PoolInit <=> poolState = "new" /\ poolLeft = {} /\ reports = 0
    /\ Pool!PoolNext <=>
         \/ poolState = "new" /\ (\E B \in {Trcs} : poolLeft' = B) /\ poolState' = "busy" /\ reports' = reports
         \/ poolState = "busy" /\ (\E x \in poolLeft : poolLeft' = poolLeft \ {x}) /\ poolState' = poolState /\ reports' = reports
         \/ poolState = "busy" /\ reports' = reports + 1 /\ poolState' = poolState /\ poolLeft' = poolLeft
         \/ poolState = "busy" /\ poolLeft = {} /\ reports' = reports + 1 /\ poolState' = "rest" /\ poolLeft' = poolLeft
BY DEF Pool!PoolInit, Pool!PoolNext, Pool!Submit, Pool!Process, Pool!EarlyReport, Pool!LastReport,
       poolState, poolLeft, Active, Starting, Done

\* The first call takes every trace of the screen.
LEMMA Submits ==
    ASSUME OneCall, PoolInv, readData_1
    PROVE  /\ poolState = "new" /\ poolState' = "busy" /\ poolLeft' = Trcs /\ reports' = reports
<1> DEFINE q == Reverse(Without(CURGRP, hasData))
<1>1. call = 0 /\ call' = 1
  <2>1. call \in Nat /\ call < 1 /\ call' = call + 1
    BY BoundsAssumption DEF OneCall, readData_1, PoolInv, TypeInv, TypeOK
  <2> QED BY <2>1
<1>2. CURGRP = Group0 /\ hasData = {} /\ freed = {} /\ batch = {}
  <2>1. ~reentered /\ ~AllocMayFail
    BY <1>1 DEF OneCall, PoolInv, CounterInv
  <2> QED BY <1>1, <2>1 DEF PoolInv, StartInv, CoverInv, AllDone
<1>3. Elems(q) = Trcs
  BY <1>2, QueueOf DEF PoolInv, TypeInv, TypeOK, Trcs
<1>4. q # <<>>
  <2>1. Group0 \in Seq(Trcs) /\ Group0 # <<>>
    BY GroupAssumption DEF OneCall
  <2>2. Trcs # {}
    BY <2>1, TailProperties DEF Trcs
  <2> QED BY <1>3, <2>2, EmptyDistinct
<1> HIDE DEF q
<1>5. main' = "zero" /\ batch' = batch \cup Elems(q) /\ UNCHANGED <<reports, hasData, freed>>
  BY <1>4 DEF readData_1, q, listVars
<1> QED BY <1>1, <1>2, <1>3, <1>5 DEF poolState, poolLeft, Done, Starting

\* A step that leaves the pool as it is, seen from outside.
Hidden == UNCHANGED <<poolState, poolLeft, reports>>

LEMMA WorkerActive ==
    ASSUME PoolInv, NEW t \in Threads, Worker(t)
    PROVE  /\ poolState = "busy" /\ UNCHANGED <<call, main, i, QLen, batch, reentered>>
           /\ pc'[t] \notin {"none", "exit"} => poolState' = "busy"
<1>1. pc[t] \notin {"none", "exit"} /\ UNCHANGED <<call, main, i, QLen, batch, reentered>>
  BY DEF Worker, getNextTrace, readTrace, WalkList, UnlinkTrace, UnlinkGroup, Finish,
         FreeQueue, PostFinish, mainVars
<1>2. call # 0
  BY <1>1 DEF PoolInv, CounterInv, FreshThreads, Threads
<1> QED BY <1>1, <1>2 DEF poolState, Active

LEMMA PoolStep == ASSUME OneCall, PoolInv, [Next]_vars, PoolInv' PROVE [Pool!PoolNext]_(Pool!poolVars)
<1>0. ~reentered /\ ~AllocMayFail /\ call \in Nat /\ i \in Nat
  BY BoundsAssumption DEF OneCall, PoolInv, CounterInv, TypeInv, TypeOK
<1> SUFFICES Pool!PoolNext \/ Hidden
  BY DEF Hidden, Pool!poolVars, poolState, poolLeft, Active, Starting, Done
<1>1. CASE readData_1
  BY <1>1, Submits, PoolDefs
<1>2. CASE ZeroCounter
  <2>1. main = "zero" /\ main' = "spawn" /\ i' = 0 /\ UNCHANGED <<call, QLen, batch, hasData, freed, reports>>
    BY <1>2 DEF ZeroCounter, listVars
  <2>2. maxThreads(QLen) >= 1 /\ 0 < maxThreads(QLen)
    BY SMTT(30), <2>1, MaxThreadsBound DEF PoolInv, TypeInv, TypeOK, Bounded
  <2>3. maxThreads(QLen)' = maxThreads(QLen)
    BY <2>1 DEF maxThreads
  <2>4. Starting /\ Starting'
    BY <2>1, <2>2, <2>3 DEF Starting
  <2> QED BY <2>1, <2>4 DEF Hidden, poolState, poolLeft, Done
<1>3. CASE Spawn
  <2>1. main = "spawn" /\ UNCHANGED <<call, QLen, batch, hasData, freed, reports>>
    BY <1>3 DEF Spawn, listVars
  <2>2. maxThreads(QLen) \in 1 .. 3 * NumCPUs /\ maxThreads(QLen)' = maxThreads(QLen)
    BY <2>1, MaxThreadsBound DEF PoolInv, TypeInv, TypeOK, Bounded, maxThreads
  <2>3. CASE i < maxThreads(QLen) /\ pc' = [pc EXCEPT ![<<call, i>>] = "next"]
    <3>1. <<call, i>> \in Threads
      BY <2>1, <2>2, <2>3, BoundsAssumption DEF PoolInv, TypeInv, TypeOK, Bounded, Threads, ThreadNums
    <3>2. Starting /\ Active'
      BY <2>1, <2>3, <3>1 DEF Starting, Active, PoolInv, TypeInv, TypeOK
    <3> QED BY <2>1, <3>2 DEF Hidden, poolState, poolLeft, Done
  <2>4. CASE i >= maxThreads(QLen) /\ main' = "loop" /\ UNCHANGED pc
    <3>1. ~Starting /\ ~Starting'
      BY <1>0, <2>1, <2>2, <2>4 DEF Starting
    <3>2. Active' = Active
      BY <2>4 DEF Active
    <3> QED BY <2>1, <3>1, <3>2 DEF Hidden, poolState, poolLeft, Done
  <2> QED BY <1>0, <1>3, <2>3, <2>4 DEF Spawn
<1>4. ASSUME NEW t \in Threads, Worker(t) PROVE Pool!PoolNext \/ Hidden
  <2>1. /\ poolState = "busy" /\ UNCHANGED <<call, main, i, QLen, batch, reentered>>
        /\ pc'[t] \notin {"none", "exit"} => poolState' = "busy"
    BY <1>4, WorkerActive
  <2>2. CASE getNextTrace(t) \/ WalkList(t) \/ UnlinkTrace(t) \/ FreeQueue(t)
    <3>1. pc'[t] \notin {"none", "exit"} /\ UNCHANGED <<hasData, freed, reports>>
      BY <2>2 DEF getNextTrace, WalkList, UnlinkTrace, FreeQueue, listVars, PoolInv, TypeInv, TypeOK
    <3> QED BY <2>1, <3>1 DEF Hidden, poolLeft, Done
  <2>3. CASE readTrace(t) \/ UnlinkGroup(t)
    <3>1. /\ pc'[t] \notin {"none", "exit"} /\ UNCHANGED reports
          /\ Done' = Done \/ Done' = Done \cup {trcData[t]}
      BY <2>3 DEF readTrace, UnlinkGroup, listVars, PoolInv, TypeInv, TypeOK, Done
    <3>2. poolLeft' = poolLeft \/ \E x \in poolLeft : poolLeft' = poolLeft \ {x}
      BY <2>1, <3>1 DEF poolLeft
    <3> QED BY <2>1, <3>1, <3>2, PoolDefs DEF Hidden
  <2>4. CASE Finish(t)
    <3>1. UNCHANGED <<hasData, freed, reports>> /\ pc'[t] = IF numThreads' = 0 THEN "free" ELSE "exit"
      BY <2>4 DEF Finish, listVars, PoolInv, TypeInv, TypeOK
    <3>2. poolState' = "busy"
      <4>1. CASE numThreads' = 0
        BY <2>1, <3>1, <4>1
      <4>2. CASE numThreads' # 0
        <5>1. Cardinality(Live') # 0
          BY <1>0, <2>1, <4>2 DEF PoolInv, CounterInv
        <5>2. Live' # {}
          BY <5>1, FS_EmptySet
        <5>3. Active'
          BY <5>2 DEF Live, Active
        <5> QED BY <2>1, <5>3 DEF poolState
      <4> QED BY <4>1, <4>2
    <3> QED BY <2>1, <3>1, <3>2 DEF Hidden, poolLeft, Done
  <2>5. CASE PostFinish(t)
    <3>1. UNCHANGED <<hasData, freed>> /\ pc[t] = "post" /\ reports' = reports + 1
      BY <2>5 DEF PostFinish, listVars
    <3>2. poolLeft = {} /\ poolLeft' = poolLeft
      BY <1>0, <2>1, <3>1 DEF PoolInv, CoverInv, AllDone, poolLeft, Done
    <3>3. poolState' = "busy" \/ poolState' = "rest"
      BY <2>1 DEF poolState
    <3> QED BY <2>1, <3>1, <3>2, <3>3, PoolDefs
  <2> QED BY <1>4, <2>2, <2>3, <2>4, <2>5 DEF Worker
<1>5. CASE UNCHANGED vars
  <2>1. UNCHANGED <<call, main, i, QLen, batch, pc, freed, hasData, reports>>
    BY <1>5 DEF vars, mainVars, listVars
  <2> QED BY <2>1 DEF Hidden, poolState, poolLeft, Done, Starting, Active, maxThreads
<1> QED BY <1>1, <1>2, <1>3, <1>4, <1>5 DEF Next, Quiet

\* Seen from readData_1, one call is a run of ReadPool: every trace of the screen
\* is taken, read or removed once, and the pool comes to rest only with a report
\* made when none was left.
THEOREM ImplementsPoolSafe == ASSUME OneCall PROVE Spec => Pool!PoolSafe
<1>1. Init => PoolInv /\ Pool!PoolInit
  <2> SUFFICES ASSUME Init PROVE PoolInv /\ Pool!PoolInit
    OBVIOUS
  <2>1. PoolInv
    <3>1. TypeInv /\ CounterInv /\ CoverInv
      BY StartLists, TypeInit, CounterInit, CoverInit DEF Init
    <3> QED BY <3>1 DEF Init, InitWith, PoolInv, StartInv
  <2>2. Pool!PoolInit
    BY PoolDefs DEF Init, InitWith, poolState, poolLeft
  <2> QED BY <2>1, <2>2
<1>2. PoolInv /\ [Next]_vars => PoolInv'
  BY TypeStep, CounterStep, CoverStep, StartStep DEF PoolInv
<1>3. PoolInv /\ PoolInv' /\ [Next]_vars => [Pool!PoolNext]_(Pool!poolVars)
  BY PoolStep
<1> QED BY <1>1, <1>2, <1>3, PTL DEF Spec, Pool!PoolSafe
=============================================================================
