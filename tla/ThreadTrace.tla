---------------------------- MODULE ThreadTrace ----------------------------
(***************************************************************************)
(* The pool of data-reading threads, src/src/thread_trace.c, with its only *)
(* caller readData_1 of src/src/data.c and with kill_trace, which the      *)
(* threads call on the global lists of traces.                             *)
(*                                                                         *)
(* readData_1 queues the traces of the current screen (CURGRP) that have   *)
(* no data yet.  The threads pop the queue under traceQ_mutex until it is  *)
(* empty; the one that counts numThreads to zero frees the queue and posts *)
(* readData_finish.  A trace that cannot be read is removed from `traces'  *)
(* and from CURGRP by the thread itself, without a lock.                   *)
(***************************************************************************)
EXTENDS Integers, Sequences, FiniteSets, SequencesExt, Lists

CONSTANTS
    Group0,         \* the traces of the screen, a sequence
    Unreadable,     \* the ones readTrace fails on
    NoTrace,        \* the NULL getNextTrace returns
    NumCPUs,        \* states.general.numCPUs
    MaxCalls,       \* bound on the calls of readData_1
    AllocMayFail    \* whether calloc of the thread arguments may fail

Trcs == Elems(Group0)

ASSUME GroupAssumption ==
    /\ Group0 \in Seq(Trcs)
    /\ Distinct(Group0)
    /\ Unreadable \subseteq Trcs /\ NoTrace \notin Trcs
ASSUME BoundsAssumption ==
    /\ NumCPUs \in Nat \ {0} /\ MaxCalls \in Nat /\ AllocMayFail \in BOOLEAN

ThreadNums == 0 .. 3 * NumCPUs - 1
Threads == (1 .. MaxCalls) \X ThreadNums     \* <<call, loop index>>

maxThreads(n) == IF NumCPUs = 1 THEN 1 ELSE IF n < 3 * NumCPUs THEN n ELSE 3 * NumCPUs

VARIABLES
    call,           \* calls of readTraces so far
    main,           \* where the main thread is: "loop" is GTK's main loop
    i, QLen,        \* index of the spawning loop, length of the queue given
    numThreads,
    traceQ,         \* the queue; NULL is used like an empty one
    pc, trcData,    \* where each thread is, the trace it holds
    snap,           \* list a thread walked before it unlinks its trace
    traces, CURGRP, numTraces,
    hasData,        \* traces with dataInfo.data
    freed,          \* traces whose memory was freed
    reports,        \* readData_finish callbacks posted or called
    batch,          \* history: traces queued by any call
    reentered,      \* history: readTraces was called with threads running
    raced           \* history: two threads were unlinking from one list at once

mainVars  == <<call, main, i, QLen, batch, reentered>>
poolVars  == <<numThreads, traceQ>>
listVars  == <<traces, CURGRP, numTraces, freed, raced>>
vars == <<mainVars, poolVars, pc, trcData, snap, listVars, hasData, reports>>

Live == {t \in Threads : pc[t] \notin {"none", "free", "post", "exit"}}

\* At the start of the threads' use, with the traces of list on the screen.
InitWith(list) ==
    /\ call = 0 /\ main = "loop" /\ i = 0 /\ QLen = 0
    /\ numThreads = 0 /\ traceQ = <<>>
    /\ pc = [t \in Threads |-> "none"]
    /\ trcData = [t \in Threads |-> NoTrace]
    /\ snap = [t \in Threads |-> <<>>]
    /\ traces = list /\ CURGRP = list /\ numTraces = Len(list)
    /\ hasData = {} /\ freed = {} /\ reports = 0
    /\ batch = {} /\ reentered = FALSE /\ raced = FALSE

Init == InitWith(Group0)

-----------------------------------------------------------------------------
(* The main thread: readData_1() and readTraces().                         *)

\* The screen's traces without data, each pushed at the head of the queue; the
\* pool's own copy replaces whatever queue was there.  Nothing to read is
\* reported at once.
readData_1 ==
    /\ main = "loop" /\ call < MaxCalls
    /\ LET q == Reverse(Without(CURGRP, hasData)) IN
       \/ /\ q = <<>>
          /\ reports' = reports + 1
          /\ UNCHANGED <<main, QLen, traceQ, batch, reentered>>
       \/ /\ q # <<>>
          /\ QLen' = Len(q) /\ traceQ' = q
          /\ main' = "zero"
          /\ batch' = batch \cup Elems(q)
          /\ reentered' = (reentered \/ \E t \in Threads : pc[t] \notin {"none", "exit"})
          /\ UNCHANGED reports
    /\ call' = call + 1
    /\ UNCHANGED <<i, numThreads, pc, trcData, snap, listVars, hasData>>

ZeroCounter ==
    /\ main = "zero"
    /\ numThreads' = 0 /\ i' = 0
    /\ main' = "spawn"
    /\ UNCHANGED <<call, QLen, batch, reentered, traceQ, pc, trcData, snap, listVars, hasData, reports>>

Spawn ==
    /\ main = "spawn"
    /\ \/ /\ i < maxThreads(QLen)
          /\ numThreads' = numThreads + 1
          /\ pc' = [pc EXCEPT ![<<call, i>>] = "next"]
          /\ i' = i + 1
          /\ UNCHANGED main
       \/ /\ i >= maxThreads(QLen) \/ AllocMayFail
          /\ main' = "loop"
          /\ UNCHANGED <<numThreads, pc, i>>
    /\ UNCHANGED <<call, QLen, batch, reentered, traceQ, trcData, snap, listVars, hasData, reports>>

-----------------------------------------------------------------------------
(* A thread: _getTraces(), kill_trace() and finish().                      *)

\* MUTANT: the head is read but left in the queue
getNextTracePeek(t) ==
    /\ pc[t] = "next"
    /\ IF traceQ # <<>>
       THEN /\ trcData' = [trcData EXCEPT ![t] = Head(traceQ)]
            /\ traceQ' = IF Head(traceQ) \in hasData \cup freed THEN Tail(traceQ) ELSE traceQ
            /\ pc' = [pc EXCEPT ![t] = "read"]
       ELSE /\ pc' = [pc EXCEPT ![t] = "finish"]
            /\ trcData' = [trcData EXCEPT ![t] = NoTrace]
            /\ UNCHANGED traceQ
    /\ UNCHANGED <<mainVars, numThreads, snap, listVars, hasData, reports>>

getNextTrace(t) ==
    /\ pc[t] = "next"
    /\ IF traceQ # <<>>
       THEN /\ trcData' = [trcData EXCEPT ![t] = Head(traceQ)]
            /\ traceQ' = Tail(traceQ)
            /\ pc' = [pc EXCEPT ![t] = "read"]
       ELSE /\ pc' = [pc EXCEPT ![t] = "finish"]
            /\ trcData' = [trcData EXCEPT ![t] = NoTrace]
            /\ UNCHANGED traceQ
    /\ UNCHANGED <<mainVars, numThreads, snap, listVars, hasData, reports>>

readTrace(t) ==
    /\ pc[t] = "read"
    /\ IF trcData[t] \in Unreadable
       THEN /\ pc' = [pc EXCEPT ![t] = "kill"]
            /\ UNCHANGED hasData
       ELSE /\ pc' = [pc EXCEPT ![t] = "next"]
            /\ hasData' = hasData \cup {trcData[t]}
    /\ UNCHANGED <<mainVars, poolVars, trcData, snap, listVars, reports>>

\* g_slist_remove on a global list without a lock, first on `traces', then on
\* CURGRP: the thread walks to the cell before its trace and relinks it.  A
\* cell unlinked meanwhile may come back with the relink, or stay out.
WalkList(t) ==
    /\ pc[t] \in {"kill", "killGroup"}
    /\ snap' = [snap EXCEPT ![t] = IF pc[t] = "kill" THEN traces ELSE CURGRP]
    /\ pc' = [pc EXCEPT ![t] = IF @ = "kill" THEN "unlink" ELSE "unlinkGroup"]
    /\ raced' = (raced \/ \E s \in Threads \ {t} : pc[s] = pc'[t])
    /\ UNCHANGED <<mainVars, poolVars, trcData, traces, CURGRP, numTraces, freed, hasData, reports>>

Unlinked(t, list) == {Without(snap[t], {trcData[t]}), Without(list, {trcData[t]})}

UnlinkTrace(t) ==
    /\ pc[t] = "unlink"
    /\ traces' \in Unlinked(t, traces)
    /\ pc' = [pc EXCEPT ![t] = "killGroup"]
    /\ snap' = [snap EXCEPT ![t] = <<>>]
    /\ UNCHANGED <<mainVars, poolVars, trcData, CURGRP, numTraces, freed, raced, hasData, reports>>

\* MUTANT: only the global list is relinked
UnlinkGroupNot(t) ==
    /\ pc[t] = "unlinkGroup"
    /\ freed' = freed \cup {trcData[t]}
    /\ numTraces' = Len(traces)
    /\ pc' = [pc EXCEPT ![t] = "next"]
    /\ snap' = [snap EXCEPT ![t] = <<>>]
    /\ UNCHANGED <<mainVars, poolVars, trcData, traces, CURGRP, raced, hasData, reports>>

\* The last piece of kill_trace: the structure is freed, the traces counted.
UnlinkGroup(t) ==
    /\ pc[t] = "unlinkGroup"
    /\ CURGRP' \in Unlinked(t, CURGRP)
    /\ freed' = freed \cup {trcData[t]}
    /\ numTraces' = Len(traces)
    /\ pc' = [pc EXCEPT ![t] = "next"]
    /\ snap' = [snap EXCEPT ![t] = <<>>]
    /\ UNCHANGED <<mainVars, poolVars, trcData, traces, raced, hasData, reports>>

\* MUTANT: the first thread reports, whatever the others do
FinishFirst(t) ==
    /\ pc[t] = "finish"
    /\ numThreads' = numThreads - 1
    /\ pc' = [pc EXCEPT ![t] = IF t[2] = 0 THEN "free" ELSE "exit"]
    /\ UNCHANGED <<mainVars, traceQ, trcData, snap, listVars, hasData, reports>>

\* MUTANT: the comparison with zero is off by one
FinishBelowZero(t) ==
    /\ pc[t] = "finish"
    /\ numThreads' = numThreads - 1
    /\ pc' = [pc EXCEPT ![t] = IF numThreads' < 0 THEN "free" ELSE "exit"]
    /\ UNCHANGED <<mainVars, traceQ, trcData, snap, listVars, hasData, reports>>

Finish(t) ==
    /\ pc[t] = "finish"
    /\ numThreads' = numThreads - 1
    /\ pc' = [pc EXCEPT ![t] = IF numThreads' = 0 THEN "free" ELSE "exit"]
    /\ UNCHANGED <<mainVars, traceQ, trcData, snap, listVars, hasData, reports>>

FreeQueue(t) ==
    /\ pc[t] = "free"
    /\ traceQ' = <<>>
    /\ pc' = [pc EXCEPT ![t] = "post"]
    /\ UNCHANGED <<mainVars, numThreads, trcData, snap, listVars, hasData, reports>>

PostFinish(t) ==
    /\ pc[t] = "post"
    /\ reports' = reports + 1
    /\ pc' = [pc EXCEPT ![t] = "exit"]
    /\ UNCHANGED <<mainVars, poolVars, trcData, snap, listVars, hasData>>

-----------------------------------------------------------------------------
Worker(t) ==
    \/ getNextTrace(t) \/ readTrace(t) \/ WalkList(t) \/ UnlinkTrace(t)
    \/ UnlinkGroup(t) \/ Finish(t) \/ FreeQueue(t) \/ PostFinish(t)

Quiet ==
    /\ main = "loop" /\ call = MaxCalls
    /\ \A t \in Threads : pc[t] \in {"none", "exit"}
    /\ UNCHANGED vars

Next == readData_1 \/ ZeroCounter \/ Spawn \/ (\E t \in Threads : Worker(t)) \/ Quiet

Spec == Init /\ [][Next]_vars
FairSpec ==
    /\ Spec
    /\ WF_vars(ZeroCounter \/ Spawn)
    /\ \A t \in Threads : WF_vars(Worker(t))

-----------------------------------------------------------------------------
(* Properties.                                                             *)

\* Every variable has its type.
TypeOK ==
    /\ call \in 0 .. MaxCalls /\ main \in {"loop", "zero", "spawn"}
    /\ i \in 0 .. 3 * NumCPUs /\ QLen \in 0 .. Len(Group0)
    /\ numThreads \in Int /\ traceQ \in Seq(Trcs)
    /\ pc \in [Threads -> {"none", "next", "read", "kill", "unlink", "killGroup",
                           "unlinkGroup", "finish", "free", "post", "exit"}]
    /\ trcData \in [Threads -> Trcs \cup {NoTrace}]
    /\ snap \in [Threads -> Seq(Trcs)]
    /\ traces \in Seq(Trcs) /\ CURGRP \in Seq(Trcs) /\ numTraces \in Nat
    /\ hasData \subseteq Trcs /\ freed \subseteq Trcs /\ batch \subseteq Trcs
    /\ reports \in Nat /\ reentered \in BOOLEAN /\ raced \in BOOLEAN

\* A trace of the queue is held by one thread at a time, and no thread reads a
\* trace that is still queued: the pops are serialised by traceQ_mutex.
SingleReader ==
    ~reentered =>
        /\ \A s, t \in Threads : s # t /\ trcData[s] = trcData[t] => trcData[s] = NoTrace
        /\ \A t \in Threads : trcData[t] \notin Elems(traceQ)

\* Whenever readData_finish has been posted every trace that was queued has its
\* data or was removed.  A thread started late finds the queue empty, so this
\* holds even when numThreads reaches zero before all threads were started.
ReadBeforeReport ==
    ~reentered /\ ~AllocMayFail /\ reports > 0 /\ (call > 1 => main = "loop" /\ Live = {}) =>
        batch \subseteq hasData \cup freed

\* thread_trace.c:149: "cannot be read, removing...": a trace that was removed
\* and freed is in neither list, unless two threads unlinked from one list at
\* once: then a relink can bring the freed trace back.
RemovedForGood ==
    ~raced => \A trc \in freed : trc \notin Elems(traces) \cup Elems(CURGRP)

Pool == INSTANCE ReadPool WITH
    Batches <- {Trcs},
    state <- IF call = 0 THEN "new"
             ELSE IF main = "zero" \/ (main = "spawn" /\ i < maxThreads(QLen))
                     \/ (\E t \in Threads : pc[t] \notin {"none", "exit"})
             THEN "busy" ELSE "rest",
    left <- batch \ (hasData \cup freed),
    reports <- reports

\* One call of the pool implements ReadPool: every trace of the screen is read
\* or removed, the last report comes when none is left, and it does come: by the
\* pool's fairness no call of readData_1 goes without a readData_finish.
ImplementsPool == Pool!PoolSpec
=============================================================================
