----------------------------- MODULE ThreadFile -----------------------------
(***************************************************************************)
(* The pool of header-reading threads, src/src/thread_file.c.              *)
(*                                                                         *)
(* readFiles() runs on the GTK main thread: it cuts the queue of input     *)
(* files into consecutive chunks and starts one thread per chunk.  Every   *)
(* thread identifies the files of its chunk, stores the traces it found in *)
(* its slot of threadTraces and runs finish(); the thread that counts      *)
(* numThreads down to zero joins the slots into traceList and posts        *)
(* readHdr_finish to the main loop.                                        *)
(*                                                                         *)
(* Data.  A file is a name; what identifyTrace makes of it is KindOf.  The *)
(* files of a call are numbered by their place in fileQ, so fileQ is the   *)
(* number of files already popped and the chunk of a thread an interval.   *)
(* The traces of one file stay together and are represented by the file's  *)
(* place <<call, number>>.                                                 *)
(***************************************************************************)
EXTENDS Integers, Sequences, FiniteSets

CONSTANTS
    Files,          \* names of input files
    KindOf,         \* what identifyTrace makes of each file
    Inputs,         \* the file queues a call of readFiles may be given
    NumCPUs,        \* states.general.numCPUs
    MaxCalls,       \* bound on the calls of readFiles (a user may open again)
    AllocMayFail,   \* whether calloc of the thread arguments may fail
    PBARMULTIPLE    \* progress is drawn on every PBARMULTIPLE-th update

Kinds == {"unreadable", "plain", "soh", "log"}
MT_FACTOR == 3

ASSUME FilesAssumption ==
    /\ KindOf \in [Files -> Kinds]
    /\ Inputs \subseteq Seq(Files)
    /\ <<>> \notin Inputs           \* readHdr_1 calls only with a non-empty queue
ASSUME BoundsAssumption ==
    /\ NumCPUs \in Nat \ {0}
    /\ MaxCalls \in Nat
    /\ PBARMULTIPLE \in Nat \ {0}
    /\ AllocMayFail \in BOOLEAN

\* MUTANT: a thread per file, without the cap
MaxThreadsNoCap(n) == n

MaxThreads(n) ==
    IF NumCPUs = 1 THEN MT_FACTOR
    ELSE IF n < MT_FACTOR * NumCPUs THEN n ELSE MT_FACTOR * NumCPUs

ThreadNums == 0 .. MT_FACTOR * NumCPUs - 1
Threads == (1 .. MaxCalls) \X ThreadNums     \* <<call, threadNum>>
Traces == (1 .. MaxCalls) \X (Nat \ {0})     \* <<call, number of the file>>
Places == {"none", "start", "files", "soh", "sohLink", "log", "logLink",
           "finish", "collect", "done", "post", "exit"}
NoArray == <<>>                              \* threadTraces = NULL

Commands == [cmd : {"PBARINIT", "PBARUPD", "PBARDONE"}]
            \cup [cmd : {"readHdr_finish"}, list : Seq(Traces)]

VARIABLES
    input,          \* the queue each call was given, in call order
    main,           \* where the main thread is: "loop" is GTK's main loop
    i,              \* index of the spawning loop
    fileQ,          \* how many files of the current queue were popped
    numThreads, maxThreads, threadTraces, traceList,
    pc,             \* where each thread is
    lo, next,       \* first file of a thread's chunk, file it is at
    threadList,     \* traces a thread found so far
    snap,           \* list head a thread loaded before it links an element
    instSOH, logs,  \* states.data.instSOH and states.logs.logs
    raced,          \* history: a list changed between a thread's load and link
    idleQ,          \* idle callbacks posted and not yet run
    ttl, drawn,     \* progress counter, largest value drawn for this call
    delivered,      \* arguments of the readHdr_finish calls run so far
    early,          \* history: numThreads hit zero with files still queued
    overlapped,     \* history: readFiles was called with threads running
    overrun         \* history: a slot past the end of threadTraces was used

mainVars   == <<input, main, i, fileQ, maxThreads>>
workerVars == <<pc, lo, next, threadList, snap>>
sideLists  == <<instSOH, logs, raced>>
barVars    == <<ttl, drawn>>
ghostVars  == <<early, overlapped, overrun>>
vars == <<mainVars, numThreads, threadTraces, traceList, workerVars,
          sideLists, idleQ, barVars, delivered, ghostVars>>

call == Len(input)
QLen == IF input = <<>> THEN 0 ELSE Len(input[call])
Live == {t \in Threads : pc[t] \notin {"none", "collect", "done", "post", "exit"}}

Init ==
    /\ input = <<>> /\ main = "loop" /\ i = 0 /\ fileQ = 0
    /\ numThreads = 0 /\ maxThreads = 0
    /\ threadTraces = NoArray /\ traceList = <<>>
    /\ pc = [t \in Threads |-> "none"]
    /\ lo = [t \in Threads |-> 1] /\ next = [t \in Threads |-> 0]
    /\ threadList = [t \in Threads |-> <<>>]
    /\ snap = [t \in Threads |-> {}]
    /\ instSOH = {} /\ logs = {} /\ raced = FALSE
    /\ idleQ = <<>> /\ ttl = 0 /\ drawn = 0 /\ delivered = <<>>
    /\ early = FALSE /\ overlapped = FALSE /\ overrun = FALSE

Post(c) == idleQ' = Append(idleQ, c)

-----------------------------------------------------------------------------
(* The main thread inside readFiles(). Four steps, one per piece of shared *)
(* state it touches: threads of an earlier call may run between them.      *)

\* maxThreads is written without the lock that guards the array it sizes.
ReadFiles ==
    /\ main = "loop" /\ call < MaxCalls
    /\ \E q \in Inputs :
        /\ input' = Append(input, q)
        /\ maxThreads' = MaxThreads(Len(q))
    /\ main' = "alloc"
    /\ overlapped' = (overlapped \/ \E t \in Threads : pc[t] \notin {"none", "exit"})
    /\ early' = FALSE
    /\ UNCHANGED <<i, fileQ, numThreads, threadTraces, traceList, workerVars,
                   sideLists, idleQ, barVars, delivered, overrun>>

AllocSlots ==
    /\ main = "alloc"
    /\ \/ /\ threadTraces' = [k \in 0 .. maxThreads - 1 |-> <<>>]
          /\ main' = "reset"
       \/ /\ AllocMayFail              \* calloc failed: give up
          /\ threadTraces' = NoArray
          /\ main' = "loop"
    /\ UNCHANGED <<input, i, fileQ, maxThreads, numThreads, traceList, workerVars,
                   sideLists, idleQ, barVars, delivered, ghostVars>>

ResetList ==
    /\ main = "reset"
    /\ fileQ' = 0 /\ traceList' = <<>>
    /\ Post([cmd |-> "PBARINIT"])
    /\ main' = "zero"
    /\ UNCHANGED <<input, i, maxThreads, numThreads, threadTraces, workerVars,
                   sideLists, barVars, delivered, ghostVars>>

ZeroCounter ==
    /\ main = "zero"
    /\ numThreads' = 0 /\ i' = 0
    /\ main' = "spawn"
    /\ UNCHANGED <<input, fileQ, maxThreads, threadTraces, traceList, workerVars,
                   sideLists, idleQ, barVars, delivered, ghostVars>>

\* MUTANT: the last chunk is not cut at the end of the queue
PoppedAfterUncut(n) == fileQ + n

\* MUTANT: the remainder of the division gets no thread
numFilesPThreadFloor == QLen \div maxThreads

numFilesPThread == QLen \div maxThreads + 1

\* getFiles(n): the files popped next are fileQ + 1 .. PoppedAfter(n); they
\* are prepended one by one, so a thread meets the last of them first.
PoppedAfter(n) == IF fileQ + n < QLen THEN fileQ + n ELSE QLen

Spawn ==
    /\ main = "spawn" /\ i < maxThreads
    /\ fileQ < QLen
    /\ fileQ' = PoppedAfter(numFilesPThread)
    /\ LET t == <<call, i>> IN
       \/ /\ numThreads' = numThreads + 1
          /\ pc' = [pc EXCEPT ![t] = "start"]
          /\ lo' = [lo EXCEPT ![t] = fileQ + 1]
          /\ next' = [next EXCEPT ![t] = PoppedAfter(numFilesPThread)]
          /\ i' = i + 1
          /\ main' = main
       \/ /\ AllocMayFail              \* no memory for the arguments: break
          /\ main' = "loop"
          /\ UNCHANGED <<numThreads, pc, lo, next, i>>
    /\ UNCHANGED <<input, maxThreads, threadTraces, traceList, threadList, snap,
                   sideLists, idleQ, barVars, delivered, ghostVars>>

SpawnEnd ==
    /\ main = "spawn"
    /\ i >= maxThreads \/ fileQ = QLen
    /\ main' = "loop"
    /\ UNCHANGED <<input, i, fileQ, maxThreads, numThreads, threadTraces, traceList,
                   workerVars, sideLists, idleQ, barVars, delivered, ghostVars>>

-----------------------------------------------------------------------------
(* A thread: _getthreadTraces() and finish().                              *)

\* A thread number the current call has no slot for ends the thread here:
\* the count goes down, finish() is not called.
Start(t) ==
    /\ pc[t] = "start"
    /\ IF t[2] < maxThreads
       THEN /\ pc' = [pc EXCEPT ![t] = "files"]
            /\ UNCHANGED numThreads
       ELSE /\ pc' = [pc EXCEPT ![t] = "exit"]
            /\ numThreads' = numThreads - 1
    /\ UNCHANGED <<mainVars, threadTraces, traceList, lo, next, threadList, snap,
                   sideLists, idleQ, barVars, delivered, ghostVars>>

FileName(t) == input[t[1]][next[t]]

NextFile(t) ==
    /\ next' = [next EXCEPT ![t] = @ - 1]
    /\ pc' = [pc EXCEPT ![t] = "files"]
    /\ Post([cmd |-> "PBARUPD"])

\* MUTANT: any entry is taken for that of the file
HasSOHAny(name) == instSOH # {}

\* g_slist_find_custom(states.data.instSOH, trc, getInstSOH): by file name.
HasSOH(name) == \E e \in instSOH : input[e[1]][e[2]] = name

\* identifyTrace on the next file; files it cannot use are skipped.  The state
\* of health of an instrument file is read once per file name.
Identify(t) ==
    /\ pc[t] = "files" /\ next[t] >= lo[t]
    /\ LET kind == KindOf[FileName(t)] IN
       /\ threadList' = IF kind = "unreadable" THEN threadList
                        ELSE [threadList EXCEPT ![t] = Append(@, <<t[1], next[t]>>)]
       /\ IF kind = "log" \/ (kind = "soh" /\ ~HasSOH(FileName(t)))
          THEN /\ pc' = [pc EXCEPT ![t] = kind]
               /\ UNCHANGED <<next, idleQ>>
          ELSE NextFile(t)
    /\ UNCHANGED <<mainVars, numThreads, threadTraces, traceList, lo, snap,
                   sideLists, barVars, delivered, ghostVars>>

\* g_slist_insert_sorted / g_slist_append on a global list, with no lock: the
\* thread walks the list it loaded and then links its element.
LoadList(t) ==
    /\ pc[t] \in {"soh", "log"}
    /\ snap' = [snap EXCEPT ![t] = IF pc[t] = "soh" THEN instSOH ELSE logs]
    /\ pc' = [pc EXCEPT ![t] = IF @ = "soh" THEN "sohLink" ELSE "logLink"]
    /\ UNCHANGED <<mainVars, numThreads, threadTraces, traceList, lo, next,
                   threadList, sideLists, idleQ, barVars, delivered, ghostVars>>

\* Elements linked since the load may be cut off by the late link, or stay.
Linked(t, list) == {snap[t] \cup {<<t[1], next[t]>>}, list \cup {<<t[1], next[t]>>}}

LinkElement(t) ==
    /\ \/ /\ pc[t] = "sohLink"
          /\ instSOH' \in Linked(t, instSOH)
          /\ raced' = (raced \/ snap[t] # instSOH)
          /\ UNCHANGED logs
       \/ /\ pc[t] = "logLink"
          /\ logs' \in Linked(t, logs)
          /\ raced' = (raced \/ snap[t] # logs)
          /\ UNCHANGED instSOH
    /\ NextFile(t)
    /\ snap' = [snap EXCEPT ![t] = {}]
    /\ UNCHANGED <<mainVars, numThreads, threadTraces, traceList, lo, threadList,
                   barVars, delivered, ghostVars>>

\* The slot is written under threadTraces_mutex; without an array, or without
\* a slot in it, the list is dropped.
StoreList(t) ==
    /\ pc[t] = "files" /\ next[t] < lo[t]
    /\ threadTraces' =
         IF t[2] < maxThreads /\ threadTraces # NoArray
         THEN [threadTraces EXCEPT ![t[2]] = threadList[t]]
         ELSE threadTraces
    /\ overrun' = (overrun \/ (/\ t[2] < maxThreads /\ threadTraces # NoArray
                               /\ t[2] \notin DOMAIN threadTraces))
    /\ pc' = [pc EXCEPT ![t] = "finish"]
    /\ UNCHANGED <<mainVars, numThreads, traceList, lo, next, threadList, snap,
                   sideLists, idleQ, barVars, delivered, early, overlapped>>

\* MUTANT: a thread that found nothing returns without counting down
FinishFoundOnly(t) ==
    /\ pc[t] = "finish"
    /\ IF threadList[t] = <<>>
       THEN pc' = [pc EXCEPT ![t] = "exit"] /\ UNCHANGED <<numThreads, early>>
       ELSE /\ numThreads' = numThreads - 1
            /\ pc' = [pc EXCEPT ![t] = IF numThreads' = 0 THEN "collect" ELSE "exit"]
            /\ early' = (early \/ (numThreads' = 0 /\ fileQ < QLen))
    /\ UNCHANGED <<mainVars, threadTraces, traceList, lo, next, threadList, snap,
                   sideLists, idleQ, barVars, delivered, overlapped, overrun>>

Finish(t) ==
    /\ pc[t] = "finish"
    /\ numThreads' = numThreads - 1
    /\ pc' = [pc EXCEPT ![t] = IF numThreads' = 0 THEN "collect" ELSE "exit"]
    /\ early' = (early \/ (numThreads' = 0 /\ fileQ < QLen))
    /\ UNCHANGED <<mainVars, threadTraces, traceList, lo, next, threadList, snap,
                   sideLists, idleQ, barVars, delivered, overlapped, overrun>>

\* MUTANT: the loop over the slots stops one short
JoinSlotsShort(a, n) ==
    LET join[k \in 0 .. n] == IF k = 0 THEN <<>> ELSE join[k - 1] \o a[k - 1]
    IN  join[n - 1]

\* The slots 0 .. n - 1 of the array, joined in slot order.
JoinSlots(a, n) ==
    LET join[k \in 0 .. n] == IF k = 0 THEN <<>> ELSE join[k - 1] \o a[k - 1]
    IN  join[n]

\* The loop bound is the maxThreads of the newest call, the array may still be
\* that of an older one.  What lies past its end is undefined: the model notes
\* it in overrun and reads no list there.
SlotsRead == DOMAIN threadTraces \cap (0 .. maxThreads - 1)

Collect(t) ==
    /\ pc[t] = "collect"
    /\ IF threadTraces # NoArray
       THEN /\ traceList' = traceList \o JoinSlots(threadTraces, Cardinality(SlotsRead))
            /\ threadTraces' = NoArray
            /\ overrun' = (overrun \/ maxThreads - 1 \notin DOMAIN threadTraces)
       ELSE UNCHANGED <<traceList, threadTraces, overrun>>
    /\ pc' = [pc EXCEPT ![t] = "done"]
    /\ UNCHANGED <<mainVars, numThreads, lo, next, threadList, snap, sideLists,
                   idleQ, barVars, delivered, early, overlapped>>

PostDone(t) ==
    /\ pc[t] = "done"
    /\ Post([cmd |-> "PBARDONE"])
    /\ pc' = [pc EXCEPT ![t] = "post"]
    /\ UNCHANGED <<mainVars, numThreads, threadTraces, traceList, lo, next,
                   threadList, snap, sideLists, barVars, delivered, ghostVars>>

PostFinish(t) ==
    /\ pc[t] = "post"
    /\ Post([cmd |-> "readHdr_finish", list |-> traceList])
    /\ pc' = [pc EXCEPT ![t] = "exit"]
    /\ UNCHANGED <<mainVars, numThreads, threadTraces, traceList, lo, next,
                   threadList, snap, sideLists, barVars, delivered, ghostVars>>

-----------------------------------------------------------------------------
(* GTK's main loop runs the idle callbacks in the order they were posted.  *)

PBarUpd(c) ==
    \/ /\ c.cmd = "PBARINIT"
       /\ ttl' = 1 /\ drawn' = 0
    \/ /\ c.cmd = "PBARUPD"
       /\ drawn' = IF ttl % PBARMULTIPLE = 0 THEN ttl ELSE drawn
       /\ ttl' = ttl + 1
    \/ /\ c.cmd = "PBARDONE"
       /\ UNCHANGED barVars

Dispatch ==
    /\ main = "loop" /\ idleQ # <<>>
    /\ LET c == Head(idleQ) IN
       \/ /\ PBarUpd(c)
          /\ UNCHANGED delivered
       \/ /\ c.cmd = "readHdr_finish"
          /\ delivered' = Append(delivered, c.list)
          /\ UNCHANGED barVars
    /\ idleQ' = Tail(idleQ)
    /\ UNCHANGED <<mainVars, numThreads, threadTraces, traceList, workerVars,
                   sideLists, ghostVars>>

-----------------------------------------------------------------------------
Main == ReadFiles \/ AllocSlots \/ ResetList \/ ZeroCounter \/ Spawn \/ SpawnEnd

Worker(t) ==
    \/ Start(t) \/ Identify(t) \/ LoadList(t) \/ LinkElement(t) \/ StoreList(t)
    \/ Finish(t) \/ Collect(t) \/ PostDone(t) \/ PostFinish(t)

\* Nothing left to do: every thread has ended and the user opens no more.
Quiet ==
    /\ main = "loop" /\ idleQ = <<>> /\ call = MaxCalls
    /\ \A t \in Threads : pc[t] \in {"none", "exit"}
    /\ UNCHANGED vars

Next == Main \/ (\E t \in Threads : Worker(t)) \/ Dispatch \/ Quiet

Fairness ==
    /\ WF_vars(AllocSlots \/ ResetList \/ ZeroCounter \/ Spawn \/ SpawnEnd)
    /\ WF_vars(Dispatch)
    /\ \A t \in Threads : WF_vars(Worker(t))

Spec == Init /\ [][Next]_vars
FairSpec == Spec /\ Fairness

-----------------------------------------------------------------------------
(* Properties.                                                             *)

\* What steers the pool: places, counters, and which files a thread has.
ControlTypeOK ==
    /\ input \in Seq(Inputs) /\ call <= MaxCalls
    /\ main \in {"loop", "alloc", "reset", "zero", "spawn"}
    /\ i \in 0 .. MT_FACTOR * NumCPUs
    /\ fileQ \in Nat
    /\ numThreads \in Int /\ maxThreads \in 0 .. MT_FACTOR * NumCPUs
    /\ pc \in [Threads -> Places]
    /\ lo \in [Threads -> Nat] /\ next \in [Threads -> Int]
    /\ early \in BOOLEAN /\ overlapped \in BOOLEAN /\ overrun \in BOOLEAN

\* What the threads produce: lists of traces, side lists and callbacks.
DataTypeOK ==
    /\ threadTraces = NoArray
       \/ \E n \in 0 .. MT_FACTOR * NumCPUs : threadTraces \in [0 .. n - 1 -> Seq(Traces)]
    /\ traceList \in Seq(Traces)
    /\ threadList \in [Threads -> Seq(Traces)]
    /\ snap \in [Threads -> SUBSET Traces]
    /\ instSOH \subseteq Traces /\ logs \subseteq Traces /\ raced \in BOOLEAN
    /\ idleQ \in Seq(Commands)
    /\ ttl \in Nat /\ drawn \in Nat
    /\ delivered \in Seq(Seq(Traces))

\* Every variable has its type; in particular the thread count of a call stays
\* within the MT_FACTOR threads per CPU that readFiles allows.
TypeOK == ControlTypeOK /\ DataTypeOK

\* numThreads counts the threads started and not yet through finish(), as
\* long as readFiles was never called with threads of an earlier call alive.
CounterExact == ~overlapped => numThreads = Cardinality(Live)

\* Once the spawning loop has ended every file of the queue was handed to a
\* thread: maxThreads chunks of QLen / maxThreads + 1 files are never too few.
EveryFileHandedOut ==
    ~AllocMayFail /\ main = "loop" => fileQ = QLen

\* No file is left to two threads of a call, and a thread only works on files
\* its queue has: the chunks of getFiles are disjoint and end with the queue.
OneReader ==
    \A s, t \in Threads :
        pc[s] # "none" /\ pc[t] # "none" =>
            /\ next[t] <= Len(input[t[1]])
            /\ s[1] = t[1] /\ s[2] < t[2] => next[s] < lo[t]

\* The traces the threads should return for call c.
Expected(c) == {<<c, f>> : f \in {f \in 1 .. Len(input[c]) : KindOf[input[c][f]] # "unreadable"}}

\* In a list handed to readHdr_finish the chunks come in spawning order and
\* the files of a chunk in reverse.
InChunkOrder(list) ==
    \A a, b \in 1 .. Len(list) : a < b =>
        LET chunk(k) == (list[k][2] - 1) \div numFilesPThread
        IN  chunk(a) < chunk(b) \/ (chunk(a) = chunk(b) /\ list[a][2] > list[b][2])

\* If no thread counted numThreads to zero while files were still queued, the
\* call reports once, and what it reports is every readable file exactly once.
CompleteUnlessEarly ==
    (~early /\ ~overlapped /\ ~AllocMayFail /\ call = 1 /\ delivered # <<>>) =>
        /\ Len(delivered) = 1
        /\ {delivered[1][k] : k \in 1 .. Len(delivered[1])} = Expected(1)
        /\ Len(delivered[1]) = Cardinality(Expected(1))
        /\ InChunkOrder(delivered[1])

\* The slots of threadTraces that threads write and finish() joins exist, unless
\* calls overlapped: maxThreads is set before the array has that size.
NoOverrun == overrun => overlapped

\* When all is read every log is listed, and the state of health of every file
\* name that has one, unless two threads wrote a list at the same time.
SideListsComplete ==
    (~raced /\ call = 1 /\ main = "loop" /\ fileQ = QLen /\ Live = {}) =>
        \A tr \in Expected(1) :
            LET name == input[1][tr[2]] IN
            /\ KindOf[name] = "log" => tr \in logs
            /\ KindOf[name] = "soh" => \E e \in instSOH : input[e[1]][e[2]] = name

\* One call of the pool implements ReadPool: the files of the queue are the
\* items, the readHdr_finish callbacks posted are the reports.
IsReport(c) == c.cmd = "readHdr_finish"
Active == {t \in Threads : pc[t] \notin {"none", "exit"}}

Pool == INSTANCE ReadPool WITH
    Batches <- {1 .. Len(q) : q \in Inputs},
    state <- IF input = <<>> THEN "new"
             ELSE IF main \in {"alloc", "reset", "zero"} \/ fileQ < QLen \/ Active # {}
             THEN "busy" ELSE "rest",
    left <- (fileQ + 1) .. QLen \cup UNION {1 .. next[t] \ 1 .. (lo[t] - 1) : t \in Active},
    reports <- Len(delivered) + Cardinality({k \in DOMAIN idleQ : IsReport(idleQ[k])})

\* Every file is worked on once; the pool rests only after a report made when
\* no file was left (finish() of the last thread counts numThreads to zero), and
\* by the pool's fairness every call comes to that rest: readHdr_1 is answered.
ImplementsPool == Pool!PoolSpec

\* thread_file.c:269: "all threads complete, return list to caller".
AllCompleteAtFinish ==
    (\E t \in Threads : pc[t] = "collect") => Live = {} /\ fileQ = QLen
=============================================================================
