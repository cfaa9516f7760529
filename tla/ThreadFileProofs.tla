-------------------------- MODULE ThreadFileProofs --------------------------
(***************************************************************************)
(* Proofs about the header-reading pool of ThreadFile, for any number of   *)
(* CPUs, any files and queues and any number of calls: the control types,  *)
(* that the chunks of a call cover its queue and are disjoint, and that    *)
(* numThreads is exact as long as calls do not overlap; then what the      *)
(* threads return, proved on top of this control invariant: types, side    *)
(* lists, the list handed to readHdr_finish, and that one call implements  *)
(* ReadPool.                                                               *)
(***************************************************************************)
EXTENDS ThreadFile, ListProofs

\* Files per thread for a queue of n files, as readFiles computes it.
PerThread(n) == n \div MaxThreads(n) + 1

\* maxThreads is that of the newest call; between calls and at the start of
\* one the loop index is within it.
CallInv ==
    /\ input # <<>> => maxThreads = MaxThreads(QLen)
    /\ input = <<>> => main = "loop" /\ fileQ = 0
    /\ main = "spawn" => i <= maxThreads

\* After i threads i * PerThread files were popped, or the queue is empty.
Popped ==
    /\ main = "zero" => fileQ = 0
    /\ main = "spawn" => /\ fileQ <= QLen
                         /\ fileQ = i * PerThread(QLen) \/ (fileQ = QLen /\ fileQ <= i * PerThread(QLen))

\* Threads the loop has not come to yet do not run.
NotStarted ==
    \A t \in Threads :
        \/ t[1] > call
        \/ t[1] = call /\ main \in {"alloc", "reset", "zero"}
        \/ t[1] = call /\ main = "spawn" /\ t[2] >= i
        => pc[t] = "none"

\* A call that does not overlap finds no thread alive.
QuietBefore == ~overlapped /\ main \in {"alloc", "reset", "zero"} => Live = {}

\* A started thread has the chunk of its number.
Chunks ==
    \A t \in Threads : pc[t] # "none" =>
        LET n == Len(input[t[1]]) IN
        /\ t[1] <= call
        /\ lo[t] = t[2] * PerThread(n) + 1
        /\ next[t] <= (t[2] + 1) * PerThread(n)
        /\ next[t] <= n

\* The inductive invariant.
IndInv ==
    /\ ControlTypeOK /\ CallInv /\ Popped /\ NotStarted /\ QuietBefore /\ Chunks
    /\ CounterExact /\ EveryFileHandedOut

-----------------------------------------------------------------------------
(* Facts about numbers and sets the steps below rest on.                   *)

\* A queue that is not empty gets at least one thread and at most MT_FACTOR
\* per CPU.
LEMMA MaxThreadsRange ==
    ASSUME NEW n \in Nat \ {0}
    PROVE  MaxThreads(n) \in 1 .. MT_FACTOR * NumCPUs
BY BoundsAssumption DEF MaxThreads, MT_FACTOR

\* The number of files per thread is a positive number.
LEMMA PerThreadType ==
    ASSUME NEW n \in Nat \ {0}
    PROVE  PerThread(n) \in Nat \ {0}
<1>1. MaxThreads(n) \in Nat \ {0}
  BY MaxThreadsRange, BoundsAssumption DEF MT_FACTOR
<1>2. n \div MaxThreads(n) \in Nat
  BY <1>1
<1> QED BY <1>2 DEF PerThread

\* m chunks of n \div m + 1 files hold more than n files: the spawning loop of
\* readFiles never runs out of threads before it runs out of files.
LEMMA ChunksCover ==
    ASSUME NEW n \in Nat, NEW m \in Nat \ {0}
    PROVE  m * (n \div m + 1) > n
<1> DEFINE d == n \div m
<1>1. d \in Nat /\ n < m * d + m
  BY Z3
<1>2. m * (d + 1) = m * d + m
  BY <1>1
<1> QED BY <1>1, <1>2

\* One more chunk of p files.
LEMMA NextChunk ==
    ASSUME NEW k \in Nat, NEW p \in Nat
    PROVE  /\ (k + 1) * p = k * p + p
           /\ k * p \in Nat
OBVIOUS

\* Chunks with smaller numbers end before those with larger ones begin.
LEMMA ChunksOrdered ==
    ASSUME NEW a \in Nat, NEW b \in Nat, NEW p \in Nat, a < b
    PROVE  (a + 1) * p <= b * p
<1> DEFINE c == b - (a + 1)
<1>1. c \in Nat /\ b = (a + 1) + c
  OBVIOUS
<1>2. b * p = (a + 1) * p + c * p
  BY <1>1
<1>3. c * p >= 0
  BY <1>1
<1>4. (a + 1) * p \in Nat /\ b * p \in Nat /\ c * p \in Nat
  BY <1>1
<1> QED BY <1>2, <1>3, <1>4

\* There are finitely many threads, so Live can be counted.
LEMMA LiveFinite == IsFiniteSet(Threads) /\ IsFiniteSet(Live)
<1>1. IsFiniteSet(1 .. MaxCalls)
  BY FS_Interval, BoundsAssumption
<1>2. IsFiniteSet(ThreadNums)
  BY FS_Interval, BoundsAssumption DEF ThreadNums, MT_FACTOR
<1>3. IsFiniteSet(Threads)
  BY <1>1, <1>2, FS_Product DEF Threads
<1> QED BY <1>3, FS_Subset DEF Live

\* The newest queue is not empty, and it has the length QLen.
LEMMA QueueType ==
    ASSUME ControlTypeOK
    PROVE  /\ call \in Nat
           /\ QLen \in Nat
           /\ input # <<>> => QLen \in Nat \ {0} /\ call >= 1 /\ QLen = Len(input[call])
           /\ \A c \in 1 .. call : Len(input[c]) \in Nat \ {0}
<1>1. \A c \in 1 .. Len(input) : input[c] \in Seq(Files) /\ input[c] # <<>>
  BY FilesAssumption DEF ControlTypeOK
<1>2. \A c \in 1 .. Len(input) : Len(input[c]) \in Nat \ {0}
  BY <1>1
<1>3. Len(input) \in Nat /\ (input # <<>> => Len(input) >= 1)
  BY DEF ControlTypeOK
<1> QED BY <1>2, <1>3 DEF call, QLen

-----------------------------------------------------------------------------
(* What a step of a thread may do to the control state.                    *)

\* Thread t moves on: it may take its next file, and it leaves Live exactly
\* when it counts numThreads down.
Moves(t) ==
    /\ UNCHANGED <<input, main, i, fileQ, maxThreads, lo, overlapped>>
    /\ early' \in BOOLEAN /\ overrun' \in BOOLEAN
    /\ pc[t] # "none"
    /\ \E x \in Places \ {"none"} : pc' = [pc EXCEPT ![t] = x]
    /\ next' = next \/ next' = [next EXCEPT ![t] = @ - 1]
    /\ \/ numThreads' = numThreads /\ (t \in Live' <=> t \in Live)
       \/ numThreads' = numThreads - 1 /\ t \in Live /\ t \notin Live'

\* Every step of a thread is such a move.
LEMMA WorkerMoves ==
    ASSUME ControlTypeOK, NEW t \in Threads, Worker(t)
    PROVE  Moves(t)
<1> USE DEF mainVars, workerVars, ghostVars, Moves, Live, Places
<1>t. pc \in [Threads -> Places] /\ next \in [Threads -> Int] /\ numThreads \in Int
      /\ early \in BOOLEAN /\ overrun \in BOOLEAN
  BY DEF ControlTypeOK
<1>1. CASE Start(t)
  BY <1>1, <1>t DEF Start
<1>2. CASE Identify(t)
  BY <1>2, <1>t DEF Identify, NextFile
<1>3. CASE LoadList(t)
  BY <1>3, <1>t DEF LoadList
<1>4. CASE LinkElement(t)
  BY <1>4, <1>t DEF LinkElement, NextFile
<1>5. CASE StoreList(t)
  BY <1>5, <1>t DEF StoreList
<1>6. CASE Finish(t)
  BY <1>6, <1>t DEF Finish
<1>7. CASE Collect(t)
  BY <1>7, <1>t DEF Collect
<1>8. CASE PostDone(t)
  BY <1>8, <1>t DEF PostDone
<1>9. CASE PostFinish(t)
  BY <1>9, <1>t DEF PostFinish
<1> QED BY <1>1, <1>2, <1>3, <1>4, <1>5, <1>6, <1>7, <1>8, <1>9 DEF Worker

\* Moves keep the invariant.
LEMMA MovesInv ==
    ASSUME IndInv, NEW t \in Threads, Moves(t)
    PROVE  IndInv'
<1> PICK x \in Places \ {"none"} : pc' = [pc EXCEPT ![t] = x]
  BY DEF Moves
<1>0. ControlTypeOK
  BY DEF IndInv
<1>1. ControlTypeOK'
  <2>1. numThreads' \in Int /\ next' \in [Threads -> Int] /\ pc' \in [Threads -> Places]
    BY DEF Moves, IndInv, ControlTypeOK
  <2> QED BY <2>1 DEF Moves, IndInv, ControlTypeOK, call
<1>2. call' = call /\ QLen' = QLen
  BY DEF Moves, call, QLen
<1>3. \A s \in Threads : (pc'[s] = "none") = (pc[s] = "none")
  BY <1>0 DEF ControlTypeOK, Moves
<1>4. CallInv' /\ Popped' /\ EveryFileHandedOut'
  BY <1>2 DEF IndInv, Moves, CallInv, Popped, EveryFileHandedOut
<1>5. NotStarted'
  BY <1>2, <1>3 DEF IndInv, Moves, NotStarted
<1>6. Chunks'
  <2>1. \A s \in Threads : next'[s] <= next[s] /\ next'[s] \in Int /\ next[s] \in Int
    BY <1>0 DEF Moves, ControlTypeOK
  <2> SUFFICES ASSUME NEW s \in Threads, pc[s] # "none"
               PROVE  LET n == Len(input[s[1]]) IN
                      /\ s[1] <= call
                      /\ lo[s] = s[2] * PerThread(n) + 1
                      /\ next'[s] <= (s[2] + 1) * PerThread(n)
                      /\ next'[s] <= n
    BY <1>2, <1>3 DEF Chunks, Moves
  <2> DEFINE n == Len(input[s[1]])
  <2>2. /\ s[1] <= call
        /\ lo[s] = s[2] * PerThread(n) + 1
        /\ next[s] <= (s[2] + 1) * PerThread(n)
        /\ next[s] <= n
    BY DEF IndInv, Chunks
  <2>3. s[1] \in 1 .. call /\ s[2] \in Nat
    BY <2>2, BoundsAssumption DEF Threads, ThreadNums, MT_FACTOR
  <2>4. n \in Nat \ {0}
    BY <2>3, <1>0, QueueType
  <2>5. PerThread(n) \in Nat \ {0}
    BY <2>4, PerThreadType
  <2>6. (s[2] + 1) * PerThread(n) \in Nat
    BY <2>3, <2>5
  <2> HIDE DEF n
  <2>7. next'[s] <= (s[2] + 1) * PerThread(n) /\ next'[s] <= n
    BY <2>1, <2>2, <2>4, <2>6
  <2> QED BY <2>2, <2>7 DEF n
<1>7. \A s \in Threads : s # t => pc'[s] = pc[s]
  BY <1>0 DEF ControlTypeOK
<1>8. Live' \subseteq Live /\ (t \in Live' \/ Live' = Live \ {t})
  BY <1>7 DEF Live, Moves
<1>9. QuietBefore'
  BY <1>8 DEF IndInv, QuietBefore, Moves
<1>10. CounterExact'
  <2>1. CASE numThreads' = numThreads /\ (t \in Live' <=> t \in Live)
    <3>1. Live' = Live
      BY <2>1, <1>7 DEF Live
    <3> QED BY <2>1, <3>1 DEF IndInv, CounterExact, Moves
  <2>2. CASE numThreads' = numThreads - 1 /\ t \in Live /\ t \notin Live'
    <3>1. Live' = Live \ {t}
      BY <2>2, <1>8
    <3>2. Cardinality(Live') = Cardinality(Live) - 1
      BY <3>1, <2>2, LiveFinite, FS_RemoveElement
    <3> QED BY <2>2, <3>2 DEF IndInv, CounterExact, Moves
  <2> QED BY <2>1, <2>2 DEF Moves
<1> QED BY <1>1, <1>4, <1>5, <1>6, <1>9, <1>10 DEF IndInv

-----------------------------------------------------------------------------
(* The steps of the main thread.                                           *)

\* A new call: its queue is not empty and no thread of it runs.
LEMMA ReadFilesInv ==
    ASSUME IndInv, ReadFiles
    PROVE  IndInv'
<1> PICK q \in Inputs : /\ input' = Append(input, q)
                        /\ maxThreads' = MaxThreads(Len(q))
  BY DEF ReadFiles
<1>0. ControlTypeOK
  BY DEF IndInv
<1>q. q \in Seq(Files) /\ q # <<>> /\ Len(q) \in Nat \ {0}
  BY FilesAssumption
<1>u. /\ UNCHANGED <<i, fileQ, numThreads, pc, lo, next, overrun>>
      /\ main' = "alloc" /\ early' = FALSE /\ call < MaxCalls
  BY DEF ReadFiles, workerVars
<1>c. /\ call \in Nat /\ call' = call + 1 /\ input' \in Seq(Inputs) /\ input' # <<>>
      /\ input'[call'] = q
      /\ \A c \in 1 .. call : input'[c] = input[c]
  <2>1. input \in Seq(Inputs)
    BY <1>0 DEF ControlTypeOK
  <2>2. Len(input) \in Nat /\ input' \in Seq(Inputs) /\ Len(input') = Len(input) + 1
    BY <2>1
  <2>3. input'[Len(input) + 1] = q
    BY <2>1
  <2>4. \A c \in 1 .. Len(input) : input'[c] = input[c]
    BY <2>1
  <2> QED BY <2>2, <2>3, <2>4 DEF call
<1>n. QLen' = Len(q)
  BY <1>c DEF QLen
<1>1. ControlTypeOK'
  <2>1. maxThreads' \in 0 .. MT_FACTOR * NumCPUs
    BY <1>q, MaxThreadsRange, BoundsAssumption DEF MT_FACTOR
  <2>2. overlapped' \in BOOLEAN
    BY <1>0 DEF ReadFiles, ControlTypeOK
  <2>3. call' <= MaxCalls
    BY <1>u, <1>c, BoundsAssumption
  <2> QED BY <1>0, <1>u, <1>c, <2>1, <2>2, <2>3 DEF ControlTypeOK
<1>2. CallInv'
  BY <1>u, <1>c, <1>n DEF CallInv
<1>3. Popped' /\ EveryFileHandedOut'
  BY <1>u DEF Popped, EveryFileHandedOut
<1>4. NotStarted'
  <2>1. \A t \in Threads : t[1] > call => pc[t] = "none"
    BY DEF IndInv, NotStarted
  <2>2. \A t \in Threads : t[1] >= call' => t[1] > call
    BY <1>c, BoundsAssumption DEF Threads
  <2> QED BY <1>u, <1>c, <2>1, <2>2, BoundsAssumption DEF NotStarted, Threads
<1>5. \A t \in Threads : pc[t] # "none" => t[1] \in 1 .. call
  BY <1>c, BoundsAssumption DEF IndInv, Chunks, Threads
<1>6. Chunks'
  <2> SUFFICES ASSUME NEW t \in Threads, pc[t] # "none"
               PROVE  LET n == Len(input'[t[1]]) IN
                      /\ t[1] <= call'
                      /\ lo[t] = t[2] * PerThread(n) + 1
                      /\ next[t] <= (t[2] + 1) * PerThread(n)
                      /\ next[t] <= n
    BY <1>u DEF Chunks
  <2>1. t[1] \in 1 .. call /\ input'[t[1]] = input[t[1]]
    BY <1>5, <1>c
  <2> QED BY <2>1, <1>c DEF IndInv, Chunks
<1>7. Live' = Live
  BY <1>u DEF Live
<1>8. QuietBefore'
  <2>1. ~overlapped' => \A t \in Threads : pc[t] \in {"none", "exit"}
    BY DEF ReadFiles
  <2> QED BY <2>1, <1>7 DEF QuietBefore, Live
<1>9. CounterExact'
  BY <1>7, <1>u DEF IndInv, CounterExact, ReadFiles
<1> QED BY <1>1, <1>2, <1>3, <1>4, <1>6, <1>8, <1>9 DEF IndInv

\* Steps of the main thread that neither start a thread nor open a queue: no
\* thread moves, and the counter is reset only when nothing is alive.
LEMMA PrepareInv ==
    ASSUME IndInv, AllocSlots \/ ResetList \/ ZeroCounter
    PROVE  IndInv'
<1> USE DEF workerVars, ghostVars
<1>0. ControlTypeOK
  BY DEF IndInv
<1>u. UNCHANGED <<input, maxThreads, pc, lo, next, early, overlapped, overrun>>
  BY DEF AllocSlots, ResetList, ZeroCounter
<1>c. call' = call /\ QLen' = QLen /\ Live' = Live
  BY <1>u DEF call, QLen, Live
<1>q. input # <<>> /\ QLen \in Nat \ {0} /\ maxThreads = MaxThreads(QLen)
  BY <1>0, QueueType DEF IndInv, CallInv, AllocSlots, ResetList, ZeroCounter
<1>p. PerThread(QLen) \in Nat \ {0} /\ maxThreads >= 1
  BY <1>q, PerThreadType, MaxThreadsRange, BoundsAssumption DEF MT_FACTOR
<1>1. CASE AllocSlots
  <2>u. /\ UNCHANGED <<i, fileQ, numThreads>> /\ main = "alloc"
        /\ main' = "reset" \/ (main' = "loop" /\ AllocMayFail)
    BY <1>1 DEF AllocSlots
  <2>1. ControlTypeOK'
    BY <1>0, <1>u, <1>c, <2>u DEF ControlTypeOK
  <2>2. CallInv' /\ Popped' /\ EveryFileHandedOut' /\ NotStarted'
    BY <1>u, <1>c, <2>u DEF IndInv, CallInv, Popped, EveryFileHandedOut, NotStarted
  <2>3. QuietBefore' /\ CounterExact' /\ Chunks'
    BY <1>u, <1>c, <2>u DEF IndInv, QuietBefore, CounterExact, Chunks
  <2> QED BY <2>1, <2>2, <2>3 DEF IndInv
<1>2. CASE ResetList
  <2>u. UNCHANGED <<i, numThreads>> /\ main = "reset" /\ main' = "zero" /\ fileQ' = 0
    BY <1>2 DEF ResetList
  <2>1. ControlTypeOK'
    BY <1>0, <1>u, <1>c, <2>u DEF ControlTypeOK
  <2>2. CallInv' /\ Popped' /\ EveryFileHandedOut' /\ NotStarted'
    BY <1>u, <1>c, <1>q, <2>u DEF IndInv, CallInv, Popped, EveryFileHandedOut, NotStarted
  <2>3. QuietBefore' /\ CounterExact' /\ Chunks'
    BY <1>u, <1>c, <2>u DEF IndInv, QuietBefore, CounterExact, Chunks
  <2> QED BY <2>1, <2>2, <2>3 DEF IndInv
<1>3. CASE ZeroCounter
  <2>u. /\ main = "zero" /\ main' = "spawn" /\ i' = 0 /\ numThreads' = 0
        /\ fileQ' = fileQ /\ fileQ = 0
    BY <1>3 DEF ZeroCounter, IndInv, Popped
  <2>1. ControlTypeOK'
    BY <1>0, <1>u, <1>c, <2>u, BoundsAssumption DEF ControlTypeOK, MT_FACTOR
  <2>2. CallInv'
    BY <1>u, <1>c, <1>q, <1>p, <1>0, <2>u DEF CallInv, IndInv, ControlTypeOK
  <2>3. Popped' /\ EveryFileHandedOut'
    <3>1. 0 * PerThread(QLen) = 0
      BY <1>p
    <3> QED BY <1>u, <1>c, <1>q, <2>u, <3>1 DEF Popped, EveryFileHandedOut
  <2>4. NotStarted' /\ Chunks' /\ QuietBefore'
    BY <1>u, <1>c, <2>u DEF IndInv, NotStarted, Chunks, QuietBefore
  <2>5. CounterExact'
    BY <1>u, <1>c, <2>u, FS_EmptySet DEF IndInv, QuietBefore, CounterExact
  <2> QED BY <2>1, <2>2, <2>3, <2>4, <2>5 DEF IndInv
<1> QED BY <1>1, <1>2, <1>3

\* One turn of the spawning loop: the next chunk and, unless its arguments
\* cannot be allocated, a thread for it.
LEMMA SpawnInv ==
    ASSUME IndInv, Spawn
    PROVE  IndInv'
<1> DEFINE t == <<call, i>>
           P == PerThread(QLen)
<1> USE DEF ghostVars
<1>0. ControlTypeOK
  BY DEF IndInv
<1>u. /\ UNCHANGED <<input, maxThreads, early, overlapped, overrun>>
      /\ main = "spawn" /\ i < maxThreads /\ fileQ < QLen
  BY DEF Spawn
<1>c. call' = call /\ QLen' = QLen
  BY <1>u DEF call, QLen
<1>q. input # <<>> /\ QLen \in Nat \ {0} /\ maxThreads = MaxThreads(QLen)
      /\ call >= 1 /\ call \in Nat /\ QLen = Len(input[call])
  BY <1>0, <1>u, QueueType DEF IndInv, CallInv
<1>p. P \in Nat \ {0} /\ numFilesPThread = P
  BY <1>q, PerThreadType DEF numFilesPThread, PerThread
<1>n. i \in Nat /\ maxThreads \in Nat /\ fileQ \in Nat /\ numThreads \in Int
  BY <1>0, BoundsAssumption DEF ControlTypeOK, MT_FACTOR
<1>t. t \in Threads /\ t[1] = call /\ t[2] = i
  BY <1>0, <1>u, <1>q, <1>n, BoundsAssumption DEF ControlTypeOK, Threads, ThreadNums, MT_FACTOR
<1>f. fileQ = i * P
  BY <1>u, <1>q, <1>n DEF IndInv, Popped
<1>s. (i + 1) * P = i * P + P /\ i * P \in Nat
  BY <1>n, <1>p, NextChunk
<1>o. pc[t] = "none"
  BY <1>u, <1>t, <1>n DEF IndInv, NotStarted
<1> HIDE DEF P, t
<1>g. /\ fileQ' = PoppedAfter(P) /\ PoppedAfter(P) \in Nat
      /\ fileQ' <= QLen /\ fileQ' <= (i + 1) * P
      /\ fileQ' = (i + 1) * P \/ fileQ' = QLen
  BY <1>p, <1>n, <1>f, <1>s, <1>q DEF Spawn, PoppedAfter
<1>1. CASE /\ numThreads' = numThreads + 1
           /\ pc' = [pc EXCEPT ![t] = "start"]
           /\ lo' = [lo EXCEPT ![t] = fileQ + 1]
           /\ next' = [next EXCEPT ![t] = PoppedAfter(P)]
           /\ i' = i + 1
           /\ main' = main
  <2>1. ControlTypeOK'
    <3>1. pc' \in [Threads -> Places]
      BY <1>0, <1>1 DEF ControlTypeOK, Places
    <3>2. lo' \in [Threads -> Nat] /\ next' \in [Threads -> Int]
      <4>1. lo \in [Threads -> Nat] /\ next \in [Threads -> Int]
        BY <1>0 DEF ControlTypeOK
      <4>2. fileQ + 1 \in Nat /\ PoppedAfter(P) \in Int
        BY <1>n, <1>g
      <4> QED BY <4>1, <4>2, <1>1
    <3>3. i' \in 0 .. MT_FACTOR * NumCPUs
      BY <1>0, <1>1, <1>u, <1>n, BoundsAssumption DEF ControlTypeOK, MT_FACTOR
    <3> QED BY <1>0, <1>1, <1>u, <1>c, <1>n, <1>g, <3>1, <3>2, <3>3 DEF ControlTypeOK
  <2>2. CallInv'
    BY <1>1, <1>u, <1>c, <1>n, <1>q DEF CallInv
  <2>3. Popped' /\ EveryFileHandedOut'
    BY <1>1, <1>u, <1>c, <1>g DEF Popped, EveryFileHandedOut, P
  <2>4. NotStarted'
    <3> SUFFICES ASSUME NEW s \in Threads,
                        s[1] > call \/ (s[1] = call /\ s[2] >= i + 1)
                 PROVE  pc'[s] = "none"
      BY <1>1, <1>u, <1>c DEF NotStarted
    <3>1. s[1] \in Nat /\ s[2] \in Nat
      BY BoundsAssumption DEF Threads, ThreadNums, MT_FACTOR
    <3>2. s # t
      BY <3>1, <1>t, <1>n, <1>q
    <3>3. pc[s] = "none"
      BY <3>1, <1>n, <1>u DEF IndInv, NotStarted
    <3> QED BY <1>0, <1>1, <3>2, <3>3 DEF ControlTypeOK
  <2>5. QuietBefore'
    BY <1>1, <1>u DEF QuietBefore
  <2>6. Chunks'
    <3> SUFFICES ASSUME NEW s \in Threads, pc'[s] # "none"
                 PROVE  LET n == Len(input[s[1]]) IN
                        /\ s[1] <= call
                        /\ lo'[s] = s[2] * PerThread(n) + 1
                        /\ next'[s] <= (s[2] + 1) * PerThread(n)
                        /\ next'[s] <= n
      BY <1>u, <1>c DEF Chunks
    <3>1. CASE s = t
      <4>1. lo'[t] = i * P + 1 /\ next'[t] <= (i + 1) * P /\ next'[t] <= QLen
        BY <1>0, <1>1, <1>f, <1>g, <1>t DEF ControlTypeOK
      <4> QED BY <3>1, <4>1, <1>t, <1>q DEF P
    <3>2. CASE s # t
      <4>1. pc'[s] = pc[s] /\ lo'[s] = lo[s] /\ next'[s] = next[s]
        BY <1>0, <1>1, <3>2 DEF ControlTypeOK
      <4> QED BY <4>1 DEF IndInv, Chunks
    <3> QED BY <3>1, <3>2
  <2>7. CounterExact'
    <3>1. t \notin Live /\ Live' = Live \cup {t}
      BY <1>0, <1>1, <1>o, <1>t DEF Live, ControlTypeOK
    <3>2. Cardinality(Live') = Cardinality(Live) + 1
      BY <3>1, LiveFinite, FS_AddElement
    <3> QED BY <1>1, <1>u, <3>2 DEF IndInv, CounterExact
  <2> QED BY <2>1, <2>2, <2>3, <2>4, <2>5, <2>6, <2>7 DEF IndInv
<1>2. CASE AllocMayFail /\ main' = "loop" /\ UNCHANGED <<numThreads, pc, lo, next, i>>
  <2>1. ControlTypeOK'
    BY <1>0, <1>2, <1>u, <1>c, <1>g DEF ControlTypeOK
  <2>2. CallInv' /\ Popped' /\ EveryFileHandedOut' /\ NotStarted'
    BY <1>2, <1>u, <1>c, <1>q DEF IndInv, CallInv, Popped, EveryFileHandedOut, NotStarted
  <2>3. QuietBefore' /\ Chunks'
    BY <1>2, <1>u, <1>c DEF IndInv, QuietBefore, Chunks
  <2>4. CounterExact'
    BY <1>2, <1>u DEF IndInv, CounterExact, Live
  <2> QED BY <2>1, <2>2, <2>3, <2>4 DEF IndInv
<1> QED BY <1>1, <1>2, <1>p DEF Spawn, t

\* The loop ends: every thread was used, or the queue is empty; both ways
\* the whole queue was handed out.
LEMMA SpawnEndInv ==
    ASSUME IndInv, SpawnEnd
    PROVE  IndInv'
<1> USE DEF ghostVars, workerVars
<1>0. ControlTypeOK
  BY DEF IndInv
<1>u. /\ UNCHANGED <<input, i, fileQ, maxThreads, numThreads, pc, lo, next,
                     early, overlapped, overrun>>
      /\ main = "spawn" /\ main' = "loop" /\ (i >= maxThreads \/ fileQ = QLen)
  BY DEF SpawnEnd
<1>c. call' = call /\ QLen' = QLen /\ Live' = Live
  BY <1>u DEF call, QLen, Live
<1>q. input # <<>> /\ QLen \in Nat \ {0} /\ maxThreads = MaxThreads(QLen)
  BY <1>0, <1>u, QueueType DEF IndInv, CallInv
<1>m. maxThreads \in Nat \ {0} /\ i \in Nat /\ fileQ \in Nat
  BY <1>0, <1>q, MaxThreadsRange, BoundsAssumption DEF ControlTypeOK, MT_FACTOR
<1>1. fileQ = QLen
  <2>1. CASE i >= maxThreads
    <3>1. i = maxThreads
      BY <2>1, <1>u, <1>m DEF IndInv, CallInv
    <3>2. i * PerThread(QLen) > QLen
      BY <3>1, <1>q, <1>m, ChunksCover DEF PerThread
    <3>3. i * PerThread(QLen) \in Nat
      BY <1>m, <1>q, PerThreadType, NextChunk
    <3> QED BY <3>2, <3>3, <1>q, <1>m, <1>u DEF IndInv, Popped
  <2> QED BY <2>1, <1>u
<1>2. ControlTypeOK'
  BY <1>0, <1>u, <1>c DEF ControlTypeOK
<1>3. CallInv' /\ Popped' /\ EveryFileHandedOut' /\ NotStarted'
  BY <1>1, <1>u, <1>c, <1>q DEF IndInv, CallInv, Popped, EveryFileHandedOut, NotStarted
<1>4. QuietBefore' /\ Chunks' /\ CounterExact'
  BY <1>u, <1>c DEF IndInv, QuietBefore, Chunks, CounterExact
<1> QED BY <1>2, <1>3, <1>4 DEF IndInv

-----------------------------------------------------------------------------
(* The theorems.                                                           *)

LEMMA InitInv == Init => IndInv
<1> SUFFICES ASSUME Init PROVE IndInv
  OBVIOUS
<1>1. call = 0 /\ QLen = 0
  BY DEF Init, call, QLen
<1>2. ControlTypeOK
  <2>1. <<>> \in Seq(Inputs)
    OBVIOUS
  <2>2. call <= MaxCalls /\ 0 \in 0 .. MT_FACTOR * NumCPUs
    BY <1>1, BoundsAssumption DEF MT_FACTOR
  <2>3. /\ pc \in [Threads -> Places]
        /\ lo \in [Threads -> Nat] /\ next \in [Threads -> Int]
    BY DEF Init, Places
  <2>4. early \in BOOLEAN /\ overlapped \in BOOLEAN /\ overrun \in BOOLEAN
    BY DEF Init
  <2>5. /\ input \in Seq(Inputs) /\ main \in {"loop", "alloc", "reset", "zero", "spawn"}
        /\ i \in 0 .. MT_FACTOR * NumCPUs /\ maxThreads \in 0 .. MT_FACTOR * NumCPUs
        /\ fileQ \in Nat /\ numThreads \in Int
    BY <2>1, <2>2 DEF Init
  <2> QED BY <2>2, <2>3, <2>4, <2>5 DEF ControlTypeOK
<1>3. Live = {}
  BY DEF Init, Live
<1>4. CallInv /\ Popped /\ EveryFileHandedOut /\ QuietBefore
  BY <1>1 DEF Init, CallInv, Popped, EveryFileHandedOut, QuietBefore
<1>5. NotStarted /\ Chunks
  BY DEF Init, NotStarted, Chunks
<1>6. CounterExact
  BY <1>3, FS_EmptySet DEF Init, CounterExact
<1> QED BY <1>2, <1>4, <1>5, <1>6 DEF IndInv

LEMMA NextInv == IndInv /\ [Next]_vars => IndInv'
<1> SUFFICES ASSUME IndInv, [Next]_vars PROVE IndInv'
  OBVIOUS
<1>1. CASE Main
  BY <1>1, ReadFilesInv, PrepareInv, SpawnInv, SpawnEndInv DEF Main
<1>2. CASE \E t \in Threads : Worker(t)
  BY <1>2, WorkerMoves, MovesInv DEF IndInv
<1>3. CASE Dispatch \/ Quiet \/ UNCHANGED vars
  <2>1. UNCHANGED <<input, main, i, fileQ, maxThreads, numThreads, pc, lo, next,
                    early, overlapped, overrun>>
    BY <1>3 DEF Dispatch, Quiet, vars, mainVars, workerVars, ghostVars
  <2> QED BY <2>1 DEF IndInv, ControlTypeOK, CallInv, Popped, NotStarted, QuietBefore,
                      Chunks, CounterExact, EveryFileHandedOut, call, QLen, Live
<1> QED BY <1>1, <1>2, <1>3 DEF Next

\* The invariant holds in every reachable state.
THEOREM Invariance == Spec => []IndInv
BY InitInv, NextInv, PTL DEF Spec

\* Every counter and place of the pool keeps its type: readFiles never sets up
\* more than MT_FACTOR threads per CPU, and its loop never counts past them.
THEOREM ControlTypes == Spec => []ControlTypeOK
<1>1. IndInv => ControlTypeOK
  BY DEF IndInv
<1> QED BY <1>1, Invariance, PTL

\* numThreads of thread_file.c is exact while calls of readFiles do not overlap.
THEOREM CounterIsExact == Spec => []CounterExact
<1>1. IndInv => CounterExact
  BY DEF IndInv
<1> QED BY <1>1, Invariance, PTL

\* readFiles hands out its whole queue, whatever its length and the number of
\* CPUs, if every allocation succeeds.
THEOREM QueueIsHandedOut == Spec => []EveryFileHandedOut
<1>1. IndInv => EveryFileHandedOut
  BY DEF IndInv
<1> QED BY <1>1, Invariance, PTL

\* Chunks do not meet: OneReader follows from the inductive invariant.
LEMMA ChunksDisjoint == ASSUME IndInv PROVE OneReader
<1> SUFFICES ASSUME NEW s \in Threads, NEW t \in Threads, pc[s] # "none", pc[t] # "none"
             PROVE  /\ next[t] <= Len(input[t[1]])
                    /\ s[1] = t[1] /\ s[2] < t[2] => next[s] < lo[t]
  BY DEF OneReader
<1>0. ControlTypeOK
  BY DEF IndInv
<1>1. next[t] <= Len(input[t[1]])
  BY DEF IndInv, Chunks
<1>2. ASSUME s[1] = t[1], s[2] < t[2]
      PROVE  next[s] < lo[t]
  <2> DEFINE p == PerThread(Len(input[t[1]]))
  <2>1. s[2] \in Nat /\ t[2] \in Nat /\ t[1] \in 1 .. MaxCalls
    BY BoundsAssumption DEF Threads, ThreadNums, MT_FACTOR
  <2>2. next[s] <= (s[2] + 1) * p /\ lo[t] = t[2] * p + 1 /\ t[1] <= call
    BY <1>2 DEF IndInv, Chunks
  <2>3. p \in Nat \ {0}
    BY SMTT(30), <1>0, <2>1, <2>2, QueueType, PerThreadType, BoundsAssumption
  <2>4. next[s] \in Int
    BY <1>0 DEF ControlTypeOK
  <2> HIDE DEF p
  <2>5. (s[2] + 1) * p <= t[2] * p
    BY <1>2, <2>1, <2>3, ChunksOrdered
  <2>6. (s[2] + 1) * p \in Nat /\ t[2] * p \in Nat
    BY <2>1, <2>3
  <2> QED BY <2>2, <2>4, <2>5, <2>6
<1> QED BY <1>1, <1>2

\* Two threads of a call never have the same file, and none is at a file past
\* the end of its queue.
THEOREM ReadersAreDisjoint == Spec => []OneReader
<1>1. IndInv => OneReader
  BY ChunksDisjoint
<1> QED BY <1>1, Invariance, PTL

-----------------------------------------------------------------------------
(* The slots of threadTraces.                                              *)

\* Until calls overlap: no thread is left when maxThreads changes, and from the
\* allocation on an array that exists has a slot for each of maxThreads threads.
SlotsInv ==
    ~overlapped =>
        /\ ~overrun
        /\ main = "alloc" => \A t \in Threads : pc[t] \in {"none", "exit"}
        /\ main # "alloc" /\ threadTraces # NoArray => DOMAIN threadTraces = 0 .. maxThreads - 1

\* A thread that runs belongs to a call, which set maxThreads to one or more.
LEMMA SomeSlot ==
    ASSUME IndInv, NEW t \in Threads, pc[t] # "none"
    PROVE  maxThreads \in Nat \ {0} /\ t[2] \in Nat
<1>1. t[1] <= call /\ t[1] \in 1 .. MaxCalls /\ t[2] \in Nat
  BY BoundsAssumption DEF IndInv, Chunks, Threads, ThreadNums, MT_FACTOR
<1>2. input # <<>>
  BY <1>1, BoundsAssumption DEF call
<1>3. QLen \in Nat \ {0} /\ maxThreads = MaxThreads(QLen)
  BY <1>2, QueueType DEF IndInv, CallInv
<1> QED BY <1>1, <1>3, MaxThreadsRange, BoundsAssumption DEF MT_FACTOR

\* Steps of the main thread keep the array and maxThreads in step.
LEMMA MainSlots ==
    ASSUME IndInv, SlotsInv, Main
    PROVE  SlotsInv'
<1> USE DEF SlotsInv, mainVars, workerVars, ghostVars
<1>1. CASE ReadFiles
  BY <1>1 DEF ReadFiles
<1>2. CASE AllocSlots
  BY <1>2 DEF AllocSlots
<1>3. CASE ResetList
  BY <1>3 DEF ResetList
<1>4. CASE ZeroCounter
  BY <1>4 DEF ZeroCounter
<1>5. CASE Spawn
  BY <1>5 DEF Spawn
<1>6. CASE SpawnEnd
  BY <1>6 DEF SpawnEnd
<1> QED BY <1>1, <1>2, <1>3, <1>4, <1>5, <1>6 DEF Main

\* So do the steps of a thread, which writes its slot or joins them all.
LEMMA WorkerSlots ==
    ASSUME IndInv, SlotsInv, NEW t \in Threads, Worker(t)
    PROVE  SlotsInv'
<1>t. pc \in [Threads -> Places] /\ pc[t] \notin {"none", "exit"}
  BY DEF IndInv, ControlTypeOK, Worker, Start, Identify, LoadList, LinkElement,
         StoreList, Finish, Collect, PostDone, PostFinish
<1>0. maxThreads \in Nat \ {0} /\ t[2] \in Nat
  BY <1>t, SomeSlot
<1>1. UNCHANGED <<main, maxThreads, overlapped>>
  BY WorkerMoves DEF IndInv, Moves
<1> SUFFICES ASSUME ~overlapped
             PROVE  /\ ~overrun'
                    /\ threadTraces' # NoArray => DOMAIN threadTraces' = 0 .. maxThreads - 1
                    /\ main # "alloc"
  BY <1>1 DEF SlotsInv
<1>2. main # "alloc" /\ ~overrun
  BY <1>t DEF SlotsInv
<1>3. threadTraces # NoArray => DOMAIN threadTraces = 0 .. maxThreads - 1
  BY <1>2 DEF SlotsInv
<1>4. CASE StoreList(t)
  <2>1. t[2] < maxThreads => t[2] \in 0 .. maxThreads - 1
    BY <1>0
  <2>2. ~overrun'
    BY <1>2, <1>3, <1>4, <2>1 DEF StoreList
  <2>3. DOMAIN threadTraces' = DOMAIN threadTraces
    BY <1>4 DEF StoreList
  <2>4. threadTraces = NoArray => threadTraces' = NoArray
    BY <1>4 DEF StoreList
  <2> QED BY <1>2, <1>3, <2>2, <2>3, <2>4
<1>5. CASE Collect(t)
  <2>1. maxThreads - 1 \in 0 .. maxThreads - 1
    BY <1>0
  <2> QED BY <1>2, <1>3, <1>5, <2>1 DEF Collect
<1>6. CASE UNCHANGED <<threadTraces, overrun>>
  BY <1>2, <1>3, <1>6
<1> QED BY <1>4, <1>5, <1>6 DEF Worker, Start, Identify, LoadList, LinkElement,
         Finish, PostDone, PostFinish, ghostVars

\* No thread writes, and finish() joins, a slot that threadTraces does not have,
\* unless readFiles was called over a running call.
THEOREM SlotsExist == Spec => []NoOverrun
<1>1. Init => SlotsInv
  BY DEF Init, SlotsInv, NoArray
<1>2. IndInv /\ SlotsInv /\ [Next]_vars => SlotsInv'
  <2> SUFFICES ASSUME IndInv, SlotsInv, [Next]_vars PROVE SlotsInv'
    OBVIOUS
  <2>1. CASE Main
    BY <2>1, MainSlots
  <2>2. CASE \E t \in Threads : Worker(t)
    BY <2>2, WorkerSlots
  <2>3. CASE Dispatch \/ Quiet \/ UNCHANGED vars
    BY <2>3 DEF SlotsInv, Dispatch, Quiet, vars, mainVars, workerVars, ghostVars
  <2> QED BY <2>1, <2>2, <2>3 DEF Next
<1>3. SlotsInv => NoOverrun
  BY DEF SlotsInv, NoOverrun
<1> QED BY <1>1, <1>2, <1>3, Invariance, PTL DEF Spec

-----------------------------------------------------------------------------
(* Where a thread is in its chunk.                                         *)

AtSOH == {"soh", "sohLink"}
AtLog == {"log", "logLink"}

\* A thread that writes a side list is at a file of that kind; one that has
\* stored its list is through with its chunk.
AtFile ==
    \A t \in Threads :
        /\ pc[t] \in AtSOH => next[t] >= lo[t] /\ KindOf[FileName(t)] = "soh"
        /\ pc[t] \in AtLog => next[t] >= lo[t] /\ KindOf[FileName(t)] = "log"
        /\ pc[t] \in {"finish", "collect", "done", "post"} => next[t] < lo[t]

\* The parts of DataTypeOK.
SlotsType ==
    threadTraces = NoArray
    \/ \E n \in 0 .. MT_FACTOR * NumCPUs : threadTraces \in [0 .. n - 1 -> Seq(Traces)]
ListsType == traceList \in Seq(Traces) /\ threadList \in [Threads -> Seq(Traces)]
SideType ==
    snap \in [Threads -> SUBSET Traces] /\ instSOH \subseteq Traces /\ logs \subseteq Traces
LoopType ==
    idleQ \in Seq(Commands) /\ ttl \in Nat /\ drawn \in Nat /\ delivered \in Seq(Seq(Traces))

LEMMA DataTypeParts ==
    DataTypeOK <=> SlotsType /\ ListsType /\ SideType /\ LoopType /\ raced \in BOOLEAN
BY DEF DataTypeOK, SlotsType, ListsType, SideType, LoopType

\* A thread that runs works on files of its own call, which it numbers from 1.
LEMMA FileOf ==
    ASSUME IndInv, NEW t \in Threads, pc[t] # "none"
    PROVE  /\ t[1] \in 1 .. MaxCalls /\ t[1] \in 1 .. call
           /\ lo[t] \in Nat \ {0} /\ next[t] \in Int
           /\ next[t] >= lo[t] =>
                /\ <<t[1], next[t]>> \in Traces
                /\ next[t] \in 1 .. Len(input[t[1]])
                /\ FileName(t) \in Files /\ KindOf[FileName(t)] \in Kinds
<1>0. ControlTypeOK /\ Chunks
  BY DEF IndInv
<1>1. t[1] \in 1 .. MaxCalls /\ t[2] \in Nat
  BY BoundsAssumption DEF Threads, ThreadNums, MT_FACTOR
<1>2. call \in Nat /\ \A c \in 1 .. call : Len(input[c]) \in Nat \ {0}
  BY <1>0, QueueType
<1>3. /\ t[1] <= call
      /\ lo[t] = t[2] * PerThread(Len(input[t[1]])) + 1 /\ next[t] <= Len(input[t[1]])
  BY <1>0 DEF Chunks
<1>4. t[1] \in 1 .. call
  BY <1>1, <1>2, <1>3, BoundsAssumption
<1>5. PerThread(Len(input[t[1]])) \in Nat \ {0}
  BY <1>2, <1>4, PerThreadType
<1>6. t[2] * PerThread(Len(input[t[1]])) \in Nat
  BY <1>1, <1>5, NextChunk
<1>7. lo[t] \in Nat \ {0} /\ next[t] \in Int
  <2>1. lo[t] \in Nat \ {0}
    BY <1>3, <1>6
  <2> QED BY <2>1, <1>0 DEF ControlTypeOK
<1>8. ASSUME next[t] >= lo[t]
      PROVE  /\ <<t[1], next[t]>> \in Traces /\ next[t] \in 1 .. Len(input[t[1]])
             /\ FileName(t) \in Files /\ KindOf[FileName(t)] \in Kinds
  <2>1. next[t] \in 1 .. Len(input[t[1]])
    BY <1>2, <1>3, <1>4, <1>7, <1>8
  <2>2. input[t[1]] \in Seq(Files)
    <3>1. input \in Seq(Inputs)
      BY <1>0 DEF ControlTypeOK
    <3>2. input[t[1]] \in Inputs
      BY <3>1, <1>4 DEF call
    <3> QED BY <3>2, FilesAssumption
  <2>3. FileName(t) \in Files
    BY <2>1, <2>2 DEF FileName
  <2>4. <<t[1], next[t]>> \in Traces
    BY <1>1, <2>1, <1>2, <1>4 DEF Traces
  <2> QED BY <2>1, <2>3, <2>4, FilesAssumption
<1> QED BY <1>1, <1>4, <1>7, <1>8

\* A call that starts leaves the files of the calls before it.
LEMMA FileNameKept ==
    ASSUME IndInv, ReadFiles, NEW t \in Threads, pc[t] # "none", next[t] >= lo[t]
    PROVE  FileName(t)' = FileName(t)
<1>1. PICK q : input' = Append(input, q)
  BY DEF ReadFiles
<1>2. input \in Seq(Inputs) /\ next' = next
  BY DEF ReadFiles, workerVars, IndInv, ControlTypeOK
<1>3. t[1] \in 1 .. Len(input)
  BY FileOf DEF call
<1>4. input'[t[1]] = input[t[1]]
  BY <1>1, <1>2, <1>3
<1> QED BY <1>2, <1>4 DEF FileName

\* A step of thread t moves no other.
LEMMA OthersStay ==
    ASSUME IndInv, NEW t \in Threads, Worker(t), NEW s \in Threads, s # t
    PROVE  pc'[s] = pc[s] /\ next'[s] = next[s] /\ lo'[s] = lo[s] /\ input' = input
<1>1. Moves(t)
  BY WorkerMoves DEF IndInv
<1>2. pc \in [Threads -> Places] /\ next \in [Threads -> Int]
  BY DEF IndInv, ControlTypeOK
<1> QED BY <1>1, <1>2 DEF Moves

LEMMA AtFileInit == Init => AtFile
BY DEF Init, AtFile, AtSOH, AtLog

LEMMA WorkerAtFile ==
    ASSUME IndInv, AtFile, NEW t \in Threads, Worker(t)
    PROVE  AtFile'
<1>0. /\ pc \in [Threads -> Places] /\ next \in [Threads -> Int] /\ lo \in [Threads -> Nat]
      /\ lo' = lo /\ input' = input
  <2>1. Moves(t)
    BY WorkerMoves DEF IndInv
  <2> QED BY <2>1 DEF Moves, IndInv, ControlTypeOK
<1> SUFFICES ASSUME NEW s \in Threads
             PROVE  /\ pc'[s] \in AtSOH => next'[s] >= lo[s] /\ KindOf[FileName(s)'] = "soh"
                    /\ pc'[s] \in AtLog => next'[s] >= lo[s] /\ KindOf[FileName(s)'] = "log"
                    /\ pc'[s] \in {"finish", "collect", "done", "post"} => next'[s] < lo[s]
  BY <1>0 DEF AtFile
<1>1. CASE s # t
  <2>1. pc'[s] = pc[s] /\ next'[s] = next[s] /\ FileName(s)' = FileName(s)
    BY <1>0, <1>1, OthersStay DEF FileName
  <2> QED BY <2>1 DEF AtFile
<1>2. CASE s = t
  <2>1. CASE Start(t)
    BY <1>0, <1>2, <2>1 DEF Start, AtSOH, AtLog
  <2>2. CASE Identify(t)
    <3> DEFINE kind == KindOf[FileName(t)]
    <3>1. CASE kind = "log" \/ (kind = "soh" /\ ~HasSOH(FileName(t)))
      <4>1. pc'[t] = kind /\ next' = next /\ next[t] >= lo[t]
        BY <1>0, <2>2, <3>1 DEF Identify
      <4>2. FileName(t)' = FileName(t)
        BY <1>0, <4>1 DEF FileName
      <4> QED BY <1>2, <3>1, <4>1, <4>2 DEF AtSOH, AtLog
    <3>2. CASE ~(kind = "log" \/ (kind = "soh" /\ ~HasSOH(FileName(t))))
      <4>1. pc'[t] = "files"
        BY <1>0, <2>2, <3>2 DEF Identify, NextFile
      <4> QED BY <1>2, <4>1 DEF AtSOH, AtLog
    <3> QED BY <3>1, <3>2
  <2>3. CASE LoadList(t)
    <3>1. next' = next /\ \/ pc[t] = "soh" /\ pc'[t] = "sohLink"
                          \/ pc[t] = "log" /\ pc'[t] = "logLink"
      BY <1>0, <2>3 DEF LoadList
    <3>2. FileName(t)' = FileName(t)
      BY <1>0, <3>1 DEF FileName
    <3> QED BY <1>2, <3>1, <3>2 DEF AtFile, AtSOH, AtLog
  <2>4. CASE LinkElement(t)
    BY <1>0, <1>2, <2>4 DEF LinkElement, NextFile, AtSOH, AtLog
  <2>5. CASE StoreList(t)
    BY <1>0, <1>2, <2>5 DEF StoreList, AtSOH, AtLog
  <2>6. CASE Finish(t)
    BY <1>0, <1>2, <2>6 DEF Finish, AtFile, AtSOH, AtLog
  <2>7. CASE Collect(t)
    BY <1>0, <1>2, <2>7 DEF Collect, AtFile, AtSOH, AtLog
  <2>8. CASE PostDone(t)
    BY <1>0, <1>2, <2>8 DEF PostDone, AtFile, AtSOH, AtLog
  <2>9. CASE PostFinish(t)
    BY <1>0, <1>2, <2>9 DEF PostFinish, AtFile, AtSOH, AtLog
  <2> QED BY <2>1, <2>2, <2>3, <2>4, <2>5, <2>6, <2>7, <2>8, <2>9 DEF Worker
<1> QED BY <1>1, <1>2

LEMMA MainAtFile ==
    ASSUME IndInv, AtFile, Main
    PROVE  AtFile'
<1>1. CASE ReadFiles
  <2>1. UNCHANGED <<pc, lo, next>>
    BY <1>1 DEF ReadFiles, workerVars
  <2>2. ASSUME NEW t \in Threads, pc[t] # "none", next[t] >= lo[t]
        PROVE  FileName(t)' = FileName(t)
    BY <1>1, <2>2, FileNameKept
  <2> QED BY <2>1, <2>2 DEF AtFile, AtSOH, AtLog
<1>2. CASE AllocSlots \/ ResetList \/ ZeroCounter \/ SpawnEnd
  <2>1. UNCHANGED <<pc, lo, next, input>>
    BY <1>2 DEF AllocSlots, ResetList, ZeroCounter, SpawnEnd, workerVars
  <2> QED BY <2>1 DEF AtFile, FileName
<1>3. CASE Spawn
  <2> DEFINE t == <<call, i>>
  <2>1. input' = input /\ \/ UNCHANGED <<pc, lo, next>>
                          \/ \E x, y : /\ pc' = [pc EXCEPT ![t] = "start"]
                                       /\ lo' = [lo EXCEPT ![t] = x] /\ next' = [next EXCEPT ![t] = y]
    BY <1>3 DEF Spawn
  <2>2. CASE UNCHANGED <<pc, lo, next>>
    BY <2>1, <2>2 DEF AtFile, FileName
  <2>3. CASE \E x, y : /\ pc' = [pc EXCEPT ![t] = "start"]
                       /\ lo' = [lo EXCEPT ![t] = x] /\ next' = [next EXCEPT ![t] = y]
    <3>0. pc \in [Threads -> Places] /\ next \in [Threads -> Int] /\ lo \in [Threads -> Nat]
      BY DEF IndInv, ControlTypeOK
    <3>1. \A s \in Threads : s = t \/ (pc'[s] = pc[s] /\ lo'[s] = lo[s] /\ next'[s] = next[s])
      BY <2>3, <3>0
    <3>2. t \in Threads => pc'[t] = "start"
      BY <2>3, <3>0
    <3> HIDE DEF t
    <3> QED BY <2>1, <3>1, <3>2 DEF AtFile, FileName, AtSOH, AtLog
  <2> QED BY <2>1, <2>2, <2>3
<1> QED BY <1>1, <1>2, <1>3 DEF Main

LEMMA NextAtFile == IndInv /\ AtFile /\ [Next]_vars => AtFile'
<1> SUFFICES ASSUME IndInv, AtFile, [Next]_vars PROVE AtFile'
  OBVIOUS
<1>1. CASE Dispatch \/ Quiet \/ UNCHANGED vars
  <2>1. UNCHANGED <<pc, lo, next, input>>
    BY <1>1 DEF Dispatch, Quiet, vars, mainVars, workerVars
  <2> QED BY <2>1 DEF AtFile, FileName
<1> QED BY <1>1, MainAtFile, WorkerAtFile DEF Next

-----------------------------------------------------------------------------
(* JoinSlots.                                                              *)

\* What JoinSlots computes for the first k slots.
IsJoin(f, a, n) ==
    f = [k \in 0 .. n |-> IF k = 0 THEN <<>> ELSE f[k - 1] \o a[k - 1]]

LEMMA JoinExists ==
    ASSUME NEW a, NEW n \in Nat
    PROVE  \E f : IsJoin(f, a, n)
<1> DEFINE S == {m \in Nat : \E f : IsJoin(f, a, m)}
<1>1. 0 \in S
  <2>1. IsJoin([k \in 0 .. 0 |-> <<>>], a, 0)
    BY DEF IsJoin
  <2> QED BY <2>1
<1>2. ASSUME NEW m \in S PROVE m + 1 \in S
  <2>1. PICK f : IsJoin(f, a, m)
    OBVIOUS
  <2> DEFINE h == [k \in 0 .. m + 1 |-> IF k = m + 1 THEN f[m] \o a[m] ELSE f[k]]
  <2>2. ASSUME NEW k \in 0 .. m + 1
        PROVE  h[k] = IF k = 0 THEN <<>> ELSE h[k - 1] \o a[k - 1]
    <3>1. CASE k = m + 1
      <4>1. k # 0 /\ k - 1 = m /\ m \in 0 .. m + 1 /\ m # m + 1
        BY <3>1
      <4>2. h[k] = f[m] \o a[m] /\ h[m] = f[m]
        BY <3>1, <4>1
      <4> QED BY <4>1, <4>2
    <3>2. CASE k = 0
      BY <2>1, <3>2 DEF IsJoin
    <3>3. CASE k # m + 1 /\ k # 0
      <4>1. k \in 0 .. m /\ k - 1 \in 0 .. m
        BY <3>3
      <4>2. f[k] = f[k - 1] \o a[k - 1]
        BY <2>1, <3>3, <4>1 DEF IsJoin
      <4>3. h[k] = f[k] /\ h[k - 1] = f[k - 1]
        BY <3>3, <4>1
      <4> QED BY <4>2, <4>3, <3>3
    <3> QED BY <3>1, <3>2, <3>3
  <2>3. IsJoin(h, a, m + 1)
    BY <2>2 DEF IsJoin
  <2> QED BY <2>3
<1>3. S = Nat
  <2> HIDE DEF S
  <2>1. S \in SUBSET Nat
    BY DEF S
  <2> QED BY <1>1, <1>2, <2>1, SetInduction
<1> QED BY <1>3

\* JoinSlots appends slot after slot.
LEMMA JoinSteps ==
    ASSUME NEW a, NEW n \in Nat
    PROVE  \E f : /\ f[0] = <<>> /\ JoinSlots(a, n) = f[n]
                  /\ \A k \in 0 .. n - 1 : f[k + 1] = f[k] \o a[k]
<1> DEFINE join == CHOOSE f : IsJoin(f, a, n)
<1>1. JoinSlots(a, n) = join[n]
  BY DEF JoinSlots, IsJoin
<1>2. IsJoin(join, a, n)
  BY JoinExists
<1> HIDE DEF join
<1>3. join[0] = <<>>
  BY <1>2 DEF IsJoin
<1>4. ASSUME NEW k \in 0 .. n - 1 PROVE join[k + 1] = join[k] \o a[k]
  <2>1. k + 1 \in 0 .. n /\ k + 1 # 0 /\ (k + 1) - 1 = k
    OBVIOUS
  <2> QED BY <2>1, <1>2 DEF IsJoin
<1> QED BY <1>1, <1>3, <1>4

\* Lists of traces join to a list of traces.
LEMMA JoinType ==
    ASSUME NEW S, NEW a, NEW n \in Nat, \A k \in 0 .. n - 1 : a[k] \in Seq(S)
    PROVE  JoinSlots(a, n) \in Seq(S)
<1>1. PICK f : /\ f[0] = <<>> /\ JoinSlots(a, n) = f[n]
               /\ \A k \in 0 .. n - 1 : f[k + 1] = f[k] \o a[k]
  BY JoinSteps
<1> DEFINE Q == {m \in Nat : m <= n => f[m] \in Seq(S)}
<1>2. 0 \in Q
  <2>1. f[0] = <<>> /\ <<>> \in Seq(S)
    BY <1>1
  <2> QED BY <2>1
<1>3. ASSUME NEW m \in Q PROVE m + 1 \in Q
  <2> SUFFICES ASSUME m + 1 <= n PROVE f[m + 1] \in Seq(S)
    OBVIOUS
  <2>1. m \in 0 .. n - 1 /\ f[m] \in Seq(S)
    OBVIOUS
  <2>2. f[m + 1] = f[m] \o a[m] /\ a[m] \in Seq(S)
    BY <2>1, <1>1
  <2> QED BY <2>1, <2>2
<1> HIDE DEF Q
<1>4. Q = Nat
  <2>1. Q \in SUBSET Nat
    BY DEF Q
  <2> QED BY <1>2, <1>3, <2>1, SetInduction
<1> QED BY <1>1, <1>4 DEF Q

-----------------------------------------------------------------------------
(* Types of the data.                                                      *)

LEMMA CommandTypes ==
    /\ [cmd |-> "PBARINIT"] \in Commands /\ [cmd |-> "PBARUPD"] \in Commands
    /\ [cmd |-> "PBARDONE"] \in Commands
    /\ \A l \in Seq(Traces) : [cmd |-> "readHdr_finish", list |-> l] \in Commands
    /\ \A c \in Commands : c.cmd = "readHdr_finish" => c.list \in Seq(Traces)
BY DEF Commands

LEMMA WorkerTypes ==
    ASSUME IndInv, AtFile, DataTypeOK, NEW t \in Threads, Worker(t)
    PROVE  SlotsType' /\ ListsType' /\ SideType' /\ LoopType'
<1>0. /\ SlotsType /\ ListsType /\ SideType /\ LoopType /\ pc \in [Threads -> Places]
  BY DataTypeParts DEF IndInv, ControlTypeOK
<1>k. ASSUME UNCHANGED threadTraces PROVE SlotsType'
  BY <1>0, <1>k DEF SlotsType
<1>l. ASSUME UNCHANGED <<traceList, threadList>> PROVE ListsType'
  BY <1>0, <1>l DEF ListsType
<1>s. ASSUME UNCHANGED <<snap, instSOH, logs>> PROVE SideType'
  BY <1>0, <1>s DEF SideType
<1>b. ASSUME UNCHANGED <<ttl, drawn, delivered>>,
             idleQ' = idleQ \/ \E c \in Commands : idleQ' = Append(idleQ, c)
      PROVE  LoopType'
  BY SMTT(30), <1>0, <1>b DEF LoopType
<1>e. ASSUME pc[t] # "none", next[t] >= lo[t] PROVE <<t[1], next[t]>> \in Traces
  BY <1>e, FileOf
<1>1. CASE Start(t)
  BY <1>1, <1>k, <1>l, <1>s, <1>b DEF Start, sideLists, barVars
<1>2. CASE Identify(t)
  <2>1. UNCHANGED <<threadTraces, snap, instSOH, logs, ttl, drawn, delivered, traceList>>
    BY <1>2 DEF Identify, sideLists, barVars
  <2>2. ListsType'
    <3>1. <<t[1], next[t]>> \in Traces
      BY <1>2, <1>e DEF Identify
    <3>2. \/ threadList' = threadList
          \/ threadList' = [threadList EXCEPT ![t] = Append(@, <<t[1], next[t]>>)]
      BY <1>2 DEF Identify
    <3>3. traceList' \in Seq(Traces) /\ threadList \in [Threads -> Seq(Traces)]
      BY <1>0, <2>1 DEF ListsType
    <3>4. Append(threadList[t], <<t[1], next[t]>>) \in Seq(Traces)
      <4>1. threadList[t] \in Seq(Traces)
        BY <3>3
      <4> QED BY <4>1, <3>1
    <3>5. threadList' \in [Threads -> Seq(Traces)]
      BY <3>2, <3>3, <3>4
    <3> QED BY <3>3, <3>5 DEF ListsType
  <2>3. idleQ' = idleQ \/ idleQ' = Append(idleQ, [cmd |-> "PBARUPD"])
    BY <1>2 DEF Identify, NextFile, Post
  <2> QED BY <2>1, <2>2, <2>3, <1>k, <1>s, <1>b, CommandTypes
<1>3. CASE LoadList(t)
  <2>1. UNCHANGED <<threadTraces, traceList, threadList, instSOH, logs, idleQ, ttl, drawn, delivered>>
    BY <1>3 DEF LoadList, sideLists, barVars
  <2>2. SideType'
    BY <1>0, <1>3, <2>1 DEF LoadList, SideType
  <2> QED BY <2>1, <2>2, <1>k, <1>l, <1>b
<1>4. CASE LinkElement(t)
  <2>1. UNCHANGED <<threadTraces, traceList, threadList, ttl, drawn, delivered>>
    BY <1>4 DEF LinkElement, barVars
  <2>2. <<t[1], next[t]>> \in Traces
    <3>1. pc[t] \in {"sohLink", "logLink"}
      BY <1>4 DEF LinkElement
    <3>2. next[t] >= lo[t]
      BY <3>1 DEF AtFile, AtSOH, AtLog
    <3> QED BY <3>1, <3>2, <1>e
  <2>3. SideType'
    <3>1. snap' = [snap EXCEPT ![t] = {}]
      BY <1>4 DEF LinkElement
    <3>2. \/ instSOH' \in Linked(t, instSOH) /\ logs' = logs
          \/ logs' \in Linked(t, logs) /\ instSOH' = instSOH
      BY <1>4 DEF LinkElement
    <3>3. snap[t] \subseteq Traces /\ instSOH \subseteq Traces /\ logs \subseteq Traces
      BY <1>0 DEF SideType
    <3>4. instSOH' \subseteq Traces /\ logs' \subseteq Traces
      BY <2>2, <3>2, <3>3 DEF Linked
    <3> QED BY <1>0, <3>1, <3>4 DEF SideType
  <2>4. idleQ' = Append(idleQ, [cmd |-> "PBARUPD"])
    BY <1>4 DEF LinkElement, NextFile, Post
  <2> QED BY <2>1, <2>3, <2>4, <1>k, <1>l, <1>b, CommandTypes
<1>5. CASE StoreList(t)
  <2>1. UNCHANGED <<traceList, threadList, snap, instSOH, logs, idleQ, ttl, drawn, delivered>>
    BY <1>5 DEF StoreList, sideLists, barVars
  <2>2. SlotsType'
    <3>1. CASE UNCHANGED threadTraces
      BY <3>1, <1>k
    <3>2. CASE threadTraces # NoArray /\ threadTraces' = [threadTraces EXCEPT ![t[2]] = threadList[t]]
      <4>1. PICK n \in 0 .. MT_FACTOR * NumCPUs : threadTraces \in [0 .. n - 1 -> Seq(Traces)]
        BY <1>0, <3>2 DEF SlotsType
      <4>2. threadList[t] \in Seq(Traces)
        BY <1>0 DEF ListsType
      <4>3. threadTraces' \in [0 .. n - 1 -> Seq(Traces)]
        BY <3>2, <4>1, <4>2
      <4> QED BY <4>3 DEF SlotsType
    <3> QED BY <1>5, <3>1, <3>2 DEF StoreList
  <2> QED BY <2>1, <2>2, <1>l, <1>s, <1>b
<1>6. CASE Finish(t)
  BY <1>6, <1>k, <1>l, <1>s, <1>b DEF Finish, sideLists, barVars
<1>7. CASE Collect(t)
  <2>1. UNCHANGED <<threadList, snap, instSOH, logs, idleQ, ttl, drawn, delivered>>
    BY <1>7 DEF Collect, sideLists, barVars
  <2>2. CASE threadTraces = NoArray
    <3>1. UNCHANGED <<traceList, threadTraces>>
      BY <1>7, <2>2 DEF Collect
    <3> QED BY <2>1, <3>1, <1>k, <1>l, <1>s, <1>b
  <2>3. CASE threadTraces # NoArray
    <3>1. /\ traceList' = traceList \o JoinSlots(threadTraces, Cardinality(SlotsRead))
          /\ threadTraces' = NoArray
      BY <1>7, <2>3 DEF Collect
    <3>2. PICK n \in 0 .. MT_FACTOR * NumCPUs : threadTraces \in [0 .. n - 1 -> Seq(Traces)]
      BY <1>0, <2>3 DEF SlotsType
    <3>3. maxThreads \in Nat /\ n \in Nat
      BY BoundsAssumption DEF IndInv, ControlTypeOK, MT_FACTOR
    <3> DEFINE m == IF n < maxThreads THEN n ELSE maxThreads
    <3>4. m \in Nat /\ m <= n /\ SlotsRead = 0 .. m - 1
      BY <3>2, <3>3 DEF SlotsRead
    <3> HIDE DEF m
    <3>5. Cardinality(SlotsRead) = m
      <4>1. Cardinality(0 .. m - 1) = m
        <5>1. 0 \in Int /\ m - 1 \in Int
          BY <3>4
        <5>2. Cardinality(0 .. m - 1) = IF 0 > m - 1 THEN 0 ELSE (m - 1) - 0 + 1
          BY <5>1, FS_Interval
        <5> QED BY <5>2, <3>4
      <4> QED BY <4>1, <3>4
    <3>6. \A k \in 0 .. m - 1 : threadTraces[k] \in Seq(Traces)
      BY <3>2, <3>3, <3>4
    <3>7. JoinSlots(threadTraces, m) \in Seq(Traces)
      BY <3>4, <3>6, JoinType
    <3>8. ListsType'
      BY <1>0, <2>1, <3>1, <3>5, <3>7 DEF ListsType
    <3>9. SlotsType'
      BY <3>1 DEF SlotsType
    <3> QED BY <2>1, <3>8, <3>9, <1>s, <1>b
  <2> QED BY <2>2, <2>3
<1>8. CASE PostDone(t)
  <2>1. idleQ' = Append(idleQ, [cmd |-> "PBARDONE"])
    BY <1>8 DEF PostDone, Post
  <2> QED BY <1>8, <2>1, <1>k, <1>l, <1>s, <1>b, CommandTypes DEF PostDone, sideLists, barVars
<1>9. CASE PostFinish(t)
  <2>1. idleQ' = Append(idleQ, [cmd |-> "readHdr_finish", list |-> traceList])
    BY <1>9 DEF PostFinish, Post
  <2>2. [cmd |-> "readHdr_finish", list |-> traceList] \in Commands
    BY <1>0, CommandTypes DEF ListsType
  <2> QED BY <1>9, <2>1, <2>2, <1>k, <1>l, <1>s, <1>b DEF PostFinish, sideLists, barVars
<1> QED BY <1>1, <1>2, <1>3, <1>4, <1>5, <1>6, <1>7, <1>8, <1>9 DEF Worker

\* A step of a thread changes raced only by adding to it.
LEMMA WorkerRaced ==
    ASSUME NEW t \in Threads, Worker(t), raced \in BOOLEAN
    PROVE  raced' \in BOOLEAN
<1>1. CASE LinkElement(t)
  BY <1>1 DEF LinkElement
<1>2. CASE ~LinkElement(t)
  <2>1. raced' = raced
    BY <1>2 DEF Worker, Start, Identify, LoadList, StoreList, Finish, Collect, PostDone, PostFinish, sideLists
  <2> QED BY <2>1
<1> QED BY <1>1, <1>2

LEMMA MainTypes ==
    ASSUME IndInv, DataTypeOK, Main \/ Dispatch \/ Quiet \/ UNCHANGED vars
    PROVE  SlotsType' /\ ListsType' /\ SideType' /\ LoopType' /\ UNCHANGED raced
<1>0. SlotsType /\ ListsType /\ SideType /\ LoopType
  BY DataTypeParts
<1>1. UNCHANGED <<threadList, snap, instSOH, logs, raced>>
  BY DEF Main, ReadFiles, AllocSlots, ResetList, ZeroCounter, Spawn, SpawnEnd, Dispatch, Quiet,
         vars, workerVars, sideLists
<1>2. SideType'
  BY <1>0, <1>1 DEF SideType
<1>3. SlotsType'
  <2>1. \/ threadTraces' = threadTraces \/ threadTraces' = NoArray
        \/ threadTraces' = [k \in 0 .. maxThreads - 1 |-> <<>>]
    BY DEF Main, ReadFiles, AllocSlots, ResetList, ZeroCounter, Spawn, SpawnEnd, Dispatch, Quiet, vars
  <2>2. CASE threadTraces' = [k \in 0 .. maxThreads - 1 |-> <<>>]
    <3>1. maxThreads \in 0 .. MT_FACTOR * NumCPUs
      BY DEF IndInv, ControlTypeOK
    <3>2. threadTraces' \in [0 .. maxThreads - 1 -> Seq(Traces)]
      BY <2>2
    <3> QED BY <3>1, <3>2 DEF SlotsType
  <2> QED BY <1>0, <2>1, <2>2 DEF SlotsType
<1>4. ListsType'
  <2>1. traceList' = traceList \/ traceList' = <<>>
    BY DEF Main, ReadFiles, AllocSlots, ResetList, ZeroCounter, Spawn, SpawnEnd, Dispatch, Quiet, vars
  <2>2. <<>> \in Seq(Traces)
    OBVIOUS
  <2>3. traceList' \in Seq(Traces)
    BY <1>0, <2>1, <2>2 DEF ListsType
  <2>4. threadList' \in [Threads -> Seq(Traces)]
    BY <1>0, <1>1 DEF ListsType
  <2> QED BY <2>3, <2>4 DEF ListsType
<1>5. LoopType'
  <2>1. CASE ~Dispatch
    <3>1. UNCHANGED <<ttl, drawn, delivered>> /\ (idleQ' = idleQ \/ idleQ' = Append(idleQ, [cmd |-> "PBARINIT"]))
      BY <2>1 DEF Main, ReadFiles, AllocSlots, ResetList, ZeroCounter, Spawn, SpawnEnd, Quiet, vars, barVars, Post
    <3> QED BY SMTT(30), <1>0, <3>1, CommandTypes DEF LoopType
  <2>2. CASE Dispatch
    <3>1. Head(idleQ) \in Commands /\ Tail(idleQ) \in Seq(Commands) /\ idleQ' = Tail(idleQ)
      BY <1>0, <2>2 DEF LoopType, Dispatch
    <3>2. \/ PBarUpd(Head(idleQ)) /\ delivered' = delivered
          \/ /\ Head(idleQ).cmd = "readHdr_finish" /\ delivered' = Append(delivered, Head(idleQ).list)
             /\ UNCHANGED barVars
      BY <2>2 DEF Dispatch
    <3>3. CASE PBarUpd(Head(idleQ)) /\ delivered' = delivered
      <4>1. ttl' \in Nat /\ drawn' \in Nat
        BY <1>0, <3>3 DEF PBarUpd, LoopType, barVars
      <4> QED BY <1>0, <3>1, <3>3, <4>1 DEF LoopType
    <3>4. CASE /\ Head(idleQ).cmd = "readHdr_finish" /\ delivered' = Append(delivered, Head(idleQ).list)
               /\ UNCHANGED barVars
      <4>1. Head(idleQ).list \in Seq(Traces)
        BY <3>1, <3>4, CommandTypes
      <4> QED BY <1>0, <3>1, <3>4, <4>1 DEF LoopType, barVars
    <3> QED BY <3>2, <3>3, <3>4
  <2> QED BY <2>1, <2>2
<1> QED BY <1>1, <1>2, <1>3, <1>4, <1>5

\* The control invariant, places and types together.
TypeInv == IndInv /\ AtFile /\ DataTypeOK

LEMMA InitTypes == Init => DataTypeOK
<1> SUFFICES ASSUME Init PROVE DataTypeOK
  OBVIOUS
<1>1. SlotsType
  BY DEF Init, SlotsType
<1>2. ListsType /\ SideType
  BY DEF Init, ListsType, SideType
<1>3. LoopType
  BY DEF Init, LoopType
<1>4. raced \in BOOLEAN
  BY DEF Init
<1> QED BY <1>1, <1>2, <1>3, <1>4, DataTypeParts

LEMMA AlwaysTypeInv == Spec => []TypeInv
<1>1. Init => TypeInv
  BY InitInv, AtFileInit, InitTypes DEF TypeInv
<1>2. TypeInv /\ [Next]_vars => TypeInv'
  <2> SUFFICES ASSUME IndInv, AtFile, DataTypeOK, [Next]_vars PROVE DataTypeOK'
    BY NextInv, NextAtFile DEF TypeInv
  <2>0. raced \in BOOLEAN
    BY DEF DataTypeOK
  <2>1. CASE \E t \in Threads : Worker(t)
    <3>1. SlotsType' /\ ListsType' /\ SideType' /\ LoopType'
      BY <2>1, WorkerTypes
    <3>2. raced' \in BOOLEAN
      BY <2>0, <2>1, WorkerRaced
    <3> QED BY <3>1, <3>2 DEF DataTypeOK, SlotsType, ListsType, SideType, LoopType
  <2>2. CASE Main \/ Dispatch \/ Quiet \/ UNCHANGED vars
    <3>1. SlotsType' /\ ListsType' /\ SideType' /\ LoopType' /\ raced' = raced
      BY <2>2, MainTypes
    <3>2. raced' \in BOOLEAN
      BY <2>0, <3>1
    <3> QED BY <3>1, <3>2 DEF DataTypeOK, SlotsType, ListsType, SideType, LoopType
  <2> QED BY <2>1, <2>2 DEF Next
<1> QED BY <1>1, <1>2, PTL DEF Spec

\* Every variable of the pool keeps its type, for any number of CPUs, files and
\* calls, overlapping ones included.
THEOREM TypeCorrect == Spec => []TypeOK
<1>1. TypeInv => TypeOK
  BY DEF TypeInv, IndInv, TypeOK
<1> QED BY <1>1, AlwaysTypeInv, PTL


-----------------------------------------------------------------------------
(* The side lists.                                                         *)

\* A thread of the newest call is one of its maxThreads, so Start lets it work.
InSlots == \A t \in Threads : pc[t] # "none" /\ t[1] = call => t[2] < maxThreads

\* Some thread of the first call has file f before it.
StillToDo(f) == \E t \in Threads : t \in Live /\ t[1] = 1 /\ lo[t] <= f /\ f <= next[t]

\* The side lists have what file f of the first call has for them.
Noted(f) ==
    LET name == input[1][f] IN
    /\ KindOf[name] = "log" => <<1, f>> \in logs
    /\ KindOf[name] = "soh" => \E e \in instSOH : input[e[1]][e[2]] = name

\* Every file popped is still before a thread or is noted.
SideInv ==
    ~raced /\ call = 1 /\ main \in {"spawn", "loop"} =>
        \A f \in 1 .. fileQ : StillToDo(f) \/ Noted(f)

LEMMA NextInSlots == IndInv /\ InSlots /\ [Next]_vars => InSlots'
<1> SUFFICES ASSUME IndInv, InSlots, [Next]_vars PROVE InSlots'
  OBVIOUS
<1>0. /\ pc \in [Threads -> Places] /\ input \in Seq(Inputs) /\ call \in Nat
      /\ \A t \in Threads : pc[t] # "none" => t[1] <= call
  BY QueueType DEF IndInv, ControlTypeOK, Chunks
<1>1. CASE ReadFiles
  <2>1. pc' = pc /\ call' = call + 1
    BY <1>0, <1>1 DEF ReadFiles, workerVars, call
  <2>2. \A t \in Threads : t[1] \in Nat
    BY BoundsAssumption DEF Threads
  <2> QED BY <1>0, <2>1, <2>2 DEF InSlots
<1>2. CASE Spawn
  <2>1. input' = input /\ maxThreads' = maxThreads /\ i < maxThreads
        /\ (pc' = pc \/ pc' = [pc EXCEPT ![<<call, i>>] = "start"])
    BY <1>2 DEF Spawn
  <2>2. call' = call
    BY <2>1 DEF call
  <2> QED BY <1>0, <2>1, <2>2 DEF InSlots
<1>3. CASE AllocSlots \/ ResetList \/ ZeroCounter \/ SpawnEnd \/ Dispatch \/ Quiet \/ UNCHANGED vars
  <2>1. UNCHANGED <<pc, input, maxThreads>>
    BY <1>3 DEF AllocSlots, ResetList, ZeroCounter, SpawnEnd, Dispatch, Quiet, vars, mainVars, workerVars
  <2> QED BY <2>1 DEF InSlots, call
<1>4. ASSUME NEW t \in Threads, Worker(t) PROVE InSlots'
  <2>1. Moves(t)
    BY <1>4, WorkerMoves DEF IndInv
  <2>2. UNCHANGED <<input, maxThreads>> /\ pc[t] # "none" /\ \E x : pc' = [pc EXCEPT ![t] = x]
    BY <2>1 DEF Moves
  <2>3. call' = call
    BY <2>2 DEF call
  <2> QED BY <1>0, <2>2, <2>3 DEF InSlots
<1> QED BY <1>1, <1>2, <1>3, <1>4 DEF Next, Main

\* As long as no two threads write a side list at the same time, it only grows.
LEMMA SideGrows ==
    ASSUME NEW t \in Threads, Worker(t), ~raced'
    PROVE  ~raced /\ instSOH \subseteq instSOH' /\ logs \subseteq logs'
<1>1. CASE LinkElement(t)
  BY <1>1 DEF LinkElement, Linked
<1>2. CASE ~LinkElement(t)
  <2>1. UNCHANGED sideLists
    BY <1>2 DEF Worker, Start, Identify, LoadList, StoreList, Finish, Collect, PostDone, PostFinish
  <2> QED BY <2>1 DEF sideLists
<1> QED BY <1>1, <1>2

\* What becomes of the file a thread has before it.
LEMMA FileDone ==
    ASSUME IndInv, AtFile, InSlots, NEW t \in Threads, Worker(t), ~raced', call = 1,
           t \in Live, t[1] = 1, NEW f \in Nat, lo[t] <= f, f <= next[t]
    PROVE  StillToDo(f)' \/ Noted(f)'
<1>0. /\ pc \in [Threads -> Places] /\ next \in [Threads -> Int] /\ lo \in [Threads -> Nat]
      /\ lo' = lo /\ input' = input /\ pc[t] # "none" /\ pc[t] \notin {"collect", "done", "post", "exit"}
  <2>1. Moves(t)
    BY WorkerMoves DEF IndInv
  <2> QED BY <2>1 DEF Moves, IndInv, ControlTypeOK, Live
<1>1. ASSUME pc'[t] \notin {"none", "collect", "done", "post", "exit"}, f <= next'[t]
      PROVE  StillToDo(f)'
  BY <1>0, <1>1 DEF StillToDo, Live
<1>2. next[t] >= lo[t] /\ next[t] \in Int /\ lo[t] \in Nat
  BY <1>0
<1>3. KindOf[FileName(t)] \in Kinds
  BY <1>0, <1>2, FileOf
<1>4. CASE Start(t)
  <2>1. t[2] < maxThreads
    BY <1>0 DEF InSlots
  <2> QED BY <1>0, <1>1, <1>4, <2>1 DEF Start
<1>5. CASE Identify(t)
  <2> DEFINE kind == KindOf[FileName(t)]
  <2>1. CASE kind = "log" \/ (kind = "soh" /\ ~HasSOH(FileName(t)))
    <3>1. pc'[t] = kind /\ next' = next
      BY <1>0, <1>5, <2>1 DEF Identify
    <3> QED BY <1>1, <2>1, <3>1
  <2>2. CASE ~(kind = "log" \/ (kind = "soh" /\ ~HasSOH(FileName(t))))
    <3>1. pc'[t] = "files" /\ next'[t] = next[t] - 1
      BY <1>0, <1>5, <2>2 DEF Identify, NextFile
    <3>2. CASE f = next[t]
      <4>1. instSOH' = instSOH
        BY <1>5 DEF Identify, sideLists
      <4>2. FileName(t) = input[1][f]
        BY <3>2 DEF FileName
      <4> QED BY <1>0, <2>2, <4>1, <4>2 DEF Noted, HasSOH
    <3>3. CASE f # next[t]
      BY <1>1, <1>2, <3>1, <3>3
    <3> QED BY <3>2, <3>3
  <2> QED BY <2>1, <2>2
<1>6. CASE LoadList(t)
  BY <1>0, <1>1, <1>6 DEF LoadList
<1>7. CASE LinkElement(t)
  <2>1. pc'[t] = "files" /\ next'[t] = next[t] - 1
    BY <1>0, <1>7 DEF LinkElement, NextFile
  <2>2. CASE f # next[t]
    BY <1>1, <1>2, <2>1, <2>2
  <2>3. CASE f = next[t]
    <3>1. FileName(t) = input[1][f] /\ <<t[1], next[t]>> = <<1, f>>
      BY <2>3 DEF FileName
    <3>2. \/ KindOf[input[1][f]] = "soh" /\ <<1, f>> \in instSOH'
          \/ KindOf[input[1][f]] = "log" /\ <<1, f>> \in logs'
      BY <1>7, <3>1 DEF LinkElement, Linked, AtFile, AtSOH, AtLog
    <3>3. <<1, f>>[1] = 1 /\ <<1, f>>[2] = f
      OBVIOUS
    <3>4. CASE KindOf[input[1][f]] = "soh" /\ <<1, f>> \in instSOH'
      <4>1. \E e \in instSOH' : input[e[1]][e[2]] = input[1][f]
        BY <3>3, <3>4
      <4> QED BY <1>0, <3>4, <4>1 DEF Noted
    <3>5. CASE KindOf[input[1][f]] = "log" /\ <<1, f>> \in logs'
      BY <1>0, <3>5 DEF Noted
    <3> QED BY <3>2, <3>4, <3>5
  <2> QED BY <2>2, <2>3
<1>8. CASE StoreList(t)
  BY <1>2, <1>8 DEF StoreList
<1>9. CASE Finish(t)
  BY <1>2, <1>9 DEF Finish, AtFile
<1> QED BY <1>0, <1>4, <1>5, <1>6, <1>7, <1>8, <1>9 DEF Worker, Collect, PostDone, PostFinish

LEMMA WorkerSide ==
    ASSUME IndInv, AtFile, InSlots, SideInv, NEW t \in Threads, Worker(t)
    PROVE  SideInv'
<1>0. UNCHANGED <<input, main, fileQ, lo>> /\ call' = call /\ fileQ \in Nat
  <2>1. Moves(t)
    BY WorkerMoves DEF IndInv
  <2> QED BY <2>1 DEF Moves, IndInv, ControlTypeOK, call
<1> SUFFICES ASSUME ~raced', call = 1, main \in {"spawn", "loop"}, NEW f \in 1 .. fileQ
             PROVE  StillToDo(f)' \/ Noted(f)'
  BY <1>0 DEF SideInv
<1>1. ~raced /\ instSOH \subseteq instSOH' /\ logs \subseteq logs'
  BY SideGrows
<1>2. StillToDo(f) \/ Noted(f)
  BY <1>1 DEF SideInv
<1>3. CASE Noted(f)
  BY <1>0, <1>1, <1>3 DEF Noted
<1>4. CASE StillToDo(f)
  <2>1. PICK s \in Threads : s \in Live /\ s[1] = 1 /\ lo[s] <= f /\ f <= next[s]
    BY <1>4 DEF StillToDo
  <2>2. CASE s # t
    <3>1. pc'[s] = pc[s] /\ next'[s] = next[s] /\ lo'[s] = lo[s]
      BY <2>2, OthersStay
    <3>2. s \in Live'
      BY <2>1, <3>1 DEF Live
    <3> QED BY <2>1, <3>1, <3>2 DEF StillToDo
  <2>3. CASE s = t
    <3>1. f \in Nat
      BY <1>0
    <3> QED BY <2>1, <2>3, <3>1, FileDone
  <2> QED BY <2>2, <2>3
<1> QED BY <1>2, <1>3, <1>4

LEMMA MainSide ==
    ASSUME IndInv, SideInv, ~AllocMayFail, Main
    PROVE  SideInv'
<1>0. /\ pc \in [Threads -> Places] /\ next \in [Threads -> Int] /\ lo \in [Threads -> Nat]
      /\ fileQ \in Nat /\ input \in Seq(Inputs) /\ call \in Nat
  BY QueueType DEF IndInv, ControlTypeOK
<1>1. CASE ReadFiles \/ AllocSlots \/ ResetList
  <2>1. main' \notin {"spawn", "loop"}
    BY <1>1 DEF ReadFiles, AllocSlots, ResetList
  <2> QED BY <2>1 DEF SideInv
<1>2. CASE ZeroCounter
  <2>1. fileQ' = 0
    BY <1>2 DEF ZeroCounter, IndInv, Popped
  <2> QED BY <2>1 DEF SideInv
<1>3. CASE SpawnEnd
  <2>1. main = "spawn" /\ UNCHANGED <<input, fileQ, pc, lo, next, instSOH, logs, raced>>
    BY <1>3 DEF SpawnEnd, workerVars, sideLists
  <2> QED BY <2>1 DEF SideInv, StillToDo, Noted, Live, call
<1>4. CASE Spawn
  <2> DEFINE t == <<call, i>>
             hi == PoppedAfter(numFilesPThread)
  <2>1. /\ main = "spawn" /\ UNCHANGED <<input, instSOH, logs, raced>> /\ fileQ' = hi
        /\ pc' = [pc EXCEPT ![t] = "start"] /\ lo' = [lo EXCEPT ![t] = fileQ + 1]
        /\ next' = [next EXCEPT ![t] = hi]
        /\ i < maxThreads /\ fileQ < QLen
    BY <1>4 DEF Spawn, sideLists
  <2>2. t \in Threads /\ t[1] = call /\ t[2] = i
    <3>1. i \in 0 .. MT_FACTOR * NumCPUs /\ maxThreads \in 0 .. MT_FACTOR * NumCPUs /\ call <= MaxCalls
      BY DEF IndInv, ControlTypeOK
    <3>2. input # <<>>
      BY <2>1, <1>4 DEF IndInv, CallInv
    <3>3. call >= 1
      BY <1>0, <3>2 DEF call
    <3> QED BY <1>0, <2>1, <3>1, <3>3, BoundsAssumption DEF Threads, ThreadNums, MT_FACTOR
  <2>3. pc[t] = "none"
    <3>1. i \in Int
      BY DEF IndInv, ControlTypeOK
    <3> HIDE DEF t
    <3> QED BY <2>1, <2>2, <3>1 DEF IndInv, NotStarted
  <2>4. hi \in Nat
    <3>1. fileQ' \in Nat
      BY SpawnInv, <1>4 DEF IndInv, ControlTypeOK
    <3> QED BY <2>1, <3>1
  <2>5. /\ \A s \in Threads : s # t => pc'[s] = pc[s] /\ lo'[s] = lo[s] /\ next'[s] = next[s]
        /\ pc'[t] = "start" /\ lo'[t] = fileQ + 1 /\ next'[t] = hi
    BY <1>0, <2>1, <2>2
  <2>6. call' = call
    BY <2>1 DEF call
  <2> HIDE DEF t, hi
  <2> SUFFICES ASSUME ~raced, call = 1, NEW f \in 1 .. hi
               PROVE  StillToDo(f)' \/ Noted(f)'
    BY <2>1, <2>6 DEF SideInv
  <2>7. CASE f <= fileQ
    <3>1. f \in 1 .. fileQ
      BY <1>0, <2>4, <2>7
    <3>2. StillToDo(f) \/ Noted(f)
      BY <2>1, <3>1 DEF SideInv
    <3>3. ASSUME NEW s \in Threads, s \in Live, s[1] = 1, lo[s] <= f, f <= next[s] PROVE StillToDo(f)'
      <4>1. s # t
        BY <2>3, <3>3 DEF Live
      <4>2. pc'[s] = pc[s] /\ lo'[s] = lo[s] /\ next'[s] = next[s]
        BY <2>5, <4>1
      <4>3. s \in Live'
        BY <3>3, <4>2 DEF Live
      <4> QED BY <3>3, <4>2, <4>3 DEF StillToDo
    <3>4. StillToDo(f) => StillToDo(f)'
      BY <3>3 DEF StillToDo
    <3>5. Noted(f) => Noted(f)'
      BY <2>1 DEF Noted
    <3> QED BY <3>2, <3>4, <3>5
  <2>8. CASE f > fileQ
    <3>1. t \in Live' /\ t[1] = 1 /\ lo'[t] <= f /\ f <= next'[t]
      BY <1>0, <2>2, <2>4, <2>5, <2>8 DEF Live
    <3> QED BY <2>2, <3>1 DEF StillToDo
  <2> QED BY <1>0, <2>4, <2>7, <2>8
<1> QED BY <1>1, <1>2, <1>3, <1>4 DEF Main

LEMMA NextSide ==
    ASSUME ~AllocMayFail
    PROVE  IndInv /\ AtFile /\ InSlots /\ SideInv /\ [Next]_vars => SideInv'
<1> SUFFICES ASSUME IndInv, AtFile, InSlots, SideInv, [Next]_vars PROVE SideInv'
  OBVIOUS
<1>1. CASE Dispatch \/ Quiet \/ UNCHANGED vars
  <2>1. UNCHANGED <<input, main, fileQ, pc, lo, next, instSOH, logs, raced>>
    BY <1>1 DEF Dispatch, Quiet, vars, mainVars, workerVars, sideLists
  <2> QED BY <2>1 DEF SideInv, StillToDo, Noted, Live, call
<1> QED BY <1>1, MainSide, WorkerSide DEF Next

\* Where calloc does not fail, no log and no instrument's state of health is lost:
\* when all is read each is in the list it belongs to, unless two threads wrote
\* that list at the same time.
THEOREM SideListsAreComplete ==
    ASSUME ~AllocMayFail
    PROVE  Spec => []SideListsComplete
<1>1. Init => InSlots /\ SideInv
  BY DEF Init, InSlots, SideInv
<1>2. IndInv /\ AtFile /\ InSlots /\ SideInv => SideListsComplete
  <2> SUFFICES ASSUME IndInv, SideInv, ~raced, call = 1, main = "loop", fileQ = QLen, Live = {},
                      NEW tr \in Expected(1)
               PROVE  LET name == input[1][tr[2]] IN
                      /\ KindOf[name] = "log" => tr \in logs
                      /\ KindOf[name] = "soh" => \E e \in instSOH : input[e[1]][e[2]] = name
    BY DEF SideListsComplete
  <2>1. PICK f \in 1 .. Len(input[1]) : tr = <<1, f>>
    BY DEF Expected
  <2>2. QLen = Len(input[1])
    BY DEF QLen, call
  <2>3. Noted(f)
    BY <2>1, <2>2 DEF SideInv, StillToDo
  <2> QED BY <2>1, <2>3 DEF Noted
<1> QED BY <1>1, <1>2, InitInv, NextInv, AtFileInit, NextAtFile, NextInSlots, NextSide, PTL DEF Spec


-----------------------------------------------------------------------------
(* One call implements ReadPool.                                           *)

\* One call of readFiles, with memory for the arguments of every thread.
OneCall == MaxCalls = 1 /\ ~AllocMayFail

\* The call finds no thread running and pops its queue from the first file on;
\* what a thread has before it was popped.
CallOnce ==
    /\ ~overlapped
    /\ main \in {"alloc", "reset", "zero"} => fileQ = 0
    /\ \A t \in Threads : pc[t] # "none" => main \in {"spawn", "loop"} /\ next[t] <= fileQ

PoolInv == IndInv /\ AtFile /\ DataTypeOK /\ InSlots /\ CallOnce

\* The state of ReadPool as ThreadFile maps it.
poolState ==
    IF input = <<>> THEN "new"
    ELSE IF main \in {"alloc", "reset", "zero"} \/ fileQ < QLen \/ Active # {} THEN "busy" ELSE "rest"
poolLeft == (fileQ + 1) .. QLen \cup UNION {1 .. next[t] \ 1 .. (lo[t] - 1) : t \in Active}
ReportsIn(q) == {k \in DOMAIN q : IsReport(q[k])}
poolReports == Len(delivered) + Cardinality(ReportsIn(idleQ))

LEMMA PoolDefs ==
    /\ Pool!PoolInit <=> poolState = "new" /\ poolLeft = {} /\ poolReports = 0
    /\ Pool!PoolNext <=>
         \/ /\ poolState = "new" /\ (\E B \in {1 .. Len(q) : q \in Inputs} : poolLeft' = B)
            /\ poolState' = "busy" /\ poolReports' = poolReports
         \/ /\ poolState = "busy" /\ (\E x \in poolLeft : poolLeft' = poolLeft \ {x})
            /\ poolState' = poolState /\ poolReports' = poolReports
         \/ /\ poolState = "busy" /\ poolReports' = poolReports + 1
            /\ poolState' = poolState /\ poolLeft' = poolLeft
         \/ /\ poolState = "busy" /\ poolLeft = {} /\ poolReports' = poolReports + 1
            /\ poolState' = "rest" /\ poolLeft' = poolLeft
    /\ UNCHANGED <<poolState, poolLeft, poolReports>> => UNCHANGED Pool!poolVars
BY DEF Pool!PoolInit, Pool!PoolNext, Pool!Submit, Pool!Process, Pool!EarlyReport, Pool!LastReport,
       Pool!poolVars, poolState, poolLeft, poolReports, ReportsIn

\* A callback posted counts when it is a report, and a report run stays counted.
LEMMA ReportsPosted ==
    ASSUME NEW S, NEW q \in Seq(S), NEW c \in S
    PROVE  /\ IsFiniteSet(ReportsIn(q)) /\ Cardinality(ReportsIn(q)) \in Nat
           /\ ReportsIn(<<>>) = {} /\ Cardinality(ReportsIn(<<>>)) = 0
           /\ IsReport(c) => Cardinality(ReportsIn(Append(q, c))) = Cardinality(ReportsIn(q)) + 1
           /\ ~IsReport(c) => Cardinality(ReportsIn(Append(q, c))) = Cardinality(ReportsIn(q))
<1>1. DOMAIN q = 1 .. Len(q) /\ Len(q) \in Nat
  OBVIOUS
<1>2. IsFiniteSet(1 .. Len(q))
  <2>1. 1 \in Int /\ Len(q) \in Int
    BY <1>1
  <2> QED BY <2>1, FS_Interval
<1>3. ReportsIn(q) \subseteq 1 .. Len(q)
  BY <1>1 DEF ReportsIn
<1>4. IsFiniteSet(ReportsIn(q)) /\ Cardinality(ReportsIn(q)) \in Nat
  BY <1>2, <1>3, FS_Subset, FS_CardinalityType
<1>5. /\ DOMAIN Append(q, c) = 1 .. Len(q) + 1
      /\ \A k \in 1 .. Len(q) : Append(q, c)[k] = q[k]
      /\ Append(q, c)[Len(q) + 1] = c
  OBVIOUS
<1>6. ASSUME IsReport(c) PROVE ReportsIn(Append(q, c)) = ReportsIn(q) \cup {Len(q) + 1}
  BY <1>1, <1>5, <1>6 DEF ReportsIn
<1>7. ASSUME ~IsReport(c) PROVE ReportsIn(Append(q, c)) = ReportsIn(q)
  BY <1>1, <1>5, <1>7 DEF ReportsIn
<1>8. Len(q) + 1 \notin ReportsIn(q)
  BY <1>1, <1>3
<1>9. ReportsIn(<<>>) = {}
  BY DEF ReportsIn
<1>10. Cardinality(ReportsIn(q) \cup {Len(q) + 1}) = Cardinality(ReportsIn(q)) + 1
  BY <1>4, <1>8, FS_AddElement
<1>11. Cardinality(ReportsIn(<<>>)) = 0
  BY <1>9, FS_EmptySet
<1> QED BY <1>4, <1>6, <1>7, <1>9, <1>10, <1>11

LEMMA ReportsRun ==
    ASSUME NEW S, NEW q \in Seq(S), q # <<>>
    PROVE  Cardinality(ReportsIn(q)) =
             IF IsReport(Head(q)) THEN Cardinality(ReportsIn(Tail(q))) + 1
             ELSE Cardinality(ReportsIn(Tail(q)))
<1> DEFINE R == ReportsIn(q)
           T == ReportsIn(Tail(q))
           f == [k \in T |-> k + 1]
<1>1. /\ Len(q) \in Nat \ {0} /\ DOMAIN q = 1 .. Len(q) /\ Head(q) = q[1]
      /\ DOMAIN Tail(q) = 1 .. Len(q) - 1
      /\ \A k \in 1 .. Len(q) - 1 : Tail(q)[k] = q[k + 1]
      /\ Tail(q) \in Seq(S) /\ Head(q) \in S
  OBVIOUS
<1>2. IsFiniteSet(R) /\ IsFiniteSet(T) /\ Cardinality(R) \in Nat /\ Cardinality(T) \in Nat
  BY <1>1, ReportsPosted
<1>3. T \subseteq Nat /\ \A k \in T : k + 1 \in R \ {1}
  BY <1>1 DEF ReportsIn
<1>4. \A k \in R \ {1} : k \in Nat /\ k - 1 \in T /\ (k - 1) + 1 = k
  BY <1>1 DEF ReportsIn
<1> HIDE DEF R, T
<1>5. f \in Bijection(T, R \ {1})
  <2>1. f \in [T -> R \ {1}]
    BY <1>3
  <2>2. \A a, b \in T : f[a] = f[b] => a = b
    BY <1>3
  <2>3. \A r \in R \ {1} : \E k \in T : f[k] = r
    BY <1>4
  <2> QED BY <2>1, <2>2, <2>3, Fun_IsBij
<1>6. Cardinality(R \ {1}) = Cardinality(T)
  BY <1>2, <1>5, FS_Bijection DEF ExistsBijection
<1>7. Cardinality(R \ {1}) = IF 1 \in R THEN Cardinality(R) - 1 ELSE Cardinality(R)
  BY <1>2, FS_RemoveElement
<1>8. 1 \in R <=> IsReport(Head(q))
  BY <1>1 DEF R, ReportsIn
<1> QED BY <1>2, <1>6, <1>7, <1>8 DEF R, T


LEMMA NextCallOnce ==
    ASSUME OneCall
    PROVE  IndInv /\ CallOnce /\ [Next]_vars => CallOnce'
<1> SUFFICES ASSUME IndInv, CallOnce, [Next]_vars PROVE CallOnce'
  OBVIOUS
<1>0. /\ pc \in [Threads -> Places] /\ next \in [Threads -> Int] /\ fileQ \in Nat
      /\ call \in Nat /\ call <= MaxCalls
  BY QueueType DEF IndInv, ControlTypeOK
<1>1. CASE ReadFiles
  <2>1. input = <<>> /\ call = 0
    BY <1>0, <1>1 DEF ReadFiles, OneCall, call, IndInv, ControlTypeOK
  <2>2. \A t \in Threads : pc[t] = "none"
    BY <2>1, BoundsAssumption DEF IndInv, NotStarted, Threads
  <2>3. fileQ' = fileQ /\ pc' = pc /\ overlapped' = overlapped
    <3>1. overlapped' = (overlapped \/ \E t \in Threads : pc[t] \notin {"none", "exit"})
      BY <1>1 DEF ReadFiles
    <3>2. ~(\E t \in Threads : pc[t] \notin {"none", "exit"})
      BY <2>2
    <3>3. ~overlapped /\ ~overlapped'
      BY <3>1, <3>2, Zenon DEF CallOnce
    <3>4. overlapped \in BOOLEAN /\ overlapped' \in BOOLEAN
      BY <1>1, NextInv DEF IndInv, ControlTypeOK
    <3> QED BY <1>1, <3>3, <3>4 DEF ReadFiles, workerVars
  <2>4. fileQ = 0
    BY <2>1 DEF IndInv, CallInv
  <2> QED BY <2>2, <2>3, <2>4 DEF CallOnce
<1>2. CASE AllocSlots \/ ResetList \/ ZeroCounter \/ SpawnEnd
  <2>1. /\ UNCHANGED <<pc, next, overlapped>>
        /\ \/ main \in {"alloc", "reset", "zero"} /\ (fileQ' = fileQ \/ fileQ' = 0)
           \/ main' = "loop" /\ fileQ' = fileQ
    BY <1>2 DEF AllocSlots, ResetList, ZeroCounter, SpawnEnd, workerVars, ghostVars
  <2> QED BY <2>1 DEF CallOnce
<1>3. CASE Spawn
  <2>1. /\ main = "spawn" /\ main' = main /\ overlapped' = overlapped /\ fileQ < QLen
        /\ fileQ' = PoppedAfter(numFilesPThread)
        /\ next' = [next EXCEPT ![<<call, i>>] = fileQ'] /\ pc' = [pc EXCEPT ![<<call, i>>] = "start"]
    BY <1>3 DEF Spawn, ghostVars, OneCall
  <2>2. fileQ' \in Nat /\ fileQ <= fileQ'
    <3>1. QLen \in Nat /\ fileQ' \in Nat
      BY <1>3, SpawnInv, QueueType DEF IndInv, ControlTypeOK
    <3>2. numFilesPThread \in Nat
      <4>1. maxThreads \in Nat \ {0}
        BY <1>3, BoundsAssumption DEF Spawn, IndInv, ControlTypeOK, MT_FACTOR
      <4> HIDE DEF QLen
      <4>2. QLen \div maxThreads \in Nat
        BY <3>1, <4>1
      <4> QED BY <4>2 DEF numFilesPThread
    <3> QED BY <1>0, <2>1, <3>1, <3>2 DEF PoppedAfter
  <2> QED BY <1>0, <2>1, <2>2 DEF CallOnce
<1>4. ASSUME NEW t \in Threads, Worker(t) PROVE CallOnce'
  <2>1. Moves(t)
    BY <1>4, WorkerMoves DEF IndInv
  <2>2. UNCHANGED <<main, fileQ, overlapped>> /\ pc[t] # "none"
    BY <2>1 DEF Moves
  <2>3. \A s \in Threads : (pc'[s] # "none" => pc[s] # "none") /\ next'[s] <= next[s] /\ next'[s] \in Int
    BY <1>0, <2>1 DEF Moves
  <2> QED BY <1>0, <2>2, <2>3 DEF CallOnce
<1>5. CASE Dispatch \/ Quiet \/ UNCHANGED vars
  <2>1. UNCHANGED <<pc, next, main, fileQ, overlapped>>
    BY <1>5 DEF Dispatch, Quiet, vars, mainVars, workerVars, ghostVars
  <2> QED BY <2>1 DEF CallOnce
<1> QED BY <1>1, <1>2, <1>3, <1>4, <1>5 DEF Next, Main

\* The files left: those still queued and those before a thread that runs.
LEMMA LeftMember ==
    ASSUME NEW x
    PROVE  /\ x \in poolLeft <=>
                \/ x \in (fileQ + 1) .. QLen
                \/ \E t \in Threads : t \in Active /\ x \in 1 .. next[t] /\ x \notin 1 .. (lo[t] - 1)
           /\ x \in poolLeft' <=>
                \/ x \in (fileQ' + 1) .. QLen'
                \/ \E t \in Threads : t \in Active' /\ x \in 1 .. next'[t] /\ x \notin 1 .. (lo'[t] - 1)
BY DEF poolLeft, Active

\* A thread that is through with its chunk has no file before it.
LEMMA LeftKept ==
    ASSUME IndInv, UNCHANGED <<fileQ, QLen, next, lo>>, NEW t \in Threads,
           \A s \in Threads : s # t => pc'[s] = pc[s],
           (t \in Active <=> t \in Active') \/ next[t] < lo[t]
    PROVE  poolLeft' = poolLeft
<1>0. next[t] \in Int /\ lo[t] \in Nat
  BY DEF IndInv, ControlTypeOK
<1>1. \A s \in Threads : s # t => (s \in Active <=> s \in Active')
  BY DEF Active
<1>2. CASE t \in Active <=> t \in Active'
  <2>1. \A s \in Threads : (s \in Active <=> s \in Active')
    BY <1>1, <1>2
  <2>2. ASSUME NEW x PROVE x \in poolLeft <=> x \in poolLeft'
    BY <2>1, LeftMember
  <2> QED BY <2>2
<1>3. CASE next[t] < lo[t]
  <2>1. \A x : ~(x \in 1 .. next[t] /\ x \notin 1 .. (lo[t] - 1))
    BY <1>0, <1>3
  <2>2. ASSUME NEW x PROVE x \in poolLeft <=> x \in poolLeft'
    BY <1>1, <2>1, LeftMember
  <2> QED BY <2>2
<1> QED BY <1>2, <1>3

\* Taking the next file takes it from those left: no other thread has it.
LEMMA LeftTaken ==
    ASSUME OneCall, PoolInv, UNCHANGED <<fileQ, QLen, lo>>, NEW t \in Threads, t \in Active, t \in Active',
           \A s \in Threads : s # t => pc'[s] = pc[s],
           next[t] >= lo[t], next' = [next EXCEPT ![t] = @ - 1]
    PROVE  next[t] \in poolLeft /\ poolLeft' = poolLeft \ {next[t]}
<1>0. /\ next \in [Threads -> Int] /\ lo \in [Threads -> Nat] /\ fileQ \in Nat
      /\ lo[t] \in Nat \ {0} /\ next[t] <= fileQ
      /\ next'[t] = next[t] - 1 /\ \A s \in Threads : s # t => next'[s] = next[s]
  BY FileOf DEF PoolInv, IndInv, ControlTypeOK, CallOnce, Active
<1>1. \A s \in Threads : (s \in Active <=> s \in Active')
  BY DEF Active
<1>2. next[t] \in poolLeft
  <2>1. next[t] \in 1 .. next[t] /\ next[t] \notin 1 .. (lo[t] - 1)
    BY <1>0
  <2> QED BY <2>1, LeftMember
<1>3. ASSUME NEW s \in Threads, s # t, s \in Active
      PROVE  ~(next[t] \in 1 .. next[s] /\ next[t] \notin 1 .. (lo[s] - 1))
  <2>0. s[1] = 1 /\ t[1] = 1 /\ s[2] \in Nat /\ t[2] \in Nat /\ s = <<s[1], s[2]>> /\ t = <<t[1], t[2]>>
    BY BoundsAssumption DEF Threads, ThreadNums, OneCall, MT_FACTOR
  <2>1. s[2] < t[2] \/ t[2] < s[2]
    BY <1>3, <2>0
  <2>2. pc[s] # "none" /\ pc[t] # "none" /\ OneReader
    BY <1>3, ChunksDisjoint DEF Active, PoolInv
  <2>3. next[s] < lo[t] \/ next[t] < lo[s]
    BY <2>0, <2>1, <2>2 DEF OneReader
  <2>4. next[s] \in Int /\ lo[s] \in Nat
    BY <1>0
  <2> QED BY <1>0, <2>3, <2>4
<1>4. next[t] \notin (fileQ + 1) .. QLen
  BY <1>0
<1>5. ASSUME NEW x
      PROVE  x \in poolLeft' <=> x \in poolLeft /\ x # next[t]
  <2>1. x \in 1 .. next'[t] /\ x \notin 1 .. (lo[t] - 1) <=>
           x \in 1 .. next[t] /\ x \notin 1 .. (lo[t] - 1) /\ x # next[t]
    BY <1>0
  <2>2. ASSUME x = next[t] PROVE x \notin poolLeft'
    BY <1>0, <1>1, <1>3, <1>4, <2>1, <2>2, LeftMember
  <2>3. ASSUME x # next[t] PROVE x \in poolLeft' <=> x \in poolLeft
    <3>1. ASSUME NEW s \in Threads PROVE x \in 1 .. next'[s] /\ x \notin 1 .. (lo'[s] - 1) <=>
                                         x \in 1 .. next[s] /\ x \notin 1 .. (lo[s] - 1)
      BY <1>0, <2>1, <2>3
    <3> QED BY <1>1, <3>1, LeftMember
  <2> QED BY <2>2, <2>3
<1> QED BY <1>2, <1>5


\* What a step that posts nothing, or no report, does to the reports.
LEMMA ReportsKept ==
    ASSUME LoopType, delivered' = delivered,
           \/ idleQ' = idleQ
           \/ \E c \in Commands : ~IsReport(c) /\ idleQ' = Append(idleQ, c)
    PROVE  poolReports' = poolReports
<1>1. idleQ \in Seq(Commands)
  BY DEF LoopType
<1>2. ReportsIn(idleQ') = ReportsIn(idleQ)' /\ Len(delivered') = Len(delivered)
  BY DEF ReportsIn
<1>3. Cardinality(ReportsIn(idleQ')) = Cardinality(ReportsIn(idleQ))
  BY <1>1, ReportsPosted
<1> QED BY <1>2, <1>3 DEF poolReports

\* The progress callbacks are no reports.
LEMMA NoReports ==
    \A x \in {"PBARINIT", "PBARUPD", "PBARDONE"} :
        [cmd |-> x] \in Commands /\ ~IsReport([cmd |-> x])
BY DEF Commands, IsReport

\* readFiles submits the files of its queue.
LEMMA Submits ==
    ASSUME OneCall, PoolInv, ReadFiles
    PROVE  Pool!PoolNext
<1>0. input \in Seq(Inputs) /\ call \in Nat /\ fileQ \in Nat
  BY QueueType DEF PoolInv, IndInv, ControlTypeOK
<1>1. input = <<>> /\ call = 0 /\ fileQ = 0
  <2>1. call = 0
    BY <1>0 DEF ReadFiles, OneCall
  <2>2. input = <<>>
    BY <1>0, <2>1 DEF call
  <2> QED BY <2>1, <2>2 DEF PoolInv, IndInv, CallInv
<1>2. \A t \in Threads : pc[t] = "none"
  BY <1>1, BoundsAssumption DEF PoolInv, IndInv, NotStarted, Threads
<1>3. PICK q \in Inputs : input' = Append(input, q)
  BY DEF ReadFiles
<1>4. main' = "alloc" /\ UNCHANGED <<fileQ, pc, lo, next, idleQ, delivered>>
  BY DEF ReadFiles, workerVars
<1>5. input' # <<>> /\ QLen' = Len(q)
  <2>1. Len(input') = 1 /\ input'[1] = q /\ input' # <<>>
    BY <1>1, <1>3
  <2> QED BY <2>1 DEF QLen, call
<1>6. poolState = "new" /\ poolState' = "busy"
  BY <1>1, <1>4, <1>5 DEF poolState
<1>7. poolLeft' = 1 .. Len(q)
  <2>1. Active' = {}
    BY <1>2, <1>4 DEF Active
  <2>2. fileQ' + 1 = 1
    BY <1>1, <1>4
  <2>3. ASSUME NEW x PROVE x \in poolLeft' <=> x \in 1 .. Len(q)
    BY <2>1, <2>2, <1>5, LeftMember
  <2> QED BY <2>3
<1>8. poolReports' = poolReports
  BY <1>4 DEF poolReports, ReportsIn
<1>9. \E B \in {1 .. Len(r) : r \in Inputs} : poolLeft' = B
  BY <1>7
<1> QED BY <1>6, <1>8, <1>9, PoolDefs

\* The steps of readFiles up to the end of its loop change nothing that ReadPool
\* sees: a file popped for a thread is as much left as one in the queue.
LEMMA Prepares ==
    ASSUME OneCall, PoolInv, AllocSlots \/ ResetList \/ ZeroCounter \/ Spawn \/ SpawnEnd
    PROVE  UNCHANGED <<poolState, poolLeft, poolReports>>
<1>0. /\ IndInv /\ CallOnce /\ fileQ \in Nat /\ QLen \in Nat /\ call \in Nat
      /\ pc \in [Threads -> Places] /\ next \in [Threads -> Int] /\ lo \in [Threads -> Nat]
  BY QueueType DEF PoolInv, IndInv, ControlTypeOK
<1>1. input # <<>> /\ input' = input /\ QLen' = QLen /\ QLen \in Nat \ {0}
  <2>1. input' = input /\ main # "loop"
    BY DEF AllocSlots, ResetList, ZeroCounter, Spawn, SpawnEnd
  <2>2. input # <<>>
    BY <1>0, <2>1 DEF IndInv, CallInv
  <2> QED BY <1>0, <2>1, <2>2, QueueType DEF QLen, call, IndInv
<1>2. poolReports' = poolReports
  <2>1. delivered' = delivered /\ (idleQ' = idleQ \/ idleQ' = Append(idleQ, [cmd |-> "PBARINIT"]))
    BY DEF AllocSlots, ResetList, ZeroCounter, Spawn, SpawnEnd, Post
  <2>2. LoopType
    BY DataTypeParts DEF PoolInv
  <2> QED BY <2>1, <2>2, NoReports, ReportsKept
<1>3. CASE AllocSlots \/ ResetList \/ ZeroCounter
  <2>1. /\ main \in {"alloc", "reset", "zero"} /\ UNCHANGED <<pc, next, lo>>
        /\ fileQ' = fileQ \/ fileQ' = 0
        /\ main' \in {"reset", "zero", "spawn"}
    BY <1>3 DEF AllocSlots, ResetList, ZeroCounter, workerVars, OneCall
  <2>2. fileQ = 0 /\ fileQ' = 0
    BY <1>0, <2>1 DEF CallOnce
  <2>3. poolState = "busy" /\ poolState' = "busy"
    BY <1>1, <2>1, <2>2 DEF poolState
  <2>4. Active' = Active
    BY <2>1 DEF Active
  <2>5. ASSUME NEW x PROVE x \in poolLeft' <=> x \in poolLeft
    BY <1>1, <2>1, <2>2, <2>4, LeftMember
  <2> QED BY <1>2, <2>3, <2>5
<1>4. CASE SpawnEnd
  <2>1. main = "spawn" /\ main' = "loop" /\ UNCHANGED <<pc, next, lo, fileQ>>
    BY <1>4 DEF SpawnEnd, workerVars
  <2>2. Active' = Active
    BY <2>1 DEF Active
  <2>3. ASSUME NEW x PROVE x \in poolLeft' <=> x \in poolLeft
    BY <1>1, <2>1, <2>2, LeftMember
  <2>4. poolState' = poolState
    BY <1>1, <2>1, <2>2 DEF poolState
  <2> QED BY <1>2, <2>3, <2>4
<1>5. CASE Spawn
  <2> DEFINE t == <<call, i>>
  <2>1. /\ main = "spawn" /\ main' = main /\ fileQ < QLen
        /\ fileQ' = PoppedAfter(numFilesPThread)
        /\ pc' = [pc EXCEPT ![t] = "start"] /\ lo' = [lo EXCEPT ![t] = fileQ + 1]
        /\ next' = [next EXCEPT ![t] = fileQ']
        /\ i < maxThreads
    BY <1>5 DEF Spawn, OneCall
  <2>2. t \in Threads /\ t[1] = call /\ t[2] = i
    <3>1. i \in 0 .. MT_FACTOR * NumCPUs /\ maxThreads \in 0 .. MT_FACTOR * NumCPUs /\ call <= MaxCalls
      BY <1>0 DEF IndInv, ControlTypeOK
    <3>2. call >= 1
      BY <1>0, <1>1, QueueType DEF IndInv
    <3> QED BY <1>0, <2>1, <3>1, <3>2, BoundsAssumption DEF Threads, ThreadNums, MT_FACTOR
  <2>3. pc[t] = "none"
    <3>1. i \in Int
      BY <1>0 DEF IndInv, ControlTypeOK
    <3> HIDE DEF t
    <3> QED BY <1>0, <2>1, <2>2, <3>1 DEF IndInv, NotStarted
  <2>4. fileQ' \in Nat /\ fileQ < fileQ' /\ fileQ' <= QLen
    <3>1. fileQ' \in Nat
      BY <1>0, <1>5, SpawnInv DEF IndInv, ControlTypeOK
    <3>2. numFilesPThread \in Nat \ {0}
      <4>1. maxThreads \in Nat \ {0}
        BY <1>5, <1>0, BoundsAssumption DEF Spawn, IndInv, ControlTypeOK, MT_FACTOR
      <4> HIDE DEF QLen
      <4>2. QLen \div maxThreads \in Nat
        BY <1>0, <4>1
      <4> QED BY <4>2 DEF numFilesPThread
    <3> QED BY <1>0, <2>1, <3>1, <3>2 DEF PoppedAfter
  <2>5. /\ \A s \in Threads : s # t => pc'[s] = pc[s] /\ lo'[s] = lo[s] /\ next'[s] = next[s]
        /\ pc'[t] = "start" /\ lo'[t] = fileQ + 1 /\ next'[t] = fileQ'
    BY <1>0, <2>1, <2>2
  <2> HIDE DEF t
  <2>6. t \notin Active /\ t \in Active' /\ \A s \in Threads : s # t => (s \in Active <=> s \in Active')
    BY <2>2, <2>3, <2>5 DEF Active
  <2>7. poolState = "busy" /\ poolState' = "busy"
    BY <1>1, <2>1, <2>6 DEF poolState
  <2>8. ASSUME NEW x PROVE x \in poolLeft' <=> x \in poolLeft
    <3>1. x \in (fileQ + 1) .. QLen <=>
            x \in (fileQ' + 1) .. QLen \/ (x \in 1 .. next'[t] /\ x \notin 1 .. (lo'[t] - 1))
      BY <1>0, <2>4, <2>5
    <3> QED BY <1>1, <2>2, <2>5, <2>6, <3>1, LeftMember
  <2> QED BY <1>2, <2>7, <2>8
<1> QED BY <1>3, <1>4, <1>5


\* A thread's step takes a file, reports, or is not seen.
LEMMA Works ==
    ASSUME OneCall, PoolInv, NEW t \in Threads, Worker(t), PoolInv'
    PROVE  Pool!PoolNext \/ UNCHANGED <<poolState, poolLeft, poolReports>>
<1>0. /\ IndInv /\ AtFile /\ LoopType /\ InSlots /\ ~overlapped /\ ~overlapped'
      /\ pc \in [Threads -> Places] /\ next \in [Threads -> Int] /\ lo \in [Threads -> Nat]
  BY DataTypeParts DEF PoolInv, IndInv, ControlTypeOK, CallOnce
<1>1. /\ UNCHANGED <<input, main, fileQ, lo>> /\ QLen' = QLen
      /\ \A s \in Threads : s # t => pc'[s] = pc[s]
      /\ t \in Active
  <2>1. Moves(t)
    BY <1>0, WorkerMoves DEF IndInv
  <2>2. pc[t] \notin {"none", "exit"}
    BY DEF Worker, Start, Identify, LoadList, LinkElement, StoreList, Finish, Collect, PostDone, PostFinish
  <2> QED BY <1>0, <2>1, <2>2 DEF Moves, QLen, call, Active
<1>2. input # <<>> /\ poolState = "busy"
  <2>1. t[1] \in 1 .. call /\ call \in Nat
    BY <1>0, <1>1, FileOf, QueueType DEF Active, IndInv
  <2>2. input # <<>>
    BY <2>1 DEF call
  <2> QED BY <1>1, <2>2 DEF poolState
<1>3. t \in Active' => poolState' = "busy"
  BY <1>1, <1>2 DEF poolState
<1>4. ASSUME t \in Active', UNCHANGED <<next, idleQ, delivered>>
      PROVE  UNCHANGED <<poolState, poolLeft, poolReports>>
  BY <1>0, <1>1, <1>2, <1>3, <1>4, LeftKept, ReportsKept
<1>5. ASSUME t \in Active', next[t] >= lo[t], NextFile(t), delivered' = delivered
      PROVE  Pool!PoolNext
  <2>1. next' = [next EXCEPT ![t] = @ - 1] /\ idleQ' = Append(idleQ, [cmd |-> "PBARUPD"])
    BY <1>5 DEF NextFile, Post
  <2>2. poolReports' = poolReports
    BY <1>0, <1>5, <2>1, NoReports, ReportsKept
  <2>3. next[t] \in poolLeft /\ poolLeft' = poolLeft \ {next[t]}
    BY <1>1, <1>5, <2>1, LeftTaken
  <2> QED BY <1>2, <1>3, <1>5, <2>2, <2>3, PoolDefs
<1>6. ASSUME pc'[t] \notin {"none", "exit"} PROVE t \in Active'
  BY <1>6 DEF Active
<1>7. CASE Start(t)
  <2>1. t[2] < maxThreads
    <3>1. t[1] = call
      <4>1. t[1] \in 1 .. MaxCalls /\ t[1] \in 1 .. call /\ call \in Nat /\ call <= MaxCalls
        BY <1>0, <1>1, FileOf, QueueType DEF Active, IndInv, ControlTypeOK
      <4> QED BY <4>1 DEF OneCall
    <3> QED BY <1>0, <1>1, <3>1 DEF InSlots, Active
  <2>2. pc'[t] = "files" /\ UNCHANGED <<next, idleQ, delivered>>
    BY <1>0, <1>7, <2>1 DEF Start
  <2> QED BY <1>4, <1>6, <2>2
<1>8. CASE Identify(t)
  <2> DEFINE kind == KindOf[FileName(t)]
  <2>1. next[t] >= lo[t] /\ delivered' = delivered
    BY <1>8 DEF Identify
  <2>2. CASE kind = "log" \/ (kind = "soh" /\ ~HasSOH(FileName(t)))
    <3>1. pc'[t] = kind /\ UNCHANGED <<next, idleQ>>
      BY <1>0, <1>8, <2>2 DEF Identify
    <3>2. pc'[t] \notin {"none", "exit"}
      BY <2>2, <3>1
    <3> QED BY <1>4, <1>6, <2>1, <3>1, <3>2
  <2>3. CASE ~(kind = "log" \/ (kind = "soh" /\ ~HasSOH(FileName(t))))
    <3>1. NextFile(t)
      BY <1>8, <2>3 DEF Identify
    <3>2. pc'[t] = "files"
      BY <1>0, <3>1 DEF NextFile
    <3> QED BY <1>5, <1>6, <2>1, <3>1, <3>2
  <2> QED BY <2>2, <2>3
<1>9. CASE LinkElement(t)
  <2>1. next[t] >= lo[t] /\ delivered' = delivered /\ NextFile(t)
    BY <1>0, <1>9 DEF LinkElement, AtFile, AtSOH, AtLog
  <2>2. pc'[t] = "files"
    BY <1>0, <2>1 DEF NextFile
  <2> QED BY <1>5, <1>6, <2>1, <2>2
<1>10. CASE LoadList(t) \/ StoreList(t) \/ Collect(t)
  <2>1. pc'[t] \notin {"none", "exit"} /\ UNCHANGED <<next, idleQ, delivered>>
    BY <1>0, <1>10 DEF LoadList, StoreList, Collect
  <2> QED BY <1>4, <1>6, <2>1
<1>11. CASE PostDone(t)
  <2>1. pc'[t] = "post" /\ UNCHANGED <<next, delivered>> /\ idleQ' = Append(idleQ, [cmd |-> "PBARDONE"])
    BY <1>0, <1>11 DEF PostDone, Post
  <2>2. poolReports' = poolReports
    BY <1>0, <2>1, NoReports, ReportsKept
  <2>3. t \in Active'
    BY <1>6, <2>1
  <2>4. poolLeft' = poolLeft
    BY <1>0, <1>1, <2>1, <2>3, LeftKept
  <2> QED BY <1>2, <1>3, <2>2, <2>3, <2>4
<1>12. CASE Finish(t)
  <2>1. /\ UNCHANGED <<next, idleQ, delivered>> /\ next[t] < lo[t]
        /\ pc'[t] = IF numThreads' = 0 THEN "collect" ELSE "exit"
    BY <1>0, <1>12 DEF Finish, AtFile
  <2>2. poolReports' = poolReports /\ poolLeft' = poolLeft
    BY <1>0, <1>1, <2>1, ReportsKept, LeftKept
  <2>3. poolState' = "busy"
    <3>1. CASE numThreads' = 0
      BY <1>3, <1>6, <2>1, <3>1
    <3>2. CASE numThreads' # 0
      <4>1. Cardinality(Live') # 0
        BY <1>0, <3>2 DEF PoolInv, IndInv, CounterExact
      <4>2. Live' # {}
        BY <4>1, FS_EmptySet
      <4>3. Active' # {}
        BY <4>2 DEF Live, Active
      <4> QED BY <1>1, <1>2, <4>3 DEF poolState
    <3> QED BY <3>1, <3>2
  <2> QED BY <1>2, <2>2, <2>3
<1>13. CASE PostFinish(t)
  <2> DEFINE c == [cmd |-> "readHdr_finish", list |-> traceList]
  <2>1. UNCHANGED <<next, delivered>> /\ next[t] < lo[t] /\ idleQ' = Append(idleQ, c)
    BY <1>0, <1>13 DEF PostFinish, Post, AtFile
  <2>2. poolReports' = poolReports + 1
    <3>1. c \in Commands /\ IsReport(c) /\ idleQ \in Seq(Commands) /\ Len(delivered) \in Nat
      <4>1. traceList \in Seq(Traces)
        BY DataTypeParts DEF PoolInv, ListsType
      <4> QED BY <4>1, <1>0, CommandTypes DEF IsReport, LoopType
    <3>2. ReportsIn(idleQ') = ReportsIn(idleQ)' /\ Len(delivered') = Len(delivered)
      BY <2>1 DEF ReportsIn
    <3> HIDE DEF c
    <3>3. Cardinality(ReportsIn(idleQ')) = Cardinality(ReportsIn(idleQ)) + 1
          /\ Cardinality(ReportsIn(idleQ)) \in Nat
      BY <2>1, <3>1, ReportsPosted
    <3> QED BY <3>1, <3>2, <3>3 DEF poolReports
  <2>3. poolLeft' = poolLeft
    BY <1>0, <1>1, <2>1, LeftKept
  <2>4. CASE poolState' = "busy"
    BY <1>2, <2>2, <2>3, <2>4, PoolDefs
  <2>5. CASE poolState' # "busy"
    <3>1. poolState' = "rest" /\ Active' = {} /\ ~(fileQ < QLen)
      BY <1>1, <1>2, <2>5 DEF poolState
    <3>2. fileQ \in Nat /\ QLen \in Nat
      BY <1>0, QueueType DEF IndInv, ControlTypeOK
    <3>3. poolLeft' = {}
      <4>1. ASSUME NEW x PROVE x \notin poolLeft'
        BY <1>1, <3>1, <3>2, LeftMember
      <4> QED BY <4>1
    <3> QED BY <1>2, <2>2, <2>3, <3>1, <3>3, PoolDefs
  <2> QED BY <2>4, <2>5
<1> QED BY <1>7, <1>8, <1>9, <1>10, <1>11, <1>12, <1>13 DEF Worker

\* The main loop runs what was posted: a report moves from posted to delivered.
LEMMA ReportsDelivered ==
    ASSUME LoopType, Dispatch
    PROVE  poolReports' = poolReports
<1>1. /\ idleQ \in Seq(Commands) /\ idleQ # <<>> /\ idleQ' = Tail(idleQ)
      /\ delivered \in Seq(Seq(Traces)) /\ Len(delivered) \in Nat
  BY DEF LoopType, Dispatch
<1>2. /\ Cardinality(ReportsIn(idleQ)) =
           IF IsReport(Head(idleQ)) THEN Cardinality(ReportsIn(idleQ')) + 1
           ELSE Cardinality(ReportsIn(idleQ'))
      /\ idleQ' \in Seq(Commands)
  BY <1>1, ReportsRun
<1>3. Cardinality(ReportsIn(idleQ')) \in Nat
  BY <1>2, NoReports, ReportsPosted
<1>4. \/ IsReport(Head(idleQ)) /\ Len(delivered') = Len(delivered) + 1
      \/ ~IsReport(Head(idleQ)) /\ Len(delivered') = Len(delivered)
  <2>1. CASE IsReport(Head(idleQ))
    <3>1. delivered' = Append(delivered, Head(idleQ).list)
      BY <2>1 DEF Dispatch, PBarUpd, IsReport
    <3> QED BY <1>1, <2>1, <3>1
  <2>2. CASE ~IsReport(Head(idleQ))
    BY <2>2 DEF Dispatch, IsReport
  <2> QED BY <2>1, <2>2
<1>5. ReportsIn(idleQ') = ReportsIn(idleQ)' /\ Len(delivered) \in Nat
  BY <1>1 DEF ReportsIn
<1> QED BY <1>2, <1>3, <1>4, <1>5 DEF poolReports

LEMMA Runs ==
    ASSUME PoolInv, Dispatch
    PROVE  UNCHANGED <<poolState, poolLeft, poolReports>>
<1>1. UNCHANGED <<input, main, fileQ, pc, lo, next>>
  BY DEF Dispatch, mainVars, workerVars
<1>2. Active' = Active /\ QLen' = QLen
  BY <1>1 DEF Active, QLen, call
<1>3. UNCHANGED <<poolState, poolLeft>>
  BY <1>1, <1>2 DEF poolState, poolLeft
<1>4. poolReports' = poolReports
  BY DataTypeParts, ReportsDelivered DEF PoolInv
<1> QED BY <1>3, <1>4

\* Seen from readHdr_1, one call of readFiles is a run of ReadPool: every file of
\* the queue is worked on once, and the pool comes to rest only with a report made
\* when no file is left, for any queue and any number of CPUs.
THEOREM ImplementsPoolSafe == ASSUME OneCall PROVE Spec => Pool!PoolSafe
<1>1. Init => InSlots /\ CallOnce /\ Pool!PoolInit
  <2> SUFFICES ASSUME Init PROVE InSlots /\ CallOnce /\ Pool!PoolInit
    OBVIOUS
  <2>1. InSlots /\ CallOnce
    BY DEF Init, InSlots, CallOnce
  <2>2. poolState = "new"
    BY DEF Init, poolState
  <2>3. poolLeft = {}
    <3>1. fileQ = 0 /\ QLen = 0 /\ Active = {}
      BY DEF Init, QLen, Active
    <3>2. ASSUME NEW x PROVE x \notin poolLeft
      BY <3>1, LeftMember
    <3> QED BY <3>2
  <2>4. poolReports = 0
    <3>1. Len(delivered) = 0 /\ ReportsIn(idleQ) = {}
      BY DEF Init, ReportsIn
    <3> QED BY <3>1, FS_EmptySet DEF poolReports
  <2> QED BY <2>1, <2>2, <2>3, <2>4, PoolDefs
<1>2. TypeInv /\ InSlots /\ CallOnce => PoolInv
  BY DEF TypeInv, PoolInv
<1>3. TypeInv /\ InSlots /\ CallOnce /\ [Next]_vars => InSlots' /\ CallOnce'
  BY NextInSlots, NextCallOnce DEF TypeInv
<1>4. PoolInv /\ PoolInv' /\ [Next]_vars => [Pool!PoolNext]_(Pool!poolVars)
  <2> SUFFICES ASSUME PoolInv, PoolInv', [Next]_vars PROVE Pool!PoolNext \/ UNCHANGED Pool!poolVars
    OBVIOUS
  <2>1. CASE Quiet \/ UNCHANGED vars
    <3>1. UNCHANGED <<input, main, fileQ, pc, lo, next, idleQ, delivered>>
      BY <2>1 DEF Quiet, vars, mainVars, workerVars
    <3>2. UNCHANGED <<poolState, poolLeft, poolReports>>
      BY <3>1 DEF poolState, poolLeft, poolReports, ReportsIn, Active, QLen, call
    <3> QED BY <3>2, PoolDefs
  <2> QED BY <2>1, Submits, Prepares, Works, Runs, PoolDefs DEF Next, Main
<1> QED BY <1>1, <1>2, <1>3, <1>4, AlwaysTypeInv, PTL DEF Spec, Pool!PoolSafe


-----------------------------------------------------------------------------
(* What a call reports.                                                    *)

\* The traces of the files a .. b of a queue q that are readable.
ReadableIn(q, a, b) == {<<1, f>> : f \in {g \in a .. b : KindOf[q[g]] # "unreadable"}}

\* The list a thread makes of the files a .. b, the last one first.
IsRun(q, list, a, b) ==
    /\ Elems(list) = ReadableIn(q, a, b)
    /\ \A j, k \in 1 .. Len(list) : j < k => list[j][2] > list[k][2]

\* The last file of chunk k.
ChunkEnd(q, k) ==
    IF (k + 1) * PerThread(Len(q)) < Len(q) THEN (k + 1) * PerThread(Len(q)) ELSE Len(q)

\* Chunks of p files in order, the files of a chunk in reverse: InChunkOrder.
ChunkOrder(list, p) ==
    \A a, b \in 1 .. Len(list) : a < b =>
        \/ (list[a][2] - 1) \div p < (list[b][2] - 1) \div p
        \/ (list[a][2] - 1) \div p = (list[b][2] - 1) \div p /\ list[a][2] > list[b][2]

\* Every readable file of q once, in chunk order.
IsResult(q, list) ==
    /\ list \in Seq(Traces)
    /\ Elems(list) = ReadableIn(q, 1, Len(q))
    /\ ChunkOrder(list, PerThread(Len(q)))

\* The first file of its chunk that a thread has identified.
Identified(t) == IF pc[t] \in AtSOH \cup AtLog THEN next[t] ELSE next[t] + 1
Stored(t) == pc[t] \in {"finish", "collect", "done", "post", "exit"}
Reporting == {t \in Threads : pc[t] \in {"collect", "done", "post"}}
SlotOf(k) == <<1, k>>

\* A thread has found nothing before it starts, and then the readable files of its
\* chunk that it has passed.
RunInv ==
    /\ \A t \in Threads : pc[t] = "none" => threadList[t] = <<>>
    /\ call = 1 => \A t \in Threads : pc[t] # "none" =>
                      IsRun(input[1], threadList[t], Identified(t), ChunkEnd(input[1], t[2]))

\* Until the slots are joined each holds the list of its thread, or nothing yet.
SlotRunInv ==
    (call = 1 /\ main # "alloc" /\ threadTraces # NoArray) =>
        /\ DOMAIN threadTraces = 0 .. maxThreads - 1
        /\ \A k \in 0 .. maxThreads - 1 :
             threadTraces[k] = IF Stored(SlotOf(k)) THEN threadList[SlotOf(k)] ELSE <<>>

\* Every report posted or delivered is a result for queue q.
GoodReports(q, posted, done) ==
    /\ \A k \in DOMAIN posted : IsReport(posted[k]) => IsResult(q, posted[k].list)
    /\ \A k \in DOMAIN done : IsResult(q, done[k])

\* Nobody joins the slots yet, and nothing was reported.
Waiting ==
    /\ Reporting = {} /\ poolReports = 0 /\ traceList = <<>>
    /\ main # "alloc" => threadTraces # NoArray

\* The first call, as long as no thread counted to zero with files still queued.
Calm == call = 1 /\ ~early /\ ~overlapped

\* One thread joins the slots and reports: every file is handed out, no thread is
\* working, and from then on there is one report or one thread about to make it.
Closing ==
    /\ Live = {} /\ fileQ = QLen /\ main \in {"spawn", "loop"}
    /\ \A s, t \in Reporting : s = t
    /\ Reporting # {} => poolReports = 0
    /\ poolReports <= 1
    /\ \A t \in Reporting :
         /\ pc[t] = "collect" => traceList = <<>> /\ threadTraces # NoArray
         /\ pc[t] # "collect" => IsResult(input[1], traceList)

\* The first thread to join the slots does so when every file was handed out and
\* every thread is through, so it is the only one, and it reports what is expected.
ReportInv ==
    /\ call = 0 => idleQ = <<>> /\ delivered = <<>> /\ traceList = <<>>
    /\ Calm => (Waiting \/ Closing) /\ GoodReports(input[1], idleQ, delivered)

\* One more file at the front of the interval goes to the end of the list.
LEMMA RunExtend ==
    ASSUME NEW q, NEW list \in Seq(Traces), NEW a \in Nat, NEW b \in Nat, a <= b,
           IsRun(q, list, a + 1, b)
    PROVE  /\ KindOf[q[a]] # "unreadable" => IsRun(q, Append(list, <<1, a>>), a, b)
           /\ KindOf[q[a]] = "unreadable" => IsRun(q, list, a, b)
<1>1. /\ Elems(list) = ReadableIn(q, a + 1, b)
      /\ \A j, k \in 1 .. Len(list) : j < k => list[j][2] > list[k][2]
      /\ Len(list) \in Nat /\ DOMAIN list = 1 .. Len(list)
  BY DEF IsRun
<1>2. ASSUME NEW f \in Int PROVE f \in a .. b <=> f = a \/ f \in (a + 1) .. b
  OBVIOUS
<1>3. CASE KindOf[q[a]] = "unreadable"
  <2>1. ASSUME NEW x PROVE x \in ReadableIn(q, a, b) <=> x \in ReadableIn(q, a + 1, b)
    <3>1. ASSUME NEW f \in a .. b, KindOf[q[f]] # "unreadable" PROVE f \in (a + 1) .. b
      BY <1>3, <3>1
    <3>2. (a + 1) .. b \subseteq a .. b
      OBVIOUS
    <3> QED BY <3>1, <3>2 DEF ReadableIn
  <2> QED BY <1>1, <1>3, <2>1 DEF IsRun
<1>4. CASE KindOf[q[a]] # "unreadable"
  <2> DEFINE new == Append(list, <<1, a>>)
  <2>1. /\ Len(new) = Len(list) + 1 /\ DOMAIN new = 1 .. Len(list) + 1
        /\ \A k \in 1 .. Len(list) : new[k] = list[k]
        /\ new[Len(list) + 1] = <<1, a>>
    BY <1>1
  <2> HIDE DEF new
  <2>2. Elems(new) = Elems(list) \cup {<<1, a>>}
    <3>1. 1 .. Len(list) + 1 = 1 .. Len(list) \cup {Len(list) + 1}
      BY <1>1
    <3>2. \A k \in DOMAIN new : new[k] \in Elems(list) \cup {<<1, a>>}
      BY <1>1, <2>1, <3>1 DEF Elems
    <3>3. \A k \in DOMAIN list : list[k] = new[k] /\ k \in DOMAIN new
      BY <1>1, <2>1, <3>1
    <3>4. <<1, a>> \in Elems(new) /\ Elems(list) \subseteq Elems(new)
      BY <1>1, <2>1, <3>3 DEF Elems
    <3> QED BY <3>2, <3>4 DEF Elems
  <2>3. ReadableIn(q, a, b) = ReadableIn(q, a + 1, b) \cup {<<1, a>>}
    <3>1. a .. b = (a + 1) .. b \cup {a}
      OBVIOUS
    <3> QED BY <1>4, <3>1 DEF ReadableIn
  <2>4. ASSUME NEW j \in 1 .. Len(list) PROVE list[j][2] > a
    <3>1. list[j] \in ReadableIn(q, a + 1, b)
      BY <1>1 DEF Elems
    <3>2. PICK f \in (a + 1) .. b : list[j] = <<1, f>>
      BY <3>1 DEF ReadableIn
    <3> QED BY <3>2
  <2>5. ASSUME NEW j \in 1 .. Len(new), NEW k \in 1 .. Len(new), j < k PROVE new[j][2] > new[k][2]
    <3>1. CASE k = Len(list) + 1
      <4>1. j \in 1 .. Len(list) /\ new[k] = <<1, a>>
        BY <1>1, <2>1, <2>5, <3>1
      <4> QED BY <2>1, <2>4, <4>1
    <3>2. CASE k # Len(list) + 1
      <4>1. j \in 1 .. Len(list) /\ k \in 1 .. Len(list)
        BY <1>1, <2>1, <2>5, <3>2
      <4> QED BY <1>1, <2>1, <2>5, <4>1
    <3> QED BY <3>1, <3>2
  <2> QED BY <1>1, <1>4, <2>2, <2>3, <2>5 DEF IsRun, new
<1> QED BY <1>3, <1>4

LEMMA DivBounds ==
    ASSUME NEW y \in Nat, NEW p \in Nat \ {0}
    PROVE  y \div p \in Nat /\ p * (y \div p) <= y /\ y < p * (y \div p) + p
BY Z3

\* The first e files out of n and the next p.
LEMMA FirstFiles ==
    ASSUME NEW e \in Nat, NEW p \in Nat, NEW n \in Nat
    PROVE  LET a == IF e < n THEN e ELSE n
               b == IF e + p < n THEN e + p ELSE n
           IN  1 .. b = 1 .. a \cup (e + 1) .. b
<1> DEFINE a == IF e < n THEN e ELSE n
           b == IF e + p < n THEN e + p ELSE n
<1>1. a \in Nat /\ b \in Nat /\ a <= b /\ a <= e /\ (e <= b => a = e) /\ (b <= e => a = b)
  OBVIOUS
<1> HIDE DEF a, b
<1>2. 1 .. b = 1 .. a \cup (e + 1) .. b
  BY <1>1
<1> QED BY <1>2 DEF a, b

\* Which chunk a file is in.
LEMMA ChunkOf ==
    ASSUME NEW j \in Nat, NEW p \in Nat \ {0}, NEW f \in (j * p + 1) .. (j + 1) * p
    PROVE  (f - 1) \div p = j
<1> DEFINE d == (f - 1) \div p
<1>1. (j + 1) * p = j * p + p /\ j * p \in Nat
  BY NextChunk
<1>2. f - 1 \in Nat /\ j * p <= f - 1 /\ f - 1 < j * p + p
  BY <1>1
<1>3. d \in Nat /\ p * d <= f - 1 /\ f - 1 < p * d + p
  BY <1>2, DivBounds
<1>4. d * p = p * d /\ d * p \in Nat
  BY <1>3
<1> HIDE DEF d
<1>5. ~(d < j)
  <2> SUFFICES ASSUME d < j PROVE FALSE
    OBVIOUS
  <2>1. (d + 1) * p <= j * p
    BY <1>3, ChunksOrdered
  <2>2. (d + 1) * p = d * p + p
    BY <1>3, NextChunk
  <2> QED BY <1>1, <1>2, <1>3, <1>4, <2>1, <2>2
<1>6. ~(j < d)
  <2> SUFFICES ASSUME j < d PROVE FALSE
    OBVIOUS
  <2>1. (j + 1) * p <= d * p
    BY <1>3, ChunksOrdered
  <2> QED BY <1>1, <1>2, <1>3, <1>4, <2>1
<1>7. d = j
  BY <1>3, <1>5, <1>6
<1> QED BY <1>7 DEF d

\* The files of the first j chunks of p files out of n.
UpTo(j, p, n) == IF j * p < n THEN j * p ELSE n

\* The lists of the chunks, joined in order, are the readable files in chunk order.
LEMMA JoinRuns ==
    ASSUME NEW q, NEW n \in Nat, NEW p \in Nat \ {0}, NEW a, NEW m \in Nat,
           \A k \in 0 .. m - 1 : a[k] \in Seq(Traces) /\ IsRun(q, a[k], k * p + 1, UpTo(k + 1, p, n))
    PROVE  /\ JoinSlots(a, m) \in Seq(Traces)
           /\ Elems(JoinSlots(a, m)) = ReadableIn(q, 1, UpTo(m, p, n))
           /\ ChunkOrder(JoinSlots(a, m), p)
<1>1. PICK f : /\ f[0] = <<>> /\ JoinSlots(a, m) = f[m]
               /\ \A k \in 0 .. m - 1 : f[k + 1] = f[k] \o a[k]
  BY JoinSteps
<1> DEFINE Good(j) == /\ f[j] \in Seq(Traces)
                      /\ Elems(f[j]) = ReadableIn(q, 1, UpTo(j, p, n))
                      /\ ChunkOrder(f[j], p)
           Q == {j \in Nat : j <= m => Good(j)}
<1>2. 0 \in Q
  <2>1. f[0] = <<>> /\ <<>> \in Seq(Traces) /\ UpTo(0, p, n) = 0
    BY <1>1 DEF UpTo
  <2>2. Elems(<<>>) = {} /\ ReadableIn(q, 1, 0) = {}
    BY DEF Elems, ReadableIn
  <2>3. ChunkOrder(<<>>, p)
    BY DEF ChunkOrder
  <2> QED BY <2>1, <2>2, <2>3
<1>3. ASSUME NEW j \in Q PROVE j + 1 \in Q
  <2> SUFFICES ASSUME j + 1 <= m PROVE Good(j + 1)
    OBVIOUS
  <2>1. j \in 0 .. m - 1 /\ Good(j) /\ j \in Nat
    OBVIOUS
  <2> DEFINE s == f[j]
             t == a[j]
  <2>2. f[j + 1] = s \o t /\ t \in Seq(Traces) /\ IsRun(q, t, j * p + 1, UpTo(j + 1, p, n))
    BY <1>1, <2>1
  <2>3. s \in Seq(Traces) /\ Elems(s) = ReadableIn(q, 1, UpTo(j, p, n)) /\ ChunkOrder(s, p)
    BY <2>1
  <2> HIDE DEF s, t, Q, Good
  <2>4. /\ s \o t \in Seq(Traces) /\ Elems(s \o t) = Elems(s) \cup Elems(t)
        /\ Len(s \o t) = Len(s) + Len(t) /\ Len(s) \in Nat /\ Len(t) \in Nat
        /\ DOMAIN s = 1 .. Len(s) /\ DOMAIN t = 1 .. Len(t)
        /\ \A k \in 1 .. Len(s) : (s \o t)[k] = s[k]
        /\ \A k \in 1 .. Len(t) : (s \o t)[Len(s) + k] = t[k]
    BY <2>2, <2>3, ConcatenationProperties
  <2>5. (j + 1) * p = j * p + p /\ j * p \in Nat /\ j \in Nat
    BY <2>1, NextChunk
  <2>6. UpTo(j, p, n) \in Nat /\ UpTo(j, p, n) <= j * p /\ UpTo(j + 1, p, n) <= (j + 1) * p
        /\ UpTo(j + 1, p, n) \in Nat
    BY <2>5 DEF UpTo
  <2>7. ReadableIn(q, 1, UpTo(j + 1, p, n)) = ReadableIn(q, 1, UpTo(j, p, n)) \cup ReadableIn(q, j * p + 1, UpTo(j + 1, p, n))
    <3>1. 1 .. UpTo(j + 1, p, n) = 1 .. UpTo(j, p, n) \cup (j * p + 1) .. UpTo(j + 1, p, n)
      <4> DEFINE e == j * p
      <4>1. /\ UpTo(j, p, n) = IF e < n THEN e ELSE n
            /\ UpTo(j + 1, p, n) = IF e + p < n THEN e + p ELSE n
            /\ e \in Nat
        BY <2>5 DEF UpTo
      <4>2. 1 .. UpTo(j + 1, p, n) = 1 .. UpTo(j, p, n) \cup (e + 1) .. UpTo(j + 1, p, n)
        <5> HIDE DEF e
        <5> QED BY <4>1, FirstFiles
      <4> QED BY <4>2
    <3> QED BY <3>1 DEF ReadableIn
  <2>8. Elems(s \o t) = ReadableIn(q, 1, UpTo(j + 1, p, n))
    BY <2>2, <2>3, <2>4, <2>7 DEF IsRun
  <2>9. ASSUME NEW k \in 1 .. Len(s) PROVE s[k][2] \in Nat /\ (s[k][2] - 1) \div p < j
    <3>1. s[k] \in ReadableIn(q, 1, UpTo(j, p, n))
      BY <2>3, <2>4 DEF Elems
    <3>2. PICK x \in 1 .. UpTo(j, p, n) : s[k] = <<1, x>>
      BY <3>1 DEF ReadableIn
    <3>3. x \in Nat /\ x - 1 \in Nat /\ x - 1 < j * p
      BY <2>5, <2>6, <3>2
    <3>4. (x - 1) \div p < j
      <4> DEFINE d == (x - 1) \div p
      <4>1. d \in Nat /\ p * d <= x - 1
        BY <3>3, DivBounds
      <4>2. d * p = p * d /\ d * p \in Nat
        BY <4>1
      <4> HIDE DEF d
      <4>3. d < j
        <5> SUFFICES ASSUME j <= d PROVE FALSE
          BY <2>5, <4>1
        <5>1. j * p <= d * p
          <6>1. CASE j = d
            BY <6>1, <4>2
          <6>2. CASE j < d
            <7>1. (j + 1) * p <= d * p
              BY <6>2, <2>5, <4>1, ChunksOrdered
            <7> QED BY <7>1, <2>5, <4>2
          <6> QED BY <6>1, <6>2, <2>5, <4>1
        <5> QED BY <5>1, <4>1, <4>2, <3>3, <2>5
      <4> QED BY <4>3 DEF d
    <3> QED BY <3>2, <3>3, <3>4
  <2>10. ASSUME NEW k \in 1 .. Len(t) PROVE (t[k][2] - 1) \div p = j
    <3>1. t[k] \in ReadableIn(q, j * p + 1, UpTo(j + 1, p, n))
      BY <2>2, <2>4 DEF IsRun, Elems
    <3>2. PICK x \in (j * p + 1) .. UpTo(j + 1, p, n) : t[k] = <<1, x>>
      BY <3>1 DEF ReadableIn
    <3>3. x \in (j * p + 1) .. (j + 1) * p
      BY <2>5, <2>6, <3>2
    <3>4. (x - 1) \div p = j
      BY <2>5, <3>3, ChunkOf
    <3> QED BY <3>2, <3>4
  <2>11. ASSUME NEW k \in 1 .. Len(s \o t), NEW l \in 1 .. Len(s \o t), k < l
         PROVE  LET u == s \o t IN
                \/ (u[k][2] - 1) \div p < (u[l][2] - 1) \div p
                \/ (u[k][2] - 1) \div p = (u[l][2] - 1) \div p /\ u[k][2] > u[l][2]
    <3> DEFINE u == s \o t
    <3>1. CASE l <= Len(s)
      <4>1. k \in 1 .. Len(s) /\ l \in 1 .. Len(s)
        BY <2>4, <2>11, <3>1
      <4>2. u[k] = s[k] /\ u[l] = s[l]
        BY <2>4, <4>1
      <4> QED BY <2>3, <2>11, <4>1, <4>2 DEF ChunkOrder
    <3>2. CASE k <= Len(s) /\ l > Len(s)
      <4>1. k \in 1 .. Len(s) /\ l - Len(s) \in 1 .. Len(t) /\ Len(s) + (l - Len(s)) = l
        BY <2>4, <3>2
      <4>2. u[k] = s[k] /\ u[l] = t[l - Len(s)]
        BY <2>4, <4>1
      <4> QED BY <2>9, <2>10, <4>1, <4>2
    <3>3. CASE k > Len(s)
      <4>1. /\ k - Len(s) \in 1 .. Len(t) /\ Len(s) + (k - Len(s)) = k
            /\ l - Len(s) \in 1 .. Len(t) /\ Len(s) + (l - Len(s)) = l
            /\ k - Len(s) < l - Len(s)
        BY <2>4, <2>11, <3>3
      <4>2. u[k] = t[k - Len(s)] /\ u[l] = t[l - Len(s)]
        BY <2>4, <4>1
      <4>3. t[k - Len(s)][2] > t[l - Len(s)][2]
        BY <2>2, <4>1 DEF IsRun
      <4> QED BY <2>10, <4>1, <4>2, <4>3
    <3> QED BY SMTT(30), <2>4, <3>1, <3>2, <3>3
  <2>12. ChunkOrder(s \o t, p)
    BY <2>11 DEF ChunkOrder
  <2> QED BY <2>2, <2>4, <2>8, <2>12 DEF Good
<1> HIDE DEF Q
<1>4. Q = Nat
  BY <1>2, <1>3, SetInduction DEF Q
<1>5. m \in Q
  BY <1>4
<1> QED BY <1>1, <1>5 DEF Q

LEMMA ResultComplete ==
    ASSUME IndInv, call = 1, NEW list, IsResult(input[1], list)
    PROVE  /\ {list[k] : k \in 1 .. Len(list)} = Expected(1)
           /\ Len(list) = Cardinality(Expected(1))
           /\ InChunkOrder(list)
<1>1. /\ list \in Seq(Traces) /\ Elems(list) = ReadableIn(input[1], 1, Len(input[1]))
      /\ ChunkOrder(list, PerThread(Len(input[1])))
  BY DEF IsResult
<1>2. Expected(1) = Elems(list) /\ Elems(list) = {list[k] : k \in 1 .. Len(list)}
  BY <1>1 DEF Expected, ReadableIn, Elems
<1>3. ASSUME NEW j \in 1 .. Len(list), NEW k \in 1 .. Len(list), j < k PROVE list[j] # list[k]
  <2> SUFFICES ASSUME list[j] = list[k] PROVE FALSE
    OBVIOUS
  <2>1. list[j] \in Traces
    BY <1>1
  <2>2. list[j][2] \in Nat
    BY <2>1 DEF Traces
  <2>3. PerThread(Len(input[1])) \in Nat \ {0}
    BY QueueType, PerThreadType DEF IndInv
  <2>4. (list[j][2] - 1) \div PerThread(Len(input[1])) \in Int
    BY <2>2, <2>3
  <2> QED BY <1>1, <1>3, <2>2, <2>4 DEF ChunkOrder
<1>4. Len(list) = Cardinality(Expected(1))
  <2>1. Distinct(list)
    <3>1. Len(list) \in Nat /\ DOMAIN list = 1 .. Len(list)
      BY <1>1
    <3> QED BY <3>1, <1>3 DEF Distinct
  <2> QED BY <1>1, <1>2, <2>1, DistinctLength
<1>5. numFilesPThread = PerThread(Len(input[1]))
  <2>1. input # <<>> /\ QLen = Len(input[1]) /\ maxThreads = MaxThreads(QLen)
    BY DEF call, QLen, IndInv, CallInv
  <2> QED BY <2>1 DEF numFilesPThread, PerThread
<1>6. InChunkOrder(list)
  BY <1>1, <1>5 DEF InChunkOrder, ChunkOrder
<1> QED BY <1>2, <1>4, <1>6

\* In the first call every thread that runs belongs to it.
LEMMA FirstCall ==
    ASSUME IndInv, call = 1
    PROVE  /\ input # <<>> /\ QLen = Len(input[1]) /\ QLen \in Nat \ {0} /\ 1 \in 1 .. MaxCalls
           /\ maxThreads = MaxThreads(QLen) /\ maxThreads \in 1 .. MT_FACTOR * NumCPUs
           /\ PerThread(QLen) \in Nat \ {0} /\ numFilesPThread = PerThread(QLen)
           /\ \A t \in Threads : pc[t] # "none" => t[1] = 1 /\ t = SlotOf(t[2]) /\ t[2] \in Nat
           /\ \A k \in 0 .. maxThreads - 1 : SlotOf(k) \in Threads /\ SlotOf(k)[1] = 1 /\ SlotOf(k)[2] = k
<1>0. ControlTypeOK /\ CallInv /\ Chunks
  BY DEF IndInv
<1>1. input # <<>>
  BY DEF call
<1>2. QLen = Len(input[1]) /\ QLen \in Nat \ {0} /\ call <= MaxCalls
  BY <1>0, <1>1, QueueType DEF ControlTypeOK
<1>3. maxThreads = MaxThreads(QLen) /\ maxThreads \in 1 .. MT_FACTOR * NumCPUs
  BY <1>0, <1>1, <1>2, MaxThreadsRange DEF CallInv
<1>4. PerThread(QLen) \in Nat \ {0} /\ numFilesPThread = PerThread(QLen)
  BY <1>2, <1>3, PerThreadType DEF numFilesPThread, PerThread
<1>5. 1 \in 1 .. MaxCalls
  BY <1>2, BoundsAssumption
<1>6. ASSUME NEW t \in Threads, pc[t] # "none" PROVE t[1] = 1 /\ t = SlotOf(t[2]) /\ t[2] \in Nat
  <2>1. t[1] \in 1 .. MaxCalls /\ t = <<t[1], t[2]>> /\ t[2] \in Nat
    BY BoundsAssumption DEF Threads, ThreadNums, MT_FACTOR
  <2>2. t[1] <= 1
    BY <1>0, <1>6 DEF Chunks
  <2> QED BY <2>1, <2>2, BoundsAssumption DEF SlotOf
<1>7. ASSUME NEW k \in 0 .. maxThreads - 1
      PROVE  SlotOf(k) \in Threads /\ SlotOf(k)[1] = 1 /\ SlotOf(k)[2] = k
  BY <1>3, <1>5, BoundsAssumption DEF SlotOf, Threads, ThreadNums, MT_FACTOR
<1> QED BY <1>1, <1>2, <1>3, <1>4, <1>5, <1>6, <1>7

\* A thread's list grows with the files it passes.
LEMMA WorkerRun ==
    ASSUME IndInv, DataTypeOK, AtFile, RunInv, NEW t \in Threads, Worker(t)
    PROVE  RunInv'
<1>0. /\ pc \in [Threads -> Places] /\ next \in [Threads -> Int] /\ lo \in [Threads -> Nat]
      /\ input' = input /\ call' = call /\ pc[t] # "none"
      /\ threadList \in [Threads -> Seq(Traces)]
  <2>1. Moves(t)
    BY WorkerMoves DEF IndInv
  <2> QED BY <2>1 DEF Moves, IndInv, ControlTypeOK, call, DataTypeOK
<1>1. \A s \in Threads : s # t => pc'[s] = pc[s] /\ next'[s] = next[s] /\ threadList'[s] = threadList[s]
  <2>1. \A s \in Threads : s # t => threadList'[s] = threadList[s]
    BY <1>0 DEF Worker, Start, Identify, LoadList, LinkElement, StoreList, Finish, Collect, PostDone, PostFinish
  <2> QED BY <2>1, OthersStay
<1>2. pc'[t] # "none"
  <2>1. Moves(t)
    BY WorkerMoves DEF IndInv
  <2> QED BY <1>0, <2>1 DEF Moves
<1> SUFFICES ASSUME call = 1
             PROVE  IsRun(input[1], threadList'[t], Identified(t)', ChunkEnd(input[1], t[2]))
  <2>1. \A s \in Threads : s # t => Identified(s)' = Identified(s)
    BY <1>1 DEF Identified
  <2> QED BY <1>0, <1>1, <1>2, <2>1 DEF RunInv
<1>3. IsRun(input[1], threadList[t], Identified(t), ChunkEnd(input[1], t[2]))
  BY <1>0 DEF RunInv
<1>4. CASE Identify(t)
  <2> DEFINE kind == KindOf[FileName(t)]
             a == next[t]
             b == ChunkEnd(input[1], t[2])
  <2>1. a >= lo[t] /\ pc[t] = "files"
    BY <1>4 DEF Identify
  <2>2. t[1] = 1 /\ a \in Nat /\ a <= b /\ b \in Nat
    <3>1. t[1] = 1 /\ PerThread(Len(input[1])) \in Nat \ {0} /\ t[2] \in Nat /\ Len(input[1]) \in Nat
      BY <1>0, FirstCall
    <3>2. a <= (t[2] + 1) * PerThread(Len(input[1])) /\ a <= Len(input[1]) /\ a \in Nat
      <4>1. a <= (t[2] + 1) * PerThread(Len(input[1])) /\ a <= Len(input[1])
        BY <1>0, <3>1 DEF IndInv, Chunks
      <4>2. lo[t] \in Nat /\ a \in Int
        BY <1>0
      <4> QED BY <2>1, <4>1, <4>2
    <3>3. (t[2] + 1) * PerThread(Len(input[1])) \in Nat
      BY <3>1
    <3> QED BY <3>1, <3>2, <3>3 DEF ChunkEnd
  <2>3. Identified(t) = a + 1 /\ KindOf[input[1][a]] = kind
    BY <2>1, <2>2 DEF Identified, AtSOH, AtLog, FileName
  <2>4. Identified(t)' = a
    <3>1. CASE kind = "log" \/ (kind = "soh" /\ ~HasSOH(FileName(t)))
      <4>1. pc'[t] = kind /\ next' = next
        BY <1>0, <1>4, <3>1 DEF Identify
      <4> QED BY <3>1, <4>1 DEF Identified, AtSOH, AtLog
    <3>2. CASE ~(kind = "log" \/ (kind = "soh" /\ ~HasSOH(FileName(t))))
      <4>1. pc'[t] = "files" /\ next'[t] = a - 1
        BY <1>0, <1>4, <3>2 DEF Identify, NextFile
      <4> QED BY <2>2, <4>1 DEF Identified, AtSOH, AtLog
    <3> QED BY <3>1, <3>2
  <2>5. threadList'[t] = IF kind = "unreadable" THEN threadList[t] ELSE Append(threadList[t], <<1, a>>)
    BY <1>0, <1>4, <2>2 DEF Identify
  <2>6. threadList[t] \in Seq(Traces)
    BY <1>0
  <2> HIDE DEF a, b, kind
  <2> QED BY <1>3, <2>2, <2>3, <2>4, <2>5, <2>6, RunExtend DEF b
<1>5. CASE ~Identify(t)
  <2>1. threadList' = threadList
    BY <1>5 DEF Worker, Start, LoadList, LinkElement, StoreList, Finish, Collect, PostDone, PostFinish
  <2>2. Identified(t)' = Identified(t)
    <3>1. CASE LinkElement(t)
      <4>1. pc[t] \in {"sohLink", "logLink"} /\ pc'[t] = "files" /\ next'[t] = next[t] - 1 /\ next[t] \in Int
        BY <1>0, <3>1 DEF LinkElement, NextFile
      <4> QED BY <4>1 DEF Identified, AtSOH, AtLog
    <3>2. CASE LoadList(t)
      BY <1>0, <3>2 DEF LoadList, Identified, AtSOH, AtLog
    <3>3. CASE Start(t) \/ StoreList(t) \/ Finish(t) \/ Collect(t) \/ PostDone(t) \/ PostFinish(t)
      <4>1. pc[t] \notin AtSOH \cup AtLog /\ pc'[t] \notin AtSOH \cup AtLog /\ next' = next
        BY <1>0, <3>3 DEF Start, StoreList, Finish, Collect, PostDone, PostFinish, AtSOH, AtLog
      <4> QED BY <4>1 DEF Identified
    <3> QED BY <1>5, <3>1, <3>2, <3>3 DEF Worker
  <2> QED BY <1>3, <2>1, <2>2
<1> QED BY <1>4, <1>5


LEMMA NextRun == TypeInv /\ RunInv /\ [Next]_vars => RunInv'
<1> SUFFICES ASSUME IndInv, AtFile, DataTypeOK, RunInv, [Next]_vars PROVE RunInv'
  BY DEF TypeInv
<1>0. /\ pc \in [Threads -> Places] /\ next \in [Threads -> Int] /\ call \in Nat
      /\ input \in Seq(Inputs) /\ fileQ \in Nat
      /\ i \in Nat
  BY QueueType, BoundsAssumption DEF IndInv, ControlTypeOK, MT_FACTOR
<1>1. CASE ReadFiles
  <2>1. UNCHANGED <<pc, threadList>> /\ call' = call + 1
    BY <1>0, <1>1 DEF ReadFiles, workerVars, call
  <2>2. call' = 1 => \A t \in Threads : pc[t] = "none"
    BY <1>0, <2>1, BoundsAssumption DEF IndInv, NotStarted, Threads
  <2> QED BY <2>1, <2>2 DEF RunInv
<1>2. CASE AllocSlots \/ ResetList \/ ZeroCounter \/ SpawnEnd \/ Dispatch \/ Quiet \/ UNCHANGED vars
  <2>1. UNCHANGED <<pc, next, threadList, input>>
    BY <1>2 DEF AllocSlots, ResetList, ZeroCounter, SpawnEnd, Dispatch, Quiet, vars, mainVars, workerVars
  <2>2. \A t \in Threads : Identified(t)' = Identified(t)
    BY <2>1 DEF Identified
  <2>3. call' = call
    BY <2>1 DEF call
  <2> QED BY <2>1, <2>2, <2>3 DEF RunInv
<1>3. CASE Spawn
  <2>0. PICK t : t = <<call, i>>
    OBVIOUS
  <2>1. /\ main = "spawn" /\ UNCHANGED <<input, threadList>> /\ fileQ < QLen
        /\ \/ UNCHANGED <<pc, next>>
           \/ /\ pc' = [pc EXCEPT ![t] = "start"]
              /\ next' = [next EXCEPT ![t] = PoppedAfter(numFilesPThread)]
    BY <1>3, <2>0 DEF Spawn
  <2>2. call' = call
    BY <2>1 DEF call
  <2>3. t \in Threads => pc[t] = "none" /\ t[2] = i
    <3>1. t[1] = call /\ t[2] = i
      BY <2>0
    <3> QED BY <1>0, <2>1, <3>1 DEF IndInv, NotStarted
  <2>4. \A s \in Threads : s # t => pc'[s] = pc[s] /\ next'[s] = next[s] /\ Identified(s)' = Identified(s)
    BY <1>0, <2>1 DEF Identified
  <2>5. call = 1 => PoppedAfter(numFilesPThread) = ChunkEnd(input[1], i) /\ ChunkEnd(input[1], i) \in Nat
    <3> SUFFICES ASSUME call = 1
                 PROVE PoppedAfter(numFilesPThread) = ChunkEnd(input[1], i) /\ ChunkEnd(input[1], i) \in Nat
      OBVIOUS
    <3> DEFINE P == PerThread(QLen)
    <3>1. QLen = Len(input[1]) /\ QLen \in Nat /\ P \in Nat \ {0} /\ numFilesPThread = P
      BY FirstCall
    <3>2. fileQ = i * P
      BY <2>1, <3>1 DEF IndInv, Popped
    <3>3. (i + 1) * P = i * P + P /\ i * P \in Nat
      BY <1>0, <3>1, NextChunk
    <3> QED BY <3>1, <3>2, <3>3 DEF PoppedAfter, ChunkEnd
  <2>6. CASE UNCHANGED <<pc, next>>
    <3>1. \A s \in Threads : Identified(s)' = Identified(s)
      BY <2>6 DEF Identified
    <3> QED BY <2>1, <2>2, <2>6, <3>1 DEF RunInv
  <2>7. CASE /\ pc' = [pc EXCEPT ![t] = "start"]
             /\ next' = [next EXCEPT ![t] = PoppedAfter(numFilesPThread)]
    <3>1. ASSUME t \in Threads, call = 1
          PROVE  IsRun(input[1], threadList[t], Identified(t)', ChunkEnd(input[1], i))
      <4> DEFINE b == ChunkEnd(input[1], i)
      <4>1. Identified(t)' = b + 1 /\ threadList[t] = <<>> /\ b \in Nat
        <5>1. pc'[t] = "start" /\ next'[t] = b /\ b \in Nat
          BY <1>0, <2>5, <2>7, <3>1
        <5>2. threadList[t] = <<>>
          BY <2>3, <3>1 DEF RunInv
        <5>3. Identified(t)' = IF pc'[t] \in AtSOH \cup AtLog THEN next'[t] ELSE next'[t] + 1
          BY DEF Identified
        <5> HIDE DEF b
        <5> QED BY <5>1, <5>2, <5>3 DEF AtSOH, AtLog
      <4>2. Elems(<<>>) = {} /\ Len(<<>>) = 0
        BY DEF Elems
      <4>3. ReadableIn(input[1], b + 1, b) = {}
        <5> HIDE DEF b
        <5> QED BY <4>1 DEF ReadableIn
      <4> HIDE DEF b
      <4>4. IsRun(input[1], <<>>, b + 1, b)
        BY <4>2, <4>3 DEF IsRun
      <4>5. IsRun(input[1], threadList[t], Identified(t)', b)
        BY <4>1, <4>4
      <4> QED BY <4>5 DEF b
    <3>2. t \in Threads => pc'[t] = "start"
      BY <1>0, <2>7
    <3> QED BY <2>1, <2>2, <2>3, <2>4, <3>1, <3>2 DEF RunInv
  <2> QED BY <2>1, <2>6, <2>7
<1> QED BY <1>1, <1>2, <1>3, WorkerRun DEF Next, Main

LEMMA NextSlotRun == TypeInv /\ InSlots /\ SlotRunInv /\ [Next]_vars => SlotRunInv'
<1> SUFFICES ASSUME IndInv, AtFile, DataTypeOK, InSlots, SlotRunInv, [Next]_vars,
                    call' = 1, main' # "alloc", threadTraces' # NoArray
             PROVE  /\ DOMAIN threadTraces' = 0 .. maxThreads' - 1
                    /\ \A k \in 0 .. maxThreads' - 1 :
                         threadTraces'[k] = IF Stored(SlotOf(k))' THEN threadList'[SlotOf(k)] ELSE <<>>
  BY DEF TypeInv, SlotRunInv, SlotOf
<1>0. /\ pc \in [Threads -> Places] /\ call \in Nat /\ input \in Seq(Inputs)
      /\ threadList \in [Threads -> Seq(Traces)]
  BY QueueType DEF IndInv, ControlTypeOK, DataTypeOK
<1>1. CASE ReadFiles
  BY <1>1 DEF ReadFiles
<1>2. CASE AllocSlots
  <2>1. /\ main = "alloc" /\ threadTraces' = [k \in 0 .. maxThreads - 1 |-> <<>>]
        /\ UNCHANGED <<pc, threadList, maxThreads, input>>
    BY <1>2 DEF AllocSlots, workerVars
  <2>2. call = 1
    BY <2>1 DEF call
  <2>3. \A k \in 0 .. maxThreads - 1 : ~Stored(SlotOf(k))'
    <3>1. \A k \in 0 .. maxThreads - 1 : pc[SlotOf(k)] = "none"
      BY <2>1, <2>2, FirstCall DEF IndInv, NotStarted
    <3> QED BY <2>1, <3>1 DEF Stored, SlotOf
  <2> QED BY <2>1, <2>3
<1>3. CASE ResetList \/ ZeroCounter \/ SpawnEnd \/ Dispatch \/ Quiet \/ UNCHANGED vars
  <2>1. UNCHANGED <<pc, threadList, maxThreads, input, threadTraces>> /\ main # "alloc"
    BY <1>3 DEF ResetList, ZeroCounter, SpawnEnd, Dispatch, Quiet, vars, mainVars, workerVars
  <2>2. call = 1
    BY <2>1 DEF call
  <2> QED BY <2>1, <2>2 DEF SlotRunInv, Stored, SlotOf
<1>4. CASE Spawn
  <2>1. /\ main = "spawn" /\ UNCHANGED <<threadList, maxThreads, input, threadTraces>>
        /\ pc' = pc \/ pc' = [pc EXCEPT ![<<call, i>>] = "start"]
    BY <1>4 DEF Spawn
  <2>2. call = 1
    BY <2>1 DEF call
  <2>3. ASSUME NEW k \in 0 .. maxThreads - 1 PROVE Stored(SlotOf(k))' = Stored(SlotOf(k))
    <3>1. SlotOf(k) \in Threads /\ SlotOf(k)[1] = 1 /\ SlotOf(k)[2] = k
      BY <2>2, FirstCall
    <3>2. SlotOf(k) = <<call, i>> => pc[SlotOf(k)] = "none"
      <4>1. i \in Int
        BY DEF IndInv, ControlTypeOK
      <4> QED BY <2>1, <2>2, <3>1, <4>1 DEF IndInv, NotStarted
    <3>3. pc'[SlotOf(k)] = pc[SlotOf(k)] \/ (pc[SlotOf(k)] = "none" /\ pc'[SlotOf(k)] = "start")
      BY <1>0, <2>1, <3>1, <3>2
    <3> QED BY <3>3 DEF Stored, SlotOf
  <2> QED BY <2>1, <2>2, <2>3 DEF SlotRunInv
<1>5. ASSUME NEW t \in Threads, Worker(t)
      PROVE  /\ DOMAIN threadTraces' = 0 .. maxThreads' - 1
             /\ \A k \in 0 .. maxThreads' - 1 :
                  threadTraces'[k] = IF Stored(SlotOf(k))' THEN threadList'[SlotOf(k)] ELSE <<>>
  <2>1. UNCHANGED <<input, maxThreads, main>> /\ pc[t] # "none"
    <3>1. Moves(t)
      BY <1>5, WorkerMoves DEF IndInv
    <3> QED BY <3>1 DEF Moves
  <2>2. call = 1
    BY <2>1 DEF call
  <2>3. t[1] = 1 /\ t = SlotOf(t[2]) /\ t[2] \in 0 .. maxThreads - 1
    <3>1. t[1] = 1 /\ t = SlotOf(t[2]) /\ t[2] \in Nat /\ t[2] < maxThreads
      BY <2>1, <2>2, FirstCall DEF InSlots
    <3>2. maxThreads \in Int
      BY DEF IndInv, ControlTypeOK
    <3> QED BY <3>1, <3>2
  <2>4. \A s \in Threads : s # t => pc'[s] = pc[s] /\ threadList'[s] = threadList[s]
    <3>1. \A s \in Threads : s # t => threadList'[s] = threadList[s]
      BY <1>0, <1>5 DEF Worker, Start, Identify, LoadList, LinkElement, StoreList, Finish, Collect, PostDone, PostFinish
    <3> QED BY <1>5, <3>1, OthersStay
  <2>5. ASSUME NEW k \in 0 .. maxThreads - 1, k # t[2]
        PROVE  Stored(SlotOf(k))' = Stored(SlotOf(k)) /\ threadList'[SlotOf(k)] = threadList[SlotOf(k)]
    <3>1. SlotOf(k) \in Threads /\ SlotOf(k) # t
      BY <2>2, <2>5, FirstCall
    <3> QED BY <2>4, <3>1 DEF Stored, SlotOf
  <2>6. threadTraces # NoArray
    BY <1>5 DEF Worker, Start, Identify, LoadList, LinkElement, StoreList, Finish, Collect, PostDone, PostFinish
  <2>7. /\ DOMAIN threadTraces = 0 .. maxThreads - 1
        /\ \A k \in 0 .. maxThreads - 1 :
             threadTraces[k] = IF Stored(SlotOf(k)) THEN threadList[SlotOf(k)] ELSE <<>>
    BY <2>1, <2>2, <2>6 DEF SlotRunInv
  <2>8. CASE StoreList(t)
    <3>1. threadTraces' = [threadTraces EXCEPT ![t[2]] = threadList[t]] /\ threadList' = threadList
      <4>1. t[2] < maxThreads
        BY <2>1, <2>2, <2>3 DEF InSlots
      <4> QED BY <2>6, <2>8, <4>1 DEF StoreList
    <3>2. pc'[t] = "finish"
      BY <1>0, <2>8 DEF StoreList
    <3>3. Stored(t)' /\ threadTraces'[t[2]] = threadList[t]
      BY <2>3, <2>7, <3>1, <3>2 DEF Stored
    <3>4. Stored(SlotOf(t[2]))'
      BY <2>3, <3>3 DEF Stored, SlotOf
    <3>5. DOMAIN threadTraces' = 0 .. maxThreads - 1
      BY <2>7, <3>1
    <3>6. \A k \in 0 .. maxThreads - 1 : k # t[2] => threadTraces'[k] = threadTraces[k]
      BY <2>7, <3>1
    <3> QED BY <2>1, <2>3, <2>5, <2>7, <3>1, <3>3, <3>4, <3>5, <3>6
  <2>9. CASE ~StoreList(t)
    <3>1. threadTraces' = threadTraces
      BY <1>5, <2>9 DEF Worker, Start, Identify, LoadList, LinkElement, Finish, Collect, PostDone, PostFinish
    <3>2. IF Stored(t) THEN Stored(t)' /\ threadList'[t] = threadList[t] ELSE ~Stored(t)'
      <4>1. CASE Start(t)
        <5>1. t[2] < maxThreads
          BY <2>1, <2>2, <2>3 DEF InSlots
        <5> QED BY <1>0, <4>1, <5>1 DEF Start, Stored
      <4>2. CASE Identify(t)
        <5>1. KindOf[FileName(t)] \in Kinds
          BY <2>1, <4>2, FileOf DEF Identify
        <5> QED BY <1>0, <4>2, <5>1 DEF Identify, NextFile, Stored, Kinds
      <4>3. CASE LoadList(t) \/ LinkElement(t)
        BY <1>0, <4>3 DEF LoadList, LinkElement, NextFile, Stored
      <4>4. CASE Finish(t) \/ Collect(t) \/ PostDone(t) \/ PostFinish(t)
        BY <1>0, <4>4 DEF Finish, Collect, PostDone, PostFinish, Stored
      <4> QED BY <1>5, <2>9, <4>1, <4>2, <4>3, <4>4 DEF Worker
    <3>3. /\ Stored(SlotOf(t[2])) <=> Stored(t)
          /\ Stored(SlotOf(t[2]))' <=> Stored(t)'
      BY <2>3 DEF Stored, SlotOf
    <3>4. ASSUME NEW k \in 0 .. maxThreads - 1
          PROVE  threadTraces'[k] = IF Stored(SlotOf(k))' THEN threadList'[SlotOf(k)] ELSE <<>>
      <4>1. CASE k = t[2]
        BY <2>3, <2>7, <3>1, <3>2, <3>3, <4>1
      <4>2. CASE k # t[2]
        BY <2>5, <2>7, <3>1, <4>2
      <4> QED BY <4>1, <4>2
    <3> QED BY <2>1, <2>7, <3>1, <3>4
  <2> QED BY <2>8, <2>9
<1> QED BY <1>1, <1>2, <1>3, <1>4, <1>5 DEF Next, Main


\* Before the first call nothing happens.
LEMMA BeforeFirst ==
    ASSUME IndInv, call = 0
    PROVE  /\ input = <<>> /\ main = "loop" /\ \A t \in Threads : pc[t] = "none"
<1>1. input = <<>>
  BY DEF call, IndInv, ControlTypeOK
<1> QED BY <1>1, BoundsAssumption DEF IndInv, CallInv, NotStarted, Threads

\* In the first call a thread ends right before its chunk, and a chunk whose
\* thread was not started has no file that was popped.
PassedInv ==
    call = 1 =>
        /\ \A t \in Threads : pc[t] # "none" =>
             next[t] >= lo[t] - 1 /\ (Stored(t) => next[t] = lo[t] - 1)
        /\ main \in {"spawn", "loop"} => \A k \in 0 .. maxThreads - 1 :
             pc[SlotOf(k)] = "none" => fileQ <= k * PerThread(Len(input[1]))

LEMMA NextPassed ==
    ASSUME ~AllocMayFail
    PROVE  IndInv /\ AtFile /\ InSlots /\ PassedInv /\ [Next]_vars => PassedInv'
<1> SUFFICES ASSUME IndInv, AtFile, InSlots, PassedInv, [Next]_vars, call' = 1
             PROVE  /\ \A t \in Threads : pc'[t] # "none" =>
                         next'[t] >= lo'[t] - 1 /\ (Stored(t)' => next'[t] = lo'[t] - 1)
                    /\ main' \in {"spawn", "loop"} => \A k \in 0 .. maxThreads' - 1 :
                         pc'[SlotOf(k)] = "none" => fileQ' <= k * PerThread(Len(input'[1]))
  BY DEF PassedInv, SlotOf
<1>0. /\ pc \in [Threads -> Places] /\ next \in [Threads -> Int] /\ lo \in [Threads -> Nat]
      /\ call \in Nat /\ input \in Seq(Inputs) /\ fileQ \in Nat /\ i \in Nat /\ QLen \in Nat
  BY QueueType, BoundsAssumption DEF IndInv, ControlTypeOK, MT_FACTOR
<1>1. CASE ReadFiles
  <2>1. UNCHANGED pc /\ call' = call + 1 /\ main' = "alloc"
    BY <1>0, <1>1 DEF ReadFiles, workerVars, call
  <2>2. \A t \in Threads : pc[t] = "none"
    BY <1>0, <2>1, BeforeFirst
  <2> QED BY <2>1, <2>2
<1>2. CASE AllocSlots \/ ResetList \/ ZeroCounter
  <2>1. UNCHANGED <<pc, input, maxThreads>> /\ main \in {"alloc", "reset", "zero"}
    BY <1>2 DEF AllocSlots, ResetList, ZeroCounter, workerVars
  <2>2. call = 1
    BY <2>1 DEF call
  <2>3. \A t \in Threads : pc'[t] = "none"
    BY <2>1, <2>2, FirstCall DEF IndInv, NotStarted
  <2>4. main' \in {"spawn", "loop"} => fileQ' = 0
    BY <1>2 DEF AllocSlots, ResetList, ZeroCounter, IndInv, Popped
  <2>5. \A k \in 0 .. maxThreads - 1 : 0 <= k * PerThread(Len(input[1]))
    <3>1. PerThread(Len(input[1])) \in Nat /\ maxThreads \in Int
      BY <2>2, FirstCall DEF IndInv, ControlTypeOK
    <3> HIDE DEF PerThread
    <3>2. ASSUME NEW k \in 0 .. maxThreads - 1 PROVE k * PerThread(Len(input[1])) \in Nat
      <4>1. k \in Nat
        BY <3>1
      <4> QED BY <3>1, <4>1, NextChunk
    <3> QED BY <3>2
  <2> QED BY <2>1, <2>3, <2>4, <2>5
<1>3. CASE SpawnEnd \/ Dispatch \/ Quiet \/ UNCHANGED vars
  <2>1. /\ UNCHANGED <<pc, input, maxThreads, next, lo, fileQ>>
        /\ main' = main \/ main = "spawn"
    BY <1>3 DEF SpawnEnd, Dispatch, Quiet, vars, mainVars, workerVars
  <2>2. call = 1
    BY <2>1 DEF call
  <2> QED BY <2>1, <2>2 DEF PassedInv, Stored
<1>4. CASE Spawn
  <2> DEFINE P == PerThread(QLen)
  <2>0. PICK t : t = <<call, i>>
    OBVIOUS
  <2>1. /\ main = "spawn" /\ UNCHANGED <<input, maxThreads>> /\ fileQ < QLen /\ i < maxThreads
        /\ fileQ' = PoppedAfter(numFilesPThread)
        /\ pc' = [pc EXCEPT ![t] = "start"] /\ lo' = [lo EXCEPT ![t] = fileQ + 1]
        /\ next' = [next EXCEPT ![t] = PoppedAfter(numFilesPThread)]
    BY <1>4, <2>0 DEF Spawn
  <2>2. call = 1
    BY <2>1 DEF call
  <2>3. /\ QLen = Len(input[1]) /\ P \in Nat \ {0} /\ numFilesPThread = P /\ maxThreads \in Nat
        /\ \A k \in 0 .. maxThreads - 1 : SlotOf(k) \in Threads
    BY <2>2, FirstCall, BoundsAssumption DEF MT_FACTOR
  <2>4. t \in Threads /\ t = SlotOf(i)
    <3>1. i \in 0 .. maxThreads - 1
      BY <1>0, <2>1, <2>3
    <3> QED BY <2>0, <2>2, <2>3, <3>1 DEF SlotOf
  <2>5. fileQ = i * P
    BY <1>0, <2>1 DEF IndInv, Popped
  <2>6. (i + 1) * P = i * P + P /\ i * P \in Nat
    BY <1>0, <2>3, NextChunk
  <2> HIDE DEF P
  <2>7. fileQ' <= (i + 1) * P /\ fileQ' > fileQ /\ fileQ' \in Nat
    BY <1>0, <2>1, <2>3, <2>5, <2>6 DEF PoppedAfter
  <2>8. ASSUME NEW s \in Threads, pc'[s] # "none"
        PROVE  next'[s] >= lo'[s] - 1 /\ (Stored(s)' => next'[s] = lo'[s] - 1)
    <3>1. CASE s = t
      <4>1. pc'[s] = "start" /\ lo'[s] = fileQ + 1 /\ next'[s] = fileQ'
        BY <1>0, <2>1, <2>4, <3>1
      <4> QED BY <1>0, <2>7, <4>1 DEF Stored
    <3>2. CASE s # t
      <4>1. pc'[s] = pc[s] /\ lo'[s] = lo[s] /\ next'[s] = next[s]
        BY <1>0, <2>1, <3>2
      <4> QED BY <2>2, <2>8, <4>1 DEF Stored, PassedInv
    <3> QED BY <3>1, <3>2
  <2>9. ASSUME NEW k \in 0 .. maxThreads - 1, pc'[SlotOf(k)] = "none" PROVE fileQ' <= k * P
    <3>0. k \in Nat /\ SlotOf(k) \in Threads
      BY <2>3
    <3>1. SlotOf(k) # t /\ k # i
      <4>1. pc'[t] = "start"
        BY <1>0, <2>1, <2>4
      <4> QED BY <2>4, <2>9, <4>1
    <3>2. pc[SlotOf(k)] = "none"
      BY <1>0, <2>1, <2>9, <3>0, <3>1
    <3>3. i * P <= k * P
      BY <2>1, <2>2, <2>3, <2>5, <3>2 DEF PassedInv, P
    <3>4. ~(k < i)
      <4> SUFFICES ASSUME k < i PROVE FALSE
        OBVIOUS
      <4>1. (k + 1) * P <= i * P /\ (k + 1) * P = k * P + P /\ k * P \in Nat
        BY <1>0, <2>3, <3>0, ChunksOrdered, NextChunk
      <4> QED BY <2>3, <2>6, <3>3, <4>1
    <3>5. (i + 1) * P <= k * P
      BY <1>0, <2>3, <3>0, <3>1, <3>4, ChunksOrdered
    <3>6. k * P \in Nat /\ (i + 1) * P \in Nat
      BY <1>0, <2>3, <3>0, NextChunk
    <3> QED BY <2>7, <3>5, <3>6
  <2> QED BY <2>1, <2>3, <2>8, <2>9 DEF P
<1>5. ASSUME NEW t \in Threads, Worker(t)
      PROVE  /\ \A s \in Threads : pc'[s] # "none" =>
                  next'[s] >= lo'[s] - 1 /\ (Stored(s)' => next'[s] = lo'[s] - 1)
             /\ main' \in {"spawn", "loop"} => \A k \in 0 .. maxThreads' - 1 :
                  pc'[SlotOf(k)] = "none" => fileQ' <= k * PerThread(Len(input'[1]))
  <2>1. /\ UNCHANGED <<input, maxThreads, main, lo, fileQ>> /\ pc[t] # "none" /\ pc'[t] # "none"
    <3>1. Moves(t)
      BY <1>5, WorkerMoves DEF IndInv
    <3> QED BY <1>0, <3>1 DEF Moves
  <2>2. call = 1
    BY <2>1 DEF call
  <2>3. t[2] < maxThreads /\ lo[t] \in Nat /\ next[t] \in Int
    BY <1>0, <2>1, <2>2, FirstCall DEF InSlots
  <2>4. \A s \in Threads : s # t => pc'[s] = pc[s] /\ next'[s] = next[s]
    BY <1>5, OthersStay
  <2>5. next[t] >= lo[t] - 1 /\ (Stored(t) => next[t] = lo[t] - 1)
    BY <2>1, <2>2 DEF PassedInv
  <2>6. next'[t] >= lo[t] - 1 /\ (Stored(t)' => next'[t] = lo[t] - 1)
    <3>1. CASE Start(t)
      BY <1>0, <2>3, <2>5, <3>1 DEF Start, Stored
    <3>2. CASE Identify(t)
      <4>1. next[t] >= lo[t] /\ KindOf[FileName(t)] \in Kinds
        BY <2>1, <3>2, FileOf DEF Identify
      <4>2. next'[t] = next[t] \/ next'[t] = next[t] - 1
        BY <1>0, <3>2 DEF Identify, NextFile
      <4>3. ~Stored(t)'
        BY <1>0, <3>2, <4>1 DEF Identify, NextFile, Stored, Kinds
      <4> QED BY <2>3, <4>1, <4>2, <4>3
    <3>3. CASE LoadList(t) \/ LinkElement(t)
      <4>1. next[t] >= lo[t]
        BY <3>3 DEF LoadList, LinkElement, AtFile, AtSOH, AtLog
      <4>2. next'[t] = next[t] \/ next'[t] = next[t] - 1
        BY <1>0, <3>3 DEF LoadList, LinkElement, NextFile
      <4>3. ~Stored(t)'
        BY <1>0, <3>3 DEF LoadList, LinkElement, NextFile, Stored
      <4> QED BY <2>3, <4>1, <4>2, <4>3
    <3>4. CASE StoreList(t)
      <4>1. next[t] < lo[t] /\ next'[t] = next[t]
        BY <3>4 DEF StoreList
      <4> QED BY <2>3, <2>5, <4>1
    <3>5. CASE Finish(t) \/ Collect(t) \/ PostDone(t) \/ PostFinish(t)
      <4>1. Stored(t) /\ next'[t] = next[t]
        BY <3>5 DEF Finish, Collect, PostDone, PostFinish, Stored
      <4> QED BY <2>5, <4>1
    <3> QED BY <1>5, <3>1, <3>2, <3>3, <3>4, <3>5 DEF Worker
  <2>7. ASSUME NEW s \in Threads, pc'[s] # "none"
        PROVE  next'[s] >= lo'[s] - 1 /\ (Stored(s)' => next'[s] = lo'[s] - 1)
    <3>1. CASE s = t
      BY <2>1, <2>6, <3>1
    <3>2. CASE s # t
      BY <2>1, <2>2, <2>4, <2>7, <3>2 DEF PassedInv, Stored
    <3> QED BY <3>1, <3>2
  <2>8. ASSUME NEW k \in 0 .. maxThreads - 1, pc'[SlotOf(k)] = "none" PROVE pc[SlotOf(k)] = "none"
    <3>1. SlotOf(k) \in Threads
      BY <2>2, FirstCall
    <3> QED BY <2>1, <2>4, <2>8, <3>1
  <2> QED BY <2>1, <2>2, <2>7, <2>8 DEF PassedInv
<1> QED BY <1>1, <1>2, <1>3, <1>4, <1>5 DEF Next, Main

\* A callback posted keeps the reports good when it is no report or a result.
LEMMA GoodPosted ==
    ASSUME NEW q, LoopType, GoodReports(q, idleQ, delivered),
           NEW c \in Commands, ~IsReport(c) \/ IsResult(q, c.list)
    PROVE  GoodReports(q, Append(idleQ, c), delivered)
<1>1. idleQ \in Seq(Commands)
  BY DEF LoopType
<1>2. /\ DOMAIN Append(idleQ, c) = 1 .. Len(idleQ) + 1 /\ DOMAIN idleQ = 1 .. Len(idleQ) /\ Len(idleQ) \in Nat
      /\ \A k \in 1 .. Len(idleQ) : Append(idleQ, c)[k] = idleQ[k]
      /\ Append(idleQ, c)[Len(idleQ) + 1] = c
  BY <1>1
<1>3. \A k \in DOMAIN Append(idleQ, c) : k \in DOMAIN idleQ \/ k = Len(idleQ) + 1
  BY <1>2
<1> QED BY <1>2, <1>3 DEF GoodReports

LEMMA ReadFilesReports ==
    ASSUME TypeInv, ReportInv, ReadFiles
    PROVE  ReportInv'
<1>0. input \in Seq(Inputs) /\ call \in Nat
  BY QueueType DEF TypeInv, IndInv, ControlTypeOK
<1>1. /\ main' = "alloc" /\ UNCHANGED <<pc, idleQ, delivered, traceList>> /\ call' = call + 1
  BY <1>0 DEF ReadFiles, workerVars, call
<1> SUFFICES ASSUME call = 0 PROVE Waiting' /\ GoodReports(input'[1], idleQ', delivered')
  BY <1>0, <1>1 DEF ReportInv, Calm
<1>2. idleQ' = <<>> /\ delivered' = <<>> /\ traceList' = <<>>
  BY <1>1 DEF ReportInv
<1>3. Reporting' = {}
  BY <1>1, BeforeFirst DEF Reporting, TypeInv
<1>4. poolReports' = 0
  <2>1. ReportsIn(idleQ)' = {} /\ Len(delivered') = 0
    BY <1>2 DEF ReportsIn
  <2> QED BY <2>1, FS_EmptySet DEF poolReports
<1>5. GoodReports(input'[1], idleQ', delivered')
  BY <1>2 DEF GoodReports
<1> QED BY <1>1, <1>2, <1>3, <1>4, <1>5 DEF Waiting

LEMMA PrepareReports ==
    ASSUME ~AllocMayFail, TypeInv, ReportInv, AllocSlots \/ ResetList \/ ZeroCounter \/ Spawn \/ SpawnEnd
    PROVE  ReportInv'
<1>0. /\ IndInv /\ DataTypeOK /\ LoopType /\ call \in Nat /\ QLen \in Nat /\ fileQ \in Nat
      /\ pc \in [Threads -> Places]
  BY QueueType, DataTypeParts DEF TypeInv, IndInv, ControlTypeOK
<1>1. /\ UNCHANGED <<input, delivered, early, overlapped>> /\ main # "loop"
      /\ idleQ' = idleQ \/ idleQ' = Append(idleQ, [cmd |-> "PBARINIT"])
  BY DEF AllocSlots, ResetList, ZeroCounter, Spawn, SpawnEnd, ghostVars, Post
<1>2. call' = call /\ call # 0
  BY <1>0, <1>1, BeforeFirst DEF call
<1> SUFFICES ASSUME Calm PROVE (Waiting' \/ Closing') /\ GoodReports(input[1], idleQ', delivered)
  BY <1>1, <1>2 DEF ReportInv, Calm
<1>3. (Waiting \/ Closing) /\ GoodReports(input[1], idleQ, delivered) /\ call = 1
  BY DEF ReportInv, Calm
<1>4. GoodReports(input[1], idleQ', delivered)
  BY <1>0, <1>1, <1>3, NoReports, GoodPosted
<1>5. poolReports' = poolReports
  BY <1>0, <1>1, NoReports, ReportsKept
<1>6. CASE SpawnEnd
  <2>1. main = "spawn" /\ main' = "loop" /\ UNCHANGED <<pc, fileQ, threadTraces, traceList, input>>
    BY <1>6 DEF SpawnEnd, workerVars
  <2>2. Live' = Live /\ Reporting' = Reporting /\ QLen' = QLen
    BY <2>1 DEF Live, Reporting, QLen, call
  <2>3. Waiting => Waiting'
    BY <1>5, <2>1, <2>2 DEF Waiting
  <2>4. Closing => Closing'
    BY <1>5, <2>1, <2>2 DEF Closing
  <2> QED BY <1>3, <1>4, <2>3, <2>4
<1>7. CASE AllocSlots \/ ResetList \/ ZeroCounter \/ Spawn
  <2>1. Waiting
    <3>1. main \in {"alloc", "reset", "zero"} \/ fileQ < QLen
      BY <1>7 DEF AllocSlots, ResetList, ZeroCounter, Spawn
    <3> QED BY <1>0, <1>3, <3>1 DEF Closing
  <2>2. Reporting' = {}
    <3>1. pc' = pc \/ pc' = [pc EXCEPT ![<<call, i>>] = "start"]
      BY <1>7 DEF AllocSlots, ResetList, ZeroCounter, Spawn, workerVars
    <3> QED BY <1>0, <2>1, <3>1 DEF Waiting, Reporting
  <2>3. traceList' = <<>>
    BY <1>7, <2>1 DEF AllocSlots, ResetList, ZeroCounter, Spawn, Waiting
  <2>4. threadTraces' # NoArray
    <3>1. CASE AllocSlots
      <4>1. threadTraces' = [k \in 0 .. maxThreads - 1 |-> <<>>]
        BY <3>1 DEF AllocSlots
      <4>2. maxThreads \in Nat \ {0}
        BY <1>0, <1>3, FirstCall, BoundsAssumption DEF MT_FACTOR
      <4>3. 0 \in DOMAIN threadTraces'
        BY <4>1, <4>2
      <4> QED BY <4>3 DEF NoArray
    <3>2. CASE ~AllocSlots
      BY <1>7, <2>1, <3>2 DEF ResetList, ZeroCounter, Spawn, Waiting
    <3> QED BY <3>1, <3>2
  <2>5. poolReports' = 0
    BY <1>5, <2>1 DEF Waiting
  <2> QED BY <1>4, <2>2, <2>3, <2>4, <2>5 DEF Waiting
<1> QED BY <1>6, <1>7

\* Joined, the slots of a call whose threads are all through are its result.
LEMMA SlotsJoined ==
    ASSUME TypeInv, InSlots, RunInv, SlotRunInv, PassedInv, call = 1, main \in {"spawn", "loop"},
           Live = {}, fileQ = QLen, threadTraces # NoArray
    PROVE  IsResult(input[1], JoinSlots(threadTraces, Cardinality(SlotsRead)))
<1> DEFINE q == input[1]
           n == Len(q)
           p == PerThread(n)
           m == maxThreads
<1>0. IndInv /\ DataTypeOK
  BY DEF TypeInv
<1>1. n \in Nat \ {0} /\ p \in Nat \ {0} /\ m \in Nat \ {0} /\ QLen = n /\ p = n \div m + 1
  <2>1. n \in Nat \ {0} /\ p \in Nat \ {0} /\ QLen = n /\ m = MaxThreads(n) /\ m \in 1 .. MT_FACTOR * NumCPUs
    BY <1>0, FirstCall
  <2> QED BY <2>1, BoundsAssumption DEF PerThread, MT_FACTOR
<1>2. /\ DOMAIN threadTraces = 0 .. m - 1
      /\ \A k \in 0 .. m - 1 : threadTraces[k] = IF Stored(SlotOf(k)) THEN threadList[SlotOf(k)] ELSE <<>>
  BY DEF SlotRunInv
<1>3. Cardinality(SlotsRead) = m
  <2>1. SlotsRead = 0 .. m - 1
    BY <1>2 DEF SlotsRead
  <2>2. 0 \in Int /\ m - 1 \in Int /\ 0 <= m - 1
    BY <1>1
  <2> HIDE DEF m
  <2>3. Cardinality(0 .. m - 1) = (m - 1) - 0 + 1
    BY <1>1, <2>2, FS_Interval
  <2> QED BY <1>1, <2>1, <2>3
<1>4. ASSUME NEW k \in 0 .. m - 1
      PROVE  threadTraces[k] \in Seq(Traces) /\ IsRun(q, threadTraces[k], k * p + 1, UpTo(k + 1, p, n))
  <2> DEFINE t == SlotOf(k)
  <2>1. t \in Threads /\ t[1] = 1 /\ t[2] = k /\ k \in Nat /\ k < m
    BY <1>0, <1>1, FirstCall
  <2>2. pc \in [Threads -> Places] /\ threadList \in [Threads -> Seq(Traces)]
    BY <1>0 DEF IndInv, ControlTypeOK, DataTypeOK
  <2>3. ChunkEnd(q, k) = UpTo(k + 1, p, n)
    BY DEF ChunkEnd, UpTo
  <2>4. pc[t] \in {"none", "collect", "done", "post", "exit"}
    BY <2>1 DEF Live
  <2> HIDE DEF t, q, n, p, m
  <2>5. CASE pc[t] # "none"
    <3>1. Stored(t) /\ threadTraces[k] = threadList[t]
      BY <1>2, <2>4, <2>5 DEF Stored, t
    <3>2. IsRun(q, threadList[t], Identified(t), UpTo(k + 1, p, n))
      BY <2>1, <2>3, <2>5 DEF RunInv, q
    <3>3. Identified(t) = next[t] + 1 /\ lo[t] = k * p + 1
      BY <1>0, <2>1, <2>4, <2>5 DEF Identified, AtSOH, AtLog, IndInv, Chunks, p, n, q
    <3>4. IsRun(q, threadList[t], k * p + 1, UpTo(k + 1, p, n))
      <4>1. next[t] \in Int /\ k * p \in Nat /\ UpTo(k + 1, p, n) \in Int
        <5>1. k * p \in Nat /\ (k + 1) * p \in Nat
          BY <1>1, <2>1, NextChunk
        <5> QED BY <1>0, <1>1, <2>1, <5>1 DEF IndInv, ControlTypeOK, UpTo
      <4>2. next[t] = lo[t] - 1
        BY <2>1, <2>5, <3>1 DEF PassedInv
      <4> QED BY <3>2, <3>3, <4>1, <4>2
    <3> QED BY <2>1, <2>2, <3>1, <3>4
  <2>6. CASE pc[t] = "none"
    <3>1. threadTraces[k] = <<>>
      BY <1>2, <2>6 DEF Stored, t
    <3>2. ReadableIn(q, k * p + 1, UpTo(k + 1, p, n)) = {}
      <4>1. n <= k * p /\ k * p \in Nat
        <5>1. fileQ <= k * p
          BY <1>1, <2>6 DEF PassedInv, t, m, p, n, q
        <5>2. k * p \in Nat
          BY <1>1, <2>1, NextChunk
        <5> QED BY <1>1, <5>1, <5>2
      <4>2. (k + 1) * p = k * p + p
        BY <1>1, <2>1, NextChunk
      <4>3. UpTo(k + 1, p, n) = n
        BY <1>1, <4>1, <4>2 DEF UpTo
      <4>4. (k * p + 1) .. n = {}
        BY <1>1, <4>1
      <4> QED BY <4>3, <4>4 DEF ReadableIn
    <3>3. <<>> \in Seq(Traces) /\ Elems(<<>>) = {} /\ 1 .. Len(<<>>) = {}
      BY DEF Elems
    <3>4. IsRun(q, <<>>, k * p + 1, UpTo(k + 1, p, n))
      <4> DEFINE x == k * p + 1
                 y == UpTo(k + 1, p, n)
      <4>1. ReadableIn(q, x, y) = {}
        BY <3>2
      <4> HIDE DEF x, y
      <4>2. IsRun(q, <<>>, x, y)
        BY <3>3, <4>1 DEF IsRun
      <4> QED BY <4>2 DEF x, y
    <3> QED BY <3>1, <3>3, <3>4
  <2> QED BY <2>5, <2>6
<1>5. UpTo(m, p, n) = n
  <2>1. m * (n \div m + 1) > n
    BY <1>1, ChunksCover
  <2> HIDE DEF m, p, n
  <2>2. m * p > n /\ m * p \in Nat
    BY <1>1, <2>1
  <2> QED BY <1>1, <2>2 DEF UpTo
<1> HIDE DEF m, p, n, q
<1>6. /\ JoinSlots(threadTraces, m) \in Seq(Traces)
      /\ Elems(JoinSlots(threadTraces, m)) = ReadableIn(q, 1, n)
      /\ ChunkOrder(JoinSlots(threadTraces, m), p)
  <2>1. n \in Nat /\ m \in Nat /\ p \in Nat \ {0}
    BY <1>1
  <2>2. \A k \in 0 .. m - 1 :
           threadTraces[k] \in Seq(Traces) /\ IsRun(q, threadTraces[k], k * p + 1, UpTo(k + 1, p, n))
    BY <1>4
  <2>3. /\ JoinSlots(threadTraces, m) \in Seq(Traces)
        /\ Elems(JoinSlots(threadTraces, m)) = ReadableIn(q, 1, UpTo(m, p, n))
        /\ ChunkOrder(JoinSlots(threadTraces, m), p)
    BY <2>1, <2>2, JoinRuns, Zenon
  <2> QED BY <1>5, <2>3
<1> QED BY <1>3, <1>6 DEF IsResult, p, n, q


\* The invariants the report rests on.
ResultInv == TypeInv /\ InSlots /\ RunInv /\ SlotRunInv /\ PassedInv /\ ReportInv

LEMMA WorkerReports ==
    ASSUME ~AllocMayFail, ResultInv, NEW t \in Threads, Worker(t), IndInv'
    PROVE  ReportInv'
<1>0. /\ IndInv /\ AtFile /\ DataTypeOK /\ LoopType /\ pc \in [Threads -> Places]
      /\ call \in Nat /\ QLen \in Nat /\ fileQ \in Nat /\ ReportInv /\ numThreads \in Int
  BY QueueType, DataTypeParts DEF ResultInv, TypeInv, IndInv, ControlTypeOK
<1>1. /\ UNCHANGED <<input, main, fileQ, overlapped, maxThreads>> /\ call' = call /\ QLen' = QLen
      /\ pc[t] # "none" /\ \A s \in Threads : s # t => pc'[s] = pc[s]
  <2>1. Moves(t)
    BY <1>0, WorkerMoves DEF IndInv
  <2> QED BY <1>0, <2>1 DEF Moves, call, QLen
<1>2. call # 0
  BY <1>0, <1>1, BeforeFirst
<1>3. ~early' => ~early
  BY DEF Worker, Start, Identify, LoadList, LinkElement, StoreList, Finish, Collect, PostDone, PostFinish, ghostVars
<1> SUFFICES ASSUME Calm, ~early'
             PROVE  (Waiting' \/ Closing') /\ GoodReports(input[1], idleQ', delivered')
  BY <1>1, <1>2, <1>3 DEF ReportInv, Calm
<1>4. (Waiting \/ Closing) /\ GoodReports(input[1], idleQ, delivered) /\ call = 1 /\ ~overlapped
  BY <1>0 DEF ReportInv, Calm
<1>5. /\ delivered' = delivered
      /\ ~PostFinish(t) => idleQ' = idleQ \/ idleQ' = Append(idleQ, [cmd |-> "PBARUPD"])
                           \/ idleQ' = Append(idleQ, [cmd |-> "PBARDONE"])
  BY DEF Worker, Start, Identify, LoadList, LinkElement, StoreList, Finish, Collect, PostDone, PostFinish, NextFile, Post
<1>6. ~PostFinish(t) => GoodReports(input[1], idleQ', delivered') /\ poolReports' = poolReports
  BY <1>0, <1>4, <1>5, NoReports, GoodPosted, ReportsKept
<1>7. CASE t \in Live
  <2>1. Waiting /\ main # "alloc"
    <3>1. main # "alloc"
      BY <1>1, <1>4, FirstCall, <1>0 DEF IndInv, NotStarted
    <3> QED BY <1>4, <1>7, <3>1 DEF Closing
  <2>2. traceList' = traceList /\ ~PostFinish(t) /\ ~Collect(t) /\ ~PostDone(t)
    BY <1>7 DEF Live, Worker, Start, Identify, LoadList, LinkElement, StoreList, Finish, Collect, PostDone, PostFinish
  <2>3. threadTraces' # NoArray
    <3>1. CASE StoreList(t)
      <4>1. threadTraces # NoArray /\ DOMAIN threadTraces = 0 .. maxThreads - 1
        BY <1>4, <2>1 DEF Waiting, ResultInv, SlotRunInv
      <4>2. 0 \in DOMAIN threadTraces
        <5>1. maxThreads \in Nat \ {0}
          BY <1>0, <1>4, FirstCall, BoundsAssumption DEF MT_FACTOR
        <5> QED BY <4>1, <5>1
      <4>3. DOMAIN threadTraces' = DOMAIN threadTraces
        BY <3>1 DEF StoreList
      <4> QED BY <4>2, <4>3 DEF NoArray
    <3>2. CASE ~StoreList(t)
      <4>1. threadTraces' = threadTraces
        BY <2>2, <3>2 DEF Worker, Start, Identify, LoadList, LinkElement, Finish
      <4> QED BY <2>1, <4>1 DEF Waiting
    <3> QED BY <3>1, <3>2
  <2>4. CASE Finish(t) /\ numThreads' = 0
    <3>1. pc'[t] = "collect" /\ fileQ = QLen
      <4>1. pc'[t] = "collect"
        BY <1>0, <2>4 DEF Finish
      <4>2. ~(fileQ < QLen)
        BY <2>4 DEF Finish
      <4>3. fileQ <= QLen
        BY <1>0, <1>4, <2>1, <1>1, FirstCall DEF IndInv, Popped, EveryFileHandedOut, NotStarted, ControlTypeOK
      <4> QED BY <1>0, <4>1, <4>2, <4>3
    <3>2. Live' = {}
      <4>1. Cardinality(Live') = 0
        BY <1>1, <1>4, <2>4 DEF IndInv, CounterExact
      <4>2. IsFiniteSet(Live')
        <5>1. Live' \subseteq Threads
          BY DEF Live
        <5> QED BY <5>1, LiveFinite, FS_Subset
      <4> QED BY <4>1, <4>2, FS_EmptySet
    <3>3. \A s \in Reporting' : s = t
      BY <1>1, <2>1 DEF Waiting, Reporting
    <3>4. main \in {"spawn", "loop"}
      BY <1>0, <1>1, <1>4, FirstCall DEF IndInv, ControlTypeOK, NotStarted
    <3>5. poolReports' = 0 /\ traceList' = <<>>
      BY <1>6, <2>1, <2>2 DEF Waiting
    <3>6. Closing'
      BY <1>1, <2>3, <3>1, <3>2, <3>3, <3>4, <3>5 DEF Closing
    <3> QED BY <1>6, <2>2, <3>6
  <2>5. CASE ~(Finish(t) /\ numThreads' = 0)
    <3>1. pc'[t] \notin {"collect", "done", "post"}
      <4>1. CASE Identify(t)
        <5>1. KindOf[FileName(t)] \in Kinds
          BY <1>0, <1>1, <4>1, FileOf DEF Identify
        <5> QED BY <1>0, <4>1, <5>1 DEF Identify, NextFile, Kinds
      <4>2. CASE ~Identify(t)
        BY <1>0, <2>2, <2>5, <4>2 DEF Worker, Start, LoadList, LinkElement, StoreList, Finish, NextFile
      <4> QED BY <4>1, <4>2
    <3>2. Reporting' = {}
      BY <1>1, <2>1, <3>1 DEF Waiting, Reporting
    <3> QED BY <1>6, <2>1, <2>2, <2>3, <3>2 DEF Waiting
  <2> QED BY <2>4, <2>5
<1>8. CASE t \notin Live
  <2>1. t \in Reporting /\ (Collect(t) \/ PostDone(t) \/ PostFinish(t))
    BY <1>8 DEF Live, Reporting, Worker, Start, Identify, LoadList, LinkElement, StoreList, Finish, Collect, PostDone, PostFinish
  <2>2. Closing
    BY <1>4, <2>1 DEF Waiting
  <2>3. poolReports = 0 /\ Live = {} /\ fileQ = QLen /\ \A s \in Reporting : s = t
    BY <2>1, <2>2 DEF Closing
  <2>4. Live' = {}
    <3>1. pc'[t] \in {"done", "post", "exit"}
      BY <1>0, <2>1 DEF Collect, PostDone, PostFinish
    <3> QED BY <1>1, <2>3, <3>1 DEF Live
  <2>5. \A s \in Reporting' : s = t
    BY <1>1, <2>3 DEF Reporting
  <2>6. CASE Collect(t)
    <3>1. traceList = <<>> /\ threadTraces # NoArray /\ pc'[t] = "done"
      BY <1>0, <2>1, <2>2, <2>6 DEF Collect, Closing
    <3>2. IsResult(input[1], JoinSlots(threadTraces, Cardinality(SlotsRead)))
      BY <1>4, <2>2, <2>3, <3>1, SlotsJoined DEF ResultInv, Closing
    <3>3. traceList' = <<>> \o JoinSlots(threadTraces, Cardinality(SlotsRead))
      BY <2>6, <3>1 DEF Collect
    <3>4. traceList' = JoinSlots(threadTraces, Cardinality(SlotsRead))
      BY <3>2, <3>3 DEF IsResult
    <3>5. IsResult(input[1], traceList')
      BY <3>2, <3>4
    <3>6. ~PostFinish(t)
      BY <2>6 DEF Collect, PostFinish
    <3>7. Closing'
      BY <1>1, <1>6, <2>2, <2>3, <2>4, <2>5, <3>1, <3>5, <3>6 DEF Closing
    <3> QED BY <1>6, <3>6, <3>7
  <2>7. CASE PostDone(t)
    <3>1. pc[t] = "done" /\ pc'[t] = "post" /\ UNCHANGED <<traceList, threadTraces>> /\ ~PostFinish(t)
      BY <1>0, <2>7 DEF PostDone, PostFinish
    <3>2. IsResult(input[1], traceList)
      BY <2>1, <2>2, <3>1 DEF Closing
    <3>3. Closing'
      BY <1>1, <1>6, <2>2, <2>3, <2>4, <2>5, <3>1, <3>2 DEF Closing
    <3> QED BY <1>6, <3>1, <3>3
  <2>8. CASE PostFinish(t)
    <3> DEFINE c == [cmd |-> "readHdr_finish", list |-> traceList]
    <3>1. /\ pc[t] = "post" /\ pc'[t] = "exit" /\ UNCHANGED <<traceList, threadTraces>>
          /\ idleQ' = Append(idleQ, c)
      BY <1>0, <2>8 DEF PostFinish, Post
    <3>2. IsResult(input[1], traceList)
      BY <2>1, <2>2, <3>1 DEF Closing
    <3>3. c \in Commands /\ IsReport(c) /\ c.list = traceList
      BY <3>2, CommandTypes DEF IsResult, IsReport
    <3>4. Reporting' = {}
      BY <2>5, <3>1 DEF Reporting
    <3> HIDE DEF c
    <3>5. GoodReports(input[1], idleQ', delivered')
      <4>1. IsResult(input[1], c.list)
        BY <3>2, <3>3
      <4> QED BY <1>0, <1>4, <1>5, <3>1, <3>3, <4>1, GoodPosted
    <3>6. poolReports' = 1
      <4>1. idleQ \in Seq(Commands) /\ Len(delivered) \in Nat
        BY <1>0 DEF LoopType
      <4>2. ReportsIn(idleQ') = ReportsIn(idleQ)' /\ Len(delivered') = Len(delivered)
        BY <1>5 DEF ReportsIn
      <4>3. /\ Cardinality(ReportsIn(idleQ')) = Cardinality(ReportsIn(idleQ)) + 1
            /\ Cardinality(ReportsIn(idleQ)) \in Nat
        BY <3>1, <3>3, <4>1, ReportsPosted
      <4> QED BY <2>3, <4>1, <4>2, <4>3 DEF poolReports
    <3>7. Closing'
      BY <1>1, <2>2, <2>3, <2>4, <3>4, <3>6 DEF Closing
    <3> QED BY <3>5, <3>7
  <2> QED BY <2>1, <2>6, <2>7, <2>8
<1> QED BY <1>7, <1>8

LEMMA DispatchReports ==
    ASSUME TypeInv, ReportInv, Dispatch
    PROVE  ReportInv'
<1>0. LoopType
  BY DataTypeParts DEF TypeInv
<1>1. /\ UNCHANGED <<input, main, fileQ, pc, early, overlapped, traceList, threadTraces>>
      /\ idleQ # <<>> /\ idleQ' = Tail(idleQ)
  BY DEF Dispatch, mainVars, workerVars, ghostVars
<1>2. call' = call /\ Live' = Live /\ Reporting' = Reporting /\ QLen' = QLen
  BY <1>1 DEF call, Live, Reporting, QLen
<1>3. call # 0
  BY <1>1 DEF ReportInv
<1>4. poolReports' = poolReports
  BY <1>0, ReportsDelivered
<1> SUFFICES ASSUME Calm PROVE (Waiting' \/ Closing') /\ GoodReports(input[1], idleQ', delivered')
  BY <1>1, <1>2, <1>3 DEF ReportInv, Calm
<1>5. (Waiting \/ Closing) /\ GoodReports(input[1], idleQ, delivered)
  BY DEF ReportInv
<1>6. Waiting => Waiting'
  BY <1>1, <1>2, <1>4 DEF Waiting
<1>7. Closing => Closing'
  BY <1>1, <1>2, <1>4 DEF Closing
<1>8. GoodReports(input[1], idleQ', delivered')
  <2>1. /\ idleQ \in Seq(Commands) /\ delivered \in Seq(Seq(Traces))
    BY <1>0 DEF LoopType
  <2>2. /\ DOMAIN Tail(idleQ) = 1 .. Len(idleQ) - 1 /\ DOMAIN idleQ = 1 .. Len(idleQ) /\ Len(idleQ) \in Nat \ {0}
        /\ \A k \in 1 .. Len(idleQ) - 1 : Tail(idleQ)[k] = idleQ[k + 1]
        /\ Head(idleQ) = idleQ[1]
    BY <1>1, <2>1
  <2>3. \A k \in DOMAIN idleQ' : IsReport(idleQ'[k]) => IsResult(input[1], idleQ'[k].list)
    <3>1. \A k \in DOMAIN Tail(idleQ) : k + 1 \in DOMAIN idleQ /\ Tail(idleQ)[k] = idleQ[k + 1]
      BY <2>2
    <3> QED BY <1>1, <1>5, <3>1 DEF GoodReports
  <2>4. \/ delivered' = delivered
        \/ IsReport(idleQ[1]) /\ delivered' = Append(delivered, idleQ[1].list)
    BY <2>2 DEF Dispatch, IsReport
  <2>5. ASSUME IsReport(idleQ[1]), delivered' = Append(delivered, idleQ[1].list), NEW k \in DOMAIN delivered'
        PROVE  IsResult(input[1], delivered'[k])
    <3>1. IsResult(input[1], idleQ[1].list)
      BY <1>5, <2>2, <2>5 DEF GoodReports
    <3>2. \/ k \in DOMAIN delivered /\ delivered'[k] = delivered[k]
          \/ delivered'[k] = idleQ[1].list
      BY <2>1, <2>5
    <3> QED BY <1>5, <3>1, <3>2 DEF GoodReports
  <2>6. ASSUME delivered' = delivered, NEW k \in DOMAIN delivered' PROVE IsResult(input[1], delivered'[k])
    BY <1>5, <2>6 DEF GoodReports
  <2> QED BY <2>3, <2>4, <2>5, <2>6 DEF GoodReports
<1> QED BY <1>5, <1>6, <1>7, <1>8

\* If no thread counted numThreads to zero while files were still queued, one call
\* of readFiles hands readHdr_finish one list, of every readable file exactly once,
\* chunk by chunk: for any queue, any number of CPUs and any order of the threads.
THEOREM CompleteUnlessEarlyAlways == Spec => []CompleteUnlessEarly
<1>1. CASE AllocMayFail
  <2>1. CompleteUnlessEarly
    BY <1>1 DEF CompleteUnlessEarly
  <2> QED BY <2>1, PTL
<1>2. CASE ~AllocMayFail
  <2>1. Init => ResultInv
    <3> SUFFICES ASSUME Init PROVE ResultInv
      OBVIOUS
    <3>1. TypeInv
      BY InitInv, AtFileInit, InitTypes DEF TypeInv
    <3>2. call = 0
      BY DEF Init, call
    <3>3. InSlots /\ RunInv /\ SlotRunInv /\ PassedInv /\ ReportInv
      BY <3>2 DEF Init, InSlots, RunInv, SlotRunInv, PassedInv, ReportInv, Calm
    <3> QED BY <3>1, <3>3 DEF ResultInv
  <2>2. ResultInv /\ TypeInv' /\ [Next]_vars => ResultInv'
    <3> SUFFICES ASSUME ResultInv, TypeInv', [Next]_vars PROVE ResultInv'
      OBVIOUS
    <3>1. InSlots' /\ RunInv' /\ SlotRunInv' /\ PassedInv'
      BY <1>2, NextInSlots, NextRun, NextSlotRun, NextPassed DEF ResultInv, TypeInv
    <3>2. ReportInv'
      <4>1. CASE Quiet \/ UNCHANGED vars
        <5>1. UNCHANGED <<input, main, fileQ, pc, idleQ, delivered, early, overlapped, traceList, threadTraces>>
          BY <4>1 DEF Quiet, vars, mainVars, workerVars, ghostVars
        <5>2. UNCHANGED <<call, QLen, Live, Reporting, poolReports>>
          BY <5>1 DEF call, QLen, Live, Reporting, poolReports, ReportsIn
        <5> QED BY <5>1, <5>2 DEF ResultInv, ReportInv, Calm, Waiting, Closing
      <4> QED BY <1>2, <4>1, ReadFilesReports, PrepareReports, WorkerReports, DispatchReports
              DEF Next, Main, ResultInv, TypeInv
    <3> QED BY <3>1, <3>2 DEF ResultInv
  <2>3. ResultInv => CompleteUnlessEarly
    <3> SUFFICES ASSUME ResultInv, ~early, ~overlapped, call = 1, delivered # <<>>
                 PROVE  /\ Len(delivered) = 1
                        /\ {delivered[1][k] : k \in 1 .. Len(delivered[1])} = Expected(1)
                        /\ Len(delivered[1]) = Cardinality(Expected(1))
                        /\ InChunkOrder(delivered[1])
      BY DEF CompleteUnlessEarly
    <3>1. (Waiting \/ Closing) /\ GoodReports(input[1], idleQ, delivered) /\ LoopType /\ IndInv
      BY DataTypeParts DEF ResultInv, ReportInv, Calm, TypeInv
    <3>2. Len(delivered) \in Nat \ {0} /\ DOMAIN delivered = 1 .. Len(delivered)
      BY <3>1 DEF LoopType
    <3>3. Cardinality(ReportsIn(idleQ)) \in Nat
      BY <3>1, NoReports, ReportsPosted DEF LoopType
    <3>4. poolReports <= 1
      BY <3>1 DEF Waiting, Closing
    <3>5. Len(delivered) = 1
      BY <3>2, <3>3, <3>4 DEF poolReports
    <3>6. IsResult(input[1], delivered[1])
      BY <3>1, <3>2 DEF GoodReports
    <3> QED BY <3>1, <3>5, <3>6, ResultComplete
  <2> QED BY <2>1, <2>2, <2>3, AlwaysTypeInv, PTL DEF Spec
<1> QED BY <1>1, <1>2
=============================================================================
