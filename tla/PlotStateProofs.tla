-------------------------- MODULE PlotStateProofs --------------------------
(***************************************************************************)
(* Proofs about the life of the main screen: for every set of traces, any  *)
(* number of CPUs, of reads and of opens.  A step of the main loop or of a *)
(* thread is a step of the pool of ThreadTrace, whose invariants are used  *)
(* as they are proved there, except where the list of traces is replaced   *)
(* or added to.                                                            *)
(***************************************************************************)
EXTENDS PlotState, ThreadTraceProofs

-----------------------------------------------------------------------------
(* What a step of PlotNext does to the traces.                             *)

\* kill_all_traces before files are opened to replace those there are.
Replaced ==
    /\ traces' = <<>> /\ CURGRP' = <<>> /\ numTraces' = 0
    /\ freed' = freed \cup Elems(traces) /\ hasData' = hasData \ Elems(traces)
    /\ UNCHANGED <<mainVars, poolVars, pc, trcData, snap, raced, reports>>

\* readHdr_finish with traces found.
Added(found) ==
    /\ found \subseteq Unseen
    /\ traces' = Only(Group0, found) \o traces /\ CURGRP' = Only(Group0, found) \o traces
    /\ numTraces' = numTraces + Len(Only(Group0, found))
    /\ UNCHANGED <<mainVars, poolVars, pc, trcData, snap, freed, raced, hasData, reports>>

LEMMA DrawStep ==
    ASSUME NEW st, NEW q, NEW f, makePixmap(st, q, f) PROVE [Next]_vars
BY DEF makePixmap, Next, threadVars

LEMMA TraceSteps ==
    ASSUME [PlotNext]_allVars
    PROVE  \/ [Next]_vars
           \/ Replaced /\ chooserOpen(TRUE)
           \/ \E found : Added(found) /\ RunIdle /\ Head(idle) = "hdrs"
<1>1. ASSUME NEW scr \in {"TRACE", "OTHER"}, Configure(scr) PROVE [Next]_vars
  BY <1>1, DrawStep DEF Configure, threadVars
<1>2. CASE TabSwitch
  BY <1>2, DrawStep DEF TabSwitch, threadVars
<1>3. CASE OpenButton \/ chooserOpenNone \/ chooserCancel \/ dialogOK \/ HdrDone
  BY <1>3 DEF OpenButton, chooserOpenNone, chooserCancel, dialogOK, HdrDone, threadVars
<1>4. CASE chooserOpen(TRUE)
  BY <1>4 DEF chooserOpen, readFiles, Replaced
<1>5. CASE chooserOpen(FALSE)
  BY <1>5 DEF chooserOpen, readFiles, vars
<1>6. CASE RunIdle
  <2>1. CASE Head(idle) = "hdrs"
    <3>1. PICK found \in (SUBSET Unseen) \ {{}} : readHdr_finish(Only(Group0, found), Tail(idle))
      BY <1>6, <2>1 DEF RunIdle
    <3>2. CASE Only(Group0, found) = <<>>
      BY <3>1, <3>2 DEF readHdr_finish, threadVars
    <3>3. CASE Only(Group0, found) # <<>>
      BY <1>6, <2>1, <3>1, <3>3 DEF readHdr_finish, Added
    <3> QED BY <3>2, <3>3
  <2>2. CASE Head(idle) = "pixmap"
    BY <1>6, <2>2, DrawStep DEF RunIdle
  <2>3. CASE Head(idle) \notin {"hdrs", "pixmap"}
    BY <1>6, <2>3 DEF RunIdle, readHdr_finish, readData_finish, threadVars
  <2> QED BY <2>1, <2>2, <2>3
<1>7. CASE ReadStep
  BY <1>7 DEF ReadStep, Next
<1>8. CASE UNCHANGED allVars
  BY <1>8 DEF allVars
<1> QED BY <1>1, <1>2, <1>3, <1>4, <1>5, <1>6, <1>7, <1>8 DEF PlotNext


-----------------------------------------------------------------------------
(* Types, whatever the user does.                                          *)

LEMMA ListStart == PlotInit => TypeInv /\ ReaderInv
BY StartLists, TypeInit, ReaderInit DEF PlotInit

\* No trace of the list is found again, so that the list stays within Group0.
LEMMA AddedLists ==
    ASSUME TypeInv, ReaderInv, NEW found, Added(found)
    PROVE  /\ traces' \in Seq(Trcs) /\ Distinct(traces') /\ Len(traces') <= Len(Group0)
           /\ Elems(traces') = Elems(traces) \cup (Elems(Group0) \cap found)
           /\ Len(Only(Group0, found)) \in Nat
<1> DEFINE new == Only(Group0, found)
<1>1. /\ new \in Seq(Trcs) /\ Elems(new) = Elems(Group0) \cap found /\ Distinct(new)
      /\ Len(new) \in Nat
  <2>1. Group0 \in Seq(Trcs) /\ Distinct(Group0)
    BY GroupAssumption
  <2>2. new \in Seq(Trcs) /\ Elems(new) = Elems(Group0) \cap found /\ Distinct(new)
    BY <2>1, OnlyProperties
  <2> HIDE DEF new
  <2> QED BY <2>2
<1>2. traces \in Seq(Trcs) /\ Distinct(traces) /\ Elems(new) \cap Elems(traces) = {}
  BY <1>1 DEF TypeInv, TypeOK, ReaderInv, DistinctLists, Added, Unseen
<1>3. traces' = new \o traces
  BY DEF Added
<1> HIDE DEF new
<1>4. /\ traces' \in Seq(Trcs) /\ Distinct(traces')
      /\ Elems(traces') = Elems(new) \cup Elems(traces)
  BY <1>1, <1>2, <1>3, ConcatenationProperties
<1>5. /\ IsFiniteSet(Trcs) /\ Cardinality(Trcs) = Len(Group0)
      /\ Cardinality(Elems(traces')) = Len(traces')
  BY <1>4, GroupAssumption, DistinctLength DEF Trcs
<1>6. Elems(traces') \subseteq Trcs
  BY <1>4 DEF Elems
<1>7. Cardinality(Elems(traces')) <= Cardinality(Trcs)
  BY <1>5, <1>6, FS_Subset
<1> QED BY <1>1, <1>4, <1>5, <1>7 DEF new

LEMMA ListTypes ==
    ASSUME TypeInv, ReaderInv, [PlotNext]_allVars PROVE TypeInv' /\ ReaderInv'
<1>1. CASE [Next]_vars
  BY <1>1, TypeStep, ReaderStep
<1>2. CASE Replaced
  <2>1. /\ traces' = <<>> /\ CURGRP' = <<>> /\ numTraces' = 0
        /\ freed' = freed \cup Elems(traces) /\ hasData' \subseteq hasData
        /\ UNCHANGED <<call, main, i, QLen, batch, reentered, numThreads, traceQ, pc, trcData,
                       snap, raced, reports>>
    BY <1>2 DEF Replaced, mainVars, poolVars
  <2>2. Elems(traces) \subseteq Trcs /\ <<>> \in Seq(Trcs) /\ Len(<<>>) = 0 /\ Len(Group0) \in Nat
    BY GroupAssumption DEF TypeInv, TypeOK, Elems
  <2>3. traces' \in Seq(Trcs) /\ CURGRP' \in Seq(Trcs) /\ numTraces' \in Nat
    BY <2>1, <2>2
  <2>4. hasData' \subseteq Trcs /\ freed' \subseteq Trcs
    BY <2>1, <2>2 DEF TypeInv, TypeOK
  <2>5. TypeOK'
    BY <2>1, <2>3, <2>4 DEF TypeInv, TypeOK
  <2>6. Bounded' /\ Holding'
    BY <2>1, <2>2 DEF TypeInv, Bounded, Holding
  <2>7. ReaderInv'
    BY <2>1, EmptyDistinct DEF ReaderInv, DistinctLists, SingleReader
  <2> QED BY <2>5, <2>6, <2>7 DEF TypeInv
<1>3. ASSUME NEW found, Added(found) PROVE TypeInv' /\ ReaderInv'
  <2>1. /\ CURGRP' = traces' /\ numTraces' = numTraces + Len(Only(Group0, found))
        /\ UNCHANGED <<call, main, i, QLen, batch, reentered, numThreads, traceQ, pc, trcData,
                       snap, raced, reports, hasData, freed>>
    BY <1>3 DEF Added, mainVars, poolVars
  <2>2. /\ traces' \in Seq(Trcs) /\ Distinct(traces') /\ Len(traces') <= Len(Group0)
        /\ Len(Only(Group0, found)) \in Nat
    BY <1>3, AddedLists
  <2>3. numTraces' \in Nat
    BY <2>1, <2>2 DEF TypeInv, TypeOK
  <2>5. TypeOK'
    BY <2>1, <2>2, <2>3 DEF TypeInv, TypeOK
  <2>6. Bounded' /\ Holding'
    BY <2>1, <2>2 DEF TypeInv, Bounded, Holding
  <2>7. ReaderInv'
    BY <2>1, <2>2 DEF ReaderInv, DistinctLists, SingleReader
  <2> QED BY <2>5, <2>6, <2>7 DEF TypeInv
<1> QED BY <1>1, <1>2, <1>3, TraceSteps

States    == {"NOTRACES", "READHDRS", "READDATA", "DATAPLOT", "DATADONE"}
Callbacks == {"pixmap", "hdrs", "nohdrs", "data", "open"}
LoopTypeOK ==
    /\ plotState \in States /\ files \in BOOLEAN /\ hdrReads \in Nat /\ idle \in Seq(Callbacks)
    /\ dialog \in {"none", "nofiles", "chooser"} /\ page \in {"TRACE", "OTHER"}
    /\ mapped \in BOOLEAN /\ opens \in 0 .. MaxOpens
ScreenTypeOK ==
    /\ reset \in BOOLEAN /\ refresh \in BOOLEAN
    /\ drawn \subseteq Trcs /\ blank \subseteq drawn


LEMMA QueueTypes ==
    /\ \A q \in Seq(Callbacks) : Append(q, "pixmap") \in Seq(Callbacks)
    /\ \A q \in Seq(Callbacks) : \A x \in Callbacks : Append(q, x) \in Seq(Callbacks)
    /\ \A q \in Seq(Callbacks) : q # <<>> => Tail(q) \in Seq(Callbacks) /\ Head(q) \in Callbacks
<1>1. "pixmap" \in Callbacks
  BY DEF Callbacks
<1> QED BY <1>1

LEMMA DrawTypes ==
    ASSUME TypeInv, ScreenTypeOK, NEW st \in States, NEW q \in Seq(Callbacks),
           NEW f \in BOOLEAN, makePixmap(st, q, f)
    PROVE  plotState' \in States /\ idle' \in Seq(Callbacks) /\ ScreenTypeOK'
<1>1. plotState' \in States
  BY DEF makePixmap, States
<1>2. idle' \in Seq(Callbacks)
  BY QueueTypes DEF makePixmap
<1>3. CASE ClearScreen(f)
  <2>1. reset' \in BOOLEAN /\ refresh' \in BOOLEAN
    BY <1>3, Zenon DEF ClearScreen
  <2>2. drawn' \subseteq Trcs /\ blank' \subseteq drawn'
    BY <1>3 DEF ClearScreen
  <2> QED BY <1>1, <1>2, <2>1, <2>2 DEF ScreenTypeOK
<1>4. CASE ShowPlot(f)
  <2>1. reset' \in BOOLEAN /\ refresh' \in BOOLEAN
    <3>1. CASE reset \/ f
      BY <1>4, <3>1, Zenon DEF ShowPlot
    <3>2. CASE ~(reset \/ f)
      <4>1. reset' = reset /\ refresh' = refresh
        BY <1>4, <3>2 DEF ShowPlot, screenVars
      <4> QED BY <4>1, Zenon DEF ScreenTypeOK
    <3> QED BY <3>1, <3>2
  <2>2. Elems(CURGRP) \subseteq Trcs
    BY DEF TypeInv, TypeOK, Elems
  <2>3. drawn' \subseteq Trcs /\ blank' \subseteq drawn'
    BY <1>4, <2>2 DEF ShowPlot, screenVars, ScreenTypeOK
  <2> QED BY <1>1, <1>2, <2>1, <2>3 DEF ScreenTypeOK
<1> QED BY <1>3, <1>4 DEF makePixmap

LEMMA LoopTypes ==
    ASSUME TypeInv, LoopTypeOK, ScreenTypeOK, [PlotNext]_allVars PROVE LoopTypeOK' /\ ScreenTypeOK'
<1>0. MaxOpens \in Nat /\ idle \in Seq(Callbacks) /\ hdrReads \in Nat /\ opens \in 0 .. MaxOpens
  BY PlotAssumption DEF LoopTypeOK
<1>1. ASSUME NEW scr \in {"TRACE", "OTHER"}, Configure(scr) PROVE LoopTypeOK' /\ ScreenTypeOK'
  <2> DEFINE starts == files /\ plotState = "NOTRACES"
             st == IF starts THEN "READHDRS" ELSE plotState
             q == IF starts THEN Append(idle, "pixmap") ELSE idle
             f == refresh \/ scr = "TRACE"
  <2>1. st \in States /\ q \in Seq(Callbacks)
    BY QueueTypes DEF LoopTypeOK, States
  <2>2. f \in BOOLEAN
    BY Zenon DEF ScreenTypeOK
  <2>3. \/ makePixmap(st, q, f)
        \/ plotState' = st /\ idle' = q /\ refresh' = f /\ UNCHANGED <<drawn, blank, reset>>
    BY <1>1 DEF Configure
  <2> HIDE DEF st, q, f
  <2>4. plotState' \in States /\ idle' \in Seq(Callbacks) /\ ScreenTypeOK'
    BY <2>1, <2>2, <2>3, DrawTypes DEF ScreenTypeOK
  <2>5. hdrReads' \in Nat
    BY <1>1, <1>0 DEF Configure
  <2>6. mapped' \in BOOLEAN
    BY <1>1, Zenon DEF Configure
  <2> QED BY <1>1, <2>4, <2>5, <2>6 DEF Configure, LoopTypeOK
<1>2. CASE TabSwitch
  <2>1. /\ UNCHANGED <<files, hdrReads, dialog, opens, mapped>> /\ page' \in {"TRACE", "OTHER"}
        /\ makePixmap(plotState, idle, refresh) \/ UNCHANGED <<plotState, idle, screenVars>>
    BY <1>2 DEF TabSwitch
  <2>2. plotState' \in States /\ idle' \in Seq(Callbacks) /\ ScreenTypeOK'
    BY <2>1, DrawTypes DEF LoopTypeOK, ScreenTypeOK, screenVars
  <2> QED BY <2>1, <2>2 DEF LoopTypeOK
<1>3. CASE OpenButton
  BY <1>0, <1>3 DEF OpenButton, LoopTypeOK, ScreenTypeOK, screenVars
<1>4. ASSUME NEW replace \in BOOLEAN, chooserOpen(replace) PROVE LoopTypeOK' /\ ScreenTypeOK'
  <2>1. files' \in BOOLEAN
    BY <1>4, Zenon DEF chooserOpen, readFiles
  <2>2. idle' \in Seq(Callbacks)
    BY <1>0, <1>4, QueueTypes DEF chooserOpen
  <2>3. hdrReads' \in Nat /\ opens' \in 0 .. MaxOpens
    BY <1>0, <1>4 DEF chooserOpen
  <2> QED BY <1>4, <2>1, <2>2, <2>3 DEF chooserOpen, LoopTypeOK, ScreenTypeOK, screenVars, States
<1>5. CASE chooserOpenNone \/ chooserCancel
  <2>1. idle' \in Seq(Callbacks)
    BY <1>0, <1>5, QueueTypes DEF chooserOpenNone, chooserCancel
  <2>2. opens' \in 0 .. MaxOpens
    BY <1>0, <1>5 DEF chooserOpenNone, chooserCancel
  <2> QED BY <1>5, <2>1, <2>2 DEF chooserOpenNone, chooserCancel, LoopTypeOK, ScreenTypeOK, screenVars, States
<1>6. CASE dialogOK
  <2>1. "open" \in Callbacks
    BY DEF Callbacks
  <2>2. idle' \in Seq(Callbacks)
    BY <1>0, <1>6, <2>1 DEF dialogOK
  <2> QED BY <1>6, <2>2 DEF dialogOK, LoopTypeOK, ScreenTypeOK, screenVars
<1>7. CASE HdrDone
  <2>1. "hdrs" \in Callbacks /\ "nohdrs" \in Callbacks
    BY DEF Callbacks
  <2>2. idle' \in Seq(Callbacks)
    BY <1>0, <1>7, <2>1 DEF HdrDone
  <2>3. hdrReads' \in Nat
    BY <1>0, <1>7 DEF HdrDone
  <2> QED BY <1>7, <2>2, <2>3 DEF HdrDone, LoopTypeOK, ScreenTypeOK, screenVars, userVars
<1>8. CASE RunIdle
  <2>1. Tail(idle) \in Seq(Callbacks) /\ UNCHANGED <<hdrReads, page, opens, mapped>>
    BY <1>0, <1>8, QueueTypes DEF RunIdle
  <2>2. CASE Head(idle) = "pixmap"
    <3>1. makePixmap(plotState, Tail(idle), refresh) /\ UNCHANGED <<files, dialog>>
      BY <1>8, <2>2 DEF RunIdle
    <3>2. plotState' \in States /\ idle' \in Seq(Callbacks) /\ ScreenTypeOK'
      BY <2>1, <3>1, DrawTypes DEF LoopTypeOK, ScreenTypeOK
    <3> QED BY <2>1, <3>1, <3>2 DEF LoopTypeOK
  <2>3. ASSUME NEW new, readHdr_finish(new, Tail(idle)), UNCHANGED screenVars
        PROVE  LoopTypeOK' /\ ScreenTypeOK'
    <3>1. files' \in BOOLEAN
      BY <2>3, Zenon DEF readHdr_finish
    <3>2. idle' \in Seq(Callbacks)
      BY <2>1, <2>3, QueueTypes DEF readHdr_finish
    <3>3. plotState' \in States /\ dialog' \in {"none", "nofiles", "chooser"}
      BY <2>3 DEF readHdr_finish, LoopTypeOK, States
    <3> QED BY <2>1, <2>3, <3>1, <3>2, <3>3 DEF LoopTypeOK, ScreenTypeOK, screenVars
  <2>4. CASE Head(idle) = "data" /\ readData_finish(Tail(idle))
    <3>1. idle' \in Seq(Callbacks)
      BY <2>1, <2>4, QueueTypes DEF readData_finish
    <3> QED BY <2>1, <2>4, <3>1 DEF readData_finish, LoopTypeOK, ScreenTypeOK, screenVars, States
  <2>5. CASE /\ dialog' = "chooser" /\ idle' = Tail(idle)
             /\ UNCHANGED <<threadVars, plotState, files, screenVars>>
    BY <2>1, <2>5 DEF LoopTypeOK, ScreenTypeOK, screenVars
  <2> QED BY <1>8, <2>2, <2>3, <2>4, <2>5 DEF RunIdle
<1>9. CASE ReadStep
  <2>1. "data" \in Callbacks
    BY DEF Callbacks
  <2>2. idle' \in Seq(Callbacks)
    BY <1>0, <1>9, <2>1 DEF ReadStep
  <2> QED BY <1>9, <2>2 DEF ReadStep, LoopTypeOK, ScreenTypeOK, screenVars, userVars
<1>10. CASE UNCHANGED allVars
  BY <1>10 DEF allVars, plotVars, screenVars, userVars, LoopTypeOK, ScreenTypeOK
<1> QED BY <1>1, <1>2, <1>3, <1>4, <1>5, <1>6, <1>7, <1>8, <1>9, <1>10 DEF PlotNext

TypesInv == TypeInv /\ ReaderInv /\ LoopTypeOK /\ ScreenTypeOK

LEMMA TypesStart == PlotInit => TypesInv
<1> SUFFICES ASSUME PlotInit PROVE TypesInv
  OBVIOUS
<1>1. <<>> \in Seq(Callbacks) /\ <<"pixmap">> \in Seq(Callbacks)
  BY DEF Callbacks
<1>2. idle \in Seq(Callbacks)
  BY <1>1 DEF PlotInit
<1>3. files \in BOOLEAN /\ mapped \in BOOLEAN /\ reset \in BOOLEAN /\ refresh \in BOOLEAN
  BY Zenon DEF PlotInit
<1>4. LoopTypeOK
  BY <1>2, <1>3, PlotAssumption DEF PlotInit, LoopTypeOK, States
<1>5. ScreenTypeOK
  BY <1>3 DEF PlotInit, ScreenTypeOK
<1> QED BY <1>4, <1>5, ListStart DEF TypesInv

LEMMA TypesStep == TypesInv /\ [PlotNext]_allVars => TypesInv'
BY ListTypes, LoopTypes DEF TypesInv

\* Every variable of the main loop, of the screen and of the pool keeps its type,
\* also with resizes and opens during a read: hdrReads is never counted below zero
\* and no list of traces outgrows the traces there are.
THEOREM PlotTypeCorrect == PlotSpec => []PlotTypeOK
<1>1. TypesInv => PlotTypeOK
  BY DEF TypesInv, TypeInv, LoopTypeOK, ScreenTypeOK, PlotTypeOK, States, Callbacks
<1> QED BY <1>1, TypesStart, TypesStep, PTL DEF PlotSpec

-----------------------------------------------------------------------------
(* One question at a time: files that were named and wait for the window,  *)
(* headers being read or reported, a dialog or its callback.  While there  *)
(* is one nothing is read, and its callback is the last that is queued.    *)

\* The user opens no files before the plot is there and its threads are gone.
Waits == Hasty \subseteq {"resize"}

Asks == {"hdrs", "nohdrs", "open"}
AskLast(q) == \A k \in 1 .. Len(q) : q[k] \in Asks => k = Len(q)
Reading  == hdrReads > 0 \/ "hdrs" \in Elems(idle) \/ "nohdrs" \in Elems(idle)
Choosing == dialog # "none" \/ "open" \in Elems(idle)
Named    == files /\ plotState = "NOTRACES"
Asking   == Reading \/ Choosing \/ Named
AskInv ==
    /\ hdrReads <= 1 /\ AskLast(idle)
    /\ hdrReads = 1 \/ dialog # "none" \/ Named => Elems(idle) \subseteq {"pixmap"}
    /\ Reading => plotState = "READHDRS" /\ files /\ dialog = "none"
    /\ Choosing => plotState \in {"NOTRACES", "READHDRS", "DATADONE"} /\ ~files
    /\ files => Reading \/ Named
    /\ Named => ~mapped
    /\ Asking => main = "loop" /\ ~Stragglers /\ "data" \notin Elems(idle)

\* The queue after a callback was added, and after the first was taken.
LEMMA QueueAfter ==
    ASSUME NEW q \in Seq(Callbacks), NEW x \in Callbacks
    PROVE  /\ Elems(Append(q, x)) = Elems(q) \cup {x}
           /\ Elems(q) \cap Asks = {} => AskLast(Append(q, x))
<1>1. /\ Len(q) \in Nat /\ DOMAIN q = 1 .. Len(q) /\ Len(Append(q, x)) = Len(q) + 1
      /\ DOMAIN Append(q, x) = 1 .. Len(q) + 1
      /\ \A k \in 1 .. Len(q) : Append(q, x)[k] = q[k]
      /\ Append(q, x)[Len(q) + 1] = x
  OBVIOUS
<1>2. \A y \in Elems(q) : y \in Elems(Append(q, x))
  BY <1>1 DEF Elems
<1>3. x \in Elems(Append(q, x))
  BY <1>1 DEF Elems
<1>4. \A k \in 1 .. Len(q) + 1 : Append(q, x)[k] \in Elems(q) \cup {x}
  BY <1>1 DEF Elems
<1>5. Elems(Append(q, x)) \subseteq Elems(q) \cup {x}
  BY <1>1, <1>4 DEF Elems
<1>6. ASSUME Elems(q) \cap Asks = {}, NEW k \in 1 .. Len(q) + 1, Append(q, x)[k] \in Asks
      PROVE  k = Len(q) + 1
  BY <1>1, <1>6 DEF Elems
<1> QED BY <1>1, <1>2, <1>3, <1>5, <1>6 DEF AskLast

LEMMA SmallQueues ==
    /\ Elems(<<>>) = {} /\ AskLast(<<>>)
    /\ Elems(<<"pixmap">>) = {"pixmap"} /\ AskLast(<<"pixmap">>)
<1>1. Elems(<<>>) = {} /\ Elems(<<"pixmap">>) = {"pixmap"}
  BY EmptyDistinct DEF Elems
<1>2. Len(<<>>) = 0 /\ Len(<<"pixmap">>) = 1
  OBVIOUS
<1> QED BY <1>1, <1>2 DEF AskLast

LEMMA QueueRest ==
    ASSUME NEW q \in Seq(Callbacks), q # <<>>
    PROVE  /\ Elems(q) = {Head(q)} \cup Elems(Tail(q))
           /\ AskLast(q) => AskLast(Tail(q))
           /\ AskLast(q) /\ Head(q) \in Asks => Tail(q) = <<>>
<1>1. /\ Len(q) \in Nat \ {0} /\ Len(Tail(q)) = Len(q) - 1 /\ Head(q) = q[1]
      /\ \A k \in 1 .. Len(q) - 1 : Tail(q)[k] = q[k + 1]
      /\ Tail(q) \in Seq(Callbacks)
  OBVIOUS
<1>2. AskLast(q) => AskLast(Tail(q))
  <2> SUFFICES ASSUME AskLast(q), NEW k \in 1 .. Len(q) - 1, Tail(q)[k] \in Asks PROVE k = Len(q) - 1
    BY <1>1 DEF AskLast
  <2>1. k + 1 \in 1 .. Len(q) /\ q[k + 1] \in Asks
    BY <1>1
  <2>2. k + 1 = Len(q)
    BY <2>1 DEF AskLast
  <2> QED BY <2>2, <1>1
<1>3. ASSUME AskLast(q), Head(q) \in Asks PROVE Tail(q) = <<>>
  <2>1. 1 \in 1 .. Len(q) /\ q[1] \in Asks
    BY <1>1, <1>3
  <2>2. 1 = Len(q)
    BY <1>3, <2>1 DEF AskLast
  <2>3. PICK r \in Seq(Callbacks) : r = Tail(q) /\ Len(r) = Len(q) - 1
    BY <1>1
  <2>4. Len(r) = 0
    BY <2>2, <2>3
  <2>5. r = <<>>
    BY <2>4
  <2> QED BY <2>3, <2>5
<1> QED BY <1>2, <1>3, TailProperties

LEMMA DrawEffect ==
    ASSUME NEW st, NEW q, NEW f, makePixmap(st, q, f)
    PROVE  \/ /\ st \in {"NOTRACES", "READHDRS", "DATADONE"} /\ idle' = q /\ UNCHANGED vars
              /\ plotState' = st \/ (st = "DATADONE" /\ plotState' = "NOTRACES")
           \/ /\ st = "READDATA" /\ readData_1
              /\ \/ plotState' = "READDATA" /\ idle' = q /\ ~(reports' > reports)
                 \/ plotState' = "DATAPLOT" /\ idle' = Append(q, "pixmap") /\ reports' > reports
           \/ /\ st = "DATAPLOT" /\ plotState' = "DATADONE" /\ idle' = Append(q, "pixmap")
              /\ UNCHANGED vars
BY DEF makePixmap, threadVars

LEMMA VarsSame == ASSUME UNCHANGED vars PROVE main' = main /\ pc' = pc /\ Stragglers' = Stragglers
BY DEF vars, mainVars, Stragglers

LEMMA NotAsking ==
    ASSUME AskInv, LoopTypeOK
    PROVE  /\ plotState \in {"READDATA", "DATAPLOT"} \/ "data" \in Elems(idle) \/ main # "loop" \/ Stragglers => ~Asking
           /\ ~Asking => Elems(idle) \cap Asks = {} /\ hdrReads = 0 /\ dialog = "none" /\ ~files
<1>1. hdrReads \in Nat
  BY DEF LoopTypeOK
<1>2. plotState \in {"READDATA", "DATAPLOT"} => ~Asking
  BY DEF AskInv, Asking, Named
<1>3. "data" \in Elems(idle) \/ main # "loop" \/ Stragglers => ~Asking
  BY DEF AskInv
<1>4. ~Asking => Elems(idle) \cap Asks = {} /\ hdrReads = 0 /\ dialog = "none" /\ ~files
  BY <1>1 DEF AskInv, Asking, Reading, Choosing, Asks
<1> QED BY <1>2, <1>3, <1>4

\* A redraw asks nothing.
LEMMA DrawAsks ==
    ASSUME LoopTypeOK, AskInv, NEW q \in Seq(Callbacks), NEW f, makePixmap(plotState, q, f),
           AskLast(q), Elems(q) \subseteq Elems(idle),
           {x \in Elems(idle) : x # "pixmap"} \subseteq Elems(q),
           UNCHANGED <<files, hdrReads, dialog>>, mapped' = mapped \/ ~Named
    PROVE  AskInv'
<1>1. CASE /\ plotState \in {"NOTRACES", "READHDRS", "DATADONE"} /\ idle' = q /\ UNCHANGED vars
           /\ plotState' = plotState \/ (plotState = "DATADONE" /\ plotState' = "NOTRACES")
  <2>1. Elems(idle') = Elems(q) /\ AskLast(idle') /\ hdrReads \in Nat
    BY <1>1 DEF LoopTypeOK
  <2>2. /\ "hdrs" \in Elems(q) <=> "hdrs" \in Elems(idle)
        /\ "nohdrs" \in Elems(q) <=> "nohdrs" \in Elems(idle)
        /\ "open" \in Elems(q) <=> "open" \in Elems(idle)
        /\ "data" \in Elems(q) <=> "data" \in Elems(idle)
    OBVIOUS
  <2>3. Reading' = Reading /\ Choosing' = Choosing
    BY <2>1, <2>2 DEF Reading, Choosing
  <2>4. Named' <=> Named
    BY <1>1 DEF Named, AskInv
  <2>5. main' = main /\ Stragglers' = Stragglers
    BY <1>1, VarsSame
  <2> QED BY <1>1, <2>1, <2>2, <2>3, <2>4, <2>5 DEF AskInv, Asking
<1>2. CASE plotState \in {"READDATA", "DATAPLOT"}
  <2>1. Elems(idle) \cap Asks = {} /\ hdrReads = 0 /\ dialog = "none" /\ ~files
    BY <1>2, NotAsking DEF AskInv
  <2>2. Elems(q) \cap Asks = {} /\ "pixmap" \in Callbacks
    BY <2>1 DEF Callbacks
  <2>3. Elems(idle') \cap Asks = {} /\ AskLast(idle')
    <3>1. idle' = q \/ idle' = Append(q, "pixmap")
      BY <1>2, DrawEffect
    <3>2. Elems(Append(q, "pixmap")) = Elems(q) \cup {"pixmap"} /\ AskLast(Append(q, "pixmap"))
      BY <2>2, QueueAfter
    <3>3. "pixmap" \notin Asks
      BY DEF Asks
    <3>4. CASE idle' = q
      BY <2>2, <3>4
    <3>5. CASE idle' = Append(q, "pixmap")
      BY <2>2, <3>2, <3>3, <3>5
    <3> QED BY <3>1, <3>4, <3>5
  <2>4. ~Reading' /\ ~Choosing' /\ ~Named'
    BY <2>1, <2>3 DEF Reading, Choosing, Named, Asks
  <2> QED BY <2>1, <2>3, <2>4 DEF AskInv, Asking
<1> QED BY <1>1, <1>2, DrawEffect


\* What asks, the loop, the threads and the queue stay as they are.
LEMMA AskSame ==
    ASSUME AskInv, UNCHANGED vars, UNCHANGED <<plotState, files, hdrReads, idle, dialog>>,
           mapped' = mapped \/ ~Named
    PROVE  AskInv'
<1>1. main' = main /\ Stragglers' = Stragglers
  BY VarsSame
<1>2. /\ Reading' = Reading /\ Choosing' = Choosing /\ Named' = Named
      /\ Elems(idle') = Elems(idle) /\ AskLast(idle') = AskLast(idle)
  BY DEF Reading, Choosing, Named
<1>3. Asking' = Asking
  BY <1>2 DEF Asking
<1> QED BY <1>1, <1>2, <1>3 DEF AskInv

\* Headers begin to be read, while nothing else is asked.
LEMMA AskHeaders ==
    ASSUME LoopTypeOK, Elems(idle) \subseteq {"pixmap"}, hdrReads = 0, dialog' = "none", files',
           plotState' = "READHDRS", hdrReads' = hdrReads + 1, idle' = Append(idle, "pixmap"),
           main' = "loop", ~Stragglers'
    PROVE  AskInv'
<1>1. idle \in Seq(Callbacks) /\ "pixmap" \in Callbacks /\ Elems(idle) \cap Asks = {}
  BY DEF LoopTypeOK, Callbacks, Asks
<1>2. Elems(idle') = Elems(idle) \cup {"pixmap"} /\ AskLast(idle')
  BY <1>1, QueueAfter
<1>3. ~Choosing' /\ ~Named' /\ hdrReads' = 1
  BY <1>2 DEF Choosing, Named
<1> QED BY <1>2, <1>3 DEF AskInv, Asking, Reading

\* A dialog is up, or its callback is queued last.
LEMMA AskUser ==
    ASSUME LoopTypeOK, Elems(idle) \subseteq {"pixmap"}, hdrReads = 0, ~files', hdrReads' = 0,
           plotState' \in {"NOTRACES", "READHDRS", "DATADONE"}, main' = "loop", ~Stragglers',
           \/ idle' = idle \/ idle' = Append(idle, "pixmap")
           \/ idle' = Append(idle, "open") /\ dialog' = "none"
    PROVE  AskInv'
<1>1. /\ idle \in Seq(Callbacks) /\ "pixmap" \in Callbacks /\ "open" \in Callbacks
      /\ Elems(idle) \cap Asks = {}
  BY DEF LoopTypeOK, Callbacks, Asks
<1>2. /\ Elems(idle') \subseteq {"pixmap", "open"} /\ AskLast(idle')
      /\ dialog' # "none" => Elems(idle') \subseteq {"pixmap"}
  <2>1. AskLast(idle)
    BY <1>1 DEF AskLast, Elems
  <2>2. Elems(Append(idle, "pixmap")) \subseteq {"pixmap"} /\ AskLast(Append(idle, "pixmap"))
    BY <1>1, QueueAfter
  <2>3. Elems(Append(idle, "open")) \subseteq {"pixmap", "open"} /\ AskLast(Append(idle, "open"))
    BY <1>1, QueueAfter
  <2>4. CASE idle' = idle
    BY <2>1, <2>4
  <2>5. CASE idle' = Append(idle, "pixmap")
    BY <2>2, <2>5
  <2>6. CASE idle' = Append(idle, "open") /\ dialog' = "none"
    BY <2>3, <2>6
  <2> QED BY <2>4, <2>5, <2>6
<1>3. ~Reading' /\ ~Named'
  BY <1>2 DEF Reading, Named
<1> QED BY <1>2, <1>3 DEF AskInv, Asking

LEMMA AskStep == ASSUME Waits, LoopTypeOK, AskInv, [PlotNext]_allVars PROVE AskInv'
<1>0. idle \in Seq(Callbacks) /\ hdrReads \in Nat /\ AskLast(idle) /\ files \in BOOLEAN
  BY DEF LoopTypeOK, AskInv
<1>1. ASSUME NEW scr \in {"TRACE", "OTHER"}, Configure(scr) PROVE AskInv'
  <2> DEFINE q == IF Named THEN Append(idle, "pixmap") ELSE idle
             st == IF Named THEN "READHDRS" ELSE plotState
             f == refresh \/ scr = "TRACE"
  <2>1. /\ hdrReads' = IF Named THEN hdrReads + 1 ELSE hdrReads
        /\ \/ makePixmap(st, q, f)
           \/ plotState' = st /\ idle' = q /\ UNCHANGED vars
        /\ main = "loop" /\ UNCHANGED <<files, dialog>>
    BY <1>1 DEF Configure, Named, threadVars
  <2>2. CASE Named
    <3>1. plotState' = "READHDRS" /\ idle' = Append(idle, "pixmap") /\ UNCHANGED vars
      BY <1>1, <2>2 DEF Configure, Named, makePixmap, threadVars
    <3>2. /\ Elems(idle) \subseteq {"pixmap"} /\ hdrReads = 0 /\ dialog = "none" /\ files
          /\ main = "loop" /\ ~Stragglers
      BY <2>2, <1>0 DEF AskInv, Named, Reading, Choosing, Asking
    <3>3. main' = main /\ Stragglers' = Stragglers
      BY <3>1, VarsSame
    <3> QED BY <2>1, <2>2, <3>1, <3>2, <3>3, AskHeaders
  <2>3. CASE ~Named
    <3>1. CASE makePixmap(plotState, idle, f)
      BY <1>0, <2>1, <2>3, <3>1, DrawAsks
    <3>2. CASE plotState' = plotState /\ idle' = idle /\ UNCHANGED vars
      BY <2>1, <2>3, <3>2, AskSame
    <3> QED BY <2>1, <2>3, <3>1, <3>2
  <2> QED BY <2>2, <2>3
<1>2. CASE TabSwitch
  <2>1. /\ UNCHANGED <<files, hdrReads, dialog, mapped>>
        /\ \/ makePixmap(plotState, idle, refresh)
           \/ UNCHANGED <<vars, plotState, idle>>
    BY <1>2 DEF TabSwitch, threadVars
  <2> QED BY <1>0, <2>1, DrawAsks, AskSame
<1>3. CASE OpenButton
  <2>1. /\ plotState \in {"NOTRACES", "DATADONE"} /\ idle = <<>> /\ hdrReads = 0 /\ ~files
        /\ ~Stragglers /\ main = "loop"
    BY <1>3 DEF OpenButton, Settled, Waits
  <2>2. UNCHANGED <<vars, plotState, files, hdrReads, idle>>
    BY <1>3 DEF OpenButton, threadVars
  <2>3. main' = main /\ Stragglers' = Stragglers
    BY <2>2, VarsSame
  <2>4. Elems(idle) \subseteq {"pixmap"}
    BY <2>1, EmptyDistinct
  <2> QED BY <2>1, <2>2, <2>3, <2>4, AskUser
<1>4. ASSUME dialog # "none"
      PROVE  /\ Elems(idle) \subseteq {"pixmap"} /\ hdrReads = 0 /\ ~files
             /\ plotState \in {"NOTRACES", "READHDRS", "DATADONE"} /\ main = "loop" /\ ~Stragglers
  BY <1>0, <1>4 DEF AskInv, Asking, Choosing, Reading
<1>5. ASSUME NEW replace \in BOOLEAN, chooserOpen(replace) PROVE AskInv'
  <2>1. /\ dialog # "none" /\ dialog' = "none" /\ files' /\ plotState' = "READHDRS"
        /\ hdrReads' = hdrReads + 1 /\ idle' = Append(idle, "pixmap")
    BY <1>5 DEF chooserOpen, readFiles
  <2>2. main' = main /\ Stragglers' = Stragglers
    BY <1>5 DEF chooserOpen, mainVars, Stragglers
  <2> QED BY <1>4, <2>1, <2>2, AskHeaders
<1>6. CASE chooserOpenNone
  <2>1. /\ dialog # "none" /\ dialog' # "none" /\ UNCHANGED <<vars, files, hdrReads>>
        /\ plotState' = "DATADONE" /\ idle' = Append(idle, "pixmap")
    BY <1>6 DEF chooserOpenNone, threadVars
  <2>2. main' = main /\ Stragglers' = Stragglers
    BY <2>1, VarsSame
  <2> QED BY <1>4, <2>1, <2>2, AskUser
<1>7. CASE chooserCancel
  <2>1. /\ dialog # "none" /\ UNCHANGED <<vars, files, hdrReads>>
        /\ plotState' = "DATADONE" /\ idle' = Append(idle, "pixmap")
    BY <1>7 DEF chooserCancel, threadVars
  <2>2. main' = main /\ Stragglers' = Stragglers
    BY <2>1, VarsSame
  <2> QED BY <1>4, <2>1, <2>2, AskUser
<1>8. CASE dialogOK
  <2>1. /\ dialog # "none" /\ dialog' = "none" /\ UNCHANGED <<vars, files, hdrReads, plotState>>
        /\ idle' = Append(idle, "open")
    BY <1>8 DEF dialogOK, threadVars
  <2>2. main' = main /\ Stragglers' = Stragglers
    BY <2>1, VarsSame
  <2> QED BY <1>4, <2>1, <2>2, AskUser
<1>9. CASE HdrDone
  <2>1. /\ hdrReads > 0 /\ hdrReads' = hdrReads - 1 /\ UNCHANGED <<vars, plotState, files, dialog, mapped>>
        /\ idle' = Append(idle, "hdrs") \/ idle' = Append(idle, "nohdrs")
    BY <1>9 DEF HdrDone, threadVars, userVars
  <2>2. main' = main /\ Stragglers' = Stragglers
    BY <2>1, VarsSame
  <2>3. hdrReads = 1
    BY <1>0, <2>1 DEF AskInv
  <2>4. /\ Elems(idle) \subseteq {"pixmap"} /\ plotState = "READHDRS" /\ files
        /\ dialog = "none" /\ main = "loop" /\ ~Stragglers
    BY <2>3 DEF AskInv, Asking, Reading
  <2>5. "hdrs" \in Callbacks /\ "nohdrs" \in Callbacks /\ Elems(idle) \cap Asks = {}
    BY <2>4 DEF Callbacks, Asks
  <2>6. Elems(idle') \subseteq {"pixmap", "hdrs", "nohdrs"} /\ AskLast(idle')
    <3>1. PICK x \in {"hdrs", "nohdrs"} : idle' = Append(idle, x)
      BY <2>1
    <3>2. Elems(Append(idle, x)) = Elems(idle) \cup {x} /\ AskLast(Append(idle, x))
      BY <1>0, <2>5, QueueAfter
    <3> QED BY <2>4, <3>1, <3>2
  <2>7. ~Choosing' /\ ~Named' /\ hdrReads' = 0
    BY <2>1, <2>3, <2>4, <2>6 DEF Choosing, Named
  <2>8. Reading'
    BY <1>0, <2>1, <2>5, QueueAfter DEF Reading
  <2> QED BY <2>1, <2>2, <2>4, <2>6, <2>7, <2>8 DEF AskInv, Asking
<1>10. CASE RunIdle
  <2> DEFINE q == Tail(idle)
  <2>1. /\ main = "loop" /\ idle # <<>> /\ UNCHANGED <<hdrReads, mapped>>
        /\ q \in Seq(Callbacks) /\ Elems(idle) = {Head(idle)} \cup Elems(q) /\ AskLast(q)
    BY <1>0, <1>10, QueueRest, QueueTypes DEF RunIdle
  <2>2. CASE Head(idle) = "pixmap"
    <3>1. makePixmap(plotState, q, refresh) /\ UNCHANGED <<files, dialog>>
      BY <1>10, <2>2 DEF RunIdle
    <3>2. Elems(q) \subseteq Elems(idle) /\ {x \in Elems(idle) : x # "pixmap"} \subseteq Elems(q)
      BY <2>1, <2>2
    <3> HIDE DEF q
    <3> QED BY <2>1, <3>1, <3>2, DrawAsks
  <2>3. CASE Head(idle) \in {"hdrs", "nohdrs"}
    <3>1. q = <<>>
      BY <1>0, <2>1, <2>3, QueueRest DEF Asks
    <3>2. /\ Reading /\ plotState = "READHDRS" /\ dialog = "none" /\ main = "loop" /\ ~Stragglers
          /\ hdrReads = 0
      BY <1>0, <2>1, <2>3 DEF AskInv, Asking, Reading
    <3>3. PICK new : readHdr_finish(new, q)
      BY <1>10, <2>3 DEF RunIdle
    <3>4. ~files' /\ UNCHANGED <<main, pc>>
      BY <3>3 DEF readHdr_finish, threadVars, vars, mainVars
    <3>5. ~Stragglers' /\ main' = "loop"
      BY <3>2, <3>4 DEF Stragglers
    <3>6. \/ plotState' = "READHDRS" /\ idle' = <<>>
          \/ plotState' = "READDATA" /\ idle' = <<"pixmap">> /\ dialog' = "none"
      <4>1. Append(<<>>, "pixmap") = <<"pixmap">>
        OBVIOUS
      <4> QED BY <3>1, <3>2, <3>3, <4>1 DEF readHdr_finish, threadVars
    <3>7. Elems(idle') \subseteq {"pixmap"} /\ AskLast(idle')
      BY <3>6, SmallQueues
    <3>8. ~Reading' /\ ~Named' /\ hdrReads' = 0
      BY <2>1, <3>2, <3>4, <3>7 DEF Reading, Named
    <3>9. Choosing' => plotState' = "READHDRS"
      BY <3>6, <3>7 DEF Choosing
    <3> QED BY <3>4, <3>5, <3>6, <3>7, <3>8, <3>9 DEF AskInv, Asking
  <2>4. CASE Head(idle) = "data"
    <3>1. /\ readData_finish(q) /\ plotState' = "DATAPLOT" /\ idle' = Append(q, "pixmap")
          /\ UNCHANGED <<files, dialog>>
      BY <1>10, <2>4 DEF RunIdle, readData_finish
    <3>2. Elems(idle) \cap Asks = {} /\ hdrReads = 0 /\ dialog = "none" /\ ~Asking /\ ~files
      BY <2>1, <2>4, NotAsking
    <3>3. "pixmap" \in Callbacks /\ Elems(q) \cap Asks = {}
      BY <2>1, <3>2 DEF Callbacks
    <3>4. Elems(idle') \cap Asks = {} /\ AskLast(idle')
      BY <2>1, <3>1, <3>3, QueueAfter DEF Asks
    <3>5. ~Reading' /\ ~Choosing' /\ ~Named'
      BY <2>1, <3>1, <3>2, <3>4 DEF Reading, Choosing, Named, Asks
    <3> QED BY <2>1, <3>1, <3>2, <3>4, <3>5 DEF AskInv, Asking
  <2>5. CASE Head(idle) = "open"
    <3>1. /\ dialog' = "chooser" /\ idle' = q /\ UNCHANGED <<vars, plotState, files>>
      BY <1>10, <2>5 DEF RunIdle, threadVars
    <3>2. q = <<>>
      BY <1>0, <2>1, <2>5, QueueRest DEF Asks
    <3>3. /\ Choosing /\ ~files /\ plotState \in {"NOTRACES", "READHDRS", "DATADONE"}
          /\ hdrReads = 0 /\ ~Stragglers
      BY <1>0, <2>1, <2>5 DEF AskInv, Asking, Choosing, Reading
    <3>4. main' = main /\ Stragglers' = Stragglers
      BY <3>1, VarsSame
    <3>5. Elems(idle') = {} /\ AskLast(idle')
      BY <3>1, <3>2, SmallQueues
    <3>6. ~Reading' /\ ~Named'
      BY <2>1, <3>1, <3>3, <3>5 DEF Reading, Named
    <3> QED BY <2>1, <3>1, <3>3, <3>4, <3>5, <3>6 DEF AskInv, Asking
  <2> QED BY <1>10, <2>2, <2>3, <2>4, <2>5 DEF RunIdle
<1>11. CASE ReadStep
  <2>1. main # "loop" \/ Stragglers
    BY <1>11 DEF ReadStep, ZeroCounter, Spawn, Worker, getNextTrace, readTrace, WalkList,
                 UnlinkTrace, UnlinkGroup, Finish, FreeQueue, PostFinish, Stragglers
  <2>2. Elems(idle) \cap Asks = {} /\ hdrReads = 0 /\ dialog = "none" /\ ~Asking /\ ~files
    BY <2>1, NotAsking
  <2>3. /\ idle' = idle \/ idle' = Append(idle, "data")
        /\ UNCHANGED <<plotState, files, hdrReads, dialog>>
    BY <1>11 DEF ReadStep, userVars
  <2>4. "data" \in Callbacks /\ "data" \notin Asks
    BY DEF Callbacks, Asks
  <2>5. Elems(Append(idle, "data")) = Elems(idle) \cup {"data"} /\ AskLast(Append(idle, "data"))
    BY <1>0, <2>2, <2>4, QueueAfter
  <2>6. Elems(idle') \cap Asks = {} /\ AskLast(idle')
    <3>1. CASE idle' = idle
      BY <1>0, <2>2, <3>1
    <3>2. CASE idle' = Append(idle, "data")
      BY <2>2, <2>4, <2>5, <3>2
    <3> QED BY <2>3, <3>1, <3>2
  <2>7. ~Reading' /\ ~Choosing'
    BY <2>2, <2>3, <2>6 DEF Reading, Choosing, Asks
  <2>8. ~Named'
    BY <2>2, <2>3 DEF Named, Asking
  <2> QED BY <2>2, <2>3, <2>6, <2>7, <2>8 DEF AskInv, Asking
<1>12. CASE UNCHANGED allVars
  BY <1>12, AskSame DEF allVars, plotVars, userVars
<1> QED BY <1>1, <1>2, <1>3, <1>5, <1>6, <1>7, <1>8, <1>9, <1>10, <1>11, <1>12 DEF PlotNext


LEMMA AskStart == PlotInit => AskInv
<1> SUFFICES ASSUME PlotInit PROVE AskInv
  OBVIOUS
<1>1. Elems(idle) \subseteq {"pixmap"} /\ AskLast(idle)
  BY SmallQueues DEF PlotInit
<1>2. ~Reading /\ ~Choosing /\ main = "loop" /\ ~Stragglers /\ ~mapped /\ (files => Named)
  BY <1>1 DEF PlotInit, InitWith, Reading, Choosing, Stragglers, Named
<1> QED BY <1>1, <1>2 DEF AskInv, Asking, PlotInit

\* A set of files is read once, and none is forgotten when the window is there:
\* for a user who opens no files before the plot, with any resizes in between.
THEOREM HeadersReadOnceAlways == ASSUME Waits PROVE PlotSpec => []HeadersReadOnce
<1>1. TypesInv /\ AskInv /\ [PlotNext]_allVars => AskInv'
  BY AskStep DEF TypesInv
<1>2. AskInv => HeadersReadOnce
  BY DEF AskInv, Named, HeadersReadOnce
<1> QED BY <1>1, <1>2, TypesStart, TypesStep, AskStart, PTL DEF PlotSpec

-----------------------------------------------------------------------------
(* One read at a time, and only what was read is drawn.                    *)

\* The user waits for the plot.
Patient == Hasty = {}

\* While data are to be read the redraw that reads them is the only callback,
\* and later no redraw is queued.
OneRead ==
    plotState = "READDATA" => \/ idle = <<"pixmap">> /\ main = "loop" /\ ~Stragglers
                              \/ "pixmap" \notin Elems(idle)
ReadInv == OneRead /\ ~reentered

\* The steps of PlotNext as the read of data sees them: readData_1 is called ...
ReadBegins ==
    /\ plotState = "READDATA" /\ idle = <<"pixmap">> /\ main = "loop" /\ ~Stragglers /\ readData_1
    /\ \/ plotState' = "READDATA" /\ idle' = <<>> /\ ~(reports' > reports)
       \/ plotState' = "DATAPLOT" /\ idle' = <<"pixmap">> /\ reports' > reports
\* ... the list of traces changes, with no read going on ...
ListChanges ==
    /\ main = "loop" /\ ~Stragglers /\ plotState # "READDATA"
    /\ \/ Replaced /\ plotState' = "READHDRS" /\ "data" \notin Elems(idle')
       \/ (\E found : Added(found)) /\ plotState' = "READDATA" /\ idle' = <<"pixmap">>
\* ... or the threads are left alone, and the state moves on after a report.
LoopOnly ==
    /\ UNCHANGED vars
    /\ plotState' = "READDATA" => plotState = "READDATA" /\ idle' = idle
    /\ "data" \in Elems(idle') => "data" \in Elems(idle)
    /\ plotState = "READDATA" /\ plotState' # "READDATA" => "data" \in Elems(idle)

LEMMA DrawLeaves ==
    ASSUME NEW q \in Seq(Callbacks), NEW f, makePixmap(plotState, q, f), plotState # "READDATA",
           Elems(q) \subseteq Elems(idle)
    PROVE  LoopOnly
<1>1. Elems(Append(q, "pixmap")) = Elems(q) \cup {"pixmap"}
  BY QueueAfter DEF Callbacks
<1>2. UNCHANGED vars /\ plotState' # "READDATA" /\ (idle' = q \/ idle' = Append(q, "pixmap"))
  BY DrawEffect
<1>3. "data" \in Elems(idle') => "data" \in Elems(q)
  <2>1. CASE idle' = q
    BY <2>1
  <2>2. CASE idle' = Append(q, "pixmap")
    BY <1>1, <2>2
  <2> QED BY <1>2, <2>1, <2>2
<1> QED BY <1>2, <1>3 DEF LoopOnly

LEMMA PlotSteps ==
    ASSUME Patient, LoopTypeOK, AskInv, OneRead, [PlotNext]_allVars
    PROVE  ReadBegins \/ ListChanges \/ LoopOnly \/ ReadStep
<1>0. idle \in Seq(Callbacks) /\ "pixmap" \in Callbacks /\ "open" \in Callbacks
  BY DEF LoopTypeOK, Callbacks
<1>1. /\ Elems(Append(idle, "pixmap")) = Elems(idle) \cup {"pixmap"}
      /\ Elems(Append(idle, "open")) = Elems(idle) \cup {"open"}
  BY <1>0, QueueAfter
<1>2. ASSUME NEW scr \in {"TRACE", "OTHER"}, Configure(scr) PROVE LoopOnly
  <2>1. plotState # "READDATA"
    BY <1>2 DEF Configure, Busy, Patient
  <2>2. CASE Named
    <3>1. plotState' = "READHDRS" /\ idle' = Append(idle, "pixmap") /\ UNCHANGED vars
      BY <1>2, <2>2 DEF Configure, Named, makePixmap, threadVars
    <3>2. "data" \in Elems(idle') => "data" \in Elems(idle)
      BY <1>1, <3>1
    <3> QED BY <2>1, <3>1, <3>2 DEF LoopOnly
  <2>3. CASE ~Named
    <3>1. \/ makePixmap(plotState, idle, refresh \/ scr = "TRACE")
          \/ plotState' = plotState /\ idle' = idle /\ UNCHANGED vars
      BY <1>2, <2>3 DEF Configure, Named, threadVars
    <3> QED BY <1>0, <2>1, <3>1, DrawLeaves DEF LoopOnly
  <2> QED BY <2>2, <2>3
<1>3. CASE TabSwitch
  <2>1. /\ plotState # "READDATA"
        /\ makePixmap(plotState, idle, refresh) \/ UNCHANGED <<vars, plotState, idle>>
    BY <1>3 DEF TabSwitch, threadVars, Busy, Patient
  <2> QED BY <1>0, <2>1, DrawLeaves DEF LoopOnly
<1>4. CASE OpenButton
  BY <1>4 DEF OpenButton, threadVars, LoopOnly
<1>5. ASSUME dialog # "none" \/ "open" \in Elems(idle)
      PROVE  plotState # "READDATA" /\ main = "loop" /\ ~Stragglers /\ "data" \notin Elems(idle)
  BY <1>5 DEF AskInv, Choosing, Asking
<1>6. CASE chooserOpen(TRUE)
  <2>1. /\ Replaced /\ dialog # "none" /\ plotState' = "READHDRS" /\ idle' = Append(idle, "pixmap")
    BY <1>6 DEF chooserOpen, readFiles, Replaced
  <2>2. "data" \notin Elems(idle')
    BY <1>1, <1>5, <2>1
  <2> QED BY <1>5, <2>1, <2>2 DEF ListChanges
<1>7. CASE chooserOpen(FALSE) \/ chooserOpenNone \/ chooserCancel
  <2>1. /\ UNCHANGED vars /\ dialog # "none" /\ plotState' \in {"READHDRS", "DATADONE"}
        /\ idle' = Append(idle, "pixmap")
    BY <1>7 DEF chooserOpen, readFiles, chooserOpenNone, chooserCancel, threadVars, vars
  <2>2. "data" \notin Elems(idle')
    BY <1>1, <1>5, <2>1
  <2> QED BY <1>5, <2>1, <2>2 DEF LoopOnly
<1>8. CASE dialogOK
  <2>1. UNCHANGED <<vars, plotState>> /\ dialog # "none" /\ idle' = Append(idle, "open")
    BY <1>8 DEF dialogOK, threadVars
  <2>2. "data" \notin Elems(idle')
    BY <1>1, <1>5, <2>1
  <2> QED BY <1>5, <2>1, <2>2 DEF LoopOnly
<1>9. CASE HdrDone
  <2>1. /\ UNCHANGED <<vars, plotState>> /\ plotState = "READHDRS"
        /\ \E x \in {"hdrs", "nohdrs"} : idle' = Append(idle, x)
    BY <1>9 DEF HdrDone, threadVars, AskInv, Reading
  <2>2. PICK x \in {"hdrs", "nohdrs"} : idle' = Append(idle, x)
    BY <2>1
  <2>3. Elems(Append(idle, x)) = Elems(idle) \cup {x}
    BY <1>0, QueueAfter DEF Callbacks
  <2>4. "data" \in Elems(idle') => "data" \in Elems(idle)
    BY <2>2, <2>3
  <2> QED BY <2>1, <2>4 DEF LoopOnly
<1>10. CASE RunIdle
  <2> DEFINE q == Tail(idle)
  <2>1. /\ main = "loop" /\ idle # <<>> /\ q \in Seq(Callbacks)
        /\ Elems(idle) = {Head(idle)} \cup Elems(q) /\ AskLast(idle)
    BY <1>0, <1>10, QueueRest, QueueTypes DEF RunIdle, AskInv
  <2>2. CASE Head(idle) = "pixmap" /\ plotState # "READDATA"
    <3>1. makePixmap(plotState, q, refresh)
      BY <1>10, <2>2 DEF RunIdle
    <3>2. Elems(q) \subseteq Elems(idle)
      BY <2>1
    <3> HIDE DEF q
    <3> QED BY <2>1, <2>2, <3>1, <3>2, DrawLeaves
  <2>3. CASE Head(idle) = "pixmap" /\ plotState = "READDATA"
    <3>1. makePixmap(plotState, q, refresh)
      BY <1>10, <2>3 DEF RunIdle
    <3>2. idle = <<"pixmap">> /\ main = "loop" /\ ~Stragglers
      BY <2>1, <2>3 DEF OneRead
    <3>3. q = <<>> /\ Append(<<>>, "pixmap") = <<"pixmap">>
      BY <3>2
    <3>4. readData_1 /\ (\/ plotState' = "READDATA" /\ idle' = q /\ ~(reports' > reports)
                         \/ plotState' = "DATAPLOT" /\ idle' = Append(q, "pixmap") /\ reports' > reports)
      BY <2>3, <3>1 DEF makePixmap
    <3> QED BY <2>3, <3>2, <3>3, <3>4 DEF ReadBegins
  <2>4. CASE Head(idle) \in {"hdrs", "nohdrs"}
    <3>1. q = <<>> /\ Append(<<>>, "pixmap") = <<"pixmap">>
      BY <1>0, <2>1, <2>4, QueueRest DEF Asks
    <3>2. plotState = "READHDRS" /\ ~Stragglers
      BY <2>1, <2>4 DEF AskInv, Asking, Reading
    <3>3. CASE readHdr_finish(<<>>, q)
      <4>1. UNCHANGED vars /\ UNCHANGED plotState /\ idle' = <<>>
        BY <3>1, <3>3 DEF readHdr_finish, threadVars
      <4>2. "data" \notin Elems(idle')
        BY <4>1, SmallQueues
      <4> QED BY <3>2, <4>1, <4>2 DEF LoopOnly
    <3>4. ASSUME NEW found \in SUBSET Unseen, readHdr_finish(Only(Group0, found), q)
          PROVE  ListChanges \/ LoopOnly
      <4>1. CASE Only(Group0, found) = <<>>
        <5>1. UNCHANGED vars /\ UNCHANGED plotState /\ idle' = <<>>
          BY <3>1, <3>4, <4>1 DEF readHdr_finish, threadVars
        <5>2. "data" \notin Elems(idle')
          BY <5>1, SmallQueues
        <5> QED BY <3>2, <5>1, <5>2 DEF LoopOnly
      <4>2. CASE Only(Group0, found) # <<>>
        <5>1. Added(found) /\ plotState' = "READDATA" /\ idle' = <<"pixmap">>
          BY <3>1, <3>4, <4>2 DEF readHdr_finish, Added
        <5> QED BY <2>1, <3>2, <5>1 DEF ListChanges
      <4> QED BY <4>1, <4>2
    <3> QED BY <1>10, <2>4, <3>3, <3>4 DEF RunIdle
  <2>5. CASE Head(idle) = "data"
    <3>1. UNCHANGED vars /\ plotState' = "DATAPLOT"
      BY <1>10, <2>5 DEF RunIdle, readData_finish, threadVars
    <3> QED BY <2>1, <2>5, <3>1 DEF LoopOnly
  <2>6. CASE Head(idle) = "open"
    <3>1. UNCHANGED <<vars, plotState>> /\ idle' = q
      BY <1>10, <2>6 DEF RunIdle, threadVars
    <3>2. Elems(idle') \subseteq Elems(idle)
      BY <2>1, <3>1
    <3> QED BY <1>5, <2>1, <2>6, <3>1, <3>2 DEF LoopOnly
  <2> QED BY <1>10, <2>2, <2>3, <2>4, <2>5, <2>6 DEF RunIdle
<1>11. CASE UNCHANGED allVars
  BY <1>11 DEF allVars, plotVars, LoopOnly
<1> QED BY <1>2, <1>3, <1>4, <1>6, <1>7, <1>8, <1>9, <1>10, <1>11 DEF PlotNext


LEMMA PoolSteps == ReadBegins \/ LoopOnly \/ ReadStep => [Next]_vars
BY DEF ReadBegins, LoopOnly, ReadStep, Next

\* A step of readTraces or of a thread.
LEMMA ReadSteps ==
    ASSUME TypeInv, LoopTypeOK, ReadStep
    PROVE  /\ main # "loop" \/ Stragglers
           /\ UNCHANGED <<plotState, batch, reentered>>
           /\ idle' = idle \/ (idle' = Append(idle, "data") /\ \E t \in Threads : pc[t] = "post")
<1>1. UNCHANGED plotState /\ (idle' = idle \/ (reports' > reports /\ idle' = Append(idle, "data")))
  BY DEF ReadStep
<1>2. CASE ZeroCounter \/ Spawn
  <2>1. reports' = reports /\ reports \in Nat /\ main # "loop" /\ UNCHANGED <<batch, reentered>>
    BY <1>2 DEF ZeroCounter, Spawn, TypeInv, TypeOK
  <2> QED BY <1>1, <2>1
<1>3. ASSUME NEW t \in Threads, Worker(t)
      PROVE  /\ Stragglers /\ UNCHANGED <<batch, reentered>>
             /\ reports' > reports => pc[t] = "post"
  <2>1. reports \in Nat
    BY DEF TypeInv, TypeOK
  <2> QED BY <1>3, <2>1 DEF Worker, getNextTrace, readTrace, WalkList, UnlinkTrace, UnlinkGroup,
             Finish, FreeQueue, PostFinish, Stragglers, mainVars
<1> QED BY <1>1, <1>2, <1>3 DEF ReadStep

LEMMA OneReadStep ==
    ASSUME Patient, TypeInv, LoopTypeOK, AskInv, ReadInv, [PlotNext]_allVars PROVE ReadInv'
<1>1. CASE ReadBegins
  <2>1. OneRead'
    BY <1>1, SmallQueues DEF ReadBegins, OneRead
  <2>2. ~reentered'
    BY <1>1 DEF ReadBegins, readData_1, Stragglers, ReadInv
  <2> QED BY <2>1, <2>2 DEF ReadInv
<1>2. CASE ListChanges
  <2>1. UNCHANGED <<main, pc, reentered>>
    BY <1>2 DEF ListChanges, Replaced, Added, mainVars
  <2>2. main' = "loop" /\ ~Stragglers'
    BY <1>2, <2>1 DEF ListChanges, Stragglers
  <2> QED BY <1>2, <2>1, <2>2 DEF ListChanges, ReadInv, OneRead
<1>3. CASE LoopOnly
  <2>1. main' = main /\ Stragglers' = Stragglers /\ reentered' = reentered
    BY <1>3, VarsSame DEF LoopOnly, vars, mainVars
  <2>2. plotState' = "READDATA" => plotState = "READDATA" /\ idle' = idle
    BY <1>3 DEF LoopOnly
  <2> QED BY <2>1, <2>2 DEF ReadInv, OneRead
<1>4. CASE ReadStep
  <2>1. /\ main # "loop" \/ Stragglers
        /\ UNCHANGED <<plotState, reentered>>
        /\ idle' = idle \/ idle' = Append(idle, "data")
    BY <1>4, ReadSteps
  <2>2. Elems(Append(idle, "data")) = Elems(idle) \cup {"data"}
    BY QueueAfter DEF LoopTypeOK, Callbacks
  <2>3. plotState = "READDATA" => "pixmap" \notin Elems(idle)
    BY <2>1 DEF ReadInv, OneRead
  <2>4. plotState' = "READDATA" => "pixmap" \notin Elems(idle')
    <3>1. CASE idle' = idle
      BY <2>1, <2>3, <3>1
    <3>2. CASE idle' = Append(idle, "data")
      BY <2>1, <2>2, <2>3, <3>2
    <3> QED BY <2>1, <3>1, <3>2
  <2> QED BY <2>1, <2>4 DEF ReadInv, OneRead
<1> QED BY <1>1, <1>2, <1>3, <1>4, PlotSteps DEF ReadInv

LEMMA ReadStart == PlotInit => ReadInv
BY DEF PlotInit, InitWith, ReadInv, OneRead

\* No read of data begins while a thread of another is running, whatever windows
\* and tabs do, for a user who waits for the plot.
THEOREM ReadsNeverOverlap == ASSUME Patient PROVE PlotSpec => []ReadsDontOverlap
<1>1. Waits
  BY DEF Patient, Waits
<1>2. TypesInv /\ AskInv /\ [PlotNext]_allVars => AskInv'
  BY <1>1, AskStep DEF TypesInv
<1>3. TypesInv /\ AskInv /\ ReadInv /\ [PlotNext]_allVars => ReadInv'
  BY OneReadStep DEF TypesInv
<1>4. ReadInv => ReadsDontOverlap
  BY DEF ReadInv, ReadsDontOverlap
<1> QED BY <1>2, <1>3, <1>4, TypesStart, TypesStep, AskStart, ReadStart, PTL DEF PlotSpec

\* The pool's own invariants survive a change of the list.
PoolInvs == CounterInv /\ CoverInv /\ UnracedInv

LEMMA PoolStart == PlotInit => PoolInvs
BY CounterInit, CoverInit, UnracedInit DEF PlotInit, PoolInvs

LEMMA ListPool == ASSUME TypeInv, ReaderInv, PoolInvs, ListChanges PROVE PoolInvs'
<1>1. /\ UNCHANGED <<call, main, i, QLen, batch, reentered, numThreads, traceQ, pc, trcData, snap, raced, reports>>
      /\ \A t \in Threads : pc[t] \in {"none", "exit"}
  BY DEF ListChanges, Replaced, Added, mainVars, poolVars, Stragglers
<1>2. Done \subseteq Done'
  BY DEF ListChanges, Replaced, Added, Done
<1>3. CounterInv'
  <2>1. Live' = Live /\ FreshThreads' = FreshThreads
    BY <1>1 DEF Live, FreshThreads
  <2> QED BY <1>1, <2>1 DEF PoolInvs, CounterInv
<1>4. CoverInv'
  <2>1. AtWork' = AtWork /\ EmptyAtFinish' = EmptyAtFinish /\ Attended' = Attended
    BY <1>1 DEF AtWork, EmptyAtFinish, Attended
  <2>2. {trcData[t] : t \in AtWork}' = {trcData[t] : t \in AtWork}
    BY <1>1, <2>1
  <2>3. Covered => Covered'
    BY <1>1, <1>2, <2>2 DEF Covered
  <2>4. AllDone => AllDone'
    BY <1>1, <1>2 DEF AllDone
  <2> QED BY <1>1, <2>1, <2>3, <2>4 DEF PoolInvs, CoverInv
<1>5. UnracedInv'
  <2>1. ASSUME ~raced, NEW x \in freed' PROVE x \notin Elems(traces') \cup Elems(CURGRP')
    <3>1. CASE Replaced
      BY <3>1, EmptyDistinct DEF Replaced
    <3>2. ASSUME NEW found, Added(found) PROVE x \notin Elems(traces') \cup Elems(CURGRP')
      <4>1. Elems(traces') = Elems(traces) \cup (Elems(Group0) \cap found) /\ CURGRP' = traces'
        BY <3>2, AddedLists DEF Added
      <4>2. freed' = freed /\ found \cap freed = {}
        BY <3>2 DEF Added, Unseen
      <4>3. x \notin Elems(traces)
        BY <2>1, <4>2 DEF PoolInvs, UnracedInv
      <4> QED BY <2>1, <4>1, <4>2, <4>3
    <3> QED BY <3>1, <3>2 DEF ListChanges
  <2> QED BY <1>1, <2>1 DEF UnracedInv
<1> QED BY <1>3, <1>4, <1>5 DEF PoolInvs


\* What the screen shows was read: in every state but READDATA, and already when
\* the report is queued; before that the rest of the screen was queued for reading.
\* Exempt is a screen to which racing threads brought back a freed trace.
ScreenInv ==
    ~raced =>
        /\ plotState # "READDATA" \/ "data" \in Elems(idle) => Elems(CURGRP) \subseteq hasData
        /\ "pixmap" \notin Elems(idle) => Elems(CURGRP) \subseteq hasData \cup batch

\* A thread takes traces off the screen or gives them data.
LEMMA ThreadsRead ==
    ASSUME TypeInv, UnracedInv, ReadStep, ~raced'
    PROVE  ~raced /\ Elems(CURGRP') \subseteq Elems(CURGRP) /\ hasData \subseteq hasData'
<1>1. CASE ZeroCounter \/ Spawn
  BY <1>1 DEF ZeroCounter, Spawn, listVars
<1>2. ASSUME NEW t \in Threads, Worker(t)
      PROVE  ~raced /\ Elems(CURGRP') \subseteq Elems(CURGRP) /\ hasData \subseteq hasData'
  <2>1. CASE UnlinkGroup(t)
    <3>1. ~raced /\ hasData' = hasData /\ CURGRP' \in Unlinked(t, CURGRP) /\ pc[t] = "unlinkGroup"
      BY <2>1 DEF UnlinkGroup
    <3>2. snap[t] = CURGRP /\ snap[t] \in Seq(Trcs) /\ CURGRP \in Seq(Trcs)
      BY <3>1 DEF UnracedInv, TypeInv, TypeOK
    <3>3. Elems(CURGRP') = Elems(CURGRP) \ {trcData[t]}
      BY <3>1, <3>2, UnlinkedOf
    <3> QED BY <3>1, <3>3
  <2>2. CASE WalkList(t)
    BY <2>2 DEF WalkList
  <2>3. CASE ~UnlinkGroup(t) /\ ~WalkList(t)
    BY <1>2, <2>3 DEF Worker, getNextTrace, readTrace, UnlinkTrace, Finish, FreeQueue, PostFinish,
                      listVars
  <2> QED BY <2>1, <2>2, <2>3
<1> QED BY <1>1, <1>2 DEF ReadStep

LEMMA ScreenStep ==
    ASSUME Patient, ~AllocMayFail, TypeInv, LoopTypeOK, AskInv, ReadInv, PoolInvs, ScreenInv,
           [PlotNext]_allVars
    PROVE  ScreenInv'
<1>1. CASE ReadBegins
  <2>1. PICK q : q = Reverse(Without(CURGRP, hasData))
    OBVIOUS
  <2>2. Elems(q) = Elems(CURGRP) \ hasData
    BY <2>1, QueueOf DEF TypeInv, TypeOK
  <2>3. UNCHANGED <<CURGRP, hasData, raced>> /\ reports \in Nat
    BY <1>1 DEF ReadBegins, readData_1, listVars, TypeInv, TypeOK
  <2>4. CASE q = <<>>
    <3>1. Elems(CURGRP) \subseteq hasData
      BY <2>2, <2>4, EmptyDistinct
    <3> QED BY <2>3, <3>1 DEF ScreenInv
  <2>5. CASE q # <<>>
    <3>1. batch' = batch \cup Elems(q) /\ reports' = reports
      BY <1>1, <2>1, <2>5 DEF ReadBegins, readData_1
    <3>2. plotState' = "READDATA" /\ idle' = <<>>
      BY <1>1, <2>3, <3>1 DEF ReadBegins
    <3>3. "data" \notin Elems(idle')
      BY <3>2, SmallQueues
    <3> QED BY <2>2, <2>3, <3>1, <3>2, <3>3 DEF ScreenInv
  <2> QED BY <2>4, <2>5
<1>2. CASE ListChanges
  <2>1. CASE Replaced
    <3>1. Elems(CURGRP') = {}
      BY <2>1, EmptyDistinct DEF Replaced
    <3> QED BY <3>1 DEF ScreenInv
  <2>2. CASE plotState' = "READDATA" /\ idle' = <<"pixmap">>
    <3>1. Elems(idle') = {"pixmap"}
      BY <2>2, SmallQueues
    <3> QED BY <2>2, <3>1 DEF ScreenInv
  <2> QED BY <1>2, <2>1, <2>2 DEF ListChanges
<1>3. CASE LoopOnly
  <2>1. UNCHANGED <<CURGRP, hasData, raced, batch>>
    BY <1>3 DEF LoopOnly, vars, listVars, mainVars
  <2>2. CASE plotState' = "READDATA"
    <3>1. plotState = "READDATA" /\ idle' = idle
      BY <1>3, <2>2 DEF LoopOnly
    <3> QED BY <2>1, <2>2, <3>1 DEF ScreenInv
  <2>3. CASE plotState' # "READDATA"
    <3>1. plotState # "READDATA" \/ "data" \in Elems(idle)
      BY <1>3, <2>3 DEF LoopOnly
    <3> QED BY <2>1, <3>1 DEF ScreenInv
  <2> QED BY <2>2, <2>3
<1>4. CASE ReadStep
  <2> SUFFICES ASSUME ~raced'
               PROVE  /\ plotState' # "READDATA" \/ "data" \in Elems(idle') => Elems(CURGRP') \subseteq hasData'
                      /\ "pixmap" \notin Elems(idle') => Elems(CURGRP') \subseteq hasData' \cup batch'
    BY DEF ScreenInv
  <2>1. ~raced /\ Elems(CURGRP') \subseteq Elems(CURGRP) /\ hasData \subseteq hasData'
    BY <1>4, ThreadsRead DEF PoolInvs
  <2>2. /\ main # "loop" \/ Stragglers
        /\ UNCHANGED <<plotState, batch, reentered>>
        /\ idle' = idle \/ (idle' = Append(idle, "data") /\ \E t \in Threads : pc[t] = "post")
    BY <1>4, ReadSteps
  <2>3. CASE idle' = idle
    BY <2>1, <2>2, <2>3 DEF ScreenInv
  <2>4. CASE idle' = Append(idle, "data") /\ \E t \in Threads : pc[t] = "post"
    <3>1. batch \subseteq hasData \cup freed
      BY <2>4 DEF PoolInvs, CoverInv, AllDone, Done, ReadInv
    <3>2. Elems(CURGRP) \cap freed = {}
      BY <2>1 DEF PoolInvs, UnracedInv
    <3>3. plotState = "READDATA" => "pixmap" \notin Elems(idle)
      BY <2>2 DEF ReadInv, OneRead
    <3>4. Elems(CURGRP) \subseteq hasData \cup batch
      BY <2>1, <3>3 DEF ScreenInv
    <3> QED BY <2>1, <2>2, <3>1, <3>2, <3>4
  <2> QED BY <2>2, <2>3, <2>4
<1> QED BY <1>1, <1>2, <1>3, <1>4, PlotSteps DEF ReadInv

\* Only the plot in state DATADONE leaves traces blank.
LEMMA BlankStep ==
    ASSUME [PlotNext]_allVars
    PROVE  \/ blank' = blank \/ blank' = {}
           \/ plotState = "DATADONE" /\ blank' = Elems(CURGRP) \ hasData
<1> DEFINE Goal == \/ blank' = blank \/ blank' = {}
                   \/ plotState = "DATADONE" /\ blank' = Elems(CURGRP) \ hasData
<1>1. ASSUME NEW q, NEW f, makePixmap(plotState, q, f) PROVE Goal
  BY <1>1 DEF makePixmap, ClearScreen, ShowPlot, screenVars
<1>2. ASSUME NEW scr \in {"TRACE", "OTHER"}, Configure(scr) PROVE Goal
  <2>1. CASE files /\ plotState = "NOTRACES"
    BY <1>2, <2>1 DEF Configure, makePixmap, ClearScreen, ShowPlot, screenVars
  <2>2. CASE ~(files /\ plotState = "NOTRACES")
    <3>1. makePixmap(plotState, idle, refresh \/ scr = "TRACE") \/ blank' = blank
      BY <1>2, <2>2 DEF Configure
    <3> QED BY <1>1, <3>1
  <2> QED BY <2>1, <2>2
<1>3. CASE TabSwitch
  BY <1>1, <1>3 DEF TabSwitch, screenVars
<1>4. CASE RunIdle
  <2>1. makePixmap(plotState, Tail(idle), refresh) \/ blank' = blank
    BY <1>4 DEF RunIdle, readData_finish, screenVars
  <2> QED BY <1>1, <2>1
<1>5. CASE \/ OpenButton \/ chooserOpen(TRUE) \/ chooserOpen(FALSE) \/ chooserOpenNone \/ chooserCancel
           \/ dialogOK \/ HdrDone \/ ReadStep
  BY <1>5 DEF OpenButton, chooserOpen, chooserOpenNone, chooserCancel, dialogOK, HdrDone, ReadStep,
              screenVars
<1>6. CASE UNCHANGED allVars
  BY <1>6 DEF allVars, plotVars, screenVars
<1> QED BY <1>2, <1>3, <1>4, <1>5, <1>6 DEF PlotNext

\* No trace is plotted before it has its data: through every use of the chooser,
\* resizes, tabs and reports that come early or more than once.  For a user who
\* waits for the plot, as long as threads can be started and no two of them
\* unlink from one list at once.
THEOREM DrawnIsReadAlways ==
    ASSUME Patient, ~AllocMayFail PROVE PlotSpec => [](~raced => DrawnIsRead)
<1> DEFINE Shown == ~raced => DrawnIsRead
           Inv == TypesInv /\ AskInv /\ ReadInv /\ PoolInvs /\ ScreenInv /\ Shown
<1>1. PlotInit => Inv
  <2>1. PlotInit => ScreenInv /\ Shown
    BY EmptyDistinct DEF PlotInit, InitWith, ScreenInv, DrawnIsRead
  <2> QED BY <2>1, TypesStart, AskStart, ReadStart, PoolStart
<1>2. Inv /\ [PlotNext]_allVars => Inv'
  <2> SUFFICES ASSUME Inv, [PlotNext]_allVars PROVE Inv'
    OBVIOUS
  <2>1. Waits /\ TypeInv /\ ReaderInv /\ LoopTypeOK
    BY DEF Patient, Waits, TypesInv
  <2>2. ReadBegins \/ ListChanges \/ LoopOnly \/ ReadStep
    BY <2>1, PlotSteps DEF ReadInv
  <2>3. PoolInvs'
    <3>1. [Next]_vars => PoolInvs'
      BY <2>1, CounterStep, CoverStep, UnracedStep DEF PoolInvs
    <3>2. ListChanges => PoolInvs'
      BY <2>1, ListPool
    <3> QED BY <2>2, <3>1, <3>2, PoolSteps
  <2>4. ScreenInv'
    BY <2>1, ScreenStep
  <2>5. ASSUME ~raced' PROVE ~raced
    <3>1. CASE ReadStep
      BY <2>1, <2>5, <3>1, ThreadsRead DEF PoolInvs
    <3>2. CASE ReadBegins \/ ListChanges \/ LoopOnly
      BY <2>5, <3>2 DEF ReadBegins, readData_1, ListChanges, Replaced, Added, LoopOnly, vars, listVars
    <3> QED BY <2>2, <3>1, <3>2
  <2>6. Shown'
    <3> SUFFICES ASSUME ~raced' PROVE blank' = {}
      BY DEF DrawnIsRead
    <3>1. ~raced /\ blank = {}
      BY <2>5 DEF DrawnIsRead
    <3>2. plotState = "DATADONE" => Elems(CURGRP) \ hasData = {}
      BY <3>1 DEF ScreenInv
    <3> QED BY <3>1, <3>2, BlankStep
  <2>7. TypesInv' /\ AskInv' /\ ReadInv'
    BY <2>1, TypesStep, AskStep, OneReadStep
  <2> QED BY <2>3, <2>4, <2>6, <2>7
<1>3. Inv => Shown
  OBVIOUS
<1> QED BY <1>1, <1>2, <1>3, PTL DEF PlotSpec
=============================================================================
