------------------------------ MODULE DispList ------------------------------
(***************************************************************************)
(* The screens of traces: the list of all traces, the current, previous    *)
(* and next group of it (states.trace.traces[]), the selection, and the    *)
(* data held in memory.  src/src/data.c (dispList, makeDispList, makeList, *)
(* kill_all_traces, readHdr_finish) with its callers in gtk_events.c,      *)
(* gtk_mouse.c, gtk_data.c and sort_controls.c.                            *)
(*                                                                         *)
(* A user action changes the groups and asks for a redraw; the redraw      *)
(* (makePixmap(TRACESCR)) reads what is missing and draws.  The reading    *)
(* threads are those of ThreadTrace; here a read is one step.              *)
(***************************************************************************)
EXTENDS Integers, Sequences, FiniteSets, SequencesExt, Lists

CONSTANTS
    Trcs,           \* traces that files may hold
    Epochs,         \* start time of each trace
    SortKeys,       \* what trace mode sorts by: functions from traces to numbers
    Criteria,       \* the user's PQL sort criteria, in order, as such functions
    PlotCounts,     \* values of settings.trace.numPlots the user chooses from
    Spread,         \* settings.general.display.gather.spread
    Loads,          \* results of reading headers: sequences of traces
    Features,       \* which user actions this instance has
    MaxStart,       \* bound on the rows newStart jumps to
    MaxPrev         \* bound on the length of prevList

Actions == {"jump", "shiftClick", "resize", "gather", "select", "remove", "sort", "sortFile",
            "replace", "shots"}
ASSUME DispAssumption ==
    /\ Epochs \in [Trcs -> Nat]
    /\ SortKeys \subseteq [Trcs -> Nat] /\ Criteria \in Seq([Trcs -> Nat])
    /\ PlotCounts \subseteq Nat \ {0} /\ PlotCounts # {}
    /\ Spread \in Nat
    /\ Loads \subseteq Seq(Trcs) /\ (\A new \in Loads : Distinct(new))
    /\ Features \subseteq Actions /\ MaxStart \in Nat /\ MaxPrev \in Nat

VARIABLES
    traces, numTraces,          \* the global list, states.general.numTraces
    startRec,                   \* states.trace.startRec
    prevGrp, curGrp, nextGrp,   \* states.trace.traces[PREVGRP, CURGRP, NEXTGRP]
    prevList,                   \* stack of earlier groups (GATHERMODE)
    mode, numPlots,             \* "TRACE" or "GATHER"; traces per screen
    selected,                   \* traces with trace.selected
    selection,                  \* states.trace.selection
    position,                   \* data.position.current
    hasData,                    \* traces with dataInfo.data
    prevStart, prevPlots,       \* prev_start_rec, prev_numPlots
    state,                      \* states.general.plot.state: READDATA or DATADONE
    redraw,                     \* a redraw was asked for: "no", "keep", "reset"
    origin,                     \* history: startRec when the groups were last made anew,
                                \* -1 once the mode is another than they were made in
    sortFile,                   \* a -s file orders the traces: criteria[0] is "Sort File"
    crashed,                    \* a NULL trace was dereferenced
    since                       \* history: "unread" groups made without asking for data, "moved"
                                \* the list reordered or read off startRec, "emptied" by an open that found nothing

listVars == <<traces, numTraces>>
groups   == <<startRec, prevGrp, curGrp, nextGrp, prevList, position, origin, crashed>>
selVars  == <<selected, selection>>
dataVars == <<hasData, prevStart, prevPlots>>
modeVars == <<mode, numPlots, sortFile>>
vars == <<listVars, groups, selVars, dataVars, modeVars, state, redraw, since>>

-----------------------------------------------------------------------------
(* Operators on lists of traces.                                           *)

\* position.current after a sort: from first, in list order.
Numbered(pos, s, first) ==
    [x \in Trcs |-> IF x \in Elems(s) THEN first + (CHOOSE k \in DOMAIN s : s[k] = x) - 1
                    ELSE pos[x]]

\* At most n traces from index from (0-based); g_slist_nth takes an unsigned.
FromIndex(s, from, n) ==
    IF from < 0 \/ from >= Len(s) THEN <<>>
    ELSE SubSeq(s, from + 1, IF from + n < Len(s) THEN from + n ELSE Len(s))

\* Numbers of criteria[] (globals.c), which sortList passes to listSort.
SORTINSTID == 7
SORTSTARTTIME == 8

\* sortList: listSort takes the number for a position in the user's criteria.
\* Without one there the first comparison dereferences NULL.
NoCriterion(s, crit) == Len(s) >= 2 /\ crit >= Len(Criteria)
sortList(s, crit) == IF Len(s) < 2 THEN s ELSE StableSort(s, Criteria[crit + 1])

\* The traces from index from whose start lies within Spread of the first.
Gathered(s, from) ==
    LET first == Epochs[s[from + 1]]
        far == {k \in from + 1 .. Len(s) : Epochs[s[k]] - first > Spread}
        end == IF far = {} THEN Len(s) ELSE (CHOOSE k \in far : \A j \in far : k <= j) - 1
    IN  SubSeq(s, from + 1, end)

PrevStart(start, n) ==
    IF start = 0 THEN -1 ELSE IF start - n > 0 THEN start - n ELSE 0

\* MUTANT: the next screen repeats the last trace
NextStartRepeat(start, n, total) == IF start + n > total THEN -1 ELSE start + n - 1

NextStart(start, n, total) == IF start + n > total THEN -1 ELSE start + n

-----------------------------------------------------------------------------
(* makeDispList(cmd), for the list tr, count n, mode m and p plots.        *)

\* dispList(NEXTGRP): in gather mode the group after the current one, not yet
\* sorted.  The sum is unsigned, a negative one counts as the end of the list.
NextGroupOf(tr, n, m, p, start, cur) ==
    IF m = "TRACE" THEN FromIndex(tr, NextStart(start, p, n), p)
    ELSE IF start + Len(cur) < 0 \/ start + Len(cur) >= n THEN <<>>
    ELSE Gathered(tr, start + Len(cur))

NextGroup(run, m) ==
    /\ nextGrp' = IF m = "TRACE" THEN run
                  ELSE IF NoCriterion(run, SORTINSTID) THEN <<>> ELSE sortList(run, SORTINSTID)
    /\ crashed' = (m = "GATHER" /\ NoCriterion(run, SORTINSTID))

\* INITGROUP.  Gather mode sorts all traces, by start time it is meant, and begins
\* with the first; on an empty list it reads the start time of a NULL trace.
InitGroup(tr, n, m, p, start) ==
    /\ prevList' = <<>>
    /\ startRec' = start
    /\ origin' = start
    /\ numTraces' = n
    /\ IF m = "TRACE"
       THEN /\ traces' = tr
            /\ curGrp' = FromIndex(tr, start, p)
            /\ prevGrp' = FromIndex(tr, PrevStart(start, p), p)
            /\ NextGroup(NextGroupOf(tr, n, m, p, start, curGrp'), m)
       ELSE IF tr = <<>> \/ NoCriterion(tr, SORTSTARTTIME)
       THEN /\ crashed' = TRUE
            /\ traces' = tr /\ curGrp' = <<>> /\ prevGrp' = <<>> /\ nextGrp' = <<>>
       ELSE /\ traces' = sortList(tr, SORTSTARTTIME)
            /\ curGrp' = sortList(Gathered(traces', 0), SORTINSTID)
            /\ prevGrp' = <<>>
            /\ NextGroup(NextGroupOf(traces', n, m, p, start, curGrp'), m)

\* sortList numbers the list it sorts from startRec on.
GatherNumbers(pos, start) ==
    Numbered(Numbered(Numbered(pos, traces', start), curGrp', start), nextGrp', start)

PREVGROUP ==
    /\ startRec' = IF startRec - Len(prevGrp) < 0 THEN 0 ELSE startRec - Len(prevGrp)
    /\ nextGrp' = curGrp
    /\ curGrp' = prevGrp
    /\ IF mode = "TRACE"
       THEN /\ prevGrp' = FromIndex(traces, PrevStart(startRec', numPlots), numPlots)
            /\ UNCHANGED prevList
       ELSE /\ prevGrp' = IF prevList = <<>> THEN <<>> ELSE Head(prevList)
            /\ prevList' = IF prevList = <<>> THEN <<>> ELSE Tail(prevList)
    /\ UNCHANGED <<position, crashed>>

\* MUTANT: the group left behind is not pushed in gather mode
NEXTGROUPNoPush ==
    /\ startRec' = startRec + Len(curGrp)
    /\ UNCHANGED prevList
    /\ prevGrp' = curGrp
    /\ curGrp' = nextGrp
    /\ NextGroup(NextGroupOf(traces, numTraces, mode, numPlots, startRec', curGrp'), mode)
    /\ UNCHANGED position

NEXTGROUP ==
    /\ startRec' = startRec + Len(curGrp)
    /\ prevList' = IF mode = "GATHER" THEN <<prevGrp>> \o prevList ELSE prevList
    /\ prevGrp' = curGrp
    /\ curGrp' = nextGrp
    /\ NextGroup(NextGroupOf(traces, numTraces, mode, numPlots, startRec', curGrp'), mode)
    /\ position' = IF mode = "GATHER" THEN Numbered(position, nextGrp', startRec') ELSE position

-----------------------------------------------------------------------------
(* Selection: makeSelectionList over the current group.                    *)

\* MUTANT: the list is not emptied before it is rebuilt
SelectionOfMore(grp, sel, pos) == selection \o StableSort(Only(grp, sel), pos)

SelectionOf(grp, sel, pos) == StableSort(Only(grp, sel), pos)

\* selectT(NULL, DESELECT) before the groups change.
Deselected ==
    IF numTraces = 0 THEN UNCHANGED selVars
    ELSE /\ selected' = selected \ Elems(curGrp)
         /\ selection' = <<>>

-----------------------------------------------------------------------------
(* User actions. Each waits for the redraw the one before asked for.       *)

Ready == redraw = "no" /\ ~crashed

Init ==
    /\ traces = <<>> /\ numTraces = 0 /\ startRec = 0
    /\ prevGrp = <<>> /\ curGrp = <<>> /\ nextGrp = <<>> /\ prevList = <<>>
    /\ mode = "TRACE" /\ numPlots \in PlotCounts
    /\ selected = {} /\ selection = <<>>
    /\ position = [x \in Trcs |-> 0]
    /\ hasData = {} /\ prevStart = 0 /\ prevPlots = 0
    /\ state = "DATADONE" /\ redraw = "no" /\ origin = 0 /\ crashed = FALSE /\ since = {}
    /\ sortFile \in IF "sortFile" \in Features THEN BOOLEAN ELSE {FALSE}

\* openTraces, then readHdr_finish with the traces found.  A replacing open
\* frees every trace first (kill_all_traces(ALL)) but rebuilds the groups only
\* when traces were found.  readHdr_2 prepends; with shot times it adds the
\* excerpts of a trace, while numTraces grows by the traces read.  Files of the
\* command line given with -s stay in the order they were read in; the chooser
\* sets the criterion back to "Input Order".
Open(new, replace, read) ==
    /\ Ready
    /\ LET old == IF replace THEN <<>> ELSE traces
           keep == IF replace THEN {} ELSE hasData
       IN IF new = <<>>
          THEN /\ traces' = old /\ numTraces' = IF replace THEN 0 ELSE numTraces
               /\ hasData' = keep
               /\ curGrp' = IF replace THEN <<>> ELSE curGrp
               /\ selection' = IF replace THEN <<>> ELSE selection
               /\ since' = IF replace THEN {"emptied"} ELSE since
               /\ UNCHANGED <<startRec, prevGrp, nextGrp, prevList, position, origin, crashed,
                              selected, prevStart, prevPlots, state, redraw>>
          ELSE /\ \E key \in SortKeys :
                    LET added == Reverse(new) \o old
                        sorts == mode = "TRACE" /\ ~sortFile
                        list == IF sorts THEN StableSort(added, key) ELSE added
                    IN  /\ InitGroup(list, (IF replace THEN 0 ELSE numTraces) + read, mode, numPlots, 0)
                        /\ position' = IF sorts THEN Numbered(position, list, 0)
                                       ELSE IF mode = "GATHER" THEN GatherNumbers(position, 0)
                                       ELSE position
               /\ hasData' = keep
               /\ selected' = selected \ (Elems(new) \cup (IF mode = "TRACE" THEN Elems(curGrp) ELSE {}))
               /\ selection' = IF replace \/ mode = "TRACE" THEN <<>> ELSE selection
               /\ state' = "READDATA" /\ redraw' = "reset"
               /\ since' = (since \ {"emptied"}) \cup (IF keep = {} THEN {} ELSE {"moved"})
               /\ UNCHANGED <<prevStart, prevPlots>>
    /\ sortFile' = FALSE
    /\ UNCHANGED <<mode, numPlots>>

Load ==
    \E new \in Loads :
        /\ Elems(new) \cap Elems(traces) = {} 
        /\ \/ /\ Open(new, FALSE, Len(new))
              /\ new # <<>>
           \/ "replace" \in Features /\ traces # <<>> /\ Open(new, TRUE, Len(new))
           \/ "shots" \in Features /\ traces = <<>> /\ Len(new) > 1 /\ Open(new, FALSE, 1)

nextTrace(grp, move) ==
    /\ Ready
    /\ Deselected
    /\ IF grp = <<>>
       THEN UNCHANGED <<groups, state, redraw>>
       ELSE /\ move
            /\ state' = "READDATA" /\ redraw' = "reset"
            /\ UNCHANGED origin
    /\ UNCHANGED <<listVars, dataVars, modeVars, since>>

NextScreen == Len(prevList) < MaxPrev /\ nextTrace(nextGrp, NEXTGROUP)
PrevScreen == nextTrace(prevGrp, PREVGROUP)

\* Gather mode sorts the list anew when the groups are rebuilt.
MovedBy(m) == IF m = mode /\ traces' = traces THEN {} ELSE {"moved"}

\* Rebuild the groups from start and redraw; READDATA where the code says so.
Restart(start, newState) ==
    /\ InitGroup(traces, numTraces, mode, numPlots, start)
    /\ position' = IF mode = "GATHER" /\ traces # <<>> THEN GatherNumbers(position, start) ELSE position
    /\ state' = newState /\ redraw' = "reset"
    /\ since' = since \cup MovedBy(mode) \cup (IF newState = "READDATA" THEN {} ELSE {"unread"})

\* newStart: a double click on a row of the header screen, which lists all
\* traces, the displayed ones or the selected ones.
newStart ==
    /\ "jump" \in Features /\ Ready
    /\ \E start \in 0 .. Len(traces) - 1
                    \cup {startRec + r : r \in 0 .. Len(curGrp) - 1}
                    \cup {position[selection[k]] : k \in DOMAIN selection} :
         start <= MaxStart /\ Restart(start, "READDATA")
    /\ UNCHANGED <<selVars, dataVars, modeVars>>

\* SHIFT + click: "Move Trace to First"; the state is left alone.
moveToFirst ==
    /\ "shiftClick" \in Features /\ Ready
    /\ \E row \in 0 .. numPlots - 1 :
        /\ startRec + row < numTraces
        /\ Restart(startRec + row, state)
    /\ UNCHANGED <<selVars, dataVars, modeVars>>

\* MUTANT: a new number of plots does not ask for data.
continueWithUnread(m, p) ==
    /\ Ready /\ traces # <<>>
    /\ mode' = m /\ numPlots' = p /\ UNCHANGED sortFile
    /\ IF p # numPlots
       THEN /\ InitGroup(traces, numTraces, m, p, startRec)
            /\ position' = IF m = "GATHER" THEN GatherNumbers(position, startRec) ELSE position
       ELSE /\ origin' = IF m # mode THEN -1 ELSE origin
            /\ UNCHANGED <<listVars, startRec, prevGrp, curGrp, nextGrp, prevList, position, crashed>>
    /\ redraw' = "keep"
    /\ since' = since \cup MovedBy(m)
    /\ UNCHANGED <<selVars, dataVars, state>>

\* get_settings, the Continue button of the control panel.  A new number of
\* plots rebuilds the groups at the same startRec; a new mode does not.
continueWith(m, p) ==
    /\ Ready /\ traces # <<>>
    /\ mode' = m /\ numPlots' = p /\ UNCHANGED sortFile
    /\ IF p # numPlots
       THEN /\ InitGroup(traces, numTraces, m, p, startRec)
            /\ position' = IF m = "GATHER" THEN GatherNumbers(position, startRec) ELSE position
            /\ state' = "READDATA"
       ELSE /\ origin' = IF m # mode THEN -1 ELSE origin
            /\ UNCHANGED <<listVars, startRec, prevGrp, curGrp, nextGrp, prevList, position,
                           crashed, state>>
    /\ redraw' = "keep"
    /\ since' = since \cup MovedBy(m)
    /\ UNCHANGED <<selVars, dataVars>>

\* The Restart button: get_settings, then restartTrace from the first trace.
restartWith(m, p) ==
    /\ Ready /\ traces # <<>>
    /\ mode' = m /\ numPlots' = p /\ UNCHANGED sortFile
    /\ InitGroup(traces, numTraces, m, p, 0)
    /\ position' = IF m = "GATHER" THEN GatherNumbers(position, 0) ELSE position
    /\ state' = "READDATA" /\ redraw' = "reset"
    /\ since' = since \cup MovedBy(m)
    /\ UNCHANGED <<selVars, dataVars>>

\* The settings the instance lets the user change.
controlPanel ==
    \E m \in (IF "gather" \in Features THEN {"TRACE", "GATHER"} ELSE {mode}) :
    \E p \in (IF "resize" \in Features THEN PlotCounts ELSE {numPlots}) :
        \/ <<m, p>> # <<mode, numPlots>> /\ continueWith(m, p)
        \/ restartWith(m, p)

\* Select All, or a click on the label of one trace.
selectTraces ==
    /\ "select" \in Features /\ Ready /\ numTraces > 0
    /\ \E s \in {Elems(curGrp)} \cup {{x} : x \in Elems(curGrp)} :
        selected' = selected \cup s
    /\ selection' = SelectionOf(curGrp, selected', position)
    /\ redraw' = "keep"
    /\ UNCHANGED <<listVars, groups, dataVars, modeVars, state, since>>

\* MUTANT: the groups keep the removed traces
removeSelectedOnly ==
    /\ "remove" \in Features /\ Ready /\ selection # <<>>
    /\ traces' = Without(traces, Elems(selection))
    /\ numTraces' = Len(traces')
    /\ curGrp' = Without(curGrp, Elems(selection))
    /\ hasData' = hasData \ Elems(selection)
    /\ selected' = selected \ Elems(selection) /\ selection' = <<>>
    /\ redraw' = "reset"
    /\ UNCHANGED <<startRec, prevGrp, nextGrp, prevList, position, origin, crashed,
                   prevStart, prevPlots, modeVars, state, since>>

\* Remove: kill_all_traces(SELECTED) and INITGROUP; the state is left alone.
removeSelected ==
    /\ "remove" \in Features /\ Ready /\ selection # <<>>
    /\ LET gone == Elems(selection)
           left == Without(traces, gone)
           start == IF startRec >= Len(left) THEN Len(left) - numPlots ELSE startRec
           renumbered == Numbered(position, left, 0)
       IN  /\ InitGroup(left, Len(left), mode, numPlots, start)
           /\ position' = IF mode = "GATHER" /\ left # <<>> THEN GatherNumbers(renumbered, start)
                          ELSE renumbered
           /\ hasData' = hasData \ gone
           /\ selected' = selected \ gone
    /\ selection' = <<>>
    /\ redraw' = "reset"
    /\ since' = since \cup {"moved", "unread"}
    /\ UNCHANGED <<prevStart, prevPlots, modeVars, state>>

\* The Sort button (trace mode only): from the header screen the groups are
\* rebuilt at the same startRec, from any other the display restarts.
sortTraces ==
    /\ "sort" \in Features /\ Ready /\ mode = "TRACE" /\ traces # <<>>
    /\ Deselected
    /\ \E key \in SortKeys :
        LET list == StableSort(traces, key) IN
        /\ position' = Numbered(position, list, 0)
        /\ \/ /\ InitGroup(list, numTraces, mode, numPlots, startRec)
              /\ since' = since \cup {"moved", "unread"}
              /\ UNCHANGED state
           \/ /\ InitGroup(list, numTraces, mode, numPlots, 0)
              /\ state' = "READDATA"
              /\ since' = since \cup {"moved"}
    /\ redraw' = "reset"
    /\ UNCHANGED <<dataVars, modeVars>>

-----------------------------------------------------------------------------
(* makePixmap(TRACESCR): read what is missing, then draw.                  *)

\* MUTANT: the last trace of the screen before is kept.
ScrolledOutShort ==
    {traces[k + 1] : k \in {k \in prevStart .. prevStart + prevPlots - 2 :
        /\ 0 <= k /\ k < numTraces /\ k < Len(traces)
        /\ k < startRec \/ k > startRec + numPlots - 1}}

\* makeList: the data of the traces at the indices of the last screen read
\* that are not on this one are freed.
ScrolledOut ==
    {traces[k + 1] : k \in {k \in prevStart .. prevStart + prevPlots - 1 :
        /\ 0 <= k /\ k < numTraces /\ k < Len(traces)
        /\ k < startRec \/ k > startRec + numPlots - 1}}

Redraw ==
    /\ redraw # "no" /\ ~crashed
    /\ IF state = "READDATA"
       THEN /\ hasData' = (hasData \ ScrolledOut) \cup Elems(curGrp)
            /\ prevStart' = startRec /\ prevPlots' = numPlots
            /\ state' = "DATADONE"
            /\ since' = IF curGrp # FromIndex(traces, startRec, numPlots) THEN (since \ {"unread"}) \cup {"moved"}
                        ELSE since \ (IF hasData' = Elems(curGrp) THEN {"unread", "moved"} ELSE {"unread"})
       ELSE UNCHANGED <<dataVars, state, since>>
    /\ IF redraw = "reset" \/ state = "READDATA"      \* reading sets reset[TRACESCR]
       THEN Deselected ELSE UNCHANGED selVars
    /\ redraw' = "no"
    /\ UNCHANGED <<listVars, groups, modeVars>>

Next ==
    \/ Load \/ NextScreen \/ PrevScreen \/ newStart \/ moveToFirst
    \/ controlPanel \/ selectTraces \/ removeSelected \/ sortTraces \/ Redraw

Spec == Init /\ [][Next]_vars

-----------------------------------------------------------------------------
(* Properties.                                                             *)

\* Every variable has its type; the lists hold a trace at most once.
TypeOK ==
    /\ Distinct(traces) /\ Distinct(selection)
    /\ traces \in Seq(Trcs) /\ numTraces \in Nat /\ startRec \in Int
    /\ prevGrp \in Seq(Trcs) /\ curGrp \in Seq(Trcs) /\ nextGrp \in Seq(Trcs)
    /\ prevList \in Seq(Seq(Trcs))
    /\ mode \in {"TRACE", "GATHER"} /\ numPlots \in PlotCounts
    /\ selected \subseteq Trcs /\ selection \in Seq(Trcs)
    /\ position \in [Trcs -> Int] /\ hasData \subseteq Trcs
    /\ prevStart \in Int /\ prevPlots \in Nat
    /\ state \in {"READDATA", "DATADONE"} /\ redraw \in {"no", "keep", "reset"}
    /\ origin \in Int /\ crashed \in BOOLEAN /\ sortFile \in BOOLEAN

Aligned == mode = "TRACE" /\ origin \in 0 .. Len(traces) - 1 /\ origin % numPlots = 0

\* Trace mode, groups made from a multiple of numPlots within the list: however
\* often Next and Previous are pressed, the screens are the consecutive windows.
ScreensTile ==
    Aligned =>
        /\ curGrp = FromIndex(traces, startRec, numPlots)
        /\ prevGrp = FromIndex(traces, startRec - numPlots, numPlots)
        /\ numTraces = Len(traces) => nextGrp = FromIndex(traces, startRec + numPlots, numPlots)

\* Gather mode from the first trace: the current group is a run of the list
\* sorted by start, within Spread, and the groups before it cover the rest.
GathersTile ==
    mode = "GATHER" /\ origin = 0 /\ traces # <<>> /\ ~crashed =>
        /\ Elems(curGrp) = Elems(SubSeq(traces, startRec + 1, startRec + Len(curGrp)))
        /\ \A x, y \in Elems(curGrp) : Epochs[x] - Epochs[y] <= Spread
        /\ Elems(prevGrp) \cup UNION {Elems(prevList[k]) : k \in DOMAIN prevList}
             = Elems(SubSeq(traces, 1, startRec))

\* What is on the screens and in the selection is in the list of traces.  Exempt:
\* a replacing open that found no traces, which keeps the groups of those freed.
NoDangling ==
    "emptied" \notin since =>
    Elems(prevGrp) \cup Elems(curGrp) \cup Elems(nextGrp) \cup Elems(selection)
      \cup UNION {Elems(prevList[k]) : k \in DOMAIN prevList} \subseteq Elems(traces)

\* A trace that is drawn has its data (helpTrace.h:3: "each trace displayed
\* reflects the entire contents of the trace file"), after any paging, jump or
\* resize, though a read frees by index what the screen before held.  Exempt: SHIFT
\* and click, Remove, and Sort from the headers, which do not ask for data.
DrawnHasData == redraw = "no" /\ since \cap {"unread", "emptied"} = {} => Elems(curGrp) \subseteq hasData

\* Memory holds no data but the screen's, however large the list: makeList frees
\* the screen read before, by its indices.  Exempt: lists reordered since, whose
\* data stay, numTraces short of the list (shot times), and screens that are not
\* the window at startRec (gathers, Previous from a screen reached by a jump, and
\* a start before the first trace, where a Remove may leave it).
HeldIsShown ==
    redraw = "no" /\ since = {} /\ numTraces = Len(traces) /\ startRec >= 0 =>
        hasData \subseteq Elems(curGrp)

\* pqlx_defs.h:207, of the numbers gather mode sorts by: "must match array
\* instance number of criteria[] (globals.c)".  So the criteria are there to sort
\* by, and gather mode finds no NULL in a list that holds traces.
GatherSorts == crashed => traces = <<>>
=============================================================================
