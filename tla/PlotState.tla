----------------------------- MODULE PlotState -----------------------------
(***************************************************************************)
(* The life of the main screen, states.general.plot.state: from files that *)
(* were named, through reading headers and data, to the plot.  It composes *)
(* the reading threads of ThreadTrace with GTK's main loop: events of the  *)
(* window, dialogs, and the queue of idle callbacks, served in order.      *)
(* src/src/gtk_draw.c (tracePixmap), data.c (readHdr_1, readHdr_finish,    *)
(* readData_finish), gtk_events.c (pixmap_cfg, change_menu) and            *)
(* gtk_file_select.c (openTraces).  Reading headers is one step here; its  *)
(* threads are those of ThreadFile.  All traces fit one screen, so CURGRP  *)
(* is the whole list; DispList has the screens.                            *)
(***************************************************************************)
EXTENDS ThreadTrace

CONSTANTS
    MaxOpens,       \* bound on the uses of the Open button and the chooser
    Hasty           \* what the user does before the plot is there: "resize"
                    \* while data are read, "open" while data are read or plotted,
                    \* "next" open while a thread of the last read still runs

ASSUME PlotAssumption == MaxOpens \in Nat /\ Hasty \subseteq {"resize", "open", "next"}

VARIABLES
    plotState,      \* states.general.plot.state
    files,          \* states.input.Files is not empty (numFiles > 0)
    hdrReads,       \* readFiles calls whose threads have not reported
    idle,           \* callbacks queued with g_idle_add
    dialog,         \* the dialog that is up: "nofiles", "chooser", "none"
    page,           \* states.currentPage: "TRACE" or "OTHER"
    reset, refresh, \* states.reset.reset[TRACESCR], .refresh[TRACESCR]
    drawn, blank,   \* traces on the pixmap; those plotted without data
    opens,          \* uses of the Open button and the chooser
    mapped          \* the window was configured once

screenVars == <<drawn, blank, reset, refresh>>
userVars   == <<dialog, page, opens, mapped>>
plotVars   == <<plotState, files, hdrReads, idle, screenVars, userVars>>
threadVars == vars
allVars    == <<vars, plotVars>>

-----------------------------------------------------------------------------
(* main(): with files named on the command line, or with none.             *)

PlotInit ==
    /\ InitWith(<<>>)
    /\ plotState = "NOTRACES"
    /\ files \in BOOLEAN
    /\ idle = IF files THEN <<"pixmap">> ELSE <<>>
    /\ hdrReads = 0 /\ dialog = "none" /\ page = "TRACE"
    /\ reset = TRUE /\ refresh = FALSE /\ drawn = {} /\ blank = {}
    /\ opens = 0 /\ mapped = FALSE

-----------------------------------------------------------------------------
(* makePixmap(TRACESCR), i.e. tracePixmap(), entered in state st with the  *)
(* callbacks q queued and the refresh flag f.                              *)

\* The message screen: every pixmap is cleared and the next plot is a new one.
ClearScreen(f) == drawn' = {} /\ blank' = {} /\ reset' = TRUE /\ refresh' = f

\* The plot: made anew when a flag says so, else the pixmap is shown again.
\* plot_files leaves a trace without data blank.
ShowPlot(f) ==
    IF reset \/ f
    THEN /\ drawn' = Elems(CURGRP) /\ blank' = Elems(CURGRP) \ hasData
         /\ reset' = FALSE /\ refresh' = FALSE
    ELSE UNCHANGED screenVars

\* In READDATA the read is started and the state stays: readData_finish, run
\* at once when nothing has to be read, moves it on.  DATAPLOT shows
\* "Plotting..." and asks for the plot itself.
makePixmap(st, q, f) ==
    LET s == IF st = "DATADONE" /\ numTraces = 0 THEN "NOTRACES" ELSE st IN
    \/ /\ s \in {"NOTRACES", "READHDRS"}
       /\ plotState' = s /\ idle' = q
       /\ ClearScreen(f) /\ UNCHANGED threadVars
    \/ /\ s = "READDATA"
       /\ readData_1
       /\ plotState' = IF reports' > reports THEN "DATAPLOT" ELSE s
       /\ idle' = IF reports' > reports THEN Append(q, "pixmap") ELSE q
       /\ ClearScreen(f)
    \/ /\ s = "DATAPLOT"
       /\ plotState' = "DATADONE" /\ idle' = Append(q, "pixmap")
       /\ ClearScreen(f) /\ UNCHANGED threadVars
    \/ /\ s = "DATADONE"
       /\ plotState' = s /\ idle' = q
       /\ ShowPlot(f) /\ UNCHANGED threadVars

-----------------------------------------------------------------------------
(* Events of the window and of the user.                                   *)

Busy == plotState = "READDATA" /\ "resize" \notin Hasty

\* pixmap_cfg of the trace area or another one.  The first one with files
\* waiting starts readHdr_1.
Configure(scr) ==
    /\ main = "loop" /\ ~Busy
    /\ mapped' = TRUE
    /\ LET starts == files /\ plotState = "NOTRACES"
           st == IF starts THEN "READHDRS" ELSE plotState
           q == IF starts THEN Append(idle, "pixmap") ELSE idle
           f == refresh \/ scr = "TRACE"
       IN  /\ hdrReads' = IF starts THEN hdrReads + 1 ELSE hdrReads
           /\ IF scr = "TRACE" /\ page = "TRACE"
              THEN makePixmap(st, q, f)
              ELSE /\ plotState' = st /\ idle' = q /\ refresh' = f
                   /\ UNCHANGED <<threadVars, drawn, blank, reset>>
    /\ UNCHANGED <<files, dialog, page, opens>>

\* change_menu: a tab of the notebook.  A dialog that is up is modal.
TabSwitch ==
    /\ main = "loop" /\ ~Busy /\ dialog = "none"
    /\ \/ /\ page = "TRACE"
          /\ page' = "OTHER"
          /\ UNCHANGED <<threadVars, plotState, idle, screenVars>>
       \/ /\ page = "OTHER"
          /\ page' = "TRACE"
          /\ makePixmap(plotState, idle, refresh)
    /\ UNCHANGED <<files, hdrReads, dialog, opens, mapped>>

\* Nothing is left to do but what the user asks for.
Settled ==
    /\ plotState \in {"NOTRACES", "DATADONE"}
    /\ idle = <<>> /\ hdrReads = 0 /\ ~files

Stragglers == \E t \in Threads : pc[t] \notin {"none", "exit"}

OpenButton ==
    /\ main = "loop" /\ dialog = "none" /\ opens < MaxOpens
    /\ \/ Settled /\ ("next" \in Hasty \/ ~Stragglers)
       \/ "open" \in Hasty /\ plotState \in {"READDATA", "DATAPLOT"}
    /\ dialog' = "chooser" /\ opens' = opens + 1
    /\ UNCHANGED <<threadVars, plotState, files, hdrReads, idle, screenVars, page, mapped>>

\* readFiles of the chooser: kill_all_traces(ALL) if the files are to replace
\* those there are, then every file goes to states.input.Files.
readFiles(replace) ==
    /\ files' = TRUE
    /\ IF replace
       THEN /\ traces' = <<>> /\ CURGRP' = <<>> /\ numTraces' = 0
            /\ freed' = freed \cup Elems(traces) /\ UNCHANGED raced
            /\ hasData' = hasData \ Elems(traces)
       ELSE UNCHANGED <<listVars, hasData>>

\* The chooser's OPEN, with files selected; readHdr_1 starts reading them.
chooserOpen(replace) ==
    /\ main = "loop" /\ dialog = "chooser" /\ opens < MaxOpens
    /\ readFiles(replace)
    /\ plotState' = "READHDRS" /\ hdrReads' = hdrReads + 1
    /\ idle' = Append(idle, "pixmap")
    /\ dialog' = "none" /\ opens' = opens + 1
    /\ UNCHANGED <<mainVars, poolVars, pc, trcData, snap, reports, screenVars, page, mapped>>

\* OPEN with nothing selected: readHdr_1 finds no file and runs
\* readHdr_finish(NULL) itself, which shows the message.
chooserOpenNone ==
    /\ main = "loop" /\ dialog = "chooser" /\ opens < MaxOpens /\ ~files
    /\ opens' = opens + 1
    /\ plotState' = "DATADONE"
    /\ idle' = Append(idle, "pixmap")
    /\ dialog' = "nofiles"
    /\ UNCHANGED <<threadVars, files, hdrReads, screenVars, page, mapped>>

\* CANCEL shows what was there before.
chooserCancel ==
    /\ main = "loop" /\ dialog = "chooser"
    /\ plotState' = "DATADONE"
    /\ idle' = Append(idle, "pixmap")
    /\ dialog' = "none"
    /\ UNCHANGED <<threadVars, files, hdrReads, screenVars, page, opens, mapped>>

\* OK of "NO TRACE Files Identified for Display": the chooser comes again.
dialogOK ==
    /\ main = "loop" /\ dialog = "nofiles"
    /\ dialog' = "none"
    /\ idle' = Append(idle, "open")
    /\ UNCHANGED <<threadVars, plotState, files, hdrReads, screenVars, page, opens, mapped>>

-----------------------------------------------------------------------------
(* Reading headers, and the callbacks.                                     *)

\* Traces that files may still turn out to hold: each is a new structure.
Unseen == Trcs \ (Elems(traces) \cup freed)

\* MUTANT: one read may report twice
HdrDoneTwice ==
    /\ hdrReads > 0 \/ plotState = "READHDRS"
    /\ hdrReads' = hdrReads - 1
    /\ idle' = Append(idle, "nohdrs")
    /\ UNCHANGED <<threadVars, plotState, files, screenVars, userVars>>

\* The pool of ThreadFile reports, with traces or without.
HdrDone ==
    /\ hdrReads > 0
    /\ hdrReads' = hdrReads - 1
    /\ \/ Unseen # {} /\ idle' = Append(idle, "hdrs")
       \/ idle' = Append(idle, "nohdrs")
    /\ UNCHANGED <<threadVars, plotState, files, screenVars, userVars>>

\* MUTANT: the redraw is asked for twice
readHdr_finishTwice(new, q) ==
    /\ files' = FALSE
    /\ IF new = <<>>
       THEN /\ dialog' = "nofiles" /\ idle' = q
            /\ UNCHANGED <<threadVars, plotState>>
       ELSE /\ traces' = new \o traces /\ CURGRP' = new \o traces
            /\ numTraces' = numTraces + Len(new)
            /\ plotState' = "READDATA" /\ idle' = q \o <<"pixmap", "pixmap">>
            /\ UNCHANGED <<mainVars, poolVars, pc, trcData, snap, freed, raced, hasData, reports, dialog>>

\* MUTANT: the list of input files is kept
readHdr_finishKeeps(new, q) ==
    IF new = <<>>
    THEN /\ dialog' = "nofiles" /\ idle' = q
         /\ UNCHANGED <<threadVars, plotState, files>>
    ELSE /\ UNCHANGED files
         /\ traces' = new \o traces /\ CURGRP' = new \o traces
         /\ numTraces' = numTraces + Len(new)
         /\ plotState' = "READDATA" /\ idle' = Append(q, "pixmap")
         /\ UNCHANGED <<mainVars, poolVars, pc, trcData, snap, freed, raced, hasData, reports, dialog>>

\* readHdr_finish: the files are forgotten (readHdr_3), then either the
\* message or the new list, its first screen and a redraw that reads it.
readHdr_finish(new, q) ==
    /\ files' = FALSE
    /\ IF new = <<>>
       THEN /\ dialog' = "nofiles" /\ idle' = q
            /\ UNCHANGED <<threadVars, plotState>>
       ELSE /\ traces' = new \o traces /\ CURGRP' = new \o traces
            /\ numTraces' = numTraces + Len(new)
            /\ plotState' = "READDATA" /\ idle' = Append(q, "pixmap")
            /\ UNCHANGED <<mainVars, poolVars, pc, trcData, snap, freed, raced, hasData, reports, dialog>>

\* MUTANT: the state is set, the redraw is not asked for
readData_finishNoRedraw(q) ==
    /\ plotState' = "DATAPLOT" /\ idle' = q
    /\ UNCHANGED <<threadVars, files, screenVars, dialog>>

readData_finish(q) ==
    /\ plotState' = "DATAPLOT" /\ idle' = Append(q, "pixmap")
    /\ UNCHANGED <<threadVars, files, screenVars, dialog>>

\* The main loop takes the first idle callback.  _openTraces runs the chooser.
RunIdle ==
    /\ main = "loop" /\ idle # <<>>
    /\ LET q == Tail(idle) IN
       \/ /\ Head(idle) = "pixmap"
          /\ makePixmap(plotState, q, refresh)
          /\ UNCHANGED <<files, dialog>>
       \/ /\ Head(idle) = "hdrs"
          /\ \E found \in (SUBSET Unseen) \ {{}} :
                readHdr_finish(Only(Group0, found), q)
          /\ UNCHANGED screenVars
       \/ /\ Head(idle) = "nohdrs"
          /\ readHdr_finish(<<>>, q)
          /\ UNCHANGED screenVars
       \/ Head(idle) = "data" /\ readData_finish(q)
       \/ /\ Head(idle) = "open"
          /\ dialog' = "chooser" /\ idle' = q
          /\ UNCHANGED <<threadVars, plotState, files, screenVars>>
    /\ UNCHANGED <<hdrReads, page, opens, mapped>>

\* A step of readTraces in the main thread, or of a reading thread; the report
\* is a queued readData_finish.
ReadStep ==
    /\ \/ ZeroCounter \/ Spawn
       \/ \E t \in Threads : Worker(t)
    /\ idle' = IF reports' > reports THEN Append(idle, "data") ELSE idle
    /\ UNCHANGED <<plotState, files, hdrReads, screenVars, userVars>>

PlotNext ==
    \/ (\E scr \in {"TRACE", "OTHER"} : Configure(scr)) \/ TabSwitch
    \/ OpenButton \/ (\E replace \in BOOLEAN : chooserOpen(replace))
    \/ chooserOpenNone \/ chooserCancel \/ dialogOK
    \/ HdrDone \/ RunIdle \/ ReadStep

\* The window is mapped, the main loop serves its callbacks, every thread runs.
PlotSpec == PlotInit /\ [][PlotNext]_allVars
PlotFairSpec ==
    /\ PlotSpec
    /\ WF_allVars(Configure("TRACE") /\ ~mapped)
    /\ WF_allVars(RunIdle) /\ WF_allVars(HdrDone) /\ WF_allVars(ReadStep)

-----------------------------------------------------------------------------
(* Properties.                                                             *)

\* Every variable has its type.
PlotTypeOK ==
    /\ plotState \in {"NOTRACES", "READHDRS", "READDATA", "DATAPLOT", "DATADONE"}
    /\ files \in BOOLEAN /\ hdrReads \in Nat
    /\ idle \in Seq({"pixmap", "hdrs", "nohdrs", "data", "open"})
    /\ dialog \in {"none", "nofiles", "chooser"} /\ page \in {"TRACE", "OTHER"}
    /\ reset \in BOOLEAN /\ refresh \in BOOLEAN /\ mapped \in BOOLEAN
    /\ drawn \subseteq Trcs /\ blank \subseteq drawn /\ opens \in 0 .. MaxOpens
    /\ TypeOK

\* data.c:267: "read in corresponding data for each trace to be plotted onto
\* the main screen": no trace is plotted before tracePixmap's read gave it data.
DrawnIsRead == blank = {}

\* The plot states keep a second readTraces from starting while threads of the
\* first one run, which the counter of the pool does not survive.
ReadsDontOverlap == ~reentered

\* A set of files is read once: while its headers are read the state keeps
\* pixmap_cfg from reading them again, and readHdr_3 forgets them after.
HeadersReadOnce == hdrReads <= 1 /\ (plotState = "NOTRACES" /\ mapped /\ idle = <<>> => ~files)

\* A read of headers leads to traces to be read or to a dialog that asks the
\* user, and traces that were found get onto the screen, except the ones removed:
\* no link of the chain of states, callbacks and threads is missing.
Displayed ==
    /\ (plotState = "READHDRS") ~> (plotState = "READDATA" \/ dialog # "none")
    /\ (plotState \in {"READDATA", "DATAPLOT"}) ~>
          (plotState \in {"DATADONE", "NOTRACES"} /\ drawn = Elems(CURGRP))
=============================================================================
