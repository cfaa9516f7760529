------------------------------ MODULE Screens ------------------------------
(***************************************************************************)
(* The notebook pages and their cached pixmaps: the trace page, Magnify,   *)
(* Spectra, and the split page with two or three panes.  Every page draws  *)
(* one selection of traces, one window of time and one transform, but      *)
(* caches its pixmaps (Tpm, Mpm, Spm by display type, Hpm by kind of pane) *)
(* and learns of changes only through flags: states.reset.reset and        *)
(* .refresh by kind, split.resetPixmaps, .resetPixmap by place and         *)
(* .refreshPixmap by kind.  src/src/gtk_draw.c, gtk_events.c, gtk_mouse.c, *)
(* gtk_drag.c, plot_mag.c (magnify_proc), plot_spectra.c (transform_proc). *)
(*                                                                         *)
(* A handler is a function from states to states, since one handler calls  *)
(* makePixmap several times.  Those that run the main loop in their middle *)
(* (while (g_main_context_iteration(NULL, FALSE))) leave the rest on the   *)
(* stack tails.  What a pixmap shows is a content: the window it was drawn *)
(* for, or "old" once the selection, transform or display changed.         *)
(***************************************************************************)
EXTENDS Naturals, Sequences, FiniteSets, Functions

CONSTANTS
    Windows,        \* windows of time a user may mark
    Combos,         \* <<pane set, place, kind>>: layouts the user chooses
    MaxNest,        \* bound on handlers running inside a handler
    MaxOps          \* bound on the user's operations

Kinds   == {"TRACE", "MAG", "SPEC"}
Panes   == {"SPLIT2", "SPLIT3"}         \* states.split.panes
Screens == {"MAIN"} \cup Panes          \* states.currentScreen
Pages   == {"T", "M", "S", "H", "HDR"}  \* states.currentPage
Views   == {"A", "B"}                   \* display types: scaling, overlay, axes
OnOff   == {"on", "off"}
NoWin   == "0"                          \* pixel or user coordinates all 0
Places(p) == IF p = "SPLIT2" THEN {"TOP", "BOT"} ELSE {"TOP", "MID", "BOT"}

ASSUME ScreensAssumption ==
    /\ MaxNest \in Nat /\ MaxOps \in Nat
    /\ Combos \subseteq UNION {{p} \X Places(p) \X Kinds : p \in Panes}

\* Drawing areas, and the slots of Tpm, Mpm, Spm and Hpm.
Area(k)   == <<"MAIN", k>>
Areas     == {Area(k) : k \in Kinds} \cup UNION {{p} \X Places(p) : p \in Panes}
Key(k, v, t) == IF k = "TRACE" THEN <<k, v>> ELSE <<k, v, t>>
None(k)   == <<k, "NONE">>
MainSlots(k) == {Key(k, v, t) : v \in Views, t \in OnOff} \cup {None(k)}
SplitSlots == Panes \X Kinds
Slots     == SplitSlots \cup UNION {MainSlots(k) : k \in Kinds}
Contents  == Windows \cup {"none", "msg", "blank", "ok", "old"}
TwoPanes(K) == Panes \X K

VARIABLES
    g,          \* the states and settings structures, and the pixmaps
    tails,      \* rest of the handlers that are running the main loop
    ops         \* operations of the user so far

vars == <<g, tails, ops>>

-----------------------------------------------------------------------------
(* Start: traces are plotted, every page was visited once (so every area   *)
(* has a window), some traces are selected, with a window marked;          *)
(* settings.split.DA by default.                                           *)

defaults == [SPLIT2 |-> [TOP |-> "TRACE", MID |-> "NONE", BOT |-> "MAG"],
             SPLIT3 |-> [TOP |-> "TRACE", MID |-> "MAG", BOT |-> "SPEC"]]

Init ==
    \E win \in Windows :
    /\ g = [page |-> "T", screen |-> "MAIN", panes |-> "SPLIT2", lay |-> defaults,
            busy |-> FALSE, sel |-> TRUE, tf |-> "off",
            view |-> [k \in Kinds |-> "A"], old |-> [k \in Kinds |-> Key(k, "A", "off")],
            pix |-> [s \in Screens |-> IF s = "MAIN" THEN win ELSE NoWin], half |-> {}, user |-> NoWin, vline |-> 0,
            gr |-> {"MAIN"}, curScr |-> Area("TRACE"),
            reset |-> {"MAG", "SPEC"}, refresh |-> {}, resetAll |-> TRUE,
            refreshH |-> TwoPanes(Kinds), resetH |-> {}, dirty |-> FALSE, selChanged |-> TRUE,
            pm |-> [s \in Slots |-> IF s = Key("TRACE", "A", "off") THEN "ok" ELSE "none"],
            fft |-> "none", shown |-> [a \in Areas |-> IF a = Area("TRACE") THEN Key("TRACE", "A", "off") ELSE <<>>],
            resize |-> {}, drag |-> FALSE, filter |-> FALSE, crashed |-> FALSE,
            dead |-> {}, drawn |-> {}, lost |-> {}, left |-> {}]
    /\ tails = <<>> /\ ops = 0

-----------------------------------------------------------------------------
(* Pixmaps.                                                                *)

\* g_object_unref of the pixmaps in S; an area that shows one keeps the pointer.
Unref(s, S) ==
    [s EXCEPT !.pm = [i \in Slots |-> IF i \in S THEN "none" ELSE @[i]],
              !.dead = @ \cup {a \in Areas : s.shown[a] \in S /\ s.pm[s.shown[a]] # "none"}]

Draw(s, slot, c) == [s EXCEPT !.pm[slot] = c]

\* DAPixmap[area] = the pixmap of slot, and the area is queued for an expose.
Show(s, a, slot) ==
    [s EXCEPT !.shown[a] = slot, !.dead = @ \ {a}, !.left = @ \ {a}, !.drawn = @ \cup {a}]

PageOf(a) == CASE a = Area("TRACE") -> "T" [] a = Area("MAG") -> "M"
               [] a = Area("SPEC") -> "S" [] OTHER -> "H"

\* Areas on the page that is up.
Visible(s) == {a \in Areas : PageOf(a) = s.page /\ a[1] \in {"MAIN", s.panes}}

KindOf(s, a) == IF a[1] = "MAIN" THEN a[2] ELSE s.lay[a[1]][a[2]]

\* The content of slots S no longer is what should be shown.
Age(s, S) ==
    [s EXCEPT !.pm = [i \in Slots |-> IF i \in S /\ @[i] \in Windows \cup {"ok"} THEN "old" ELSE @[i]]]

AgeFFT(s) == [s EXCEPT !.fft = IF @ = "none" THEN @ ELSE "old"]

\* No window marked on the current screen, or nothing to show it of.
Nothing(s) == s.pix[s.screen] = NoWin \/ ~s.sel

CurWin(s) == IF s.user # NoWin THEN s.user ELSE s.pix[s.screen]

\* plot_files lays out the graph of the current screen; on a split screen
\* without a window it takes over Magnify's, or that of the main screen. A
\* pane drawn before does not follow (lost).
plot_files(s, slot) ==
    LET take == s.screen # "MAIN" /\ s.pix[s.screen] = NoWin
        late == take /\ \E k \in {"MAG", "SPEC"} :
                            s.pm[<<s.screen, k>>] = "msg" /\ <<s.screen, k>> \notin s.refreshH
    IN
    [s EXCEPT !.pm[slot] = "ok", !.gr = @ \cup {s.screen},
              !.lost = IF late THEN @ \cup {"take"} ELSE @,
              !.pix[s.screen] = IF ~take THEN @
                                ELSE IF s.user # NoWin THEN s.user ELSE s.pix["MAIN"]]

\* Before the trace screen is laid out nothing is drawn.  The user coordinates
\* are taken from the pixels of the current screen, or the other way round.
magnify_proc(s, slot) ==
    IF s.screen \notin s.gr THEN Draw(s, slot, "blank")
    ELSE [s EXCEPT !.pm[slot] = CurWin(s), !.user = CurWin(s), !.vline = 0,
                   !.pix[s.screen] = CurWin(s), !.half = @ \ {s.screen},
                   !.lost = IF s.screen = "SPLIT3" /\ \A i \in Slots \ {slot} : s.pm[i] # "blank"
                            THEN @ \ {"order"} ELSE @]

\* The spectra are computed when told to restart, and plotted as they are.
transform_proc(s, slot, restart) ==
    LET data == IF restart THEN CurWin(s) ELSE s.fft
        cross == s.user = NoWin /\ \E x \in Screens : s.pix[x] \notin {NoWin, s.pix[s.screen]}
    IN
    [s EXCEPT !.fft = data, !.pm[slot] = data, !.lost = IF restart THEN (@ \ {"shift", "edit", "cross", "range"}) \cup IF cross THEN {"cross"} ELSE {} ELSE @,
              !.half = IF s.user = NoWin THEN @ \ {s.screen} ELSE @]

-----------------------------------------------------------------------------
(* The selection list.                                                     *)

makeSelectionList(s, sel) ==
    [AgeFFT(Age(s, Slots \ MainSlots("TRACE"))) EXCEPT
        !.sel = sel, !.reset = @ \cup {"MAG", "SPEC"},
        !.user = NoWin, !.vline = 0, !.dirty = FALSE, !.selChanged = TRUE]

makeMAGSelectionList(s) ==
    [s EXCEPT !.reset = @ \cup {"MAG", "SPEC"}, !.resetAll = TRUE]

\* MUTANT: the trace panes are not told.
DeselectMain(s) ==
    [makeSelectionList(s, FALSE) EXCEPT
        !.pix = [x \in Screens |-> NoWin], !.half = {}, !.refreshH = @ \cup TwoPanes({"MAG", "SPEC"})]

\* selectT(DESELECT) without a button; the labels on the trace screen stay.
Deselect(s) ==
    [makeSelectionList(s, FALSE) EXCEPT
        !.resetAll = TRUE, !.pix = [x \in Screens |-> NoWin], !.half = {},
        !.refreshH = TwoPanes(Kinds)]

-----------------------------------------------------------------------------
(* makePixmap.                                                             *)

\* While headers or data are read the page is a message, and every pixmap goes.
tracePixmapBusy(s) ==
    [Show(Draw(Unref(s, Slots), None("TRACE"), "msg"), Area("TRACE"), None("TRACE"))
        EXCEPT !.reset = @ \cup {"TRACE"}]

\* New traces: the selection, the windows and the transform start over.
Restart(s) ==
    [Deselect(s) EXCEPT !.tf = "off", !.gr = {}, !.reset = @ \cup {"MAG", "SPEC"},
        !.refresh = @ \cup {"TRACE"}, !.lost = {}]

tracePixmapPlot(s) ==
    LET s1 == IF "TRACE" \in s.reset THEN Restart(s) ELSE s
        s2 == IF "TRACE" \in s1.refresh THEN Unref(s1, Slots) ELSE s1
        slot == Key("TRACE", s.view["TRACE"], s.tf)
        new == slot # s.old["TRACE"]
        s3 == IF new /\ s2.selChanged
              THEN [s2 EXCEPT !.selChanged = FALSE,
                              !.pm[slot] = IF @ = "none" THEN @ ELSE "ok"]
              ELSE s2
        s4 == IF s3.pm[slot] = "none" THEN plot_files(s3, slot) ELSE s3
        s5 == IF new THEN [s4 EXCEPT !.refreshH = @ \cup TwoPanes({"TRACE"}),
                                     !.reset = @ \cup {"MAG"}, !.old["TRACE"] = slot]
              ELSE s4
    IN  [Show(s5, Area("TRACE"), slot) EXCEPT !.reset = @ \ {"TRACE"}, !.refresh = @ \ {"TRACE"}]

tracePixmap(s) ==
    LET s1 == IF s.page = "T" THEN s ELSE [s EXCEPT !.left = Visible(s)]
    IN  IF s.busy THEN tracePixmapBusy(s1) ELSE tracePixmapPlot(s1)

magPixmap(s) ==
    LET slot == IF Nothing(s) THEN None("MAG") ELSE Key("MAG", s.view["MAG"], s.tf)
        clear == Nothing(s) \/ "MAG" \in s.reset \cup s.refresh
        s1 == IF clear THEN Unref(s, MainSlots("MAG")) ELSE s
        s2 == IF s.dirty THEN [Unref(s1, {slot}) EXCEPT !.dirty = FALSE] ELSE s1
        s3 == IF s2.pm[slot] # "none" THEN s2
              ELSE IF Nothing(s) THEN Draw(s2, slot, "msg") ELSE magnify_proc(s2, slot)
        new == clear \/ slot # s.old["MAG"]
    IN  [Show(s3, Area("MAG"), slot) EXCEPT
            !.refreshH = IF new THEN @ \cup TwoPanes({"MAG"}) ELSE @, !.old["MAG"] = slot,
            !.reset = @ \ {"MAG"}, !.refresh = @ \ {"MAG"}]

specPixmap(s) ==
    LET slot == IF Nothing(s) THEN None("SPEC") ELSE Key("SPEC", s.view["SPEC"], s.tf)
        reset == Nothing(s) \/ "SPEC" \in s.reset
        clear == reset \/ "SPEC" \in s.refresh
        s1 == IF clear THEN Unref(s, MainSlots("SPEC")) ELSE s
        s2 == IF s1.pm[slot] # "none" THEN s1
              ELSE IF Nothing(s) THEN Draw(s1, slot, "msg")
                                 ELSE transform_proc(s1, slot, reset)
        new == reset \/ slot # s.old["SPEC"]
    IN  [Show(s2, Area("SPEC"), slot) EXCEPT
            !.refreshH = IF new THEN @ \cup TwoPanes({"SPEC"}) ELSE @, !.old["SPEC"] = slot,
            !.lost = IF Nothing(s) /\ \E x \in Screens : s.pix[x] # NoWin THEN @ \cup {"cross"} ELSE @,
            !.reset = @ \ {"SPEC"}, !.refresh = @ \ {"SPEC"}]

\* MUTANT: spectra computed in a pane are not handed to the spectra page.
splitPaneOnly(s, slot) ==
    CASE slot[2] = "TRACE" -> IF s.sel THEN plot_files(s, slot) ELSE Draw(s, slot, "msg")
      [] slot[2] = "MAG"   -> IF Nothing(s) THEN Draw(s, slot, "msg") ELSE magnify_proc(s, slot)
      [] slot[2] = "SPEC"  ->
            IF Nothing(s) THEN Draw(s, slot, "msg")
            ELSE [transform_proc(s, slot, "SPEC" \in s.reset) EXCEPT !.reset = @ \ {"SPEC"}]

\* One pane; spectra computed here must still reach the spectra page.
splitPane(s, slot) ==
    CASE slot[2] = "TRACE" -> IF s.sel THEN plot_files(s, slot) ELSE Draw(s, slot, "msg")
      [] slot[2] = "MAG"   -> IF Nothing(s) THEN Draw(s, slot, "msg") ELSE magnify_proc(s, slot)
      [] slot[2] = "SPEC"  ->
            IF Nothing(s) THEN Draw(s, slot, "msg")
            ELSE [transform_proc(s, slot, "SPEC" \in s.reset) EXCEPT
                    !.reset = @ \ {"SPEC"},
                    !.refresh = IF "SPEC" \in s.reset THEN @ \cup {"SPEC"} ELSE @]

splitPixmap(s, place) ==
    LET kind == s.lay[s.panes][place]
        slot == <<s.panes, kind>>
        s1 == IF s.resetAll THEN [Unref(s, SplitSlots) EXCEPT !.left = @ \cup Visible(s)] ELSE s
        s2 == IF <<s.panes, place>> \in s.resetH \/ slot \in s.refreshH
              THEN Unref(s1, {slot}) ELSE s1
        s3 == IF s2.pm[slot] # "none" THEN s2
              ELSE IF s.screen = "MAIN" THEN [splitPane(s2, slot) EXCEPT !.lost = @ \cup {"take"}]
              ELSE splitPane(s2, slot)
    IN  [s3 EXCEPT !.resetAll = FALSE, !.resetH = @ \ {<<s.panes, place>>},
                   !.refreshH = @ \ {slot}]

splitArea(s, place) == Show(splitPixmap(s, place), <<s.panes, place>>, <<s.panes, s.lay[s.panes][place]>>)

\* An area of the panes not shown is drawn by the layout of those that are, of
\* which the middle one may be NONE, an index of -1.
makePixmap(s, a) ==
    CASE a = Area("TRACE") -> tracePixmap(s)
      [] a = Area("MAG")   -> magPixmap(s)
      [] a = Area("SPEC")  -> specPixmap(s)
      [] OTHER ->
            IF s.lay[s.panes][a[2]] = "NONE" THEN [s EXCEPT !.crashed = TRUE]
            ELSE Show(splitPixmap(s, a[2]), a, <<s.panes, s.lay[s.panes][a[2]]>>)

\* MUTANT: the middle pane is left as it is.
drawTopBottom(s) == splitArea(splitArea(s, "TOP"), "BOT")

\* Two panes without the traces: they are drawn invisibly, for the layout of the
\* graph and its window, and both panes follow.
makePixmap2M(s) ==
    IF s.panes = "SPLIT2" /\ s.lay["SPLIT2"]["MID"] = "TRACE"
    THEN [splitPixmap(s, "MID") EXCEPT !.resetH = @ \cup {"SPLIT2"} \X Places("SPLIT2")]
    ELSE s

\* All panes.
drawPanes(s) ==
    LET s1 == splitArea(makePixmap2M(s), "TOP")
        s2 == IF s.panes = "SPLIT3" THEN splitArea(s1, "MID") ELSE s1
    IN  splitArea(s2, "BOT")

\* MUTANT: Magnify is not told.
WindowChangedQuiet(s) ==
    [s EXCEPT !.reset = @ \cup {"SPEC"}, !.refreshH = @ \cup TwoPanes({"MAG", "SPEC"})]

\* MUTANT: the flag is set by the page's index, not by the kind's.
WindowChangedByPage(s) ==
    [s EXCEPT !.reset = @ \cup {s.page, "SPEC"}, !.refreshH = @ \cup TwoPanes({"MAG", "SPEC"})]

\* What a change of the window tells every page.
WindowChanged(s) ==
    [s EXCEPT !.reset = @ \cup {"MAG", "SPEC"}, !.refreshH = @ \cup TwoPanes({"MAG", "SPEC"})]

\* reMag: the window is set, every page told, the current one redrawn.
reMag(s, page) ==
    LET s1 == WindowChanged(s)
    IN  CASE page = "M" -> magPixmap(s1)
          [] page = "H" -> drawPanes(splitArea(s1, IF s1.panes = "SPLIT2" THEN "BOT" ELSE "MID"))
          [] OTHER      -> s1

-----------------------------------------------------------------------------
(* Events.  A handler starts from s0; Rest is what a handler does once the *)
(* main loop it ran has nothing left to do.                                *)

s0 == [g EXCEPT !.drawn = {}]

Serve(s) == ~g.crashed /\ ops < MaxOps /\ ops' = ops + 1 /\ g' = s

Do(s) == Serve(s) /\ UNCHANGED tails

DoThen(s, what, arg) ==
    Len(tails) < MaxNest /\ Serve(s) /\ tails' = Append(tails, <<what, arg>>)

\* pixmap_cfg: an area was resized.
pixmap_cfg(a) ==
    /\ a[1] \in {"MAIN", g.panes}
    /\ LET s1 == IF a[1] = "MAIN" THEN [s0 EXCEPT !.refresh = @ \cup {a[2]}]
                                  ELSE [s0 EXCEPT !.resetH = @ \cup {a}]
           s2 == IF PageOf(a) = g.page THEN makePixmap(s1, a) ELSE s1
       IN  Do([s2 EXCEPT !.curScr = a, !.resize = @ \ {a}])

\* change_menu: a tab.  Magnify is only asked to be resized, and is drawn then.
change_menu(p) ==
    /\ p # g.page
    /\ LET s1 == [s0 EXCEPT !.page = p, !.screen = IF p = "H" THEN g.panes ELSE "MAIN"]
       IN  Do(CASE p = "T" -> tracePixmap(s1)
                [] p = "M" -> [s1 EXCEPT !.resize = @ \cup {Area("MAG")}]
                [] p = "S" -> specPixmap(s1)
                [] p = "H" -> drawPanes(s1)
                [] p = "HDR" -> s1)

\* Select All and Deselect All: the labels are printed on the pixmap shown.
selectT(sel) ==
    /\ g.page = "T" /\ ~g.busy
    /\ LET s1 == IF sel THEN [makeSelectionList(s0, TRUE) EXCEPT !.resetAll = TRUE] ELSE Deselect(s0)
       IN  Do(tracePixmap(s1))

\* Next at the end of the list, and Next with a screen to read.
nextTrace(more) ==
    /\ g.page = "T" /\ ~g.busy
    /\ LET s1 == Age(Deselect(s0), IF g.sel THEN {g.shown[Area("TRACE")]} ELSE {})
       IN  Do(IF more THEN tracePixmap([s1 EXCEPT !.busy = TRUE])
                      ELSE [s1 EXCEPT !.lost = @ \cup {"atEnd"}])

\* The data are read: an idle callback plots the traces, whatever page is up.
ReadDone ==
    /\ g.busy
    /\ Do(tracePixmap([s0 EXCEPT !.busy = FALSE]))

-----------------------------------------------------------------------------
(* The mouse.  On a main page the area is redrawn after the main loop ran; *)
(* on the split page the pane is drawn first, and the others follow if the *)
(* window changed.                                                         *)

Released(s, a, all) ==
    IF a[1] = "MAIN" THEN DoThen(s, "area", a)
    ELSE IF all THEN DoThen(splitArea(s, a[2]), "panes", <<>>)
    ELSE Do(splitArea(s, a[2]))

Mouse(a) == a \in Visible(g) /\ ~g.busy

\* traceMouse, SELECTTR: a label toggled; some or no trace stays selected.
selectTrace(sel) ==
    /\ Mouse(Area("TRACE")) /\ g.screen = "MAIN" /\ (sel \/ g.sel)
    /\ Released([makeSelectionList(s0, sel) EXCEPT !.refreshH = TwoPanes(Kinds)], Area("TRACE"), FALSE)

\* traceMouse, MAGBOUNDARY: one bound of the window, or the second.
magBoundary(a, w) ==
    /\ Mouse(a) /\ KindOf(g, a) = "TRACE" /\ g.screen \in g.gr
    /\ LET first == g.pix[g.screen] = NoWin \/ g.screen \notin g.half
           s1 == [WindowChanged(s0) EXCEPT !.pix[g.screen] = w, !.user = NoWin,
                    !.half = IF first THEN @ \cup {g.screen} ELSE @ \ {g.screen}]
       IN  Released(s1, a, ~first)

Magnified(a) == Mouse(a) /\ KindOf(g, a) = "MAG" /\ g.sel /\ g.user # NoWin

\* magMouse, SELECTTR: the label of a magnified trace, not in overlay.
selectMag(a) ==
    /\ Magnified(a)
    /\ LET s1 == [s0 EXCEPT !.refreshH = @ \cup TwoPanes({"MAG", "SPEC"})]
       IN  Released(makeMAGSelectionList(s1), a, FALSE)

\* magMouse, VLINE: a vertical line, and a second.
vLine(a) ==
    /\ Magnified(a)
    /\ Released([s0 EXCEPT !.vline = IF @ = 1 THEN 2 ELSE 1], a, FALSE)

\* magMouse, XAXIS: the window jumps.
xAxis(a, w) ==
    /\ Magnified(a)
    /\ Released([WindowChanged(s0) EXCEPT !.user = w, !.vline = 0], a, TRUE)

\* magMouse, XAXIS with SHIFT: the window is centred at the point.  The
\* spectra are told to be plotted, not to be computed.
xAxisShift(a, w) ==
    /\ Magnified(a)
    /\ LET s1 == [s0 EXCEPT !.user = w, !.pix[g.screen] = w, !.reset = @ \cup {"MAG"},
                            !.refreshH = TwoPanes(Kinds), !.lost = @ \cup {"shift"}]
       IN  Released(s1, a, TRUE)

\* magDrag: only the area of the mouse follows; the release redraws the others.
magDrag(a, w) ==
    /\ Magnified(a)
    /\ Do([makePixmap([WindowChanged(s0) EXCEPT !.user = w], a) EXCEPT !.drag = TRUE])

dragRelease(a) ==
    /\ Magnified(a) /\ g.drag
    /\ Released([s0 EXCEPT !.drag = FALSE], a, TRUE)

\* scrollEvent on any area but the trace and spectra pages.  The first trace of
\* the selection is read whether there is one or not.
scrollEvent(a, w) ==
    /\ a \in Visible(g) /\ g.page \in {"M", "H"}
    /\ IF ~g.sel THEN Do([s0 EXCEPT !.crashed = TRUE])
       ELSE Do(reMag([s0 EXCEPT !.user = IF @ = NoWin THEN @ ELSE w], g.page))

\* snapMag: Snap and Mag, or a key, with vertical lines drawn.
snapMag(w) ==
    /\ g.page \in {"M", "H"}
    /\ IF ~g.sel THEN Do([s0 EXCEPT !.crashed = TRUE])
       ELSE g.vline > 0 /\ DoThen(s0, "snap", w)

-----------------------------------------------------------------------------
(* Display types, transforms and panes.                                    *)

Flip(v) == IF v = "A" THEN "B" ELSE "A"

\* pqlComboSel and radioB_chg: a display type of the page.  On the split page
\* the spectra take over those of Magnify.
displayType ==
    \/ /\ g.page = "T"
       /\ Do(tracePixmap(Age([s0 EXCEPT !.view["TRACE"] = Flip(@)], TwoPanes({"TRACE"}))))
    \/ /\ g.page = "M"
       /\ Do(magPixmap(Age([s0 EXCEPT !.view["MAG"] = Flip(@)], TwoPanes({"MAG"}))))
    \/ /\ g.page = "S"
       /\ Do(specPixmap(Age([s0 EXCEPT !.view["SPEC"] = Flip(@)], TwoPanes({"SPEC"}))))
    \/ /\ g.page = "H"
       /\ LET s1 == [s0 EXCEPT !.view["MAG"] = Flip(@), !.view["SPEC"] = Flip(g.view["MAG"])]
          IN  Do(reMag(Age(s1, TwoPanes({"MAG", "SPEC"})), "H"))

\* pqlComboSel, TRCXAXIS: relative or absolute time is a new plot.
timeAxis == g.page = "T" /\ ~g.busy /\ Do(tracePixmap([s0 EXCEPT !.reset = @ \cup {"TRACE"}]))

comboChanged(s) ==
    reMag(Age([s EXCEPT !.view["SPEC"] = s.view["MAG"]],
              IF s.view["SPEC"] = s.view["MAG"] THEN {} ELSE TwoPanes({"SPEC"})), "H")

\* pqlComboSel: what a pane shows.  settings.split.DT stays.
paneKind(p, place, kind) ==
    /\ g.page = "H" /\ p = g.panes /\ g.lay[p][place] # kind
    /\ Do(comboChanged([s0 EXCEPT !.lay[p][place] = kind]))

\* newSplit: two panes or three, once the main loop ran.
newSplit(p) == g.page = "H" /\ p # g.panes /\ DoThen(s0, "split", p)

\* Its combo boxes are set for the panes to come: one that changes is a
\* pqlComboSel, for three panes before the current screen is set.
setPanes(s, p) ==
    LET Set(x, place) == IF s.lay[s.panes][place] # s.lay[p][place] THEN comboChanged(x) ELSE x
        s1 == [s EXCEPT !.panes = p]
    IN  IF p = "SPLIT2"
        THEN LET s2 == makePixmap2M([s1 EXCEPT !.screen = p]) IN
             splitArea(splitArea(Set(Set(s2, "TOP"), "BOT"), "TOP"), "BOT")
        ELSE LET s2 == Set(Set(s1, "TOP"), "BOT") IN
             drawPanes([s2 EXCEPT !.screen = p, !.lost = IF s2 = s1 THEN @ ELSE @ \cup {"order"}])

\* Continue in the control panel.  Settings that change how kind k is drawn ask
\* for new pixmaps, the range of the spectra only for spectra ("range"); of two
\* panes without the traces the middle one becomes the invisible one.  Then
\* raise_page draws the page that is up.
Continue(k) ==
    LET mid == IF "TRACE" \in {g.lay["SPLIT2"][p] : p \in {"TOP", "BOT"}} THEN "NONE" ELSE "TRACE"
        s1 == [s0 EXCEPT !.lay["SPLIT2"]["MID"] = mid,
                         !.refreshH = IF mid = g.lay["SPLIT2"]["MID"] THEN @ ELSE @ \cup {<<"SPLIT2", "MAG">>},
                         !.screen = IF g.page = "H" THEN g.panes ELSE "MAIN"]
        s2 == CASE k \in Kinds -> [Age(s1, MainSlots(k) \cup TwoPanes({k})) EXCEPT
                                    !.refresh = @ \cup {k}, !.refreshH = @ \cup TwoPanes({k})]
                [] k = "range" -> [AgeFFT(Age(s1, MainSlots("SPEC") \cup TwoPanes({"SPEC"}))) EXCEPT
                                    !.reset = @ \cup {"SPEC"}, !.lost = @ \cup {"range"}]
                [] OTHER -> s1
    IN  /\ tails = <<>>
        /\ Do(CASE g.page = "T" -> tracePixmap(s2)
                [] g.page = "M" -> magPixmap(s2)
                [] g.page = "S" -> specPixmap(s2)
                [] g.page = "H" -> drawPanes(s2)
                [] OTHER -> s2)

\* reDraw: the gain, entered on the trace page or on Magnify's.
reDraw ==
    LET s1 == Age([s0 EXCEPT !.reset = @ \cup {"TRACE", "MAG"}],
                  MainSlots("TRACE") \cup MainSlots("MAG") \cup TwoPanes({"TRACE", "MAG"}))
    IN  \/ g.page = "T" /\ ~g.busy /\ Do(tracePixmap(s1))
        \/ g.page = "M" /\ Do([magPixmap(s1) EXCEPT !.lost = @ \cup {"gain"}])

\* The transform is switched, or another one takes its place.
Transformed(s, t) ==
    AgeFFT(Age([s EXCEPT !.tf = t],
               TwoPanes({"MAG", "SPEC"}) \cup {Key(k, v, "on") : k \in {"MAG", "SPEC"}, v \in Views}))

\* The current page is redrawn; the panes not shown are told.
redrawPage(s, page, main) ==
    CASE page \in {"M", "S"} -> makePixmap(s, main)
      [] page = "H" -> [drawPanes(s) EXCEPT !.refreshH = @ \cup (Panes \ {s.screen}) \X Kinds]
      [] OTHER -> s

MainArea(page) == IF page = "M" THEN Area("MAG") ELSE Area("SPEC")

AllReset(s) == [s EXCEPT !.reset = @ \cup {"MAG", "SPEC"}, !.resetAll = TRUE]

\* tFormDisp: the radio buttons original or transformed.
tFormDisp ==
    /\ g.page \in {"M", "S", "H"}
    /\ LET t == IF g.tf = "on" THEN "off" ELSE "on"
           s1 == AllReset(AgeFFT(Age([s0 EXCEPT !.tf = t], TwoPanes({"MAG", "SPEC"}))))
       IN  Do(redrawPage(s1, g.page, MainArea(g.page)))

\* fltrSelect: a filter is applied by an idle callback; Edit... switches the
\* transform off and draws Magnify's area, whatever page is up.
fltrSelect(edit) ==
    /\ g.page \in {"M", "S", "H"}
    /\ LET off == AgeFFT(Age([s0 EXCEPT !.tf = "off"], TwoPanes({"MAG", "SPEC"})))
       IN  IF edit
           THEN Do(IF g.tf = "off" THEN magPixmap(s0)
                   ELSE [magPixmap(off) EXCEPT !.lost = @ \cup {"edit"} \cup
                            IF g.old["MAG"] = magPixmap(off).old["MAG"] THEN {"same"} ELSE {}])
           ELSE Do([s0 EXCEPT !.tf = "on", !.filter = TRUE])

idleFilter == g.filter /\ DoThen([s0 EXCEPT !.filter = FALSE], "filter", <<>>)

\* applyFilter: the selected traces are filtered, if there are any.
applyFilter(s) ==
    IF s.tf = "on" /\ ~s.sel THEN makeMAGSelectionList(Transformed(s, "off"))
    ELSE redrawPage(makeMAGSelectionList(Transformed(s, s.tf)), s.page, MainArea(s.page))

\* pqlTFormSel: a transform, or back to the original; the area configured last
\* is drawn.
pqlTFormSel(t) ==
    /\ g.page \in {"M", "S", "H"}
    /\ LET s1 == makeMAGSelectionList([Transformed(s0, t) EXCEPT !.dirty = TRUE])
       IN  Do(redrawPage(s1, g.page, g.curScr))

-----------------------------------------------------------------------------

\* What the handler on top of the stack still has to do.
Rest(s, t) ==
    CASE t[1] = "area"   -> makePixmap(s, t[2])
      [] t[1] = "panes"  -> drawPanes(s)
      [] t[1] = "snap"   -> reMag([s EXCEPT !.user = t[2], !.vline = 0],
                                  IF s.screen = "MAIN" THEN "M" ELSE "H")
      [] t[1] = "split"  -> setPanes(s, t[2])
      [] t[1] = "filter" -> applyFilter(s)

Resume ==
    /\ tails # <<>> /\ ~g.crashed
    /\ g' = Rest(s0, tails[Len(tails)])
    /\ tails' = SubSeq(tails, 1, Len(tails) - 1)
    /\ UNCHANGED ops

Next ==
    \/ \E a \in Areas : pixmap_cfg(a)
    \/ \E p \in Pages : change_menu(p)
    \/ \E b \in BOOLEAN : selectT(b) \/ nextTrace(b) \/ selectTrace(b) \/ fltrSelect(b)
    \/ ReadDone
    \/ \E a \in Areas, w \in Windows :
          magBoundary(a, w) \/ xAxis(a, w) \/ xAxisShift(a, w) \/ magDrag(a, w) \/ scrollEvent(a, w)
    \/ \E a \in Areas : selectMag(a) \/ vLine(a) \/ dragRelease(a)
    \/ \E w \in Windows : snapMag(w)
    \/ displayType \/ timeAxis \/ reDraw \/ tFormDisp \/ idleFilter
    \/ \E c \in Combos : paneKind(c[1], c[2], c[3])
    \/ \E p \in Panes : newSplit(p)
    \/ \E t \in OnOff : pqlTFormSel(t)
    \/ \E k \in Kinds \cup {"range", "none"} : Continue(k)
    \/ Resume

Spec == Init /\ [][Next]_vars

-----------------------------------------------------------------------------
(* Properties.                                                             *)

Exempt == {"order", "take", "same", "shift", "edit", "cross", "range", "atEnd", "gain"}

Types == [
    page |-> Pages, screen |-> Screens, panes |-> Panes,
    lay |-> [SPLIT2 : [TOP : Kinds, MID : {"TRACE", "NONE"}, BOT : Kinds],
             SPLIT3 : [TOP : Kinds, MID : Kinds, BOT : Kinds]],
    busy |-> BOOLEAN, sel |-> BOOLEAN, tf |-> OnOff, view |-> [Kinds -> Views], old |-> [Kinds -> Slots],
    pix |-> [Screens -> Windows \cup {NoWin}], half |-> SUBSET Screens,
    user |-> Windows \cup {NoWin}, vline |-> 0..2, gr |-> SUBSET Screens, curScr |-> Areas,
    reset |-> SUBSET Kinds, refresh |-> SUBSET Kinds, resetAll |-> BOOLEAN,
    refreshH |-> SUBSET TwoPanes(Kinds), resetH |-> SUBSET Areas,
    dirty |-> BOOLEAN, selChanged |-> BOOLEAN,
    pm |-> [Slots -> Contents], fft |-> Contents, shown |-> [Areas -> Slots \cup {<<>>}],
    resize |-> SUBSET Areas, drag |-> BOOLEAN, filter |-> BOOLEAN, crashed |-> BOOLEAN,
    dead |-> SUBSET Areas, drawn |-> SUBSET Areas, lost |-> SUBSET Exempt, left |-> SUBSET Areas]

Fields == DOMAIN Types
Typed(s) == DOMAIN s = Fields /\ \A x \in Fields : s[x] \in Types[x]

Waiting == {"area"} \X {Area(k) : k \in Kinds} \cup {"panes", "filter"} \X {<<>>}
        \cup {"snap"} \X Windows \cup {"split"} \X Panes

\* Every variable has its type; the windows, pixmaps, spectra and panes in use
\* exist, and every flag is one of the kinds and panes it is looked up by.
TypeOK == Typed(g) /\ tails \in Seq(Waiting) /\ Len(tails) <= MaxNest /\ ops \in 0..MaxOps

\* What area a shows, and what it should show now.
Shown(a) == g.pm[g.shown[a]]
Expected(a) ==
    LET k == KindOf(g, a) IN
    CASE a = Area("TRACE") -> IF g.busy THEN "msg" ELSE "ok"
      [] k = "TRACE" /\ a # Area("TRACE") -> IF g.sel THEN "ok" ELSE "msg"
      [] OTHER -> IF Nothing(g) THEN "msg" ELSE CurWin(g)

\* The areas of kind k that the last handler drew.
FreshKind(k) ==
    \A a \in (g.drawn \ g.dead) \cap Visible(g) : KindOf(g, a) = k => Shown(a) = Expected(a)

\* An area that shows Magnify, the page or a pane, shows the window marked last,
\* of the traces now selected, in the transform and display type now set, when
\* a handler has drawn it: no cached pixmap outlives what it was drawn of.
\* Exempt (lost): a newSplit to three panes, whose combo boxes draw with the
\* new panes on the old current screen (gtk_events.c newSplit); a pane drawn from
\* a main page, by the window of that page, and a trace pane drawn after the
\* others, whose window they take over only later;
\* and Edit... when Magnify was last drawn without the transform, as its area
\* then sees no change and the panes keep the transformed traces.
MagFresh == g.lost \cap {"order", "take", "same"} = {} => FreshKind("MAG")

\* So do the areas that show spectra, which are computed once and plotted on
\* several areas.  Exempt besides: SHIFT on the x axis, which only asks for a new
\* plot; Edit..., which switches the transform off and tells no page; a range of
\* frequencies from the control panel, which does not reach the panes; and
\* screens with different windows, of which only one is computed.
SpecFresh == g.lost \cap {"order", "take", "shift", "edit", "cross", "range"} = {} => FreshKind("SPEC")

\* The trace page shows the message while traces are read and its labels as
\* selected; the trace pane shows the selected traces, if any.  Exempt: Next at
\* the end of the list, which deselects and does not draw, and a gain entered on
\* Magnify, which leaves the trace pane.
TraceFresh == g.lost \cap {"atEnd", "gain"} = {} => FreshKind("TRACE")

\* No other pane of its layout shows the same kind.
Alone(a) == \A b \in Areas \ {a} : b[1] = a[1] /\ a[1] # "MAIN" => KindOf(g, b) # KindOf(g, a)

\* An area on the page that is up shows a pixmap that has not been given back,
\* unless it is to be resized, the traces were plotted while another page was
\* up, or one pane alone was drawn when all were reset (left), or two panes show
\* the same kind, so that drawing one gives back the pixmap of the other.  An
\* expose copies from the pixmap the area keeps.
Alive == {a \in g.dead \cap Visible(g) : Alone(a)} \subseteq g.resize \cup g.left
=============================================================================
