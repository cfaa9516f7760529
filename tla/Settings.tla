------------------------------ MODULE Settings ------------------------------
(***************************************************************************)
(* The settings of the program: the structure settings, the copy           *)
(* ctrl_settings the control panel works on, the records of                *)
(* $HOME/.pql/defaults.db both are saved to, the user's sort criteria, and *)
(* the filters (filters.db, the array settings.general.filter.filts, the   *)
(* filter dialog and the combo boxes that choose a filter by its index).   *)
(* src/src/defaults.c, gtk_data.c, gtk_controls.c, sort_controls.c,        *)
(* gtk_filters.c, gtk_filters_cmn.c, src/utils/dbl.                        *)
(*                                                                         *)
(* The control panel is not modal; the filter dialogs are.  Saving writes  *)
(* one record after another, each with its own open and close of the file: *)
(* the program may stop, or another instance write, between two of them.   *)
(***************************************************************************)
EXTENDS Naturals, Sequences, FiniteSets, SequencesExt, Lists

CONSTANTS
    FilterNames,    \* names a user gives to filters: naturals, in order of strcmp
    Desc,           \* per sort type the criteria, the first one (Input Order) unique
    Tags,           \* pick tags a user enters, as sequences of words
    Uses            \* [ops, max]: operations explored together, and how many

ASSUME SettingsAssumption ==
    /\ FilterNames \subseteq 1..99
    /\ {"PQLSORT", "SEGYSORT"} = DOMAIN Desc
    /\ \A t \in DOMAIN Desc : Desc[t] \in Seq(STRING) /\ Desc[t] # <<>> /\ Distinct(Desc[t])
    /\ Len(Desc["PQLSORT"]) \leq Len(Desc["SEGYSORT"])
    /\ <<>> \in Tags /\ \A tag \in Tags : tag \in Seq(STRING)

Types == DOMAIN Desc

MaxCriteria == Len(Desc["SEGYSORT"])        \* MAXTTLSORTCRITERIA

Modes == {"TRACEMODE", "GATHERMODE"}
Scales == {0, 1}                            \* magnify.Wamp, WSCALETRC: tool bar only
Zooms  == {15, 20}                          \* magnify.zoomFactor
OldZoom == 40                               \* stored by an older version
Fields == {"DSPMD", "MW", "MZF", "MP0"}
Records == <<"DSPMD", "MW", "MZF", "MP0", "SRTSTR">>    \* in the order written
NoName == 0                                 \* the empty name
AGC == 100
Custom == 101
Edit   == 102
None   == [none |-> TRUE]

VARIABLES
    file,       \* defaults.db: record name -> text, or None before it is created
    fdb,        \* filters.db: the names stored
    p,          \* the program's memory
    saving,     \* <<record, text>> still to be written by make_defaults_file
    use, ops,   \* what is explored in this behaviour
    h           \* history: what was saved and what has been done

vars == <<file, fdb, p, saving, use, ops, h>>

-----------------------------------------------------------------------------
(* Filters.                                                                *)

Sorted(names) == StableSort(SetToSeq(names), [n \in names |-> n])

\* Sorted by name; AGC follows in gather mode, Custom... is the last.  The array
\* before is freed: gen counts allocations, and no filter stays selected.
readFilters(q) ==
    [q EXCEPT !.filts = Sorted(fdb')
                        \o (IF q.set.DSPMD = "GATHERMODE" THEN <<AGC>> ELSE <<>>) \o <<Custom>>,
              !.live = @ + 1, !.setGen = q.live + 1, !.tf = [idx |-> 0, on |-> FALSE]]

\* The rows of the dialog: all but Custom..., in gather mode all but two.
add_fltrs(q) ==
    LET end == Len(q.filts) - (IF q.set.DSPMD = "GATHERMODE" THEN 2 ELSE 1)
    IN  [q EXCEPT !.rows = SubSeq(q.filts, 1, end)]

\* MUTANT: the boxes are filled at the start only.
setFiltCbosOnce(q) == IF q.cbo = <<>> THEN [q EXCEPT !.cbo = q.filts \o <<Edit>>] ELSE q

setFiltCbos(q) == [q EXCEPT !.cbo = q.filts \o <<Edit>>]

-----------------------------------------------------------------------------
(* Sort criteria: lists of [num, dir] per type, shared by settings and     *)
(* ctrl_settings.                                                          *)

Unsorted == [t \in Types |-> <<>>]

\* sortStr: the types with criteria, and back; what is read is appended.
encrypt(user) == [t \in {u \in Types : user[u] # <<>>} |-> user[t]]
decrypt(user, str) == [t \in Types |-> IF t \in DOMAIN str THEN user[t] \o str[t] ELSE user[t]]

-----------------------------------------------------------------------------
(* The defaults file.                                                      *)

\* set_defaults; the pick tags are left as they are.
set_defaults(set) == [set EXCEPT !.DSPMD = "TRACEMODE", !.MW = 0, !.MZF = 15]

\* sscanf of a record: a tag is read up to a blank, and not at all when empty.
Stored(r) == file # None /\ file[r] # None

\* MUTANT: the range of the zoom factor is not checked.
ReadAny(f, cur) ==
    IF ~Stored(f) THEN cur
    ELSE IF f = "MP0" THEN (IF file[f].text = <<>> THEN cur ELSE <<Head(file[f].text)>>)
    ELSE file[f].text

Read(f, cur) ==
    IF ~Stored(f) THEN cur
    ELSE IF f = "MP0" THEN (IF file[f].text = <<>> THEN cur ELSE <<Head(file[f].text)>>)
    ELSE IF f = "MZF" /\ file[f].text > 30 THEN 15
    ELSE file[f].text

StoredSettings(set) == [f \in Fields |-> Read(f, set_defaults(set)[f])]
StoredSorts(user) == IF Stored("SRTSTR") THEN decrypt(user, file["SRTSTR"].text) ELSE user

\* read_defaults_file: the filters are read before the stored mode.
read_defaults_file(q) ==
    LET q1 == readFilters([q EXCEPT !.set = set_defaults(@)])
    IN  [q1 EXCEPT !.set = StoredSettings(q.set), !.user = StoredSorts(q.user), !.type = "PQLSORT"]

\* The records of make_defaults_file.
make_defaults_file(q) ==
    [i \in DOMAIN Records |->
        <<Records[i], [text |-> IF Records[i] = "SRTSTR" THEN encrypt(q.user) ELSE q.set[Records[i]]]>>]

Empty == [r \in {Records[i] : i \in DOMAIN Records} |-> None]

\* MUTANT: the file is truncated when it is opened to be created.
create_dbl_new == Empty

create_dbl == IF file = None THEN Empty ELSE file

-----------------------------------------------------------------------------
(* Start and stop.                                                         *)

Fresh ==
    [run |-> TRUE, set |-> [DSPMD |-> "TRACEMODE", MW |-> 0, MZF |-> 15, MP0 |-> <<>>],
     ctrl |-> None, panel |-> FALSE, edited |-> {}, moved |-> {},
     user |-> Unsorted, type |-> "PQLSORT", ctrlType |-> "PQLSORT", chosen |-> [t \in Types |-> {}], pop |-> <<>>, popType |-> "PQLSORT",
     filts |-> <<>>, live |-> 0, setGen |-> 0, ctrlGen |-> 0, rows |-> <<>>, cbo |-> <<>>,
     tf |-> [idx |-> 0, on |-> FALSE], idle |-> FALSE, fsel |-> 1, made |-> FALSE, agcTab |-> FALSE,
     dlg |-> "closed", sv |-> FALSE, new |-> TRUE, del |-> FALSE, fname |-> FALSE, name |-> NoName,
     chgd |-> FALSE, want |-> NoName, got |-> <<>>, picked |-> NoName, fresh |-> "no"]

Stopped == [run |-> FALSE]

Init ==
    /\ file \in {None, [Empty EXCEPT !["MZF"] = [text |-> OldZoom]]}
    /\ fdb \in {{}, FilterNames}
    /\ p = Stopped /\ saving = <<>> /\ use \in Uses /\ ops = 0
    /\ h = [saved |-> None, old |-> None, torn |-> FALSE, other |-> FALSE, did |-> {}]

\* An operation of the user; no longer the first state after a start or Restore.
Op(name) == name \in use.ops /\ ops < use.max /\ ops' = ops + 1 /\ UNCHANGED use
q0 == [p EXCEPT !.fresh = "no", !.got = <<>>]

Start ==
    /\ Op("start") /\ ~p.run
    /\ UNCHANGED <<file, fdb, saving, h>>
    /\ p' = [setFiltCbos(read_defaults_file(Fresh)) EXCEPT !.fresh = "start"]

\* The program ends, or is killed, also while it writes.
Stop ==
    /\ Op("stop") /\ p.run
    /\ p' = Stopped /\ saving' = <<>>
    /\ h' = [h EXCEPT !.torn = @ \/ saving # <<>>]
    /\ UNCHANGED <<file, fdb>>

\* Another instance saves a zoom factor, or saves or deletes a filter.
Other ==
    /\ Op("other") /\ p.run /\ UNCHANGED <<p, saving>>
    /\ \/ /\ file # None /\ file' = [file EXCEPT !["MZF"] = [text |-> 20]] /\ UNCHANGED fdb
          /\ h' = [h EXCEPT !.other = TRUE]
       \/ /\ UNCHANGED file /\ \E n \in FilterNames : fdb' \in {fdb \ {n}, fdb \cup {n}} \ {fdb}
          /\ h' = [h EXCEPT !.did = @ \cup {"other"}]

-----------------------------------------------------------------------------
(* The control panel.                                                      *)

Idle == p.run /\ saving = <<>> /\ p.dlg = "closed"
Panel(name) == Op(name) /\ Idle /\ p.panel
Keep == UNCHANGED <<file, fdb, saving, h>>

set_controls(q) ==
    [q EXCEPT !.ctrl = q.set, !.ctrlGen = q.setGen, !.ctrlType = q.type, !.edited = {}, !.moved = {}]

\* MUTANT: the panel keeps what it showed when it was last up.
raiseControlsKept ==
    /\ Op("panel") /\ Idle /\ Keep
    /\ p' = [(IF p.ctrl = None THEN set_controls(q0) ELSE q0) EXCEPT !.panel = TRUE, !.edited = {}, !.moved = {}]

raiseControls ==
    /\ Op("panel") /\ Idle /\ Keep
    /\ p' = [set_controls(q0) EXCEPT !.panel = TRUE]

FieldValues == [DSPMD |-> Modes, MW |-> Scales, MZF |-> Zooms, MP0 |-> Tags]

\* A widget of the panel.
enter(f, v) ==
    /\ Panel(f) /\ Keep /\ p.ctrl[f] # v
    /\ p' = [q0 EXCEPT !.ctrl[f] = v, !.edited = @ \cup {f}]

\* pqlComboSel: the tool bar writes settings.
pqlComboSel(v) ==
    /\ Op("bar") /\ Idle /\ Keep /\ p.set.MW # v
    /\ p' = [q0 EXCEPT !.set.MW = v, !.moved = IF p.panel THEN @ \cup {"MW"} ELSE @]

\* get_settings: settings become the panel's, the pointer to the filters too.
get_settings(q) ==
    [q EXCEPT !.set = q.ctrl, !.setGen = q.ctrlGen, !.type = q.ctrlType,
              !.agcTab = IF q.made THEN q.ctrl.DSPMD = "GATHERMODE" ELSE @]

\* Continue, or the window closed; and Cancel.
Continue == Panel("panel") /\ Keep /\ p' = [get_settings(q0) EXCEPT !.panel = FALSE]
Cancel == Panel("panel") /\ Keep /\ p' = [q0 EXCEPT !.panel = FALSE]

\* Set Defaults: the panel stays up.
save_defaults ==
    /\ Panel("save") /\ UNCHANGED fdb
    /\ LET q == set_controls(get_settings(q0)) IN
       /\ p' = q
       /\ saving' = make_defaults_file(q)
       /\ file' = create_dbl
       /\ h' = [h EXCEPT !.old = [set |-> StoredSettings(Fresh.set), user |-> StoredSorts(Unsorted)],
                         !.saved = [set |-> q.set, user |-> q.user], !.torn = FALSE, !.other = FALSE]

add_record ==
    /\ saving # <<>>
    /\ file' = [file EXCEPT ![saving[1][1]] = saving[1][2]]
    /\ saving' = Tail(saving)
    /\ UNCHANGED <<fdb, p, use, ops, h>>

\* Restore: the panel shows what was read.
restore_settings ==
    /\ Panel("restore") /\ UNCHANGED <<file, fdb, saving>>
    /\ p' = [set_controls(read_defaults_file(q0)) EXCEPT !.fresh = "restore"]
    /\ h' = [h EXCEPT !.did = @ \cup (IF Stored("SRTSTR") THEN {"doubled"} ELSE {})
                                \cup (IF AGC \in ToSet(p.filts) THEN {"agcLost"} ELSE {})]

-----------------------------------------------------------------------------
(* The popup of sort criteria: a sequence of combo boxes, each with the    *)
(* descriptions it offers and a direction.  TRUE is ascending.             *)

sortTypeSelect(t) ==
    /\ Panel("type") /\ Keep /\ p.ctrlType # t
    /\ p' = [q0 EXCEPT !.ctrlType = t]

\* The popup is used for another type than it was made for.
Mixing ==
    /\ UNCHANGED <<file, fdb, saving>>
    /\ h' = IF p.pop = <<>> \/ p.popType = p.ctrlType THEN h ELSE [h EXCEPT !.did = @ \cup {"mixed"}]

\* The popup is closed: the directions are read again, for the type selected now.
\* One without a radio button is whatever a destroyed widget says.
delSort(q) ==
    LET t == q.ctrlType
        gone == Len(q.pop)
    IN  {[q EXCEPT !.user[t] = [i \in DOMAIN @ |-> [@[i] EXCEPT !.dir = IF i \leq gone THEN q.pop[i].dir ELSE d]],
                   !.pop = <<>>] : d \in IF Len(q.user[t]) > gone THEN BOOLEAN ELSE {TRUE}}

\* A first box with every criterion, or a box for each criterion in use.
NewPopup(q) ==
    LET t == q.ctrlType IN
    IF q.user[t] = <<>>
    THEN [q EXCEPT !.popType = t, !.pop = <<[offer |-> ToSet(Desc[t]), dir |-> TRUE]>>, !.chosen[t] = {}]
    ELSE [q EXCEPT !.popType = t, !.pop = [i \in DOMAIN q.user[t] |-> [offer |-> {}, dir |-> q.user[t][i].dir]]]

makeSortPopup ==
    /\ Panel("sort") /\ Mixing
    /\ \E q \in IF p.pop = <<>> THEN {q0} ELSE delSort(q0) : p' = NewPopup(q)

newSort ==
    /\ Op("sort") /\ Idle /\ p.pop # <<>> /\ Keep
    /\ \E q \in delSort([q0 EXCEPT !.user[p.ctrlType] = <<>>]) : p' = NewPopup(q)

closePopup ==
    /\ Op("sort") /\ Idle /\ p.pop # <<>> /\ Mixing
    /\ p' \in delSort(q0)

radio(i) ==
    /\ Op("dir") /\ Idle /\ Keep
    /\ p' = [q0 EXCEPT !.pop[i].dir = ~@]

\* MUTANT: criteria in use are offered again.
offersAll(q, t) == {Desc[t][i] : i \in 2..Len(Desc[t])}

\* What the next box offers: what is neither chosen nor unique.
offers(q, t) == {Desc[t][i] : i \in (2..Len(Desc[t])) \ q.chosen[t]}

Take(q, t, num) ==
    LET last == Len(q.pop) IN
    [q EXCEPT !.chosen[t] = @ \cup {IF num > Len(Desc[t]) THEN Len(Desc[t]) ELSE num},
              !.user[t] = Append(@, [num |-> num, dir |-> q.pop[last].dir]),
              !.pop[last].offer = {}]

NextBox(q, t) == [q EXCEPT !.pop = Append(@, [offer |-> offers(q, t), dir |-> TRUE])]

\* The criterion is looked up among those of the type selected now; one that is
\* not there gets a number past the end.
sortCritCBack(d) ==
    LET t == p.ctrlType
        num == IF d \in ToSet(Desc[t]) THEN CHOOSE i \in DOMAIN Desc[t] : Desc[t][i] = d
                                       ELSE Len(Desc[t]) + 1
        q == Take(q0, t, num)
    IN  p' = IF num = 1 THEN q ELSE NextBox(q, t)

pickCriterion ==
    /\ Op("crit") /\ Idle /\ p.pop # <<>> /\ Mixing
    /\ \E d \in p.pop[Len(p.pop)].offer : sortCritCBack(d)

-----------------------------------------------------------------------------
(* The filters: a combo box on every page, the dialogs, an idle callback.  *)

\* The array settings points to is the one allocated last.
Live == p.setGen = p.live

\* displayFilter of the list: created and filled the first time only.
displayList(q) ==
    LET q1 == IF q.made THEN q
              ELSE [add_fltrs(q) EXCEPT !.made = TRUE, !.sv = FALSE, !.fname = FALSE, !.del = FALSE,
                                        !.agcTab = q.set.DSPMD # "TRACEMODE"]
    IN  [q1 EXCEPT !.dlg = "list", !.name = NoName]

\* fltrSelect: entry i of a combo box, by its index only.
fltrSelect(i) ==
    /\ Op("filter") /\ Idle /\ Live /\ Keep
    /\ LET q == [q0 EXCEPT !.tf.idx = i, !.want = p.cbo[i]]
       IN  p' = CASE i = Len(p.filts) + 1 -> displayList([q EXCEPT !.tf.on = FALSE, !.want = NoName])
                  [] i = Len(p.filts)     -> [q EXCEPT !.dlg = "custom", !.fsel = i]
                  [] OTHER                -> [q EXCEPT !.tf.on = TRUE, !.idle = TRUE]

\* applyFilter, once nothing else is to be served.
idleFilter ==
    /\ p.run /\ saving = <<>> /\ p.idle /\ Live /\ UNCHANGED <<file, fdb, saving, use, ops, h>>
    /\ p' = IF p.tf.idx = 0 THEN [q0 EXCEPT !.idle = FALSE, !.tf.on = FALSE]
            ELSE IF p.tf.on THEN [q0 EXCEPT !.idle = FALSE, !.got = <<p.want, p.tf.idx>>]
            ELSE [q0 EXCEPT !.idle = FALSE]

Dialog(name, which) == Op(name) /\ p.run /\ saving = <<>> /\ p.dlg = which

\* fltrInfo: a row, and fltrEdit: a row to be edited.  The rows are not filled
\* again by Restore; one past the array is read past its end, which ends here.
fltrInfo(r, edit) ==
    /\ Dialog("list", "list") /\ r \in DOMAIN p.filts /\ Keep
    /\ p' = [q0 EXCEPT !.fsel = r, !.name = p.filts[r], !.sv = edit, !.new = TRUE, !.del = TRUE,
                       !.fname = FALSE, !.picked = p.rows[r]]

\* fltrCBack, button by button.
FLTRNEW ==
    /\ Dialog("list", "list") /\ p.new /\ Keep
    /\ p' = [q0 EXCEPT !.fsel = 0, !.name = NoName, !.sv = TRUE, !.new = FALSE, !.del = FALSE,
                       !.fname = TRUE, !.picked = NoName]

Changed(q) == [add_fltrs(readFilters([q EXCEPT !.chgd = TRUE])) EXCEPT !.name = NoName]

FLTRSAVE(n) ==
    /\ Dialog("list", "list") /\ p.sv
    /\ n \in IF p.fname THEN FilterNames ELSE {p.name}
    /\ fdb' = fdb \cup {n}
    /\ p' = Changed([q0 EXCEPT !.sv = FALSE, !.new = TRUE, !.fname = FALSE])
    /\ h' = [h EXCEPT !.did = @ \cup (IF p.panel THEN {"panelOpen"} ELSE {})
                                \cup (IF n = NoName THEN {"blank"} ELSE {})]
    /\ UNCHANGED <<file, saving>>

\* MUTANT: rows are counted from one.
DeletedNext(q) == {q.filts[q.fsel + 1]}

Deleted(q) == {q.filts[q.fsel]}

FLTRDEL ==
    /\ Dialog("list", "list") /\ p.del /\ p.fsel \in DOMAIN p.filts
    /\ fdb' = fdb \ Deleted(p)
    /\ p' = [Changed(q0) EXCEPT !.picked = NoName]
    /\ h' = IF p.panel THEN [h EXCEPT !.did = @ \cup {"panelOpen"}] ELSE h
    /\ UNCHANGED <<file, saving>>

\* The combo boxes are set to -1, which fltrSelect takes for a filter: the
\* transform is on and the idle callback queued, with no filter selected.
ResetCombos(q) == [q EXCEPT !.tf = [idx |-> 0, on |-> TRUE], !.idle = TRUE, !.want = NoName]

FLTRLSTDONE ==
    /\ Dialog("list", "list") /\ Keep
    /\ LET q == IF p.chgd THEN setFiltCbos([q0 EXCEPT !.chgd = FALSE]) ELSE q0
       IN  p' = [ResetCombos(q) EXCEPT !.dlg = "closed", !.tf.on = FALSE]

FLTRCSTCONT ==
    /\ Dialog("filter", "custom") /\ Keep
    /\ p' = [q0 EXCEPT !.dlg = "closed", !.tf.on = TRUE, !.idle = TRUE]

FLTRCSTCX == Dialog("filter", "custom") /\ Keep /\ p' = [q0 EXCEPT !.dlg = "closed"]

\* The AGC tab has buttons of its own: the combo boxes are not rebuilt.
FLTRAGC ==
    /\ Dialog("list", "list") /\ p.agcTab /\ UNCHANGED <<file, fdb, saving>>
    /\ h' = IF p.chgd THEN [h EXCEPT !.did = @ \cup {"agcExit"}] ELSE h
    /\ \/ p' = [q0 EXCEPT !.dlg = "closed"]                \* FLTRAGCCX
       \/ p' = [ResetCombos(q0) EXCEPT !.dlg = "closed"]   \* FLTRAGCDONE

-----------------------------------------------------------------------------

Next ==
    \/ Start \/ Stop \/ Other
    \/ raiseControls \/ Continue \/ Cancel \/ save_defaults \/ add_record \/ restore_settings
    \/ \E f \in Fields \ {"MW"} : \E v \in FieldValues[f] : p.run /\ p.panel /\ enter(f, v)
    \/ \E v \in Scales : pqlComboSel(v)
    \/ \E t \in Types : sortTypeSelect(t)
    \/ makeSortPopup \/ newSort \/ closePopup \/ pickCriterion
    \/ p.run /\ \E i \in DOMAIN p.pop : radio(i)
    \/ p.run /\ \E i \in DOMAIN p.cbo : fltrSelect(i)
    \/ idleFilter
    \/ p.run /\ \E r \in DOMAIN p.rows, edit \in BOOLEAN : fltrInfo(r, edit)
    \/ \E n \in FilterNames \cup {NoName} : FLTRSAVE(n)
    \/ FLTRNEW \/ FLTRDEL \/ FLTRLSTDONE \/ FLTRCSTCONT \/ FLTRCSTCX \/ FLTRAGC

Spec == Init /\ [][Next]_vars

-----------------------------------------------------------------------------
(* Properties.                                                             *)

Entries == FilterNames \cup {NoName, AGC, Custom, Edit}

\* The settings, the filters and the boxes that offer them have their types; the
\* list of filters always ends with Custom....
TypeOK ==
    /\ fdb \subseteq FilterNames \cup {NoName}
    /\ p.run =>
        /\ \A f \in Fields \ {"MP0"} : p.set[f] \in FieldValues[f]
        /\ p.set.MP0 \in Tags \cup {<<w>> : w \in UNION {ToSet(x) : x \in Tags}}
        /\ ToSet(p.filts) \cup ToSet(p.cbo) \cup ToSet(p.rows) \subseteq Entries
        /\ p.filts[Len(p.filts)] = Custom /\ p.tf.idx \in 0..Len(p.cbo)

\* A value that sscanf reads back as it was printed.
Representable(set) == Len(set.MP0) \leq 1

\* What Set Defaults wrote is what the next start runs with, the sort criteria in
\* their order and with their directions too, and what Restore sets (whose empty
\* tag keeps the one in memory): defaults.c make_defaults_file against
\* read_defaults_file.  When the program was killed while it saved (torn), the next
\* start finds the first k records new and the others as they were before.
SavedIsRead ==
    p.run /\ h.saved # None /\ ~h.other /\ Representable(h.saved.set) =>
        /\ p.fresh = "start" =>
              \E k \in IF h.torn THEN 0..Len(Records) ELSE {Len(Records)} :
                  \A i \in DOMAIN Records :
                      LET from == IF i \leq k THEN h.saved ELSE h.old
                          r == Records[i]
                      IN  IF r = "SRTSTR" THEN p.user = from.user ELSE p.set[r] = from.set[r]
        /\ p.fresh = "restore" /\ ~h.torn => \A f \in Fields :
              p.set[f] = h.saved.set[f] \/ (f = "MP0" /\ h.saved.set[f] = <<>>)

\* Continue applies what was entered in the panel since it was raised, and
\* nothing else: a value entered and cancelled does not come back.  Exempt: what
\* the tool bar changed while the panel was up, which the panel overwrites.
PanelApplies ==
    [][p.run /\ p.panel /\ p'.run /\ ~p'.panel =>
          \A f \in Fields \ (p.edited \cup p.moved) : p'.set[f] = p.set[f]]_vars

\* The criteria of a sort type are criteria of that type, each once, and Input
\* Order only alone, through any use of the popup, saving and restarts: listSort
\* takes them by number.  So the popup never has more boxes than sortCriteria[]
\* and sortDirs[] have room for, although a box is made when no criterion is left
\* (sort_controls.c:76).  Exempt: the type changed while the popup was up (mixed),
\* and Restore, which appends what it reads (doubled).
CriteriaValid ==
    p.run /\ h.did \cap {"mixed", "doubled"} = {} =>
        /\ \A t \in Types :
            LET nums == [i \in DOMAIN p.user[t] |-> p.user[t][i].num] IN
            /\ ToSet(nums) \subseteq DOMAIN Desc[t]
            /\ IsInjective(nums)
            /\ 1 \in ToSet(nums) => Len(nums) = 1
        /\ Len(p.pop) \leq MaxCriteria

\* The filter that is applied is the one whose name was chosen in the combo box,
\* although it is passed on as an index, applied later, and the list may be
\* saved to, deleted from and re-read between; and the array it is taken from is
\* the one readFilters allocated last, though the panel copies the pointer and
\* copies it back.  Exempt: a filter saved or deleted while the panel is up, after
\* which Continue brings back the array freed (gtk_data.c:506); the dialog left
\* through the AGC tab, Restore in gather mode, another instance's changes re-read.
AppliedIsChosen ==
    p.run /\ "panelOpen" \notin h.did =>
        /\ p.setGen = p.live
        /\ p.got # <<>> /\ h.did \cap {"agcExit", "agcLost", "other"} = {} =>
              p.got[2] \in DOMAIN p.filts /\ p.filts[p.got[2]] = p.got[1]

\* DELETE removes the filter of the row that was clicked last, and no other,
\* also after the list was saved to and read again.  Exempt: a filter without a
\* name, which SAVE adds when the dialog is opened again while SAVE is sensitive.
DeletesPicked ==
    [][p.run /\ p'.run /\ p.dlg = "list" /\ p.picked # NoName /\ h'.did \cap {"blank", "other"} = {} =>
          fdb \ fdb' \subseteq {p.picked}]_vars
=============================================================================
