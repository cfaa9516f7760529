--------------------------- MODULE SettingsProofs ---------------------------
(***************************************************************************)
(* Proofs about the settings, the defaults file, the sort criteria and the *)
(* filters, for every set of filter names, criteria and tags, and for any  *)
(* number of operations in any order.                                      *)
(***************************************************************************)
EXTENDS Settings, ListProofs, FiniteSetTheorems, TLAPS

-----------------------------------------------------------------------------
(* The inductive invariants.                                               *)

Memory ==
    {"run", "set", "ctrl", "panel", "edited", "moved", "user", "type", "ctrlType", "chosen",
     "pop", "popType", "filts", "live", "setGen", "ctrlGen", "rows", "cbo", "tf", "idle", "fsel",
     "made", "agcTab", "dlg", "sv", "new", "del", "fname", "name", "chgd", "want", "got", "picked",
     "fresh"}

Words == UNION {ToSet(tag) : tag \in Tags}
ReadTags == Tags \cup {<<w>> : w \in Words}
Values(f) == IF f = "MP0" THEN ReadTags ELSE FieldValues[f]
IsSettings(set) == DOMAIN set = Fields /\ \A f \in Fields : set[f] \in Values(f)

Criterion == [num : Nat, dir : BOOLEAN]
IsUser(user) == user \in [Types -> Seq(Criterion)]
Box == [offer : SUBSET STRING, dir : BOOLEAN]
IsText(r, text) ==
    IF r = "SRTSTR" THEN DOMAIN text \subseteq Types /\ \A t \in DOMAIN text : text[t] \in Seq(Criterion)
    ELSE IF r = "MZF" THEN text \in Zooms \cup {OldZoom}
    ELSE text \in Values(r)
RecordNames == {"DSPMD", "MW", "MZF", "MP0", "SRTSTR"}

\* The memory of a program that runs: the settings, and those of the panel.
SetInv ==
    p.run => /\ DOMAIN p = Memory
             /\ IsSettings(p.set)
             /\ p.panel => IsSettings(p.ctrl)

\* The file, and what is still to be written of it.
FileInv ==
    /\ file # None => /\ DOMAIN file = RecordNames
                      /\ \A r \in RecordNames : file[r] # None =>
                            DOMAIN file[r] = {"text"} /\ IsText(r, file[r].text)
    /\ saving \in Seq(Elems(saving)) /\ Len(saving) \in 0 .. 5
    /\ \A j \in 1 .. Len(saving) :
          LET r == Records[5 - Len(saving) + j]
          IN  saving[j] = <<r, saving[j][2]>> /\ DOMAIN saving[j][2] = {"text"} /\ IsText(r, saving[j][2].text)
    /\ saving # <<>> => file # None /\ p.run

SortTypes ==
    p.run => /\ IsUser(p.user)
             /\ p.pop \in Seq(Box)
             /\ p.type \in Types /\ p.ctrlType \in Types /\ p.popType \in Types
             /\ DOMAIN p.chosen = Types

FilterTypes ==
    /\ fdb \subseteq FilterNames \cup {NoName}
    /\ p.run => /\ p.filts \in Seq(Entries) /\ p.filts # <<>> /\ p.filts[Len(p.filts)] = Custom
                /\ p.cbo \in Seq(Entries) /\ p.rows \in Seq(Entries)
                /\ DOMAIN p.tf = {"idx", "on"} /\ p.tf.idx \in 0 .. Len(p.cbo)
                /\ p.live \in Nat

TypesInv == SetInv /\ FileInv /\ SortTypes /\ FilterTypes
            /\ DOMAIN h = {"saved", "old", "torn", "other", "did"}

\* The panel shows the settings but for what was entered.
PanelInv == p.run /\ p.panel => \A f \in Fields \ (p.edited \cup p.moved) : p.ctrl[f] = p.set[f]

\* The record of Set Defaults, and a record that reads as it did before.
Text(r, from) == [text |-> IF r = "SRTSTR" THEN encrypt(from.user) ELSE from.set[r]]
ReadsAs(r, from) ==
    IF r = "SRTSTR" THEN StoredSorts(Unsorted) = from.user ELSE Read(r, Fresh.set[r]) = from.set[r]

\* The first k records are those saved, the others are as they were.
WrittenTo(k) ==
    \A i \in 1 .. 5 : IF i <= k THEN file[Records[i]] = Text(Records[i], h.saved)
                                ELSE ReadsAs(Records[i], h.old)

\* What the file holds of the record saved, and what is still to be written.
WrittenInv ==
    h.saved # None /\ ~h.other =>
        /\ file # None
        /\ ~h.torn => WrittenTo(5 - Len(saving))
        /\ h.torn => saving = <<>> /\ \E k \in 0 .. 5 : WrittenTo(k)
        /\ \A j \in 1 .. Len(saving) : saving[j][2] = Text(saving[j][1], h.saved)

SavedTypes == h.saved # None => IsSettings(h.saved.set) /\ IsUser(h.saved.user)

\* What a program just started, or restored, runs with is what the file says.
FreshInv ==
    p.run /\ ~h.other =>
        /\ p.fresh = "start" =>
              /\ saving = <<>> /\ p.user = StoredSorts(Unsorted)
              /\ \A f \in Fields : p.set[f] = Read(f, Fresh.set[f])
        /\ p.fresh = "restore" =>
              /\ saving = <<>>
              /\ \A f \in Fields : Stored(f) /\ ~(f = "MP0" /\ file[f].text = <<>>) =>
                    p.set[f] = Read(f, Fresh.set[f])

SaveInv == WrittenInv /\ SavedTypes /\ FreshInv

\* Criteria of the type, each once, the first one only alone.
Valid(t, list) ==
    /\ \A i \in DOMAIN list : list[i].num \in DOMAIN Desc[t]
    /\ \A i, j \in DOMAIN list : list[i].num = list[j].num => i = j
    /\ \A i \in DOMAIN list : list[i].num = 1 => Len(list) = 1

\* The last box of the popup, while it offers criteria, follows one box for each
\* criterion, and offers none of those.
GoodPopup(q) ==
    q.pop # <<>> =>
        LET t == q.popType
            n == Len(q.pop)
            user == q.user[t]
        IN  /\ n <= Len(Desc[t])
            /\ q.pop[n].offer # {} =>
                  /\ n = Len(user) + 1
                  /\ \A d \in q.pop[n].offer : \E i \in DOMAIN Desc[t] :
                        /\ Desc[t][i] = d
                        /\ user # <<>> => i # 1 /\ i \notin q.chosen[t]
                  /\ \A i \in DOMAIN user : user[i].num \in q.chosen[t] /\ user[i].num # 1

AllValid(user) == \A t \in Types : Valid(t, user[t])

SortInv ==
    h.did \cap {"mixed", "doubled"} = {} =>
        /\ p.run => GoodPopup(p) /\ AllValid(p.user)
        /\ Stored("SRTSTR") => \A t \in DOMAIN file["SRTSTR"].text : Valid(t, file["SRTSTR"].text[t])
        /\ \A j \in DOMAIN saving : saving[j][1] = "SRTSTR" =>
              \A t \in DOMAIN saving[j][2].text : Valid(t, saving[j][2].text[t])

\* The array readFilters makes of the names in filters.db.
IsArray(filts, names) == \E agc \in {<<>>, <<AGC>>} : filts = Sorted(names) \o agc \o <<Custom>>

\* The pointers to the array of filters.
ArrayInv ==
    p.run /\ "panelOpen" \notin h.did => p.setGen = p.live /\ (p.panel => p.ctrlGen = p.live)

\* The combo boxes offer the filters in their order, but while the dialog that
\* changes them is up; the index selected is that of the filter chosen.
BoxesInv == IsArray(p.filts, fdb) /\ (p.chgd => p.dlg = "list") /\ (~p.chgd => p.cbo = p.filts \o <<Edit>>)
PickedInv ==
    /\ (p.tf.on \/ p.dlg = "custom") /\ p.tf.idx # 0 =>
          p.tf.idx \in DOMAIN p.filts /\ p.filts[p.tf.idx] = p.want
    /\ p.got # <<>> => p.got[2] \in DOMAIN p.filts /\ p.filts[p.got[2]] = p.got[1]

ChosenInv == p.run /\ h.did \cap {"agcExit", "agcLost", "other"} = {} => BoxesInv /\ PickedInv

\* The rows of the dialog are filters in their order, the one selected last is
\* the one picked, and what may be saved under its name replaces it.
RowsInv ==
    p.run /\ h.did \cap {"blank", "other"} = {} =>
        /\ IsArray(p.filts, fdb)
        /\ AGC \in ToSet(p.filts) \/ p.dlg = "list" => p.made
        /\ Len(p.rows) <= Cardinality(fdb)
        /\ \A r \in DOMAIN p.rows : p.rows[r] = Sorted(fdb)[r]
        /\ p.picked # NoName =>
              /\ ~p.fname
              /\ p.fsel \in 1 .. Cardinality(fdb) => Sorted(fdb)[p.fsel] = p.picked
              /\ p.name \in fdb \cup {NoName, AGC, Custom}


-----------------------------------------------------------------------------
(* What the steps change.                                                  *)

SortFields == {"user", "ctrlType", "chosen", "pop", "popType", "fresh", "got"}
FilterFields == {"filts", "live", "setGen", "rows", "cbo", "tf", "idle", "fsel", "made", "agcTab",
                 "dlg", "sv", "new", "del", "fname", "name", "chgd", "want", "got", "picked", "fresh"}

\* A step of a program that runs, after which the fields of S are as before.
Same(S) == p.run /\ p'.run /\ DOMAIN p' = Memory /\ \A x \in S : p'[x] = p[x]

SortStep ==
    \/ \E t \in Types : sortTypeSelect(t)
    \/ makeSortPopup \/ newSort \/ closePopup \/ pickCriterion
    \/ p.run /\ \E i \in DOMAIN p.pop : radio(i)

FilterStep ==
    \/ p.run /\ \E i \in DOMAIN p.cbo : fltrSelect(i)
    \/ idleFilter
    \/ p.run /\ \E r \in DOMAIN p.rows, edit \in BOOLEAN : fltrInfo(r, edit)
    \/ \E n \in FilterNames \cup {NoName} : FLTRSAVE(n)
    \/ FLTRNEW \/ FLTRDEL \/ FLTRLSTDONE \/ FLTRCSTCONT \/ FLTRCSTCX \/ FLTRAGC

LEMMA FreshFields ==
    /\ DOMAIN Fresh = Memory /\ Fresh.run /\ DOMAIN Fresh.set = Fields
    /\ ~Stopped.run
  BY DEF Fresh, Memory, Fields, Stopped

LEMMA Q0Fields ==
    ASSUME DOMAIN p = Memory
    PROVE  /\ DOMAIN q0 = Memory /\ q0.fresh = "no" /\ q0.got = <<>>
           /\ \A x \in Memory \ {"fresh", "got"} : q0[x] = p[x]
  BY DEF q0, Memory

LEMMA SortFrame ==
    ASSUME SetInv, SortTypes, SortStep
    PROVE  /\ Same(Memory \ SortFields) /\ p'.fresh = "no" /\ p'.got = <<>>
           /\ UNCHANGED <<file, fdb, saving>>
           /\ h' = h \/ h' = [h EXCEPT !.did = @ \cup {"mixed"}]
<1> USE DEF Op, Idle, Panel, Keep, Same, Memory, SortFields
<1>0. p.run /\ DOMAIN p = Memory
  BY DEF SetInv, SortStep, sortTypeSelect, makeSortPopup, newSort, closePopup, pickCriterion
<1>1. ASSUME NEW t \in Types, sortTypeSelect(t) PROVE Same(Memory \ SortFields) /\ p'.fresh = "no" /\ p'.got = <<>>
  BY <1>0, <1>1 DEF sortTypeSelect, q0
<1>2. ASSUME NEW q, DOMAIN q = Memory, NEW q1 \in delSort(q)
      PROVE  DOMAIN q1 = Memory /\ \A x \in Memory \ {"user", "pop"} : q1[x] = q[x]
  BY <1>2 DEF delSort
<1>3. ASSUME NEW q, DOMAIN q = Memory
      PROVE  DOMAIN NewPopup(q) = Memory /\ \A x \in Memory \ {"popType", "pop", "chosen"} : NewPopup(q)[x] = q[x]
  BY <1>3 DEF NewPopup
<1>4. CASE makeSortPopup
  <2>1. PICK q \in (IF p.pop = <<>> THEN {q0} ELSE delSort(q0)) : p' = NewPopup(q)
    BY <1>4 DEF makeSortPopup
  <2>2. DOMAIN q = Memory /\ \A x \in Memory \ {"user", "pop"} : q[x] = q0[x]
    <3>1. CASE p.pop = <<>>
      BY <1>0, <2>1, <3>1, Q0Fields
    <3>2. CASE p.pop # <<>>
      BY <1>0, <1>2, <2>1, <3>2, Q0Fields
    <3> QED BY <3>1, <3>2
  <2> QED BY <1>0, <1>3, <1>4, <2>1, <2>2, Q0Fields DEF makeSortPopup, Mixing
<1>5. CASE newSort
  <2>1. PICK q \in delSort([q0 EXCEPT !.user[p.ctrlType] = <<>>]) : p' = NewPopup(q)
    BY <1>5 DEF newSort
  <2> DEFINE q1 == [q0 EXCEPT !.user[p.ctrlType] = <<>>]
  <2>2. DOMAIN q1 = Memory /\ \A x \in Memory \ {"user"} : q1[x] = q0[x]
    BY <1>0, Q0Fields
  <2>3. DOMAIN q = Memory /\ \A x \in Memory \ {"user", "pop"} : q[x] = q0[x]
    BY <1>2, <2>1, <2>2
  <2> QED BY <1>0, <1>3, <1>5, <2>1, <2>3, Q0Fields DEF newSort
<1>6. CASE closePopup
  BY <1>0, <1>2, <1>6, Q0Fields DEF closePopup, Mixing
<1>7. CASE pickCriterion
  <2>1. PICK d \in p.pop[Len(p.pop)].offer : sortCritCBack(d)
    BY <1>7 DEF pickCriterion
  <2>2. ASSUME NEW q, DOMAIN q = Memory, NEW t, NEW num
        PROVE  DOMAIN Take(q, t, num) = Memory /\ \A x \in Memory \ SortFields : Take(q, t, num)[x] = q[x]
               /\ Take(q, t, num).fresh = q.fresh /\ Take(q, t, num).got = q.got
    BY <2>2 DEF Take
  <2>3. ASSUME NEW q, DOMAIN q = Memory, NEW t
        PROVE  DOMAIN NextBox(q, t) = Memory /\ \A x \in Memory \ {"pop"} : NextBox(q, t)[x] = q[x]
    BY <2>3 DEF NextBox
  <2>4. PICK t, num : p' = Take(q0, t, num) \/ p' = NextBox(Take(q0, t, num), t)
    BY <2>1 DEF sortCritCBack
  <2>5. DOMAIN p' = Memory /\ (\A x \in Memory \ SortFields : p'[x] = q0[x])
        /\ p'.fresh = q0.fresh /\ p'.got = q0.got
    BY <1>0, <2>2, <2>3, <2>4, Q0Fields
  <2> QED BY <1>0, <1>7, <2>5, Q0Fields DEF pickCriterion, Mixing
<1>8. ASSUME NEW i, radio(i) PROVE Same(Memory \ SortFields) /\ p'.fresh = "no" /\ p'.got = <<>>
  BY <1>0, <1>8 DEF radio, q0
<1>9. UNCHANGED <<file, fdb, saving>> /\ (h' = h \/ h' = [h EXCEPT !.did = @ \cup {"mixed"}])
  BY DEF SortStep, sortTypeSelect, makeSortPopup, newSort, closePopup, pickCriterion, radio, Mixing
<1> QED BY <1>1, <1>4, <1>5, <1>6, <1>7, <1>8, <1>9 DEF SortStep

\* The array readFilters allocates in the mode set, and the rows add_fltrs makes of it.
FiltersOf(set) == Sorted(fdb') \o (IF set.DSPMD = "GATHERMODE" THEN <<AGC>> ELSE <<>>) \o <<Custom>>
RowsOf(filts, set) == SubSeq(filts, 1, Len(filts) - (IF set.DSPMD = "GATHERMODE" THEN 2 ELSE 1))

LEMMA ReadFiltersFields ==
    ASSUME NEW q, DOMAIN q = Memory
    PROVE  /\ DOMAIN readFilters(q) = Memory
           /\ \A x \in Memory \ {"filts", "live", "setGen", "tf"} : readFilters(q)[x] = q[x]
           /\ readFilters(q).filts = FiltersOf(q.set)
           /\ readFilters(q).live = q.live + 1 /\ readFilters(q).setGen = q.live + 1
           /\ readFilters(q).tf = [idx |-> 0, on |-> FALSE]
  BY DEF readFilters, FiltersOf, Memory

LEMMA ChangedFields ==
    ASSUME NEW q, DOMAIN q = Memory
    PROVE  /\ DOMAIN Changed(q) = Memory
           /\ \A x \in Memory \ {"filts", "live", "setGen", "tf", "rows", "chgd", "name"} : Changed(q)[x] = q[x]
           /\ Changed(q).filts = FiltersOf(q.set)
           /\ Changed(q).live = q.live + 1 /\ Changed(q).setGen = q.live + 1
           /\ Changed(q).tf = [idx |-> 0, on |-> FALSE]
           /\ Changed(q).chgd = TRUE /\ Changed(q).name = NoName
           /\ Changed(q).rows = RowsOf(Changed(q).filts, q.set)
<1> DEFINE q1 == [q EXCEPT !.chgd = TRUE]
           q2 == readFilters(q1)
           q3 == add_fltrs(q2)
<1>1. DOMAIN q1 = Memory /\ q1.chgd = TRUE /\ \A x \in Memory \ {"chgd"} : q1[x] = q[x]
  BY DEF Memory
<1> HIDE DEF q1
<1>2. /\ DOMAIN q2 = Memory
      /\ \A x \in Memory \ {"filts", "live", "setGen", "tf"} : q2[x] = q1[x]
      /\ q2.filts = FiltersOf(q1.set)
      /\ q2.live = q1.live + 1 /\ q2.setGen = q1.live + 1
      /\ q2.tf = [idx |-> 0, on |-> FALSE]
  BY <1>1, ReadFiltersFields
<1> HIDE DEF q2
<1>3. /\ DOMAIN q3 = Memory /\ \A x \in Memory \ {"rows"} : q3[x] = q2[x]
      /\ q3.rows = RowsOf(q2.filts, q2.set)
  BY <1>2 DEF add_fltrs, RowsOf, Memory
<1> HIDE DEF q3
<1>4. Changed(q) = [q3 EXCEPT !.name = NoName]
  BY DEF Changed, q1, q2, q3
<1>5. "set" \in Memory /\ "live" \in Memory /\ "filts" \in Memory
  BY DEF Memory
<1>6. q2.set = q.set /\ q1.set = q.set /\ q1.live = q.live
  BY <1>1, <1>2, <1>5
<1>7. /\ DOMAIN Changed(q) = Memory /\ Changed(q).name = NoName
      /\ \A x \in Memory \ {"name"} : Changed(q)[x] = q3[x]
  BY <1>3, <1>4 DEF Memory
<1>8. /\ Changed(q).filts = q2.filts /\ Changed(q).live = q2.live /\ Changed(q).setGen = q2.setGen
      /\ Changed(q).tf = q2.tf /\ Changed(q).chgd = q1.chgd /\ Changed(q).rows = q3.rows
  BY <1>2, <1>3, <1>7 DEF Memory
<1>9. \A x \in Memory \ {"filts", "live", "setGen", "tf", "rows", "chgd", "name"} : Changed(q)[x] = q[x]
  BY <1>1, <1>2, <1>3, <1>7 DEF Memory
<1> QED BY <1>1, <1>2, <1>3, <1>6, <1>7, <1>8, <1>9


\* A memory that differs from the program's in fields of the filters only.
Framed(q) == DOMAIN q = Memory /\ q.fresh = "no" /\ \A x \in Memory \ FilterFields : q[x] = p[x]

LEMMA FilterFrame ==
    ASSUME SetInv, DOMAIN h = {"saved", "old", "torn", "other", "did"}, FilterStep
    PROVE  /\ Same(Memory \ FilterFields) /\ p'.fresh = "no"
           /\ UNCHANGED <<file, saving>>
           /\ h.did \subseteq h'.did /\ DOMAIN h' = DOMAIN h
           /\ \A x \in {"saved", "old", "torn", "other"} : h'[x] = h[x]
<1> USE DEF Op, Idle, Dialog, Keep
<1>0. p.run /\ DOMAIN p = Memory
  BY DEF SetInv, FilterStep, fltrSelect, idleFilter, fltrInfo, FLTRSAVE, FLTRNEW, FLTRDEL,
         FLTRLSTDONE, FLTRCSTCONT, FLTRCSTCX, FLTRAGC
<1>1. Framed(q0)
  BY <1>0, Q0Fields DEF Framed, Memory, FilterFields
<1>2. ASSUME NEW i, fltrSelect(i) PROVE Framed(p')
  <2> DEFINE q == [q0 EXCEPT !.tf.idx = i, !.want = p.cbo[i]]
             qn == [q EXCEPT !.tf.on = FALSE, !.want = NoName]
  <2>1. Framed(q) /\ Framed(qn)
    BY <1>1 DEF Framed, Memory, FilterFields
  <2>2. ASSUME NEW r, Framed(r) PROVE Framed(displayList(r))
    BY <2>2 DEF displayList, add_fltrs, Framed, Memory, FilterFields
  <2>3. Framed([q EXCEPT !.dlg = "custom", !.fsel = i]) /\ Framed([q EXCEPT !.tf.on = TRUE, !.idle = TRUE])
    BY <2>1 DEF Framed, Memory, FilterFields
  <2>4. Framed(displayList(qn))
    BY <2>1, <2>2
  <2>5. \/ p' = displayList(qn) \/ p' = [q EXCEPT !.dlg = "custom", !.fsel = i]
        \/ p' = [q EXCEPT !.tf.on = TRUE, !.idle = TRUE]
    BY <1>2 DEF fltrSelect
  <2> QED BY <2>3, <2>4, <2>5
<1>3. ASSUME idleFilter PROVE Framed(p')
  BY <1>0, <1>3, <1>1 DEF idleFilter, Framed, Memory, FilterFields
<1>4. ASSUME NEW r, NEW edit, fltrInfo(r, edit) PROVE Framed(p')
  BY <1>1, <1>4 DEF fltrInfo, Framed, Memory, FilterFields
<1>5. ASSUME NEW q, Framed(q) PROVE Framed(Changed(q))
  <2>1. /\ DOMAIN q = Memory /\ DOMAIN Changed(q) = Memory
        /\ \A x \in Memory \ {"filts", "live", "setGen", "tf", "rows", "chgd", "name"} : Changed(q)[x] = q[x]
    BY <1>5, ChangedFields DEF Framed
  <2> QED BY <1>5, <2>1 DEF Framed, Memory, FilterFields
<1>6. ASSUME NEW n, FLTRSAVE(n) PROVE Framed(p')
  <2>1. Framed([q0 EXCEPT !.sv = FALSE, !.new = TRUE, !.fname = FALSE])
    BY <1>1 DEF Framed, Memory, FilterFields
  <2> QED BY <1>5, <1>6, <2>1 DEF FLTRSAVE
<1>7. ASSUME FLTRNEW PROVE Framed(p')
  BY <1>1, <1>7 DEF FLTRNEW, Framed, Memory, FilterFields
<1>8. ASSUME FLTRDEL PROVE Framed(p')
  <2>1. Framed(Changed(q0)) /\ p' = [Changed(q0) EXCEPT !.picked = NoName]
    BY <1>1, <1>5, <1>8 DEF FLTRDEL
  <2> QED BY <2>1 DEF Framed, Memory, FilterFields
<1>9. ASSUME FLTRLSTDONE PROVE Framed(p')
  <2>1. Framed(IF p.chgd THEN setFiltCbos([q0 EXCEPT !.chgd = FALSE]) ELSE q0)
    BY <1>1 DEF setFiltCbos, Framed, Memory, FilterFields
  <2>2. ASSUME NEW q, Framed(q) PROVE Framed([ResetCombos(q) EXCEPT !.dlg = "closed", !.tf.on = FALSE])
    BY <2>2 DEF ResetCombos, Framed, Memory, FilterFields
  <2> QED BY <1>9, <2>1, <2>2 DEF FLTRLSTDONE
<1>10. ASSUME FLTRCSTCONT \/ FLTRCSTCX PROVE Framed(p')
  <2>1. p' = [q0 EXCEPT !.dlg = "closed", !.tf.on = TRUE, !.idle = TRUE] \/ p' = [q0 EXCEPT !.dlg = "closed"]
    BY <1>10 DEF FLTRCSTCONT, FLTRCSTCX
  <2> QED BY ZenonT(40), <1>1, <2>1 DEF Framed, Memory, FilterFields
<1>11. ASSUME FLTRAGC PROVE Framed(p')
  <2>1. p' = [q0 EXCEPT !.dlg = "closed"] \/ p' = [ResetCombos(q0) EXCEPT !.dlg = "closed"]
    BY <1>11 DEF FLTRAGC
  <2>2. Framed(ResetCombos(q0))
    BY <1>1 DEF ResetCombos, Framed, Memory, FilterFields
  <2> QED BY <1>1, <2>1, <2>2 DEF Framed, Memory, FilterFields
<1>12. Framed(p')
  BY <1>2, <1>3, <1>4, <1>6, <1>7, <1>8, <1>9, <1>10, <1>11 DEF FilterStep
<1>13. UNCHANGED <<file, saving>>
  BY DEF FilterStep, fltrSelect, idleFilter, fltrInfo, FLTRSAVE, FLTRNEW, FLTRDEL,
         FLTRLSTDONE, FLTRCSTCONT, FLTRCSTCX, FLTRAGC
<1>14. /\ h.did \subseteq h'.did /\ DOMAIN h' = DOMAIN h
       /\ \A x \in {"saved", "old", "torn", "other"} : h'[x] = h[x]
  <2>1. ASSUME NEW S, h' = [h EXCEPT !.did = @ \cup S] 
        PROVE  /\ h.did \subseteq h'.did /\ DOMAIN h' = DOMAIN h
               /\ \A x \in {"saved", "old", "torn", "other"} : h'[x] = h[x]
    BY <2>1
  <2>2. CASE \E n \in FilterNames \cup {NoName} : FLTRSAVE(n)
    BY <2>1, <2>2 DEF FLTRSAVE
  <2>3. CASE FLTRDEL \/ FLTRAGC
    BY <2>3 DEF FLTRDEL, FLTRAGC
  <2>4. CASE h' = h
    BY <2>4
  <2> QED BY <2>2, <2>3, <2>4 DEF FilterStep, fltrSelect, idleFilter, fltrInfo, FLTRNEW,
                                  FLTRLSTDONE, FLTRCSTCONT, FLTRCSTCX
<1>15. p'.run
  BY <1>0, <1>12 DEF Framed, Memory, FilterFields
<1> QED BY <1>0, <1>12, <1>13, <1>14, <1>15 DEF Same, Framed


\* The panel raised, closed, cancelled, used; the tool bar.
PanelStep ==
    \/ raiseControls \/ Continue \/ Cancel
    \/ \E f \in Fields \ {"MW"} : \E v \in FieldValues[f] : p.run /\ p.panel /\ enter(f, v)
    \/ \E v \in Scales : pqlComboSel(v)

SetFields == {"set", "ctrl", "panel", "edited", "moved", "setGen", "ctrlGen", "type", "ctrlType",
              "agcTab", "fresh", "got"}

LEMMA PanelFrame ==
    ASSUME SetInv, PanelStep
    PROVE  /\ Same(Memory \ SetFields) /\ p'.fresh = "no" /\ p'.got = <<>>
           /\ p.dlg = "closed" /\ UNCHANGED <<file, fdb, saving, h>>
           /\ \/ /\ p'.panel /\ p'.ctrl = p.set /\ p'.set = p.set /\ p'.edited = {} /\ p'.moved = {}
                 /\ p'.ctrlGen = p.setGen /\ p'.setGen = p.setGen /\ p'.ctrlType = p.type /\ p'.type = p.type
              \/ /\ p.panel /\ ~p'.panel /\ p'.set = p.ctrl /\ p'.setGen = p.ctrlGen /\ p'.type = p.ctrlType
                 /\ p'.ctrlType = p.ctrlType
              \/ /\ p.panel /\ ~p'.panel /\ p'.set = p.set /\ p'.setGen = p.setGen /\ p'.type = p.type
                 /\ p'.ctrlType = p.ctrlType
              \/ /\ p.panel /\ p'.panel /\ p'.set = p.set /\ p'.setGen = p.setGen /\ p'.ctrlGen = p.ctrlGen
                 /\ p'.type = p.type /\ p'.ctrlType = p.ctrlType /\ p'.moved = p.moved
                 /\ \E f \in Fields : \E v \in FieldValues[f] :
                       p'.ctrl = [p.ctrl EXCEPT ![f] = v] /\ p'.edited = p.edited \cup {f}
              \/ /\ p'.panel = p.panel /\ p'.ctrl = p.ctrl /\ p'.edited = p.edited
                 /\ p'.setGen = p.setGen /\ p'.ctrlGen = p.ctrlGen
                 /\ p'.type = p.type /\ p'.ctrlType = p.ctrlType
                 /\ \E v \in Scales : p'.set = [p.set EXCEPT !["MW"] = v]
                 /\ p.panel => p'.moved = p.moved \cup {"MW"}
<1> USE DEF Op, Idle, Panel, Keep
<1>0. p.run /\ DOMAIN p = Memory /\ p.dlg = "closed" /\ UNCHANGED <<file, fdb, saving, h>>
  BY DEF SetInv, PanelStep, raiseControls, Continue, Cancel, enter, pqlComboSel
<1>1. DOMAIN q0 = Memory /\ q0.fresh = "no" /\ q0.got = <<>> /\ \A x \in Memory \ {"fresh", "got"} : q0[x] = p[x]
  BY <1>0, Q0Fields
<1> HIDE DEF q0
<1> DEFINE Raised == /\ p'.panel /\ p'.ctrl = p.set /\ p'.set = p.set /\ p'.edited = {} /\ p'.moved = {}
                     /\ p'.ctrlGen = p.setGen /\ p'.setGen = p.setGen /\ p'.ctrlType = p.type /\ p'.type = p.type
           Framed2 == /\ DOMAIN p' = Memory /\ p'.run /\ p'.fresh = "no" /\ p'.got = <<>>
                      /\ \A x \in Memory \ SetFields : p'[x] = p[x]
<1>2. ASSUME raiseControls PROVE Framed2 /\ Raised
  <2>1. p' = [set_controls(q0) EXCEPT !.panel = TRUE]
    BY <1>2 DEF raiseControls
  <2> QED BY ZenonT(40), <1>0, <1>1, <2>1 DEF set_controls, Memory, SetFields
<1>3. ASSUME Continue
      PROVE  /\ Framed2 /\ p.panel /\ ~p'.panel /\ p'.set = p.ctrl /\ p'.setGen = p.ctrlGen
             /\ p'.type = p.ctrlType /\ p'.ctrlType = p.ctrlType
  <2>1. p' = [get_settings(q0) EXCEPT !.panel = FALSE] /\ p.panel
    BY <1>3 DEF Continue
  <2> QED BY ZenonT(40), <1>0, <1>1, <2>1 DEF get_settings, Memory, SetFields
<1>4. ASSUME Cancel
      PROVE  /\ Framed2 /\ p.panel /\ ~p'.panel /\ p'.set = p.set /\ p'.setGen = p.setGen
             /\ p'.type = p.type /\ p'.ctrlType = p.ctrlType
  <2>1. p' = [q0 EXCEPT !.panel = FALSE] /\ p.panel
    BY <1>4 DEF Cancel
  <2> QED BY <1>0, <1>1, <2>1 DEF Memory, SetFields
<1>5. ASSUME NEW f \in Fields, NEW v \in FieldValues[f], p.panel, enter(f, v)
      PROVE  /\ Framed2 /\ p'.panel = p.panel /\ p'.set = p.set /\ p'.setGen = p.setGen
             /\ p'.ctrlGen = p.ctrlGen /\ p'.type = p.type /\ p'.ctrlType = p.ctrlType /\ p'.moved = p.moved
             /\ p'.ctrl = [p.ctrl EXCEPT ![f] = v] /\ p'.edited = p.edited \cup {f}
  <2>1. p' = [q0 EXCEPT !.ctrl[f] = v, !.edited = @ \cup {f}]
    BY <1>5 DEF enter
  <2> QED BY ZenonT(40), <1>0, <1>1, <2>1 DEF Memory, SetFields
<1>6. ASSUME NEW v \in Scales, pqlComboSel(v)
      PROVE  /\ Framed2 /\ p'.panel = p.panel /\ p'.ctrl = p.ctrl /\ p'.edited = p.edited
             /\ p'.setGen = p.setGen /\ p'.ctrlGen = p.ctrlGen
             /\ p'.type = p.type /\ p'.ctrlType = p.ctrlType
             /\ p'.set = [p.set EXCEPT !["MW"] = v]
             /\ p.panel => p'.moved = p.moved \cup {"MW"}
  <2>1. p' = [q0 EXCEPT !.set.MW = v, !.moved = IF p.panel THEN @ \cup {"MW"} ELSE @]
    BY <1>6 DEF pqlComboSel
  <2> QED BY ZenonT(40), <1>0, <1>1, <2>1 DEF Memory, SetFields
<1>7. CASE raiseControls
  BY <1>0, <1>2, <1>7 DEF Same
<1>8. CASE Continue
  BY <1>0, <1>3, <1>8 DEF Same
<1>9. CASE Cancel
  BY <1>0, <1>4, <1>9 DEF Same
<1>10. CASE \E f \in Fields \ {"MW"} : \E v \in FieldValues[f] : p.run /\ p.panel /\ enter(f, v)
  BY <1>0, <1>5, <1>10 DEF Same
<1>11. CASE \E v \in Scales : pqlComboSel(v)
  BY <1>0, <1>6, <1>11 DEF Same
<1> QED BY <1>7, <1>8, <1>9, <1>10, <1>11 DEF PanelStep


LEMMA SaveFrame ==
    ASSUME SetInv, save_defaults
    PROVE  /\ Same(Memory \ SetFields) /\ p'.fresh = "no" /\ p'.got = <<>> /\ fdb' = fdb
           /\ p.dlg = "closed" /\ saving = <<>> /\ p.panel /\ p'.panel /\ p'.edited = {} /\ p'.moved = {}
           /\ p'.set = p.ctrl /\ p'.ctrl = p.ctrl /\ p'.setGen = p.ctrlGen /\ p'.ctrlGen = p.ctrlGen
           /\ p'.type = p.ctrlType /\ p'.ctrlType = p.ctrlType
           /\ saving' = make_defaults_file(p') /\ file' = create_dbl
           /\ h' = [h EXCEPT !.old = [set |-> StoredSettings(Fresh.set), user |-> StoredSorts(Unsorted)],
                             !.saved = [set |-> p'.set, user |-> p'.user], !.torn = FALSE, !.other = FALSE]
<1> USE DEF Op, Idle, Panel
<1>1. p.run /\ DOMAIN p = Memory /\ p.dlg = "closed" /\ saving = <<>> /\ p.panel /\ fdb' = fdb
  BY DEF SetInv, save_defaults
<1>2. DOMAIN q0 = Memory /\ q0.fresh = "no" /\ q0.got = <<>> /\ \A x \in Memory \ {"fresh", "got"} : q0[x] = p[x]
  BY <1>1, Q0Fields
<1>3. /\ p' = set_controls(get_settings(q0)) /\ saving' = make_defaults_file(p') /\ file' = create_dbl
      /\ h' = [h EXCEPT !.old = [set |-> StoredSettings(Fresh.set), user |-> StoredSorts(Unsorted)],
                        !.saved = [set |-> p'.set, user |-> p'.user], !.torn = FALSE, !.other = FALSE]
  BY DEF save_defaults
<1> HIDE DEF q0
<1> DEFINE q == get_settings(q0)
<1>4. /\ DOMAIN q = Memory /\ \A x \in Memory \ SetFields : q[x] = q0[x]
      /\ q.set = p.ctrl /\ q.setGen = p.ctrlGen /\ q.type = p.ctrlType
      /\ q.panel = p.panel /\ q.fresh = "no" /\ q.got = <<>>
  BY <1>2 DEF get_settings, Memory, SetFields
<1> HIDE DEF q
<1>5. p' = set_controls(q)
  BY <1>3 DEF q
<1>6. /\ DOMAIN p' = Memory /\ \A x \in Memory \ SetFields : p'[x] = q[x]
      /\ p'.panel = p.panel /\ p'.edited = {} /\ p'.moved = {} /\ p'.fresh = "no" /\ p'.got = <<>>
      /\ p'.set = p.ctrl /\ p'.ctrl = p.ctrl /\ p'.setGen = p.ctrlGen /\ p'.ctrlGen = p.ctrlGen
      /\ p'.type = p.ctrlType /\ p'.ctrlType = p.ctrlType
  BY <1>4, <1>5 DEF set_controls, Memory, SetFields
<1>7. \A x \in Memory \ SetFields : p'[x] = p[x]
  BY <1>2, <1>4, <1>6 DEF SetFields
<1>8. p'.run
  BY <1>1, <1>7 DEF Memory, SetFields
<1> QED BY <1>1, <1>3, <1>6, <1>7, <1>8 DEF Same

ReadFields == {"set", "filts", "live", "setGen", "tf", "user", "type"}

LEMMA ReadDefaultsFields ==
    ASSUME NEW q, DOMAIN q = Memory, DOMAIN q.set = Fields
    PROVE  LET r == read_defaults_file(q) IN
           /\ DOMAIN r = Memory /\ \A x \in Memory \ ReadFields : r[x] = q[x]
           /\ r.set = StoredSettings(q.set) /\ r.user = StoredSorts(q.user) /\ r.type = "PQLSORT"
           /\ r.filts = Sorted(fdb') \o <<>> \o <<Custom>>
           /\ r.live = q.live + 1 /\ r.setGen = q.live + 1 /\ r.tf = [idx |-> 0, on |-> FALSE]
<1> DEFINE qs == [q EXCEPT !.set = set_defaults(@)]
           q1 == readFilters(qs)
           r == read_defaults_file(q)
<1>1. DOMAIN qs = Memory /\ qs.set.DSPMD # "GATHERMODE" /\ \A x \in Memory \ {"set"} : qs[x] = q[x]
  BY DEF set_defaults, Memory, Fields
<1> HIDE DEF qs
<1>2. /\ DOMAIN q1 = Memory /\ \A x \in Memory \ {"filts", "live", "setGen", "tf"} : q1[x] = qs[x]
      /\ q1.filts = FiltersOf(qs.set)
      /\ q1.live = qs.live + 1 /\ q1.setGen = qs.live + 1 /\ q1.tf = [idx |-> 0, on |-> FALSE]
  BY <1>1, ReadFiltersFields
<1>3. q1.filts = Sorted(fdb') \o <<>> \o <<Custom>>
  BY <1>1, <1>2 DEF FiltersOf
<1>4. q1.live = q.live + 1 /\ q1.setGen = q.live + 1
  BY <1>1, <1>2 DEF Memory
<1>5. \A x \in Memory \ ReadFields : q1[x] = q[x]
  BY <1>1, <1>2 DEF ReadFields
<1> HIDE DEF q1
<1>6. r = [q1 EXCEPT !.set = StoredSettings(q.set), !.user = StoredSorts(q.user), !.type = "PQLSORT"]
  BY DEF read_defaults_file, q1, qs
<1> HIDE DEF r
<1>7. DOMAIN r = Memory /\ r.set = StoredSettings(q.set) /\ r.user = StoredSorts(q.user) /\ r.type = "PQLSORT"
      /\ \A x \in Memory \ {"set", "user", "type"} : r[x] = q1[x]
  BY <1>2, <1>6 DEF Memory
<1>8. r.filts = q1.filts /\ r.live = q1.live /\ r.setGen = q1.setGen /\ r.tf = q1.tf
  BY <1>7 DEF Memory
<1>9. \A x \in Memory \ ReadFields : r[x] = q[x]
  BY <1>5, <1>7 DEF ReadFields
<1> QED BY <1>2, <1>3, <1>4, <1>7, <1>8, <1>9 DEF r

LEMMA RestoreFrame ==
    ASSUME SetInv, restore_settings
    PROVE  /\ Same(Memory \ (SetFields \cup ReadFields)) /\ p'.fresh = "restore" /\ p'.got = <<>>
           /\ UNCHANGED <<file, fdb, saving>> /\ p.dlg = "closed" /\ saving = <<>>
           /\ p.panel /\ p'.panel /\ p'.edited = {} /\ p'.moved = {}
           /\ p'.set = StoredSettings(p.set) /\ p'.ctrl = p'.set
           /\ p'.user = StoredSorts(p.user) /\ p'.type = "PQLSORT" /\ p'.ctrlType = "PQLSORT"
           /\ p'.filts = Sorted(fdb') \o <<>> \o <<Custom>> /\ p'.tf = [idx |-> 0, on |-> FALSE]
           /\ p'.live = p.live + 1 /\ p'.setGen = p.live + 1 /\ p'.ctrlGen = p.live + 1
           /\ h' = [h EXCEPT !.did = @ \cup (IF Stored("SRTSTR") THEN {"doubled"} ELSE {})
                                       \cup (IF AGC \in ToSet(p.filts) THEN {"agcLost"} ELSE {})]
<1> USE DEF Op, Idle, Panel
<1>1. /\ p.run /\ DOMAIN p = Memory /\ p.dlg = "closed" /\ saving = <<>> /\ p.panel
      /\ UNCHANGED <<file, fdb, saving>> /\ DOMAIN p.set = Fields
      /\ h' = [h EXCEPT !.did = @ \cup (IF Stored("SRTSTR") THEN {"doubled"} ELSE {})
                                  \cup (IF AGC \in ToSet(p.filts) THEN {"agcLost"} ELSE {})]
      /\ p' = [set_controls(read_defaults_file(q0)) EXCEPT !.fresh = "restore"]
  BY DEF SetInv, restore_settings, IsSettings
<1>2. DOMAIN q0 = Memory /\ q0.fresh = "no" /\ q0.got = <<>> /\ \A x \in Memory \ {"fresh", "got"} : q0[x] = p[x]
  BY <1>1, Q0Fields
<1>3. q0.set = p.set /\ q0.user = p.user /\ q0.live = p.live /\ q0.panel = p.panel /\ q0.run = p.run
  BY <1>2 DEF Memory
<1> HIDE DEF q0
<1> DEFINE r == read_defaults_file(q0)
<1>4. /\ DOMAIN r = Memory /\ \A x \in Memory \ ReadFields : r[x] = q0[x]
      /\ r.set = StoredSettings(p.set) /\ r.user = StoredSorts(p.user) /\ r.type = "PQLSORT"
      /\ r.filts = Sorted(fdb') \o <<>> \o <<Custom>>
      /\ r.live = p.live + 1 /\ r.setGen = p.live + 1 /\ r.tf = [idx |-> 0, on |-> FALSE]
  BY <1>1, <1>2, <1>3, ReadDefaultsFields
<1>5. p' = [set_controls(r) EXCEPT !.fresh = "restore"]
  BY <1>1
<1> HIDE DEF r
<1>6. /\ DOMAIN p' = Memory /\ p'.fresh = "restore" /\ p'.edited = {} /\ p'.moved = {}
      /\ p'.ctrl = r.set /\ p'.ctrlGen = r.setGen /\ p'.ctrlType = r.type
      /\ \A x \in Memory \ {"ctrl", "ctrlGen", "ctrlType", "edited", "moved", "fresh"} : p'[x] = r[x]
  BY <1>4, <1>5 DEF set_controls, Memory
<1>7. /\ p'.set = r.set /\ p'.user = r.user /\ p'.type = r.type /\ p'.filts = r.filts /\ p'.live = r.live
      /\ p'.setGen = r.setGen /\ p'.tf = r.tf /\ p'.panel = r.panel /\ p'.run = r.run /\ p'.got = r.got
  BY <1>6 DEF Memory
<1>8. r.panel = p.panel /\ r.run = p.run /\ r.got = <<>>
  BY ZenonT(40), <1>2, <1>3, <1>4 DEF Memory, ReadFields
<1>9. \A x \in Memory \ (SetFields \cup ReadFields) : p'[x] = p[x]
  BY <1>2, <1>4, <1>6 DEF SetFields
<1> QED BY <1>1, <1>4, <1>6, <1>7, <1>8, <1>9 DEF Same

LEMMA StartFrame ==
    ASSUME Start
    PROVE  /\ ~p.run /\ p'.run /\ DOMAIN p' = Memory /\ p'.fresh = "start"
           /\ UNCHANGED <<file, fdb, saving, h>>
           /\ p'.set = StoredSettings(Fresh.set) /\ p'.user = StoredSorts(Unsorted) /\ p'.type = "PQLSORT"
           /\ p'.filts = Sorted(fdb') \o <<>> \o <<Custom>> /\ p'.tf = [idx |-> 0, on |-> FALSE]
           /\ p'.cbo = p'.filts \o <<Edit>> /\ p'.live = 1 /\ p'.setGen = 1
           /\ \A x \in Memory \ (ReadFields \cup {"cbo", "fresh"}) : p'[x] = Fresh[x]
<1>1. /\ ~p.run /\ UNCHANGED <<file, fdb, saving, h>>
      /\ p' = [setFiltCbos(read_defaults_file(Fresh)) EXCEPT !.fresh = "start"]
  BY DEF Start
<1>2. DOMAIN Fresh = Memory /\ DOMAIN Fresh.set = Fields
  BY FreshFields
<1>3. Fresh.user = Unsorted /\ Fresh.live = 0 /\ Fresh.run = TRUE
  BY DEF Fresh
<1> DEFINE r == read_defaults_file(Fresh)
<1>4. /\ DOMAIN r = Memory /\ \A x \in Memory \ ReadFields : r[x] = Fresh[x]
      /\ r.set = StoredSettings(Fresh.set) /\ r.user = StoredSorts(Fresh.user) /\ r.type = "PQLSORT"
      /\ r.filts = Sorted(fdb') \o <<>> \o <<Custom>>
      /\ r.live = Fresh.live + 1 /\ r.setGen = Fresh.live + 1 /\ r.tf = [idx |-> 0, on |-> FALSE]
  BY <1>2, ReadDefaultsFields
<1>5. p' = [setFiltCbos(r) EXCEPT !.fresh = "start"]
  BY <1>1
<1> HIDE DEF r
<1>6. /\ DOMAIN p' = Memory /\ p'.fresh = "start" /\ p'.cbo = r.filts \o <<Edit>>
      /\ \A x \in Memory \ {"cbo", "fresh"} : p'[x] = r[x]
  BY <1>4, <1>5 DEF setFiltCbos, Memory
<1>7. /\ p'.set = r.set /\ p'.user = r.user /\ p'.type = r.type /\ p'.filts = r.filts /\ p'.live = r.live
      /\ p'.setGen = r.setGen /\ p'.tf = r.tf /\ p'.run = r.run
  BY <1>6 DEF Memory
<1>8. r.run /\ r.live = 1 /\ r.setGen = 1
  BY <1>3, <1>4 DEF Memory, ReadFields
<1>9. \A x \in Memory \ (ReadFields \cup {"cbo", "fresh"}) : p'[x] = Fresh[x]
  BY <1>4, <1>6
<1> QED BY <1>1, <1>3, <1>4, <1>6, <1>7, <1>8, <1>9

\* The panel, the popup and the dialogs of a program just started.
LEMMA StartValues ==
    ASSUME Start
    PROVE  /\ ~p'.panel /\ p'.pop = <<>> /\ p'.rows = <<>> /\ p'.picked = NoName
           /\ p'.dlg = "closed" /\ p'.chgd = FALSE /\ p'.got = <<>>
<1> DEFINE names == {"panel", "pop", "rows", "picked", "dlg", "chgd", "got"}
<1>1. names \subseteq Memory \ (ReadFields \cup {"cbo", "fresh"})
  BY DEF Memory, ReadFields
<1>2. \A x \in names : p'[x] = Fresh[x]
  BY <1>1, StartFrame
<1>3. /\ Fresh.panel = FALSE /\ Fresh.pop = <<>> /\ Fresh.rows = <<>> /\ Fresh.picked = NoName
      /\ Fresh.dlg = "closed" /\ Fresh.chgd = FALSE /\ Fresh.got = <<>>
  BY DEF Fresh
<1>4. /\ p'.panel = Fresh.panel /\ p'.pop = Fresh.pop /\ p'.rows = Fresh.rows /\ p'.picked = Fresh.picked
      /\ p'.dlg = Fresh.dlg /\ p'.chgd = Fresh.chgd /\ p'.got = Fresh.got
  BY <1>2
<1> QED BY <1>3, <1>4

\* Every step, by what it does.
LEMMA SettingsSteps ==
    ASSUME [Next]_vars
    PROVE  \/ UNCHANGED <<file, fdb, p, saving, h>>
           \/ Start \/ Stop \/ Other \/ save_defaults \/ add_record \/ restore_settings
           \/ PanelStep \/ SortStep \/ FilterStep
  BY DEF Next, vars, PanelStep, SortStep, FilterStep


-----------------------------------------------------------------------------
(* The filters in the order of their names.                                *)

LEMMA FiniteNames ==
    ASSUME NEW S \in SUBSET (FilterNames \cup {NoName})
    PROVE  S \subseteq Nat /\ IsFiniteSet(S) /\ Custom \notin S /\ AGC \notin S
<1>1. S \subseteq 0 .. 99
  BY SettingsAssumption DEF NoName
<1>2. IsFiniteSet(0 .. 99)
  <2>1. 0 \in Int /\ 99 \in Int
    OBVIOUS
  <2> QED BY <2>1, FS_Interval
<1>3. IsFiniteSet(S)
  BY <1>1, <1>2, FS_Subset
<1> QED BY <1>1, <1>3 DEF Custom, AGC

LEMMA SortedFilters ==
    ASSUME NEW S \in SUBSET (FilterNames \cup {NoName})
    PROVE  /\ Sorted(S) \in Seq(S) /\ Len(Sorted(S)) = Cardinality(S) /\ Cardinality(S) \in Nat
           /\ Elems(Sorted(S)) = S
<1> DEFINE s == SetToSeq(S)
           n == Cardinality(S)
           key == [m \in S |-> m]
<1>1. S \subseteq Nat /\ IsFiniteSet(S)
  BY FiniteNames
<1>2. n \in Nat /\ \E f : f \in Bijection(1 .. n, S)
  BY <1>1, FS_CardinalityType DEF ExistsBijection
<1>3. PICK f : f \in Bijection(1 .. n, S)
  BY <1>2
<1>4. f \in [1 .. n -> S] /\ IsInjective(f)
  BY <1>3 DEF Bijection, Injection
<1>5. s \in [1 .. n -> S] /\ IsInjective(s)
  BY <1>4 DEF SetToSeq
<1> HIDE DEF s, n
<1>6. s \in Seq(S) /\ Len(s) = n /\ DOMAIN s = 1 .. n
  BY <1>2, <1>5
<1>7. Elems(s) = S
  <2>1. s \in Injection(1 .. n, S)
    BY <1>5 DEF Injection
  <2>2. Cardinality(1 .. n) = n
    <3>1. 1 \in Int /\ n \in Int
      BY <1>2
    <3>2. Cardinality(1 .. n) = (IF 1 > n THEN 0 ELSE n - 1 + 1)
      BY <3>1, FS_Interval
    <3> QED BY <3>2, <1>2
  <2>3. s \in Surjection(1 .. n, S)
    BY <1>1, <2>1, <2>2, FS_Injection DEF n
  <2>4. \A x \in S : \E k \in 1 .. n : s[k] = x
    BY <2>3 DEF Surjection
  <2> QED BY <1>5, <1>6, <2>4 DEF Elems
<1>8. key \in [S -> Int]
  BY <1>1
<1> HIDE DEF key
<1>9. /\ StableSort(s, key) \in Seq(S) /\ Len(StableSort(s, key)) = Len(s)
      /\ Elems(StableSort(s, key)) = Elems(s)
  BY <1>6, <1>8, SortProperties
<1> QED BY <1>2, <1>6, <1>7, <1>9 DEF Sorted, s, n, key

\* The array readFilters allocates.
LEMMA FilterArray ==
    ASSUME NEW S \in SUBSET (FilterNames \cup {NoName}), NEW agc \in {<<>>, <<AGC>>}
    PROVE  LET filts == Sorted(S) \o agc \o <<Custom>> IN
           /\ filts \in Seq(Entries) /\ filts # <<>> /\ filts[Len(filts)] = Custom
           /\ Len(filts) = Cardinality(S) + Len(agc) + 1
           /\ \A k \in 1 .. Cardinality(S) : filts[k] = Sorted(S)[k]
           /\ IsArray(filts, S)
<1> DEFINE s == Sorted(S)
           n == Cardinality(S)
<1>1. s \in Seq(S) /\ Len(s) = n /\ n \in Nat /\ Elems(s) = S
  BY SortedFilters
<1>2. s \in Seq(Entries)
  BY <1>1 DEF Entries
<1> HIDE DEF s, n
<1>3. AGC \in Entries /\ Custom \in Entries /\ <<>> \in Seq(Entries)
  BY DEF Entries
<1>4. CASE agc = <<>>
  <2>1. s \o <<>> = s
    BY <1>2
  <2>2. /\ s \o <<Custom>> \in Seq(Entries) /\ Len(s \o <<Custom>>) = n + 1
        /\ (s \o <<Custom>>)[n + 1] = Custom /\ \A k \in 1 .. n : (s \o <<Custom>>)[k] = s[k]
    BY <1>1, <1>2, <1>3
  <2> QED BY <1>1, <1>4, <2>1, <2>2 DEF IsArray, s, n
<1>5. CASE agc = <<AGC>>
  <2> DEFINE u == s \o <<AGC>> \o <<Custom>>
  <2>1. /\ u \in Seq(Entries) /\ Len(u) = n + 2
        /\ u[n + 2] = Custom /\ \A k \in 1 .. n : u[k] = s[k]
    BY <1>1, <1>2, <1>3
  <2>2. u # <<>>
    BY <2>1, <1>1
  <2> QED BY <1>1, <1>5, <2>1, <2>2 DEF IsArray, s, n
<1> QED BY <1>4, <1>5


-----------------------------------------------------------------------------
(* The memory, the file and what is written have their types.              *)

LEMMA RecordFields ==
    /\ DOMAIN Records = 1 .. 5 /\ Len(Records) = 5
    /\ {Records[i] : i \in DOMAIN Records} = RecordNames /\ DOMAIN Empty = RecordNames
    /\ \A r \in RecordNames : Empty[r] = None
    /\ \A i \in 1 .. 5 : Records[i] \in RecordNames
    /\ \A i, j \in 1 .. 5 : Records[i] = Records[j] => i = j
    /\ Fields = RecordNames \ {"SRTSTR"}
<1>1. DOMAIN Records = 1 .. 5 /\ Len(Records) = 5 /\ \A i \in 1 .. 5 : Records[i] \in RecordNames
  BY DEF Records, RecordNames
<1>2. \A i, j \in 1 .. 5 : Records[i] = Records[j] => i = j
  BY DEF Records
<1>3. Fields = RecordNames \ {"SRTSTR"}
  BY DEF Fields, RecordNames
<1>4. {Records[i] : i \in DOMAIN Records} = RecordNames
  <2>1. Records[1] = "DSPMD" /\ Records[2] = "MW" /\ Records[3] = "MZF" /\ Records[4] = "MP0" /\ Records[5] = "SRTSTR"
    BY DEF Records
  <2>2. \A r \in RecordNames : r \in {Records[i] : i \in DOMAIN Records}
    BY <1>1, <2>1 DEF RecordNames
  <2> QED BY <1>1, <2>2
<1> QED BY <1>1, <1>2, <1>3, <1>4 DEF Empty

LEMMA ValueTypes ==
    /\ \A f \in Fields : FieldValues[f] \subseteq Values(f)
    /\ Values("DSPMD") = Modes /\ Values("MW") = Scales /\ Values("MZF") = Zooms /\ Values("MP0") = ReadTags
    /\ \A w \in Words : <<w>> \in ReadTags
    /\ Tags \subseteq ReadTags /\ <<>> \in ReadTags
    /\ \A tag \in ReadTags : tag # <<>> => Head(tag) \in Words
<1>1. Tags \subseteq ReadTags /\ <<>> \in ReadTags /\ \A w \in Words : <<w>> \in ReadTags
  BY SettingsAssumption DEF ReadTags
<1>2. ASSUME NEW tag \in ReadTags, tag # <<>> PROVE Head(tag) \in Words
  <2>1. CASE tag \in Tags
    <3>1. tag \in Seq(STRING)
      BY <2>1, SettingsAssumption
    <3>2. Head(tag) = tag[1] /\ 1 \in DOMAIN tag
      BY <1>2, <3>1
    <3> QED BY <2>1, <3>2 DEF Words, ToSet
  <2>2. CASE tag \notin Tags
    <3>1. PICK w \in Words : tag = <<w>>
      BY <1>2, <2>2 DEF ReadTags
    <3> QED BY <3>1
  <2> QED BY <2>1, <2>2
<1>3. \A f \in Fields : FieldValues[f] \subseteq Values(f)
  BY <1>1 DEF Fields, FieldValues, Values
<1>4. Values("DSPMD") = Modes /\ Values("MW") = Scales /\ Values("MZF") = Zooms /\ Values("MP0") = ReadTags
  BY DEF FieldValues, Values
<1> QED BY <1>1, <1>2, <1>3, <1>4

LEMMA SetDefaultsTypes ==
    ASSUME NEW set, IsSettings(set) PROVE IsSettings(set_defaults(set))
  BY ValueTypes DEF IsSettings, set_defaults, Fields, Modes, Scales, Zooms

\* What the file holds is read as a value of its field.
LEMMA ReadTypes ==
    ASSUME FileInv, NEW f \in Fields, NEW cur \in Values(f)
    PROVE  Read(f, cur) \in Values(f)
<1>1. CASE ~Stored(f)
  BY <1>1 DEF Read
<1>2. CASE Stored(f)
  <2>1. IsText(f, file[f].text)
    BY <1>2, RecordFields DEF FileInv, Stored
  <2>2. CASE f = "MP0"
    <3>1. file[f].text \in ReadTags
      BY <2>1, <2>2, ValueTypes DEF IsText
    <3> QED BY <1>2, <2>2, <3>1, ValueTypes DEF Read
  <2>3. CASE f = "MZF"
    <3>1. file[f].text \in {15, 20, 40}
      BY <2>1, <2>3 DEF IsText, Zooms, OldZoom
    <3> QED BY <1>2, <2>3, <3>1, ValueTypes DEF Read, Zooms
  <2>4. CASE f # "MP0" /\ f # "MZF"
    <3>1. file[f].text \in Values(f)
      BY <2>1, <2>4 DEF IsText, Fields
    <3> QED BY <1>2, <2>4, <3>1 DEF Read
  <2> QED BY <2>2, <2>3, <2>4
<1> QED BY <1>1, <1>2

LEMMA StoredSettingsTypes ==
    ASSUME FileInv, NEW set, IsSettings(set) PROVE IsSettings(StoredSettings(set))
<1>1. IsSettings(set_defaults(set))
  BY SetDefaultsTypes
<1> QED BY <1>1, ReadTypes DEF IsSettings, StoredSettings

LEMMA EncryptTypes ==
    ASSUME NEW user, IsUser(user)
    PROVE  /\ IsText("SRTSTR", encrypt(user))
           /\ decrypt(Unsorted, encrypt(user)) = user
<1>1. IsText("SRTSTR", encrypt(user))
  BY DEF IsUser, encrypt, IsText
<1>2. ASSUME NEW t \in Types PROVE decrypt(Unsorted, encrypt(user))[t] = user[t]
  <2>1. CASE user[t] = <<>>
    BY <2>1 DEF decrypt, encrypt, Unsorted
  <2>2. CASE user[t] # <<>>
    <3>1. <<>> \o user[t] = user[t]
      BY DEF IsUser
    <3> QED BY <2>2, <3>1 DEF decrypt, encrypt, Unsorted
  <2> QED BY <2>1, <2>2
<1>3. decrypt(Unsorted, encrypt(user)) = [t \in Types |-> user[t]]
  BY <1>2 DEF decrypt
<1> QED BY <1>1, <1>3 DEF IsUser

LEMMA StoredSortsTypes ==
    ASSUME FileInv, NEW user, IsUser(user) PROVE IsUser(StoredSorts(user))
<1>1. CASE Stored("SRTSTR")
  <2>1. IsText("SRTSTR", file["SRTSTR"].text)
    BY <1>1 DEF FileInv, Stored, RecordNames
  <2>2. \A t \in Types : decrypt(user, file["SRTSTR"].text)[t] \in Seq(Criterion)
    BY <2>1 DEF IsText, decrypt, IsUser
  <2> QED BY <1>1, <2>2 DEF StoredSorts, IsUser, decrypt
<1>2. CASE ~Stored("SRTSTR")
  BY <1>2 DEF StoredSorts
<1> QED BY <1>1, <1>2

LEMMA FreshTypes == IsSettings(Fresh.set) /\ IsUser(Unsorted) /\ Fresh.user = Unsorted
<1>1. IsSettings(Fresh.set)
  BY ValueTypes DEF IsSettings, Fresh, Fields, Modes, Scales, Zooms
<1>2. <<>> \in Seq(Criterion)
  OBVIOUS
<1> QED BY <1>1, <1>2 DEF IsUser, Unsorted, Fresh


LEMMA SeqOfElems ==
    ASSUME NEW S, NEW s \in Seq(S) PROVE s \in Seq(Elems(s))
  BY DEF Elems

LEMMA FunctionIsSeq ==
    ASSUME NEW S, NEW n \in Nat, NEW f \in [1 .. n -> S] PROVE f \in Seq(S) /\ Len(f) = n
  OBVIOUS

LEMMA SetInvStep ==
    ASSUME TypesInv, [Next]_vars PROVE SetInv'
<1>1. SetInv /\ FileInv
  BY DEF TypesInv
<1>2. CASE UNCHANGED <<file, fdb, p, saving, h>> \/ Other \/ add_record
  BY <1>1, <1>2 DEF SetInv, Other, add_record
<1>3. CASE Start
  <2>1. IsSettings(StoredSettings(Fresh.set))
    BY <1>1, FreshTypes, StoredSettingsTypes
  <2>2. ~p'.panel
    BY <1>3, StartValues
  <2> QED BY <1>3, <2>1, <2>2, StartFrame DEF SetInv
<1>4. CASE Stop
  BY <1>4, FreshFields DEF Stop, SetInv
<1>5. CASE save_defaults
  BY <1>1, <1>5, SaveFrame DEF SetInv, Same
<1>6. CASE restore_settings
  <2>1. p.run
    BY <1>1, <1>6, RestoreFrame DEF Same
  <2>2. IsSettings(StoredSettings(p.set))
    BY <1>1, <2>1, StoredSettingsTypes DEF SetInv
  <2> QED BY <1>1, <1>6, <2>2, RestoreFrame DEF SetInv, Same
<1>7. CASE PanelStep
  <2>1. p.run /\ p'.run /\ DOMAIN p' = Memory
    BY <1>1, <1>7, PanelFrame DEF Same
  <2>2. ASSUME NEW set, IsSettings(set), NEW f \in Fields, NEW v \in FieldValues[f]
        PROVE  IsSettings([set EXCEPT ![f] = v])
    BY <2>2, ValueTypes DEF IsSettings
  <2>3. "MW" \in Fields /\ Scales = FieldValues["MW"]
    BY DEF Fields, FieldValues
  <2>4. IsSettings(p.set) /\ (p.panel => IsSettings(p.ctrl))
    BY <1>1, <2>1 DEF SetInv
  <2>5. IsSettings(p'.set)
    <3>1. p'.set = p.set \/ (p.panel /\ p'.set = p.ctrl) \/ \E v \in Scales : p'.set = [p.set EXCEPT !["MW"] = v]
      BY <1>1, <1>7, PanelFrame
    <3>2. CASE \E v \in Scales : p'.set = [p.set EXCEPT !["MW"] = v]
      <4>1. PICK v \in Scales : p'.set = [p.set EXCEPT !["MW"] = v]
        BY <3>2
      <4>2. IsSettings([p.set EXCEPT !["MW"] = v])
        BY <2>2, <2>3, <2>4
      <4> QED BY <4>1, <4>2
    <3> QED BY <2>4, <3>1, <3>2
  <2>6. ASSUME p'.panel PROVE IsSettings(p'.ctrl)
    <3>1. \/ p'.ctrl = p.set
          \/ p.panel /\ p'.ctrl = p.ctrl
          \/ p.panel /\ \E f \in Fields : \E v \in FieldValues[f] : p'.ctrl = [p.ctrl EXCEPT ![f] = v]
      BY <1>1, <1>7, <2>6, PanelFrame
    <3>2. CASE p.panel /\ \E f \in Fields : \E v \in FieldValues[f] : p'.ctrl = [p.ctrl EXCEPT ![f] = v]
      <4>1. PICK f \in Fields : \E v \in FieldValues[f] : p'.ctrl = [p.ctrl EXCEPT ![f] = v]
        BY <3>2
      <4>2. PICK v \in FieldValues[f] : p'.ctrl = [p.ctrl EXCEPT ![f] = v]
        BY <4>1
      <4>3. IsSettings([p.ctrl EXCEPT ![f] = v])
        BY <2>2, <2>4, <3>2
      <4> QED BY <4>2, <4>3
    <3> QED BY <2>4, <3>1, <3>2
  <2> QED BY <2>1, <2>5, <2>6 DEF SetInv
<1>8. CASE SortStep
  <2>1. Same(Memory \ SortFields)
    BY <1>8, SortFrame DEF TypesInv
  <2>2. p'.set = p.set /\ p'.panel = p.panel /\ p'.ctrl = p.ctrl
    BY <2>1 DEF Same, Memory, SortFields
  <2> QED BY <1>1, <2>1, <2>2 DEF SetInv, Same
<1>9. CASE FilterStep
  <2>1. Same(Memory \ FilterFields)
    BY <1>9, FilterFrame DEF TypesInv
  <2>2. p'.set = p.set /\ p'.panel = p.panel /\ p'.ctrl = p.ctrl
    BY <2>1 DEF Same, Memory, FilterFields
  <2> QED BY <1>1, <2>1, <2>2 DEF SetInv, Same
<1> QED BY <1>2, <1>3, <1>4, <1>5, <1>6, <1>7, <1>8, <1>9, SettingsSteps

\* The steps that write neither the file nor what is still to be written.
LEMMA FileKept ==
    ASSUME TypesInv, [Next]_vars
    PROVE  \/ Stop \/ Other \/ save_defaults \/ add_record
           \/ UNCHANGED <<file, saving>> /\ (p.run => p'.run)
<1>1. SetInv /\ SortTypes /\ DOMAIN h = {"saved", "old", "torn", "other", "did"}
  BY DEF TypesInv
<1>2. CASE Start
  BY <1>2, StartFrame
<1>3. CASE restore_settings
  BY <1>1, <1>3, RestoreFrame DEF Same
<1>4. CASE PanelStep
  BY <1>1, <1>4, PanelFrame DEF Same
<1>5. CASE SortStep
  BY <1>1, <1>5, SortFrame DEF Same
<1>6. CASE FilterStep
  BY <1>1, <1>6, FilterFrame DEF Same
<1> QED BY <1>2, <1>3, <1>4, <1>5, <1>6, SettingsSteps

LEMMA FileInvStep ==
    ASSUME TypesInv, [Next]_vars PROVE FileInv'
<1>1. FileInv /\ SetInv /\ SortTypes /\ SetInv'
  BY SetInvStep DEF TypesInv
<1>2. CASE Stop
  BY <1>1, <1>2 DEF Stop, FileInv
<1>3. CASE Other
  <2>1. UNCHANGED <<p, saving>>
    BY <1>3 DEF Other
  <2>2. CASE UNCHANGED file
    BY <1>1, <2>1, <2>2 DEF FileInv
  <2>3. CASE file # None /\ file' = [file EXCEPT !["MZF"] = [text |-> 20]]
    <3>1. DOMAIN file' = RecordNames /\ \A r \in RecordNames : file'[r] # None =>
              DOMAIN file'[r] = {"text"} /\ IsText(r, file'[r].text)
      <4>1. IsText("MZF", 20)
        BY DEF IsText, Zooms
      <4>2. DOMAIN file = RecordNames /\ \A r \in RecordNames : file[r] # None =>
              DOMAIN file[r] = {"text"} /\ IsText(r, file[r].text)
        BY <1>1, <2>3 DEF FileInv
      <4> QED BY <2>3, <4>1, <4>2
    <3>2. file' # None
      BY <3>1 DEF None, RecordNames
    <3> QED BY <1>1, <2>1, <2>3, <3>1, <3>2 DEF FileInv
  <2> QED BY <1>3, <2>2, <2>3 DEF Other
<1>4. CASE save_defaults
  <2>1. /\ saving' = make_defaults_file(p') /\ file' = create_dbl /\ p'.run
        /\ p'.user = p.user /\ IsUser(p.user) /\ IsSettings(p'.set)
    <3>1. Same(Memory \ SetFields) /\ saving' = make_defaults_file(p') /\ file' = create_dbl
      BY <1>1, <1>4, SaveFrame
    <3>2. p.run /\ p'.run /\ p'.user = p.user
      BY <3>1 DEF Same, Memory, SetFields
    <3> QED BY <1>1, <3>1, <3>2 DEF SetInv, SortTypes
  <2>2. /\ DOMAIN saving' = 1 .. 5 /\ Len(saving') = 5
        /\ \A j \in 1 .. 5 : saving'[j] = <<Records[j], [text |-> IF Records[j] = "SRTSTR" THEN encrypt(p'.user)
                                                                  ELSE p'.set[Records[j]]]>>
    BY <2>1, RecordFields DEF make_defaults_file
  <2>3. ASSUME NEW j \in 1 .. 5
        PROVE  IsText(Records[j], IF Records[j] = "SRTSTR" THEN encrypt(p'.user) ELSE p'.set[Records[j]])
    <3>1. CASE Records[j] = "SRTSTR"
      BY <2>1, <3>1, EncryptTypes
    <3>2. CASE Records[j] # "SRTSTR"
      <4>1. Records[j] \in Fields /\ p'.set[Records[j]] \in Values(Records[j])
        BY <2>1, <3>2, RecordFields DEF IsSettings
      <4>2. Values("MZF") = Zooms
        BY ValueTypes
      <4> QED BY <3>2, <4>1, <4>2 DEF IsText
    <3> QED BY <3>1, <3>2
  <2>4. DOMAIN Empty = RecordNames /\ (\A r \in RecordNames : Empty[r] = None) /\ Empty # None
    BY RecordFields DEF None, RecordNames
  <2>5. file' # None
    BY <2>1, <2>4 DEF create_dbl
  <2>6. DOMAIN file' = RecordNames /\ \A r \in RecordNames : file'[r] # None =>
            DOMAIN file'[r] = {"text"} /\ IsText(r, file'[r].text)
    BY <1>1, <2>1, <2>4 DEF create_dbl, FileInv
  <2>7. \A j \in 1 .. 5 : 5 - 5 + j = j
    OBVIOUS
  <2>8. saving' \in Seq(Elems(saving'))
    <3>1. saving' = [i \in 1 .. 5 |-> saving'[i]]
      BY <2>1, <2>2, RecordFields DEF make_defaults_file
    <3>2. \A i \in 1 .. 5 : saving'[i] \in Elems(saving')
      BY <2>2 DEF Elems
    <3>3. saving' \in [1 .. 5 -> Elems(saving')]
      BY <3>1, <3>2, Zenon
    <3>4. 5 \in Nat
      OBVIOUS
    <3> QED BY <3>3, <3>4, FunctionIsSeq, Zenon
  <2> QED BY <2>1, <2>2, <2>3, <2>5, <2>6, <2>7, <2>8 DEF FileInv
<1>5. CASE add_record
  <2>1. /\ saving # <<>> /\ saving' = Tail(saving) /\ p' = p
        /\ file' = [file EXCEPT ![saving[1][1]] = saving[1][2]]
    BY <1>5 DEF add_record
  <2> DEFINE n == Len(saving)
  <2>2. saving \in Seq(Elems(saving)) /\ n \in 1 .. 5 /\ file # None /\ p.run
    BY <1>1, <2>1 DEF FileInv
  <2>3. /\ saving' \in Seq(Elems(saving)) /\ Len(saving') = n - 1
        /\ \A j \in 1 .. n - 1 : saving'[j] = saving[j + 1]
    BY <2>1, <2>2
  <2>11. saving' \in Seq(Elems(saving'))
    BY <2>3, SeqOfElems
  <2>4. ASSUME NEW j \in 1 .. n - 1
        PROVE  LET r == Records[5 - Len(saving') + j]
               IN  saving'[j] = <<r, saving'[j][2]>> /\ DOMAIN saving'[j][2] = {"text"} /\ IsText(r, saving'[j][2].text)
    <3>1. 5 - Len(saving') + j = 5 - n + (j + 1) /\ j + 1 \in 1 .. n
      BY <2>2, <2>3
    <3>2. saving'[j] = saving[j + 1]
      BY <2>3
    <3>3. LET r == Records[5 - n + (j + 1)]
          IN  saving[j + 1] = <<r, saving[j + 1][2]>> /\ DOMAIN saving[j + 1][2] = {"text"} /\ IsText(r, saving[j + 1][2].text)
      BY <1>1, <3>1 DEF FileInv
    <3> QED BY <3>1, <3>2, <3>3
  <2> DEFINE r == Records[5 - n + 1]
  <2>5. r \in RecordNames /\ saving[1][1] = r /\ DOMAIN saving[1][2] = {"text"} /\ IsText(r, saving[1][2].text)
    <3>1. \A m \in 1 .. 5 : 5 - m + 1 \in 1 .. 5 /\ 1 \in 1 .. m
      OBVIOUS
    <3>2. 5 - n + 1 \in 1 .. 5 /\ 1 \in 1 .. n
      BY <2>2, <3>1, Zenon
    <3> QED BY <1>1, <3>2, RecordFields DEF FileInv
  <2>6. DOMAIN file = RecordNames /\ \A x \in RecordNames : file[x] # None =>
            DOMAIN file[x] = {"text"} /\ IsText(x, file[x].text)
    BY <1>1, <2>2 DEF FileInv
  <2> HIDE DEF r, n
  <2>7. file' = [file EXCEPT ![r] = saving[1][2]]
    BY <2>1, <2>5
  <2>8. DOMAIN file' = RecordNames /\ \A x \in RecordNames : file'[x] # None =>
            DOMAIN file'[x] = {"text"} /\ IsText(x, file'[x].text)
    BY <2>5, <2>6, <2>7
  <2>9. file' # None
    BY <2>8 DEF None, RecordNames
  <2>10. Len(saving') \in 0 .. 5
    BY <2>2, <2>3
  <2> QED BY <2>1, <2>2, <2>3, <2>4, <2>8, <2>9, <2>10, <2>11 DEF FileInv
<1>6. CASE UNCHANGED <<file, saving>> /\ (p.run => p'.run)
  BY <1>1, <1>6 DEF FileInv
<1> QED BY <1>2, <1>3, <1>4, <1>5, <1>6, FileKept


-----------------------------------------------------------------------------
(* The popup of sort criteria.                                             *)

\* A memory as the operations of the popup take it.
IsPopup(q) ==
    /\ DOMAIN q = Memory /\ IsUser(q.user) /\ q.pop \in Seq(Box) /\ DOMAIN q.chosen = Types
    /\ q.ctrlType \in Types /\ q.popType \in Types /\ q.type \in Types

\* The same criteria, in whatever direction.
SameNums(user, other) ==
    \A t \in Types : /\ Len(user[t]) = Len(other[t])
                     /\ \A i \in 1 .. Len(other[t]) : user[t][i].num = other[t][i].num

LEMMA DelSortFields ==
    ASSUME NEW q, IsPopup(q), NEW q1 \in delSort(q)
    PROVE  /\ DOMAIN q1 = Memory /\ \A x \in Memory \ {"user", "pop"} : q1[x] = q[x]
           /\ IsPopup(q1) /\ SameNums(q1.user, q.user) /\ q1.pop = <<>>
<1> DEFINE t == q.ctrlType
           list == q.user[t]
<1>1. list \in Seq(Criterion) /\ t \in Types /\ DOMAIN q = Memory /\ q.user \in [Types -> Seq(Criterion)]
      /\ q.pop \in Seq(Box)
  BY DEF IsPopup, IsUser
<1>2. PICK d \in (IF Len(list) > Len(q.pop) THEN BOOLEAN ELSE {TRUE}) :
          q1 = [q EXCEPT !.user[t] = [i \in DOMAIN list |->
                            [list[i] EXCEPT !.dir = IF i \leq Len(q.pop) THEN q.pop[i].dir ELSE d]],
                         !.pop = <<>>]
  BY DEF delSort
<1> DEFINE new == [i \in DOMAIN list |-> [list[i] EXCEPT !.dir = IF i \leq Len(q.pop) THEN q.pop[i].dir ELSE d]]
<1>3. ASSUME NEW i \in DOMAIN list PROVE new[i] \in Criterion /\ new[i].num = list[i].num
  <2>1. list[i] \in Criterion
    BY <1>1
  <2>2. (IF i \leq Len(q.pop) THEN q.pop[i].dir ELSE d) \in BOOLEAN
    <3>1. d \in BOOLEAN
      BY <1>2
    <3>2. DOMAIN list = 1 .. Len(list) /\ i \in Nat /\ i >= 1
      BY <1>1
    <3>3. CASE i \leq Len(q.pop)
      <4>1. q.pop[i] \in Box
        BY <1>1, <3>2, <3>3
      <4>2. q.pop[i].dir \in BOOLEAN
        BY <4>1 DEF Box
      <4> QED BY <3>3, <4>2
    <3>4. CASE ~(i \leq Len(q.pop))
      BY <3>1, <3>4
    <3> QED BY <3>3, <3>4
  <2>3. \A dir \in BOOLEAN : [list[i] EXCEPT !.dir = dir] \in Criterion /\ [list[i] EXCEPT !.dir = dir].num = list[i].num
    BY <2>1 DEF Criterion
  <2>4. new[i] = [list[i] EXCEPT !.dir = IF i \leq Len(q.pop) THEN q.pop[i].dir ELSE d]
    OBVIOUS
  <2> QED BY <2>2, <2>3, <2>4
<1>4. DOMAIN list = 1 .. Len(list) /\ Len(list) \in Nat /\ DOMAIN new = DOMAIN list
  BY <1>1
<1>5. q1 = [q EXCEPT !.user = [q.user EXCEPT ![t] = new], !.pop = <<>>]
  BY <1>1, <1>2
<1> HIDE DEF new
<1>6. new \in [1 .. Len(list) -> Criterion]
  <2>1. new = [i \in DOMAIN list |-> new[i]]
    BY DEF new
  <2>2. \A i \in DOMAIN list : new[i] \in Criterion
    BY <1>3
  <2>3. new \in [DOMAIN list -> Criterion]
    BY <2>1, <2>2, Zenon
  <2> QED BY <1>4, <2>3
<1>7. new \in Seq(Criterion) /\ Len(new) = Len(list)
  BY <1>4, <1>6, FunctionIsSeq
<1> HIDE DEF list
<1>8. /\ DOMAIN q1 = Memory /\ \A x \in Memory \ {"user", "pop"} : q1[x] = q[x]
      /\ q1.user = [q.user EXCEPT ![t] = new] /\ q1.pop = <<>>
  BY <1>1, <1>5 DEF Memory
<1>9. /\ q1.user \in [Types -> Seq(Criterion)] /\ q1.user[t] = new
      /\ \A u \in Types \ {t} : q1.user[u] = q.user[u]
  BY <1>1, <1>7, <1>8
<1>10. SameNums(q1.user, q.user)
  <2>1. ASSUME NEW u \in Types
        PROVE  /\ Len(q1.user[u]) = Len(q.user[u])
               /\ \A i \in 1 .. Len(q.user[u]) : q1.user[u][i].num = q.user[u][i].num
    <3>1. CASE u = t
      BY <1>3, <1>4, <1>7, <1>9, <3>1 DEF list
    <3>2. CASE u # t
      BY <1>9, <3>2
    <3> QED BY <3>1, <3>2
  <2> QED BY <2>1 DEF SameNums
<1>11. <<>> \in Seq(Box)
  OBVIOUS
<1>12. q1.chosen = q.chosen /\ q1.ctrlType = q.ctrlType /\ q1.popType = q.popType /\ q1.type = q.type
  BY <1>8 DEF Memory
<1> QED BY <1>8, <1>9, <1>10, <1>11, <1>12 DEF IsPopup, IsUser

LEMMA NewPopupFields ==
    ASSUME NEW q, IsPopup(q)
    PROVE  LET t == q.ctrlType
               r == NewPopup(q)
           IN  /\ DOMAIN r = Memory /\ \A x \in Memory \ {"popType", "pop", "chosen"} : r[x] = q[x]
               /\ IsPopup(r) /\ r.popType = t /\ r.user = q.user /\ r.pop # <<>>
               /\ q.user[t] = <<>> => /\ Len(r.pop) = 1 /\ r.pop[1].offer = ToSet(Desc[t])
                                      /\ r.chosen[t] = {}
               /\ q.user[t] # <<>> => /\ Len(r.pop) = Len(q.user[t])
                                      /\ \A i \in 1 .. Len(r.pop) : r.pop[i].offer = {}
<1> DEFINE t == q.ctrlType
           r == NewPopup(q)
<1>1. /\ q.user[t] \in Seq(Criterion) /\ t \in Types /\ DOMAIN q = Memory /\ DOMAIN q.chosen = Types
      /\ q.pop \in Seq(Box) /\ Desc[t] \in Seq(STRING)
  BY SettingsAssumption DEF IsPopup, IsUser, Types
<1>2. CASE q.user[t] = <<>>
  <2> DEFINE box == [offer |-> ToSet(Desc[t]), dir |-> TRUE]
  <2>1. r = [q EXCEPT !.popType = t, !.pop = <<box>>, !.chosen = [q.chosen EXCEPT ![t] = {}]]
    BY <1>2 DEF NewPopup
  <2>2. box \in Box /\ box.offer = ToSet(Desc[t])
    BY <1>1 DEF Box, ToSet
  <2> HIDE DEF box, r, t
  <2>3. /\ DOMAIN r = Memory /\ \A x \in Memory \ {"popType", "pop", "chosen"} : r[x] = q[x]
        /\ r.popType = t /\ r.pop = <<box>> /\ r.chosen = [q.chosen EXCEPT ![t] = {}]
    BY <1>1, <2>1 DEF Memory
  <2>4. <<box>> \in Seq(Box) /\ Len(<<box>>) = 1 /\ <<box>>[1] = box /\ <<box>> # <<>>
    BY <2>2
  <2>5. r.user = q.user /\ r.ctrlType = q.ctrlType /\ r.type = q.type
    BY <2>3 DEF Memory
  <2>6. DOMAIN r.chosen = Types /\ r.chosen[t] = {}
    BY <1>1, <2>3
  <2> QED BY <1>1, <1>2, <2>2, <2>3, <2>4, <2>5, <2>6 DEF IsPopup, t, r
<1>3. CASE q.user[t] # <<>>
  <2> DEFINE list == q.user[t]
             pop == [i \in DOMAIN list |-> [offer |-> {}, dir |-> list[i].dir]]
  <2>1. r = [q EXCEPT !.popType = t, !.pop = pop]
    BY <1>3 DEF NewPopup
  <2>2. list \in Seq(Criterion) /\ DOMAIN list = 1 .. Len(list) /\ Len(list) \in Nat \ {0}
    BY <1>1, <1>3
  <2>3. \A i \in 1 .. Len(list) : pop[i] \in Box /\ pop[i].offer = {}
    <3>1. \A i \in 1 .. Len(list) : list[i].dir \in BOOLEAN
      <4>1. \A i \in 1 .. Len(list) : list[i] \in Criterion
        BY <2>2
      <4> QED BY <4>1 DEF Criterion
    <3>2. \A i \in 1 .. Len(list) : pop[i] = [offer |-> {}, dir |-> list[i].dir]
      BY <2>2
    <3>3. \A i \in 1 .. Len(list) : [offer |-> {}, dir |-> list[i].dir] \in Box
      BY <3>1 DEF Box
    <3> QED BY <3>2, <3>3
  <2>4. pop = [i \in 1 .. Len(list) |-> pop[i]]
    BY <2>2
  <2> HIDE DEF pop, r, t
  <2>5. pop \in [1 .. Len(list) -> Box]
    BY <2>3, <2>4, Zenon
  <2>6. pop \in Seq(Box) /\ Len(pop) = Len(list)
    BY <2>2, <2>5, FunctionIsSeq
  <2>7. pop # <<>>
    BY <2>2, <2>6
  <2>8. /\ DOMAIN r = Memory /\ \A x \in Memory \ {"popType", "pop"} : r[x] = q[x]
        /\ r.popType = t /\ r.pop = pop
    BY <1>1, <2>1 DEF Memory
  <2>9. r.user = q.user /\ r.ctrlType = q.ctrlType /\ r.type = q.type /\ r.chosen = q.chosen
    BY <2>8 DEF Memory
  <2> QED BY <1>1, <1>3, <2>3, <2>6, <2>7, <2>8, <2>9 DEF IsPopup, t, r
<1> QED BY <1>2, <1>3


LEMMA TakeFields ==
    ASSUME NEW q, IsPopup(q), q.pop # <<>>, NEW t \in Types, NEW num \in Nat
    PROVE  LET r == Take(q, t, num)
               n == Len(q.pop)
               m == Len(q.user[t])
           IN  /\ IsPopup(r) /\ r.popType = q.popType
               /\ \A u \in Types \ {t} : r.user[u] = q.user[u]
               /\ Len(r.user[t]) = m + 1 /\ r.user[t][m + 1].num = num
               /\ \A i \in 1 .. m : r.user[t][i] = q.user[t][i]
               /\ Len(r.pop) = n /\ r.pop[n].offer = {} /\ n \in Nat \ {0} /\ m \in Nat
               /\ num <= Len(Desc[t]) => r.chosen[t] = q.chosen[t] \cup {num}
<1> DEFINE r == Take(q, t, num)
           n == Len(q.pop)
           m == Len(q.user[t])
           one == IF num > Len(Desc[t]) THEN Len(Desc[t]) ELSE num
           dir == q.pop[n].dir
           crit == [num |-> num, dir |-> dir]
           box == [q.pop[n] EXCEPT !.offer = {}]
<1>1. /\ DOMAIN q = Memory /\ DOMAIN q.chosen = Types /\ q.user \in [Types -> Seq(Criterion)]
      /\ q.pop \in Seq(Box) /\ n \in Nat \ {0} /\ n \in DOMAIN q.pop
      /\ q.user[t] \in Seq(Criterion) /\ m \in Nat
  BY DEF IsPopup, IsUser
<1>2. q.pop[n] \in Box /\ dir \in BOOLEAN
  <2>1. q.pop[n] \in Box
    BY <1>1
  <2> QED BY <2>1 DEF Box
<1>3. box \in Box /\ box.offer = {}
  BY <1>2 DEF Box
<1>4. crit \in Criterion /\ crit.num = num
  BY <1>2 DEF Criterion
<1>5. r = [q EXCEPT !.chosen = [q.chosen EXCEPT ![t] = @ \cup {one}],
                    !.user = [q.user EXCEPT ![t] = Append(@, crit)],
                    !.pop = [q.pop EXCEPT ![n] = box]]
  BY <1>1 DEF Take, Memory
<1> HIDE DEF r, crit, box, one
<1>6. /\ DOMAIN r = Memory /\ r.chosen = [q.chosen EXCEPT ![t] = @ \cup {one}]
      /\ r.user = [q.user EXCEPT ![t] = Append(@, crit)] /\ r.pop = [q.pop EXCEPT ![n] = box]
      /\ r.popType = q.popType /\ r.type = q.type /\ r.ctrlType = q.ctrlType
  BY <1>1, <1>5 DEF Memory
<1>7. r.pop \in Seq(Box) /\ Len(r.pop) = n /\ r.pop[n] = box
  BY <1>1, <1>3, <1>6
<1>8. DOMAIN r.chosen = Types /\ r.chosen[t] = q.chosen[t] \cup {one}
  BY <1>1, <1>6
<1>9. /\ Append(q.user[t], crit) \in Seq(Criterion) /\ Len(Append(q.user[t], crit)) = m + 1
      /\ Append(q.user[t], crit)[m + 1] = crit
      /\ \A i \in 1 .. m : Append(q.user[t], crit)[i] = q.user[t][i]
  BY <1>1, <1>4
<1>10. /\ r.user \in [Types -> Seq(Criterion)] /\ r.user[t] = Append(q.user[t], crit)
       /\ \A u \in Types \ {t} : r.user[u] = q.user[u]
  BY <1>1, <1>6, <1>9
<1>11. q.popType \in Types /\ q.type \in Types /\ q.ctrlType \in Types
  BY DEF IsPopup
<1>12. num <= Len(Desc[t]) => one = num
  <2>1. Len(Desc[t]) \in Nat
    BY SettingsAssumption DEF Types
  <2> QED BY <2>1 DEF one
<1> QED BY <1>1, <1>3, <1>4, <1>6, <1>7, <1>8, <1>9, <1>10, <1>11, <1>12 DEF IsPopup, IsUser, r

LEMMA NextBoxFields ==
    ASSUME NEW q, IsPopup(q), NEW t \in Types
    PROVE  LET r == NextBox(q, t)
               n == Len(q.pop)
           IN  /\ IsPopup(r) /\ r.popType = q.popType /\ r.user = q.user /\ r.chosen = q.chosen
               /\ Len(r.pop) = n + 1 /\ r.pop[n + 1].offer = offers(q, t) /\ n \in Nat
<1> DEFINE r == NextBox(q, t)
           n == Len(q.pop)
           box == [offer |-> offers(q, t), dir |-> TRUE]
<1>1. DOMAIN q = Memory /\ q.pop \in Seq(Box) /\ n \in Nat
  BY DEF IsPopup
<1>2. offers(q, t) \in SUBSET STRING
  <2>1. Desc[t] \in Seq(STRING)
    BY SettingsAssumption DEF Types
  <2> QED BY <2>1 DEF offers
<1>3. box \in Box /\ box.offer = offers(q, t)
  BY <1>2 DEF Box
<1>4. r = [q EXCEPT !.pop = Append(q.pop, box)]
  BY <1>1 DEF NextBox, Memory
<1> HIDE DEF r, box
<1>5. /\ DOMAIN r = Memory /\ r.pop = Append(q.pop, box) /\ r.popType = q.popType /\ r.type = q.type
      /\ r.ctrlType = q.ctrlType /\ r.user = q.user /\ r.chosen = q.chosen
  BY <1>1, <1>4 DEF Memory
<1>6. r.pop \in Seq(Box) /\ Len(r.pop) = n + 1 /\ r.pop[n + 1] = box
  BY <1>1, <1>3, <1>5
<1> QED BY <1>1, <1>3, <1>5, <1>6 DEF IsPopup, r

LEMMA ValidSame ==
    ASSUME NEW t \in Types, NEW list \in Seq(Criterion), NEW other \in Seq(Criterion), Valid(t, other),
           Len(list) = Len(other), \A i \in 1 .. Len(other) : list[i].num = other[i].num
    PROVE  Valid(t, list)
<1>1. DOMAIN list = 1 .. Len(other) /\ DOMAIN other = 1 .. Len(other)
  OBVIOUS
<1> QED BY <1>1 DEF Valid

\* There are no more criteria than the type has, and one less without the first.
LEMMA ValidLength ==
    ASSUME NEW t \in Types, NEW list \in Seq(Criterion), Valid(t, list)
    PROVE  /\ Len(list) <= Len(Desc[t]) /\ Len(Desc[t]) \in Nat \ {0}
           /\ (\A i \in DOMAIN list : list[i].num # 1) => Len(list) < Len(Desc[t])
<1> DEFINE n == Len(list)
           L == Len(Desc[t])
           nums == [i \in 1 .. n |-> list[i].num]
<1>1. Desc[t] \in Seq(STRING) /\ Desc[t] # <<>>
  BY SettingsAssumption DEF Types
<1>2. L \in Nat \ {0} /\ DOMAIN Desc[t] = 1 .. L /\ n \in Nat /\ DOMAIN list = 1 .. n
  BY <1>1
<1>3. \A i \in 1 .. n : nums[i] \in 1 .. L
  BY <1>2 DEF Valid
<1>4. \A i, j \in 1 .. n : nums[i] = nums[j] => i = j
  BY <1>2 DEF Valid
<1> HIDE DEF nums
<1>5. nums \in [1 .. n -> 1 .. L]
  BY <1>3 DEF nums
<1>6. /\ IsFiniteSet(1 .. L) /\ Cardinality(1 .. L) = L /\ Cardinality(1 .. n) = n
      /\ IsFiniteSet(2 .. L) /\ Cardinality(2 .. L) = L - 1
  <2>1. 1 \in Int /\ n \in Int /\ L \in Int /\ 2 \in Int
    BY <1>2
  <2>2. /\ IsFiniteSet(1 .. L) /\ Cardinality(1 .. L) = (IF 1 > L THEN 0 ELSE L - 1 + 1)
        /\ Cardinality(1 .. n) = (IF 1 > n THEN 0 ELSE n - 1 + 1)
        /\ IsFiniteSet(2 .. L) /\ Cardinality(2 .. L) = (IF 2 > L THEN 0 ELSE L - 2 + 1)
    BY <2>1, FS_Interval, Zenon
  <2> HIDE DEF L, n
  <2> QED BY <1>2, <2>2
<1> HIDE DEF L, n
<1>7. n <= L
  <2>1. nums \in Injection(1 .. n, 1 .. L)
    BY <1>4, <1>5 DEF Injection, IsInjective
  <2> QED BY <1>6, <2>1, FS_Injection
<1>8. ASSUME \A i \in 1 .. n : list[i].num # 1 PROVE n < L
  <2>1. nums \in [1 .. n -> 2 .. L]
    BY <1>2, <1>5, <1>8 DEF nums
  <2>2. nums \in Injection(1 .. n, 2 .. L)
    BY <1>4, <2>1 DEF Injection, IsInjective
  <2>3. n <= L - 1
    BY <1>6, <2>2, FS_Injection
  <2> QED BY <1>2, <2>3
<1> QED BY <1>2, <1>7, <1>8 DEF n, L


\* A popup made anew is right when the criteria are.
LEMMA NewPopupGood ==
    ASSUME NEW q, IsPopup(q), AllValid(q.user)
    PROVE  GoodPopup(NewPopup(q)) /\ AllValid(NewPopup(q).user)
<1> DEFINE t == q.ctrlType
           r == NewPopup(q)
<1>1. t \in Types /\ q.user[t] \in Seq(Criterion) /\ Valid(t, q.user[t]) /\ Desc[t] \in Seq(STRING)
  BY SettingsAssumption DEF IsPopup, IsUser, AllValid, Types
<1>2. Len(q.user[t]) <= Len(Desc[t]) /\ Len(Desc[t]) \in Nat \ {0}
  BY <1>1, ValidLength
<1>3. /\ r.popType = t /\ r.user = q.user /\ r.pop # <<>>
      /\ q.user[t] = <<>> => /\ Len(r.pop) = 1 /\ r.pop[1].offer = ToSet(Desc[t])
                             /\ r.chosen[t] = {}
      /\ q.user[t] # <<>> => /\ Len(r.pop) = Len(q.user[t])
                             /\ \A i \in 1 .. Len(r.pop) : r.pop[i].offer = {}
  BY NewPopupFields
<1> HIDE DEF r, t
<1>4. CASE q.user[t] = <<>>
  <2>1. Len(q.user[t]) = 0 /\ DOMAIN q.user[t] = {}
    BY <1>4
  <2>2. \A d \in ToSet(Desc[t]) : \E i \in DOMAIN Desc[t] : Desc[t][i] = d
    BY DEF ToSet
  <2>3. Len(r.pop) = 1 /\ r.pop[1].offer = ToSet(Desc[t]) /\ Len(r.user[t]) = 0 /\ DOMAIN r.user[t] = {}
        /\ r.user[t] = <<>>
    BY <1>3, <1>4, <2>1
  <2>4. GoodPopup(r)
    BY <1>2, <1>3, <2>2, <2>3 DEF GoodPopup
  <2> QED BY <1>3, <2>4 DEF AllValid, r
<1>5. CASE q.user[t] # <<>>
  <2>1. Len(q.user[t]) \in 1 .. Len(q.user[t])
    BY <1>1, <1>5
  <2>2. Len(r.pop) = Len(r.user[t]) /\ r.pop[Len(r.pop)].offer = {}
    BY <1>3, <1>5, <2>1
  <2>3. GoodPopup(r)
    BY <1>2, <1>3, <2>2 DEF GoodPopup
  <2> QED BY <1>3, <2>3 DEF AllValid, r
<1> QED BY <1>4, <1>5

LEMMA AllValidSame ==
    ASSUME NEW user, IsUser(user), NEW other, IsUser(other), AllValid(other), SameNums(user, other)
    PROVE  AllValid(user)
<1> SUFFICES ASSUME NEW t \in Types PROVE Valid(t, user[t])
  BY DEF AllValid
<1> QED BY ValidSame DEF AllValid, SameNums, IsUser

\* The criterion d is taken from the boxes, and the next box offers the others.
LEMMA TakeGood ==
    ASSUME NEW q, IsPopup(q), q.pop # <<>>, GoodPopup(q), AllValid(q.user),
           NEW d \in q.pop[Len(q.pop)].offer
    PROVE  LET t == q.popType
               num == IF d \in ToSet(Desc[t]) THEN CHOOSE i \in DOMAIN Desc[t] : Desc[t][i] = d
                                              ELSE Len(Desc[t]) + 1
               r == IF num = 1 THEN Take(q, t, num) ELSE NextBox(Take(q, t, num), t)
           IN  GoodPopup(r) /\ AllValid(r.user)
<1> DEFINE t == q.popType
           L == Len(Desc[t])
           num == IF d \in ToSet(Desc[t]) THEN CHOOSE i \in DOMAIN Desc[t] : Desc[t][i] = d ELSE L + 1
           k == Take(q, t, num)
           n == Len(q.pop)
           list == q.user[t]
           m == Len(list)
<1>1. /\ t \in Types /\ list \in Seq(Criterion) /\ m \in Nat /\ DOMAIN list = 1 .. m
      /\ Desc[t] \in Seq(STRING) /\ L \in Nat \ {0} /\ DOMAIN Desc[t] = 1 .. L /\ n \in Nat \ {0}
      /\ Valid(t, list) /\ Distinct(Desc[t])
  <2>1. t \in Types /\ q.user \in [Types -> Seq(Criterion)] /\ q.pop \in Seq(Box)
    BY DEF IsPopup, IsUser
  <2>2. list \in Seq(Criterion) /\ Valid(t, list)
    BY <2>1 DEF AllValid
  <2>3. Desc[t] \in Seq(STRING) /\ Desc[t] # <<>> /\ Distinct(Desc[t])
    BY <2>1, SettingsAssumption DEF Types
  <2>4. L \in Nat \ {0} /\ DOMAIN Desc[t] = 1 .. L
    BY <2>3
  <2>5. n \in Nat \ {0}
    BY <2>1
  <2>6. m \in Nat /\ DOMAIN list = 1 .. m
    BY <2>2
  <2> QED BY <2>1, <2>2, <2>3, <2>4, <2>5, <2>6
<1>2. /\ n <= L /\ n = m + 1
      /\ \E i \in DOMAIN Desc[t] : Desc[t][i] = d /\ (list # <<>> => i # 1 /\ i \notin q.chosen[t])
      /\ \A i \in DOMAIN list : list[i].num \in q.chosen[t] /\ list[i].num # 1
  BY DEF GoodPopup
<1>3. /\ num \in 1 .. L /\ Desc[t][num] = d /\ (list # <<>> => num # 1 /\ num \notin q.chosen[t])
  <2>1. PICK i \in DOMAIN Desc[t] : Desc[t][i] = d /\ (list # <<>> => i # 1 /\ i \notin q.chosen[t])
    BY <1>2
  <2>2. d \in ToSet(Desc[t])
    BY <2>1 DEF ToSet
  <2>3. num \in DOMAIN Desc[t] /\ Desc[t][num] = d
    BY <2>1, <2>2
  <2>4. num = i
    BY <1>1, <2>1, <2>3 DEF Distinct
  <2> QED BY <1>1, <2>1, <2>3, <2>4
<1> HIDE DEF num
<1>4. /\ IsPopup(k) /\ k.popType = q.popType
      /\ \A u \in Types \ {t} : k.user[u] = q.user[u]
      /\ Len(k.user[t]) = m + 1 /\ k.user[t][m + 1].num = num
      /\ \A i \in 1 .. m : k.user[t][i] = list[i]
      /\ Len(k.pop) = n /\ k.pop[n].offer = {}
      /\ k.chosen[t] = q.chosen[t] \cup {num}
  <2>1. num \in Nat /\ num <= L /\ t \in Types
    BY <1>1, <1>3
  <2> HIDE DEF t
  <2> QED BY <2>1, TakeFields
<1> HIDE DEF k, L, n, t, list
<1>6. k.user[t] \in Seq(Criterion) /\ DOMAIN k.user[t] = 1 .. m + 1
  <2>1. k.user[t] \in Seq(Criterion)
    BY <1>1, <1>4 DEF IsPopup, IsUser
  <2> QED BY <1>4, <2>1
<1>7. \A i \in 1 .. m + 1 : i \in 1 .. m \/ i = m + 1
  BY <1>1
<1>8. Valid(t, k.user[t])
  <2>1. \A i \in 1 .. m : list[i].num \in 1 .. L /\ list[i].num # num /\ list[i].num # 1
    <3>1. ASSUME NEW i \in 1 .. m PROVE list # <<>>
      BY <1>1
    <3> QED BY <1>1, <1>2, <1>3, <3>1 DEF Valid
  <2>2. \A i \in 1 .. m + 1 : k.user[t][i].num \in 1 .. L
    BY <1>3, <1>4, <1>7, <2>1
  <2>3. ASSUME NEW i \in 1 .. m + 1, NEW j \in 1 .. m + 1, k.user[t][i].num = k.user[t][j].num PROVE i = j
    <3>1. CASE i \in 1 .. m /\ j \in 1 .. m
      <4>1. list[i].num = list[j].num
        BY <1>4, <2>3, <3>1
      <4> QED BY <1>1, <3>1, <4>1 DEF Valid
    <3>2. CASE i \in 1 .. m /\ j = m + 1
      BY <1>4, <2>1, <2>3, <3>2
    <3>3. CASE i = m + 1 /\ j \in 1 .. m
      BY <1>4, <2>1, <2>3, <3>3
    <3> QED BY <1>7, <3>1, <3>2, <3>3
  <2>4. ASSUME NEW i \in 1 .. m + 1, k.user[t][i].num = 1 PROVE m + 1 = 1
    <3>1. i = m + 1 /\ num = 1
      BY <1>4, <1>7, <2>1, <2>4
    <3>2. list = <<>>
      BY <1>3, <3>1
    <3> QED BY <1>1, <3>2 DEF list
  <2> QED BY <1>1, <1>4, <1>6, <2>2, <2>3, <2>4 DEF Valid
<1>9. AllValid(k.user)
  BY <1>4, <1>8 DEF AllValid
<1>10. CASE num = 1
  <2>1. GoodPopup(k)
    BY <1>1, <1>2, <1>4 DEF GoodPopup, t, L
  <2> QED BY <1>9, <1>10, <2>1 DEF k, t, num, L
<1>11. CASE num # 1
  <2> DEFINE r == NextBox(k, t)
  <2>1. /\ r.popType = k.popType /\ r.user = k.user /\ r.chosen = k.chosen
        /\ Len(r.pop) = n + 1 /\ r.pop[n + 1].offer = offers(k, t)
    BY <1>1, <1>4, NextBoxFields
  <2> HIDE DEF r
  <2>2. \A i \in 1 .. m + 1 : k.user[t][i].num \in k.chosen[t] /\ k.user[t][i].num # 1
    BY <1>1, <1>2, <1>4, <1>7, <1>11
  <2>3. n + 1 <= L
    <3>1. Len(k.user[t]) < L
      BY <1>1, <1>6, <1>8, <2>2, ValidLength DEF L
    <3> QED BY <1>1, <1>2, <1>4, <3>1
  <2>4. \A e \in offers(k, t) : \E i \in DOMAIN Desc[t] : Desc[t][i] = e /\ i # 1 /\ i \notin k.chosen[t]
    <3>1. \A i \in 2 .. L : i \in 1 .. L /\ i # 1
      BY <1>1
    <3> QED BY <1>1, <3>1 DEF offers, L
  <2>5. r.popType = t /\ Len(r.user[t]) = m + 1 /\ DOMAIN r.user[t] = 1 .. m + 1
    BY <1>4, <1>6, <2>1 DEF t
  <2>6. GoodPopup(r)
    BY <1>2, <2>1, <2>2, <2>3, <2>4, <2>5 DEF GoodPopup, L
  <2>7. AllValid(r.user)
    BY <1>9, <2>1
  <2> QED BY <1>11, <2>6, <2>7 DEF r, k, t, num, L
<1> QED BY <1>10, <1>11


LEMMA SortStepTypes ==
    ASSUME SetInv, SortTypes, DOMAIN h = {"saved", "old", "torn", "other", "did"}, SortStep
    PROVE  /\ IsPopup(p')
           /\ GoodPopup(p) /\ AllValid(p.user) /\ "mixed" \notin h'.did => GoodPopup(p') /\ AllValid(p'.user)
<1> USE DEF Op, Idle, Panel, Keep
<1>0. p.run /\ DOMAIN p = Memory
  BY DEF SetInv, SortStep, sortTypeSelect, makeSortPopup, newSort, closePopup, pickCriterion
<1>1. DOMAIN q0 = Memory /\ \A x \in Memory \ {"fresh", "got"} : q0[x] = p[x]
  BY <1>0, Q0Fields
<1>2. /\ q0.user = p.user /\ q0.pop = p.pop /\ q0.popType = p.popType /\ q0.ctrlType = p.ctrlType
      /\ q0.chosen = p.chosen /\ q0.type = p.type
  BY <1>1 DEF Memory
<1>3. IsPopup(p) /\ IsPopup(q0)
  BY <1>0, <1>1, <1>2 DEF SortTypes, IsPopup
<1>4. GoodPopup(p) => GoodPopup(q0)
  BY <1>2 DEF GoodPopup
<1>5. DOMAIN p' = Memory
  BY SortFrame DEF Same
<1> HIDE DEF q0
<1>6. ASSUME NEW t \in Types, sortTypeSelect(t)
      PROVE  IsPopup(p') /\ (GoodPopup(p) /\ AllValid(p.user) => GoodPopup(p') /\ AllValid(p'.user))
  <2>1. p' = [q0 EXCEPT !.ctrlType = t]
    BY <1>6 DEF sortTypeSelect
  <2>2. /\ p'.user = p.user /\ p'.pop = p.pop /\ p'.popType = p.popType /\ p'.ctrlType = t
        /\ p'.chosen = p.chosen /\ p'.type = p.type
    BY <1>1, <1>2, <2>1 DEF Memory
  <2> QED BY <1>3, <1>5, <2>2 DEF IsPopup, GoodPopup
<1>7. ASSUME NEW i \in DOMAIN p.pop, radio(i)
      PROVE  IsPopup(p') /\ (GoodPopup(p) /\ AllValid(p.user) => GoodPopup(p') /\ AllValid(p'.user))
  <2> DEFINE box == [p.pop[i] EXCEPT !.dir = ~@]
  <2>1. p' = [q0 EXCEPT !.pop = [p.pop EXCEPT ![i] = box]]
    BY <1>1, <1>2, <1>7 DEF radio, Memory
  <2>2. p.pop \in Seq(Box) /\ p.pop[i] \in Box
    BY <1>3 DEF IsPopup
  <2>3. box \in Box /\ box.offer = p.pop[i].offer
    BY <2>2 DEF Box
  <2> HIDE DEF box
  <2>4. /\ p'.user = p.user /\ p'.pop = [p.pop EXCEPT ![i] = box] /\ p'.popType = p.popType
        /\ p'.ctrlType = p.ctrlType /\ p'.chosen = p.chosen /\ p'.type = p.type
    BY <1>1, <1>2, <2>1 DEF Memory
  <2>5. /\ p'.pop \in Seq(Box) /\ Len(p'.pop) = Len(p.pop)
        /\ \A k \in DOMAIN p.pop : p'.pop[k].offer = p.pop[k].offer
    BY <2>2, <2>3, <2>4
  <2>6. p.pop # <<>> /\ Len(p.pop) \in DOMAIN p.pop
    BY <2>2, <1>7
  <2>7. IsPopup(p')
    BY <1>3, <1>5, <2>4, <2>5 DEF IsPopup
  <2>8. p'.pop[Len(p'.pop)].offer = p.pop[Len(p.pop)].offer
    BY <2>5, <2>6
  <2>9. GoodPopup(p) => GoodPopup(p')
    BY <2>4, <2>5, <2>6, <2>8 DEF GoodPopup
  <2> QED BY <2>4, <2>7, <2>9
<1>8. ASSUME NEW q, IsPopup(q), AllValid(p.user) => AllValid(q.user), p' = NewPopup(q)
      PROVE  IsPopup(p') /\ (AllValid(p.user) => GoodPopup(p') /\ AllValid(p'.user))
  BY <1>8, NewPopupFields, NewPopupGood
<1>9. ASSUME NEW q, IsPopup(q), AllValid(p.user) => AllValid(q.user), NEW r \in delSort(q)
      PROVE  IsPopup(r) /\ r.pop = <<>> /\ (AllValid(p.user) => AllValid(r.user))
  BY <1>9, DelSortFields, AllValidSame DEF IsPopup
<1>10. ASSUME makeSortPopup
       PROVE  IsPopup(p') /\ (AllValid(p.user) => GoodPopup(p') /\ AllValid(p'.user))
  <2>1. PICK q \in (IF p.pop = <<>> THEN {q0} ELSE delSort(q0)) : p' = NewPopup(q)
    BY <1>10 DEF makeSortPopup
  <2>2. IsPopup(q) /\ (AllValid(p.user) => AllValid(q.user))
    BY <1>2, <1>3, <1>9, <2>1
  <2> QED BY <1>8, <2>1, <2>2
<1>11. ASSUME newSort
       PROVE  IsPopup(p') /\ (AllValid(p.user) => GoodPopup(p') /\ AllValid(p'.user))
  <2> DEFINE q1 == [q0 EXCEPT !.user[p.ctrlType] = <<>>]
  <2>1. PICK q \in delSort(q1) : p' = NewPopup(q)
    BY <1>11 DEF newSort
  <2>2. /\ DOMAIN q1 = Memory /\ q1.user = [p.user EXCEPT ![p.ctrlType] = <<>>] /\ q1.pop = p.pop
        /\ q1.popType = p.popType /\ q1.ctrlType = p.ctrlType /\ q1.chosen = p.chosen /\ q1.type = p.type
    BY <1>1, <1>2 DEF Memory
  <2> HIDE DEF q1
  <2>3. <<>> \in Seq(Criterion) /\ DOMAIN <<>> = {}
    OBVIOUS
  <2>4. IsPopup(q1)
    BY <1>3, <2>2, <2>3 DEF IsPopup, IsUser
  <2>5. AllValid(p.user) => AllValid(q1.user)
    <3>1. \A t \in Types : q1.user[t] = p.user[t] \/ q1.user[t] = <<>>
      BY <1>3, <2>2 DEF IsPopup, IsUser
    <3>2. \A t \in Types : Valid(t, <<>>)
      BY <2>3 DEF Valid
    <3> QED BY <3>1, <3>2 DEF AllValid
  <2>6. IsPopup(q) /\ (AllValid(p.user) => AllValid(q.user))
    BY <1>9, <2>1, <2>4, <2>5
  <2> QED BY <1>8, <2>1, <2>6
<1>12. ASSUME closePopup
       PROVE  IsPopup(p') /\ (AllValid(p.user) => GoodPopup(p') /\ AllValid(p'.user))
  <2>1. p' \in delSort(q0)
    BY <1>12 DEF closePopup
  <2>2. IsPopup(p') /\ p'.pop = <<>> /\ (AllValid(p.user) => AllValid(p'.user))
    BY <1>2, <1>3, <1>9, <2>1
  <2> QED BY <2>2 DEF GoodPopup
<1>13. ASSUME pickCriterion
       PROVE  /\ IsPopup(p')
              /\ GoodPopup(p) /\ AllValid(p.user) /\ "mixed" \notin h'.did =>
                    GoodPopup(p') /\ AllValid(p'.user)
  <2> DEFINE t == p.ctrlType
  <2>1. PICK d \in p.pop[Len(p.pop)].offer : sortCritCBack(d)
    BY <1>13 DEF pickCriterion
  <2>2. p.pop # <<>> /\ Mixing
    BY <1>13 DEF pickCriterion
  <2> DEFINE num == IF d \in ToSet(Desc[t]) THEN CHOOSE i \in DOMAIN Desc[t] : Desc[t][i] = d
                                            ELSE Len(Desc[t]) + 1
  <2>3. p' = IF num = 1 THEN Take(q0, t, num) ELSE NextBox(Take(q0, t, num), t)
    BY <2>1 DEF sortCritCBack
  <2>4. t \in Types /\ num \in Nat
    <3>1. t \in Types
      BY <1>3 DEF IsPopup
    <3>2. DOMAIN Desc[t] \subseteq Nat /\ Len(Desc[t]) + 1 \in Nat
      BY <3>1, SettingsAssumption DEF Types
    <3> QED BY <3>1, <3>2 DEF ToSet
  <2> HIDE DEF num
  <2>5. IsPopup(p')
    <3>1. IsPopup(Take(q0, t, num))
      BY <1>2, <1>3, <2>2, <2>4, TakeFields
    <3>2. IsPopup(NextBox(Take(q0, t, num), t))
      BY <2>4, <3>1, NextBoxFields
    <3> QED BY <2>3, <3>1, <3>2
  <2>6. ASSUME GoodPopup(p), AllValid(p.user), "mixed" \notin h'.did
        PROVE  GoodPopup(p') /\ AllValid(p'.user)
    <3>1. p.popType = p.ctrlType
      BY <2>2, <2>6 DEF Mixing
    <3>2. q0.pop # <<>> /\ GoodPopup(q0) /\ AllValid(q0.user) /\ d \in q0.pop[Len(q0.pop)].offer /\ t = q0.popType
      BY <1>2, <1>4, <2>1, <2>2, <2>6, <3>1
    <3> HIDE DEF t
    <3> QED BY <1>3, <2>3, <3>2, TakeGood DEF num
  <2> QED BY <2>5, <2>6
<1> QED BY <1>6, <1>7, <1>10, <1>11, <1>12, <1>13 DEF SortStep


LEMMA SortTypesStep ==
    ASSUME TypesInv, [Next]_vars PROVE SortTypes'
<1>1. SetInv /\ FileInv /\ SortTypes /\ DOMAIN h = {"saved", "old", "torn", "other", "did"}
  BY DEF TypesInv
<1>2. CASE UNCHANGED <<file, fdb, p, saving, h>> \/ Other \/ add_record
  BY <1>1, <1>2 DEF SortTypes, Other, add_record
<1>3. CASE Start
  <2>1. IsUser(StoredSorts(Unsorted)) /\ p'.run /\ p'.user = StoredSorts(Unsorted) /\ p'.type = "PQLSORT"
    BY <1>1, <1>3, FreshTypes, StoredSortsTypes, StartFrame
  <2>2. /\ p'.pop = Fresh.pop /\ p'.ctrlType = Fresh.ctrlType /\ p'.popType = Fresh.popType
        /\ p'.chosen = Fresh.chosen
    BY <1>3, StartFrame DEF Memory, ReadFields
  <2>3. "PQLSORT" \in Types /\ <<>> \in Seq(Box)
    BY SettingsAssumption DEF Types
  <2> QED BY <2>1, <2>2, <2>3 DEF SortTypes, Fresh
<1>4. CASE Stop
  BY <1>4, FreshFields DEF Stop, SortTypes
<1>5. CASE save_defaults
  <2>1. /\ p.run /\ p'.user = p.user /\ p'.pop = p.pop /\ p'.popType = p.popType /\ p'.chosen = p.chosen
        /\ p'.type = p.ctrlType /\ p'.ctrlType = p.ctrlType
    BY <1>1, <1>5, SaveFrame DEF Same, Memory, SetFields
  <2> QED BY <1>1, <2>1 DEF SortTypes
<1>6. CASE restore_settings
  <2>1. p.run /\ p'.user = StoredSorts(p.user) /\ p'.type = "PQLSORT" /\ p'.ctrlType = "PQLSORT"
        /\ \A x \in Memory \ (SetFields \cup ReadFields) : p'[x] = p[x]
    BY <1>1, <1>6, RestoreFrame DEF Same
  <2>3. p'.pop = p.pop /\ p'.popType = p.popType /\ p'.chosen = p.chosen
    BY <2>1 DEF Memory, SetFields, ReadFields
  <2>2. "PQLSORT" \in Types
    BY SettingsAssumption DEF Types
  <2> QED BY <1>1, <2>1, <2>2, <2>3, StoredSortsTypes DEF SortTypes
<1>7. CASE PanelStep
  <2>1. p.run /\ p'.user = p.user /\ p'.pop = p.pop /\ p'.popType = p.popType /\ p'.chosen = p.chosen
    BY <1>1, <1>7, PanelFrame DEF Same, Memory, SetFields
  <2>2. p'.type \in {p.type, p.ctrlType} /\ p'.ctrlType \in {p.type, p.ctrlType}
    BY <1>1, <1>7, PanelFrame
  <2> QED BY <1>1, <2>1, <2>2 DEF SortTypes
<1>8. CASE SortStep
  BY <1>1, <1>8, SortStepTypes DEF SortTypes, IsPopup
<1>9. CASE FilterStep
  <2>1. /\ p.run /\ p'.user = p.user /\ p'.pop = p.pop /\ p'.popType = p.popType /\ p'.chosen = p.chosen
        /\ p'.type = p.type /\ p'.ctrlType = p.ctrlType
    BY <1>1, <1>9, FilterFrame DEF Same, Memory, FilterFields
  <2> QED BY <1>1, <2>1 DEF SortTypes
<1> QED BY <1>2, <1>3, <1>4, <1>5, <1>6, <1>7, <1>8, <1>9, SettingsSteps


-----------------------------------------------------------------------------
(* The dialogs and boxes of the filters, action by action.                 *)

\* A step after which these fields are as before.
Kept(S) == p.run /\ p'.run /\ \A x \in S : p'[x] = p[x]

LEMMA SelectFields ==
    ASSUME SetInv, FilterTypes, NEW i \in DOMAIN p.cbo, fltrSelect(i)
    PROVE  /\ Kept({"filts", "live", "setGen", "cbo", "chgd", "picked", "panel"}) /\ UNCHANGED <<fdb, h>>
           /\ p.dlg = "closed" /\ p'.got = <<>>
           /\ DOMAIN p'.tf = {"idx", "on"} /\ p'.tf.idx = i
           /\ \/ /\ p'.dlg = "list" /\ ~p'.tf.on /\ p'.name = NoName /\ p'.fsel = p.fsel /\ p'.made
                 /\ p.made => p'.rows = p.rows /\ p'.fname = p.fname
                 /\ ~p.made => /\ ~p'.fname
                               /\ p'.rows = RowsOf(p.filts, p.set)
              \/ /\ i # Len(p.filts) + 1 /\ p'.want = p.cbo[i]
                 /\ Kept({"rows", "made", "name", "fname"})
                 /\ \/ i = Len(p.filts) /\ p'.fsel = i /\ p'.dlg = "custom"
                    \/ p'.fsel = p.fsel /\ p'.dlg = "closed"
<1> DEFINE q == [q0 EXCEPT !.tf.idx = i, !.want = p.cbo[i]]
           qn == [q EXCEPT !.tf.on = FALSE, !.want = NoName]
<1>1. /\ p.run /\ DOMAIN p = Memory /\ UNCHANGED <<fdb, h>> /\ p.dlg = "closed"
      /\ p' = CASE i = Len(p.filts) + 1 -> displayList(qn)
                [] i = Len(p.filts)     -> [q EXCEPT !.dlg = "custom", !.fsel = i]
                [] OTHER                -> [q EXCEPT !.tf.on = TRUE, !.idle = TRUE]
  BY DEF SetInv, fltrSelect, Idle, Keep
<1>2. DOMAIN q0 = Memory /\ q0.fresh = "no" /\ q0.got = <<>> /\ \A x \in Memory \ {"fresh", "got"} : q0[x] = p[x]
  BY <1>1, Q0Fields
<1> HIDE DEF q0
<1>3. DOMAIN p.tf = {"idx", "on"} /\ q0.tf = p.tf
  BY <1>1, <1>2 DEF FilterTypes, Memory
<1>4. /\ DOMAIN q = Memory /\ q.got = <<>> /\ q.want = p.cbo[i] /\ DOMAIN q.tf = {"idx", "on"} /\ q.tf.idx = i
      /\ \A x \in Memory \ {"fresh", "got", "tf", "want"} : q[x] = p[x]
  BY <1>2, <1>3 DEF Memory
<1> HIDE DEF q
<1>5. /\ DOMAIN qn = Memory /\ qn.got = <<>> /\ DOMAIN qn.tf = {"idx", "on"} /\ qn.tf.idx = i /\ qn.tf.on = FALSE
      /\ \A x \in Memory \ {"fresh", "got", "tf", "want"} : qn[x] = p[x]
  BY <1>4 DEF Memory
<1> HIDE DEF qn
<1>6. CASE i = Len(p.filts) + 1
  <2>1. p' = displayList(qn)
    BY <1>1, <1>6
  <2>2. qn.filts = p.filts /\ qn.set = p.set /\ qn.made = p.made
    BY <1>5 DEF Memory
  <2>3. CASE p.made
    <3>1. p' = [qn EXCEPT !.dlg = "list", !.name = NoName]
      BY <2>1, <2>2, <2>3 DEF displayList
    <3>2. /\ DOMAIN p' = Memory /\ p'.dlg = "list" /\ p'.name = NoName
          /\ \A x \in Memory \ {"dlg", "name"} : p'[x] = qn[x]
      BY <1>5, <3>1 DEF Memory
    <3>6. \A x \in Memory \ {"fresh", "got", "tf", "want", "dlg", "name"} : p'[x] = p[x]
      BY <1>5, <3>2
    <3>3. Kept({"filts", "live", "setGen", "cbo", "chgd", "picked", "panel"})
      BY <1>1, <3>6 DEF Kept, Memory
    <3>4. p'.made = p.made /\ p'.rows = p.rows /\ p'.fname = p.fname /\ p'.fsel = p.fsel
      BY <1>5, <3>2 DEF Memory
    <3>5. p'.tf = qn.tf /\ p'.got = <<>>
      BY <1>5, <3>2 DEF Memory
    <3> QED BY <1>1, <1>5, <2>3, <3>2, <3>3, <3>4, <3>5
  <2>4. CASE ~p.made
    <3> DEFINE q1 == add_fltrs(qn)
    <3>1. DOMAIN q1 = Memory /\ q1.rows = RowsOf(p.filts, p.set) /\ \A x \in Memory \ {"rows"} : q1[x] = qn[x]
      BY <1>5, <2>2 DEF add_fltrs, RowsOf, Memory
    <3>2. p' = [[q1 EXCEPT !.made = TRUE, !.sv = FALSE, !.fname = FALSE, !.del = FALSE,
                           !.agcTab = qn.set.DSPMD # "TRACEMODE"] EXCEPT !.dlg = "list", !.name = NoName]
      BY <2>1, <2>2, <2>4 DEF displayList
    <3> HIDE DEF q1
    <3>3. /\ DOMAIN p' = Memory /\ p'.dlg = "list" /\ p'.name = NoName /\ p'.made /\ p'.fname = FALSE
          /\ \A x \in Memory \ {"dlg", "name", "made", "sv", "fname", "del", "agcTab"} : p'[x] = q1[x]
      BY <3>1, <3>2 DEF Memory
    <3>4. \A x \in Memory \ {"dlg", "name", "made", "sv", "fname", "del", "agcTab", "rows"} : p'[x] = qn[x]
      BY <3>1, <3>3
    <3>5. Kept({"filts", "live", "setGen", "cbo", "chgd", "picked", "panel"})
      BY ZenonT(40), <1>1, <1>5, <3>4 DEF Kept, Memory
    <3>6. p'.rows = RowsOf(p.filts, p.set) /\ p'.got = <<>> /\ p'.tf = qn.tf /\ p'.fsel = p.fsel
      BY <1>5, <3>1, <3>3, <3>4 DEF Memory
    <3>7. UNCHANGED <<fdb, h>> /\ p.dlg = "closed" /\ DOMAIN p'.tf = {"idx", "on"} /\ p'.tf.idx = i /\ ~p'.tf.on
      BY <1>1, <1>5, <3>6
    <3>8. p'.dlg = "list" /\ p'.name = NoName /\ p'.made /\ ~p'.fname
      BY <3>3
    <3> QED BY <2>4, <3>5, <3>6, <3>7, <3>8
  <2> QED BY <2>3, <2>4
<1>7. CASE i # Len(p.filts) + 1 /\ i = Len(p.filts)
  <2>1. p' = [q EXCEPT !.dlg = "custom", !.fsel = i]
    BY <1>1, <1>7
  <2>2. /\ DOMAIN p' = Memory /\ p'.dlg = "custom" /\ p'.fsel = i
        /\ \A x \in Memory \ {"dlg", "fsel"} : p'[x] = q[x]
    BY <1>4, <2>1 DEF Memory
  <2>3. \A x \in Memory \ {"fresh", "got", "tf", "want", "dlg", "fsel"} : p'[x] = p[x]
    BY <1>4, <2>2
  <2>4. /\ Kept({"filts", "live", "setGen", "cbo", "chgd", "picked", "panel"})
        /\ Kept({"rows", "made", "name", "fname"})
    BY <1>1, <2>3 DEF Kept, Memory
  <2>5. p'.tf = q.tf /\ p'.got = <<>> /\ p'.want = p.cbo[i]
    BY <1>4, <2>2 DEF Memory
  <2> QED BY <1>1, <1>4, <1>7, <2>2, <2>4, <2>5
<1>8. CASE i # Len(p.filts) + 1 /\ i # Len(p.filts)
  <2>1. p' = [q EXCEPT !.tf.on = TRUE, !.idle = TRUE]
    BY <1>1, <1>8
  <2>2. /\ DOMAIN p' = Memory /\ DOMAIN p'.tf = {"idx", "on"} /\ p'.tf.idx = i
        /\ \A x \in Memory \ {"tf", "idle"} : p'[x] = q[x]
    BY <1>4, <2>1 DEF Memory
  <2>3. \A x \in Memory \ {"fresh", "got", "tf", "want", "idle"} : p'[x] = p[x]
    BY <1>4, <2>2
  <2>4. /\ Kept({"filts", "live", "setGen", "cbo", "chgd", "picked", "panel"})
        /\ Kept({"rows", "made", "name", "fname"})
    BY <1>1, <2>3 DEF Kept, Memory
  <2>5. p'.got = <<>> /\ p'.want = p.cbo[i]
    BY <1>4, <2>2 DEF Memory
  <2>6. p'.dlg = "closed" /\ p'.fsel = p.fsel
    BY <1>1, <2>3 DEF Memory
  <2> QED BY <1>1, <1>8, <2>2, <2>4, <2>5, <2>6
<1> QED BY <1>6, <1>7, <1>8


LEMMA IdleFields ==
    ASSUME SetInv, FilterTypes, idleFilter
    PROVE  /\ Kept({"filts", "live", "setGen", "cbo", "chgd", "picked", "panel", "rows", "made", "name",
                    "fname", "fsel", "want", "dlg"})
           /\ UNCHANGED <<fdb, h>>
           /\ DOMAIN p'.tf = {"idx", "on"} /\ p'.tf.idx = p.tf.idx /\ (p'.tf.on => p.tf.on)
           /\ p'.got = <<>> \/ (p.tf.on /\ p.tf.idx # 0 /\ p'.got = <<p.want, p.tf.idx>>)
<1>1. /\ p.run /\ DOMAIN p = Memory /\ UNCHANGED <<fdb, h>>
      /\ p' = IF p.tf.idx = 0 THEN [q0 EXCEPT !.idle = FALSE, !.tf.on = FALSE]
              ELSE IF p.tf.on THEN [q0 EXCEPT !.idle = FALSE, !.got = <<p.want, p.tf.idx>>]
              ELSE [q0 EXCEPT !.idle = FALSE]
  BY DEF SetInv, idleFilter
<1>2. DOMAIN q0 = Memory /\ q0.got = <<>> /\ \A x \in Memory \ {"fresh", "got"} : q0[x] = p[x]
  BY <1>1, Q0Fields
<1> HIDE DEF q0
<1>3. DOMAIN p.tf = {"idx", "on"} /\ q0.tf = p.tf
  BY <1>1, <1>2 DEF FilterTypes, Memory
<1>4. DOMAIN p' = Memory /\ \A x \in Memory \ {"idle", "tf", "got"} : p'[x] = q0[x]
  BY <1>1, <1>2 DEF Memory
<1>5. \A x \in Memory \ {"idle", "tf", "got", "fresh"} : p'[x] = p[x]
  BY <1>2, <1>4
<1>6. Kept({"filts", "live", "setGen", "cbo", "chgd", "picked", "panel", "rows", "made", "name",
            "fname", "fsel", "want", "dlg"})
  BY <1>1, <1>5 DEF Kept, Memory
<1>7. DOMAIN p'.tf = {"idx", "on"} /\ p'.tf.idx = p.tf.idx /\ (p'.tf.on => p.tf.on)
  BY <1>1, <1>2, <1>3 DEF Memory
<1>8. p'.got = <<>> \/ (p.tf.on /\ p.tf.idx # 0 /\ p'.got = <<p.want, p.tf.idx>>)
  BY <1>1, <1>2, <1>3 DEF Memory
<1> QED BY <1>1, <1>6, <1>7, <1>8

LEMMA RowFields ==
    ASSUME SetInv, p.run, NEW r \in DOMAIN p.rows, NEW edit \in BOOLEAN, fltrInfo(r, edit)
    PROVE  /\ Kept({"filts", "live", "setGen", "cbo", "chgd", "panel", "rows", "made", "want", "dlg", "tf"})
           /\ UNCHANGED <<fdb, h>> /\ p.dlg = "list" /\ p'.got = <<>>
           /\ r \in DOMAIN p.filts /\ p'.fsel = r /\ p'.name = p.filts[r] /\ ~p'.fname /\ p'.picked = p.rows[r]
<1>1. /\ p.run /\ DOMAIN p = Memory /\ UNCHANGED <<fdb, h>> /\ p.dlg = "list" /\ r \in DOMAIN p.filts
      /\ p' = [q0 EXCEPT !.fsel = r, !.name = p.filts[r], !.sv = edit, !.new = TRUE, !.del = TRUE,
                         !.fname = FALSE, !.picked = p.rows[r]]
  BY DEF SetInv, fltrInfo, Dialog, Keep
<1>2. DOMAIN q0 = Memory /\ q0.got = <<>> /\ \A x \in Memory \ {"fresh", "got"} : q0[x] = p[x]
  BY <1>1, Q0Fields
<1> HIDE DEF q0
<1>3. /\ DOMAIN p' = Memory /\ p'.fsel = r /\ p'.name = p.filts[r] /\ ~p'.fname /\ p'.picked = p.rows[r]
      /\ \A x \in Memory \ {"fsel", "name", "sv", "new", "del", "fname", "picked"} : p'[x] = q0[x]
  BY <1>1, <1>2 DEF Memory
<1>4. \A x \in Memory \ {"fsel", "name", "sv", "new", "del", "fname", "picked", "fresh", "got"} : p'[x] = p[x]
  BY <1>2, <1>3
<1>5. Kept({"filts", "live", "setGen", "cbo", "chgd", "panel", "rows", "made", "want", "dlg", "tf"})
  BY <1>1, <1>4 DEF Kept, Memory
<1>6. p'.got = <<>>
  BY <1>2, <1>3 DEF Memory
<1> QED BY <1>1, <1>3, <1>5, <1>6

LEMMA NewFields ==
    ASSUME SetInv, FLTRNEW
    PROVE  /\ Kept({"filts", "live", "setGen", "cbo", "chgd", "panel", "rows", "made", "want", "dlg", "tf"})
           /\ UNCHANGED <<fdb, h>> /\ p.dlg = "list" /\ p'.got = <<>>
           /\ p'.name = NoName /\ p'.picked = NoName
<1>1. /\ p.run /\ DOMAIN p = Memory /\ UNCHANGED <<fdb, h>> /\ p.dlg = "list"
      /\ p' = [q0 EXCEPT !.fsel = 0, !.name = NoName, !.sv = TRUE, !.new = FALSE, !.del = FALSE,
                         !.fname = TRUE, !.picked = NoName]
  BY DEF SetInv, FLTRNEW, Dialog, Keep
<1>2. DOMAIN q0 = Memory /\ q0.got = <<>> /\ \A x \in Memory \ {"fresh", "got"} : q0[x] = p[x]
  BY <1>1, Q0Fields
<1> HIDE DEF q0
<1>3. /\ DOMAIN p' = Memory /\ p'.name = NoName /\ p'.picked = NoName
      /\ \A x \in Memory \ {"fsel", "name", "sv", "new", "del", "fname", "picked"} : p'[x] = q0[x]
  BY <1>1, <1>2 DEF Memory
<1>4. \A x \in Memory \ {"fsel", "name", "sv", "new", "del", "fname", "picked", "fresh", "got"} : p'[x] = p[x]
  BY <1>2, <1>3
<1>5. Kept({"filts", "live", "setGen", "cbo", "chgd", "panel", "rows", "made", "want", "dlg", "tf"})
  BY <1>1, <1>4 DEF Kept, Memory
<1>6. p'.got = <<>>
  BY <1>2, <1>3 DEF Memory
<1> QED BY <1>1, <1>3, <1>5, <1>6

\* After a filter was saved or deleted the array is read again.
Reread ==
    /\ p'.filts = FiltersOf(p.set)
    /\ p'.rows = RowsOf(p'.filts, p.set)
    /\ p'.live = p.live + 1 /\ p'.setGen = p.live + 1 /\ p'.tf = [idx |-> 0, on |-> FALSE]
    /\ p'.chgd = TRUE /\ p'.name = NoName /\ p'.got = <<>>

LEMMA SavedFields ==
    ASSUME SetInv, NEW n \in FilterNames \cup {NoName}, FLTRSAVE(n)
    PROVE  /\ Kept({"cbo", "panel", "fsel", "made", "want", "dlg", "picked"}) /\ Reread /\ ~p'.fname
           /\ p.dlg = "list" /\ fdb' = fdb \cup {n} /\ (~p.fname => n = p.name)
           /\ h' = [h EXCEPT !.did = @ \cup (IF p.panel THEN {"panelOpen"} ELSE {})
                                       \cup (IF n = NoName THEN {"blank"} ELSE {})]
<1> DEFINE q == [q0 EXCEPT !.sv = FALSE, !.new = TRUE, !.fname = FALSE]
<1>1. /\ p.run /\ DOMAIN p = Memory /\ p.dlg = "list" /\ fdb' = fdb \cup {n} /\ (~p.fname => n = p.name)
      /\ p' = Changed(q)
      /\ h' = [h EXCEPT !.did = @ \cup (IF p.panel THEN {"panelOpen"} ELSE {})
                                  \cup (IF n = NoName THEN {"blank"} ELSE {})]
  BY DEF SetInv, FLTRSAVE, Dialog
<1>2. DOMAIN q0 = Memory /\ q0.got = <<>> /\ \A x \in Memory \ {"fresh", "got"} : q0[x] = p[x]
  BY <1>1, Q0Fields
<1> HIDE DEF q0
<1>3. /\ DOMAIN q = Memory /\ q.fname = FALSE /\ q.got = <<>>
      /\ \A x \in Memory \ {"sv", "new", "fname", "fresh", "got"} : q[x] = p[x]
  BY <1>2 DEF Memory
<1> HIDE DEF q
<1>4. q.set = p.set /\ q.live = p.live
  BY <1>3 DEF Memory
<1>5. /\ DOMAIN p' = Memory
      /\ \A x \in Memory \ {"filts", "live", "setGen", "tf", "rows", "chgd", "name"} : p'[x] = q[x]
      /\ p'.filts = FiltersOf(p.set)
      /\ p'.live = p.live + 1 /\ p'.setGen = p.live + 1
      /\ p'.tf = [idx |-> 0, on |-> FALSE] /\ p'.chgd = TRUE /\ p'.name = NoName
      /\ p'.rows = RowsOf(p'.filts, p.set)
  <2>1. DOMAIN q = Memory /\ p' = Changed(q)
    BY <1>1, <1>3
  <2>2. /\ DOMAIN Changed(q) = Memory
        /\ \A x \in Memory \ {"filts", "live", "setGen", "tf", "rows", "chgd", "name"} : Changed(q)[x] = q[x]
        /\ Changed(q).filts = FiltersOf(q.set)
        /\ Changed(q).live = q.live + 1 /\ Changed(q).setGen = q.live + 1
        /\ Changed(q).tf = [idx |-> 0, on |-> FALSE] /\ Changed(q).chgd = TRUE /\ Changed(q).name = NoName
        /\ Changed(q).rows = RowsOf(Changed(q).filts, q.set)
    BY <2>1, ChangedFields
  <2> QED BY <1>4, <2>1, <2>2
<1>6. \A x \in Memory \ {"filts", "live", "setGen", "tf", "rows", "chgd", "name", "sv", "new", "fname",
                         "fresh", "got"} : p'[x] = p[x]
  BY <1>3, <1>5
<1>7. Kept({"cbo", "panel", "fsel", "made", "want", "dlg", "picked"})
  BY <1>1, <1>6 DEF Kept, Memory
<1>8. p'.fname = FALSE /\ p'.got = <<>>
  BY <1>3, <1>5 DEF Memory
<1> QED BY <1>1, <1>5, <1>7, <1>8 DEF Reread

LEMMA DeletedFields ==
    ASSUME SetInv, FLTRDEL
    PROVE  /\ Kept({"cbo", "panel", "fsel", "made", "want", "dlg", "fname"}) /\ Reread /\ p'.picked = NoName
           /\ p.dlg = "list" /\ p.fsel \in DOMAIN p.filts /\ fdb' = fdb \ {p.filts[p.fsel]}
           /\ h' = IF p.panel THEN [h EXCEPT !.did = @ \cup {"panelOpen"}] ELSE h
<1>1. /\ p.run /\ DOMAIN p = Memory /\ p.dlg = "list" /\ p.fsel \in DOMAIN p.filts
      /\ fdb' = fdb \ {p.filts[p.fsel]} /\ p' = [Changed(q0) EXCEPT !.picked = NoName]
      /\ h' = IF p.panel THEN [h EXCEPT !.did = @ \cup {"panelOpen"}] ELSE h
  BY DEF SetInv, FLTRDEL, Dialog, Deleted
<1>2. DOMAIN q0 = Memory /\ q0.got = <<>> /\ \A x \in Memory \ {"fresh", "got"} : q0[x] = p[x]
  BY <1>1, Q0Fields
<1> HIDE DEF q0
<1>3. q0.set = p.set /\ q0.live = p.live
  BY <1>2 DEF Memory
<1> DEFINE q == Changed(q0)
<1>4. /\ DOMAIN q = Memory
      /\ \A x \in Memory \ {"filts", "live", "setGen", "tf", "rows", "chgd", "name"} : q[x] = q0[x]
      /\ q.filts = FiltersOf(p.set)
      /\ q.live = p.live + 1 /\ q.setGen = p.live + 1
      /\ q.tf = [idx |-> 0, on |-> FALSE] /\ q.chgd = TRUE /\ q.name = NoName
      /\ q.rows = RowsOf(q.filts, p.set)
  BY ZenonT(40), <1>1, <1>2, <1>3, ChangedFields
<1> HIDE DEF q
<1>5. DOMAIN p' = Memory /\ p'.picked = NoName /\ \A x \in Memory \ {"picked"} : p'[x] = q[x]
  BY <1>1, <1>4 DEF q, Memory
<1>6. \A x \in Memory \ {"filts", "live", "setGen", "tf", "rows", "chgd", "name", "picked", "fresh", "got"} : p'[x] = p[x]
  BY <1>2, <1>4, <1>5
<1>7. Kept({"cbo", "panel", "fsel", "made", "want", "dlg", "fname"})
  BY <1>1, <1>6 DEF Kept, Memory
<1>8. /\ p'.filts = q.filts /\ p'.rows = q.rows /\ p'.live = q.live /\ p'.setGen = q.setGen /\ p'.tf = q.tf
      /\ p'.chgd = q.chgd /\ p'.name = q.name
  BY <1>5 DEF Memory
<1>9. p'.got = <<>>
  BY <1>2, <1>4, <1>5 DEF Memory
<1> QED BY <1>1, <1>4, <1>5, <1>7, <1>8, <1>9 DEF Reread


LEMMA DoneFields ==
    ASSUME SetInv, FLTRLSTDONE
    PROVE  /\ Kept({"filts", "live", "setGen", "panel", "rows", "made", "name", "fname", "fsel", "picked"})
           /\ UNCHANGED <<fdb, h>> /\ p'.dlg = "closed" /\ p'.got = <<>>
           /\ DOMAIN p'.tf = {"idx", "on"} /\ p'.tf.idx = 0 /\ ~p'.tf.on /\ ~p'.chgd
           /\ p.chgd => p'.cbo = p.filts \o <<Edit>>
           /\ ~p.chgd => p'.cbo = p.cbo
<1> DEFINE q == IF p.chgd THEN setFiltCbos([q0 EXCEPT !.chgd = FALSE]) ELSE q0
<1>1. p.run /\ DOMAIN p = Memory /\ UNCHANGED <<fdb, h>> /\ p' = [ResetCombos(q) EXCEPT !.dlg = "closed", !.tf.on = FALSE]
  BY DEF SetInv, FLTRLSTDONE, Dialog, Keep
<1>2. DOMAIN q0 = Memory /\ q0.got = <<>> /\ \A x \in Memory \ {"fresh", "got"} : q0[x] = p[x]
  BY <1>1, Q0Fields
<1>3. q0.filts = p.filts /\ q0.cbo = p.cbo /\ q0.chgd = p.chgd
  BY <1>2 DEF Memory
<1> HIDE DEF q0
<1>4. /\ DOMAIN q = Memory /\ q.got = <<>> /\ ~q.chgd
      /\ p.chgd => q.cbo = p.filts \o <<Edit>>
      /\ ~p.chgd => q.cbo = p.cbo
      /\ \A x \in Memory \ {"fresh", "got", "cbo", "chgd"} : q[x] = p[x]
  <2>1. CASE p.chgd
    <3>1. q = [[q0 EXCEPT !.chgd = FALSE] EXCEPT !.cbo = p.filts \o <<Edit>>]
      BY <1>2, <1>3, <2>1 DEF setFiltCbos, Memory
    <3> HIDE DEF q
    <3> QED BY <1>2, <2>1, <3>1 DEF Memory
  <2>2. CASE ~p.chgd
    <3>1. q = q0
      BY <2>2
    <3> HIDE DEF q
    <3> QED BY <1>2, <1>3, <2>2, <3>1
  <2> QED BY <2>1, <2>2
<1> HIDE DEF q
<1>5. p' = [[q EXCEPT !.tf = [idx |-> 0, on |-> TRUE], !.idle = TRUE, !.want = NoName]
               EXCEPT !.dlg = "closed", !.tf.on = FALSE]
  BY <1>1 DEF ResetCombos
<1>6. /\ DOMAIN p' = Memory /\ p'.dlg = "closed" /\ DOMAIN p'.tf = {"idx", "on"} /\ p'.tf.idx = 0 /\ ~p'.tf.on
      /\ \A x \in Memory \ {"tf", "idle", "want", "dlg"} : p'[x] = q[x]
  BY <1>4, <1>5 DEF Memory
<1>7. \A x \in Memory \ {"tf", "idle", "want", "dlg", "fresh", "got", "cbo", "chgd"} : p'[x] = p[x]
  BY <1>4, <1>6
<1>8. Kept({"filts", "live", "setGen", "panel", "rows", "made", "name", "fname", "fsel", "picked"})
  BY <1>1, <1>7 DEF Kept, Memory
<1>9. p'.got = <<>> /\ p'.cbo = q.cbo /\ p'.chgd = q.chgd
  BY <1>4, <1>6 DEF Memory
<1> QED BY <1>1, <1>4, <1>6, <1>8, <1>9

LEMMA CustomFields ==
    ASSUME SetInv, FilterTypes, FLTRCSTCONT \/ FLTRCSTCX
    PROVE  /\ Kept({"filts", "live", "setGen", "cbo", "chgd", "picked", "panel", "rows", "made", "name",
                    "fname", "fsel", "want"})
           /\ UNCHANGED <<fdb, h>> /\ p.dlg = "custom" /\ p'.dlg = "closed" /\ p'.got = <<>>
           /\ DOMAIN p'.tf = {"idx", "on"} /\ p'.tf.idx = p.tf.idx
<1>1. /\ p.run /\ DOMAIN p = Memory /\ UNCHANGED <<fdb, h>> /\ p.dlg = "custom"
      /\ \/ p' = [q0 EXCEPT !.dlg = "closed", !.tf.on = TRUE, !.idle = TRUE]
         \/ p' = [q0 EXCEPT !.dlg = "closed"]
  BY DEF SetInv, FLTRCSTCONT, FLTRCSTCX, Dialog, Keep
<1>2. DOMAIN q0 = Memory /\ q0.got = <<>> /\ \A x \in Memory \ {"fresh", "got"} : q0[x] = p[x]
  BY <1>1, Q0Fields
<1>3. DOMAIN p.tf = {"idx", "on"} /\ q0.tf = p.tf
  BY <1>1, <1>2 DEF FilterTypes, Memory
<1> HIDE DEF q0
<1>4. /\ DOMAIN p' = Memory /\ p'.dlg = "closed" /\ DOMAIN p'.tf = {"idx", "on"} /\ p'.tf.idx = p.tf.idx
      /\ \A x \in Memory \ {"dlg", "tf", "idle"} : p'[x] = q0[x]
  <2>1. CASE p' = [q0 EXCEPT !.dlg = "closed", !.tf.on = TRUE, !.idle = TRUE]
    <3>1. DOMAIN p' = Memory /\ p'.dlg = "closed" /\ \A x \in Memory \ {"dlg", "tf", "idle"} : p'[x] = q0[x]
      BY <1>2, <2>1 DEF Memory
    <3>2. DOMAIN p'.tf = {"idx", "on"} /\ p'.tf.idx = p.tf.idx
      BY <1>2, <1>3, <2>1 DEF Memory
    <3> QED BY <3>1, <3>2
  <2>2. CASE p' = [q0 EXCEPT !.dlg = "closed"]
    <3>1. DOMAIN p' = Memory /\ p'.dlg = "closed" /\ \A x \in Memory \ {"dlg"} : p'[x] = q0[x]
      BY <1>2, <2>2 DEF Memory
    <3>2. p'.tf = q0.tf
      BY <3>1 DEF Memory
    <3> QED BY <1>3, <3>1, <3>2
  <2> QED BY <1>1, <2>1, <2>2
<1>5. \A x \in Memory \ {"dlg", "tf", "idle", "fresh", "got"} : p'[x] = p[x]
  BY <1>2, <1>4
<1>6. Kept({"filts", "live", "setGen", "cbo", "chgd", "picked", "panel", "rows", "made", "name",
            "fname", "fsel", "want"})
  BY <1>1, <1>5 DEF Kept, Memory
<1>7. p'.got = <<>>
  BY <1>2, <1>4 DEF Memory
<1> QED BY <1>1, <1>4, <1>6, <1>7

LEMMA AgcFields ==
    ASSUME SetInv, FilterTypes, FLTRAGC
    PROVE  /\ Kept({"filts", "live", "setGen", "cbo", "chgd", "picked", "panel", "rows", "made", "name",
                    "fname", "fsel"})
           /\ fdb' = fdb /\ p.dlg = "list" /\ p'.dlg = "closed" /\ p'.got = <<>>
           /\ Kept({"tf", "want"}) \/ p'.tf = [idx |-> 0, on |-> TRUE]
           /\ h' = IF p.chgd THEN [h EXCEPT !.did = @ \cup {"agcExit"}] ELSE h
<1>1. /\ p.run /\ DOMAIN p = Memory /\ fdb' = fdb /\ p.dlg = "list"
      /\ h' = IF p.chgd THEN [h EXCEPT !.did = @ \cup {"agcExit"}] ELSE h
      /\ p' = [q0 EXCEPT !.dlg = "closed"] \/ p' = [ResetCombos(q0) EXCEPT !.dlg = "closed"]
  BY DEF SetInv, FLTRAGC, Dialog
<1>2. DOMAIN q0 = Memory /\ q0.got = <<>> /\ \A x \in Memory \ {"fresh", "got"} : q0[x] = p[x]
  BY <1>1, Q0Fields
<1> HIDE DEF q0
<1>3. /\ DOMAIN p' = Memory /\ p'.dlg = "closed"
      /\ \A x \in Memory \ {"dlg", "tf", "idle", "want"} : p'[x] = q0[x]
      /\ (p'.tf = q0.tf /\ p'.want = q0.want) \/ p'.tf = [idx |-> 0, on |-> TRUE]
  BY ZenonT(40), <1>1, <1>2 DEF ResetCombos, Memory
<1>4. \A x \in Memory \ {"dlg", "tf", "idle", "want", "fresh", "got"} : p'[x] = p[x]
  BY <1>2, <1>3
<1>5. /\ Kept({"filts", "live", "setGen", "cbo", "chgd", "picked", "panel", "rows", "made", "name",
               "fname", "fsel"})
  BY <1>1, <1>4 DEF Kept, Memory
<1>6. p'.got = <<>>
  BY <1>2, <1>3 DEF Memory
<1>7. p'.run /\ q0.tf = p.tf /\ q0.want = p.want
  BY <1>1, <1>2, <1>4 DEF Memory
<1>8. Kept({"tf", "want"}) \/ p'.tf = [idx |-> 0, on |-> TRUE]
  BY <1>1, <1>3, <1>7 DEF Kept
<1> QED BY <1>1, <1>3, <1>5, <1>6, <1>8


LEMMA FirstOf ==
    ASSUME NEW S, NEW s \in Seq(S), NEW e \in Int, e <= Len(s)
    PROVE  /\ SubSeq(s, 1, e) \in Seq(S) /\ Len(SubSeq(s, 1, e)) = (IF e < 0 THEN 0 ELSE e)
           /\ \A k \in 1 .. Len(SubSeq(s, 1, e)) : SubSeq(s, 1, e)[k] = s[k]
<1>1. CASE e < 1
  <2>1. SubSeq(s, 1, e) = <<>>
    BY <1>1
  <2> QED BY <1>1, <2>1
<1>2. CASE e >= 1
  <2>1. e \in 1 .. Len(s)
    BY <1>2
  <2> QED BY <1>2, <2>1
<1> QED BY <1>1, <1>2

\* The rows are the first filters of the array.
LEMMA RowsTypes ==
    ASSUME NEW filts \in Seq(Entries), filts # <<>>, NEW set
    PROVE  LET rows == RowsOf(filts, set) IN
           /\ rows \in Seq(Entries) /\ Len(rows) < Len(filts) /\ Len(rows) \in Nat
           /\ \A k \in 1 .. Len(rows) : rows[k] = filts[k]
<1> DEFINE e == Len(filts) - (IF set.DSPMD = "GATHERMODE" THEN 2 ELSE 1)
<1>1. e \in Int /\ e < Len(filts) /\ Len(filts) \in Nat \ {0}
  OBVIOUS
<1> HIDE DEF e
<1>2. /\ SubSeq(filts, 1, e) \in Seq(Entries) /\ Len(SubSeq(filts, 1, e)) = (IF e < 0 THEN 0 ELSE e)
      /\ \A k \in 1 .. Len(SubSeq(filts, 1, e)) : SubSeq(filts, 1, e)[k] = filts[k]
  BY <1>1, FirstOf
<1>3. RowsOf(filts, set) = SubSeq(filts, 1, e)
  BY DEF RowsOf, e
<1> QED BY <1>1, <1>2, <1>3

\* Read again, the array holds the names stored, and the rows are all of these.
LEMMA RereadTypes ==
    ASSUME fdb' \in SUBSET (FilterNames \cup {NoName}), Reread
    PROVE  /\ p'.filts \in Seq(Entries) /\ p'.filts # <<>> /\ p'.filts[Len(p'.filts)] = Custom
           /\ IsArray(p'.filts, fdb')
           /\ p'.rows \in Seq(Entries) /\ Len(p'.rows) = Cardinality(fdb')
           /\ \A k \in 1 .. Len(p'.rows) : p'.rows[k] = Sorted(fdb')[k]
<1> DEFINE S == fdb'
           agc == IF p.set.DSPMD = "GATHERMODE" THEN <<AGC>> ELSE <<>>
           filts == Sorted(S) \o agc \o <<Custom>>
           n == Cardinality(S)
           end == Len(filts) - (IF p.set.DSPMD = "GATHERMODE" THEN 2 ELSE 1)
<1>1. p'.filts = filts /\ p'.rows = SubSeq(filts, 1, end)
  BY DEF Reread, FiltersOf, RowsOf
<1>2. agc \in {<<>>, <<AGC>>} /\ Len(agc) = (IF p.set.DSPMD = "GATHERMODE" THEN 1 ELSE 0)
  OBVIOUS
<1> HIDE DEF agc
<1>3. /\ filts \in Seq(Entries) /\ filts # <<>> /\ filts[Len(filts)] = Custom
      /\ Len(filts) = n + Len(agc) + 1
      /\ \A k \in 1 .. n : filts[k] = Sorted(S)[k]
      /\ IsArray(filts, S)
  BY <1>2, FilterArray
<1>4. n \in Nat
  BY SortedFilters
<1> HIDE DEF filts, n, S
<1>5. end = n
  BY <1>2, <1>3, <1>4
<1> HIDE DEF end
<1>6. /\ SubSeq(filts, 1, n) \in Seq(Entries) /\ Len(SubSeq(filts, 1, n)) = n
      /\ \A k \in 1 .. n : SubSeq(filts, 1, n)[k] = filts[k]
  <2>1. n \in Int /\ n <= Len(filts) /\ ~(n < 0)
    BY <1>2, <1>3, <1>4
  <2> QED BY <1>3, <2>1, FirstOf
<1> QED BY <1>1, <1>3, <1>5, <1>6 DEF S, n

LEMMA FilterTypesStep ==
    ASSUME TypesInv, [Next]_vars PROVE FilterTypes'
<1>1. SetInv /\ FilterTypes /\ SortTypes /\ DOMAIN h = {"saved", "old", "torn", "other", "did"}
  BY DEF TypesInv
<1>2. CASE UNCHANGED <<file, fdb, p, saving, h>> \/ add_record
  BY <1>1, <1>2 DEF FilterTypes, add_record
<1>3. CASE Other
  BY <1>1, <1>3 DEF FilterTypes, Other
<1> DEFINE filts == Sorted(fdb) \o <<>> \o <<Custom>>
<1>4. filts \in Seq(Entries) /\ filts # <<>> /\ filts[Len(filts)] = Custom
  <2>1. fdb \in SUBSET (FilterNames \cup {NoName}) /\ <<>> \in {<<>>, <<AGC>>}
    BY <1>1 DEF FilterTypes
  <2> QED BY <2>1, FilterArray
<1>5. ASSUME NEW s \in Seq(Entries) PROVE s \o <<Edit>> \in Seq(Entries)
  <2>1. Edit \in Entries
    BY DEF Entries
  <2> QED BY <2>1
<1>6. DOMAIN [idx |-> 0, on |-> FALSE] = {"idx", "on"} /\ [idx |-> 0, on |-> FALSE].idx = 0
  OBVIOUS
<1>7. ASSUME NEW s \in Seq(Entries) PROVE 0 \in 0 .. Len(s)
  OBVIOUS
<1> HIDE DEF filts
<1>8. CASE Start
  <2>1. /\ fdb' = fdb /\ p'.filts = filts /\ p'.cbo = filts \o <<Edit>>
        /\ p'.live = 1 /\ p'.tf = [idx |-> 0, on |-> FALSE]
    BY <1>8, StartFrame DEF filts
  <2>2. p'.rows = <<>>
    BY <1>8, StartValues
  <2>3. p'.cbo \in Seq(Entries) /\ p'.rows \in Seq(Entries) /\ p'.tf.idx \in 0 .. Len(p'.cbo)
    BY <1>4, <1>5, <1>6, <1>7, <2>1, <2>2
  <2> QED BY <1>1, <1>4, <1>6, <2>1, <2>3 DEF FilterTypes
<1>9. CASE Stop
  BY <1>1, <1>9, FreshFields DEF Stop, FilterTypes
<1>10. CASE restore_settings
  <2>1. /\ fdb' = fdb /\ p'.filts = filts /\ p'.tf = [idx |-> 0, on |-> FALSE] /\ p'.live = p.live + 1 /\ p.run
        /\ \A x \in Memory \ (SetFields \cup ReadFields) : p'[x] = p[x]
    BY <1>1, <1>10, RestoreFrame DEF Same, filts
  <2>2. p'.cbo = p.cbo /\ p'.rows = p.rows
    BY <2>1 DEF Memory, SetFields, ReadFields
  <2>3. p'.tf.idx \in 0 .. Len(p'.cbo) /\ p'.live \in Nat
    BY <1>1, <1>6, <1>7, <2>1, <2>2 DEF FilterTypes
  <2> QED BY <1>1, <1>4, <1>6, <2>1, <2>2, <2>3 DEF FilterTypes
<1>11. ASSUME Same(Memory \ (SetFields \cup SortFields)), fdb' = fdb PROVE FilterTypes'
  <2>1. /\ p.run /\ p'.filts = p.filts /\ p'.cbo = p.cbo /\ p'.rows = p.rows /\ p'.tf = p.tf /\ p'.live = p.live
    BY <1>11 DEF Same, Memory, SetFields, SortFields
  <2> QED BY <1>1, <1>11, <2>1 DEF FilterTypes
<1>12. CASE save_defaults
  <2>1. Same(Memory \ (SetFields \cup SortFields)) /\ fdb' = fdb
    BY <1>1, <1>12, SaveFrame DEF Same
  <2> QED BY <1>11, <2>1
<1>13. CASE PanelStep
  <2>1. Same(Memory \ (SetFields \cup SortFields)) /\ fdb' = fdb
    BY <1>1, <1>13, PanelFrame DEF Same
  <2> QED BY <1>11, <2>1
<1>14. CASE SortStep
  <2>1. Same(Memory \ (SetFields \cup SortFields)) /\ fdb' = fdb
    BY <1>1, <1>14, SortFrame DEF Same
  <2> QED BY <1>11, <2>1
<1>15. CASE FilterStep
  <2>1. /\ p.filts \in Seq(Entries) /\ p.filts # <<>> /\ p.filts[Len(p.filts)] = Custom
        /\ p.cbo \in Seq(Entries) /\ p.rows \in Seq(Entries)
        /\ DOMAIN p.tf = {"idx", "on"} /\ p.tf.idx \in 0 .. Len(p.cbo)
        /\ p.live \in Nat /\ fdb \subseteq FilterNames \cup {NoName}
    BY <1>1, <1>15, FilterFrame DEF FilterTypes, Same
  <2>2. ASSUME NEW i \in DOMAIN p.cbo, fltrSelect(i) PROVE FilterTypes'
    <3>1. /\ p'.filts = p.filts /\ p'.cbo = p.cbo /\ p'.live = p.live /\ fdb' = fdb
          /\ DOMAIN p'.tf = {"idx", "on"} /\ p'.tf.idx = i
          /\ p'.rows = p.rows \/ p'.rows = RowsOf(p.filts, p.set)
      BY <1>1, <2>2, SelectFields DEF Kept
    <3>2. p'.rows \in Seq(Entries)
      BY <2>1, <3>1, RowsTypes
    <3>3. i \in 0 .. Len(p.cbo)
      BY <2>1
    <3> QED BY <2>1, <3>1, <3>2, <3>3 DEF FilterTypes
  <2>3. ASSUME Kept({"filts", "live", "cbo", "rows"}), fdb' = fdb, DOMAIN p'.tf = {"idx", "on"},
               p'.tf.idx \in {0, p.tf.idx}
        PROVE  FilterTypes'
    BY <2>1, <2>3 DEF FilterTypes, Kept
  <2>4. CASE idleFilter
    <3>1. /\ Kept({"filts", "live", "cbo", "rows"}) /\ fdb' = fdb /\ DOMAIN p'.tf = {"idx", "on"}
          /\ p'.tf.idx \in {0, p.tf.idx}
      BY <1>1, <2>4, IdleFields DEF Kept
    <3> QED BY <2>3, <3>1
  <2>5. ASSUME p.run, NEW r \in DOMAIN p.rows, NEW edit \in BOOLEAN, fltrInfo(r, edit) PROVE FilterTypes'
    <3>1. Kept({"filts", "live", "cbo", "rows"}) /\ fdb' = fdb /\ p'.tf = p.tf
      BY <1>1, <2>5, RowFields DEF Kept
    <3> QED BY <2>1, <2>3, <3>1
  <2>6. CASE FLTRNEW
    <3>1. Kept({"filts", "live", "cbo", "rows"}) /\ fdb' = fdb /\ p'.tf = p.tf
      BY <1>1, <2>6, NewFields DEF Kept
    <3> QED BY <2>1, <2>3, <3>1
  <2>7. ASSUME fdb' \in SUBSET (FilterNames \cup {NoName}), Reread, p'.cbo = p.cbo PROVE FilterTypes'
    <3>1. p'.tf = [idx |-> 0, on |-> FALSE] /\ p'.live = p.live + 1
      BY <2>7 DEF Reread
    <3>2. DOMAIN p'.tf = {"idx", "on"} /\ p'.tf.idx \in 0 .. Len(p'.cbo) /\ p'.live \in Nat
      BY <1>6, <1>7, <2>1, <2>7, <3>1
    <3>3. /\ p'.filts \in Seq(Entries) /\ p'.filts # <<>> /\ p'.filts[Len(p'.filts)] = Custom
          /\ p'.rows \in Seq(Entries)
      BY <2>7, RereadTypes
    <3> QED BY <2>1, <2>7, <3>2, <3>3 DEF FilterTypes
  <2>8. ASSUME NEW n \in FilterNames \cup {NoName}, FLTRSAVE(n) PROVE FilterTypes'
    <3>1. Reread /\ fdb' = fdb \cup {n} /\ p'.cbo = p.cbo
      BY <1>1, <2>8, SavedFields DEF Kept
    <3> QED BY <2>1, <2>7, <2>8, <3>1
  <2>9. CASE FLTRDEL
    <3>1. Reread /\ fdb' = fdb \ {p.filts[p.fsel]} /\ p'.cbo = p.cbo
      BY <1>1, <2>9, DeletedFields DEF Kept
    <3> QED BY <2>1, <2>7, <3>1
  <2>10. CASE FLTRLSTDONE
    <3>1. /\ p'.filts = p.filts /\ p'.live = p.live /\ p'.rows = p.rows /\ fdb' = fdb
          /\ DOMAIN p'.tf = {"idx", "on"} /\ p'.tf.idx = 0
          /\ p'.cbo = p.filts \o <<Edit>> \/ p'.cbo = p.cbo
      BY <1>1, <2>10, DoneFields DEF Kept
    <3>2. p'.cbo \in Seq(Entries)
      BY <1>5, <2>1, <3>1
    <3>3. p'.tf.idx \in 0 .. Len(p'.cbo)
      BY <1>7, <3>1, <3>2
    <3> QED BY <2>1, <3>1, <3>2, <3>3 DEF FilterTypes
  <2>11. CASE FLTRCSTCONT \/ FLTRCSTCX
    <3>1. /\ Kept({"filts", "live", "cbo", "rows"}) /\ fdb' = fdb /\ DOMAIN p'.tf = {"idx", "on"}
          /\ p'.tf.idx \in {0, p.tf.idx}
      BY <1>1, <2>11, CustomFields DEF Kept
    <3> QED BY <2>3, <3>1
  <2>12. CASE FLTRAGC
    <3>1. /\ Kept({"filts", "live", "cbo", "rows"}) /\ fdb' = fdb
          /\ p'.tf = p.tf \/ p'.tf = [idx |-> 0, on |-> TRUE]
      BY <1>1, <2>12, AgcFields DEF Kept
    <3>2. DOMAIN p'.tf = {"idx", "on"} /\ p'.tf.idx \in {0, p.tf.idx}
      BY <2>1, <3>1
    <3> QED BY <2>3, <3>1, <3>2
  <2> QED BY <1>15, <2>2, <2>4, <2>5, <2>6, <2>8, <2>9, <2>10, <2>11, <2>12 DEF FilterStep
<1> QED BY <1>2, <1>3, <1>8, <1>9, <1>10, <1>12, <1>13, <1>14, <1>15, SettingsSteps

LEMMA HistoryStep ==
    ASSUME TypesInv, [Next]_vars PROVE DOMAIN h' = {"saved", "old", "torn", "other", "did"}
<1>1. SetInv /\ SortTypes /\ DOMAIN h = {"saved", "old", "torn", "other", "did"}
  BY DEF TypesInv
<1>2. CASE FilterStep
  BY <1>1, <1>2, FilterFrame
<1>3. CASE SortStep
  BY <1>1, <1>3, SortFrame
<1>4. CASE PanelStep
  BY <1>1, <1>4, PanelFrame
<1>5. CASE Start \/ Stop \/ Other \/ add_record \/ save_defaults \/ restore_settings
  BY <1>1, <1>5 DEF Start, Stop, Other, add_record, save_defaults, restore_settings
<1> QED BY <1>1, <1>2, <1>3, <1>4, <1>5, SettingsSteps

LEMMA InitTypes == ASSUME Init PROVE TypesInv
<1>1. ~p.run /\ saving = <<>> /\ fdb \subseteq FilterNames \cup {NoName}
  BY FreshFields DEF Init
<1>2. DOMAIN h = {"saved", "old", "torn", "other", "did"}
  BY DEF Init
<1>3. FileInv
  <2>1. file = None \/ file = [Empty EXCEPT !["MZF"] = [text |-> OldZoom]]
    BY DEF Init
  <2>2. CASE file = None
    BY <1>1, <2>2 DEF FileInv, Elems
  <2>3. CASE file = [Empty EXCEPT !["MZF"] = [text |-> OldZoom]]
    <3>1. /\ DOMAIN file = RecordNames /\ file["MZF"] = [text |-> OldZoom]
          /\ \A r \in RecordNames \ {"MZF"} : file[r] = None
      BY <2>3, RecordFields DEF RecordNames
    <3>2. IsText("MZF", file["MZF"].text) /\ DOMAIN file["MZF"] = {"text"}
      BY <3>1 DEF IsText
    <3> QED BY <1>1, <3>1, <3>2 DEF FileInv, Elems
  <2> QED BY <2>1, <2>2, <2>3
<1> QED BY <1>1, <1>2, <1>3 DEF TypesInv, SetInv, SortTypes, FilterTypes

\* Everything has its type: the settings, the panel's copy, the file and what is
\* still to be written of it, the criteria and the popup, the filters.
THEOREM TypesAlways == Spec => []TypesInv
<1>1. ASSUME TypesInv, [Next]_vars PROVE TypesInv'
  BY <1>1, SetInvStep, FileInvStep, SortTypesStep, FilterTypesStep, HistoryStep DEF TypesInv
<1> QED BY <1>1, InitTypes, PTL DEF Spec

\* The settings, the filters and the boxes that offer them have their types, also
\* after a file with values of an older version was read; the list of filters always
\* ends with Custom....  read_defaults_file, readFilters, setFiltCbos, add_fltrs.
THEOREM SettingsTypeCorrect == Spec => []TypeOK
<1>1. ASSUME TypesInv PROVE TypeOK
  <2>1. SetInv /\ FilterTypes
    BY <1>1 DEF TypesInv
  <2> SUFFICES ASSUME p.run
               PROVE  /\ \A f \in Fields \ {"MP0"} : p.set[f] \in FieldValues[f]
                      /\ p.set.MP0 \in Tags \cup {<<w>> : w \in UNION {ToSet(x) : x \in Tags}}
                      /\ ToSet(p.filts) \cup ToSet(p.cbo) \cup ToSet(p.rows) \subseteq Entries
                      /\ p.filts[Len(p.filts)] = Custom /\ p.tf.idx \in 0..Len(p.cbo)
    BY <2>1 DEF TypeOK, FilterTypes
  <2>2. \A f \in Fields : p.set[f] \in Values(f)
    BY <2>1 DEF SetInv, IsSettings
  <2>3. p.set.MP0 \in ReadTags /\ \A f \in Fields \ {"MP0"} : p.set[f] \in FieldValues[f]
    BY <2>2 DEF Values, Fields
  <2>4. ASSUME NEW s \in Seq(Entries) PROVE ToSet(s) \subseteq Entries
    BY DEF ToSet
  <2>5. ToSet(p.filts) \cup ToSet(p.cbo) \cup ToSet(p.rows) \subseteq Entries
    BY <2>1, <2>4 DEF FilterTypes
  <2> QED BY <2>1, <2>3, <2>5 DEF FilterTypes, ReadTags, Words
<1> QED BY <1>1, TypesAlways, PTL



-----------------------------------------------------------------------------
(* The control panel.                                                      *)

LEMMA PanelInvStep ==
    ASSUME TypesInv, PanelInv, [Next]_vars PROVE PanelInv'
<1>1. SetInv /\ SortTypes /\ FilterTypes /\ DOMAIN h = {"saved", "old", "torn", "other", "did"}
  BY DEF TypesInv
<1>2. CASE UNCHANGED <<file, fdb, p, saving, h>> \/ Other \/ add_record
  BY <1>2 DEF PanelInv, Other, add_record
<1>3. CASE Start
  <2>1. ~p'.panel
    BY <1>3, StartValues
  <2> QED BY <2>1 DEF PanelInv
<1>4. CASE Stop
  BY <1>4, FreshFields DEF Stop, PanelInv
<1>5. CASE save_defaults
  BY <1>1, <1>5, SaveFrame DEF PanelInv
<1>6. CASE restore_settings
  BY <1>1, <1>6, RestoreFrame DEF PanelInv
<1>7. CASE PanelStep
  <2>1. p.run /\ p'.run
    BY <1>1, <1>7, PanelFrame DEF Same
  <2>2. CASE p'.ctrl = p.set /\ p'.set = p.set
    BY <2>2 DEF PanelInv
  <2>3. CASE ~p'.panel
    BY <2>3 DEF PanelInv
  <2>4. CASE /\ p.panel /\ p'.set = p.set /\ p'.moved = p.moved
             /\ \E f \in Fields : \E v \in FieldValues[f] :
                   p'.ctrl = [p.ctrl EXCEPT ![f] = v] /\ p'.edited = p.edited \cup {f}
    <3>1. PICK f \in Fields : \E v \in FieldValues[f] :
                   p'.ctrl = [p.ctrl EXCEPT ![f] = v] /\ p'.edited = p.edited \cup {f}
      BY <2>4
    <3>2. \A g \in Fields \ {f} : p'.ctrl[g] = p.ctrl[g]
      BY <3>1, <2>1, <2>4, <1>1 DEF SetInv, IsSettings
    <3> QED BY <2>1, <2>4, <3>1, <3>2 DEF PanelInv
  <2>5. CASE /\ p'.panel = p.panel /\ p'.ctrl = p.ctrl /\ p'.edited = p.edited
             /\ \E v \in Scales : p'.set = [p.set EXCEPT !["MW"] = v]
             /\ p.panel => p'.moved = p.moved \cup {"MW"}
    <3>1. \A g \in Fields \ {"MW"} : p'.set[g] = p.set[g]
      BY <2>1, <2>5, <1>1 DEF SetInv, IsSettings
    <3> QED BY <2>1, <2>5, <3>1 DEF PanelInv
  <2> QED BY <1>1, <1>7, <2>2, <2>3, <2>4, <2>5, PanelFrame
<1>8. CASE SortStep
  <2>1. Same(Memory \ SortFields)
    BY <1>1, <1>8, SortFrame
  <2>2. /\ p.run /\ p'.set = p.set /\ p'.panel = p.panel /\ p'.ctrl = p.ctrl /\ p'.edited = p.edited
        /\ p'.moved = p.moved
    BY <2>1 DEF Same, Memory, SortFields
  <2> QED BY <2>2 DEF PanelInv
<1>9. CASE FilterStep
  <2>1. Same(Memory \ FilterFields)
    BY <1>1, <1>9, FilterFrame
  <2>2. /\ p.run /\ p'.set = p.set /\ p'.panel = p.panel /\ p'.ctrl = p.ctrl /\ p'.edited = p.edited
        /\ p'.moved = p.moved
    BY <2>1 DEF Same, Memory, FilterFields
  <2> QED BY <2>2 DEF PanelInv
<1> QED BY <1>2, <1>3, <1>4, <1>5, <1>6, <1>7, <1>8, <1>9, SettingsSteps

\* The panel is lowered by Continue and by Cancel only.
LEMMA Lowered ==
    ASSUME TypesInv, [Next]_vars, p.run, p.panel, p'.run, ~p'.panel
    PROVE  p'.set = p.ctrl \/ p'.set = p.set
<1>1. SetInv /\ SortTypes /\ FilterTypes /\ DOMAIN h = {"saved", "old", "torn", "other", "did"}
  BY DEF TypesInv
<1>2. CASE UNCHANGED <<file, fdb, p, saving, h>> \/ Other \/ add_record
  BY <1>2 DEF Other, add_record
<1>3. CASE Start \/ save_defaults \/ restore_settings
  BY <1>1, <1>3, StartFrame, SaveFrame, RestoreFrame
<1>4. CASE Stop
  BY <1>4, FreshFields DEF Stop
<1>5. CASE PanelStep
  BY <1>1, <1>5, PanelFrame
<1>6. CASE SortStep
  BY <1>1, <1>6, SortFrame DEF Same, Memory, SortFields
<1>7. CASE FilterStep
  BY <1>1, <1>7, FilterFrame DEF Same, Memory, FilterFields
<1> QED BY <1>2, <1>3, <1>4, <1>5, <1>6, <1>7, SettingsSteps

\* Continue applies what was entered since the panel was raised and nothing else,
\* Cancel nothing at all: get_settings copies the whole of ctrl_settings, so every
\* field nobody touched must have been brought up to date by set_controls, which
\* raiseControls, Set Defaults and Restore call.  Invariant: PanelInv.
THEOREM PanelAppliesAlways == Spec => PanelApplies
<1>1. PanelInv /\ TypesInv /\ [Next]_vars => PanelInv'
  BY PanelInvStep
<1>2. Init => PanelInv
  BY FreshFields DEF Init, PanelInv
<1>3. ASSUME TypesInv, PanelInv, [Next]_vars
      PROVE  [p.run /\ p.panel /\ p'.run /\ ~p'.panel =>
                \A f \in Fields \ (p.edited \cup p.moved) : p'.set[f] = p.set[f]]_vars
  <2> SUFFICES ASSUME p.run, p.panel, p'.run, ~p'.panel, NEW f \in Fields \ (p.edited \cup p.moved)
               PROVE  p'.set[f] = p.set[f]
    OBVIOUS
  <2>1. p'.set = p.ctrl \/ p'.set = p.set
    BY <1>3, Lowered
  <2> QED BY <1>3, <2>1 DEF PanelInv
<1> QED BY <1>1, <1>2, <1>3, TypesAlways, PTL DEF Spec, PanelApplies



-----------------------------------------------------------------------------
(* Set Defaults and the records it writes.                                 *)

LEMMA SaveWrites ==
    ASSUME TypesInv, save_defaults
    PROVE  /\ p.run /\ p'.run /\ saving = <<>> /\ file' = create_dbl /\ file' # None
           /\ IsSettings(p'.set) /\ IsUser(p'.user) /\ p'.user = p.user
           /\ DOMAIN saving' = 1 .. 5 /\ Len(saving') = 5
           /\ \A j \in 1 .. 5 : saving'[j] = <<Records[j], Text(Records[j], p')>>
           /\ h' = [h EXCEPT !.old = [set |-> StoredSettings(Fresh.set), user |-> StoredSorts(Unsorted)],
                             !.saved = [set |-> p'.set, user |-> p'.user], !.torn = FALSE, !.other = FALSE]
<1>1. SetInv /\ SortTypes /\ FileInv
  BY DEF TypesInv
<1>2. /\ Same(Memory \ SetFields) /\ saving' = make_defaults_file(p') /\ file' = create_dbl /\ saving = <<>>
      /\ p.panel /\ p'.set = p.ctrl
      /\ h' = [h EXCEPT !.old = [set |-> StoredSettings(Fresh.set), user |-> StoredSorts(Unsorted)],
                        !.saved = [set |-> p'.set, user |-> p'.user], !.torn = FALSE, !.other = FALSE]
  BY <1>1, SaveFrame
<1>3. p.run /\ p'.run /\ p'.user = p.user
  BY <1>2 DEF Same, Memory, SetFields
<1>4. IsSettings(p'.set) /\ IsUser(p.user)
  BY <1>1, <1>2, <1>3 DEF SetInv, SortTypes
<1>5. /\ DOMAIN saving' = 1 .. 5 /\ Len(saving') = 5
      /\ \A j \in 1 .. 5 : saving'[j] = <<Records[j], Text(Records[j], p')>>
  BY <1>2, RecordFields DEF make_defaults_file, Text
<1>6. file' # None
  <2>1. Empty # None
    BY RecordFields DEF None, RecordNames
  <2> QED BY <1>2, <2>1 DEF create_dbl
<1> QED BY <1>2, <1>3, <1>4, <1>5, <1>6

LEMMA AddWrites ==
    ASSUME TypesInv, add_record
    PROVE  LET n == Len(saving)
               r == Records[6 - n]
           IN  /\ p.run /\ n \in 1 .. 5 /\ r \in RecordNames /\ saving[1][1] = r /\ DOMAIN saving = 1 .. n
               /\ DOMAIN file = RecordNames /\ file' = [file EXCEPT ![r] = saving[1][2]]
               /\ file # None /\ file' # None
               /\ Len(saving') = n - 1 /\ DOMAIN saving' = 1 .. n - 1
               /\ \A j \in 1 .. n - 1 : saving'[j] = saving[j + 1] /\ j + 1 \in 1 .. n
               /\ UNCHANGED <<p, h>> /\ 1 \in 1 .. n
<1> DEFINE n == Len(saving)
           r == Records[6 - n]
<1>1. /\ saving # <<>> /\ saving' = Tail(saving) /\ UNCHANGED <<p, h>>
      /\ file' = [file EXCEPT ![saving[1][1]] = saving[1][2]]
  BY DEF add_record
<1>2. saving \in Seq(Elems(saving)) /\ n \in 1 .. 5 /\ file # None /\ p.run /\ DOMAIN file = RecordNames
  BY <1>1 DEF FileInv, TypesInv
<1>3. /\ DOMAIN saving = 1 .. n /\ Len(saving') = n - 1 /\ DOMAIN saving' = 1 .. n - 1
      /\ \A j \in 1 .. n - 1 : saving'[j] = saving[j + 1]
  BY <1>1, <1>2
<1>4. \A m \in 1 .. 5 : 5 - m + 1 = 6 - m /\ 6 - m \in 1 .. 5 /\ 1 \in 1 .. m /\ \A j \in 1 .. m - 1 : j + 1 \in 1 .. m
  OBVIOUS
<1>5. 5 - n + 1 = 6 - n /\ 6 - n \in 1 .. 5 /\ 1 \in 1 .. n /\ \A j \in 1 .. n - 1 : j + 1 \in 1 .. n
  BY <1>2, <1>4, Zenon
<1>6. r \in RecordNames
  BY <1>5, RecordFields
<1>7. saving[1][1] = r
  <2>1. saving[1] = <<Records[5 - n + 1], saving[1][2]>>
    BY <1>5 DEF FileInv, TypesInv
  <2> QED BY <1>5, <2>1
<1>8. file' # None
  <2>1. DOMAIN file' = RecordNames
    BY <1>1, <1>2
  <2> QED BY <2>1 DEF None, RecordNames
<1> QED BY <1>1, <1>2, <1>3, <1>5, <1>6, <1>7, <1>8

LEMMA DidGrows == ASSUME TypesInv, [Next]_vars PROVE h.did \subseteq h'.did
<1>1. SetInv /\ SortTypes /\ DOMAIN h = {"saved", "old", "torn", "other", "did"}
  BY DEF TypesInv
<1>2. CASE FilterStep
  BY <1>1, <1>2, FilterFrame
<1>3. CASE SortStep
  BY <1>1, <1>3, SortFrame
<1>4. CASE PanelStep
  BY <1>1, <1>4, PanelFrame
<1>5. CASE Start \/ Stop \/ Other \/ add_record \/ save_defaults \/ restore_settings
  BY <1>1, <1>5 DEF Start, Stop, Other, add_record, save_defaults, restore_settings
<1> QED BY <1>2, <1>3, <1>4, <1>5, SettingsSteps

\* The criteria in a record, or to be written in one.
ValidText(rec) == \A t \in DOMAIN rec.text : Valid(t, rec.text[t])

LEMMA SortFileStep ==
    ASSUME TypesInv, [Next]_vars,
           p.run => AllValid(p.user),
           Stored("SRTSTR") => ValidText(file["SRTSTR"]),
           \A j \in DOMAIN saving : saving[j][1] = "SRTSTR" => ValidText(saving[j][2])
    PROVE  /\ Stored("SRTSTR")' => ValidText(file'["SRTSTR"])
           /\ \A j \in DOMAIN saving' : saving'[j][1] = "SRTSTR" => ValidText(saving'[j][2])
<1>1. FileInv /\ "SRTSTR" \in RecordNames
  BY DEF TypesInv, RecordNames
<1>2. CASE UNCHANGED <<file, saving>>
  BY <1>2 DEF Stored
<1>3. CASE Stop
  BY <1>3 DEF Stop, Stored
<1>4. CASE Other
  <2>1. /\ saving' = saving
        /\ file' = file \/ (file # None /\ file' = [file EXCEPT !["MZF"] = [text |-> 20]])
    BY <1>4 DEF Other
  <2>2. CASE file # None /\ file' = [file EXCEPT !["MZF"] = [text |-> 20]]
    <3>1. file'["SRTSTR"] = file["SRTSTR"]
      BY <1>1, <2>2 DEF FileInv
    <3> QED BY <2>1, <2>2, <3>1 DEF Stored
  <2> QED BY <2>1, <2>2 DEF Stored
<1>5. CASE save_defaults
  <2>1. /\ p.run /\ p'.user = p.user /\ IsUser(p'.user) /\ DOMAIN saving' = 1 .. 5
        /\ \A j \in 1 .. 5 : saving'[j] = <<Records[j], Text(Records[j], p')>>
        /\ file' = create_dbl
    BY <1>5, SaveWrites
  <2>2. ASSUME NEW j \in DOMAIN saving', saving'[j][1] = "SRTSTR" PROVE ValidText(saving'[j][2])
    <3>1. saving'[j][2] = [text |-> encrypt(p.user)]
      BY <2>1, <2>2 DEF Text
    <3>2. DOMAIN encrypt(p.user) \subseteq Types /\ \A t \in DOMAIN encrypt(p.user) : encrypt(p.user)[t] = p.user[t]
      BY DEF encrypt
    <3> QED BY <2>1, <3>1, <3>2 DEF ValidText, AllValid
  <2>3. Stored("SRTSTR")' => ValidText(file'["SRTSTR"])
    <3>1. Empty["SRTSTR"] = None
      BY <1>1, RecordFields
    <3> QED BY <2>1, <3>1 DEF create_dbl, Stored
  <2> QED BY <2>2, <2>3
<1>6. CASE add_record
  <2> DEFINE n == Len(saving)
             r == Records[6 - n]
  <2>1. /\ saving[1][1] = r /\ DOMAIN saving = 1 .. n /\ DOMAIN file = RecordNames
        /\ file' = [file EXCEPT ![r] = saving[1][2]] /\ DOMAIN saving' = 1 .. n - 1 /\ file # None
        /\ \A j \in 1 .. n - 1 : saving'[j] = saving[j + 1] /\ j + 1 \in 1 .. n
        /\ 1 \in 1 .. n
    BY <1>6, AddWrites
  <2> HIDE DEF n, r
  <2>2. \A j \in DOMAIN saving' : saving'[j][1] = "SRTSTR" => ValidText(saving'[j][2])
    BY <2>1
  <2>3. Stored("SRTSTR")' => ValidText(file'["SRTSTR"])
    <3>1. CASE r = "SRTSTR"
      <4>1. file'["SRTSTR"] = saving[1][2]
        BY <1>1, <2>1, <3>1
      <4> QED BY <2>1, <3>1, <4>1
    <3>2. CASE r # "SRTSTR"
      <4>1. file'["SRTSTR"] = file["SRTSTR"]
        BY <1>1, <2>1, <3>2
      <4> QED BY <2>1, <4>1 DEF Stored
    <3> QED BY <3>1, <3>2
  <2> QED BY <2>2, <2>3
<1> QED BY <1>2, <1>3, <1>4, <1>5, <1>6, FileKept

LEMMA SortMemoryStep ==
    ASSUME TypesInv, [Next]_vars, p'.run,
           p.run => GoodPopup(p) /\ AllValid(p.user),
           Stored("SRTSTR") => ValidText(file["SRTSTR"]),
           h'.did \cap {"mixed", "doubled"} = {}
    PROVE  GoodPopup(p') /\ AllValid(p'.user)
<1>1. SetInv /\ FileInv /\ SortTypes /\ FilterTypes /\ DOMAIN h = {"saved", "old", "torn", "other", "did"}
  BY DEF TypesInv
<1>2. CASE UNCHANGED <<file, fdb, p, saving, h>> \/ Other \/ add_record
  BY <1>2 DEF Other, add_record
<1>3. ASSUME p.run, p'.user = p.user, p'.pop = p.pop, p'.popType = p.popType, p'.chosen = p.chosen
      PROVE  GoodPopup(p') /\ AllValid(p'.user)
  BY <1>3 DEF GoodPopup
<1>4. CASE Start
  <2>1. p'.user = StoredSorts(Unsorted) /\ p'.pop = <<>>
    <3>1. p'.pop = Fresh.pop
      BY <1>4, StartFrame DEF Memory, ReadFields
    <3> QED BY <1>4, <3>1, StartFrame DEF Fresh
  <2>2. ASSUME NEW t \in Types PROVE Valid(t, StoredSorts(Unsorted)[t])
    <3>1. \A u \in Types : Valid(u, <<>>) /\ Unsorted[u] = <<>>
      <4>1. DOMAIN <<>> = {}
        OBVIOUS
      <4> QED BY <4>1 DEF Valid, Unsorted
    <3>2. CASE ~Stored("SRTSTR")
      BY <3>1, <3>2 DEF StoredSorts
    <3>3. CASE Stored("SRTSTR")
      <4>1. IsText("SRTSTR", file["SRTSTR"].text)
        BY <1>1, <3>3 DEF FileInv, Stored, RecordNames
      <4>2. CASE t \in DOMAIN file["SRTSTR"].text
        <5>1. <<>> \o file["SRTSTR"].text[t] = file["SRTSTR"].text[t]
          BY <4>1, <4>2 DEF IsText
        <5>2. StoredSorts(Unsorted)[t] = file["SRTSTR"].text[t]
          BY <3>1, <3>3, <4>2, <5>1 DEF StoredSorts, decrypt
        <5> QED BY <3>3, <4>2, <5>2 DEF ValidText
      <4>3. CASE t \notin DOMAIN file["SRTSTR"].text
        BY <3>1, <3>3, <4>3 DEF StoredSorts, decrypt
      <4> QED BY <4>2, <4>3
    <3> QED BY <3>2, <3>3
  <2> QED BY <2>1, <2>2 DEF GoodPopup, AllValid
<1>5. CASE Stop
  BY <1>5, FreshFields DEF Stop
<1>6. CASE save_defaults
  <2>1. Same(Memory \ SetFields)
    BY <1>1, <1>6, SaveFrame
  <2> QED BY <1>3, <2>1 DEF Same, Memory, SetFields
<1>7. CASE restore_settings
  <2>1. Same(Memory \ (SetFields \cup ReadFields)) /\ p'.user = StoredSorts(p.user)
        /\ h' = [h EXCEPT !.did = @ \cup (IF Stored("SRTSTR") THEN {"doubled"} ELSE {})
                                    \cup (IF AGC \in ToSet(p.filts) THEN {"agcLost"} ELSE {})]
    BY <1>1, <1>7, RestoreFrame
  <2>2. ~Stored("SRTSTR")
    BY <1>1, <2>1
  <2>3. p'.user = p.user
    BY <2>1, <2>2 DEF StoredSorts
  <2>4. p.run /\ p'.pop = p.pop /\ p'.popType = p.popType /\ p'.chosen = p.chosen
    BY <2>1 DEF Same, Memory, SetFields, ReadFields
  <2> QED BY <1>3, <2>3, <2>4
<1>8. CASE PanelStep
  <2>1. Same(Memory \ SetFields)
    BY <1>1, <1>8, PanelFrame
  <2> QED BY <1>3, <2>1 DEF Same, Memory, SetFields
<1>9. CASE SortStep
  <2>1. p.run
    BY <1>1, <1>9, SortFrame DEF Same
  <2> QED BY <1>1, <1>9, <2>1, SortStepTypes
<1>10. CASE FilterStep
  <2>1. Same(Memory \ FilterFields)
    BY <1>1, <1>10, FilterFrame
  <2> QED BY <1>3, <2>1 DEF Same, Memory, FilterFields
<1> QED BY <1>2, <1>4, <1>5, <1>6, <1>7, <1>8, <1>9, <1>10, SettingsSteps

LEMMA SortInvStep == ASSUME TypesInv, SortInv, [Next]_vars PROVE SortInv'
<1> SUFFICES ASSUME h'.did \cap {"mixed", "doubled"} = {}
             PROVE  /\ p'.run => GoodPopup(p') /\ AllValid(p'.user)
                    /\ Stored("SRTSTR")' => ValidText(file'["SRTSTR"])
                    /\ \A j \in DOMAIN saving' : saving'[j][1] = "SRTSTR" => ValidText(saving'[j][2])
  BY DEF SortInv, GoodPopup, ValidText, Stored
<1>1. h.did \cap {"mixed", "doubled"} = {}
  BY DidGrows
<1>2. /\ p.run => GoodPopup(p) /\ AllValid(p.user)
      /\ Stored("SRTSTR") => ValidText(file["SRTSTR"])
      /\ \A j \in DOMAIN saving : saving[j][1] = "SRTSTR" => ValidText(saving[j][2])
  BY <1>1 DEF SortInv, ValidText
<1>3. p'.run => GoodPopup(p') /\ AllValid(p'.user)
  BY <1>2, SortMemoryStep
<1>4. /\ Stored("SRTSTR")' => ValidText(file'["SRTSTR"])
      /\ \A j \in DOMAIN saving' : saving'[j][1] = "SRTSTR" => ValidText(saving'[j][2])
  BY <1>2, SortFileStep
<1> QED BY <1>3, <1>4

\* The criteria of a type are criteria of that type, each once, Input Order only
\* alone, and the popup has never more boxes than there is room for, however long
\* it is used, and over saving and restarts: sortCritCBack, newSort, delSort,
\* encrypt and decrypt.  Invariant: SortInv, in which the last box offers nothing
\* that was chosen, there is one box more than criteria while it does, and the text
\* in the file and the text still to be written are as valid as the memory.
THEOREM CriteriaAlwaysValid == Spec => []CriteriaValid
<1>1. SortInv /\ TypesInv /\ [Next]_vars => SortInv'
  BY SortInvStep
<1>2. ASSUME Init PROVE SortInv
  <2>1. ~p.run /\ saving = <<>>
    BY <1>2, FreshFields DEF Init
  <2>2. ~Stored("SRTSTR")
    <3>1. file = None \/ file = [Empty EXCEPT !["MZF"] = [text |-> OldZoom]]
      BY <1>2 DEF Init
    <3>2. "SRTSTR" \in RecordNames
      BY DEF RecordNames
    <3> QED BY <3>1, <3>2, RecordFields DEF Stored
  <2> QED BY <1>2, <2>1, <2>2 DEF SortInv, Init
<1>3. ASSUME TypesInv, SortInv PROVE CriteriaValid
  <2> SUFFICES ASSUME p.run, h.did \cap {"mixed", "doubled"} = {}
               PROVE  /\ \A t \in Types :
                            LET nums == [i \in DOMAIN p.user[t] |-> p.user[t][i].num] IN
                            /\ ToSet(nums) \subseteq DOMAIN Desc[t]
                            /\ IsInjective(nums)
                            /\ 1 \in ToSet(nums) => Len(nums) = 1
                      /\ Len(p.pop) \leq MaxCriteria
    BY DEF CriteriaValid
  <2>1. GoodPopup(p) /\ AllValid(p.user) /\ IsUser(p.user) /\ p.popType \in Types /\ p.pop \in Seq(Box)
    BY <1>3 DEF SortInv, TypesInv, SortTypes
  <2>2. ASSUME NEW t \in Types
        PROVE  LET nums == [i \in DOMAIN p.user[t] |-> p.user[t][i].num] IN
               /\ ToSet(nums) \subseteq DOMAIN Desc[t]
               /\ IsInjective(nums)
               /\ 1 \in ToSet(nums) => Len(nums) = 1
    <3> DEFINE list == p.user[t]
               nums == [i \in DOMAIN list |-> list[i].num]
    <3>1. Valid(t, list) /\ list \in Seq(Criterion)
      BY <2>1 DEF AllValid, IsUser
    <3>2. DOMAIN nums = DOMAIN list /\ DOMAIN list = 1 .. Len(list) /\ \A i \in DOMAIN list : nums[i] = list[i].num
      BY <3>1
    <3> HIDE DEF list
    <3>3. Len(nums) = Len(list)
      BY <3>1, <3>2
    <3> HIDE DEF nums
    <3>4. ToSet(nums) \subseteq DOMAIN Desc[t] /\ IsInjective(nums) /\ (1 \in ToSet(nums) => Len(nums) = 1)
      BY <3>1, <3>2, <3>3 DEF Valid, ToSet, IsInjective
    <3> QED BY <3>4 DEF nums, list
  <2>3. Len(p.pop) \leq MaxCriteria
    <3>1. Len(Desc[p.popType]) \leq MaxCriteria /\ MaxCriteria \in Nat /\ Len(Desc[p.popType]) \in Nat
      <4>1. p.popType \in {"PQLSORT", "SEGYSORT"}
        BY <2>1, SettingsAssumption DEF Types
      <4>2. Len(Desc["PQLSORT"]) \in Nat /\ Len(Desc["SEGYSORT"]) \in Nat
        BY SettingsAssumption
      <4> QED BY <4>1, <4>2, SettingsAssumption DEF MaxCriteria
    <3>2. Len(p.pop) \in Nat /\ (p.pop = <<>> => Len(p.pop) = 0)
      BY <2>1
    <3>3. p.pop # <<>> => Len(p.pop) \leq Len(Desc[p.popType])
      BY <2>1 DEF GoodPopup
    <3> QED BY <3>1, <3>2, <3>3
  <2> QED BY <2>2, <2>3
<1> QED BY <1>1, <1>2, <1>3, TypesAlways, PTL DEF Spec



-----------------------------------------------------------------------------
(* What Set Defaults wrote is what is read.                                *)

\* The settings of a program just started are the defaults.
LEMMA DefaultsKept == \A r \in Fields : set_defaults(Fresh.set)[r] = Fresh.set[r]
<1> DEFINE set == Fresh.set
<1>1. DOMAIN set = Fields /\ set.DSPMD = "TRACEMODE" /\ set.MW = 0 /\ set.MZF = 15
  BY DEF Fresh, Fields
<1> HIDE DEF set
<1>2. \A r \in Fields : set_defaults(set)[r] = set[r]
  BY <1>1 DEF set_defaults, Fields
<1> QED BY <1>2 DEF set

\* A record that is not written is read as before.
LEMMA ReadKept ==
    ASSUME NEW r, NEW cur, Stored(r) <=> Stored(r)', Stored(r) => file'[r] = file[r]
    PROVE  /\ Read(r, cur)' = Read(r, cur)
           /\ r = "SRTSTR" => StoredSorts(Unsorted)' = StoredSorts(Unsorted)
  BY DEF Read, StoredSorts

\* A record written is read as what was written, but for a tag of several words.
LEMMA ReadsBack ==
    ASSUME NEW f \in Fields, file # None, NEW from, IsSettings(from.set), Len(from.set.MP0) \leq 1,
           file[f] = Text(f, from)
    PROVE  Stored(f) /\ Read(f, Fresh.set[f]) = from.set[f] /\ file[f].text = from.set[f]
<1>1. file[f] = [text |-> from.set[f]] /\ from.set[f] \in Values(f)
  BY DEF Text, Fields, IsSettings
<1>2. Stored(f) /\ file[f].text = from.set[f]
  <2>1. DOMAIN file[f] = {"text"} /\ DOMAIN None = {"none"} /\ file[f].text = from.set[f]
    BY <1>1 DEF None
  <2> QED BY <2>1 DEF Stored
<1>3. CASE f = "MP0"
  <2>1. from.set[f] \in ReadTags
    BY <1>1, <1>3, ValueTypes
  <2>2. CASE from.set[f] = <<>>
    BY <1>2, <1>3, <2>2 DEF Read, Fresh
  <2>3. CASE from.set[f] # <<>>
    <3>1. from.set[f] \in Seq(STRING)
      <4>1. CASE from.set[f] \in Tags
        BY <4>1, SettingsAssumption
      <4>2. CASE from.set[f] \notin Tags
        <5>1. PICK w \in Words : from.set[f] = <<w>>
          BY <2>1, <4>2 DEF ReadTags
        <5>2. w \in STRING
          <6>1. PICK tag \in Tags : w \in ToSet(tag)
            BY DEF Words
          <6>2. tag \in Seq(STRING)
            BY SettingsAssumption
          <6> QED BY <6>1, <6>2 DEF ToSet
        <5> QED BY <5>1, <5>2
      <4> QED BY <4>1, <4>2
    <3>2. <<Head(from.set[f])>> = from.set[f]
      <4> DEFINE tag == from.set[f]
      <4>1. tag \in Seq(STRING) /\ tag # <<>> /\ Len(tag) \leq 1
        BY <1>3, <2>3, <3>1
      <4> HIDE DEF tag
      <4> QED BY <4>1 DEF tag
    <3> QED BY <1>2, <1>3, <2>3, <3>2 DEF Read
  <2> QED BY <1>2, <2>2, <2>3
<1>4. CASE f = "MZF"
  <2>1. from.set[f] \in {15, 20}
    BY <1>1, <1>4, ValueTypes DEF Zooms
  <2> QED BY <1>2, <1>4, <2>1 DEF Read
<1>5. CASE f # "MP0" /\ f # "MZF"
  BY <1>2, <1>5 DEF Read
<1> QED BY <1>3, <1>4, <1>5

LEMMA SortsReadBack ==
    ASSUME file # None, NEW from, IsUser(from.user), file["SRTSTR"] = Text("SRTSTR", from)
    PROVE  StoredSorts(Unsorted) = from.user
<1>1. file["SRTSTR"] = [text |-> encrypt(from.user)]
  BY DEF Text
<1>2. Stored("SRTSTR") /\ file["SRTSTR"].text = encrypt(from.user)
  BY <1>1 DEF Stored, None
<1> QED BY <1>2, EncryptTypes DEF StoredSorts

LEMMA HistoryKept ==
    ASSUME TypesInv, [Next]_vars
    PROVE  \/ Stop \/ Other \/ save_defaults
           \/ add_record
           \/ UNCHANGED <<file, saving>> /\ \A x \in {"saved", "old", "torn", "other"} : h'[x] = h[x]
<1>1. SetInv /\ SortTypes /\ DOMAIN h = {"saved", "old", "torn", "other", "did"}
  BY DEF TypesInv
<1>2. CASE Start
  BY <1>2, StartFrame
<1>3. CASE restore_settings
  BY <1>1, <1>3, RestoreFrame
<1>4. CASE PanelStep
  BY <1>1, <1>4, PanelFrame
<1>5. CASE SortStep
  BY <1>1, <1>5, SortFrame
<1>6. CASE FilterStep
  BY <1>1, <1>6, FilterFrame
<1> QED BY <1>2, <1>3, <1>4, <1>5, <1>6, SettingsSteps

LEMMA WrittenStep == ASSUME TypesInv, WrittenInv, [Next]_vars PROVE WrittenInv'
<1>1. FileInv /\ SetInv /\ DOMAIN h = {"saved", "old", "torn", "other", "did"}
  BY DEF TypesInv
<1>2. ASSUME UNCHANGED file, h'.saved = h.saved, h'.old = h.old, NEW k \in 0 .. 5, WrittenTo(k)
      PROVE  WrittenTo(k)'
  BY <1>2 DEF WrittenTo, ReadsAs, StoredSorts, Read, Stored
<1>3. 5 - Len(saving) \in 0 .. 5
  <2>1. Len(saving) \in 0 .. 5
    BY <1>1 DEF FileInv
  <2>2. \A m \in 0 .. 5 : 5 - m \in 0 .. 5
    OBVIOUS
  <2> QED BY <2>1, <2>2, Zenon
<1>4. ASSUME UNCHANGED <<file, saving>>, \A x \in {"saved", "old", "torn", "other"} : h'[x] = h[x]
      PROVE  WrittenInv'
  <2>1. h'.saved = h.saved /\ h'.old = h.old /\ h'.torn = h.torn /\ h'.other = h.other
    BY <1>4
  <2> SUFFICES ASSUME h.saved # None, ~h.other
               PROVE  /\ file # None
                      /\ ~h.torn => WrittenTo(5 - Len(saving))'
                      /\ h.torn => saving = <<>> /\ \E k \in 0 .. 5 : WrittenTo(k)'
                      /\ \A j \in 1 .. Len(saving) : saving[j][2] = Text(saving[j][1], h.saved)
    BY <1>4, <2>1 DEF WrittenInv
  <2>2. ~h.torn => WrittenTo(5 - Len(saving))'
    BY <1>2, <1>3, <1>4, <2>1 DEF WrittenInv
  <2>3. h.torn => \E k \in 0 .. 5 : WrittenTo(k)'
    BY <1>2, <1>4, <2>1 DEF WrittenInv
  <2> QED BY <2>2, <2>3 DEF WrittenInv
<1>5. CASE Stop
  <2>1. /\ saving' = <<>> /\ file' = file /\ h' = [h EXCEPT !.torn = @ \/ saving # <<>>]
    BY <1>5 DEF Stop
  <2>2. h'.saved = h.saved /\ h'.old = h.old /\ h'.other = h.other /\ (h'.torn <=> h.torn \/ saving # <<>>)
    BY <1>1, <2>1
  <2> SUFFICES ASSUME h.saved # None, ~h.other
               PROVE  /\ ~h'.torn => WrittenTo(5)'
                      /\ h'.torn => \E k \in 0 .. 5 : WrittenTo(k)'
    <3>1. Len(saving') = 0 /\ 1 .. 0 = {} /\ 5 - 0 = 5
      BY <2>1
    <3>2. (5 - Len(saving))' = 5
      BY <3>1
    <3> QED BY <2>1, <2>2, <3>1, <3>2 DEF WrittenInv
  <2>3. ASSUME ~h'.torn PROVE WrittenTo(5)'
    <3>1. ~h.torn /\ saving = <<>>
      BY <2>2, <2>3
    <3>2. 5 - Len(saving) = 5 /\ 5 \in 0 .. 5
      BY <3>1
    <3>3. WrittenTo(5)
      BY <3>1, <3>2 DEF WrittenInv
    <3> QED BY <1>2, <2>1, <2>2, <3>2, <3>3
  <2>4. ASSUME h'.torn PROVE \E k \in 0 .. 5 : WrittenTo(k)'
    <3>1. PICK k \in 0 .. 5 : WrittenTo(k)
      BY <1>3 DEF WrittenInv
    <3> QED BY <1>2, <2>1, <2>2, <3>1
  <2> QED BY <2>3, <2>4
<1>6. CASE Other
  <2>1. saving' = saving /\ (h'.other = TRUE \/ (file' = file /\ h' = [h EXCEPT !.did = @ \cup {"other"}]))
    BY <1>1, <1>6 DEF Other
  <2>2. CASE h'.other = TRUE
    BY <2>2 DEF WrittenInv
  <2>3. CASE file' = file /\ h' = [h EXCEPT !.did = @ \cup {"other"}]
    BY <1>1, <1>4, <2>1, <2>3
  <2> QED BY <2>1, <2>2, <2>3
<1>7. CASE save_defaults
  <2>1. /\ file' = create_dbl /\ file' # None /\ Len(saving') = 5
        /\ \A j \in 1 .. 5 : saving'[j] = <<Records[j], Text(Records[j], p')>>
        /\ h' = [h EXCEPT !.old = [set |-> StoredSettings(Fresh.set), user |-> StoredSorts(Unsorted)],
                          !.saved = [set |-> p'.set, user |-> p'.user], !.torn = FALSE, !.other = FALSE]
    BY <1>7, SaveWrites
  <2>2. /\ h'.old = [set |-> StoredSettings(Fresh.set), user |-> StoredSorts(Unsorted)]
        /\ h'.saved = [set |-> p'.set, user |-> p'.user] /\ h'.torn = FALSE /\ h'.other = FALSE
    BY <1>1, <2>1
  <2>3. \A j \in 1 .. 5 : saving'[j][2] = Text(saving'[j][1], h'.saved)
    BY <2>1, <2>2 DEF Text
  <2>4. ASSUME NEW r \in RecordNames PROVE (Stored(r) <=> Stored(r)') /\ (Stored(r) => file'[r] = file[r])
    <3>1. Empty[r] = None
      BY RecordFields
    <3> QED BY <2>1, <3>1 DEF create_dbl, Stored
  <2>5. ASSUME NEW r \in RecordNames PROVE ReadsAs(r, h.old)'
    <3>1. CASE r = "SRTSTR"
      <4>1. StoredSorts(Unsorted)' = StoredSorts(Unsorted)
        BY <2>4, <3>1, ReadKept
      <4> QED BY <2>2, <3>1, <4>1 DEF ReadsAs
    <3>2. CASE r # "SRTSTR"
      <4>1. r \in Fields
        BY <3>2, RecordFields
      <4>2. set_defaults(Fresh.set)[r] = Fresh.set[r]
        BY <4>1, DefaultsKept
      <4>3. StoredSettings(Fresh.set)[r] = Read(r, Fresh.set[r])
        BY <4>1, <4>2 DEF StoredSettings
      <4>4. Read(r, Fresh.set[r])' = Read(r, Fresh.set[r])
        BY <2>4, ReadKept
      <4> QED BY <2>2, <3>2, <4>3, <4>4 DEF ReadsAs
    <3> QED BY <3>1, <3>2
  <2>6. WrittenTo(0)'
    <3>1. \A i \in 1 .. 5 : ~(i <= 0) /\ Records[i] \in RecordNames
      BY RecordFields
    <3> QED BY <2>5, <3>1 DEF WrittenTo
  <2>7. (5 - Len(saving))' = 0
    BY <2>1
  <2>8. WrittenTo(5 - Len(saving))'
    BY <2>6, <2>7
  <2> QED BY <2>1, <2>2, <2>3, <2>8 DEF WrittenInv
<1>8. CASE add_record
  <2>0. PICK n \in 1 .. 5 : n = Len(saving)
    BY <1>8, AddWrites
  <2> DEFINE r == Records[6 - n]
  <2>1. /\ n \in 1 .. 5 /\ r \in RecordNames /\ saving[1][1] = r
        /\ DOMAIN file = RecordNames /\ file' = [file EXCEPT ![r] = saving[1][2]]
        /\ file # None /\ file' # None /\ Len(saving') = n - 1
        /\ \A j \in 1 .. n - 1 : saving'[j] = saving[j + 1] /\ j + 1 \in 1 .. n
        /\ h' = h /\ 1 \in 1 .. n
    BY <1>8, <2>0, AddWrites
  <2> SUFFICES ASSUME h.saved # None, ~h.other
               PROVE  /\ ~h.torn /\ WrittenTo(6 - n)'
                      /\ \A j \in 1 .. n - 1 : saving'[j][2] = Text(saving'[j][1], h.saved)
    <3>1. (5 - Len(saving))' = 6 - n
      BY <2>1
    <3> QED BY <2>1, <3>1 DEF WrittenInv
  <2>2. saving # <<>>
    BY <2>0, <2>1
  <2>3. /\ ~h.torn /\ WrittenTo(5 - n)
        /\ \A j \in 1 .. n : saving[j][2] = Text(saving[j][1], h.saved)
    BY <2>0, <2>2 DEF WrittenInv
  <2>4. \A j \in 1 .. n - 1 : saving'[j][2] = Text(saving'[j][1], h.saved)
    BY <2>1, <2>3
  <2>5. ASSUME NEW i \in 1 .. 5
        PROVE  IF i <= 6 - n THEN file'[Records[i]] = Text(Records[i], h.saved)
                             ELSE ReadsAs(Records[i], h.old)'
    <3>1. Records[i] \in RecordNames /\ 6 - n \in 1 .. 5
      BY <2>1, RecordFields
    <3>2. CASE i = 6 - n
      <4>1. file'[r] = Text(r, h.saved)
        BY <2>1, <2>3
      <4>2. i <= 6 - n
        BY <3>2
      <4> QED BY <3>2, <4>1, <4>2
    <3>3. CASE i # 6 - n
      <4>1. Records[i] # r
        BY <3>1, <3>3, RecordFields
      <4>2. file'[Records[i]] = file[Records[i]]
        BY <2>1, <3>1, <4>1
      <4>3. CASE i <= 6 - n
        <5>1. i <= 5 - n
          BY <2>1, <3>3, <4>3
        <5> QED BY <2>3, <4>2, <4>3, <5>1 DEF WrittenTo
      <4>4. CASE ~(i <= 6 - n)
        <5>1. ~(i <= 5 - n)
          BY <2>1, <4>4
        <5>2. ReadsAs(Records[i], h.old)
          BY <2>3, <5>1 DEF WrittenTo
        <5>3. /\ Read(Records[i], Fresh.set[Records[i]])' = Read(Records[i], Fresh.set[Records[i]])
              /\ Records[i] = "SRTSTR" => StoredSorts(Unsorted)' = StoredSorts(Unsorted)
          <6>1. (Stored(Records[i]) <=> Stored(Records[i])') /\ (Stored(Records[i]) => file'[Records[i]] = file[Records[i]])
            BY <2>1, <4>2 DEF Stored
          <6> QED BY <6>1, ReadKept
        <5> QED BY <2>1, <4>4, <5>2, <5>3 DEF ReadsAs
      <4> QED BY <4>3, <4>4
    <3> QED BY <3>2, <3>3
  <2>6. WrittenTo(6 - n)'
    BY <2>1, <2>5 DEF WrittenTo
  <2> QED BY <2>3, <2>4, <2>6
<1> QED BY <1>4, <1>5, <1>6, <1>7, <1>8, HistoryKept


LEMMA FreshStep == ASSUME TypesInv, FreshInv, [Next]_vars PROVE FreshInv'
<1>1. SetInv /\ FileInv /\ SortTypes /\ FilterTypes /\ DOMAIN h = {"saved", "old", "torn", "other", "did"}
  BY DEF TypesInv
<1>2. ASSUME p'.fresh = "no" PROVE FreshInv'
  BY <1>2 DEF FreshInv
<1>3. ASSUME UNCHANGED <<file, p, saving>>, h'.other = h.other PROVE FreshInv'
  BY <1>3 DEF FreshInv, StoredSorts, Read, Stored
<1>4. CASE UNCHANGED <<file, fdb, p, saving, h>>
  BY <1>3, <1>4
<1>5. CASE Other
  <2>1. /\ UNCHANGED <<p, saving>>
        /\ h'.other = TRUE \/ (file' = file /\ h' = [h EXCEPT !.did = @ \cup {"other"}])
    BY <1>1, <1>5 DEF Other
  <2>2. CASE h'.other = TRUE
    BY <2>2 DEF FreshInv
  <2>3. CASE file' = file /\ h' = [h EXCEPT !.did = @ \cup {"other"}]
    BY <1>1, <1>3, <2>1, <2>3
  <2> QED BY <2>1, <2>2, <2>3
<1>6. CASE add_record
  <2>1. p' = p /\ h' = h /\ saving # <<>>
    BY <1>6 DEF add_record
  <2> QED BY <2>1 DEF FreshInv
<1>7. CASE Stop
  BY <1>7, FreshFields DEF Stop, FreshInv
<1>8. CASE save_defaults
  BY <1>1, <1>2, <1>8, SaveFrame
<1>9. CASE PanelStep
  BY <1>1, <1>2, <1>9, PanelFrame
<1>10. CASE SortStep
  BY <1>1, <1>2, <1>10, SortFrame
<1>11. CASE FilterStep
  BY <1>1, <1>2, <1>11, FilterFrame
<1>12. CASE Start
  <2>1. /\ ~p.run /\ UNCHANGED <<file, saving, h>> /\ p'.fresh = "start"
        /\ p'.set = StoredSettings(Fresh.set) /\ p'.user = StoredSorts(Unsorted)
    BY <1>12, StartFrame
  <2>2. saving = <<>>
    BY <1>1, <2>1 DEF FileInv
  <2>3. ASSUME NEW f \in Fields PROVE p'.set[f] = Read(f, Fresh.set[f])
    BY <2>1, DefaultsKept DEF StoredSettings
  <2>4. /\ StoredSorts(Unsorted)' = StoredSorts(Unsorted)
        /\ \A f \in Fields : Read(f, Fresh.set[f])' = Read(f, Fresh.set[f])
    BY <2>1 DEF StoredSorts, Read, Stored
  <2> QED BY <2>1, <2>2, <2>3, <2>4 DEF FreshInv
<1>13. CASE restore_settings
  <2>1. /\ UNCHANGED <<file, saving>> /\ p'.fresh = "restore" /\ saving = <<>>
        /\ p'.set = StoredSettings(p.set)
    BY <1>1, <1>13, RestoreFrame
  <2>2. ASSUME NEW f \in Fields, Stored(f), ~(f = "MP0" /\ file[f].text = <<>>)
        PROVE  p'.set[f] = Read(f, Fresh.set[f])
    BY <2>1, <2>2 DEF StoredSettings, Read
  <2>3. \A f \in Fields : Read(f, Fresh.set[f])' = Read(f, Fresh.set[f]) /\ (Stored(f)' <=> Stored(f))
    BY <2>1 DEF Read, Stored
  <2> QED BY <2>1, <2>2, <2>3 DEF FreshInv
<1> QED BY <1>4, <1>5, <1>6, <1>7, <1>8, <1>9, <1>10, <1>11, <1>12, <1>13, SettingsSteps

LEMMA SavedTypesStep == ASSUME TypesInv, SavedTypes, [Next]_vars PROVE SavedTypes'
<1>1. DOMAIN h = {"saved", "old", "torn", "other", "did"}
  BY DEF TypesInv
<1>2. ASSUME h'.saved = h.saved PROVE SavedTypes'
  BY <1>2 DEF SavedTypes
<1>3. CASE Stop \/ Other \/ add_record
  BY <1>1, <1>2, <1>3 DEF Stop, Other, add_record
<1>4. CASE save_defaults
  <2>1. /\ IsSettings(p'.set) /\ IsUser(p'.user)
        /\ h' = [h EXCEPT !.old = [set |-> StoredSettings(Fresh.set), user |-> StoredSorts(Unsorted)],
                          !.saved = [set |-> p'.set, user |-> p'.user], !.torn = FALSE, !.other = FALSE]
    BY <1>4, SaveWrites
  <2>2. h'.saved = [set |-> p'.set, user |-> p'.user]
    BY <1>1, <2>1
  <2> QED BY <2>1, <2>2 DEF SavedTypes
<1>5. CASE UNCHANGED <<file, saving>> /\ \A x \in {"saved", "old", "torn", "other"} : h'[x] = h[x]
  BY <1>2, <1>5
<1> QED BY <1>3, <1>4, <1>5, HistoryKept

\* What the invariant says of a fresh start.
LEMMA StartIsSaved ==
    ASSUME SaveInv, FileInv, p.run, h.saved # None, ~h.other, Representable(h.saved.set), p.fresh = "start"
    PROVE  \E k \in IF h.torn THEN 0..Len(Records) ELSE {Len(Records)} :
               \A i \in DOMAIN Records :
                   LET from == IF i \leq k THEN h.saved ELSE h.old
                       r == Records[i]
                   IN  IF r = "SRTSTR" THEN p.user = from.user ELSE p.set[r] = from.set[r]
<1>1. /\ file # None /\ saving = <<>> /\ p.user = StoredSorts(Unsorted)
      /\ \A f \in Fields : p.set[f] = Read(f, Fresh.set[f])
      /\ IsSettings(h.saved.set) /\ IsUser(h.saved.user) /\ Len(h.saved.set.MP0) \leq 1
  BY DEF SaveInv, WrittenInv, SavedTypes, FreshInv, Representable
<1>2. DOMAIN Records = 1 .. 5 /\ Len(Records) = 5
  BY RecordFields
<1>3. \E k \in IF h.torn THEN 0 .. 5 ELSE {5} : WrittenTo(k)
  <2>1. Len(saving) = 0 /\ 5 - 0 = 5
    BY <1>1
  <2> QED BY <2>1 DEF SaveInv, WrittenInv, SavedTypes, FreshInv
<1>4. PICK k \in (IF h.torn THEN 0 .. 5 ELSE {5}) : WrittenTo(k)
  BY <1>3
<1>5. ASSUME NEW i \in 1 .. 5
      PROVE  LET from == IF i \leq k THEN h.saved ELSE h.old
                 r == Records[i]
             IN  IF r = "SRTSTR" THEN p.user = from.user ELSE p.set[r] = from.set[r]
  <2> DEFINE r == Records[i]
  <2>1. r \in RecordNames /\ (r # "SRTSTR" => r \in Fields)
    BY RecordFields
  <2> HIDE DEF r
  <2>2. CASE i \leq k
    <3>1. file[r] = Text(r, h.saved)
      BY <1>4, <2>2 DEF WrittenTo, r
    <3>2. CASE r = "SRTSTR"
      <4>1. StoredSorts(Unsorted) = h.saved.user
        BY <1>1, <3>1, <3>2, SortsReadBack
      <4> QED BY <1>1, <2>2, <3>2, <4>1 DEF r
    <3>3. CASE r # "SRTSTR"
      <4>1. Read(r, Fresh.set[r]) = h.saved.set[r]
        BY <1>1, <2>1, <3>1, <3>3, ReadsBack
      <4> QED BY <1>1, <2>1, <2>2, <3>3, <4>1 DEF r
    <3> QED BY <3>2, <3>3
  <2>3. CASE ~(i \leq k)
    <3>1. ReadsAs(r, h.old)
      BY <1>4, <2>3 DEF WrittenTo, r
    <3> QED BY <1>1, <2>1, <2>3, <3>1 DEF ReadsAs, r
  <2> QED BY <2>2, <2>3
<1> QED BY <1>2, <1>4, <1>5

\* What it says of a fresh Restore.
LEMMA RestoredIsSaved ==
    ASSUME SaveInv, p.run, h.saved # None, ~h.other, Representable(h.saved.set), p.fresh = "restore", ~h.torn,
           NEW f \in Fields
    PROVE  p.set[f] = h.saved.set[f] \/ (f = "MP0" /\ h.saved.set[f] = <<>>)
<1>1. /\ file # None /\ saving = <<>> /\ IsSettings(h.saved.set) /\ Len(h.saved.set.MP0) \leq 1
      /\ Stored(f) /\ ~(f = "MP0" /\ file[f].text = <<>>) => p.set[f] = Read(f, Fresh.set[f])
  BY DEF SaveInv, WrittenInv, SavedTypes, FreshInv, Representable
<1>2. WrittenTo(5)
  <2>1. Len(saving) = 0 /\ 5 - 0 = 5
    BY <1>1
  <2> QED BY <2>1 DEF SaveInv, WrittenInv, SavedTypes, FreshInv
<1>3. PICK i \in 1 .. 5 : Records[i] = f
  BY RecordFields
<1>4. file[f] = Text(f, h.saved)
  <2>1. i <= 5
    OBVIOUS
  <2> QED BY <1>2, <1>3, <2>1 DEF WrittenTo
<1>5. Stored(f) /\ Read(f, Fresh.set[f]) = h.saved.set[f] /\ file[f].text = h.saved.set[f]
  BY <1>1, <1>4, ReadsBack
<1> QED BY <1>1, <1>5

\* What Set Defaults wrote is what the next start runs with and what Restore sets;
\* if the program was killed while it saved, the next start finds the first k
\* records new and the others as they were: make_defaults_file opens and closes the
\* file for each record, read_defaults_file reads them one by one.  Invariant:
\* SaveInv, what the file holds of the record saved, record by record, and what is
\* still to be written of it.
THEOREM SavedIsReadAlways == Spec => []SavedIsRead
<1>1. SaveInv /\ TypesInv /\ [Next]_vars => SaveInv'
  BY WrittenStep, SavedTypesStep, FreshStep DEF SaveInv
<1>2. ASSUME Init PROVE SaveInv
  <2>1. ~p.run /\ h.saved = None
    BY <1>2, FreshFields DEF Init
  <2> QED BY <2>1 DEF SaveInv, WrittenInv, SavedTypes, FreshInv
<1>3. ASSUME TypesInv, SaveInv PROVE SavedIsRead
  <2>1. FileInv
    BY <1>3 DEF TypesInv
  <2> QED BY <1>3, <2>1, StartIsSaved, RestoredIsSaved DEF SavedIsRead
<1> QED BY <1>1, <1>2, <1>3, TypesAlways, PTL DEF Spec


\* The array offers AGC only after the names.
LEMMA AgcInArray ==
    ASSUME NEW S \in SUBSET (FilterNames \cup {NoName})
    PROVE  AGC \in ToSet(Sorted(S) \o <<AGC>> \o <<Custom>>)
<1> DEFINE s == Sorted(S)
<1>1. s \in Seq(S) /\ Len(s) = Cardinality(S)
  BY SortedFilters
<1>2. s \in Seq(Nat)
  BY <1>1, FiniteNames
<1> HIDE DEF s
<1>3. AGC \in Nat /\ Custom \in Nat
  BY DEF AGC, Custom
<1>4. /\ s \o <<AGC>> \o <<Custom>> \in Seq(Nat) /\ Len(s \o <<AGC>> \o <<Custom>>) = Len(s) + 2
      /\ (s \o <<AGC>> \o <<Custom>>)[Len(s) + 1] = AGC /\ Len(s) \in Nat
  BY <1>2, <1>3
<1>5. Len(s) + 1 \in DOMAIN (s \o <<AGC>> \o <<Custom>>)
  BY <1>4
<1> QED BY <1>4, <1>5 DEF ToSet, s


-----------------------------------------------------------------------------
(* The filter applied is the filter chosen.                                *)

LEMMA ArrayInvStep == ASSUME TypesInv, ArrayInv, [Next]_vars PROVE ArrayInv'
<1>1. SetInv /\ SortTypes /\ FilterTypes /\ DOMAIN h = {"saved", "old", "torn", "other", "did"}
  BY DEF TypesInv
<1>2. h.did \subseteq h'.did
  BY DidGrows
<1>3. CASE UNCHANGED <<file, fdb, p, saving, h>> \/ Other \/ add_record
  BY <1>2, <1>3 DEF ArrayInv, Other, add_record
<1>4. CASE Start
  <2>1. p'.live = 1 /\ p'.setGen = 1
    BY <1>4, StartFrame
  <2>2. ~p'.panel
    BY <1>4, StartValues
  <2> QED BY <2>1, <2>2 DEF ArrayInv
<1>5. CASE Stop
  BY <1>5, FreshFields DEF Stop, ArrayInv
<1>6. CASE save_defaults
  <2>1. /\ p.panel /\ p'.setGen = p.ctrlGen /\ p'.ctrlGen = p.ctrlGen /\ Same(Memory \ SetFields)
    BY <1>1, <1>6, SaveFrame
  <2>2. p.run /\ p'.live = p.live
    BY <2>1 DEF Same, Memory, SetFields
  <2> QED BY <1>2, <2>1, <2>2 DEF ArrayInv
<1>7. CASE restore_settings
  BY <1>1, <1>7, RestoreFrame DEF ArrayInv
<1>8. CASE PanelStep
  <2>1. Same(Memory \ SetFields)
    BY <1>1, <1>8, PanelFrame
  <2>2. p.run /\ p'.live = p.live
    BY <2>1 DEF Same, Memory, SetFields
  <2>3. \/ p'.ctrlGen = p.setGen /\ p'.setGen = p.setGen
        \/ p.panel /\ ~p'.panel /\ p'.setGen \in {p.ctrlGen, p.setGen}
        \/ p'.panel = p.panel /\ p'.setGen = p.setGen /\ p'.ctrlGen = p.ctrlGen
    BY <1>1, <1>8, PanelFrame
  <2> QED BY <1>2, <2>2, <2>3 DEF ArrayInv
<1>9. ASSUME Kept({"live", "setGen", "ctrlGen", "panel"}) PROVE ArrayInv'
  BY <1>2, <1>9 DEF ArrayInv, Kept
<1>10. CASE SortStep
  <2>1. Same(Memory \ SortFields)
    BY <1>1, <1>10, SortFrame
  <2>2. Kept({"live", "setGen", "ctrlGen", "panel"})
    BY <2>1 DEF Same, Kept, Memory, SortFields
  <2> QED BY <1>9, <2>2
<1>11. CASE FilterStep
  <2>1. Same(Memory \ FilterFields)
    BY <1>1, <1>11, FilterFrame
  <2>2. p.run /\ p'.run /\ p'.ctrlGen = p.ctrlGen /\ p'.panel = p.panel
    BY <2>1 DEF Same, Memory, FilterFields
  <2>3. ASSUME Kept({"live", "setGen"}) PROVE ArrayInv'
    <3>1. Kept({"live", "setGen", "ctrlGen", "panel"})
      BY <2>2, <2>3 DEF Kept
    <3> QED BY <1>9, <3>1
  <2>4. ASSUME Reread, p.panel => "panelOpen" \in h'.did PROVE ArrayInv'
    BY <2>2, <2>4 DEF ArrayInv, Reread
  <2>5. ASSUME NEW i \in DOMAIN p.cbo, fltrSelect(i) PROVE Kept({"live", "setGen"})
    BY <1>1, <2>5, SelectFields DEF Kept
  <2>6. ASSUME idleFilter PROVE Kept({"live", "setGen"})
    BY <1>1, <2>6, IdleFields DEF Kept
  <2>7. ASSUME NEW r \in DOMAIN p.rows, NEW edit \in BOOLEAN, fltrInfo(r, edit) PROVE Kept({"live", "setGen"})
    BY <1>1, <2>2, <2>7, RowFields DEF Kept
  <2>8. ASSUME FLTRNEW PROVE Kept({"live", "setGen"})
    BY <1>1, <2>8, NewFields DEF Kept
  <2>9. ASSUME FLTRLSTDONE PROVE Kept({"live", "setGen"})
    BY <1>1, <2>9, DoneFields DEF Kept
  <2>10. ASSUME FLTRCSTCONT \/ FLTRCSTCX PROVE Kept({"live", "setGen"})
    BY <1>1, <2>10, CustomFields DEF Kept
  <2>11. ASSUME FLTRAGC PROVE Kept({"live", "setGen"})
    BY <1>1, <2>11, AgcFields DEF Kept
  <2>12. ASSUME NEW n \in FilterNames \cup {NoName}, FLTRSAVE(n) PROVE ArrayInv'
    <3>1. /\ Reread
          /\ h' = [h EXCEPT !.did = @ \cup (IF p.panel THEN {"panelOpen"} ELSE {})
                                      \cup (IF n = NoName THEN {"blank"} ELSE {})]
      BY <1>1, <2>12, SavedFields
    <3> QED BY <1>1, <2>4, <3>1
  <2>13. ASSUME FLTRDEL PROVE ArrayInv'
    <3>1. Reread /\ h' = IF p.panel THEN [h EXCEPT !.did = @ \cup {"panelOpen"}] ELSE h
      BY <1>1, <2>13, DeletedFields
    <3> QED BY <1>1, <2>4, <3>1
  <2> QED BY <1>11, <2>3, <2>5, <2>6, <2>7, <2>8, <2>9, <2>10, <2>11, <2>12, <2>13 DEF FilterStep
<1> QED BY <1>3, <1>4, <1>5, <1>6, <1>7, <1>8, <1>10, <1>11, SettingsSteps

LEMMA BoxesStep ==
    ASSUME TypesInv, [Next]_vars, p'.run, p.run => BoxesInv, h'.did \cap {"agcExit", "agcLost", "other"} = {}
    PROVE  BoxesInv'
<1>1. SetInv /\ SortTypes /\ FilterTypes /\ DOMAIN h = {"saved", "old", "torn", "other", "did"}
      /\ fdb \in SUBSET (FilterNames \cup {NoName})
  BY DEF TypesInv, FilterTypes
<1>2. ASSUME Kept({"filts", "chgd", "dlg", "cbo"}), fdb' = fdb PROVE BoxesInv'
  BY <1>2 DEF BoxesInv, Kept
<1>3. CASE UNCHANGED <<file, fdb, p, saving, h>> \/ add_record
  BY <1>3 DEF BoxesInv, add_record
<1>4. CASE Other
  <2>1. p' = p /\ (fdb' = fdb \/ h' = [h EXCEPT !.did = @ \cup {"other"}])
    BY <1>4 DEF Other
  <2>2. "other" \notin h'.did
    OBVIOUS
  <2>3. fdb' = fdb
    BY <1>1, <2>1, <2>2
  <2> QED BY <2>1, <2>3 DEF BoxesInv
<1>5. CASE Start
  <2>1. /\ fdb' = fdb /\ p'.filts = Sorted(fdb) \o <<>> \o <<Custom>> /\ p'.cbo = p'.filts \o <<Edit>>
    BY <1>5, StartFrame
  <2>2. p'.chgd = FALSE
    BY <1>5, StartValues
  <2> QED BY <2>1, <2>2 DEF BoxesInv, IsArray
<1>6. CASE Stop
  BY <1>6, FreshFields DEF Stop
<1>7. CASE save_defaults
  <2>1. Same(Memory \ SetFields) /\ fdb' = fdb
    BY <1>1, <1>7, SaveFrame
  <2>2. Kept({"filts", "chgd", "dlg", "cbo"})
    BY <2>1 DEF Same, Kept, Memory, SetFields
  <2> QED BY <1>2, <2>1, <2>2
<1>8. CASE restore_settings
  <2>1. /\ Same(Memory \ (SetFields \cup ReadFields)) /\ fdb' = fdb
        /\ p'.filts = Sorted(fdb) \o <<>> \o <<Custom>>
        /\ h' = [h EXCEPT !.did = @ \cup (IF Stored("SRTSTR") THEN {"doubled"} ELSE {})
                                    \cup (IF AGC \in ToSet(p.filts) THEN {"agcLost"} ELSE {})]
    BY <1>1, <1>8, RestoreFrame
  <2>2. Kept({"chgd", "dlg", "cbo"})
    BY <2>1 DEF Same, Kept, Memory, SetFields, ReadFields
  <2>3. AGC \notin ToSet(p.filts)
    BY <1>1, <2>1
  <2>4. PICK agc \in {<<>>, <<AGC>>} : p.filts = Sorted(fdb) \o agc \o <<Custom>>
    BY <2>2 DEF BoxesInv, IsArray, Kept
  <2>5. agc = <<>>
    BY <1>1, <2>3, <2>4, AgcInArray
  <2>6. p'.filts = p.filts
    BY <2>1, <2>4, <2>5
  <2>7. Kept({"filts", "chgd", "dlg", "cbo"})
    BY <2>2, <2>6 DEF Kept
  <2> QED BY <1>2, <2>1, <2>7
<1>9. CASE PanelStep
  <2>1. Same(Memory \ SetFields) /\ fdb' = fdb
    BY <1>1, <1>9, PanelFrame
  <2>2. Kept({"filts", "chgd", "dlg", "cbo"})
    BY <2>1 DEF Same, Kept, Memory, SetFields
  <2> QED BY <1>2, <2>1, <2>2
<1>10. CASE SortStep
  <2>1. Same(Memory \ SortFields) /\ fdb' = fdb
    BY <1>1, <1>10, SortFrame
  <2>2. Kept({"filts", "chgd", "dlg", "cbo"})
    BY <2>1 DEF Same, Kept, Memory, SortFields
  <2> QED BY <1>2, <2>1, <2>2
<1>11. CASE FilterStep
  <2>1. p.run /\ BoxesInv
    BY <1>1, <1>11, FilterFrame DEF Same
  <2>2. ASSUME NEW i \in DOMAIN p.cbo, fltrSelect(i) PROVE BoxesInv'
    <3>1. Kept({"filts", "chgd", "cbo"}) /\ fdb' = fdb /\ p.dlg = "closed"
      BY <1>1, <2>2, SelectFields DEF Kept
    <3> QED BY <2>1, <3>1 DEF BoxesInv, Kept
  <2>3. ASSUME idleFilter PROVE BoxesInv'
    <3>1. Kept({"filts", "chgd", "cbo", "dlg"}) /\ fdb' = fdb
      BY <1>1, <2>3, IdleFields DEF Kept
    <3> QED BY <1>2, <3>1 DEF Kept
  <2>4. ASSUME NEW r \in DOMAIN p.rows, NEW edit \in BOOLEAN, fltrInfo(r, edit) PROVE BoxesInv'
    <3>1. Kept({"filts", "chgd", "cbo", "dlg"}) /\ fdb' = fdb
      BY <1>1, <2>1, <2>4, RowFields DEF Kept
    <3> QED BY <1>2, <3>1 DEF Kept
  <2>5. ASSUME FLTRNEW PROVE BoxesInv'
    <3>1. Kept({"filts", "chgd", "cbo", "dlg"}) /\ fdb' = fdb
      BY <1>1, <2>5, NewFields DEF Kept
    <3> QED BY <1>2, <3>1 DEF Kept
  <2>6. ASSUME Reread, fdb' \in SUBSET (FilterNames \cup {NoName}), p'.dlg = "list" PROVE BoxesInv'
    BY <2>6, RereadTypes DEF BoxesInv, Reread
  <2>7. ASSUME NEW n \in FilterNames \cup {NoName}, FLTRSAVE(n) PROVE BoxesInv'
    <3>1. Reread /\ fdb' = fdb \cup {n} /\ p'.dlg = "list"
      BY <1>1, <2>7, SavedFields DEF Kept
    <3> QED BY <1>1, <2>6, <2>7, <3>1
  <2>8. ASSUME FLTRDEL PROVE BoxesInv'
    <3>1. Reread /\ fdb' = fdb \ {p.filts[p.fsel]} /\ p'.dlg = "list"
      BY <1>1, <2>8, DeletedFields DEF Kept
    <3> QED BY <1>1, <2>6, <3>1
  <2>9. ASSUME FLTRLSTDONE PROVE BoxesInv'
    <3>1. /\ p'.filts = p.filts /\ fdb' = fdb /\ ~p'.chgd
          /\ p.chgd => p'.cbo = p.filts \o <<Edit>>
          /\ ~p.chgd => p'.cbo = p.cbo
      BY <1>1, <2>9, DoneFields DEF Kept
    <3> QED BY <2>1, <3>1 DEF BoxesInv
  <2>10. ASSUME FLTRCSTCONT \/ FLTRCSTCX PROVE BoxesInv'
    <3>1. Kept({"filts", "chgd", "cbo"}) /\ fdb' = fdb /\ p.dlg = "custom"
      BY <1>1, <2>10, CustomFields DEF Kept
    <3> QED BY <2>1, <3>1 DEF BoxesInv, Kept
  <2>11. ASSUME FLTRAGC PROVE BoxesInv'
    <3>1. /\ Kept({"filts", "chgd", "cbo"}) /\ fdb' = fdb
          /\ h' = IF p.chgd THEN [h EXCEPT !.did = @ \cup {"agcExit"}] ELSE h
      BY <1>1, <2>11, AgcFields DEF Kept
    <3>2. ~p.chgd
      BY <1>1, <3>1
    <3> QED BY <2>1, <3>1, <3>2 DEF BoxesInv, Kept
  <2> QED BY <1>11, <2>2, <2>3, <2>4, <2>5, <2>7, <2>8, <2>9, <2>10, <2>11 DEF FilterStep
<1> QED BY <1>3, <1>4, <1>5, <1>6, <1>7, <1>8, <1>9, <1>10, <1>11, SettingsSteps


LEMMA PickedStep ==
    ASSUME TypesInv, [Next]_vars, p'.run, p.run => BoxesInv /\ PickedInv
    PROVE  PickedInv'
<1>1. SetInv /\ SortTypes /\ FilterTypes /\ DOMAIN h = {"saved", "old", "torn", "other", "did"}
  BY DEF TypesInv
<1>2. ASSUME Kept({"filts", "tf", "dlg", "want"}), p'.got = <<>> PROVE PickedInv'
  BY <1>2 DEF PickedInv, Kept
<1>3. ASSUME p'.tf.idx = 0, p'.got = <<>> PROVE PickedInv'
  BY <1>3 DEF PickedInv
<1>4. CASE UNCHANGED <<file, fdb, p, saving, h>> \/ add_record \/ Other
  BY <1>4 DEF PickedInv, add_record, Other
<1>5. CASE Start
  <2>1. p'.got = <<>>
    BY <1>5, StartValues
  <2>2. p'.tf.idx = 0
    BY <1>5, StartFrame
  <2> QED BY <1>3, <2>1, <2>2
<1>6. CASE Stop
  BY <1>6, FreshFields DEF Stop
<1>7. CASE save_defaults
  <2>1. Same(Memory \ SetFields) /\ p'.got = <<>>
    BY <1>1, <1>7, SaveFrame
  <2>2. Kept({"filts", "tf", "dlg", "want"})
    BY <2>1 DEF Same, Kept, Memory, SetFields
  <2> QED BY <1>2, <2>1, <2>2
<1>8. CASE restore_settings
  <2>1. p'.tf.idx = 0 /\ p'.got = <<>>
    BY <1>1, <1>8, RestoreFrame
  <2> QED BY <1>3, <2>1
<1>9. CASE PanelStep
  <2>1. Same(Memory \ SetFields) /\ p'.got = <<>>
    BY <1>1, <1>9, PanelFrame
  <2>2. Kept({"filts", "tf", "dlg", "want"})
    BY <2>1 DEF Same, Kept, Memory, SetFields
  <2> QED BY <1>2, <2>1, <2>2
<1>10. CASE SortStep
  <2>1. Same(Memory \ SortFields) /\ p'.got = <<>>
    BY <1>1, <1>10, SortFrame
  <2>2. Kept({"filts", "tf", "dlg", "want"})
    BY <2>1 DEF Same, Kept, Memory, SortFields
  <2> QED BY <1>2, <2>1, <2>2
<1>11. CASE FilterStep
  <2>1. p.run /\ BoxesInv /\ PickedInv
    BY <1>1, <1>11, FilterFrame DEF Same
  <2>2. ASSUME NEW i \in DOMAIN p.cbo, fltrSelect(i) PROVE PickedInv'
    <3>1. /\ p'.filts = p.filts /\ p.dlg = "closed" /\ p'.got = <<>> /\ p'.tf.idx = i
          /\ \/ p'.dlg = "list" /\ ~p'.tf.on
             \/ i # Len(p.filts) + 1 /\ p'.want = p.cbo[i]
      BY <1>1, <2>2, SelectFields DEF Kept
    <3>2. p.cbo = p.filts \o <<Edit>> /\ p.filts \in Seq(Entries)
      BY <1>1, <2>1, <3>1 DEF BoxesInv, FilterTypes
    <3>3. CASE p'.dlg = "list" /\ ~p'.tf.on
      BY <3>1, <3>3 DEF PickedInv
    <3>4. CASE i # Len(p.filts) + 1 /\ p'.want = p.cbo[i]
      <4>1. DOMAIN (p.filts \o <<Edit>>) = 1 .. Len(p.filts) + 1
            /\ \A k \in 1 .. Len(p.filts) : (p.filts \o <<Edit>>)[k] = p.filts[k]
        <5>1. Edit \in Entries
          BY DEF Entries
        <5> QED BY <3>2, <5>1
      <4>2. i \in 1 .. Len(p.filts) + 1 /\ Len(p.filts) \in Nat /\ DOMAIN p.filts = 1 .. Len(p.filts)
        BY <2>2, <3>2, <4>1
      <4>3. i \in 1 .. Len(p.filts)
        BY <3>4, <4>2
      <4>4. i \in DOMAIN p.filts /\ p.filts[i] = p.cbo[i]
        BY <3>2, <4>1, <4>2, <4>3
      <4> QED BY <3>1, <3>4, <4>4 DEF PickedInv
    <3> QED BY <3>1, <3>3, <3>4
  <2>3. ASSUME idleFilter PROVE PickedInv'
    <3>1. /\ p'.filts = p.filts /\ p'.dlg = p.dlg /\ p'.want = p.want
          /\ p'.tf.idx = p.tf.idx /\ (p'.tf.on => p.tf.on)
          /\ p'.got = <<>> \/ (p.tf.on /\ p.tf.idx # 0 /\ p'.got = <<p.want, p.tf.idx>>)
      BY <1>1, <2>3, IdleFields DEF Kept
    <3> QED BY <2>1, <3>1 DEF PickedInv
  <2>4. ASSUME NEW r \in DOMAIN p.rows, NEW edit \in BOOLEAN, fltrInfo(r, edit) PROVE PickedInv'
    <3>1. Kept({"filts", "tf", "dlg", "want"}) /\ p'.got = <<>>
      BY <1>1, <2>1, <2>4, RowFields DEF Kept
    <3> QED BY <1>2, <3>1
  <2>5. ASSUME FLTRNEW PROVE PickedInv'
    <3>1. Kept({"filts", "tf", "dlg", "want"}) /\ p'.got = <<>>
      BY <1>1, <2>5, NewFields DEF Kept
    <3> QED BY <1>2, <3>1
  <2>6. ASSUME Reread PROVE PickedInv'
    <3>1. p'.tf.idx = 0 /\ p'.got = <<>>
      BY <2>6 DEF Reread
    <3> QED BY <1>3, <3>1
  <2>7. ASSUME NEW n \in FilterNames \cup {NoName}, FLTRSAVE(n) PROVE PickedInv'
    BY <1>1, <2>6, <2>7, SavedFields
  <2>8. ASSUME FLTRDEL PROVE PickedInv'
    BY <1>1, <2>6, <2>8, DeletedFields
  <2>9. ASSUME FLTRLSTDONE PROVE PickedInv'
    BY <1>1, <1>3, <2>9, DoneFields
  <2>10. ASSUME FLTRCSTCONT \/ FLTRCSTCX PROVE PickedInv'
    <3>1. /\ p'.filts = p.filts /\ p.dlg = "custom" /\ p'.want = p.want /\ p'.tf.idx = p.tf.idx
          /\ p'.got = <<>>
      BY <1>1, <2>10, CustomFields DEF Kept
    <3> QED BY <2>1, <3>1 DEF PickedInv
  <2>11. ASSUME FLTRAGC PROVE PickedInv'
    <3>1. /\ p'.filts = p.filts /\ p'.dlg = "closed" /\ p'.got = <<>>
          /\ (p'.tf = p.tf /\ p'.want = p.want) \/ p'.tf = [idx |-> 0, on |-> TRUE]
      BY <1>1, <2>11, AgcFields DEF Kept
    <3>2. CASE p'.tf = p.tf /\ p'.want = p.want
      BY <2>1, <3>1, <3>2 DEF PickedInv
    <3>3. CASE p'.tf = [idx |-> 0, on |-> TRUE]
      <4>1. p'.tf.idx = 0
        BY <3>3
      <4> QED BY <1>3, <3>1, <4>1
    <3> QED BY <3>1, <3>2, <3>3
  <2> QED BY <1>11, <2>2, <2>3, <2>4, <2>5, <2>7, <2>8, <2>9, <2>10, <2>11 DEF FilterStep
<1> QED BY <1>4, <1>5, <1>6, <1>7, <1>8, <1>9, <1>10, <1>11, SettingsSteps

\* The filter applied is the one whose name was chosen in a combo box, though it is
\* passed on as an index, applied in an idle callback, and the list may be changed
\* and read again between; and the array it is taken from is the one allocated last:
\* fltrSelect, idleFilter, fltrCBack, setFiltCbos, get_settings.  Invariants:
\* ArrayInv, and ChosenInv, in which the boxes offer the array in its order but while
\* the dialog that changes it is up.
THEOREM AppliedIsChosenAlways == Spec => []AppliedIsChosen
<1>1. ASSUME TypesInv, ChosenInv, [Next]_vars PROVE ChosenInv'
  <2> SUFFICES ASSUME p'.run, h'.did \cap {"agcExit", "agcLost", "other"} = {}
               PROVE  BoxesInv' /\ PickedInv'
    BY DEF ChosenInv
  <2>1. h.did \cap {"agcExit", "agcLost", "other"} = {}
    BY <1>1, DidGrows
  <2>2. p.run => BoxesInv /\ PickedInv
    BY <1>1, <2>1 DEF ChosenInv
  <2> QED BY <1>1, <2>2, BoxesStep, PickedStep
<1>2. ASSUME Init PROVE ChosenInv /\ ArrayInv
  <2>1. ~p.run
    BY <1>2, FreshFields DEF Init
  <2> QED BY <2>1 DEF ChosenInv, ArrayInv
<1>3. ArrayInv /\ TypesInv /\ [Next]_vars => ArrayInv'
  BY ArrayInvStep
<1>4. ASSUME ArrayInv, ChosenInv PROVE AppliedIsChosen
  BY <1>4 DEF ArrayInv, ChosenInv, PickedInv, AppliedIsChosen
<1> QED BY <1>1, <1>2, <1>3, <1>4, TypesAlways, PTL DEF Spec



-----------------------------------------------------------------------------
(* The filter deleted is the row picked.                                   *)

LEMMA WiderSeq == ASSUME NEW S, NEW T, S \subseteq T, NEW s \in Seq(S) PROVE s \in Seq(T)
  OBVIOUS

\* After the names the array has AGC and Custom..., which are not stored.
LEMMA AfterNames ==
    ASSUME NEW S \in SUBSET (FilterNames \cup {NoName}), NEW filts, IsArray(filts, S)
    PROVE  /\ \A k \in 1 .. Cardinality(S) : filts[k] = Sorted(S)[k] /\ Sorted(S)[k] \in S
           /\ \A k \in DOMAIN filts : k \notin 1 .. Cardinality(S) => filts[k] \notin S
           /\ Cardinality(S) + 1 <= Len(filts) /\ Cardinality(S) \in Nat
           /\ AGC \notin ToSet(filts) => Len(filts) = Cardinality(S) + 1
<1> DEFINE s == Sorted(S)
           n == Cardinality(S)
<1>1. s \in Seq(S) /\ Len(s) = n /\ n \in Nat
  BY SortedFilters
<1>2. \A k \in 1 .. n : s[k] \in S
  BY <1>1
<1>3. AGC \notin S /\ Custom \notin S /\ S \subseteq Nat
  BY FiniteNames
<1>4. PICK agc \in {<<>>, <<AGC>>} : filts = s \o agc \o <<Custom>>
  BY DEF IsArray
<1>5. \A k \in 1 .. n : filts[k] = s[k]
  BY <1>4, FilterArray
<1>6. s \in Seq(Nat)
  BY <1>1, <1>3, WiderSeq
<1>7. AGC \in Nat /\ Custom \in Nat
  BY DEF AGC, Custom
<1>8. AGC \notin ToSet(filts) => agc = <<>>
  BY <1>4, AgcInArray
<1> HIDE DEF s, n
<1>9. CASE agc = <<>>
  <2>1. s \o <<>> = s
    BY <1>6
  <2>2. filts = s \o <<Custom>>
    BY <1>4, <1>9, <2>1
  <2>3. Len(filts) = n + 1 /\ DOMAIN filts = 1 .. n + 1 /\ filts[n + 1] = Custom
    BY <1>1, <1>6, <1>7, <2>2
  <2>4. \A k \in DOMAIN filts : k \notin 1 .. n => filts[k] \notin S
    <3>1. \A k \in 1 .. n + 1 : k \notin 1 .. n => k = n + 1
      BY <1>1
    <3> QED BY <1>3, <2>3, <3>1
  <2>5. n + 1 <= Len(filts)
    BY <1>1, <2>3
  <2> QED BY <1>1, <1>2, <1>5, <2>3, <2>4, <2>5 DEF s, n
<1>10. CASE agc = <<AGC>>
  <2> DEFINE u == s \o <<AGC>>
  <2>5. u \in Seq(Nat) /\ Len(u) = n + 1 /\ u[n + 1] = AGC
    BY <1>1, <1>6, <1>7
  <2>6. filts = u \o <<Custom>>
    BY <1>4, <1>10
  <2> HIDE DEF u
  <2>7. /\ Len(u \o <<Custom>>) = Len(u) + 1 /\ (u \o <<Custom>>)[Len(u) + 1] = Custom
        /\ DOMAIN (u \o <<Custom>>) = 1 .. Len(u) + 1 /\ (u \o <<Custom>>)[Len(u)] = u[Len(u)]
    <3>1. Len(u) \in Nat \ {0}
      BY <1>1, <2>5
    <3> QED BY <1>7, <2>5, <3>1
  <2>8. n + 1 + 1 = n + 2
    BY <1>1
  <2>1. Len(filts) = n + 2 /\ DOMAIN filts = 1 .. n + 2 /\ filts[n + 1] = AGC /\ filts[n + 2] = Custom
    BY <2>5, <2>6, <2>7, <2>8
  <2>2. \A k \in DOMAIN filts : k \notin 1 .. n => filts[k] \notin S
    <3>1. \A k \in 1 .. n + 2 : k \notin 1 .. n => k = n + 1 \/ k = n + 2
      BY <1>1
    <3> QED BY <1>3, <2>1, <3>1
  <2>3. agc # <<>>
    BY <1>10
  <2>4. n + 1 <= Len(filts)
    BY <1>1, <2>1
  <2> QED BY <1>1, <1>2, <1>5, <1>8, <2>1, <2>2, <2>3, <2>4 DEF s, n
<1> QED BY <1>4, <1>9, <1>10

LEMMA NoAgcInArray ==
    ASSUME NEW S \in SUBSET (FilterNames \cup {NoName})
    PROVE  AGC \notin ToSet(Sorted(S) \o <<>> \o <<Custom>>)
<1> DEFINE s == Sorted(S)
<1>1. s \in Seq(S) /\ Len(s) = Cardinality(S) /\ Len(s) \in Nat
  BY SortedFilters
<1>2. s \in Seq(Nat)
  BY <1>1, FiniteNames
<1>3. \A k \in 1 .. Len(s) : s[k] # AGC
  <2>1. AGC \notin S
    BY FiniteNames
  <2> QED BY <1>1, <2>1
<1> HIDE DEF s
<1>4. s \o <<>> = s
  BY <1>2
<1>9. Custom \in Nat
  BY DEF Custom
<1>5. DOMAIN (s \o <<Custom>>) = 1 .. Len(s) + 1 /\ (s \o <<Custom>>)[Len(s) + 1] = Custom
      /\ \A k \in 1 .. Len(s) : (s \o <<Custom>>)[k] = s[k]
  BY <1>2, <1>9
<1>6. \A k \in 1 .. Len(s) + 1 : k \in 1 .. Len(s) \/ k = Len(s) + 1
  BY <1>1
<1>7. Custom # AGC
  BY DEF Custom, AGC
<1>8. \A k \in DOMAIN (s \o <<Custom>>) : (s \o <<Custom>>)[k] # AGC
  BY <1>3, <1>5, <1>6, <1>7
<1> QED BY <1>4, <1>8 DEF ToSet, s


LEMMA RowsKept ==
    ASSUME RowsInv, Kept({"filts", "rows", "made", "fname", "fsel", "name", "picked"}), fdb' = fdb,
           p'.dlg = "list" => p.dlg = "list", h'.did \cap {"blank", "other"} = {} => h.did \cap {"blank", "other"} = {}
    PROVE  RowsInv'
  BY DEF RowsInv, Kept

\* A filter selected in a combo box, or the dialog opened.
LEMMA RowsSelect ==
    ASSUME TypesInv, RowsInv, NEW i \in DOMAIN p.cbo, fltrSelect(i)
    PROVE  RowsInv'
<1> SUFFICES ASSUME h'.did \cap {"blank", "other"} = {} PROVE RowsInv'
  BY DEF RowsInv
<1>1. SetInv /\ FilterTypes /\ fdb \in SUBSET (FilterNames \cup {NoName})
  BY DEF TypesInv, FilterTypes
<1> DEFINE n == Cardinality(fdb)
<1>2. /\ Kept({"filts", "picked"}) /\ UNCHANGED <<fdb, h>>
      /\ \/ /\ p'.dlg = "list" /\ p'.name = NoName /\ p'.fsel = p.fsel /\ p'.made
            /\ p.made => p'.rows = p.rows /\ p'.fname = p.fname
            /\ ~p.made => ~p'.fname /\ p'.rows = RowsOf(p.filts, p.set)
         \/ /\ Kept({"rows", "made", "name", "fname"})
            /\ \/ i = Len(p.filts) /\ p'.fsel = i /\ p'.dlg = "custom"
               \/ p'.fsel = p.fsel /\ p'.dlg = "closed"
  BY <1>1, SelectFields DEF Kept
<1>3. p.run /\ p'.run /\ p'.filts = p.filts /\ p'.picked = p.picked
  BY <1>2 DEF Kept
<1>4. h.did \cap {"blank", "other"} = {}
  BY <1>2
<1>5. /\ IsArray(p.filts, fdb)
      /\ AGC \in ToSet(p.filts) \/ p.dlg = "list" => p.made
      /\ Len(p.rows) <= n /\ \A r \in DOMAIN p.rows : p.rows[r] = Sorted(fdb)[r]
      /\ p.picked # NoName => /\ ~p.fname
                              /\ p.fsel \in 1 .. n => Sorted(fdb)[p.fsel] = p.picked
                              /\ p.name \in fdb \cup {NoName, AGC, Custom}
  BY <1>3, <1>4 DEF RowsInv
<1>6. /\ \A k \in 1 .. n : p.filts[k] = Sorted(fdb)[k]
      /\ n + 1 <= Len(p.filts) /\ n \in Nat
      /\ AGC \notin ToSet(p.filts) => Len(p.filts) = n + 1
  BY <1>1, <1>5, AfterNames
<1> HIDE DEF n
<1>7. CASE /\ p'.dlg = "list" /\ p'.name = NoName /\ p'.fsel = p.fsel /\ p'.made
           /\ p.made => p'.rows = p.rows /\ p'.fname = p.fname
           /\ ~p.made => ~p'.fname /\ p'.rows = RowsOf(p.filts, p.set)
  <2>1. Len(p'.rows) <= n /\ \A r \in DOMAIN p'.rows : p'.rows[r] = Sorted(fdb)[r]
    <3>1. CASE p.made
      BY <1>5, <1>7, <3>1
    <3>2. CASE ~p.made
      <4>1. p.filts \in Seq(Entries) /\ p.filts # <<>>
        BY <1>1, <1>3 DEF FilterTypes
      <4>2. /\ p'.rows \in Seq(Entries) /\ Len(p'.rows) < Len(p.filts) /\ Len(p'.rows) \in Nat
            /\ \A k \in 1 .. Len(p'.rows) : p'.rows[k] = p.filts[k]
        BY <1>7, <3>2, <4>1, RowsTypes
      <4>3. Len(p.filts) = n + 1
        BY <1>5, <1>6, <3>2
      <4>4. Len(p'.rows) <= n
        BY <1>6, <4>2, <4>3
      <4>5. \A k \in 1 .. Len(p'.rows) : k \in 1 .. n
        BY <1>6, <4>2, <4>4
      <4>6. DOMAIN p'.rows = 1 .. Len(p'.rows)
        BY <4>2
      <4> QED BY <1>6, <4>2, <4>4, <4>5, <4>6
    <3> QED BY <3>1, <3>2
  <2>2. p.picked # NoName => ~p'.fname
    BY <1>5, <1>7
  <2> QED BY <1>2, <1>3, <1>5, <1>7, <2>1, <2>2 DEF RowsInv, n
<1>8. CASE /\ Kept({"rows", "made", "name", "fname"})
           /\ \/ i = Len(p.filts) /\ p'.fsel = i /\ p'.dlg = "custom"
              \/ p'.fsel = p.fsel /\ p'.dlg = "closed"
  <2>1. p'.rows = p.rows /\ p'.made = p.made /\ p'.name = p.name /\ p'.fname = p.fname /\ p'.dlg # "list"
    BY <1>8 DEF Kept
  <2>2. p.picked # NoName => (p'.fsel \in 1 .. n => Sorted(fdb)[p'.fsel] = p.picked)
    <3>1. CASE p'.fsel = p.fsel
      BY <1>5, <3>1
    <3>2. CASE p'.fsel = Len(p.filts)
      <4>1. \A x \in Nat : n + 1 <= x => x \notin 1 .. n
        BY <1>6
      <4>2. Len(p.filts) \in Nat
        BY <1>1, <1>3 DEF FilterTypes
      <4> QED BY <1>6, <3>2, <4>1, <4>2
    <3> QED BY <1>8, <3>1, <3>2
  <2> QED BY <1>2, <1>3, <1>5, <2>1, <2>2 DEF RowsInv, n
<1> QED BY <1>2, <1>7, <1>8

\* A row clicked.
LEMMA RowsRow ==
    ASSUME TypesInv, RowsInv, p.run, NEW r \in DOMAIN p.rows, NEW edit \in BOOLEAN, fltrInfo(r, edit)
    PROVE  RowsInv'
<1> SUFFICES ASSUME h'.did \cap {"blank", "other"} = {} PROVE RowsInv'
  BY DEF RowsInv
<1>1. SetInv /\ FilterTypes /\ fdb \in SUBSET (FilterNames \cup {NoName})
  BY DEF TypesInv, FilterTypes
<1>2. /\ p'.filts = p.filts /\ p'.rows = p.rows /\ p'.made = p.made /\ p'.dlg = p.dlg
      /\ UNCHANGED <<fdb, h>> /\ p'.fsel = r /\ p'.name = p.filts[r] /\ ~p'.fname /\ p'.picked = p.rows[r]
  BY <1>1, RowFields DEF Kept
<1>3. /\ IsArray(p.filts, fdb)
      /\ AGC \in ToSet(p.filts) \/ p.dlg = "list" => p.made
      /\ Len(p.rows) <= Cardinality(fdb) /\ \A k \in DOMAIN p.rows : p.rows[k] = Sorted(fdb)[k]
  BY <1>2 DEF RowsInv
<1>4. /\ \A k \in 1 .. Cardinality(fdb) : p.filts[k] = Sorted(fdb)[k] /\ Sorted(fdb)[k] \in fdb
      /\ Cardinality(fdb) \in Nat
  BY <1>1, <1>3, AfterNames
<1>5. r \in 1 .. Cardinality(fdb)
  <2>1. p.rows \in Seq(Entries)
    BY <1>1 DEF FilterTypes
  <2>2. r \in 1 .. Len(p.rows) /\ Len(p.rows) \in Nat
    BY <2>1
  <2>3. \A m, c \in Nat : m <= c => \A k \in 1 .. m : k \in 1 .. c
    OBVIOUS
  <2> QED BY <1>3, <1>4, <2>2, <2>3
<1>6. p'.name \in fdb /\ Sorted(fdb)[r] = p.rows[r]
  BY <1>2, <1>3, <1>4, <1>5
<1> QED BY <1>2, <1>3, <1>6 DEF RowsInv


\* SAVE under the name of the row picked replaces the filter.
LEMMA RowsSave ==
    ASSUME TypesInv, RowsInv, NEW n \in FilterNames \cup {NoName}, FLTRSAVE(n)
    PROVE  RowsInv'
<1> SUFFICES ASSUME h'.did \cap {"blank", "other"} = {} PROVE RowsInv'
  BY DEF RowsInv
<1>1. SetInv /\ FilterTypes /\ fdb \in SUBSET (FilterNames \cup {NoName})
      /\ DOMAIN h = {"saved", "old", "torn", "other", "did"}
  BY DEF TypesInv, FilterTypes
<1>2. /\ Kept({"fsel", "made", "dlg", "picked"}) /\ Reread /\ ~p'.fname
      /\ p.dlg = "list" /\ fdb' = fdb \cup {n} /\ (~p.fname => n = p.name)
      /\ h' = [h EXCEPT !.did = @ \cup (IF p.panel THEN {"panelOpen"} ELSE {})
                                  \cup (IF n = NoName THEN {"blank"} ELSE {})]
  BY <1>1, SavedFields DEF Kept
<1>3. p.run /\ p'.fsel = p.fsel /\ p'.made = p.made /\ p'.dlg = p.dlg /\ p'.picked = p.picked
  BY <1>2 DEF Kept
<1>4. h.did \cap {"blank", "other"} = {} /\ n # NoName
  BY <1>1, <1>2
<1>5. /\ p.made
      /\ p.picked # NoName => /\ ~p.fname
                              /\ p.fsel \in 1 .. Cardinality(fdb) => Sorted(fdb)[p.fsel] = p.picked
                              /\ p.name \in fdb \cup {NoName, AGC, Custom}
  BY <1>2, <1>3, <1>4 DEF RowsInv
<1>6. fdb' \in SUBSET (FilterNames \cup {NoName})
  BY <1>1, <1>2
<1>7. /\ IsArray(p'.filts, fdb') /\ Len(p'.rows) = Cardinality(fdb') /\ p'.rows \in Seq(Entries)
      /\ \A k \in 1 .. Len(p'.rows) : p'.rows[k] = Sorted(fdb')[k]
  BY <1>2, <1>6, RereadTypes
<1>8. Len(p'.rows) <= Cardinality(fdb') /\ \A k \in DOMAIN p'.rows : p'.rows[k] = Sorted(fdb')[k]
  <2>1. DOMAIN p'.rows = 1 .. Len(p'.rows) /\ Len(p'.rows) \in Nat
    BY <1>7
  <2> QED BY <1>7, <2>1
<1>9. p'.name = NoName
  BY <1>2 DEF Reread
<1>10. p.picked # NoName => fdb' = fdb
  <2> SUFFICES ASSUME p.picked # NoName PROVE n \in fdb
    BY <1>2
  <2>1. AGC \notin FilterNames \cup {NoName} /\ Custom \notin FilterNames \cup {NoName}
    BY FiniteNames
  <2> QED BY <1>2, <1>4, <1>5, <2>1
<1>11. p'.picked # NoName => /\ ~p'.fname
                             /\ p'.fsel \in 1 .. Cardinality(fdb') => Sorted(fdb')[p'.fsel] = p'.picked
                             /\ p'.name \in fdb' \cup {NoName, AGC, Custom}
  BY <1>2, <1>3, <1>5, <1>9, <1>10
<1> QED BY <1>3, <1>5, <1>7, <1>8, <1>11 DEF RowsInv

LEMMA RowsDelete ==
    ASSUME TypesInv, RowsInv, FLTRDEL PROVE RowsInv'
<1> SUFFICES ASSUME h'.did \cap {"blank", "other"} = {} PROVE RowsInv'
  BY DEF RowsInv
<1>1. SetInv /\ FilterTypes /\ fdb \in SUBSET (FilterNames \cup {NoName})
      /\ DOMAIN h = {"saved", "old", "torn", "other", "did"}
  BY DEF TypesInv, FilterTypes
<1>2. /\ Kept({"made", "dlg"}) /\ Reread /\ p'.picked = NoName
      /\ p.dlg = "list" /\ fdb' = fdb \ {p.filts[p.fsel]}
      /\ h' = IF p.panel THEN [h EXCEPT !.did = @ \cup {"panelOpen"}] ELSE h
  BY <1>1, DeletedFields DEF Kept
<1>3. p.run /\ p'.made = p.made /\ p'.dlg = p.dlg
  BY <1>2 DEF Kept
<1>4. h.did \cap {"blank", "other"} = {}
  BY <1>1, <1>2
<1>5. p.made
  BY <1>2, <1>3, <1>4 DEF RowsInv
<1>6. fdb' \in SUBSET (FilterNames \cup {NoName})
  BY <1>1, <1>2
<1>7. /\ IsArray(p'.filts, fdb') /\ Len(p'.rows) = Cardinality(fdb') /\ p'.rows \in Seq(Entries)
      /\ \A k \in 1 .. Len(p'.rows) : p'.rows[k] = Sorted(fdb')[k]
  BY <1>2, <1>6, RereadTypes
<1>8. Len(p'.rows) <= Cardinality(fdb') /\ \A k \in DOMAIN p'.rows : p'.rows[k] = Sorted(fdb')[k]
  <2>1. DOMAIN p'.rows = 1 .. Len(p'.rows) /\ Len(p'.rows) \in Nat
    BY <1>7
  <2> QED BY <1>7, <2>1
<1> QED BY <1>2, <1>3, <1>5, <1>7, <1>8 DEF RowsInv

LEMMA RowsStep == ASSUME TypesInv, RowsInv, [Next]_vars PROVE RowsInv'
<1> DEFINE names == {"filts", "rows", "made", "fname", "fsel", "name", "picked"}
<1>1. /\ SetInv /\ SortTypes /\ FilterTypes /\ DOMAIN h = {"saved", "old", "torn", "other", "did"}
      /\ fdb \in SUBSET (FilterNames \cup {NoName})
  BY DEF TypesInv, FilterTypes
<1>2. h'.did \cap {"blank", "other"} = {} => h.did \cap {"blank", "other"} = {}
  BY DidGrows
<1>3. ASSUME Kept(names), fdb' = fdb, p'.dlg = "list" => p.dlg = "list" PROVE RowsInv'
  BY <1>2, <1>3, RowsKept
<1>4. CASE UNCHANGED <<file, fdb, p, saving, h>> \/ add_record
  BY <1>2, <1>4 DEF RowsInv, add_record
<1>5. CASE Other
  <2>1. p' = p /\ ((fdb' = fdb /\ h' = [h EXCEPT !.other = TRUE]) \/ h' = [h EXCEPT !.did = @ \cup {"other"}])
    BY <1>5 DEF Other
  <2>2. fdb' = fdb \/ "other" \in h'.did
    BY <1>1, <2>1
  <2> QED BY <1>2, <2>1, <2>2 DEF RowsInv
<1>6. CASE Start
  <2>1. fdb' = fdb /\ p'.filts = Sorted(fdb) \o <<>> \o <<Custom>>
    BY <1>6, StartFrame
  <2>2. p'.rows = <<>> /\ p'.picked = NoName /\ p'.dlg = "closed"
    BY <1>6, StartValues
  <2>3. AGC \notin ToSet(p'.filts)
    BY <1>1, <2>1, NoAgcInArray
  <2>4. IsArray(p'.filts, fdb')
    BY <2>1 DEF IsArray
  <2>5. Len(p'.rows) <= Cardinality(fdb') /\ \A k \in DOMAIN p'.rows : p'.rows[k] = Sorted(fdb')[k]
    <3>1. Cardinality(fdb) \in Nat
      BY <1>1, SortedFilters
    <3> QED BY <2>1, <2>2, <3>1
  <2> QED BY <2>2, <2>3, <2>4, <2>5 DEF RowsInv
<1>7. CASE Stop
  BY <1>7, FreshFields DEF Stop, RowsInv
<1>8. CASE save_defaults
  <2>1. Same(Memory \ SetFields) /\ fdb' = fdb
    BY <1>1, <1>8, SaveFrame
  <2>2. Kept(names) /\ p'.dlg = p.dlg
    BY <2>1 DEF Same, Kept, Memory, SetFields
  <2> QED BY <1>3, <2>1, <2>2
<1>9. CASE restore_settings
  <2>1. /\ Same(Memory \ (SetFields \cup ReadFields)) /\ fdb' = fdb /\ p.dlg = "closed"
        /\ p'.filts = Sorted(fdb) \o <<>> \o <<Custom>>
    BY <1>1, <1>9, RestoreFrame DEF restore_settings, Panel, Idle
  <2>2. Kept({"rows", "made", "fname", "fsel", "name", "picked", "dlg"})
    BY <2>1 DEF Same, Kept, Memory, SetFields, ReadFields
  <2>3. AGC \notin ToSet(p'.filts)
    BY <1>1, <2>1, NoAgcInArray
  <2>4. IsArray(p'.filts, fdb')
    BY <2>1 DEF IsArray
  <2> QED BY <1>2, <2>1, <2>2, <2>3, <2>4 DEF RowsInv, Kept
<1>10. CASE PanelStep
  <2>1. Same(Memory \ SetFields) /\ fdb' = fdb
    BY <1>1, <1>10, PanelFrame
  <2>2. Kept(names) /\ p'.dlg = p.dlg
    BY <2>1 DEF Same, Kept, Memory, SetFields
  <2> QED BY <1>3, <2>1, <2>2
<1>11. CASE SortStep
  <2>1. Same(Memory \ SortFields) /\ fdb' = fdb
    BY <1>1, <1>11, SortFrame
  <2>2. Kept(names) /\ p'.dlg = p.dlg
    BY <2>1 DEF Same, Kept, Memory, SortFields
  <2> QED BY <1>3, <2>1, <2>2
<1>12. CASE FilterStep
  <2>1. p.run
    BY <1>1, <1>12, FilterFrame DEF Same
  <2>2. ASSUME idleFilter PROVE RowsInv'
    <3>1. Kept(names) /\ fdb' = fdb /\ p'.dlg = p.dlg
      BY <1>1, <2>2, IdleFields DEF Kept
    <3> QED BY <1>3, <3>1
  <2>3. ASSUME FLTRNEW PROVE RowsInv'
    <3>1. /\ Kept({"filts", "rows", "made", "dlg"}) /\ fdb' = fdb /\ p'.picked = NoName
      BY <1>1, <2>3, NewFields DEF Kept
    <3> QED BY <1>2, <3>1 DEF RowsInv, Kept
  <2>4. ASSUME FLTRLSTDONE PROVE RowsInv'
    <3>1. Kept(names) /\ fdb' = fdb /\ p'.dlg = "closed"
      BY <1>1, <2>4, DoneFields DEF Kept
    <3> QED BY <1>3, <3>1
  <2>5. ASSUME FLTRCSTCONT \/ FLTRCSTCX PROVE RowsInv'
    <3>1. Kept(names) /\ fdb' = fdb /\ p'.dlg = "closed"
      BY <1>1, <2>5, CustomFields DEF Kept
    <3> QED BY <1>3, <3>1
  <2>6. ASSUME FLTRAGC PROVE RowsInv'
    <3>1. Kept(names) /\ fdb' = fdb /\ p'.dlg = "closed"
      BY <1>1, <2>6, AgcFields DEF Kept
    <3> QED BY <1>3, <3>1
  <2> QED BY <1>12, <2>1, <2>2, <2>3, <2>4, <2>5, <2>6, RowsSelect, RowsRow, RowsSave, RowsDelete DEF FilterStep
<1> QED BY <1>4, <1>5, <1>6, <1>7, <1>8, <1>9, <1>10, <1>11, <1>12, SettingsSteps

\* What leaves filters.db is the row picked, or was removed by another instance.
LEMMA DeletesStep ==
    ASSUME TypesInv, RowsInv, [Next]_vars, p.run, p'.run, p.dlg = "list", p.picked # NoName,
           h'.did \cap {"blank", "other"} = {}
    PROVE  fdb \ fdb' \subseteq {p.picked}
<1>1. /\ SetInv /\ SortTypes /\ FilterTypes /\ DOMAIN h = {"saved", "old", "torn", "other", "did"}
      /\ fdb \in SUBSET (FilterNames \cup {NoName})
  BY DEF TypesInv, FilterTypes
<1>2. h.did \cap {"blank", "other"} = {}
  BY DidGrows
<1>3. CASE fdb \subseteq fdb'
  BY <1>3
<1>4. CASE UNCHANGED <<file, fdb, p, saving, h>> \/ add_record \/ Start \/ Stop \/ save_defaults \/ restore_settings
  BY <1>3, <1>4 DEF add_record, Start, Stop, save_defaults, restore_settings
<1>5. CASE Other
  <2>1. fdb' = fdb \/ h' = [h EXCEPT !.did = @ \cup {"other"}]
    BY <1>5 DEF Other
  <2> QED BY <1>1, <1>3, <2>1
<1>6. CASE PanelStep
  BY <1>1, <1>3, <1>6, PanelFrame
<1>7. CASE SortStep
  BY <1>1, <1>3, <1>7, SortFrame
<1>8. CASE FLTRDEL
  <2>1. p.fsel \in DOMAIN p.filts /\ fdb' = fdb \ {p.filts[p.fsel]}
    BY <1>1, <1>8, DeletedFields
  <2>2. /\ IsArray(p.filts, fdb)
        /\ p.fsel \in 1 .. Cardinality(fdb) => Sorted(fdb)[p.fsel] = p.picked
    BY <1>2 DEF RowsInv
  <2>3. /\ \A k \in 1 .. Cardinality(fdb) : p.filts[k] = Sorted(fdb)[k]
        /\ \A k \in DOMAIN p.filts : k \notin 1 .. Cardinality(fdb) => p.filts[k] \notin fdb
    BY <1>1, <2>2, AfterNames
  <2> QED BY <2>1, <2>2, <2>3
<1>9. CASE FilterStep /\ ~FLTRDEL
  <2>1. fdb \subseteq fdb'
    BY <1>9 DEF FilterStep, fltrSelect, idleFilter, fltrInfo, FLTRSAVE, FLTRNEW,
                FLTRLSTDONE, FLTRCSTCONT, FLTRCSTCX, FLTRAGC, Keep
  <2> QED BY <1>3, <2>1
<1> QED BY <1>4, <1>5, <1>6, <1>7, <1>8, <1>9, SettingsSteps

\* DELETE removes the filter of the row clicked last and no other, also after the
\* list was saved to and read again and the rows filled from it: fltrInfo, fltrCBack,
\* displayFilter, readFilters.  The invariant RowsInv relates three orders: the names
\* stored, the array read of them, and the rows, which Restore does not fill again.
THEOREM DeletesPickedAlways == Spec => DeletesPicked
<1>1. ASSUME Init PROVE RowsInv
  <2>1. ~p.run
    BY <1>1, FreshFields DEF Init
  <2> QED BY <2>1 DEF RowsInv
<1>2. TypesInv /\ RowsInv /\ [Next]_vars => RowsInv'
  BY RowsStep
<1>3. TypesInv /\ RowsInv /\ [Next]_vars =>
        [p.run /\ p'.run /\ p.dlg = "list" /\ p.picked # NoName /\ h'.did \cap {"blank", "other"} = {} =>
            fdb \ fdb' \subseteq {p.picked}]_vars
  BY DeletesStep
<1> QED BY <1>1, <1>2, <1>3, TypesAlways, PTL DEF Spec, DeletesPicked
=============================================================================
