---------------------------- MODULE ScreensProofs ----------------------------
(***************************************************************************)
(* Proofs about the pages of the notebook (Screens): every handler takes a *)
(* well-typed state to a well-typed state (TypeCorrect), no area on the    *)
(* page that is up is left with a pixmap that was given back               *)
(* (AliveAlways), and the areas of the traces show what is now selected    *)
(* (TraceFreshAlways).                                                     *)
(***************************************************************************)
EXTENDS Screens, SequenceTheorems, TLAPS

-----------------------------------------------------------------------------
(* Slots and areas.                                                        *)

\* Each page has slots of its own, and the panes have theirs.
LEMMA SlotFacts ==
    /\ \A k \in Kinds : MainSlots(k) \subseteq Slots
    /\ \A k \in Kinds, v \in Views, t \in OnOff : Key(k, v, t) \in MainSlots(k)
    /\ \A k \in Kinds : None(k) \in MainSlots(k)
    /\ SplitSlots \subseteq Slots
    /\ \A p \in Panes, k \in Kinds : <<p, k>> \in SplitSlots
    /\ \A K \in SUBSET Kinds : TwoPanes(K) \subseteq Slots
<1>1. \A k \in Kinds : MainSlots(k) \subseteq Slots
  BY DEF Slots
<1>2. \A k \in Kinds, v \in Views, t \in OnOff : Key(k, v, t) \in MainSlots(k)
  BY DEF MainSlots
<1>3. \A k \in Kinds : None(k) \in MainSlots(k)
  BY DEF MainSlots
<1>4. SplitSlots \subseteq Slots
  BY Zenon DEF Slots
<1>5. \A p \in Panes, k \in Kinds : <<p, k>> \in SplitSlots
  BY DEF SplitSlots
<1>6. \A K \in SUBSET Kinds : TwoPanes(K) \subseteq Slots
  BY <1>4 DEF TwoPanes, SplitSlots
<1>7. QED
  BY <1>1, <1>2, <1>3, <1>4, <1>5, <1>6

LEMMA SlotsApart ==
    /\ \A k \in Kinds : MainSlots(k) \cap SplitSlots = {}
    /\ \A k, l \in Kinds : k # l => MainSlots(k) \cap MainSlots(l) = {}
<1>1. ASSUME NEW k \in Kinds, NEW i \in MainSlots(k)  PROVE  i[1] = k
  BY DEF MainSlots, Key, None, Kinds
<1>2. \A i \in SplitSlots : i[1] \in Panes
  BY DEF SplitSlots
<1>3. Panes \cap Kinds = {}
  BY DEF Panes, Kinds
<1>4. QED
  BY <1>1, <1>2, <1>3

LEMMA AreaFacts ==
    /\ \A k \in Kinds : Area(k) \in Areas
    /\ \A p \in Panes : {p} \X Places(p) \subseteq Areas
    /\ \A a \in Areas : \/ \E k \in Kinds : a = Area(k)
                        \/ \E p \in Panes : a \in {p} \X Places(p)
    /\ \A k \in Kinds, p \in Panes : Area(k) \notin {p} \X Places(p)
    /\ \A k \in Kinds : Area(k)[1] = "MAIN" /\ Area(k)[2] = k
<1>1. \A k \in Kinds, p \in Panes : Area(k) \notin {p} \X Places(p)
  BY DEF Area, Panes
<1>2. QED
  BY <1>1 DEF Areas, Area

-----------------------------------------------------------------------------
(* Fields of the state.                                                    *)

LEMMA FieldNames ==
    Fields = {"page", "screen", "panes", "lay", "busy", "sel", "tf", "view", "old", "pix", "half",
              "user", "vline", "gr", "curScr", "reset", "refresh", "resetAll", "refreshH", "resetH",
              "dirty", "selChanged", "pm", "fft", "shown", "resize", "drag", "filter", "crashed",
              "dead", "drawn", "lost", "left"}
BY DEF Fields, Types

LEMMA FieldTypes ==
    ASSUME NEW s, Typed(s)
    PROVE  /\ s.page \in Pages /\ s.screen \in Screens /\ s.panes \in Panes
           /\ s.lay \in [SPLIT2 : [TOP : Kinds, MID : {"TRACE", "NONE"}, BOT : Kinds],
                         SPLIT3 : [TOP : Kinds, MID : Kinds, BOT : Kinds]]
           /\ s.busy \in BOOLEAN /\ s.sel \in BOOLEAN /\ s.tf \in OnOff
           /\ s.view \in [Kinds -> Views] /\ s.old \in [Kinds -> Slots]
           /\ s.pix \in [Screens -> Windows \cup {NoWin}] /\ s.half \in SUBSET Screens
           /\ s.user \in Windows \cup {NoWin} /\ s.vline \in 0..2 /\ s.gr \in SUBSET Screens
           /\ s.curScr \in Areas /\ s.reset \in SUBSET Kinds /\ s.refresh \in SUBSET Kinds
           /\ s.resetAll \in BOOLEAN /\ s.refreshH \in SUBSET TwoPanes(Kinds)
           /\ s.resetH \in SUBSET Areas /\ s.dirty \in BOOLEAN /\ s.selChanged \in BOOLEAN
           /\ s.pm \in [Slots -> Contents] /\ s.fft \in Contents
           /\ s.shown \in [Areas -> Slots \cup {<<>>}] /\ s.resize \in SUBSET Areas
           /\ s.drag \in BOOLEAN /\ s.filter \in BOOLEAN /\ s.crashed \in BOOLEAN
           /\ s.dead \in SUBSET Areas /\ s.drawn \in SUBSET Areas
           /\ s.lost \in SUBSET Exempt /\ s.left \in SUBSET Areas
BY FieldNames DEF Typed, Types

\* t is s but for the fields in F.
Only(s, t, F) == DOMAIN t = Fields /\ \A x \in Fields \ F : t[x] = s[x]

\* Only the fields that changed need to be looked at again.
LEMMA Retyped ==
    ASSUME NEW s, Typed(s), NEW t, NEW F, Only(s, t, F), \A x \in F : t[x] \in Types[x]
    PROVE  Typed(t)
BY DEF Typed, Only

-----------------------------------------------------------------------------
(* Updates of the state: pixmaps, flags, the window.                       *)

\* What Alive looks at.
SceneFields == {"page", "panes", "lay", "resize", "dead", "left", "shown"}

\* A step from s to t within the types that leaves the scene alone.
Quiet(s, t) == Typed(t) /\ DOMAIN t = Fields /\ \A x \in SceneFields : t[x] = s[x]

LEMMA QuietStep ==
    ASSUME NEW s, Typed(s), NEW t, NEW F, Only(s, t, F), \A x \in F : t[x] \in Types[x],
           F \cap SceneFields = {}
    PROVE  Quiet(s, t)
<1>1. Typed(t)
  BY Retyped
<1>2. SceneFields \subseteq Fields
  BY FieldNames DEF SceneFields
<1>3. QED
  BY <1>1, <1>2 DEF Quiet, Only

LEMMA QuietTrans ==
    ASSUME NEW s, NEW t, NEW u, Quiet(s, t), Quiet(t, u)
    PROVE  Quiet(s, u)
BY DEF Quiet

LEMMA UnrefType ==
    ASSUME NEW s, Typed(s), NEW S
    PROVE  /\ Typed(Unref(s, S))
           /\ Only(s, Unref(s, S), {"pm", "dead"})
           /\ \A i \in Slots : i \in S => Unref(s, S).pm[i] = "none"
           /\ \A i \in Slots : i \notin S => Unref(s, S).pm[i] = s.pm[i]
           /\ Unref(s, S).dead \subseteq s.dead \cup {a \in Areas : s.shown[a] \in S}
<1> DEFINE P == [i \in Slots |-> IF i \in S THEN "none" ELSE s.pm[i]]
           D == s.dead \cup {a \in Areas : s.shown[a] \in S /\ s.pm[s.shown[a]] # "none"}
<1>1. P \in Types.pm
  BY FieldTypes DEF Types, Contents
<1>2. D \in Types.dead
  BY FieldTypes DEF Types
<1>3. Unref(s, S) = [s EXCEPT !.pm = P, !.dead = D]
  BY DEF Unref
<1>4. /\ Only(s, Unref(s, S), {"pm", "dead"}) /\ Unref(s, S).pm = P /\ Unref(s, S).dead = D
  <2> HIDE DEF P, D
  <2> QED  BY <1>3, FieldNames DEF Only, Typed
<1>5. Typed(Unref(s, S))
  <2> HIDE DEF P, D
  <2> QED  BY <1>1, <1>2, <1>4, Retyped
<1>6. QED
  BY <1>4, <1>5

LEMMA DrawType ==
    ASSUME NEW s, Typed(s), NEW i \in Slots, NEW c \in Contents
    PROVE  Quiet(s, Draw(s, i, c))
<1>1. Only(s, Draw(s, i, c), {"pm"})
  BY FieldNames DEF Only, Typed, Draw
<1>2. Draw(s, i, c).pm \in Types.pm
  BY FieldTypes, FieldNames DEF Types, Draw, Typed
<1>3. QED
  BY <1>1, <1>2, QuietStep DEF SceneFields

LEMMA ShowType ==
    ASSUME NEW s, Typed(s), NEW a \in Areas, NEW i \in Slots
    PROVE  /\ Typed(Show(s, a, i)) /\ Only(s, Show(s, a, i), {"shown", "dead", "left", "drawn"})
           /\ Show(s, a, i).shown = [s.shown EXCEPT ![a] = i]
           /\ Show(s, a, i).dead = s.dead \ {a} /\ Show(s, a, i).left = s.left \ {a}
<1>1. /\ Only(s, Show(s, a, i), {"shown", "dead", "left", "drawn"})
      /\ Show(s, a, i).shown = [s.shown EXCEPT ![a] = i]
      /\ Show(s, a, i).dead = s.dead \ {a} /\ Show(s, a, i).left = s.left \ {a}
      /\ Show(s, a, i).drawn = s.drawn \cup {a}
  BY FieldNames DEF Only, Typed, Show
<1>2. /\ [s.shown EXCEPT ![a] = i] \in Types.shown /\ s.dead \ {a} \in Types.dead
      /\ s.left \ {a} \in Types.left /\ s.drawn \cup {a} \in Types.drawn
  BY FieldTypes DEF Types
<1>3. \A x \in {"shown", "dead", "left", "drawn"} : Show(s, a, i)[x] \in Types[x]
  BY <1>1, <1>2
<1>4. QED
  BY <1>1, <1>3, Retyped

LEMMA AgeType ==
    ASSUME NEW s, Typed(s), NEW S
    PROVE  Quiet(s, Age(s, S)) /\ Only(s, Age(s, S), {"pm"})
<1> DEFINE P == [i \in Slots |-> IF i \in S /\ s.pm[i] \in Windows \cup {"ok"} THEN "old" ELSE s.pm[i]]
<1>1. P \in Types.pm
  BY FieldTypes DEF Types, Contents
<1>2. Age(s, S) = [s EXCEPT !.pm = P]
  BY DEF Age
<1>3. Only(s, Age(s, S), {"pm"}) /\ Age(s, S).pm = P
  <2> HIDE DEF P
  <2> QED  BY <1>2, FieldNames DEF Only, Typed
<1>4. QED
  BY <1>1, <1>3, QuietStep DEF SceneFields

LEMMA AgeFFTType ==
    ASSUME NEW s, Typed(s)
    PROVE  Quiet(s, AgeFFT(s)) /\ Only(s, AgeFFT(s), {"fft"})
<1>1. Only(s, AgeFFT(s), {"fft"}) /\ AgeFFT(s).fft \in {s.fft, "old"}
  BY FieldNames DEF Only, Typed, AgeFFT
<1>2. s.fft \in Types.fft /\ "old" \in Types.fft
  BY FieldTypes DEF Types, Contents
<1>3. QED
  BY <1>1, <1>2, QuietStep DEF SceneFields

LEMMA CurWinType ==
    ASSUME NEW s, Typed(s), ~Nothing(s)
    PROVE  CurWin(s) \in Windows /\ CurWin(s) \in Contents
BY FieldTypes DEF CurWin, Nothing, Contents

LEMMA PlotFilesType ==
    ASSUME NEW s, Typed(s), NEW i \in Slots
    PROVE  Quiet(s, plot_files(s, i))
<1> DEFINE t == plot_files(s, i)
<1>1. /\ Only(s, t, {"pm", "gr", "lost", "pix"})
      /\ t.pm = [s.pm EXCEPT ![i] = "ok"] /\ t.gr = s.gr \cup {s.screen}
      /\ t.lost \in {s.lost, s.lost \cup {"take"}}
      /\ \E w \in {s.pix[s.screen], s.user, s.pix["MAIN"]} : t.pix = [s.pix EXCEPT ![s.screen] = w]
  BY FieldNames DEF Only, Typed, plot_files
<1>2. /\ [s.pm EXCEPT ![i] = "ok"] \in Types.pm /\ s.gr \cup {s.screen} \in Types.gr
      /\ s.lost \in Types.lost /\ s.lost \cup {"take"} \in Types.lost
      /\ \A w \in {s.pix[s.screen], s.user, s.pix["MAIN"]} : [s.pix EXCEPT ![s.screen] = w] \in Types.pix
  BY FieldTypes DEF Types, Contents, Exempt, Screens
<1>3. t.pm \in Types.pm /\ t.gr \in Types.gr /\ t.lost \in Types.lost /\ t.pix \in Types.pix
  BY <1>1, <1>2
<1> HIDE DEF t
<1>4. \A x \in {"pm", "gr", "lost", "pix"} : t[x] \in Types[x]
  BY <1>3
<1>5. Quiet(s, t)
  BY <1>1, <1>4, QuietStep DEF SceneFields
<1>6. QED
  BY <1>5 DEF t


LEMMA MagnifyType ==
    ASSUME NEW s, Typed(s), NEW i \in Slots, ~Nothing(s)
    PROVE  Quiet(s, magnify_proc(s, i))
<1> DEFINE t == magnify_proc(s, i)
           F == {"pm", "user", "vline", "pix", "half", "lost"}
<1>1. CASE s.screen \notin s.gr
  <2>1. t = Draw(s, i, "blank")
    BY <1>1 DEF magnify_proc
  <2>2. QED
    BY <2>1, DrawType DEF Contents
<1>2. CASE s.screen \in s.gr
  <2>1. /\ Only(s, t, F)
        /\ t.pm = [s.pm EXCEPT ![i] = CurWin(s)] /\ t.user = CurWin(s) /\ t.vline = 0
        /\ t.pix = [s.pix EXCEPT ![s.screen] = CurWin(s)] /\ t.half = s.half \ {s.screen}
        /\ t.lost \in {s.lost, s.lost \ {"order"}}
    BY <1>2, FieldNames DEF Only, Typed, magnify_proc
  <2>2. /\ [s.pm EXCEPT ![i] = CurWin(s)] \in Types.pm /\ CurWin(s) \in Types.user /\ 0 \in Types.vline
        /\ [s.pix EXCEPT ![s.screen] = CurWin(s)] \in Types.pix /\ s.half \ {s.screen} \in Types.half
        /\ s.lost \in Types.lost /\ s.lost \ {"order"} \in Types.lost
    BY FieldTypes, CurWinType DEF Types
  <2>3. \A x \in F : t[x] \in Types[x]
    BY <2>1, <2>2
  <2>4. QED
    BY <2>1, <2>3, QuietStep DEF SceneFields
<1>3. QED
  BY <1>1, <1>2

LEMMA TransformType ==
    ASSUME NEW s, Typed(s), NEW i \in Slots, NEW r \in BOOLEAN, ~Nothing(s)
    PROVE  Quiet(s, transform_proc(s, i, r))
<1> DEFINE t == transform_proc(s, i, r)
           F == {"pm", "fft", "lost", "half"}
           data == IF r THEN CurWin(s) ELSE s.fft
<1>1. /\ Only(s, t, F)
      /\ t.pm = [s.pm EXCEPT ![i] = data] /\ t.fft = data /\ t.lost \subseteq s.lost \cup {"cross"}
      /\ t.half \in {s.half, s.half \ {s.screen}}
  BY FieldNames DEF Only, Typed, transform_proc
<1>2. data \in Contents
  BY FieldTypes, CurWinType
<1> HIDE DEF data
<1>3. /\ [s.pm EXCEPT ![i] = data] \in Types.pm /\ data \in Types.fft
      /\ \A l : l \subseteq s.lost \cup {"cross"} => l \in Types.lost
      /\ s.half \in Types.half /\ s.half \ {s.screen} \in Types.half
  BY <1>2, FieldTypes DEF Types, Exempt
<1>4. \A x \in F : t[x] \in Types[x]
  BY <1>1, <1>3
<1>5. QED
  BY <1>1, <1>4, QuietStep DEF SceneFields

LEMMA SelectionType ==
    ASSUME NEW s, Typed(s), NEW b \in BOOLEAN
    PROVE  Quiet(s, makeSelectionList(s, b)) /\ makeSelectionList(s, b).refreshH = s.refreshH
<1> DEFINE q == AgeFFT(Age(s, Slots \ MainSlots("TRACE")))
           t == makeSelectionList(s, b)
           F == {"sel", "reset", "user", "vline", "dirty", "selChanged"}
<1>1. Quiet(s, q) /\ q.reset = s.reset /\ q.refreshH = s.refreshH
  <2> DEFINE q1 == Age(s, Slots \ MainSlots("TRACE"))
  <2>1. Quiet(s, q1) /\ Only(s, q1, {"pm"})
    BY AgeType
  <2>2. Quiet(q1, AgeFFT(q1)) /\ Only(q1, AgeFFT(q1), {"fft"})
    BY <2>1, AgeFFTType DEF Quiet
  <2> HIDE DEF q1
  <2>3. Quiet(s, AgeFFT(q1))
    BY <2>1, <2>2, QuietTrans
  <2>4. AgeFFT(q1).reset = s.reset /\ AgeFFT(q1).refreshH = s.refreshH
    BY <2>1, <2>2, FieldNames DEF Only
  <2>5. QED
    BY <2>3, <2>4 DEF q1
<1>2. t = [q EXCEPT !.sel = b, !.reset = @ \cup {"MAG", "SPEC"},
        !.user = NoWin, !.vline = 0, !.dirty = FALSE, !.selChanged = TRUE]
  BY DEF makeSelectionList
<1>3. DOMAIN q = Fields
  BY <1>1 DEF Quiet
<1> HIDE DEF q
<1>4. /\ Only(q, t, F) /\ t.sel = b /\ t.reset = q.reset \cup {"MAG", "SPEC"} /\ t.user = NoWin
      /\ t.vline = 0 /\ t.dirty = FALSE /\ t.selChanged = TRUE
  <2> HIDE DEF t
  <2> QED  BY <1>2, <1>3, FieldNames DEF Only
<1>5. /\ b \in Types.sel /\ q.reset \cup {"MAG", "SPEC"} \in Types.reset /\ NoWin \in Types.user
      /\ 0 \in Types.vline /\ FALSE \in Types.dirty /\ TRUE \in Types.selChanged
  BY <1>1, FieldTypes DEF Types, Kinds
<1> HIDE DEF t
<1>6. \A x \in F : t[x] \in Types[x]
  BY <1>4, <1>5
<1>7. Quiet(q, t)
  BY <1>1, <1>4, <1>6, QuietStep DEF SceneFields, Quiet
<1>8. t.refreshH = s.refreshH
  BY <1>1, <1>4, FieldNames DEF Only
<1>9. QED
  BY <1>1, <1>7, <1>8, QuietTrans DEF t

LEMMA MagSelectionType ==
    ASSUME NEW s, Typed(s)
    PROVE  Quiet(s, makeMAGSelectionList(s))
<1> DEFINE t == makeMAGSelectionList(s)
           F == {"reset", "resetAll"}
<1>1. Only(s, t, F) /\ t.reset = s.reset \cup {"MAG", "SPEC"} /\ t.resetAll = TRUE
  BY FieldNames DEF Only, Typed, makeMAGSelectionList
<1>2. s.reset \cup {"MAG", "SPEC"} \in Types.reset /\ TRUE \in Types.resetAll
  BY FieldTypes DEF Types, Kinds
<1>3. \A x \in F : t[x] \in Types[x]
  BY <1>1, <1>2
<1>4. QED
  BY <1>1, <1>3, QuietStep DEF SceneFields

LEMMA DeselectType ==
    ASSUME NEW s, Typed(s)
    PROVE  Quiet(s, Deselect(s))
<1> DEFINE q == makeSelectionList(s, FALSE)
           t == Deselect(s)
           F == {"resetAll", "pix", "half", "refreshH"}
<1>1. Quiet(s, q)
  BY SelectionType
<1>2. t = [q EXCEPT !.resetAll = TRUE, !.pix = [x \in Screens |-> NoWin], !.half = {},
             !.refreshH = TwoPanes(Kinds)]
  BY DEF Deselect
<1>3. DOMAIN q = Fields
  BY <1>1 DEF Quiet
<1> HIDE DEF q
<1>4. /\ Only(q, t, F) /\ t.resetAll = TRUE /\ t.pix = [x \in Screens |-> NoWin] /\ t.half = {}
      /\ t.refreshH = TwoPanes(Kinds)
  <2> HIDE DEF t
  <2> QED  BY <1>2, <1>3, FieldNames DEF Only
<1>5. /\ TRUE \in Types.resetAll /\ [x \in Screens |-> NoWin] \in Types.pix /\ {} \in Types.half
      /\ TwoPanes(Kinds) \in Types.refreshH
  BY DEF Types
<1> HIDE DEF t
<1>6. \A x \in F : t[x] \in Types[x]
  BY <1>4, <1>5
<1>7. Quiet(q, t)
  BY <1>1, <1>4, <1>6, QuietStep DEF SceneFields, Quiet
<1>8. QED
  BY <1>1, <1>7, QuietTrans DEF t

LEMMA WindowChangedType ==
    ASSUME NEW s, Typed(s)
    PROVE  Quiet(s, WindowChanged(s)) /\ Only(s, WindowChanged(s), {"reset", "refreshH"})
<1> DEFINE t == WindowChanged(s)
           F == {"reset", "refreshH"}
<1>1. /\ Only(s, t, F) /\ t.reset = s.reset \cup {"MAG", "SPEC"}
      /\ t.refreshH = s.refreshH \cup TwoPanes({"MAG", "SPEC"})
  BY FieldNames DEF Only, Typed, WindowChanged
<1>2. s.reset \cup {"MAG", "SPEC"} \in Types.reset /\ s.refreshH \cup TwoPanes({"MAG", "SPEC"}) \in Types.refreshH
  BY FieldTypes DEF Types, Kinds, TwoPanes
<1>3. \A x \in F : t[x] \in Types[x]
  BY <1>1, <1>2
<1>4. QED
  BY <1>1, <1>3, QuietStep DEF SceneFields


-----------------------------------------------------------------------------
(* What the areas show: an area on the page that is up shows a slot of its *)
(* own, and one that is given back only when it is told of elsewhere.      *)

MainAreas == {Area(k) : k \in Kinds}
PaneAreas(p) == {p} \X Places(p)

\* Alone, of any state.
AloneIn(s, a) == \A b \in Areas \ {a} : b[1] = a[1] /\ a[1] # "MAIN" => KindOf(s, b) # KindOf(s, a)

\* A main area shows slots of its page, a pane slots of the panes.
Own(s) ==
    /\ \A k \in Kinds : s.shown[Area(k)] \in MainSlots(k) \cup {<<>>}
    /\ \A a \in Areas : a[1] # "MAIN" => s.shown[a] \in SplitSlots \cup {<<>>}

Ok(s, a) ==
    a \in Visible(s) =>
        /\ a[1] # "MAIN" => s.shown[a] = <<s.panes, s.lay[s.panes][a[2]]>>
        /\ a \in s.dead /\ AloneIn(s, a) => a \in s.resize \cup s.left

\* The scene is in order as far as the areas of A go; and as far as any goes.
Part(s, A) == Typed(s) /\ Own(s) /\ \A a \in A : Ok(s, a)
Good(s) == Part(s, Areas)

Same(s, t) == t.page = s.page /\ t.panes = s.panes /\ t.lay = s.lay /\ t.resize = s.resize

\* From s to t only pixmaps of S were given back that a visible area showed.
Cleared(s, t, S) ==
    /\ Typed(t) /\ Same(s, t) /\ t.shown = s.shown
    /\ \A a \in Visible(s) : a \in s.left => a \in t.left
    /\ \A a \in Visible(s) \cap t.dead : a \in s.dead \/ s.shown[a] \in S \/ a \in t.left

\* From s to t area b was drawn, and those of A are as good as before.
Drew(s, t, A, b) == Part(t, A \cup {b}) /\ Same(s, t) /\ b \notin t.dead

LEMMA PaneFacts ==
    /\ \A a \in Areas : \/ a \in MainAreas /\ a[1] = "MAIN"
                        \/ \E p \in Panes : a \in PaneAreas(p) /\ a[1] = p /\ a[1] # "MAIN"
    /\ \A p \in Panes : \A q \in Places(p) : <<p, q>> \in Areas /\ <<p, q>>[1] = p /\ <<p, q>>[2] = q
    /\ MainAreas \subseteq Areas
<1>1. \A p \in Panes : \A a \in PaneAreas(p) : a[1] = p /\ a[1] # "MAIN"
  BY DEF PaneAreas, Panes
<1>2. QED
  BY <1>1, AreaFacts DEF MainAreas, PaneAreas

\* The areas of a main page are seen on their page alone, panes on the split page.
LEMMA VisibleFacts ==
    ASSUME NEW s, s.panes \in Panes
    PROVE  /\ s.page = "T" => Visible(s) \subseteq {Area("TRACE")}
           /\ s.page # "H" => Visible(s) \subseteq MainAreas
           /\ s.page = "H" => Visible(s) = PaneAreas(s.panes)
           /\ s.page = "HDR" => Visible(s) = {}
           /\ s.page = "M" => Visible(s) = {Area("MAG")}
           /\ s.page = "S" => Visible(s) = {Area("SPEC")}
<1>1. \A p \in Panes : \A a \in PaneAreas(p) : PageOf(a) = "H" /\ a[1] = p
  <2>1. SUFFICES ASSUME NEW p \in Panes, NEW a \in PaneAreas(p)  PROVE  PageOf(a) = "H" /\ a[1] = p
    OBVIOUS
  <2>2. a[1] = p /\ a # Area("TRACE") /\ a # Area("MAG") /\ a # Area("SPEC")
    BY DEF PaneAreas, Area, Panes
  <2>3. QED
    BY <2>2 DEF PageOf
<1>2. Area("TRACE") # Area("MAG") /\ Area("TRACE") # Area("SPEC") /\ Area("MAG") # Area("SPEC")
  BY DEF Area
<1>3. PageOf(Area("TRACE")) = "T" /\ PageOf(Area("MAG")) = "M" /\ PageOf(Area("SPEC")) = "S"
  BY <1>2 DEF PageOf
<1>4. \A a \in Areas : a = Area("TRACE") \/ a = Area("MAG") \/ a = Area("SPEC") \/ \E p \in Panes : a \in PaneAreas(p)
  BY AreaFacts DEF Kinds, PaneAreas
<1>5. \A k \in Kinds : Area(k) \in Areas /\ Area(k)[1] = "MAIN"
  BY AreaFacts
<1>6. "MAIN" \notin Panes
  BY DEF Panes
<1>7. \A p \in Panes : PaneAreas(p) \subseteq Areas
  BY AreaFacts DEF PaneAreas
<1>8. MainAreas = {Area("TRACE"), Area("MAG"), Area("SPEC")}
  BY DEF MainAreas, Kinds
<1>9. "TRACE" \in Kinds /\ "MAG" \in Kinds /\ "SPEC" \in Kinds
  BY DEF Kinds
<1>10. \A a \in Areas : a \in Visible(s) <=> PageOf(a) = s.page /\ a[1] \in {"MAIN", s.panes}
  BY Zenon DEF Visible
<1>11. \A a \in Visible(s) : a \in Areas /\ PageOf(a) = s.page
  BY DEF Visible
<1>12. s.page = "T" => Visible(s) \subseteq {Area("TRACE")}
  BY <1>1, <1>3, <1>4, <1>11
<1>13. s.page # "H" => Visible(s) \subseteq MainAreas
  BY <1>1, <1>4, <1>8, <1>11
<1>14. s.page = "HDR" => Visible(s) = {}
  BY <1>1, <1>3, <1>4, <1>11
<1>15. s.page = "M" => Visible(s) = {Area("MAG")}
  BY <1>1, <1>3, <1>4, <1>5, <1>9, <1>10, <1>11
<1>16. s.page = "S" => Visible(s) = {Area("SPEC")}
  BY <1>1, <1>3, <1>4, <1>5, <1>9, <1>10, <1>11
<1>17. ASSUME s.page = "H"  PROVE  Visible(s) = PaneAreas(s.panes)
  <2>1. ASSUME NEW a \in Visible(s)  PROVE  a \in PaneAreas(s.panes)
    BY <1>1, <1>3, <1>4, <1>6, <1>10, <1>11, <1>17, <2>1
  <2>2. ASSUME NEW a \in PaneAreas(s.panes)  PROVE  a \in Visible(s)
    BY <1>1, <1>7, <1>10, <1>17, <2>2
  <2>3. QED
    BY <2>1, <2>2
<1>18. QED
  BY <1>12, <1>13, <1>14, <1>15, <1>16, <1>17

LEMMA QuietPart ==
    ASSUME NEW s, NEW t, Typed(s), Quiet(s, t)
    PROVE  Same(s, t) /\ Cleared(s, t, {}) /\ \A A : Part(s, A) => Part(t, A)
<1>1. /\ t.page = s.page /\ t.panes = s.panes /\ t.lay = s.lay /\ t.resize = s.resize
      /\ t.dead = s.dead /\ t.left = s.left /\ t.shown = s.shown /\ Typed(t)
  BY DEF Quiet, SceneFields
<1>2. \A a : (Ok(s, a) => Ok(t, a))
  BY <1>1 DEF Ok, Visible, AloneIn, KindOf
<1>3. QED
  BY <1>1, <1>2 DEF Same, Cleared, Part, Own

LEMMA ClearedTrans ==
    ASSUME NEW s, NEW t, NEW u, NEW S, NEW T, S \subseteq T, Cleared(s, t, S), Cleared(t, u, T)
    PROVE  Cleared(s, u, T)
BY DEF Cleared, Same, Visible

LEMMA UnrefCleared ==
    ASSUME NEW s, Typed(s), NEW S
    PROVE  Cleared(s, Unref(s, S), S) /\ Unref(s, S).left = s.left
<1>1. /\ Typed(Unref(s, S)) /\ Only(s, Unref(s, S), {"pm", "dead"})
      /\ Unref(s, S).dead \subseteq s.dead \cup {a \in Areas : s.shown[a] \in S}
  BY UnrefType
<1> DEFINE t == Unref(s, S)
<1> HIDE DEF t
<1>2. /\ t.page = s.page /\ t.panes = s.panes /\ t.lay = s.lay /\ t.resize = s.resize
      /\ t.left = s.left /\ t.shown = s.shown
  BY <1>1, FieldNames DEF Only, t
<1>3. QED
  BY <1>1, <1>2 DEF Same, Cleared, t

\* Showing area b: what an area shows that was not b stays in order unless its
\* pixmap went and its kind is that of no other pane.
LEMMA ShowDrew ==
    ASSUME NEW s, NEW A \in SUBSET Areas, Part(s, A), NEW t, NEW S, Cleared(s, t, S),
           NEW b \in Areas, NEW i \in Slots,
           \A a \in (A \ {b}) \cap Visible(s) : s.shown[a] \in S => ~AloneIn(s, a),
           \A k \in Kinds : b = Area(k) => i \in MainSlots(k),
           b[1] # "MAIN" => i \in SplitSlots,
           b \in Visible(s) /\ b[1] # "MAIN" => i = <<s.panes, s.lay[s.panes][b[2]]>>
    PROVE  Drew(s, Show(t, b, i), A, b)
<1> DEFINE u == Show(t, b, i)
<1>1. /\ Typed(u) /\ Only(t, u, {"shown", "dead", "left", "drawn"})
      /\ u.shown = [t.shown EXCEPT ![b] = i] /\ u.dead = t.dead \ {b} /\ u.left = t.left \ {b}
  BY ShowType DEF Cleared
<1> HIDE DEF u
<1>2. Same(s, u)
  BY <1>1, FieldNames DEF Cleared, Same, Only
<1>3. s.shown \in [Areas -> Slots \cup {<<>>}]
  BY FieldTypes DEF Part
<1>4. u.shown[b] = i /\ \A a \in Areas \ {b} : u.shown[a] = s.shown[a]
  BY <1>1, <1>3 DEF Cleared
<1>5. Own(u)
  <2>1. \A k \in Kinds : Area(k) \in Areas
    BY AreaFacts
  <2>2. QED
    BY <1>4, <2>1 DEF Own, Part
<1>6. \A a : Visible(u) = Visible(s) /\ (AloneIn(u, a) <=> AloneIn(s, a))
  BY <1>2 DEF Same, Visible, AloneIn, KindOf
<1>7. ASSUME NEW a \in A \ {b}  PROVE  Ok(u, a)
  BY <1>1, <1>2, <1>4, <1>6 DEF Ok, Part, Cleared, Same
<1>8. Ok(u, b)
  BY <1>1, <1>2, <1>4, <1>6 DEF Ok, Same
<1>9. QED
  BY <1>1, <1>2, <1>5, <1>7, <1>8 DEF Drew, Part, u

\* What a step within the types adds that does not touch the scene.
LEMMA DrewQuiet ==
    ASSUME NEW s, NEW t, NEW u, NEW A, NEW b, Drew(s, t, A, b), Quiet(t, u)
    PROVE  Drew(s, u, A, b)
<1>1. Same(t, u) /\ Part(u, A \cup {b}) /\ u.dead = t.dead
  BY QuietPart DEF Drew, Part, Quiet, SceneFields
<1>2. QED
  BY <1>1 DEF Drew, Same

LEMMA SameTrans ==
    ASSUME NEW s, NEW t, NEW u, Same(s, t), Same(t, u)
    PROVE  Same(s, u)
BY DEF Same

\* With the main areas and the panes that are up in order, all are.
LEMMA WholeGood ==
    ASSUME NEW s, Part(s, MainAreas \cup PaneAreas(s.panes))
    PROVE  Good(s)
<1>1. s.panes \in Panes
  BY FieldTypes DEF Part
<1>2. Visible(s) \subseteq MainAreas \cup PaneAreas(s.panes)
  BY <1>1, VisibleFacts
<1>3. QED
  BY <1>2 DEF Good, Part, Ok


-----------------------------------------------------------------------------
(* makePixmap.                                                             *)

LEMMA OnlyTrans ==
    ASSUME NEW s, NEW t, NEW u, NEW F, Only(s, t, F), Only(t, u, F)
    PROVE  Only(s, u, F)
BY DEF Only

LEMMA QuietCleared ==
    ASSUME NEW s, NEW t, NEW u, NEW S, Cleared(s, t, S), Quiet(t, u)
    PROVE  Cleared(s, u, S)
BY QuietPart, ClearedTrans DEF Cleared

LEMMA SlotTypes ==
    ASSUME NEW s, Typed(s), NEW k \in Kinds
    PROVE  Key(k, s.view[k], s.tf) \in MainSlots(k) /\ None(k) \in MainSlots(k) /\ MainSlots(k) \subseteq Slots
BY FieldTypes, SlotFacts

\* A slot given back, if at all, before it is drawn.
LEMMA MaybeUnref ==
    ASSUME NEW s, Typed(s), NEW b \in BOOLEAN, NEW S, NEW T, S \subseteq T
    PROVE  /\ Cleared(s, IF b THEN Unref(s, S) ELSE s, T)
           /\ Only(s, IF b THEN Unref(s, S) ELSE s, {"pm", "dead"})
<1>1. Cleared(s, s, T) /\ Only(s, s, {"pm", "dead"})
  BY DEF Cleared, Same, Only, Typed
<1>2. Cleared(s, Unref(s, S), S) /\ Only(s, Unref(s, S), {"pm", "dead"})
  BY UnrefCleared, UnrefType
<1>3. Cleared(s, Unref(s, S), T)
  BY <1>2 DEF Cleared
<1>4. QED
  BY <1>1, <1>2, <1>3

\* Given back and drawn again, the slots of a main page concern its area alone.
LEMMA ShowMain ==
    ASSUME NEW s, NEW A \in SUBSET Areas, Part(s, A), NEW t, NEW k \in Kinds,
           Cleared(s, t, MainSlots(k)), NEW i \in MainSlots(k)
    PROVE  Drew(s, Show(t, Area(k), i), A, Area(k))
<1>1. Area(k) \in Areas /\ Area(k)[1] = "MAIN" /\ i \in Slots /\ \A l \in Kinds : Area(k) = Area(l) => k = l
  BY AreaFacts, SlotFacts DEF Area
<1>2. ASSUME NEW a \in Areas \ {Area(k)}  PROVE  s.shown[a] \notin MainSlots(k)
  <2>1. <<>> \notin MainSlots(k)
    <3>1. \A j \in MainSlots(k) : j[1] = k
      BY DEF MainSlots, Key, None
    <3>2. \A j \in MainSlots(k) : j # <<>>
      BY DEF MainSlots, Key, None
    <3>3. QED  BY <3>2
  <2>2. CASE a[1] = "MAIN"
    <3>1. PICK l \in Kinds : a = Area(l)
      BY <2>2, PaneFacts DEF MainAreas
    <3>2. s.shown[a] \in MainSlots(l) \cup {<<>>} /\ l # k
      BY <3>1, <1>2 DEF Part, Own
    <3>3. QED
      BY <3>2, <2>1, SlotsApart
  <2>3. CASE a[1] # "MAIN"
    BY <2>1, <2>3, SlotsApart DEF Part, Own
  <2>4. QED
    BY <2>2, <2>3
<1>3. QED
  BY <1>1, <1>2, ShowDrew

LEMMA MagPixmap ==
    ASSUME NEW s, NEW A \in SUBSET Areas, Part(s, A)
    PROVE  Drew(s, magPixmap(s), A, Area("MAG"))
<1> DEFINE M == MainSlots("MAG")
           slot == IF Nothing(s) THEN None("MAG") ELSE Key("MAG", s.view["MAG"], s.tf)
           clear == Nothing(s) \/ "MAG" \in s.reset \cup s.refresh
           s1 == IF clear THEN Unref(s, M) ELSE s
           u == Unref(s1, {slot})
           s2 == IF s.dirty THEN [u EXCEPT !.dirty = FALSE] ELSE s1
           s3 == IF s2.pm[slot] # "none" THEN s2
                 ELSE IF Nothing(s) THEN Draw(s2, slot, "msg") ELSE magnify_proc(s2, slot)
           new == clear \/ slot # s.old["MAG"]
           s4 == Show(s3, Area("MAG"), slot)
           t == [s4 EXCEPT !.refreshH = IF new THEN @ \cup TwoPanes({"MAG"}) ELSE @, !.old["MAG"] = slot,
                           !.reset = @ \ {"MAG"}, !.refresh = @ \ {"MAG"}]
           F == {"pm", "dead", "dirty"}
<1>1. t = magPixmap(s)
  BY DEF magPixmap
<1>2. "MAG" \in Kinds /\ slot \in M /\ M \subseteq Slots /\ Typed(s)
  BY SlotTypes DEF Kinds, Part
<1> HIDE DEF slot, clear, new, M
<1>3. Cleared(s, s1, M) /\ Only(s, s1, {"pm", "dead"})
  BY <1>2, MaybeUnref DEF clear
<1> HIDE DEF s1
<1>4. Cleared(s1, u, M) /\ Only(s1, u, {"pm", "dead"}) /\ Typed(u)
  <2>1. Typed(s1)
    BY <1>3 DEF Cleared
  <2>2. Cleared(s1, u, {slot}) /\ Only(s1, u, {"pm", "dead"}) /\ Typed(u)
    BY <2>1, UnrefCleared, UnrefType
  <2>3. QED
    BY <2>2, <1>2 DEF Cleared
<1> HIDE DEF u
<1>5. Cleared(s, s2, M) /\ Only(s, s2, F)
  <2> DEFINE d == [u EXCEPT !.dirty = FALSE]
  <2>1. Only(u, d, {"dirty"}) /\ d.dirty = FALSE
    BY <1>4, FieldNames DEF Only, Typed
  <2>2. FALSE \in Types.dirty
    BY DEF Types
  <2> HIDE DEF d
  <2>3. Quiet(u, d)
    <3>1. \A x \in {"dirty"} : d[x] \in Types[x]
      BY <2>1, <2>2
    <3>2. QED
      BY <1>4, <2>1, <3>1, QuietStep DEF SceneFields
  <2>4. Cleared(s, d, M)
    BY <1>3, <1>4, <2>3, ClearedTrans, QuietCleared
  <2>5. Only(s, d, F) /\ Only(s, s1, F)
    BY <1>3, <1>4, <2>1 DEF Only
  <2>6. QED
    BY <1>3, <2>4, <2>5 DEF d
<1> HIDE DEF s2
<1>6. Typed(s2) /\ (Nothing(s2) <=> Nothing(s))
  BY <1>5, FieldNames DEF Cleared, Only, Nothing
<1>7. Cleared(s, s3, M)
  <2>1. Quiet(s2, Draw(s2, slot, "msg"))
    BY <1>2, <1>6, DrawType DEF Contents
  <2>2. ~Nothing(s) => Quiet(s2, magnify_proc(s2, slot))
    BY <1>2, <1>6, MagnifyType
  <2>3. QED
    BY <1>5, <2>1, <2>2, QuietCleared
<1> HIDE DEF s3
<1>8. Drew(s, s4, A, Area("MAG"))
  BY <1>2, <1>7, ShowMain DEF M
<1> HIDE DEF s4
<1>9. Typed(s4)
  BY <1>8 DEF Drew, Part
<1>10. /\ Only(s4, t, {"refreshH", "old", "reset", "refresh"})
       /\ t.refreshH \in {s4.refreshH, s4.refreshH \cup TwoPanes({"MAG"})}
       /\ t.old = [s4.old EXCEPT !["MAG"] = slot]
       /\ t.reset = s4.reset \ {"MAG"} /\ t.refresh = s4.refresh \ {"MAG"}
  BY <1>9, FieldNames DEF Only, Typed
<1>11. /\ s4.refreshH \in Types.refreshH /\ s4.refreshH \cup TwoPanes({"MAG"}) \in Types.refreshH
       /\ [s4.old EXCEPT !["MAG"] = slot] \in Types.old
       /\ s4.reset \ {"MAG"} \in Types.reset /\ s4.refresh \ {"MAG"} \in Types.refresh
  BY <1>2, <1>9, FieldTypes DEF Types, TwoPanes
<1> HIDE DEF t
<1>12. Quiet(s4, t)
  <2>1. \A x \in {"refreshH", "old", "reset", "refresh"} : t[x] \in Types[x]
    BY <1>10, <1>11
  <2>2. QED
    BY <1>9, <1>10, <2>1, QuietStep DEF SceneFields
<1>13. QED
  BY <1>1, <1>8, <1>12, DrewQuiet


LEMMA SpecPixmap ==
    ASSUME NEW s, NEW A \in SUBSET Areas, Part(s, A)
    PROVE  Drew(s, specPixmap(s), A, Area("SPEC"))
<1> DEFINE M == MainSlots("SPEC")
           slot == IF Nothing(s) THEN None("SPEC") ELSE Key("SPEC", s.view["SPEC"], s.tf)
           reset == Nothing(s) \/ "SPEC" \in s.reset
           clear == reset \/ "SPEC" \in s.refresh
           s1 == IF clear THEN Unref(s, M) ELSE s
           s2 == IF s1.pm[slot] # "none" THEN s1
                 ELSE IF Nothing(s) THEN Draw(s1, slot, "msg") ELSE transform_proc(s1, slot, reset)
           new == reset \/ slot # s.old["SPEC"]
           cross == Nothing(s) /\ \E x \in Screens : s.pix[x] # NoWin
           s3 == Show(s2, Area("SPEC"), slot)
           t == [s3 EXCEPT !.refreshH = IF new THEN @ \cup TwoPanes({"SPEC"}) ELSE @, !.old["SPEC"] = slot,
                           !.lost = IF cross THEN @ \cup {"cross"} ELSE @,
                           !.reset = @ \ {"SPEC"}, !.refresh = @ \ {"SPEC"}]
           F == {"refreshH", "old", "lost", "reset", "refresh"}
<1>1. t = specPixmap(s)
  BY DEF specPixmap
<1>2. "SPEC" \in Kinds /\ slot \in M /\ M \subseteq Slots /\ Typed(s) /\ reset \in BOOLEAN
  BY SlotTypes DEF Kinds, Part
<1> HIDE DEF slot, M
<1>3. Cleared(s, s1, M) /\ Only(s, s1, {"pm", "dead"})
  BY <1>2, MaybeUnref
<1> HIDE DEF clear, new, cross, reset
<1> HIDE DEF s1
<1>4. Typed(s1) /\ (Nothing(s1) <=> Nothing(s))
  BY <1>3, FieldNames DEF Cleared, Only, Nothing
<1>5. Cleared(s, s2, M)
  <2>1. Quiet(s1, Draw(s1, slot, "msg"))
    BY <1>2, <1>4, DrawType DEF Contents
  <2>2. ~Nothing(s) => Quiet(s1, transform_proc(s1, slot, reset))
    BY <1>2, <1>4, TransformType
  <2>3. QED
    BY <1>3, <2>1, <2>2, QuietCleared
<1> HIDE DEF s2
<1>6. Drew(s, s3, A, Area("SPEC"))
  BY <1>2, <1>5, ShowMain DEF M
<1> HIDE DEF s3
<1>7. Typed(s3)
  BY <1>6 DEF Drew, Part
<1>8. /\ Only(s3, t, F)
      /\ t.refreshH \in {s3.refreshH, s3.refreshH \cup TwoPanes({"SPEC"})}
      /\ t.old = [s3.old EXCEPT !["SPEC"] = slot] /\ t.lost \in {s3.lost, s3.lost \cup {"cross"}}
      /\ t.reset = s3.reset \ {"SPEC"} /\ t.refresh = s3.refresh \ {"SPEC"}
  BY <1>7, FieldNames DEF Only, Typed
<1>9. /\ s3.refreshH \in Types.refreshH /\ s3.refreshH \cup TwoPanes({"SPEC"}) \in Types.refreshH
      /\ [s3.old EXCEPT !["SPEC"] = slot] \in Types.old
      /\ s3.lost \in Types.lost /\ s3.lost \cup {"cross"} \in Types.lost
      /\ s3.reset \ {"SPEC"} \in Types.reset /\ s3.refresh \ {"SPEC"} \in Types.refresh
  BY <1>2, <1>7, FieldTypes DEF Types, TwoPanes, Exempt
<1> HIDE DEF t
<1>10. \A x \in F : t[x] \in Types[x]
  BY <1>8, <1>9
<1>11. Quiet(s3, t)
  BY <1>7, <1>8, <1>10, QuietStep DEF SceneFields
<1>12. QED
  BY <1>1, <1>6, <1>11, DrewQuiet

\* New traces: everything starts over, but no area changes.
LEMMA RestartType ==
    ASSUME NEW s, Typed(s)
    PROVE  Quiet(s, Restart(s))
<1> DEFINE q == Deselect(s)
           t == Restart(s)
           F == {"tf", "gr", "reset", "refresh", "lost"}
<1>1. Quiet(s, q)
  BY DeselectType
<1>2. t = [q EXCEPT !.tf = "off", !.gr = {}, !.reset = @ \cup {"MAG", "SPEC"},
                    !.refresh = @ \cup {"TRACE"}, !.lost = {}]
  BY DEF Restart
<1>3. DOMAIN q = Fields /\ Typed(q)
  BY <1>1 DEF Quiet
<1> HIDE DEF q
<1>4. /\ Only(q, t, F) /\ t.tf = "off" /\ t.gr = {} /\ t.reset = q.reset \cup {"MAG", "SPEC"}
      /\ t.refresh = q.refresh \cup {"TRACE"} /\ t.lost = {}
  <2> HIDE DEF t
  <2> QED  BY <1>2, <1>3, FieldNames DEF Only
<1>5. /\ "off" \in Types.tf /\ {} \in Types.gr /\ q.reset \cup {"MAG", "SPEC"} \in Types.reset
      /\ q.refresh \cup {"TRACE"} \in Types.refresh /\ {} \in Types.lost
  BY <1>3, FieldTypes DEF Types, OnOff, Kinds
<1> HIDE DEF t
<1>6. \A x \in F : t[x] \in Types[x]
  BY <1>4, <1>5
<1>7. Quiet(q, t)
  BY <1>3, <1>4, <1>6, QuietStep DEF SceneFields
<1>8. QED
  BY <1>1, <1>7, QuietTrans DEF t

\* The trace page may give back every pixmap: on its own page it is the only
\* area, and from another page every area that is seen is told (left).
LEMMA ShowTrace ==
    ASSUME NEW s, NEW A \in SUBSET Areas, Part(s, A), NEW r, Cleared(s, r, {}),
           s.page # "T" => Visible(s) \subseteq r.left,
           NEW t, Cleared(r, t, Slots), NEW i \in MainSlots("TRACE")
    PROVE  Drew(s, Show(t, Area("TRACE"), i), A, Area("TRACE"))
<1>1. "TRACE" \in Kinds /\ Area("TRACE") \in Areas
  BY AreaFacts DEF Kinds
<1>2. i \in Slots /\ Area("TRACE")[1] = "MAIN" /\ \A l \in Kinds : Area("TRACE") = Area(l) => l = "TRACE"
  BY <1>1, AreaFacts, SlotFacts DEF Area
<1>3. Visible(r) = Visible(s) /\ s.panes \in Panes
  BY FieldTypes DEF Cleared, Same, Visible, Part
<1>4. CASE s.page = "T"
  <2>1. Visible(s) \subseteq {Area("TRACE")}
    BY <1>3, <1>4, VisibleFacts
  <2>2. Cleared(s, t, Slots)
    BY ClearedTrans
  <2>3. QED
    BY <1>1, <1>2, <2>1, <2>2, ShowDrew
<1>5. CASE s.page # "T"
  <2>1. Cleared(r, t, {})
    BY <1>3, <1>5 DEF Cleared
  <2>2. Cleared(s, t, {})
    BY <2>1, ClearedTrans
  <2>3. QED
    BY <1>1, <1>2, <2>2, ShowDrew
<1>6. QED
  BY <1>4, <1>5


\* The plot of the traces up to the area that shows it.
LEMMA PlotCleared ==
    ASSUME NEW s, Typed(s)
    PROVE  \E q, i :
              /\ i \in MainSlots("TRACE") /\ Cleared(s, q, Slots)
              /\ tracePixmapPlot(s) = [Show(q, Area("TRACE"), i) EXCEPT
                                          !.reset = @ \ {"TRACE"}, !.refresh = @ \ {"TRACE"}]
<1> DEFINE s1 == IF "TRACE" \in s.reset THEN Restart(s) ELSE s
           s2 == IF "TRACE" \in s1.refresh THEN Unref(s1, Slots) ELSE s1
           slot == Key("TRACE", s.view["TRACE"], s.tf)
           new == slot # s.old["TRACE"]
           r3 == [s2 EXCEPT !.selChanged = FALSE, !.pm[slot] = IF @ = "none" THEN @ ELSE "ok"]
           s3 == IF new /\ s2.selChanged THEN r3 ELSE s2
           s4 == IF s3.pm[slot] = "none" THEN plot_files(s3, slot) ELSE s3
           r5 == [s4 EXCEPT !.refreshH = @ \cup TwoPanes({"TRACE"}),
                            !.reset = @ \cup {"MAG"}, !.old["TRACE"] = slot]
           s5 == IF new THEN r5 ELSE s4
<1>1. tracePixmapPlot(s) = [Show(s5, Area("TRACE"), slot) EXCEPT
                              !.reset = @ \ {"TRACE"}, !.refresh = @ \ {"TRACE"}]
  BY DEF tracePixmapPlot
<1>2. slot \in MainSlots("TRACE") /\ slot \in Slots
  BY SlotTypes DEF Kinds
<1> HIDE DEF slot, new
<1>3. Cleared(s, s1, Slots)
  <2>1. Cleared(s, s, Slots)
    BY DEF Cleared, Same
  <2>2. QED
    BY <2>1, RestartType, QuietCleared
<1> HIDE DEF s1
<1>4. Cleared(s, s2, Slots)
  <2>1. Cleared(s1, s2, Slots)
    BY <1>3, MaybeUnref DEF Cleared
  <2>2. QED
    BY <1>3, <2>1, ClearedTrans
<1> HIDE DEF s2
<1>5. Typed(s2)
  BY <1>4 DEF Cleared
<1>6. Cleared(s, s3, Slots)
  <2> DEFINE P == [s2.pm EXCEPT ![slot] = IF @ = "none" THEN @ ELSE "ok"]
  <2>1. Only(s2, r3, {"selChanged", "pm"}) /\ r3.selChanged = FALSE /\ r3.pm = P
    BY <1>5, FieldNames DEF Only, Typed
  <2>2. FALSE \in Types.selChanged /\ P \in Types.pm
    BY <1>2, <1>5, FieldTypes DEF Types, Contents
  <2> HIDE DEF r3, P
  <2>3. \A x \in {"selChanged", "pm"} : r3[x] \in Types[x]
    BY <2>1, <2>2
  <2>4. Quiet(s2, r3)
    BY <1>5, <2>1, <2>3, QuietStep DEF SceneFields
  <2>5. QED
    BY <1>4, <2>4, QuietCleared
<1> HIDE DEF s3
<1>7. Cleared(s, s4, Slots)
  <2>1. Quiet(s3, plot_files(s3, slot))
    BY <1>2, <1>6, PlotFilesType DEF Cleared
  <2>2. QED
    BY <1>6, <2>1, QuietCleared
<1> HIDE DEF s4
<1>8. Typed(s4)
  BY <1>7 DEF Cleared
<1>9. Cleared(s, s5, Slots)
  <2>1. /\ Only(s4, r5, {"refreshH", "reset", "old"}) /\ r5.refreshH = s4.refreshH \cup TwoPanes({"TRACE"})
        /\ r5.reset = s4.reset \cup {"MAG"} /\ r5.old = [s4.old EXCEPT !["TRACE"] = slot]
    BY <1>8, FieldNames DEF Only, Typed
  <2>2. /\ s4.refreshH \cup TwoPanes({"TRACE"}) \in Types.refreshH /\ s4.reset \cup {"MAG"} \in Types.reset
        /\ [s4.old EXCEPT !["TRACE"] = slot] \in Types.old
    BY <1>2, <1>8, FieldTypes DEF Types, TwoPanes, Kinds
  <2> HIDE DEF r5
  <2>3. \A x \in {"refreshH", "reset", "old"} : r5[x] \in Types[x]
    BY <2>1, <2>2
  <2>4. Quiet(s4, r5)
    BY <1>8, <2>1, <2>3, QuietStep DEF SceneFields
  <2>5. QED
    BY <1>7, <2>4, QuietCleared
<1> HIDE DEF s5
<1>10. QED
  BY <1>1, <1>2, <1>9

\* The flags of the trace page, cleared or set after its area was drawn.
LEMMA TraceFlags ==
    ASSUME NEW s, Typed(s)
    PROVE  /\ Quiet(s, [s EXCEPT !.reset = @ \ {"TRACE"}, !.refresh = @ \ {"TRACE"}])
           /\ Quiet(s, [s EXCEPT !.reset = @ \cup {"TRACE"}])
<1>1. Quiet(s, [s EXCEPT !.reset = @ \ {"TRACE"}, !.refresh = @ \ {"TRACE"}])
  <2> DEFINE t == [s EXCEPT !.reset = @ \ {"TRACE"}, !.refresh = @ \ {"TRACE"}]
  <2>1. Only(s, t, {"reset", "refresh"}) /\ t.reset = s.reset \ {"TRACE"} /\ t.refresh = s.refresh \ {"TRACE"}
    BY FieldNames DEF Only, Typed
  <2>2. s.reset \ {"TRACE"} \in Types.reset /\ s.refresh \ {"TRACE"} \in Types.refresh
    BY FieldTypes DEF Types
  <2> HIDE DEF t
  <2>3. \A x \in {"reset", "refresh"} : t[x] \in Types[x]
    BY <2>1, <2>2
  <2>4. Quiet(s, t)
    BY <2>1, <2>3, QuietStep DEF SceneFields
  <2>5. QED
    BY <2>4 DEF t
<1>2. Quiet(s, [s EXCEPT !.reset = @ \cup {"TRACE"}])
  <2> DEFINE t == [s EXCEPT !.reset = @ \cup {"TRACE"}]
  <2>1. Only(s, t, {"reset"}) /\ t.reset = s.reset \cup {"TRACE"}
    BY FieldNames DEF Only, Typed
  <2>2. s.reset \cup {"TRACE"} \in Types.reset
    BY FieldTypes DEF Types, Kinds
  <2> HIDE DEF t
  <2>3. \A x \in {"reset"} : t[x] \in Types[x]
    BY <2>1, <2>2
  <2>4. Quiet(s, t)
    BY <2>1, <2>3, QuietStep DEF SceneFields
  <2>5. QED
    BY <2>4 DEF t
<1>3. QED
  BY <1>1, <1>2

LEMMA TracePixmap ==
    ASSUME NEW s, NEW A \in SUBSET Areas, Part(s, A)
    PROVE  Drew(s, tracePixmap(s), A, Area("TRACE"))
<1> DEFINE r1 == [s EXCEPT !.left = Visible(s)]
           r == IF s.page = "T" THEN s ELSE r1
<1>1. Typed(s)
  BY DEF Part
<1>2. Typed(r) /\ Cleared(s, r, {}) /\ (s.page # "T" => Visible(s) \subseteq r.left)
  <2>1. Only(s, r1, {"left"}) /\ r1.left = Visible(s)
    BY <1>1, FieldNames DEF Only, Typed
  <2>2. Visible(s) \in Types.left
    BY DEF Types, Visible
  <2> HIDE DEF r1
  <2>3. \A x \in {"left"} : r1[x] \in Types[x]
    BY <2>1, <2>2
  <2>4. Typed(r1)
    BY <1>1, <2>1, <2>3, Retyped
  <2>5. r1.page = s.page /\ r1.panes = s.panes /\ r1.lay = s.lay /\ r1.resize = s.resize
        /\ r1.shown = s.shown /\ r1.dead = s.dead
    BY <2>1, FieldNames DEF Only
  <2>6. Cleared(s, r1, {}) /\ Cleared(s, s, {})
    BY <1>1, <2>1, <2>4, <2>5 DEF Cleared, Same
  <2>7. QED
    BY <1>1, <2>1, <2>4, <2>6
<1>3. tracePixmap(s) = IF s.busy THEN tracePixmapBusy(r) ELSE tracePixmapPlot(r)
  BY DEF tracePixmap
<1> HIDE DEF r
<1>4. CASE s.busy
  <2> DEFINE u == Unref(r, Slots)
             d == Draw(u, None("TRACE"), "msg")
             q == Show(d, Area("TRACE"), None("TRACE"))
  <2>1. None("TRACE") \in MainSlots("TRACE") /\ None("TRACE") \in Slots
    BY SlotFacts DEF Kinds
  <2>2. Cleared(r, u, Slots)
    BY <1>2, UnrefCleared
  <2>3. tracePixmap(s) = [q EXCEPT !.reset = @ \cup {"TRACE"}]
    BY <1>3, <1>4 DEF tracePixmapBusy
  <2> HIDE DEF u
  <2>4. Quiet(u, d)
    BY <2>1, <2>2, DrawType DEF Cleared, Contents
  <2> HIDE DEF d
  <2>5. Cleared(r, d, Slots)
    BY <2>2, <2>4, QuietCleared
  <2>6. Drew(s, q, A, Area("TRACE"))
    BY <1>2, <2>1, <2>5, ShowTrace
  <2> HIDE DEF q
  <2>7. Quiet(q, [q EXCEPT !.reset = @ \cup {"TRACE"}])
    BY <2>6, TraceFlags DEF Drew, Part
  <2>8. QED
    BY <2>3, <2>6, <2>7, DrewQuiet
<1>5. CASE ~s.busy
  <2>1. PICK q, i :
              /\ i \in MainSlots("TRACE") /\ Cleared(r, q, Slots)
              /\ tracePixmapPlot(r) = [Show(q, Area("TRACE"), i) EXCEPT
                                          !.reset = @ \ {"TRACE"}, !.refresh = @ \ {"TRACE"}]
    BY <1>2, PlotCleared
  <2> DEFINE u == Show(q, Area("TRACE"), i)
  <2>2. Drew(s, u, A, Area("TRACE"))
    BY <1>2, <2>1, ShowTrace
  <2>3. tracePixmap(s) = [u EXCEPT !.reset = @ \ {"TRACE"}, !.refresh = @ \ {"TRACE"}]
    BY <1>3, <1>5, <2>1
  <2> HIDE DEF u
  <2>4. Quiet(u, [u EXCEPT !.reset = @ \ {"TRACE"}, !.refresh = @ \ {"TRACE"}])
    BY <2>2, TraceFlags DEF Drew, Part
  <2>5. QED
    BY <2>2, <2>3, <2>4, DrewQuiet
<1>6. QED
  BY <1>4, <1>5


LEMMA SplitPaneType ==
    ASSUME NEW s, Typed(s), NEW i \in SplitSlots
    PROVE  Quiet(s, splitPane(s, i))
<1>1. i \in Slots /\ i[2] \in Kinds /\ "msg" \in Contents
  BY SlotFacts DEF SplitSlots, Contents
<1>2. CASE i[2] = "TRACE"
  BY <1>1, <1>2, PlotFilesType, DrawType DEF splitPane
<1>3. CASE i[2] = "MAG"
  BY <1>1, <1>3, MagnifyType, DrawType DEF splitPane
<1>4. CASE i[2] = "SPEC"
  <2>1. CASE Nothing(s)
    BY <1>1, <1>4, <2>1, DrawType DEF splitPane
  <2>2. CASE ~Nothing(s)
    <3> DEFINE r == "SPEC" \in s.reset
               q == transform_proc(s, i, r)
               t == [q EXCEPT !.reset = @ \ {"SPEC"},
                              !.refresh = IF r THEN @ \cup {"SPEC"} ELSE @]
    <3>1. splitPane(s, i) = t
      BY <1>4, <2>2 DEF splitPane
    <3> r \in BOOLEAN
      OBVIOUS
    <3> HIDE DEF r
    <3>2. Quiet(s, q) /\ Typed(q)
      BY <1>1, <2>2, TransformType DEF Quiet
    <3> HIDE DEF q
    <3>3. /\ Only(q, t, {"reset", "refresh"}) /\ t.reset = q.reset \ {"SPEC"}
          /\ t.refresh \in {q.refresh, q.refresh \cup {"SPEC"}}
      BY <3>2, FieldNames DEF Only, Typed
    <3>4. /\ q.reset \ {"SPEC"} \in Types.reset /\ q.refresh \in Types.refresh
          /\ q.refresh \cup {"SPEC"} \in Types.refresh
      BY <3>2, FieldTypes DEF Types, Kinds
    <3> HIDE DEF t
    <3>5. \A x \in {"reset", "refresh"} : t[x] \in Types[x]
      BY <3>3, <3>4
    <3>6. Quiet(q, t)
      BY <3>2, <3>3, <3>5, QuietStep DEF SceneFields
    <3>7. QED
      BY <3>1, <3>2, <3>6, QuietTrans
  <2>3. QED
    BY <2>1, <2>2
<1>5. QED
  BY <1>1, <1>2, <1>3, <1>4 DEF Kinds

LEMMA LostType ==
    ASSUME NEW s, Typed(s), NEW l \in SUBSET Exempt
    PROVE  Quiet(s, [s EXCEPT !.lost = l])
<1> DEFINE t == [s EXCEPT !.lost = l]
<1>1. Only(s, t, {"lost"}) /\ t.lost = l
  BY FieldNames DEF Only, Typed
<1>2. l \in Types.lost
  BY DEF Types
<1> HIDE DEF t
<1>3. \A x \in {"lost"} : t[x] \in Types[x]
  BY <1>1, <1>2
<1>4. Quiet(s, t)
  BY <1>1, <1>3, QuietStep DEF SceneFields
<1>5. QED
  BY <1>4 DEF t

\* Drawing a pane gives back its slot; all slots of panes only when every area
\* that is seen is told.
LEMMA SplitCleared ==
    ASSUME NEW s, Typed(s), NEW q, s.lay[s.panes][q] \in Kinds
    PROVE  Cleared(s, splitPixmap(s, q), {<<s.panes, s.lay[s.panes][q]>>})
<1> DEFINE slot == <<s.panes, s.lay[s.panes][q]>>
           u == Unref(s, SplitSlots)
           r == [u EXCEPT !.left = @ \cup Visible(s)]
           s1 == IF s.resetAll THEN r ELSE s
           s2 == IF <<s.panes, q>> \in s.resetH \/ slot \in s.refreshH THEN Unref(s1, {slot}) ELSE s1
           p == splitPane(s2, slot)
           p1 == [p EXCEPT !.lost = @ \cup {"take"}]
           s3 == IF s2.pm[slot] # "none" THEN s2 ELSE IF s.screen = "MAIN" THEN p1 ELSE p
           t == [s3 EXCEPT !.resetAll = FALSE, !.resetH = @ \ {<<s.panes, q>>}, !.refreshH = @ \ {slot}]
<1>1. splitPixmap(s, q) = t
  BY DEF splitPixmap
<1>2. slot \in SplitSlots
  BY FieldTypes DEF SplitSlots
<1> HIDE DEF slot
<1>3. Cleared(s, s1, {})
  <2>1. Cleared(s, s, {})
    BY DEF Cleared, Same
  <2>2. Typed(u) /\ Only(s, u, {"pm", "dead"})
    BY UnrefType
  <2> HIDE DEF u
  <2>3. Only(u, r, {"left"}) /\ r.left = u.left \cup Visible(s)
    BY <2>2, FieldNames DEF Only, Typed
  <2>4. r.left \in Types.left
    BY <2>2, <2>3, FieldTypes DEF Types, Visible
  <2> HIDE DEF r
  <2>5. \A x \in {"left"} : r[x] \in Types[x]
    BY <2>4
  <2>6. Typed(r)
    BY <2>2, <2>3, <2>5, Retyped
  <2>7. /\ r.page = s.page /\ r.panes = s.panes /\ r.lay = s.lay /\ r.resize = s.resize
        /\ r.shown = s.shown
    BY <2>2, <2>3, FieldNames DEF Only
  <2>8. Cleared(s, r, {})
    BY <2>3, <2>6, <2>7 DEF Cleared, Same
  <2>9. QED
    BY <2>1, <2>8
<1> HIDE DEF s1
<1>4. Typed(s1)
  BY <1>3 DEF Cleared
<1>5. Cleared(s, s2, {slot})
  <2>1. Cleared(s1, s2, {slot})
    BY <1>4, MaybeUnref
  <2>2. QED
    BY <1>3, <2>1, ClearedTrans
<1> HIDE DEF s2
<1>6. Quiet(s2, p)
  BY <1>2, <1>5, SplitPaneType DEF Cleared
<1> HIDE DEF p
<1>7. Quiet(p, p1)
  <2>1. Typed(p)
    BY <1>6 DEF Quiet
  <2>2. p.lost \cup {"take"} \in SUBSET Exempt
    BY <2>1, FieldTypes DEF Exempt
  <2>3. QED
    BY <2>1, <2>2, LostType
<1> HIDE DEF p1
<1>8. Cleared(s, s3, {slot})
  BY <1>5, <1>6, <1>7, QuietCleared
<1> HIDE DEF s3
<1>9. Typed(s3)
  BY <1>8 DEF Cleared
<1>10. /\ Only(s3, t, {"resetAll", "resetH", "refreshH"}) /\ t.resetAll = FALSE
       /\ t.resetH = s3.resetH \ {<<s.panes, q>>} /\ t.refreshH = s3.refreshH \ {slot}
  BY <1>9, FieldNames DEF Only, Typed
<1>11. /\ FALSE \in Types.resetAll /\ s3.resetH \ {<<s.panes, q>>} \in Types.resetH
       /\ s3.refreshH \ {slot} \in Types.refreshH
  BY <1>9, FieldTypes DEF Types
<1> HIDE DEF t
<1>12. \A x \in {"resetAll", "resetH", "refreshH"} : t[x] \in Types[x]
  BY <1>10, <1>11
<1>13. Quiet(s3, t)
  BY <1>9, <1>10, <1>12, QuietStep DEF SceneFields
<1>14. QED
  BY <1>1, <1>8, <1>13, QuietCleared DEF slot

\* A pane of its layout.
LEMMA LayFacts ==
    ASSUME NEW s, Typed(s)
    PROVE  /\ s.panes \in Panes
           /\ \A p \in Panes : \A q \in Places(p) : s.lay[p][q] \in Kinds
           /\ \A p \in Panes : \A q \in {"TOP", "MID", "BOT"} : s.lay[p][q] \in Kinds \cup {"NONE"}
<1>1. s.panes \in Panes /\ s.lay \in [SPLIT2 : [TOP : Kinds, MID : {"TRACE", "NONE"}, BOT : Kinds],
                                      SPLIT3 : [TOP : Kinds, MID : Kinds, BOT : Kinds]]
  BY FieldTypes
<1>2. QED
  BY <1>1 DEF Panes, Places, Kinds

\* A pane drawn: panes of another kind stay in order, whatever page is up.
LEMMA SplitArea ==
    ASSUME NEW s, NEW A \in SUBSET Areas, Part(s, A), NEW q \in Places(s.panes)
    PROVE  Drew(s, splitArea(s, q), A, <<s.panes, q>>)
<1> DEFINE b == <<s.panes, q>>
           kind == s.lay[s.panes][q]
           t == splitPixmap(s, q)
<1>1. /\ s.panes \in Panes /\ kind \in Kinds /\ b \in Areas /\ b[1] = s.panes /\ b[2] = q /\ b[1] # "MAIN"
      /\ \A k \in Kinds : b # Area(k)
  BY LayFacts, PaneFacts, AreaFacts DEF Part, Panes, Area
<1>2. <<s.panes, kind>> \in SplitSlots /\ <<s.panes, kind>> \in Slots
  BY <1>1, SlotFacts
<1>3. Cleared(s, t, {<<s.panes, kind>>})
  BY <1>1, SplitCleared DEF Part
<1>4. ASSUME NEW a \in (A \ {b}) \cap Visible(s), s.shown[a] = <<s.panes, kind>>  PROVE  ~AloneIn(s, a)
  <2>1. a \notin MainAreas
    <3>1. \A k \in Kinds : <<s.panes, kind>> \notin MainSlots(k) \cup {<<>>}
      BY <1>2, SlotsApart
    <3>2. QED
      BY <1>4, <3>1 DEF MainAreas, Part, Own
  <2>2. a[1] \in Panes /\ a[1] # "MAIN"
    BY <2>1, PaneFacts
  <2>3. a[1] = s.panes /\ s.shown[a] = <<s.panes, s.lay[s.panes][a[2]]>>
    BY <2>2 DEF Part, Ok, Visible
  <2>4. KindOf(s, a) = kind /\ KindOf(s, b) = kind
    BY <1>1, <1>4, <2>2, <2>3 DEF KindOf
  <2>5. QED
    BY <1>1, <2>2, <2>3, <2>4 DEF AloneIn
<1>5. splitArea(s, q) = Show(t, b, <<s.panes, kind>>)
  BY DEF splitArea
<1> HIDE DEF b, kind, t
<1>6. Drew(s, Show(t, b, <<s.panes, kind>>), A, b)
  <2>1. b \in Visible(s) => <<s.panes, kind>> = <<s.panes, s.lay[s.panes][b[2]]>>
    BY <1>1 DEF kind
  <2>2. QED
    BY <1>1, <1>2, <1>3, <1>4, <2>1, ShowDrew
<1>7. QED
  BY <1>5, <1>6 DEF b


\* Slots of panes may go: the main areas do not show them.
LEMMA ClearedMain ==
    ASSUME NEW s, Part(s, MainAreas), NEW t, NEW S \in SUBSET SplitSlots, Cleared(s, t, S)
    PROVE  Part(t, MainAreas)
<1>1. \A k \in Kinds : Area(k) \in Areas /\ Area(k)[1] = "MAIN" /\ s.shown[Area(k)] \notin S
  <2>1. \A i \in SplitSlots : i # <<>>
    BY DEF SplitSlots
  <2>2. QED
    BY <2>1, AreaFacts, SlotsApart DEF Part, Own
<1>2. \A a \in Areas : Visible(t) = Visible(s) /\ (AloneIn(t, a) <=> AloneIn(s, a))
  BY DEF Cleared, Same, Visible, AloneIn, KindOf
<1>3. Own(t)
  BY DEF Own, Part, Cleared
<1>4. \A a \in MainAreas : Ok(t, a)
  <2>1. SUFFICES ASSUME NEW k \in Kinds  PROVE  Ok(t, Area(k))
    BY DEF MainAreas
  <2>2. Ok(s, Area(k))
    BY DEF Part, MainAreas
  <2>3. QED
    BY <1>1, <1>2, <2>2 DEF Ok, Cleared, Same
<1>5. QED
  BY <1>3, <1>4 DEF Part, Cleared

LEMMA Invisible ==
    ASSUME NEW s, Part(s, MainAreas)
    PROVE  Part(makePixmap2M(s), MainAreas) /\ Same(s, makePixmap2M(s))
<1>1. CASE s.panes = "SPLIT2" /\ s.lay["SPLIT2"]["MID"] = "TRACE"
  <2> DEFINE q == splitPixmap(s, "MID")
             t == [q EXCEPT !.resetH = @ \cup {"SPLIT2"} \X Places("SPLIT2")]
             slot == <<s.panes, s.lay[s.panes]["MID"]>>
  <2>1. makePixmap2M(s) = t
    BY <1>1 DEF makePixmap2M
  <2>2. s.lay[s.panes]["MID"] \in Kinds /\ s.panes \in Panes /\ slot \in SplitSlots
    BY <1>1 DEF Kinds, Panes, SplitSlots
  <2>3. Cleared(s, q, {slot})
    BY <2>2, SplitCleared DEF Part
  <2>4. Typed(q)
    BY <2>3 DEF Cleared
  <2> HIDE DEF q
  <2>5. Only(q, t, {"resetH"}) /\ t.resetH = q.resetH \cup {"SPLIT2"} \X Places("SPLIT2")
    BY <2>4, FieldNames DEF Only, Typed
  <2>6. q.resetH \cup {"SPLIT2"} \X Places("SPLIT2") \in Types.resetH
    <3>1. {"SPLIT2"} \X Places("SPLIT2") \subseteq Areas
      BY AreaFacts DEF Panes
    <3>2. QED
      BY <2>4, <3>1, FieldTypes DEF Types
  <2> HIDE DEF t
  <2>7. \A x \in {"resetH"} : t[x] \in Types[x]
    BY <2>5, <2>6
  <2>8. Quiet(q, t)
    BY <2>4, <2>5, <2>7, QuietStep DEF SceneFields
  <2>9. Cleared(s, t, {slot})
    BY <2>3, <2>8, QuietCleared
  <2> HIDE DEF slot
  <2>10. Part(t, MainAreas)
    BY <2>2, <2>9, ClearedMain
  <2>11. QED
    BY <2>1, <2>9, <2>10 DEF Cleared
<1>2. CASE ~(s.panes = "SPLIT2" /\ s.lay["SPLIT2"]["MID"] = "TRACE")
  BY <1>2 DEF makePixmap2M, Same
<1>3. QED
  BY <1>1, <1>2

\* Two panes, one after the other.
LEMMA TwoDrawn ==
    ASSUME NEW s, NEW A \in SUBSET Areas, Part(s, A), NEW q \in Places(s.panes), NEW r \in Places(s.panes)
    PROVE  LET t == splitArea(splitArea(s, q), r) IN
           Part(t, A \cup {<<s.panes, q>>, <<s.panes, r>>}) /\ Same(s, t)
<1> DEFINE u == splitArea(s, q)
           t == splitArea(u, r)
           B == A \cup {<<s.panes, q>>}
<1>1. Part(u, B) /\ Same(s, u)
  BY SplitArea DEF Drew
<1>2. u.panes = s.panes /\ B \in SUBSET Areas
  BY <1>1, LayFacts, PaneFacts DEF Same, Part
<1> HIDE DEF u, B
<1>3. Part(t, B \cup {<<s.panes, r>>}) /\ Same(u, t)
  BY <1>1, <1>2, SplitArea DEF Drew
<1>4. Same(s, t)
  BY <1>1, <1>3, SameTrans
<1> HIDE DEF t
<1>5. B \cup {<<s.panes, r>>} = A \cup {<<s.panes, q>>, <<s.panes, r>>}
  BY DEF B
<1>6. QED
  BY <1>3, <1>4, <1>5 DEF t, u

\* All panes drawn: whatever they showed, the scene is in order.
LEMMA DrawPanes ==
    ASSUME NEW s, Part(s, MainAreas)
    PROVE  Good(drawPanes(s)) /\ Same(s, drawPanes(s))
<1> DEFINE p == s.panes
           u == makePixmap2M(s)
<1>1. Part(u, MainAreas) /\ Same(s, u) /\ u.panes = p /\ p \in Panes
  BY Invisible, LayFacts DEF Same, Part
<1>2. MainAreas \subseteq Areas
  BY PaneFacts
<1>3. drawPanes(s) = LET s1 == splitArea(u, "TOP")
                         s2 == IF s1.panes = "SPLIT3" THEN splitArea(s1, "MID") ELSE s1
                     IN  splitArea(s2, "BOT")
  <2>1. Part(splitArea(u, "TOP"), MainAreas \cup {<<p, "TOP">>}) /\ Same(u, splitArea(u, "TOP"))
    <3>1. "TOP" \in Places(p)
      BY <1>1 DEF Panes, Places
    <3>2. QED
      BY <1>1, <1>2, <3>1, SplitArea DEF Drew
  <2>2. splitArea(u, "TOP").panes = s.panes
    BY <1>1, <2>1 DEF Same
  <2>3. QED
    BY <2>2 DEF drawPanes
<1> HIDE DEF u
<1>4. CASE p = "SPLIT2"
  <2> DEFINE t == splitArea(splitArea(u, "TOP"), "BOT")
  <2>1. Places(p) = {"TOP", "BOT"} /\ p # "SPLIT3"
    BY <1>4 DEF Places
  <2>2. Part(t, MainAreas \cup {<<p, "TOP">>, <<p, "BOT">>}) /\ Same(u, t)
    BY <1>1, <1>2, <2>1, TwoDrawn
  <2>3. splitArea(u, "TOP").panes = p
    BY <1>1, <1>2, <2>1, SplitArea DEF Drew, Same
  <2>4. drawPanes(s) = t
    BY <1>3, <2>1, <2>3
  <2> HIDE DEF t
  <2>5. Same(s, t) /\ t.panes = p
    BY <1>1, <2>2, SameTrans DEF Same
  <2>6. PaneAreas(t.panes) \subseteq {<<p, "TOP">>, <<p, "BOT">>}
    BY <2>1, <2>5 DEF PaneAreas
  <2>7. Part(t, MainAreas \cup PaneAreas(t.panes))
    BY <2>2, <2>6 DEF Part
  <2>8. QED
    BY <2>4, <2>5, <2>7, WholeGood
<1>5. CASE p = "SPLIT3"
  <2> DEFINE v == splitArea(splitArea(u, "TOP"), "MID")
             t == splitArea(v, "BOT")
             B == MainAreas \cup {<<p, "TOP">>, <<p, "MID">>}
  <2>1. Places(p) = {"TOP", "MID", "BOT"}
    BY <1>5 DEF Places
  <2>2. Part(v, B) /\ Same(u, v)
    BY <1>1, <1>2, <2>1, TwoDrawn
  <2>3. splitArea(u, "TOP").panes = p
    BY <1>1, <1>2, <2>1, SplitArea DEF Drew, Same
  <2>4. drawPanes(s) = t
    BY <1>3, <1>5, <2>3
  <2> HIDE DEF v
  <2>5. v.panes = p /\ B \in SUBSET Areas
    BY <1>1, <1>2, <2>1, <2>2, PaneFacts DEF Same
  <2> HIDE DEF B
  <2>6. Part(t, B \cup {<<p, "BOT">>}) /\ Same(v, t)
    BY <2>1, <2>2, <2>5, SplitArea DEF Drew
  <2> HIDE DEF t
  <2>7. Same(s, t) /\ t.panes = p
    BY <1>1, <2>2, <2>6, SameTrans DEF Same
  <2>8. MainAreas \cup PaneAreas(t.panes) \subseteq B \cup {<<p, "BOT">>}
    BY <2>1, <2>7 DEF PaneAreas, B
  <2>9. Part(t, MainAreas \cup PaneAreas(t.panes))
    BY <2>6, <2>8 DEF Part
  <2>10. QED
    BY <2>4, <2>7, <2>9, WholeGood
<1>6. QED
  BY <1>1, <1>4, <1>5 DEF Panes

LEMMA GoodMain ==
    ASSUME NEW s, Good(s)
    PROVE  Typed(s) /\ Part(s, MainAreas) /\ Areas \in SUBSET Areas
BY PaneFacts DEF Good, Part

LEMMA DrewGood ==
    ASSUME NEW s, NEW t, NEW b \in Areas, Drew(s, t, Areas, b)
    PROVE  Good(t) /\ Same(s, t) /\ b \notin t.dead
BY DEF Drew, Good, Part


-----------------------------------------------------------------------------
(* Handlers that draw: from a scene in order to a scene in order.          *)

\* From s the scene stays in order, on the page and with the panes of s.
Draws(s, t) == Good(t) /\ Same(s, t)

LEMMA QuietGood ==
    ASSUME NEW s, NEW t, Good(s), Quiet(s, t)
    PROVE  Draws(s, t) /\ Typed(t)
BY QuietPart, GoodMain DEF Good, Draws, Quiet

LEMMA DrawsTrans ==
    ASSUME NEW s, NEW t, NEW u, Draws(s, t), Draws(t, u)
    PROVE  Draws(s, u)
BY SameTrans DEF Draws

LEMMA MainDraws ==
    ASSUME NEW s, Good(s)
    PROVE  /\ Draws(s, tracePixmap(s)) /\ Area("TRACE") \notin tracePixmap(s).dead
           /\ Draws(s, magPixmap(s)) /\ Area("MAG") \notin magPixmap(s).dead
           /\ Draws(s, specPixmap(s)) /\ Area("SPEC") \notin specPixmap(s).dead
<1>1. Area("TRACE") \in Areas /\ Area("MAG") \in Areas /\ Area("SPEC") \in Areas
  BY AreaFacts DEF Kinds
<1>2. Part(s, Areas) /\ Areas \in SUBSET Areas
  BY DEF Good
<1>3. /\ Drew(s, tracePixmap(s), Areas, Area("TRACE")) /\ Drew(s, magPixmap(s), Areas, Area("MAG"))
      /\ Drew(s, specPixmap(s), Areas, Area("SPEC"))
  BY <1>2, TracePixmap, MagPixmap, SpecPixmap
<1>4. QED
  BY <1>1, <1>3, DrewGood DEF Draws

LEMMA SplitDraws ==
    ASSUME NEW s, Good(s), NEW q \in Places(s.panes)
    PROVE  Draws(s, splitArea(s, q)) /\ <<s.panes, q>> \notin splitArea(s, q).dead
<1>1. <<s.panes, q>> \in Areas
  BY GoodMain, LayFacts, PaneFacts
<1>2. Drew(s, splitArea(s, q), Areas, <<s.panes, q>>)
  BY SplitArea DEF Good
<1>3. QED
  BY <1>1, <1>2, DrewGood DEF Draws

LEMMA PanesDraw ==
    ASSUME NEW s, Good(s)
    PROVE  Draws(s, drawPanes(s))
BY DrawPanes, GoodMain DEF Draws

\* An area of the panes not shown is drawn from another page only.
LEMMA MakePixmap ==
    ASSUME NEW s, Good(s), NEW a \in Areas, a \in Visible(s) \/ s.page # "H"
    PROVE  Draws(s, makePixmap(s, a)) /\ (a \in Visible(s) => a \notin makePixmap(s, a).dead)
<1>1. Typed(s) /\ s.panes \in Panes
  BY GoodMain, LayFacts
<1>2. CASE a \in MainAreas
  <2>1. a = Area("TRACE") \/ a = Area("MAG") \/ a = Area("SPEC")
    BY <1>2 DEF MainAreas, Kinds
  <2>2. Area("TRACE") # Area("MAG") /\ Area("TRACE") # Area("SPEC") /\ Area("MAG") # Area("SPEC")
    BY DEF Area
  <2>3. /\ makePixmap(s, Area("TRACE")) = tracePixmap(s)
        /\ makePixmap(s, Area("MAG")) = magPixmap(s)
        /\ makePixmap(s, Area("SPEC")) = specPixmap(s)
    BY <2>2 DEF makePixmap
  <2>4. QED
    BY <2>1, <2>3, MainDraws
<1>3. CASE a \notin MainAreas
  <2>1. PICK p \in Panes : a \in PaneAreas(p) /\ a[1] = p /\ a[1] # "MAIN"
    BY <1>3, PaneFacts
  <2>2. a[2] \in Places(p) /\ a = <<p, a[2]>>
    BY <2>1 DEF PaneAreas
  <2>3. a # Area("TRACE") /\ a # Area("MAG") /\ a # Area("SPEC") /\ \A k \in Kinds : a # Area(k)
    BY <1>3 DEF MainAreas, Kinds
  <2>4. a \in Visible(s) => p = s.panes
    BY <2>1 DEF Visible
  <2>5. CASE s.lay[s.panes][a[2]] = "NONE"
    <3>1. makePixmap(s, a) = [s EXCEPT !.crashed = TRUE]
      BY <2>3, <2>5 DEF makePixmap
    <3>2. a \notin Visible(s)
      BY <1>1, <2>2, <2>4, <2>5, LayFacts DEF Kinds
    <3> DEFINE t == [s EXCEPT !.crashed = TRUE]
    <3>3. Only(s, t, {"crashed"}) /\ t.crashed \in Types.crashed
      BY <1>1, FieldNames DEF Only, Typed, Types
    <3> HIDE DEF t
    <3>4. Quiet(s, t)
      BY <1>1, <3>3, QuietStep DEF SceneFields
    <3>5. QED
      BY <3>1, <3>2, <3>4, QuietGood DEF t
  <2>6. CASE s.lay[s.panes][a[2]] # "NONE"
    <3> DEFINE kind == s.lay[s.panes][a[2]]
               t == splitPixmap(s, a[2])
    <3>1. makePixmap(s, a) = Show(t, a, <<s.panes, kind>>)
      BY <2>3, <2>6 DEF makePixmap
    <3>2. CASE a \in Visible(s)
      <4>1. makePixmap(s, a) = splitArea(s, a[2])
        BY <2>2, <2>4, <3>1, <3>2 DEF splitArea
      <4>2. QED
        BY <2>2, <2>4, <3>2, <4>1, SplitDraws
    <3>3. CASE a \notin Visible(s)
      <4>1. a[2] \in {"TOP", "MID", "BOT"}
        BY <2>2 DEF Places
      <4>2. kind \in Kinds
        BY <1>1, <2>6, <4>1, LayFacts
      <4>3. Cleared(s, t, {<<s.panes, kind>>})
        BY <1>1, <4>2, SplitCleared
      <4>4. <<s.panes, kind>> \in SplitSlots /\ <<s.panes, kind>> \in Slots
        BY <1>1, <4>2, SlotFacts
      <4> HIDE DEF kind, t
      <4>5. ASSUME NEW b \in Visible(s)  PROVE  s.shown[b] # <<s.panes, kind>>
        <5>1. b \in MainAreas
          BY <1>1, <3>3, VisibleFacts
        <5>2. \A k \in Kinds : <<s.panes, kind>> \notin MainSlots(k) \cup {<<>>}
          BY <4>4, SlotsApart
        <5>3. QED
          BY <5>1, <5>2 DEF MainAreas, Good, Part, Own
      <4>6. Drew(s, Show(t, a, <<s.panes, kind>>), Areas, a)
        BY <2>3, <3>3, <4>3, <4>4, <4>5, ShowDrew DEF Good
      <4>7. QED
        BY <3>1, <3>3, <4>6, DrewGood DEF Draws, t, kind
    <3>4. QED
      BY <3>2, <3>3
  <2>7. QED
    BY <2>5, <2>6
<1>4. QED
  BY <1>2, <1>3

\* A redraw of the page by the wheel or the keys; of the split page, all panes.
LEMMA ReMagPanes ==
    ASSUME NEW s, Part(s, MainAreas)
    PROVE  Draws(s, reMag(s, "H"))
<1> DEFINE u == WindowChanged(s)
           q == IF u.panes = "SPLIT2" THEN "BOT" ELSE "MID"
           v == splitArea(u, q)
<1>1. Typed(s)
  BY DEF Part
<1>2. Part(u, MainAreas) /\ Same(s, u)
  BY <1>1, WindowChangedType, QuietPart
<1>3. reMag(s, "H") = drawPanes(v)
  BY DEF reMag
<1> HIDE DEF u
<1>4. q \in Places(u.panes)
  BY <1>2, LayFacts DEF Part, Panes, Places
<1> HIDE DEF q
<1>5. Part(v, MainAreas) /\ Same(u, v)
  <2>1. MainAreas \in SUBSET Areas
    BY PaneFacts
  <2>2. Drew(u, v, MainAreas, <<u.panes, q>>)
    BY <1>2, <1>4, <2>1, SplitArea
  <2>3. QED
    BY <2>2 DEF Drew, Part
<1> HIDE DEF v
<1>6. Good(drawPanes(v)) /\ Same(v, drawPanes(v))
  BY <1>5, DrawPanes
<1>7. QED
  BY <1>2, <1>3, <1>5, <1>6, SameTrans DEF Draws

LEMMA ReMag ==
    ASSUME NEW s, Good(s), NEW p \in {"M", "H"}
    PROVE  Draws(s, reMag(s, p))
<1>1. CASE p = "H"
  BY <1>1, ReMagPanes, GoodMain
<1>2. CASE p = "M"
  <2> DEFINE u == WindowChanged(s)
  <2>1. Draws(s, u)
    BY WindowChangedType, QuietGood, GoodMain
  <2>2. reMag(s, p) = magPixmap(u)
    BY <1>2 DEF reMag
  <2> HIDE DEF u
  <2>3. Draws(u, magPixmap(u))
    BY <2>1, MainDraws DEF Draws
  <2>4. QED
    BY <2>1, <2>2, <2>3, DrawsTrans
<1>3. QED
  BY <1>1, <1>2

\* A combo box of the panes: all panes are drawn by the layout that now holds.
LEMMA ComboChanged ==
    ASSUME NEW s, Part(s, MainAreas)
    PROVE  Draws(s, comboChanged(s))
<1> DEFINE u == [s EXCEPT !.view["SPEC"] = s.view["MAG"]]
           S == IF s.view["SPEC"] = s.view["MAG"] THEN {} ELSE TwoPanes({"SPEC"})
           v == Age(u, S)
<1>1. Typed(s)
  BY DEF Part
<1>2. comboChanged(s) = reMag(v, "H")
  BY DEF comboChanged
<1> HIDE DEF S
<1>3. Only(s, u, {"view"}) /\ u.view \in Types.view
  BY <1>1, FieldNames, FieldTypes DEF Only, Typed, Types, Kinds
<1> HIDE DEF u
<1>4. Quiet(s, u)
  BY <1>1, <1>3, QuietStep DEF SceneFields
<1>5. Quiet(u, v)
  BY <1>4, AgeType DEF Quiet
<1> HIDE DEF v
<1>6. Part(v, MainAreas) /\ Same(s, v)
  BY <1>1, <1>4, <1>5, QuietTrans, QuietPart
<1>7. QED
  BY <1>2, <1>6, ReMagPanes, SameTrans DEF Draws


\* Only the panes that are up, or their layout, differ: the main areas do not.
LEMMA Relaid ==
    ASSUME NEW s, Good(s), NEW t, Typed(t), Only(s, t, {"panes", "lay", "lost", "refreshH", "screen"})
    PROVE  Part(t, MainAreas) /\ t.page = s.page /\ t.resize = s.resize
<1>1. /\ t.page = s.page /\ t.resize = s.resize /\ t.dead = s.dead /\ t.left = s.left /\ t.shown = s.shown
  BY FieldNames DEF Only
<1>2. ASSUME NEW a \in MainAreas  PROVE  Ok(t, a)
  <2>1. a \in Areas /\ a[1] = "MAIN" /\ Ok(s, a)
    BY PaneFacts, AreaFacts DEF Good, Part, MainAreas
  <2>2. a \in Visible(t) <=> a \in Visible(s)
    BY <1>1, <2>1 DEF Visible
  <2>3. AloneIn(s, a)
    BY <2>1 DEF AloneIn
  <2>4. QED
    BY <1>1, <2>1, <2>2, <2>3 DEF Ok
<1>3. QED
  BY <1>1, <1>2 DEF Part, Good, Own

LEMMA SetPanes ==
    ASSUME NEW s, Good(s), NEW p \in Panes
    PROVE  Good(setPanes(s, p))
<1> DEFINE s1 == [s EXCEPT !.panes = p]
           Set(x, q) == IF s.lay[s.panes][q] # s.lay[p][q] THEN comboChanged(x) ELSE x
<1>1. Typed(s)
  BY GoodMain
<1>2. ASSUME NEW x, Part(x, MainAreas), NEW q
      PROVE  Part(Set(x, q), MainAreas) /\ Same(x, Set(x, q))
  <2>1. Part(comboChanged(x), MainAreas) /\ Same(x, comboChanged(x))
    BY <1>2, ComboChanged, GoodMain DEF Draws
  <2>2. QED
    BY <1>2, <2>1 DEF Same
<1>3. ASSUME NEW x, Part(x, MainAreas)
      PROVE  Part(Set(Set(x, "TOP"), "BOT"), MainAreas) /\ Same(x, Set(Set(x, "TOP"), "BOT"))
  <2> DEFINE y == Set(x, "TOP")
  <2>1. Part(y, MainAreas) /\ Same(x, y)
    BY <1>2, <1>3
  <2> HIDE DEF y
  <2>2. Part(Set(y, "BOT"), MainAreas) /\ Same(y, Set(y, "BOT"))
    BY <1>2, <2>1
  <2> HIDE DEF Set
  <2>3. QED
    BY <2>1, <2>2, SameTrans DEF y
<1>4. CASE p = "SPLIT2"
  <2> DEFINE r == [s1 EXCEPT !.screen = p]
             u == makePixmap2M(r)
             v == Set(Set(u, "TOP"), "BOT")
             t == splitArea(splitArea(v, "TOP"), "BOT")
  <2>1. setPanes(s, p) = t
    BY <1>4 DEF setPanes
  <2>2. Only(s, r, {"panes", "screen"}) /\ r.panes = p /\ r.screen = p
    BY <1>1, FieldNames DEF Only, Typed
  <2> HIDE DEF r
  <2>3. \A x \in {"panes", "screen"} : r[x] \in Types[x]
    BY <2>2 DEF Types, Screens
  <2>4. Typed(r)
    BY <1>1, <2>2, <2>3, Retyped
  <2>5. Part(r, MainAreas)
    <3>1. Only(s, r, {"panes", "lay", "lost", "refreshH", "screen"})
      BY <2>2 DEF Only
    <3>2. QED
      BY <2>4, <3>1, Relaid
  <2>6. Part(u, MainAreas) /\ Same(r, u)
    BY <2>5, Invisible
  <2> HIDE DEF u
  <2>7. Part(v, MainAreas) /\ Same(u, v)
    BY <1>3, <2>6
  <2> HIDE DEF v
  <2>8. v.panes = "SPLIT2" /\ MainAreas \in SUBSET Areas
    BY <1>4, <2>2, <2>6, <2>7, PaneFacts DEF Same
  <2>9. "TOP" \in Places(v.panes) /\ "BOT" \in Places(v.panes)
    BY <2>8 DEF Places
  <2>10. Part(t, MainAreas \cup {<<v.panes, "TOP">>, <<v.panes, "BOT">>}) /\ Same(v, t)
    BY <2>7, <2>8, <2>9, TwoDrawn
  <2> HIDE DEF t
  <2>11. PaneAreas(t.panes) = {<<v.panes, "TOP">>, <<v.panes, "BOT">>}
    BY <2>8, <2>10 DEF PaneAreas, Places, Same
  <2>12. QED
    BY <2>1, <2>10, <2>11, WholeGood
<1>5. CASE p = "SPLIT3"
  <2> DEFINE u == Set(Set(s1, "TOP"), "BOT")
             v == [u EXCEPT !.screen = p, !.lost = IF u = s1 THEN @ ELSE @ \cup {"order"}]
  <2>1. setPanes(s, p) = drawPanes(v)
    <3>1. p # "SPLIT2"
      BY <1>5
    <3>2. QED
      BY <3>1 DEF setPanes
  <2>2. Only(s, s1, {"panes"}) /\ s1.panes = p
    BY <1>1, FieldNames DEF Only, Typed
  <2> HIDE DEF s1
  <2>3. \A x \in {"panes"} : s1[x] \in Types[x]
    BY <2>2 DEF Types
  <2>4. Typed(s1)
    BY <1>1, <2>2, <2>3, Retyped
  <2>5. Part(s1, MainAreas)
    <3>1. Only(s, s1, {"panes", "lay", "lost", "refreshH", "screen"})
      BY <2>2 DEF Only
    <3>2. QED
      BY <2>4, <3>1, Relaid
  <2>6. Part(u, MainAreas)
    BY <1>3, <2>5
  <2> HIDE DEF u
  <2>7. Typed(u)
    BY <2>6 DEF Part
  <2>8. Only(u, v, {"screen", "lost"}) /\ v.screen = p /\ v.lost \in {u.lost, u.lost \cup {"order"}}
    BY <2>7, FieldNames DEF Only, Typed
  <2> HIDE DEF v
  <2>9. \A x \in {"screen", "lost"} : v[x] \in Types[x]
    BY <2>7, <2>8, FieldTypes DEF Types, Screens, Exempt
  <2>10. Quiet(u, v)
    BY <2>7, <2>8, <2>9, QuietStep DEF SceneFields
  <2>11. Part(v, MainAreas)
    BY <2>6, <2>7, <2>10, QuietPart
  <2>12. QED
    BY <2>1, <2>11, DrawPanes
<1>6. QED
  BY <1>4, <1>5 DEF Panes

\* Flags and settings a handler sets before it draws.
LEMMA UserType ==
    ASSUME NEW s, Typed(s), NEW w \in Windows \cup {NoWin}
    PROVE  Quiet(s, [s EXCEPT !.user = w]) /\ Quiet(s, [s EXCEPT !.user = w, !.vline = 0])
<1>1. Quiet(s, [s EXCEPT !.user = w])
  <2> DEFINE t == [s EXCEPT !.user = w]
  <2>1. Only(s, t, {"user"}) /\ t.user = w
    BY FieldNames DEF Only, Typed
  <2> HIDE DEF t
  <2>2. \A x \in {"user"} : t[x] \in Types[x]
    BY <2>1 DEF Types
  <2>3. Quiet(s, t)
    BY <2>1, <2>2, QuietStep DEF SceneFields
  <2>4. QED
    BY <2>3 DEF t
<1>2. Quiet(s, [s EXCEPT !.user = w, !.vline = 0])
  <2> DEFINE t == [s EXCEPT !.user = w, !.vline = 0]
  <2>1. Only(s, t, {"user", "vline"}) /\ t.user = w /\ t.vline = 0
    BY FieldNames DEF Only, Typed
  <2> HIDE DEF t
  <2>2. \A x \in {"user", "vline"} : t[x] \in Types[x]
    BY <2>1 DEF Types
  <2>3. Quiet(s, t)
    BY <2>1, <2>2, QuietStep DEF SceneFields
  <2>4. QED
    BY <2>3 DEF t
<1>3. QED
  BY <1>1, <1>2

LEMMA TfType ==
    ASSUME NEW s, Typed(s), NEW t \in OnOff
    PROVE  Quiet(s, [s EXCEPT !.tf = t])
<1> DEFINE u == [s EXCEPT !.tf = t]
<1>1. Only(s, u, {"tf"}) /\ u.tf \in Types.tf
  BY FieldNames DEF Only, Typed, Types
<1> HIDE DEF u
<1>2. QED
  BY <1>1, QuietStep DEF SceneFields, u

\* The transform switched: its pixmaps age.
LEMMA TfAged ==
    ASSUME NEW s, Typed(s), NEW t \in OnOff, NEW S
    PROVE  Quiet(s, AgeFFT(Age([s EXCEPT !.tf = t], S)))
<1> DEFINE u == [s EXCEPT !.tf = t]
           v == Age(u, S)
<1>1. Quiet(s, u) /\ Typed(u)
  BY TfType DEF Quiet
<1> HIDE DEF u
<1>2. Quiet(u, v) /\ Typed(v)
  BY <1>1, AgeType DEF Quiet
<1> HIDE DEF v
<1>3. Quiet(v, AgeFFT(v))
  BY <1>2, AgeFFTType
<1>4. QED
  BY <1>1, <1>2, <1>3, QuietTrans DEF v, u

LEMMA TransformedType ==
    ASSUME NEW s, Typed(s), NEW t \in OnOff
    PROVE  Quiet(s, Transformed(s, t))
BY TfAged DEF Transformed

LEMMA AllResetType ==
    ASSUME NEW s, Typed(s)
    PROVE  Quiet(s, AllReset(s))
BY MagSelectionType DEF AllReset, makeMAGSelectionList

LEMMA MainAreaFacts ==
    ASSUME NEW p
    PROVE  MainArea(p) \in Areas /\ MainArea(p) \in MainAreas
BY AreaFacts DEF MainArea, Kinds, MainAreas

LEMMA RedrawPage ==
    ASSUME NEW s, Good(s), NEW p, p = s.page, NEW a \in Areas
    PROVE  Draws(s, redrawPage(s, p, a))
<1>1. CASE p \in {"M", "S"}
  BY <1>1, MakePixmap DEF redrawPage
<1>2. CASE p = "H"
  <2> DEFINE u == drawPanes(s)
             t == [u EXCEPT !.refreshH = @ \cup (Panes \ {s.screen}) \X Kinds]
  <2>1. redrawPage(s, p, a) = t
    BY <1>2 DEF redrawPage
  <2>2. Draws(s, u)
    BY PanesDraw
  <2> HIDE DEF u
  <2>3. Typed(u)
    BY <2>2, GoodMain DEF Draws
  <2>4. Only(u, t, {"refreshH"}) /\ t.refreshH \in Types.refreshH
    BY <2>3, FieldNames, FieldTypes DEF Only, Typed, Types, TwoPanes
  <2> HIDE DEF t
  <2>5. Quiet(u, t)
    BY <2>3, <2>4, QuietStep DEF SceneFields
  <2>6. QED
    BY <2>1, <2>2, <2>5, QuietGood, DrawsTrans DEF Draws
<1>3. CASE p \notin {"M", "S", "H"}
  <2>1. redrawPage(s, p, a) = s
    BY <1>3 DEF redrawPage
  <2>2. QED
    BY <2>1 DEF Draws, Same
<1>4. QED
  BY <1>1, <1>2, <1>3

LEMMA ApplyFilter ==
    ASSUME NEW s, Good(s)
    PROVE  Draws(s, applyFilter(s))
<1>1. Typed(s) /\ s.tf \in OnOff /\ "off" \in OnOff
  BY GoodMain, FieldTypes DEF OnOff
<1>2. ASSUME NEW t \in OnOff
      PROVE  Draws(s, makeMAGSelectionList(Transformed(s, t)))
  <2> DEFINE u == Transformed(s, t)
  <2>1. Quiet(s, u) /\ Typed(u)
    BY <1>1, TransformedType DEF Quiet
  <2> HIDE DEF u
  <2>2. Quiet(u, makeMAGSelectionList(u))
    BY <2>1, MagSelectionType
  <2>3. QED
    BY <2>1, <2>2, QuietTrans, QuietGood DEF u
<1>3. CASE s.tf = "on" /\ ~s.sel
  BY <1>1, <1>2, <1>3 DEF applyFilter
<1>4. CASE ~(s.tf = "on" /\ ~s.sel)
  <2> DEFINE v == makeMAGSelectionList(Transformed(s, s.tf))
  <2>1. applyFilter(s) = redrawPage(v, s.page, MainArea(s.page))
    BY <1>4 DEF applyFilter
  <2>2. Draws(s, v)
    BY <1>1, <1>2
  <2> HIDE DEF v
  <2>3. Draws(v, redrawPage(v, s.page, MainArea(s.page)))
    BY <2>2, RedrawPage, MainAreaFacts DEF Draws, Same
  <2>4. QED
    BY <2>1, <2>2, <2>3, DrawsTrans
<1>5. QED
  BY <1>3, <1>4

-----------------------------------------------------------------------------
(* The invariant, and what every action does to it.                        *)

IInv ==
    /\ Good(g)
    /\ tails \in Seq(Waiting) /\ Len(tails) <= MaxNest
    /\ ops \in 0..MaxOps

\* A handler that starts, and one that also leaves something for later.
LEMMA DoStep ==
    ASSUME IInv, NEW s, Good(s), Do(s)
    PROVE  IInv'
<1>1. g' = s /\ tails' = tails /\ ops' = ops + 1 /\ ops < MaxOps
  BY DEF Do, Serve
<1>2. ops' \in 0..MaxOps
  BY <1>1, ScreensAssumption DEF IInv
<1>3. QED
  BY <1>1, <1>2 DEF IInv

LEMMA DoThenStep ==
    ASSUME IInv, NEW s, Good(s), NEW x, NEW y, <<x, y>> \in Waiting, DoThen(s, x, y)
    PROVE  IInv'
<1>1. g' = s /\ tails' = Append(tails, <<x, y>>) /\ ops' = ops + 1 /\ ops < MaxOps /\ Len(tails) < MaxNest
  BY DEF DoThen, Serve
<1>2. ops' \in 0..MaxOps
  BY <1>1, ScreensAssumption DEF IInv
<1>3. tails' \in Seq(Waiting) /\ Len(tails') <= MaxNest
  <2>1. tails \in Seq(Waiting)
    BY DEF IInv
  <2> DEFINE W == Waiting
             e == <<x, y>>
  <2>2. e \in W /\ tails \in Seq(W) /\ tails' = Append(tails, e)
    BY <1>1, <2>1
  <2> HIDE DEF W, e
  <2>3. tails' \in Seq(W) /\ Len(tails') = Len(tails) + 1
    BY <2>2
  <2>4. QED
    BY <1>1, <2>2, <2>3, ScreensAssumption DEF W
<1>4. QED
  BY <1>1, <1>2, <1>3 DEF IInv

LEMMA StartGood ==
    ASSUME IInv
    PROVE  /\ Good(s0) /\ Typed(s0) /\ Same(g, s0) /\ Typed(g)
           /\ Visible(s0) = Visible(g) /\ Only(g, s0, {"drawn"})
<1>1. Good(g) /\ Typed(g)
  BY GoodMain DEF IInv
<1>2. Only(g, s0, {"drawn"}) /\ s0.drawn \in Types.drawn
  BY <1>1, FieldNames DEF Only, Typed, Types, s0
<1>3. Quiet(g, s0)
  BY <1>1, <1>2, QuietStep DEF SceneFields
<1>4. Draws(g, s0) /\ Typed(s0)
  BY <1>1, <1>3, QuietGood
<1>5. QED
  BY <1>1, <1>2, <1>4 DEF Draws, Same, Visible

\* The area drawn is no longer to be resized.
LEMMA Resized ==
    ASSUME NEW s, Good(s), NEW a \in Areas, a \notin Visible(s) \cap s.dead
    PROVE  Good([s EXCEPT !.curScr = a, !.resize = @ \ {a}])
<1> DEFINE t == [s EXCEPT !.curScr = a, !.resize = @ \ {a}]
<1>1. Typed(s)
  BY GoodMain
<1>2. Only(s, t, {"curScr", "resize"}) /\ t.curScr = a /\ t.resize = s.resize \ {a}
  BY <1>1, FieldNames DEF Only, Typed
<1> HIDE DEF t
<1>3. \A x \in {"curScr", "resize"} : t[x] \in Types[x]
  BY <1>1, <1>2, FieldTypes DEF Types
<1>4. Typed(t)
  BY <1>1, <1>2, <1>3, Retyped
<1>5. /\ t.page = s.page /\ t.panes = s.panes /\ t.lay = s.lay /\ t.dead = s.dead
      /\ t.left = s.left /\ t.shown = s.shown
  BY <1>2, FieldNames DEF Only
<1>6. ASSUME NEW b \in Areas  PROVE  Ok(t, b)
  <2>1. Ok(s, b) /\ Visible(t) = Visible(s) /\ (AloneIn(t, b) <=> AloneIn(s, b))
    BY <1>5 DEF Good, Part, Visible, AloneIn, KindOf
  <2>2. QED
    BY <1>2, <1>5, <2>1 DEF Ok
<1>7. QED
  BY <1>4, <1>5, <1>6 DEF Good, Part, Own, t

LEMMA ResizeStep ==
    ASSUME IInv, NEW a \in Areas, pixmap_cfg(a)
    PROVE  IInv'
<1> DEFINE m == [s0 EXCEPT !.refresh = @ \cup {a[2]}]
           h == [s0 EXCEPT !.resetH = @ \cup {a}]
           s1 == IF a[1] = "MAIN" THEN m ELSE h
           s2 == IF PageOf(a) = g.page THEN makePixmap(s1, a) ELSE s1
           t == [s2 EXCEPT !.curScr = a, !.resize = @ \ {a}]
<1>1. Good(s0) /\ Typed(s0) /\ Same(g, s0) /\ Visible(s0) = Visible(g)
  BY StartGood
<1>2. Do(t) /\ a[1] \in {"MAIN", g.panes}
  BY DEF pixmap_cfg
<1>3. Quiet(s0, s1)
  <2>1. CASE a[1] = "MAIN"
    <3>1. a[2] \in Kinds
      BY <2>1, PaneFacts, AreaFacts DEF MainAreas
    <3>2. Only(s0, m, {"refresh"}) /\ m.refresh \in Types.refresh
      BY <1>1, <3>1, FieldNames, FieldTypes DEF Only, Typed, Types
    <3> HIDE DEF m
    <3>3. Quiet(s0, m)
      BY <1>1, <3>2, QuietStep DEF SceneFields
    <3>4. QED
      BY <2>1, <3>3
  <2>2. CASE a[1] # "MAIN"
    <3>1. Only(s0, h, {"resetH"}) /\ h.resetH \in Types.resetH
      BY <1>1, FieldNames, FieldTypes DEF Only, Typed, Types
    <3> HIDE DEF h
    <3>2. Quiet(s0, h)
      BY <1>1, <3>1, QuietStep DEF SceneFields
    <3>3. QED
      BY <2>2, <3>2
  <2>3. QED
    BY <2>1, <2>2
<1> HIDE DEF s1
<1>4. Draws(s0, s1) /\ Good(s1) /\ Visible(s1) = Visible(g) /\ s1.page = g.page
  BY <1>1, <1>3, QuietGood DEF Draws, Same, Visible
<1>5. Good(s2) /\ a \notin Visible(s2) \cap s2.dead
  <2>1. CASE PageOf(a) = g.page
    <3>1. a \in Visible(s1)
      BY <1>2, <1>4, <2>1 DEF Visible
    <3>2. Draws(s1, s2) /\ a \notin s2.dead
      BY <1>4, <2>1, <3>1, MakePixmap
    <3>3. QED
      BY <3>2 DEF Draws
  <2>2. CASE PageOf(a) # g.page
    BY <1>4, <2>2 DEF Visible
  <2>3. QED
    BY <2>1, <2>2
<1> HIDE DEF s2
<1>6. Good(t)
  BY <1>5, Resized
<1>7. QED
  BY <1>2, <1>6, DoStep

\* Another page: what it shows is drawn, or its area is to be resized.
LEMMA PageStep ==
    ASSUME IInv, NEW p \in Pages, change_menu(p)
    PROVE  IInv'
<1> DEFINE s1 == [s0 EXCEPT !.page = p, !.screen = IF p = "H" THEN g.panes ELSE "MAIN"]
           r == [s1 EXCEPT !.resize = @ \cup {Area("MAG")}]
<1>1. Good(s0) /\ Typed(s0) /\ Typed(g)
  BY StartGood
<1>2. Do(CASE p = "T" -> tracePixmap(s1)
           [] p = "M" -> r
           [] p = "S" -> specPixmap(s1)
           [] p = "H" -> drawPanes(s1)
           [] p = "HDR" -> s1)
  BY DEF change_menu
<1>3. Only(s0, s1, {"page", "screen"}) /\ s1.page = p /\ s1.screen \in {g.panes, "MAIN"}
  BY <1>1, FieldNames DEF Only, Typed
<1> HIDE DEF s1
<1>4. Typed(s1) /\ s1.panes \in Panes
  <2>1. \A x \in {"page", "screen"} : s1[x] \in Types[x]
    BY <1>1, <1>3, FieldTypes DEF Types, Screens
  <2>2. Typed(s1)
    BY <1>1, <1>3, <2>1, Retyped
  <2>3. QED
    BY <2>2, LayFacts
<1>5. Own(s1) /\ s1.shown = s0.shown
  BY <1>1, <1>3, FieldNames DEF Only, Good, Part, Own
<1>6. ASSUME NEW a \in Areas, Visible(s1) \subseteq {a}, a[1] = "MAIN", NEW t, Drew(s1, t, {}, a)
      PROVE  Good(t)
  <2>1. Visible(t) = Visible(s1)
    BY <1>6 DEF Drew, Same, Visible
  <2>2. \A b \in Areas : Ok(t, b)
    BY <1>6, <2>1 DEF Ok, Drew, Part
  <2>3. QED
    BY <1>6, <2>2 DEF Good, Part, Drew
<1>7. Part(s1, {})
  BY <1>4, <1>5 DEF Part
<1>8. CASE p = "T"
  <2>1. Visible(s1) \subseteq {Area("TRACE")} /\ Area("TRACE") \in Areas /\ Area("TRACE")[1] = "MAIN"
    BY <1>3, <1>4, <1>8, VisibleFacts, AreaFacts DEF Kinds
  <2>2. Drew(s1, tracePixmap(s1), {}, Area("TRACE"))
    BY <1>7, TracePixmap
  <2>3. Good(tracePixmap(s1))
    BY <1>6, <2>1, <2>2
  <2>4. QED
    BY <1>2, <1>8, <2>3, DoStep
<1>9. CASE p = "M"
  <2>1. Area("MAG") \in Areas /\ Area("MAG")[1] = "MAIN"
    BY AreaFacts DEF Kinds
  <2>2. Only(s1, r, {"resize"}) /\ r.resize = s1.resize \cup {Area("MAG")}
    BY <1>4, FieldNames DEF Only, Typed
  <2> HIDE DEF r
  <2>3. \A x \in {"resize"} : r[x] \in Types[x]
    BY <1>4, <2>1, <2>2, FieldTypes DEF Types
  <2>4. Typed(r)
    BY <1>4, <2>2, <2>3, Retyped
  <2>5. r.page = "M" /\ r.shown = s1.shown /\ r.panes \in Panes
    BY <1>3, <1>4, <1>9, <2>2, FieldNames DEF Only
  <2>6. Visible(r) = {Area("MAG")}
    BY <2>5, VisibleFacts
  <2>7. \A b \in Areas : Ok(r, b)
    BY <2>1, <2>2, <2>6 DEF Ok
  <2>8. Good(r)
    BY <1>5, <2>4, <2>5, <2>7 DEF Good, Part, Own
  <2>9. QED
    BY <1>2, <1>9, <2>8, DoStep
<1>10. CASE p = "S"
  <2>1. Visible(s1) \subseteq {Area("SPEC")} /\ Area("SPEC") \in Areas /\ Area("SPEC")[1] = "MAIN"
    BY <1>3, <1>4, <1>10, VisibleFacts, AreaFacts DEF Kinds
  <2>2. Drew(s1, specPixmap(s1), {}, Area("SPEC"))
    BY <1>7, SpecPixmap
  <2>3. Good(specPixmap(s1))
    BY <1>6, <2>1, <2>2
  <2>4. QED
    BY <1>2, <1>10, <2>3, DoStep
<1>11. CASE p = "H"
  <2>1. Visible(s1) = PaneAreas(s1.panes)
    BY <1>3, <1>4, <1>11, VisibleFacts
  <2>2. MainAreas \cap Visible(s1) = {}
    BY <1>4, <2>1, AreaFacts DEF MainAreas, PaneAreas
  <2>3. Part(s1, MainAreas)
    BY <1>7, <2>2 DEF Part, Ok
  <2>4. Good(drawPanes(s1))
    BY <2>3, DrawPanes
  <2>5. QED
    BY <1>2, <1>11, <2>4, DoStep
<1>12. CASE p = "HDR"
  <2>1. Visible(s1) = {}
    BY <1>3, <1>4, <1>12, VisibleFacts
  <2>2. Good(s1)
    BY <1>7, <2>1 DEF Part, Ok, Good
  <2>3. QED
    BY <1>2, <1>12, <2>2, DoStep
<1>13. QED
  BY <1>8, <1>9, <1>10, <1>11, <1>12 DEF Pages


\* One field set to a value of its type.
LEMMA SetField ==
    ASSUME NEW s, Typed(s), NEW x \in Fields \ SceneFields, NEW v \in Types[x]
    PROVE  Quiet(s, [s EXCEPT ![x] = v])
<1> DEFINE t == [s EXCEPT ![x] = v]
<1>1. Only(s, t, {x}) /\ t[x] = v
  BY DEF Only, Typed
<1> HIDE DEF t
<1>2. \A y \in {x} : t[y] \in Types[y]
  BY <1>1
<1>3. Quiet(s, t)
  BY <1>1, <1>2, QuietStep
<1>4. QED
  BY <1>3 DEF t

LEMMA FlagTypes ==
    ASSUME NEW s, Typed(s)
    PROVE  /\ \A v \in BOOLEAN : /\ Quiet(s, [s EXCEPT !.busy = v]) /\ Quiet(s, [s EXCEPT !.drag = v])
                                 /\ Quiet(s, [s EXCEPT !.filter = v]) /\ Quiet(s, [s EXCEPT !.crashed = v])
                                 /\ Quiet(s, [s EXCEPT !.resetAll = v])
           /\ \A v \in SUBSET Kinds : Quiet(s, [s EXCEPT !.reset = v])
           /\ \A v \in SUBSET TwoPanes(Kinds) : Quiet(s, [s EXCEPT !.refreshH = v])
           /\ \A v \in SUBSET Exempt : Quiet(s, [s EXCEPT !.lost = v])
           /\ \A v \in 0..2 : Quiet(s, [s EXCEPT !.vline = v])
           /\ \A v \in [Kinds -> Views] : Quiet(s, [s EXCEPT !.view = v])
<1>1. \A x \in {"busy", "drag", "filter", "crashed", "resetAll"} : x \in Fields \ SceneFields /\ Types[x] = BOOLEAN
  BY FieldNames DEF Types, SceneFields
<1>2. /\ {"reset", "refreshH", "lost", "vline", "view"} \subseteq Fields \ SceneFields
      /\ Types["reset"] = SUBSET Kinds /\ Types["refreshH"] = SUBSET TwoPanes(Kinds)
      /\ Types["lost"] = SUBSET Exempt /\ Types["vline"] = 0..2 /\ Types["view"] = [Kinds -> Views]
  BY FieldNames DEF Types, SceneFields
<1>3. ASSUME NEW v \in BOOLEAN
      PROVE  /\ Quiet(s, [s EXCEPT !.busy = v]) /\ Quiet(s, [s EXCEPT !.drag = v])
             /\ Quiet(s, [s EXCEPT !.filter = v]) /\ Quiet(s, [s EXCEPT !.crashed = v])
             /\ Quiet(s, [s EXCEPT !.resetAll = v])
  BY <1>1, SetField
<1>4. \A v \in SUBSET Kinds : Quiet(s, [s EXCEPT !.reset = v])
  BY <1>2, SetField
<1>5. \A v \in SUBSET TwoPanes(Kinds) : Quiet(s, [s EXCEPT !.refreshH = v])
  BY <1>2, SetField
<1>6. \A v \in SUBSET Exempt : Quiet(s, [s EXCEPT !.lost = v])
  BY <1>2, SetField
<1>7. \A v \in 0..2 : Quiet(s, [s EXCEPT !.vline = v])
  BY <1>2, SetField
<1>8. \A v \in [Kinds -> Views] : Quiet(s, [s EXCEPT !.view = v])
  BY <1>2, SetField
<1>9. QED
  BY <1>3, <1>4, <1>5, <1>6, <1>7, <1>8

\* A handler whose settings leave the scene alone, and what it draws after them.
LEMMA QuietDo ==
    ASSUME IInv, NEW s, Quiet(s0, s), NEW t, Draws(s, t), Do(t)
    PROVE  IInv'
<1>1. Good(s)
  BY StartGood, QuietGood DEF Draws
<1>2. Good(t)
  BY DEF Draws
<1>3. QED
  BY <1>2, DoStep

LEMMA QuietDraws ==
    ASSUME IInv, NEW s, Quiet(s0, s)
    PROVE  /\ Typed(s) /\ Good(s) /\ Same(g, s) /\ Visible(s) = Visible(g)
           /\ Draws(s, s) /\ Draws(s, tracePixmap(s)) /\ Draws(s, magPixmap(s)) /\ Draws(s, specPixmap(s))
           /\ Draws(s, drawPanes(s))
<1>1. Good(s) /\ Typed(s) /\ Same(s0, s)
  BY StartGood, QuietGood DEF Draws
<1>2. Same(g, s) /\ Visible(s) = Visible(g) /\ Draws(s, s)
  BY <1>1, StartGood DEF Same, Visible, Draws
<1>3. QED
  BY <1>1, <1>2, MainDraws, PanesDraw

LEMMA ReleasedStep ==
    ASSUME IInv, NEW s, Quiet(s0, s), NEW a \in Visible(g), NEW all, Released(s, a, all)
    PROVE  IInv'
<1>1. Good(s) /\ Same(g, s) /\ a \in Areas /\ s.panes \in Panes
  BY QuietDraws, LayFacts DEF Visible
<1>2. CASE a[1] = "MAIN"
  <2>1. a \in MainAreas /\ DoThen(s, "area", a)
    BY <1>1, <1>2, PaneFacts DEF Released
  <2>2. <<"area", a>> \in Waiting
    BY <2>1 DEF Waiting, MainAreas
  <2>3. QED
    BY <1>1, <2>1, <2>2, DoThenStep
<1>3. CASE a[1] # "MAIN"
  <2>1. a[2] \in Places(s.panes)
    BY <1>1, <1>3, PaneFacts DEF PaneAreas, Visible, Same
  <2>2. Good(splitArea(s, a[2]))
    BY <1>1, <2>1, SplitDraws DEF Draws
  <2>3. DoThen(splitArea(s, a[2]), "panes", <<>>) \/ Do(splitArea(s, a[2]))
    BY <1>3 DEF Released
  <2>4. <<"panes", <<>>>> \in Waiting
    BY DEF Waiting
  <2>5. QED
    BY <2>2, <2>3, <2>4, DoStep, DoThenStep
<1>4. QED
  BY <1>2, <1>3

LEMMA SelectStep ==
    ASSUME IInv, NEW b \in BOOLEAN, selectT(b)
    PROVE  IInv'
<1> DEFINE q == makeSelectionList(s0, TRUE)
           q1 == [q EXCEPT !.resetAll = TRUE]
           s1 == IF b THEN q1 ELSE Deselect(s0)
<1>1. Do(tracePixmap(s1))
  BY DEF selectT
<1>2. Quiet(s0, q) /\ Typed(q)
  BY StartGood, SelectionType DEF Quiet
<1> HIDE DEF q
<1>3. Quiet(s0, q1)
  BY <1>2, FlagTypes, QuietTrans
<1>4. Quiet(s0, s1)
  BY <1>3, StartGood, DeselectType
<1> HIDE DEF s1
<1>5. QED
  BY <1>1, <1>4, QuietDraws, QuietDo

LEMMA NextStep ==
    ASSUME IInv, NEW b \in BOOLEAN, nextTrace(b)
    PROVE  IInv'
<1> DEFINE S == IF g.sel THEN {g.shown[Area("TRACE")]} ELSE {}
           s1 == Age(Deselect(s0), S)
           r == [s1 EXCEPT !.busy = TRUE]
           l == [s1 EXCEPT !.lost = @ \cup {"atEnd"}]
<1>1. IF b THEN Do(tracePixmap(r)) ELSE Do(l)
  BY DEF nextTrace
<1> HIDE DEF S
<1>2. Quiet(s0, s1) /\ Typed(s1)
  <2>1. Quiet(s0, Deselect(s0)) /\ Typed(Deselect(s0))
    BY StartGood, DeselectType DEF Quiet
  <2>2. Quiet(Deselect(s0), s1)
    BY <2>1, AgeType
  <2>3. QED
    BY <2>1, <2>2, QuietTrans DEF Quiet
<1> HIDE DEF s1
<1>3. Quiet(s0, r)
  BY <1>2, FlagTypes, QuietTrans
<1>4. Quiet(s0, l)
  <2>1. s1.lost \cup {"atEnd"} \in SUBSET Exempt
    BY <1>2, FieldTypes DEF Exempt
  <2>2. QED
    BY <1>2, <2>1, FlagTypes, QuietTrans
<1> HIDE DEF r, l
<1>5. QED
  BY <1>1, <1>3, <1>4, QuietDraws, QuietDo

LEMMA ReadDoneStep ==
    ASSUME IInv, ReadDone
    PROVE  IInv'
<1> DEFINE s == [s0 EXCEPT !.busy = FALSE]
<1>1. Do(tracePixmap(s))
  BY DEF ReadDone
<1>2. Quiet(s0, s)
  BY StartGood, FlagTypes
<1> HIDE DEF s
<1>3. QED
  BY <1>1, <1>2, QuietDraws, QuietDo

LEMMA SelectTraceStep ==
    ASSUME IInv, NEW b \in BOOLEAN, selectTrace(b)
    PROVE  IInv'
<1> DEFINE q == makeSelectionList(s0, b)
           s == [q EXCEPT !.refreshH = TwoPanes(Kinds)]
<1>1. Released(s, Area("TRACE"), FALSE) /\ Area("TRACE") \in Visible(g)
  BY DEF selectTrace, Mouse
<1>2. Quiet(s0, q) /\ Typed(q)
  BY StartGood, SelectionType DEF Quiet
<1> HIDE DEF q
<1>3. Quiet(s0, s)
  BY <1>2, FlagTypes, QuietTrans
<1> HIDE DEF s
<1>4. QED
  BY <1>1, <1>3, ReleasedStep

LEMMA BoundaryStep ==
    ASSUME IInv, NEW a \in Areas, NEW w \in Windows, magBoundary(a, w)
    PROVE  IInv'
<1> DEFINE first == g.pix[g.screen] = NoWin \/ g.screen \notin g.half
           q == WindowChanged(s0)
           s == [q EXCEPT !.pix[g.screen] = w, !.user = NoWin,
                          !.half = IF first THEN @ \cup {g.screen} ELSE @ \ {g.screen}]
<1>1. Released(s, a, ~first) /\ a \in Visible(g)
  BY DEF magBoundary, Mouse
<1>2. Quiet(s0, q) /\ Typed(q) /\ g.screen \in Screens
  BY StartGood, WindowChangedType, FieldTypes DEF Quiet
<1> HIDE DEF q
<1> HIDE DEF first
<1>3. /\ Only(q, s, {"pix", "user", "half"}) /\ s.pix = [q.pix EXCEPT ![g.screen] = w] /\ s.user = NoWin
      /\ s.half \in {q.half \cup {g.screen}, q.half \ {g.screen}}
  BY <1>2, FieldNames DEF Only, Typed
<1> HIDE DEF s
<1>4. \A x \in {"pix", "user", "half"} : s[x] \in Types[x]
  BY <1>2, <1>3, FieldTypes DEF Types
<1>5. Quiet(q, s)
  BY <1>2, <1>3, <1>4, QuietStep DEF SceneFields
<1>6. Quiet(s0, s)
  BY <1>2, <1>5, QuietTrans
<1>7. QED
  BY <1>1, <1>6, ReleasedStep

\* magMouse and its drag, with a window magnified.
LEMMA SelectMagStep ==
    ASSUME IInv, NEW a \in Areas, selectMag(a)
    PROVE  IInv'
<1> DEFINE q == [s0 EXCEPT !.refreshH = @ \cup TwoPanes({"MAG", "SPEC"})]
           s == makeMAGSelectionList(q)
<1>1. Released(s, a, FALSE) /\ a \in Visible(g)
  BY DEF selectMag, Magnified, Mouse
<1>2. s0.refreshH \cup TwoPanes({"MAG", "SPEC"}) \in SUBSET TwoPanes(Kinds)
  BY StartGood, FieldTypes DEF TwoPanes, Kinds
<1>3. Quiet(s0, q)
  BY <1>2, StartGood, FlagTypes
<1> HIDE DEF q
<1>4. Quiet(s0, s)
  BY <1>3, QuietDraws, MagSelectionType, QuietTrans
<1> HIDE DEF s
<1>5. QED
  BY <1>1, <1>4, ReleasedStep

LEMMA VLineStep ==
    ASSUME IInv, NEW a \in Areas, vLine(a)
    PROVE  IInv'
<1> DEFINE s == [s0 EXCEPT !.vline = IF @ = 1 THEN 2 ELSE 1]
<1>1. Released(s, a, FALSE) /\ a \in Visible(g)
  BY DEF vLine, Magnified, Mouse
<1>2. (IF s0.vline = 1 THEN 2 ELSE 1) \in 0..2
  OBVIOUS
<1>3. Quiet(s0, s)
  BY <1>2, StartGood, FlagTypes
<1> HIDE DEF s
<1>4. QED
  BY <1>1, <1>3, ReleasedStep

LEMMA XAxisStep ==
    ASSUME IInv, NEW a \in Areas, NEW w \in Windows, xAxis(a, w)
    PROVE  IInv'
<1> DEFINE q == WindowChanged(s0)
           s == [q EXCEPT !.user = w, !.vline = 0]
<1>1. Released(s, a, TRUE) /\ a \in Visible(g)
  BY DEF xAxis, Magnified, Mouse
<1>2. Quiet(s0, q) /\ Typed(q)
  BY StartGood, WindowChangedType DEF Quiet
<1> HIDE DEF q
<1>3. Quiet(s0, s)
  BY <1>2, UserType, QuietTrans
<1> HIDE DEF s
<1>4. QED
  BY <1>1, <1>3, ReleasedStep

LEMMA XAxisShiftStep ==
    ASSUME IInv, NEW a \in Areas, NEW w \in Windows, xAxisShift(a, w)
    PROVE  IInv'
<1> DEFINE s == [s0 EXCEPT !.user = w, !.pix[g.screen] = w, !.reset = @ \cup {"MAG"},
                            !.refreshH = TwoPanes(Kinds), !.lost = @ \cup {"shift"}]
           F == {"user", "pix", "reset", "refreshH", "lost"}
<1>1. Released(s, a, TRUE) /\ a \in Visible(g)
  BY DEF xAxisShift, Magnified, Mouse
<1>2. Typed(s0) /\ g.screen \in Screens
  BY StartGood, FieldTypes
<1>3. /\ Only(s0, s, F) /\ s.user = w /\ s.pix = [s0.pix EXCEPT ![g.screen] = w]
      /\ s.reset = s0.reset \cup {"MAG"} /\ s.refreshH = TwoPanes(Kinds)
      /\ s.lost = s0.lost \cup {"shift"}
  BY <1>2, FieldNames DEF Only, Typed
<1> HIDE DEF s
<1>4. \A x \in F : s[x] \in Types[x]
  BY <1>2, <1>3, FieldTypes DEF Types, Kinds, Exempt
<1>5. Quiet(s0, s)
  BY <1>2, <1>3, <1>4, QuietStep DEF SceneFields
<1>6. QED
  BY <1>1, <1>5, ReleasedStep

LEMMA DragStep ==
    ASSUME IInv, NEW a \in Areas, NEW w \in Windows, magDrag(a, w)
    PROVE  IInv'
<1> DEFINE q == WindowChanged(s0)
           s == [q EXCEPT !.user = w]
           d == makePixmap(s, a)
           t == [d EXCEPT !.drag = TRUE]
<1>1. Do(t) /\ a \in Visible(g)
  BY DEF magDrag, Magnified, Mouse
<1>2. Quiet(s0, q) /\ Typed(q)
  BY StartGood, WindowChangedType DEF Quiet
<1> HIDE DEF q
<1>3. Quiet(s0, s)
  BY <1>2, UserType, QuietTrans
<1> HIDE DEF s
<1>4. Draws(s, d) /\ Typed(d)
  BY <1>1, <1>3, QuietDraws, MakePixmap, GoodMain DEF Draws
<1> HIDE DEF d
<1>5. Draws(d, t)
  BY <1>4, FlagTypes, QuietGood DEF Draws
<1> HIDE DEF t
<1>6. QED
  BY <1>1, <1>3, <1>4, <1>5, DrawsTrans, QuietDo

LEMMA DragReleaseStep ==
    ASSUME IInv, NEW a \in Areas, dragRelease(a)
    PROVE  IInv'
<1> DEFINE s == [s0 EXCEPT !.drag = FALSE]
<1>1. Released(s, a, TRUE) /\ a \in Visible(g)
  BY DEF dragRelease, Magnified, Mouse
<1>2. Quiet(s0, s)
  BY StartGood, FlagTypes
<1> HIDE DEF s
<1>3. QED
  BY <1>1, <1>2, ReleasedStep

LEMMA ScrollStep ==
    ASSUME IInv, NEW a \in Areas, NEW w \in Windows, scrollEvent(a, w)
    PROVE  IInv'
<1> DEFINE c == [s0 EXCEPT !.crashed = TRUE]
           v == IF s0.user = NoWin THEN s0.user ELSE w
           s == [s0 EXCEPT !.user = v]
<1>1. (Do(c) \/ Do(reMag(s, g.page))) /\ g.page \in {"M", "H"}
  BY DEF scrollEvent
<1>2. Quiet(s0, c)
  BY StartGood, FlagTypes
<1>3. v \in Windows \cup {NoWin}
  OBVIOUS
<1> HIDE DEF v
<1>4. Quiet(s0, s)
  BY <1>3, StartGood, UserType
<1> HIDE DEF c, s
<1>5. Draws(s, reMag(s, g.page))
  BY <1>1, <1>4, QuietDraws, ReMag
<1>6. QED
  BY <1>1, <1>2, <1>4, <1>5, QuietDraws, QuietDo

LEMMA SnapStep ==
    ASSUME IInv, NEW w \in Windows, snapMag(w)
    PROVE  IInv'
<1> DEFINE c == [s0 EXCEPT !.crashed = TRUE]
<1>1. Do(c) \/ DoThen(s0, "snap", w)
  BY DEF snapMag
<1>2. Quiet(s0, c)
  BY StartGood, FlagTypes
<1>3. <<"snap", w>> \in Waiting
  BY DEF Waiting
<1> HIDE DEF c
<1>4. QED
  BY <1>1, <1>2, <1>3, StartGood, QuietDraws, QuietDo, DoThenStep


LEMMA ViewType ==
    ASSUME NEW s, Typed(s), NEW k \in Kinds, NEW v \in Views, NEW S
    PROVE  Quiet(s, Age([s EXCEPT !.view[k] = v], S))
<1> DEFINE u == [s EXCEPT !.view[k] = v]
<1>1. Only(s, u, {"view"}) /\ u.view = [s.view EXCEPT ![k] = v]
  BY FieldNames DEF Only, Typed
<1> HIDE DEF u
<1>2. \A x \in {"view"} : u[x] \in Types[x]
  BY <1>1, FieldTypes DEF Types
<1>3. Quiet(s, u) /\ Typed(u)
  BY <1>1, <1>2, QuietStep DEF SceneFields, Quiet
<1>4. Quiet(u, Age(u, S))
  BY <1>3, AgeType
<1>5. QED
  BY <1>3, <1>4, QuietTrans DEF u

LEMMA FlipType ==
    ASSUME NEW s, Typed(s), NEW k \in Kinds
    PROVE  Flip(s.view[k]) \in Views
BY DEF Flip, Views

LEMMA DisplayStep ==
    ASSUME IInv, displayType
    PROVE  IInv'
<1> DEFINE d(k) == Age([s0 EXCEPT !.view[k] = Flip(s0.view[k])], TwoPanes({k}))
           m == [s0 EXCEPT !.view["MAG"] = Flip(@), !.view["SPEC"] = Flip(g.view["MAG"])]
           h == Age(m, TwoPanes({"MAG", "SPEC"}))
<1>1. \/ Do(tracePixmap(d("TRACE"))) \/ Do(magPixmap(d("MAG"))) \/ Do(specPixmap(d("SPEC")))
      \/ Do(reMag(h, "H"))
  BY DEF displayType
<1>2. \A k \in Kinds : Quiet(s0, d(k))
  BY StartGood, FlipType, ViewType
<1>3. Quiet(s0, h)
  <2> DEFINE f == Flip(s0.view["MAG"])
             e == Flip(g.view["MAG"])
  <2>1. Only(s0, m, {"view"}) /\ m.view = [s0.view EXCEPT !["MAG"] = f, !["SPEC"] = e]
    BY StartGood, FieldNames DEF Only, Typed
  <2>2. f \in Views /\ e \in Views
    BY DEF Flip, Views
  <2> HIDE DEF m, f, e
  <2>3. \A x \in {"view"} : m[x] \in Types[x]
    <3>1. s0.view \in [Kinds -> Views]
      BY StartGood, FieldTypes
    <3>2. [s0.view EXCEPT !["MAG"] = f, !["SPEC"] = e] \in [Kinds -> Views]
      BY <2>2, <3>1
    <3>3. QED
      BY <2>1, <3>2 DEF Types
  <2>4. Quiet(s0, m) /\ Typed(m)
    BY <2>1, <2>3, StartGood, QuietStep DEF SceneFields, Quiet
  <2>5. QED
    BY <2>4, AgeType, QuietTrans
<1>4. Quiet(s0, d("TRACE")) /\ Quiet(s0, d("MAG")) /\ Quiet(s0, d("SPEC"))
  BY <1>2 DEF Kinds
<1> HIDE DEF d, h
<1>5. Draws(h, reMag(h, "H"))
  BY <1>3, QuietDraws, ReMag
<1>6. CASE Do(tracePixmap(d("TRACE")))
  BY <1>4, <1>6, QuietDraws, QuietDo
<1>7. CASE Do(magPixmap(d("MAG")))
  BY <1>4, <1>7, QuietDraws, QuietDo
<1>8. CASE Do(specPixmap(d("SPEC")))
  BY <1>4, <1>8, QuietDraws, QuietDo
<1>9. CASE Do(reMag(h, "H"))
  BY <1>3, <1>5, <1>9, QuietDo
<1>10. QED
  BY <1>1, <1>6, <1>7, <1>8, <1>9

LEMMA TimeAxisStep ==
    ASSUME IInv, timeAxis
    PROVE  IInv'
<1> DEFINE s == [s0 EXCEPT !.reset = @ \cup {"TRACE"}]
<1>1. Do(tracePixmap(s))
  BY DEF timeAxis
<1>2. Quiet(s0, s)
  BY StartGood, TraceFlags
<1> HIDE DEF s
<1>3. QED
  BY <1>1, <1>2, QuietDraws, QuietDo

\* One place of a layout takes another kind.
LEMMA LaidOut ==
    ASSUME NEW s, Typed(s), NEW p \in Panes, NEW q \in Places(p), NEW k \in Kinds
    PROVE  [s.lay EXCEPT ![p] = [s.lay[p] EXCEPT ![q] = k]] \in Types.lay
<1>1. s.lay \in [SPLIT2 : [TOP : Kinds, MID : {"TRACE", "NONE"}, BOT : Kinds],
                 SPLIT3 : [TOP : Kinds, MID : Kinds, BOT : Kinds]]
  BY FieldTypes
<1> DEFINE l == [s.lay[p] EXCEPT ![q] = k]
<1>2. CASE p = "SPLIT2"
  <2>1. l \in [TOP : Kinds, MID : {"TRACE", "NONE"}, BOT : Kinds]
    BY <1>1, <1>2 DEF Places
  <2> HIDE DEF l
  <2>2. [s.lay EXCEPT !["SPLIT2"] = l] \in Types.lay
    BY <1>1, <2>1 DEF Types
  <2>3. QED
    BY <1>2, <2>2 DEF l
<1>3. CASE p = "SPLIT3"
  <2>1. l \in [TOP : Kinds, MID : Kinds, BOT : Kinds]
    BY <1>1, <1>3 DEF Places
  <2> HIDE DEF l
  <2>2. [s.lay EXCEPT !["SPLIT3"] = l] \in Types.lay
    BY <1>1, <2>1 DEF Types
  <2>3. QED
    BY <1>3, <2>2 DEF l
<1>4. QED
  BY <1>2, <1>3 DEF Panes

\* What a pane shows: every pane is drawn by the layout that now holds.
LEMMA PaneKindStep ==
    ASSUME IInv, NEW c \in Combos, paneKind(c[1], c[2], c[3])
    PROVE  IInv'
<1> DEFINE p == c[1]
           s == [s0 EXCEPT !.lay[p][c[2]] = c[3]]
<1>1. Do(comboChanged(s))
  BY DEF paneKind
<1>2. p \in Panes /\ c[2] \in Places(p) /\ c[3] \in Kinds
  BY ScreensAssumption
<1>3. Only(s0, s, {"lay"}) /\ s.lay = [s0.lay EXCEPT ![p] = [s0.lay[p] EXCEPT ![c[2]] = c[3]]]
  BY StartGood, FieldNames DEF Only, Typed
<1> HIDE DEF s
<1>4. s.lay \in Types.lay
  BY <1>2, <1>3, LaidOut, StartGood
<1>5. Typed(s)
  <2>1. \A x \in {"lay"} : s[x] \in Types[x]
    BY <1>4
  <2>2. QED
    BY <1>3, <2>1, StartGood, Retyped
<1>6. Part(s, MainAreas)
  <2>1. Only(s0, s, {"panes", "lay", "lost", "refreshH", "screen"})
    BY <1>3 DEF Only
  <2>2. QED
    BY <1>5, <2>1, StartGood, Relaid
<1>7. Good(comboChanged(s))
  BY <1>6, ComboChanged DEF Draws
<1>8. QED
  BY <1>1, <1>7, DoStep

LEMMA NewSplitStep ==
    ASSUME IInv, NEW p \in Panes, newSplit(p)
    PROVE  IInv'
<1>1. DoThen(s0, "split", p) /\ <<"split", p>> \in Waiting
  BY DEF newSplit, Waiting
<1>2. QED
  BY <1>1, StartGood, DoThenStep

\* Settings of kind k, or the range of the spectra, by the control panel.
LEMMA Settings ==
    ASSUME NEW s, Typed(s)
    PROVE  /\ \A k \in Kinds :
                Quiet(s, [Age(s, MainSlots(k) \cup TwoPanes({k})) EXCEPT
                            !.refresh = @ \cup {k}, !.refreshH = @ \cup TwoPanes({k})])
           /\ Quiet(s, [AgeFFT(Age(s, MainSlots("SPEC") \cup TwoPanes({"SPEC"}))) EXCEPT
                            !.reset = @ \cup {"SPEC"}, !.lost = @ \cup {"range"}])
<1>1. ASSUME NEW k \in Kinds
      PROVE  Quiet(s, [Age(s, MainSlots(k) \cup TwoPanes({k})) EXCEPT
                            !.refresh = @ \cup {k}, !.refreshH = @ \cup TwoPanes({k})])
  <2> DEFINE u == Age(s, MainSlots(k) \cup TwoPanes({k}))
             t == [u EXCEPT !.refresh = @ \cup {k}, !.refreshH = @ \cup TwoPanes({k})]
  <2>1. Quiet(s, u) /\ Typed(u)
    BY AgeType DEF Quiet
  <2> HIDE DEF u
  <2>2. Only(u, t, {"refresh", "refreshH"}) /\ t.refresh = u.refresh \cup {k} /\ t.refreshH = u.refreshH \cup TwoPanes({k})
    BY <2>1, FieldNames DEF Only, Typed
  <2>3. u.refresh \cup {k} \in Types.refresh /\ u.refreshH \cup TwoPanes({k}) \in Types.refreshH
    BY <2>1, FieldTypes DEF Types, TwoPanes
  <2> HIDE DEF t
  <2>4. \A x \in {"refresh", "refreshH"} : t[x] \in Types[x]
    BY <2>2, <2>3
  <2>5. Quiet(u, t)
    BY <2>1, <2>2, <2>4, QuietStep DEF SceneFields
  <2>6. Quiet(s, t)
    BY <2>1, <2>5, QuietTrans
  <2>7. QED
    BY <2>6 DEF t, u
<1>2. Quiet(s, [AgeFFT(Age(s, MainSlots("SPEC") \cup TwoPanes({"SPEC"}))) EXCEPT
                            !.reset = @ \cup {"SPEC"}, !.lost = @ \cup {"range"}])
  <2> DEFINE u == Age(s, MainSlots("SPEC") \cup TwoPanes({"SPEC"}))
             v == AgeFFT(u)
             t == [v EXCEPT !.reset = @ \cup {"SPEC"}, !.lost = @ \cup {"range"}]
  <2>1. Quiet(s, u) /\ Typed(u)
    BY AgeType DEF Quiet
  <2> HIDE DEF u
  <2>2. Quiet(s, v) /\ Typed(v)
    BY <2>1, AgeFFTType, QuietTrans DEF Quiet
  <2> HIDE DEF v
  <2>3. Only(v, t, {"reset", "lost"}) /\ t.reset = v.reset \cup {"SPEC"} /\ t.lost = v.lost \cup {"range"}
    BY <2>2, FieldNames DEF Only, Typed
  <2>4. v.reset \cup {"SPEC"} \in Types.reset /\ v.lost \cup {"range"} \in Types.lost
    BY <2>2, FieldTypes DEF Types, Kinds, Exempt
  <2> HIDE DEF t
  <2>5. \A x \in {"reset", "lost"} : t[x] \in Types[x]
    BY <2>3, <2>4
  <2>6. Quiet(v, t)
    BY <2>2, <2>3, <2>5, QuietStep DEF SceneFields
  <2>7. Quiet(s, t)
    BY <2>2, <2>6, QuietTrans
  <2>8. QED
    BY <2>7 DEF t, v, u
<1>3. QED
  BY <1>1, <1>2

LEMMA OffPage ==
    ASSUME NEW s, Part(s, MainAreas), s.page # "H"
    PROVE  Good(s)
<1>1. Visible(s) \subseteq MainAreas
  BY LayFacts, VisibleFacts DEF Part
<1>2. QED
  BY <1>1 DEF Good, Part, Ok

LEMMA ContinueStep ==
    ASSUME IInv, NEW k \in Kinds \cup {"range", "none"}, Continue(k)
    PROVE  IInv'
<1> DEFINE mid == IF "TRACE" \in {g.lay["SPLIT2"][p] : p \in {"TOP", "BOT"}} THEN "NONE" ELSE "TRACE"
           s1 == [s0 EXCEPT !.lay["SPLIT2"]["MID"] = mid,
                         !.refreshH = IF mid = g.lay["SPLIT2"]["MID"] THEN @ ELSE @ \cup {<<"SPLIT2", "MAG">>},
                         !.screen = IF g.page = "H" THEN g.panes ELSE "MAIN"]
           a == [Age(s1, MainSlots(k) \cup TwoPanes({k})) EXCEPT
                    !.refresh = @ \cup {k}, !.refreshH = @ \cup TwoPanes({k})]
           b == [AgeFFT(Age(s1, MainSlots("SPEC") \cup TwoPanes({"SPEC"}))) EXCEPT
                    !.reset = @ \cup {"SPEC"}, !.lost = @ \cup {"range"}]
           s2 == CASE k \in Kinds -> a [] k = "range" -> b [] OTHER -> s1
<1>1. Do(CASE g.page = "T" -> tracePixmap(s2)
           [] g.page = "M" -> magPixmap(s2)
           [] g.page = "S" -> specPixmap(s2)
           [] g.page = "H" -> drawPanes(s2)
           [] OTHER -> s2)
  BY DEF Continue
<1>2. Good(s0) /\ Typed(s0) /\ Typed(g) /\ s0.page = g.page
  BY StartGood DEF Same
<1>3. mid \in {"TRACE", "NONE"}
  OBVIOUS
<1> HIDE DEF mid
<1>4. /\ Only(s0, s1, {"lay", "refreshH", "screen"})
      /\ s1.lay = [s0.lay EXCEPT !["SPLIT2"] = [s0.lay["SPLIT2"] EXCEPT !["MID"] = mid]]
      /\ s1.refreshH \in {s0.refreshH, s0.refreshH \cup {<<"SPLIT2", "MAG">>}}
      /\ s1.screen \in {g.panes, "MAIN"}
  BY <1>2, FieldNames DEF Only, Typed
<1> HIDE DEF s1
<1>5. Typed(s1)
  <2> DEFINE l == [s0.lay["SPLIT2"] EXCEPT !["MID"] = mid]
  <2>1. s0.lay \in [SPLIT2 : [TOP : Kinds, MID : {"TRACE", "NONE"}, BOT : Kinds],
                    SPLIT3 : [TOP : Kinds, MID : Kinds, BOT : Kinds]]
    BY <1>2, FieldTypes
  <2>2. l \in [TOP : Kinds, MID : {"TRACE", "NONE"}, BOT : Kinds]
    BY <1>3, <2>1
  <2> HIDE DEF l
  <2>3. [s0.lay EXCEPT !["SPLIT2"] = l] \in Types.lay
    BY <2>1, <2>2 DEF Types
  <2>4. s1.lay \in Types.lay
    BY <1>4, <2>3 DEF l
  <2>5. s1.refreshH \in Types.refreshH /\ s1.screen \in Types.screen
    BY <1>2, <1>4, FieldTypes DEF Types, TwoPanes, Panes, Kinds, Screens
  <2>6. \A x \in {"lay", "refreshH", "screen"} : s1[x] \in Types[x]
    BY <2>4, <2>5
  <2>7. QED
    BY <1>2, <1>4, <2>6, Retyped
<1>6. Part(s1, MainAreas) /\ s1.page = g.page
  <2>1. Only(s0, s1, {"panes", "lay", "lost", "refreshH", "screen"})
    BY <1>4 DEF Only
  <2>2. QED
    BY <1>2, <1>5, <2>1, Relaid
<1>7. (k \in Kinds => Quiet(s1, a)) /\ Quiet(s1, b)
  BY <1>5, Settings
<1> HIDE DEF a, b
<1>8. Part(s2, MainAreas) /\ s2.page = g.page
  <2>1. (k \in Kinds => Part(a, MainAreas) /\ a.page = g.page) /\ Part(b, MainAreas) /\ b.page = g.page
    BY <1>5, <1>6, <1>7, QuietPart DEF Same
  <2>2. QED
    BY <1>6, <2>1 DEF Kinds
<1> HIDE DEF s2
<1>9. CASE g.page = "H"
  BY <1>1, <1>8, <1>9, DrawPanes, DoStep
<1>10. CASE g.page # "H"
  <2>1. Good(s2)
    BY <1>8, <1>10, OffPage
  <2>2. Good(s2) /\ Good(tracePixmap(s2)) /\ Good(magPixmap(s2)) /\ Good(specPixmap(s2))
    BY <2>1, MainDraws DEF Draws
  <2>3. Do(tracePixmap(s2)) \/ Do(magPixmap(s2)) \/ Do(specPixmap(s2)) \/ Do(s2)
    BY <1>1, <1>10
  <2>4. QED
    BY <2>2, <2>3, DoStep
<1>11. QED
  BY <1>9, <1>10

LEMMA ReDrawStep ==
    ASSUME IInv, reDraw
    PROVE  IInv'
<1> DEFINE S == MainSlots("TRACE") \cup MainSlots("MAG") \cup TwoPanes({"TRACE", "MAG"})
           q == [s0 EXCEPT !.reset = @ \cup {"TRACE", "MAG"}]
           s == Age(q, S)
           u == magPixmap(s)
           t == [u EXCEPT !.lost = @ \cup {"gain"}]
<1>1. Do(tracePixmap(s)) \/ Do(t)
  BY DEF reDraw
<1> HIDE DEF S
<1>2. s0.reset \cup {"TRACE", "MAG"} \in SUBSET Kinds
  BY StartGood, FieldTypes DEF Kinds
<1>3. Quiet(s0, q)
  BY <1>2, StartGood, FlagTypes
<1> HIDE DEF q
<1>4. Quiet(s0, s)
  BY <1>3, QuietDraws, AgeType, QuietTrans
<1> HIDE DEF s
<1>5. Draws(s, u) /\ Typed(u)
  BY <1>4, QuietDraws, GoodMain DEF Draws
<1> HIDE DEF u
<1>6. u.lost \cup {"gain"} \in SUBSET Exempt
  BY <1>5, FieldTypes DEF Exempt
<1>7. Draws(s, t)
  <2>1. Quiet(u, t)
    BY <1>5, <1>6, FlagTypes
  <2>2. Draws(u, t)
    BY <1>5, <2>1, QuietGood DEF Draws
  <2>3. QED
    BY <1>5, <2>2, DrawsTrans
<1> HIDE DEF t
<1>8. QED
  BY <1>1, <1>4, <1>7, QuietDraws, QuietDo

\* A handler whose settings leave the scene alone, and that redraws the page.
LEMMA RedrawStep ==
    ASSUME IInv, NEW s, Quiet(s0, s), NEW a \in Areas, Do(redrawPage(s, g.page, a))
    PROVE  IInv'
<1>1. Good(s) /\ s.page = g.page
  BY QuietDraws DEF Same
<1>2. Draws(s, redrawPage(s, g.page, a))
  BY <1>1, RedrawPage
<1>3. QED
  BY <1>2, QuietDo

LEMMA TFormDispStep ==
    ASSUME IInv, tFormDisp
    PROVE  IInv'
<1> DEFINE t == IF g.tf = "on" THEN "off" ELSE "on"
           q == AgeFFT(Age([s0 EXCEPT !.tf = t], TwoPanes({"MAG", "SPEC"})))
           s == AllReset(q)
<1>1. Do(redrawPage(s, g.page, MainArea(g.page)))
  BY DEF tFormDisp
<1>2. t \in OnOff
  BY DEF OnOff
<1> HIDE DEF t
<1>3. Quiet(s0, q)
  BY <1>2, StartGood, TfAged
<1> HIDE DEF q
<1>4. Quiet(s0, s)
  BY <1>3, QuietDraws, AllResetType, QuietTrans
<1> HIDE DEF s
<1>5. QED
  BY <1>1, <1>4, RedrawStep, MainAreaFacts

LEMMA FltrSelectStep ==
    ASSUME IInv, NEW b \in BOOLEAN, fltrSelect(b)
    PROVE  IInv'
<1> DEFINE off == AgeFFT(Age([s0 EXCEPT !.tf = "off"], TwoPanes({"MAG", "SPEC"})))
           u == magPixmap(off)
           l == u.lost \cup {"edit"} \cup IF g.old["MAG"] = u.old["MAG"] THEN {"same"} ELSE {}
           t == [u EXCEPT !.lost = l]
           f == [s0 EXCEPT !.tf = "on", !.filter = TRUE]
<1>1. Do(magPixmap(s0)) \/ Do(t) \/ Do(f)
  <2>1. Do(IF g.tf = "off" THEN magPixmap(s0) ELSE t) \/ Do(f)
    BY DEF fltrSelect
  <2>2. QED
    BY <2>1
<1>2. "off" \in OnOff /\ "on" \in OnOff
  BY DEF OnOff
<1>3. Quiet(s0, off)
  BY <1>2, StartGood, TfAged
<1>4. Quiet(s0, s0)
  BY StartGood DEF Quiet, Typed
<1> HIDE DEF off
<1>5. Draws(off, u) /\ Typed(u)
  BY <1>3, QuietDraws, GoodMain DEF Draws
<1> HIDE DEF u
<1>6. l \in SUBSET Exempt
  BY <1>5, FieldTypes DEF Exempt
<1> HIDE DEF l
<1>7. Draws(off, t)
  <2>1. Quiet(u, t)
    BY <1>5, <1>6, FlagTypes
  <2>2. Draws(u, t)
    BY <1>5, <2>1, QuietGood DEF Draws
  <2>3. QED
    BY <1>5, <2>2, DrawsTrans
<1> HIDE DEF t
<1>8. Quiet(s0, f)
  <2>1. Only(s0, f, {"tf", "filter"}) /\ f.tf = "on" /\ f.filter = TRUE
    BY StartGood, FieldNames DEF Only, Typed
  <2> HIDE DEF f
  <2>2. \A x \in {"tf", "filter"} : f[x] \in Types[x]
    <3>1. "on" \in Types.tf /\ TRUE \in Types.filter
      BY <1>2 DEF Types
    <3>2. QED
      BY <2>1, <3>1
  <2>3. QED
    BY <2>1, <2>2, StartGood, QuietStep DEF SceneFields
<1> HIDE DEF f
<1>9. CASE Do(magPixmap(s0))
  BY <1>4, <1>9, QuietDraws, QuietDo
<1>10. CASE Do(t)
  BY <1>3, <1>7, <1>10, QuietDo
<1>11. CASE Do(f)
  BY <1>8, <1>11, QuietDraws, QuietDo
<1>12. QED
  BY <1>1, <1>9, <1>10, <1>11

LEMMA IdleFilterStep ==
    ASSUME IInv, idleFilter
    PROVE  IInv'
<1> DEFINE s == [s0 EXCEPT !.filter = FALSE]
<1>1. DoThen(s, "filter", <<>>) /\ <<"filter", <<>>>> \in Waiting
  BY DEF idleFilter, Waiting
<1>2. Quiet(s0, s)
  BY StartGood, FlagTypes
<1> HIDE DEF s
<1>3. QED
  BY <1>1, <1>2, QuietDraws, DoThenStep

LEMMA TFormSelStep ==
    ASSUME IInv, NEW t \in OnOff, pqlTFormSel(t)
    PROVE  IInv'
<1> DEFINE q == Transformed(s0, t)
           d == [q EXCEPT !.dirty = TRUE]
           s == makeMAGSelectionList(d)
<1>1. Do(redrawPage(s, g.page, g.curScr))
  BY DEF pqlTFormSel
<1>2. Quiet(s0, q) /\ Typed(q)
  BY StartGood, TransformedType DEF Quiet
<1> HIDE DEF q
<1>3. Only(q, d, {"dirty"}) /\ d.dirty \in Types.dirty
  BY <1>2, FieldNames DEF Only, Typed, Types
<1> HIDE DEF d
<1>4. Quiet(q, d)
  BY <1>2, <1>3, QuietStep DEF SceneFields
<1>5. Quiet(s0, d) /\ Typed(d)
  BY <1>2, <1>4, QuietTrans DEF Quiet
<1>6. Quiet(s0, s)
  BY <1>5, MagSelectionType, QuietTrans
<1> HIDE DEF s
<1>7. g.curScr \in Areas
  BY StartGood, FieldTypes
<1>8. QED
  BY <1>1, <1>6, <1>7, RedrawStep

\* What a handler still has to do when the main loop has run.
LEMMA RestGood ==
    ASSUME NEW s, Good(s), NEW t \in Waiting
    PROVE  Good(Rest(s, t))
<1>1. CASE t[1] = "area"
  <2>1. t[2] \in MainAreas /\ t[2] \in Areas
    BY <1>1, AreaFacts DEF Waiting, MainAreas
  <2>2. Drew(s, makePixmap(s, t[2]), Areas, t[2])
    <3>1. t[2] = Area("TRACE") \/ t[2] = Area("MAG") \/ t[2] = Area("SPEC")
      BY <2>1 DEF MainAreas, Kinds
    <3>2. Area("TRACE") # Area("MAG") /\ Area("TRACE") # Area("SPEC") /\ Area("MAG") # Area("SPEC")
      BY DEF Area
    <3>3. /\ makePixmap(s, Area("TRACE")) = tracePixmap(s)
          /\ makePixmap(s, Area("MAG")) = magPixmap(s)
          /\ makePixmap(s, Area("SPEC")) = specPixmap(s)
      BY <3>2 DEF makePixmap
    <3>4. Areas \in SUBSET Areas /\ Part(s, Areas)
      BY DEF Good
    <3>5. QED
      BY <3>1, <3>3, <3>4, TracePixmap, MagPixmap, SpecPixmap
  <2>3. QED
    BY <1>1, <2>1, <2>2, DrewGood DEF Rest
<1>2. CASE t[1] = "panes"
  <2>1. Rest(s, t) = drawPanes(s)
    BY <1>2 DEF Rest
  <2>2. QED
    BY <2>1, PanesDraw DEF Draws
<1>3. CASE t[1] = "snap"
  <2> DEFINE u == [s EXCEPT !.user = t[2], !.vline = 0]
             p == IF s.screen = "MAIN" THEN "M" ELSE "H"
  <2>1. Rest(s, t) = reMag(u, p)
    BY <1>3 DEF Rest
  <2>2. t[2] \in Windows
    BY <1>3 DEF Waiting
  <2>3. Quiet(s, u)
    BY <2>2, UserType, GoodMain
  <2> HIDE DEF u
  <2>4. Good(u)
    BY <2>3, QuietGood DEF Draws
  <2>5. QED
    BY <2>1, <2>4, ReMag DEF Draws
<1>4. CASE t[1] = "split"
  <2>1. Rest(s, t) = setPanes(s, t[2]) /\ t[2] \in Panes
    BY <1>4 DEF Rest, Waiting
  <2>2. QED
    BY <2>1, SetPanes
<1>5. CASE t[1] = "filter"
  <2>1. Rest(s, t) = applyFilter(s)
    BY <1>5 DEF Rest
  <2>2. QED
    BY <2>1, ApplyFilter DEF Draws
<1>6. QED
  BY <1>1, <1>2, <1>3, <1>4, <1>5 DEF Waiting

LEMMA ResumeStep ==
    ASSUME IInv, Resume
    PROVE  IInv'
<1> DEFINE t == tails[Len(tails)]
           W == Waiting
<1>1. tails # <<>> /\ g' = Rest(s0, t) /\ tails' = SubSeq(tails, 1, Len(tails) - 1) /\ ops' = ops
  BY DEF Resume
<1>2. tails \in Seq(W) /\ Len(tails) <= MaxNest
  BY DEF IInv
<1> HIDE DEF W
<1>3. t \in W /\ tails' \in Seq(W) /\ Len(tails') <= MaxNest
  <2>1. Len(tails) \in Nat /\ Len(tails) > 0
    BY <1>1, <1>2
  <2>2. t \in W
    BY <1>2, <2>1
  <2>3. tails' \in Seq(W) /\ Len(tails') = Len(tails) - 1
    <3> DEFINE n == Len(tails) - 1
    <3>1. n \in Int /\ 1 \in Int /\ n >= 0 /\ \A i \in 1..n : tails[i] \in W
      BY <1>2, <2>1
    <3>2. tails' = SubSeq(tails, 1, n)
      BY <1>1
    <3> HIDE DEF n
    <3>3. SubSeq(tails, 1, n) \in Seq(W) /\ Len(SubSeq(tails, 1, n)) = IF 1 <= n THEN n - 1 + 1 ELSE 0
      BY <3>1, SubSeqProperties
    <3>4. Len(SubSeq(tails, 1, n)) = n
      BY <3>1, <3>3
    <3>5. QED
      BY <3>2, <3>3, <3>4 DEF n
  <2>4. QED
    BY <1>2, <2>1, <2>2, <2>3, ScreensAssumption
<1> HIDE DEF t
<1>4. Good(Rest(s0, t))
  BY <1>3, StartGood, RestGood DEF W
<1>5. QED
  BY <1>1, <1>3, <1>4 DEF IInv, W

LEMMA InitInv ==
    ASSUME Init
    PROVE  IInv
<1>1. PICK win \in Windows :
    /\ g = [page |-> "T", screen |-> "MAIN", panes |-> "SPLIT2", lay |-> defaults,
            busy |-> FALSE, sel |-> TRUE, tf |-> "off",
            view |-> [k \in Kinds |-> "A"], old |-> [k \in Kinds |-> Key(k, "A", "off")],
            pix |-> [s \in Screens |-> IF s = "MAIN" THEN win ELSE NoWin], half |-> {}, user |-> NoWin, vline |-> 0,
            gr |-> {"MAIN"}, curScr |-> Area("TRACE"),
            reset |-> {"MAG", "SPEC"}, refresh |-> {}, resetAll |-> TRUE,
            refreshH |-> TwoPanes(Kinds), resetH |-> {}, dirty |-> FALSE, selChanged |-> TRUE,
            pm |-> [s \in Slots |-> IF s = Key("TRACE", "A", "off") THEN "ok" ELSE "none"],
            fft |-> "none", shown |-> [a \in Areas |-> IF a = Area("TRACE") THEN Key("TRACE", "A", "off") ELSE <<>>],
            resize |-> {}, drag |-> FALSE, filter |-> FALSE, crashed |-> FALSE,
            dead |-> {}, drawn |-> {}, lost |-> {}, left |-> {}]
    /\ tails = <<>> /\ ops = 0
  BY DEF Init
<1>2. \A k \in Kinds : Key(k, "A", "off") \in Slots
  BY SlotFacts DEF Views, OnOff
<1>3. Area("TRACE") \in Areas /\ Key("TRACE", "A", "off") \in Slots
  BY <1>2, AreaFacts DEF Kinds
<1>4. DOMAIN g = Fields /\ g.page = "T" /\ g.dead = {} /\ g.panes = "SPLIT2"
  BY <1>1, FieldNames
<1>5. g.shown = [a \in Areas |-> IF a = Area("TRACE") THEN Key("TRACE", "A", "off") ELSE <<>>]
  BY <1>1
<1>6. Typed(g)
  <2>1. /\ g.page \in Types.page /\ g.screen \in Types.screen /\ g.panes \in Types.panes
        /\ g.busy \in Types.busy /\ g.sel \in Types.sel /\ g.tf \in Types.tf
        /\ g.half \in Types.half /\ g.user \in Types.user /\ g.vline \in Types.vline /\ g.gr \in Types.gr
        /\ g.reset \in Types.reset /\ g.refresh \in Types.refresh /\ g.resetAll \in Types.resetAll
        /\ g.refreshH \in Types.refreshH /\ g.resetH \in Types.resetH
        /\ g.dirty \in Types.dirty /\ g.selChanged \in Types.selChanged /\ g.fft \in Types.fft
        /\ g.resize \in Types.resize /\ g.drag \in Types.drag /\ g.filter \in Types.filter
        /\ g.crashed \in Types.crashed /\ g.dead \in Types.dead /\ g.drawn \in Types.drawn
        /\ g.lost \in Types.lost /\ g.left \in Types.left
    BY <1>1 DEF Types, Pages, Screens, Panes, OnOff, Kinds, Contents
  <2>2. g.lay \in Types.lay
    BY <1>1 DEF Types, defaults, Kinds
  <2>3. g.view \in Types.view /\ g.old \in Types.old /\ g.pix \in Types.pix /\ g.curScr \in Types.curScr
    BY <1>1, <1>2, <1>3 DEF Types, Views
  <2>4. g.pm \in Types.pm
    BY <1>1 DEF Types, Contents
  <2>5. g.shown \in Types.shown
    BY <1>3, <1>5 DEF Types
  <2>6. \A x \in Fields : g[x] \in Types[x]
    BY <2>1, <2>2, <2>3, <2>4, <2>5, FieldNames
  <2>7. QED
    BY <1>4, <2>6 DEF Typed
<1>7. Own(g)
  <2>1. \A k \in Kinds : Area(k) \in Areas /\ (Area(k) = Area("TRACE") => k = "TRACE")
    BY AreaFacts DEF Area
  <2>2. Key("TRACE", "A", "off") \in MainSlots("TRACE")
    BY SlotFacts DEF Kinds, Views, OnOff
  <2>3. Area("TRACE")[1] = "MAIN"
    BY DEF Area
  <2>4. QED
    BY <1>5, <2>1, <2>2, <2>3 DEF Own
<1>8. \A a \in Areas : Ok(g, a)
  <2>1. Visible(g) \subseteq {Area("TRACE")}
    BY <1>4, VisibleFacts DEF Panes
  <2>2. QED
    BY <1>4, <2>1 DEF Ok, Area
<1>9. tails \in Seq(Waiting) /\ Len(tails) <= MaxNest /\ ops \in 0..MaxOps
  BY <1>1, ScreensAssumption
<1>10. QED
  BY <1>6, <1>7, <1>8, <1>9 DEF IInv, Good, Part

LEMMA NextInv ==
    ASSUME IInv, [Next]_vars
    PROVE  IInv'
<1>1. CASE \E a \in Areas : pixmap_cfg(a)
  BY <1>1, ResizeStep
<1>2. CASE \E p \in Pages : change_menu(p)
  BY <1>2, PageStep
<1>3. CASE \E b \in BOOLEAN : selectT(b) \/ nextTrace(b) \/ selectTrace(b) \/ fltrSelect(b)
  BY <1>3, SelectStep, NextStep, SelectTraceStep, FltrSelectStep
<1>4. CASE ReadDone
  BY <1>4, ReadDoneStep
<1>5. CASE \E a \in Areas, w \in Windows :
          magBoundary(a, w) \/ xAxis(a, w) \/ xAxisShift(a, w) \/ magDrag(a, w) \/ scrollEvent(a, w)
  BY <1>5, BoundaryStep, XAxisStep, XAxisShiftStep, DragStep, ScrollStep
<1>6. CASE \E a \in Areas : selectMag(a) \/ vLine(a) \/ dragRelease(a)
  BY <1>6, SelectMagStep, VLineStep, DragReleaseStep
<1>7. CASE \E w \in Windows : snapMag(w)
  BY <1>7, SnapStep
<1>8. CASE displayType \/ timeAxis \/ reDraw \/ tFormDisp \/ idleFilter
  BY <1>8, DisplayStep, TimeAxisStep, ReDrawStep, TFormDispStep, IdleFilterStep
<1>9. CASE \E c \in Combos : paneKind(c[1], c[2], c[3])
  BY <1>9, PaneKindStep
<1>10. CASE \E p \in Panes : newSplit(p)
  BY <1>10, NewSplitStep
<1>11. CASE \E t \in OnOff : pqlTFormSel(t)
  BY <1>11, TFormSelStep
<1>12. CASE \E k \in Kinds \cup {"range", "none"} : Continue(k)
  BY <1>12, ContinueStep
<1>13. CASE Resume
  BY <1>13, ResumeStep
<1>14. CASE UNCHANGED vars
  BY <1>14 DEF vars, IInv
<1>15. QED
  BY <1>1, <1>2, <1>3, <1>4, <1>5, <1>6, <1>7, <1>8, <1>9, <1>10, <1>11, <1>12, <1>13, <1>14 DEF Next

-----------------------------------------------------------------------------
(* What the trace areas show, and what leaves it alone.                    *)

\* The slots an area that shows the traces may show.
TraceSlots == MainSlots("TRACE") \cup TwoPanes({"TRACE"})

\* What TraceFresh does not speak of, and what an area shows, of any state.
Spared(s) == s.lost \cap {"atEnd", "gain"} # {}
Due(s, a) ==
    IF a = Area("TRACE") THEN IF s.busy THEN "msg" ELSE "ok" ELSE IF s.sel THEN "ok" ELSE "msg"

\* What the last handler drew is as it should be.
Seen(s) ==
    \A a \in (s.drawn \ s.dead) \cap Visible(s) :
        KindOf(s, a) = "TRACE" => s.shown[a] \in TraceSlots /\ (Spared(s) \/ s.pm[s.shown[a]] = Due(s, a))

\* The cached plots of the trace page are good or will be given back before one
\* is shown, and the display type they were last asked for is the one set.
PageCache(s) ==
    /\ \A v \in Views : \/ s.pm[<<"TRACE", v>>] \in {"none", "ok"}
                        \/ "TRACE" \in s.reset \cup s.refresh \/ "atEnd" \in s.lost
    /\ s.old["TRACE"] = <<"TRACE", s.view["TRACE"]>> \/ "TRACE" \in s.reset

\* So are those of the trace panes.
PaneCache(s) ==
    \A p \in Panes :
        \/ s.pm[<<p, "TRACE">>] \in {"none", IF s.sel THEN "ok" ELSE "msg"}
        \/ <<p, "TRACE">> \in s.refreshH \/ s.resetAll \/ "gain" \in s.lost

TraceOk(s) == PageCache(s) /\ PaneCache(s) /\ Seen(s)

\* From s to t what the trace areas show and their flags are left alone, but for
\* pixmaps given back.
Keeps(s, t) ==
    /\ \A x \in {"page", "panes", "lay", "busy", "sel", "drawn", "shown"} : t[x] = s[x]
    /\ t.view["TRACE"] = s.view["TRACE"] /\ t.old["TRACE"] = s.old["TRACE"]
    /\ s.dead \subseteq t.dead
    /\ "TRACE" \in s.reset => "TRACE" \in t.reset
    /\ "TRACE" \in s.refresh => "TRACE" \in t.refresh
    /\ s.lost \cap {"atEnd", "gain"} \subseteq t.lost
    /\ s.resetAll => t.resetAll
    /\ s.refreshH \cap TwoPanes({"TRACE"}) \subseteq t.refreshH
    /\ \A i \in TraceSlots : t.pm[i] # s.pm[i] =>
            /\ t.pm[i] = "none"
            /\ \A a \in Areas : s.shown[a] = i => a \in t.dead

LEMMA TraceSlotFacts ==
    /\ TraceSlots \subseteq Slots
    /\ \A v \in Views, t \in OnOff : <<"TRACE", v>> \in TraceSlots /\ Key("TRACE", v, t) = <<"TRACE", v>>
    /\ \A p \in Panes : <<p, "TRACE">> \in TraceSlots /\ <<p, "TRACE">> \in TwoPanes({"TRACE"})
    /\ \A k \in {"MAG", "SPEC"} : MainSlots(k) \cap TraceSlots = {} /\ TwoPanes({k}) \cap TraceSlots = {}
    /\ TwoPanes({"MAG", "SPEC"}) \cap TraceSlots = {}
    /\ \A p \in Panes : \A k \in {"MAG", "SPEC"} : <<p, k>> \notin TraceSlots
    /\ \A i \in MainSlots("TRACE") : i \notin TwoPanes(Kinds)
<1>1. "TRACE" \in Kinds /\ "MAG" \in Kinds /\ "SPEC" \in Kinds
  BY DEF Kinds
<1>2. TwoPanes({"TRACE"}) \subseteq Slots /\ TraceSlots \subseteq Slots
  BY <1>1, SlotFacts DEF TraceSlots
<1>3. \A v \in Views, t \in OnOff : <<"TRACE", v>> \in TraceSlots /\ Key("TRACE", v, t) = <<"TRACE", v>>
  <2>1. \A v \in Views, t \in OnOff : Key("TRACE", v, t) = <<"TRACE", v>>
    BY DEF Key
  <2>2. "on" \in OnOff
    BY DEF OnOff
  <2>3. QED
    BY <1>1, <2>1, <2>2, SlotFacts DEF TraceSlots
<1>4. \A p \in Panes : <<p, "TRACE">> \in TraceSlots /\ <<p, "TRACE">> \in TwoPanes({"TRACE"})
  BY DEF TraceSlots, TwoPanes
<1>5. \A k \in Kinds : TwoPanes({k}) \subseteq SplitSlots /\ TwoPanes({k}) = Panes \X {k}
  BY DEF TwoPanes, SplitSlots
<1>6. TwoPanes({"MAG", "SPEC"}) = TwoPanes({"MAG"}) \cup TwoPanes({"SPEC"}) /\ TwoPanes(Kinds) = SplitSlots
  BY DEF TwoPanes, SplitSlots
<1>7. \A k \in {"MAG", "SPEC"} : MainSlots(k) \cap TraceSlots = {} /\ TwoPanes({k}) \cap TraceSlots = {}
  <2>1. SUFFICES ASSUME NEW k \in {"MAG", "SPEC"}
                 PROVE  MainSlots(k) \cap TraceSlots = {} /\ TwoPanes({k}) \cap TraceSlots = {}
    OBVIOUS
  <2>2. k \in Kinds /\ k # "TRACE"
    BY <1>1
  <2>3. TwoPanes({k}) \cap TwoPanes({"TRACE"}) = {}
    BY <2>2, <1>1, <1>5
  <2>4. QED
    BY <1>1, <1>5, <2>2, <2>3, SlotsApart DEF TraceSlots
<1>8. \A p \in Panes : \A k \in {"MAG", "SPEC"} : <<p, k>> \notin TraceSlots
  <2>1. \A p \in Panes : \A k \in {"MAG", "SPEC"} : <<p, k>> \in TwoPanes({k})
    BY DEF TwoPanes
  <2>2. QED
    BY <1>7, <2>1
<1>9. \A i \in MainSlots("TRACE") : i \notin TwoPanes(Kinds)
  BY <1>1, <1>6, SlotsApart
<1>10. QED
  BY <1>2, <1>3, <1>4, <1>6, <1>7, <1>8, <1>9

\* The slots of the trace page are of its kind.
LEMMA MainTraceSlots ==
    \A v \in Views : <<"TRACE", v>> \in MainSlots("TRACE") /\ <<"TRACE", v>> \in TraceSlots
<1>1. "TRACE" \in Kinds /\ "on" \in OnOff
  BY DEF Kinds, OnOff
<1>2. ASSUME NEW v \in Views PROVE <<"TRACE", v>> \in MainSlots("TRACE") /\ <<"TRACE", v>> \in TraceSlots
  <2>1. Key("TRACE", v, "on") = <<"TRACE", v>> /\ <<"TRACE", v>> \in TraceSlots
    BY <1>1, TraceSlotFacts
  <2>2. Key("TRACE", v, "on") \in MainSlots("TRACE")
    BY <1>1, SlotFacts
  <2> QED BY <2>1, <2>2
<1> QED BY <1>2

LEMMA KeepsTrans ==
    ASSUME NEW s, NEW t, NEW u, Keeps(s, t), Keeps(t, u)
    PROVE  Keeps(s, u)
BY DEF Keeps

LEMMA KeepsOk ==
    ASSUME NEW s, TraceOk(s), NEW t, Keeps(s, t)
    PROVE  TraceOk(t)
<1>1. PageCache(t)
  BY TraceSlotFacts DEF Keeps, TraceOk, PageCache, OnOff
<1>2. PaneCache(t)
  BY TraceSlotFacts DEF Keeps, TraceOk, PaneCache
<1>3. Seen(t)
  <2>1. SUFFICES ASSUME NEW a \in (t.drawn \ t.dead) \cap Visible(t), KindOf(t, a) = "TRACE"
                 PROVE  t.shown[a] \in TraceSlots /\ (Spared(t) \/ t.pm[t.shown[a]] = Due(t, a))
    BY DEF Seen
  <2>2. a \in (s.drawn \ s.dead) \cap Visible(s) /\ KindOf(s, a) = "TRACE" /\ a \in Areas
    BY <2>1 DEF Keeps, Visible, KindOf
  <2>3. s.shown[a] \in TraceSlots /\ (Spared(s) \/ s.pm[s.shown[a]] = Due(s, a)) /\ t.shown[a] = s.shown[a]
    BY <2>2 DEF TraceOk, Seen, Keeps
  <2>4. t.pm[s.shown[a]] = s.pm[s.shown[a]]
    BY <2>1, <2>2, <2>3 DEF Keeps
  <2>5. Due(t, a) = Due(s, a) /\ (Spared(s) => Spared(t))
    BY DEF Due, Spared, Keeps
  <2>6. QED
    BY <2>3, <2>4, <2>5
<1>4. QED
  BY <1>1, <1>2, <1>3 DEF TraceOk

\* A step of the fields F keeps them if those of the traces do.
LEMMA KeepsFields ==
    ASSUME NEW s, NEW t, NEW F, Only(s, t, F), {"page", "panes", "lay", "busy", "sel", "drawn", "shown", "dead"} \cap F = {},
           "view" \in F => t.view["TRACE"] = s.view["TRACE"],
           "old" \in F => t.old["TRACE"] = s.old["TRACE"],
           "reset" \in F => ("TRACE" \in s.reset => "TRACE" \in t.reset),
           "refresh" \in F => ("TRACE" \in s.refresh => "TRACE" \in t.refresh),
           "lost" \in F => s.lost \cap {"atEnd", "gain"} \subseteq t.lost,
           "resetAll" \in F => (s.resetAll => t.resetAll),
           "refreshH" \in F => s.refreshH \cap TwoPanes({"TRACE"}) \subseteq t.refreshH,
           "pm" \in F => \A i \in TraceSlots : t.pm[i] = s.pm[i]
    PROVE  Keeps(s, t)
<1>1. \A x \in {"page", "panes", "lay", "busy", "sel", "drawn", "shown", "dead"} : t[x] = s[x]
  BY FieldNames DEF Only
<1>2. /\ t.view["TRACE"] = s.view["TRACE"] /\ t.old["TRACE"] = s.old["TRACE"]
      /\ "TRACE" \in s.reset => "TRACE" \in t.reset
      /\ "TRACE" \in s.refresh => "TRACE" \in t.refresh
  BY FieldNames DEF Only
<1>3. /\ s.lost \cap {"atEnd", "gain"} \subseteq t.lost
      /\ s.resetAll => t.resetAll
      /\ s.refreshH \cap TwoPanes({"TRACE"}) \subseteq t.refreshH
      /\ \A i \in TraceSlots : t.pm[i] = s.pm[i]
  BY FieldNames DEF Only
<1>4. QED
  BY <1>1, <1>2, <1>3 DEF Keeps

LEMMA UnrefKeeps ==
    ASSUME NEW s, Typed(s), NEW S
    PROVE  Keeps(s, Unref(s, S))
<1> DEFINE t == Unref(s, S)
<1>1. /\ Only(s, t, {"pm", "dead"}) /\ \A i \in Slots : i \in S => t.pm[i] = "none"
      /\ \A i \in Slots : i \notin S => t.pm[i] = s.pm[i]
  BY UnrefType
<1>2. t.dead = s.dead \cup {a \in Areas : s.shown[a] \in S /\ s.pm[s.shown[a]] # "none"}
  BY FieldNames DEF Unref, Typed
<1> HIDE DEF t
<1>3. \A x \in Fields \ {"pm", "dead"} : t[x] = s[x]
  BY <1>1 DEF Only
<1>4. ASSUME NEW i \in TraceSlots, t.pm[i] # s.pm[i]
      PROVE  t.pm[i] = "none" /\ \A a \in Areas : s.shown[a] = i => a \in t.dead
  <2>1. i \in Slots
    BY TraceSlotFacts
  <2>2. i \in S /\ t.pm[i] = "none" /\ s.pm[i] # "none"
    BY <1>1, <1>4, <2>1
  <2>3. QED
    BY <1>2, <2>2
<1>5. s.dead \subseteq t.dead
  BY <1>2
<1>6. Keeps(s, t)
  BY <1>3, <1>4, <1>5, FieldNames DEF Keeps
<1>7. QED
  BY <1>6 DEF t

LEMMA KeepsItself ==
    ASSUME NEW s
    PROVE  Keeps(s, s)
BY DEF Keeps

-----------------------------------------------------------------------------
(* The steps of drawing that concern other pixmaps.                        *)

LEMMA DrawKeeps ==
    ASSUME NEW s, Typed(s), NEW i \in Slots \ TraceSlots, NEW c
    PROVE  Keeps(s, Draw(s, i, c))
<1>1. Only(s, Draw(s, i, c), {"pm"}) /\ Draw(s, i, c).pm = [s.pm EXCEPT ![i] = c]
  BY FieldNames DEF Only, Typed, Draw
<1>2. \A j \in TraceSlots : [s.pm EXCEPT ![i] = c][j] = s.pm[j]
  BY FieldTypes, TraceSlotFacts
<1>3. QED
  BY <1>1, <1>2, KeepsFields

LEMMA MagnifyKeeps ==
    ASSUME NEW s, Typed(s), NEW i \in Slots \ TraceSlots
    PROVE  Keeps(s, magnify_proc(s, i))
<1> DEFINE t == magnify_proc(s, i)
           F == {"pm", "user", "vline", "pix", "half", "lost"}
<1>1. CASE s.screen \notin s.gr
  BY <1>1, DrawKeeps DEF magnify_proc
<1>2. CASE s.screen \in s.gr
  <2>1. /\ Only(s, t, F) /\ t.pm = [s.pm EXCEPT ![i] = CurWin(s)]
        /\ t.lost \in {s.lost, s.lost \ {"order"}}
    BY <1>2, FieldNames DEF Only, Typed, magnify_proc
  <2>2. \A j \in TraceSlots : t.pm[j] = s.pm[j]
    BY <2>1, FieldTypes, TraceSlotFacts
  <2>3. s.lost \cap {"atEnd", "gain"} \subseteq t.lost
    BY <2>1
  <2> HIDE DEF t
  <2>4. Keeps(s, t)
    BY <2>1, <2>2, <2>3, KeepsFields
  <2>5. QED
    BY <2>4 DEF t
<1>3. QED
  BY <1>1, <1>2

LEMMA TransformKeeps ==
    ASSUME NEW s, Typed(s), NEW i \in Slots \ TraceSlots, NEW r
    PROVE  Keeps(s, transform_proc(s, i, r))
<1> DEFINE t == transform_proc(s, i, r)
           data == IF r THEN CurWin(s) ELSE s.fft
<1>1. /\ Only(s, t, {"pm", "fft", "lost", "half"}) /\ t.pm = [s.pm EXCEPT ![i] = data]
      /\ s.lost \cap {"atEnd", "gain"} \subseteq t.lost
  BY FieldNames DEF Only, Typed, transform_proc
<1>2. \A j \in TraceSlots : t.pm[j] = s.pm[j]
  <2> HIDE DEF data
  <2> QED  BY <1>1, FieldTypes, TraceSlotFacts
<1> HIDE DEF t
<1>3. Keeps(s, t)
  BY <1>1, <1>2, KeepsFields
<1>4. QED
  BY <1>3 DEF t

LEMMA AgeKeeps ==
    ASSUME NEW s, Typed(s), NEW S, S \cap TraceSlots = {}
    PROVE  Keeps(s, Age(s, S))
<1>1. /\ Only(s, Age(s, S), {"pm"})
      /\ Age(s, S).pm = [i \in Slots |-> IF i \in S /\ s.pm[i] \in Windows \cup {"ok"} THEN "old" ELSE s.pm[i]]
  BY AgeType, FieldNames DEF Typed, Age
<1>2. \A j \in TraceSlots : Age(s, S).pm[j] = s.pm[j]
  BY <1>1, TraceSlotFacts
<1>3. QED
  BY <1>1, <1>2, KeepsFields

LEMMA AgeFFTKeeps ==
    ASSUME NEW s, Typed(s)
    PROVE  Keeps(s, AgeFFT(s))
BY AgeFFTType, KeepsFields

LEMMA WindowKeeps ==
    ASSUME NEW s, Typed(s)
    PROVE  Keeps(s, WindowChanged(s))
<1>1. /\ Only(s, WindowChanged(s), {"reset", "refreshH"})
      /\ WindowChanged(s).reset = s.reset \cup {"MAG", "SPEC"}
      /\ WindowChanged(s).refreshH = s.refreshH \cup TwoPanes({"MAG", "SPEC"})
  BY FieldNames DEF Only, Typed, WindowChanged
<1>2. QED
  BY <1>1, KeepsFields

LEMMA MagSelectionKeeps ==
    ASSUME NEW s, Typed(s)
    PROVE  Keeps(s, makeMAGSelectionList(s))
<1>1. /\ Only(s, makeMAGSelectionList(s), {"reset", "resetAll"})
      /\ makeMAGSelectionList(s).reset = s.reset \cup {"MAG", "SPEC"}
      /\ makeMAGSelectionList(s).resetAll
  BY FieldNames DEF Only, Typed, makeMAGSelectionList
<1>2. QED
  BY <1>1, KeepsFields

\* A state the handlers may go on from.
Traced(s) == Part(s, {}) /\ TraceOk(s)

LEMMA PartNone ==
    ASSUME NEW s, NEW A, Part(s, A)
    PROVE  Part(s, {}) /\ Typed(s)
BY DEF Part

LEMMA QuietTraced ==
    ASSUME NEW s, Traced(s), NEW t, Quiet(s, t), Keeps(s, t)
    PROVE  Traced(t) /\ Typed(t) /\ Same(s, t)
<1>1. Typed(s)
  BY DEF Traced, Part
<1>2. Part(t, {}) /\ Same(s, t)
  BY <1>1, QuietPart DEF Traced
<1>3. TraceOk(t)
  BY KeepsOk DEF Traced
<1>4. QED
  BY <1>2, <1>3 DEF Traced, Part

\* An area shown: if it is one of the traces, it shows what it should.
LEMMA ShowSeen ==
    ASSUME NEW s, Typed(s), TraceOk(s), NEW b \in Areas, NEW i \in Slots,
           b \in Visible(s) /\ KindOf(s, b) = "TRACE" =>
                i \in TraceSlots /\ (Spared(s) \/ s.pm[i] = Due(s, b))
    PROVE  TraceOk(Show(s, b, i))
<1> DEFINE t == Show(s, b, i)
<1>1. /\ Only(s, t, {"shown", "dead", "left", "drawn"})
      /\ t.shown = [s.shown EXCEPT ![b] = i] /\ t.dead = s.dead \ {b} /\ t.drawn = s.drawn \cup {b}
  <2>1. t.drawn = s.drawn \cup {b}
    BY FieldNames DEF Show, Typed
  <2>2. QED
    BY <2>1, ShowType
<1>2. s.shown \in [Areas -> Slots \cup {<<>>}]
  BY FieldTypes
<1> HIDE DEF t
<1>3. /\ t.page = s.page /\ t.panes = s.panes /\ t.lay = s.lay /\ t.busy = s.busy /\ t.sel = s.sel
      /\ t.view = s.view /\ t.old = s.old /\ t.reset = s.reset /\ t.refresh = s.refresh
      /\ t.lost = s.lost /\ t.resetAll = s.resetAll /\ t.refreshH = s.refreshH /\ t.pm = s.pm
  BY <1>1, FieldNames DEF Only
<1>4. PageCache(t) /\ PaneCache(t)
  BY <1>3 DEF TraceOk, PageCache, PaneCache
<1>5. Seen(t)
  <2>1. SUFFICES ASSUME NEW a \in (t.drawn \ t.dead) \cap Visible(t), KindOf(t, a) = "TRACE"
                 PROVE  t.shown[a] \in TraceSlots /\ (Spared(t) \/ t.pm[t.shown[a]] = Due(t, a))
    BY DEF Seen
  <2>2. a \in Visible(s) /\ KindOf(s, a) = "TRACE" /\ a \in Areas
    BY <1>3, <2>1 DEF Visible, KindOf
  <2>3. Due(t, a) = Due(s, a) /\ (Spared(s) <=> Spared(t))
    BY <1>3 DEF Due, Spared
  <2>4. CASE a = b
    BY <1>1, <1>2, <1>3, <2>2, <2>3, <2>4
  <2>5. CASE a # b
    <3>1. a \in s.drawn \ s.dead /\ t.shown[a] = s.shown[a]
      BY <1>1, <1>2, <2>1, <2>2, <2>5
    <3>2. QED
      BY <1>3, <2>2, <2>3, <3>1 DEF TraceOk, Seen
  <2>6. QED
    BY <2>4, <2>5
<1>6. QED
  BY <1>4, <1>5 DEF TraceOk, t

\* Slots of Magnify and of the spectra.
LEMMA OtherSlot ==
    ASSUME NEW s, Typed(s), NEW k \in {"MAG", "SPEC"}
    PROVE  /\ k \in Kinds /\ MainSlots(k) \subseteq Slots \ TraceSlots
           /\ Key(k, s.view[k], s.tf) \in MainSlots(k) /\ None(k) \in MainSlots(k)
           /\ Area(k) \in Areas /\ KindOf(s, Area(k)) = k
           /\ TwoPanes({k}) \cap TwoPanes({"TRACE"}) = {} /\ k # "TRACE"
<1>1. k \in Kinds /\ k # "TRACE"
  BY DEF Kinds
<1>2. MainSlots(k) \subseteq Slots \ TraceSlots
  BY <1>1, SlotTypes, TraceSlotFacts
<1>3. Area(k) \in Areas /\ KindOf(s, Area(k)) = k
  BY <1>1, AreaFacts DEF KindOf
<1>4. TwoPanes({k}) \cap TwoPanes({"TRACE"}) = {}
  BY <1>1, TraceSlotFacts DEF TraceSlots
<1>5. QED
  BY <1>1, <1>2, <1>3, <1>4, SlotTypes

LEMMA MaybeKeeps ==
    ASSUME NEW s, Typed(s), NEW b \in BOOLEAN, NEW S
    PROVE  Keeps(s, IF b THEN Unref(s, S) ELSE s) /\ Typed(IF b THEN Unref(s, S) ELSE s)
BY UnrefKeeps, UnrefType, KeepsItself

\* What magPixmap does before and after its area is shown.
LEMMA MagSteps ==
    ASSUME NEW s, Typed(s)
    PROVE  \E u, i : /\ Keeps(s, u) /\ Typed(u) /\ i \in Slots
                     /\ Keeps(Show(u, Area("MAG"), i), magPixmap(s))
<1> DEFINE M == MainSlots("MAG")
           slot == IF Nothing(s) THEN None("MAG") ELSE Key("MAG", s.view["MAG"], s.tf)
           clear == Nothing(s) \/ "MAG" \in s.reset \cup s.refresh
           s1 == IF clear THEN Unref(s, M) ELSE s
           u == Unref(s1, {slot})
           d == [u EXCEPT !.dirty = FALSE]
           s2 == IF s.dirty THEN d ELSE s1
           s3 == IF s2.pm[slot] # "none" THEN s2
                 ELSE IF Nothing(s) THEN Draw(s2, slot, "msg") ELSE magnify_proc(s2, slot)
           new == clear \/ slot # s.old["MAG"]
           s4 == Show(s3, Area("MAG"), slot)
           t == [s4 EXCEPT !.refreshH = IF new THEN @ \cup TwoPanes({"MAG"}) ELSE @, !.old["MAG"] = slot,
                           !.reset = @ \ {"MAG"}, !.refresh = @ \ {"MAG"}]
<1>1. t = magPixmap(s)
  BY DEF magPixmap
<1>2. Typed(s) /\ slot \in M /\ slot \in Slots \ TraceSlots /\ clear \in BOOLEAN
  BY OtherSlot
<1> HIDE DEF slot, clear, new
<1>3. Keeps(s, s1) /\ Typed(s1) /\ Only(s, s1, {"pm", "dead"})
  BY <1>2, MaybeKeeps, MaybeUnref
<1> HIDE DEF s1, M
<1>4. Keeps(s1, u) /\ Typed(u) /\ Only(s1, u, {"pm", "dead"})
  BY <1>3, UnrefKeeps, UnrefType
<1> HIDE DEF u
<1>5. Keeps(u, d) /\ Typed(d) /\ Only(s, d, {"pm", "dead", "dirty"})
  <2>1. Only(u, d, {"dirty"}) /\ d.dirty = FALSE
    BY <1>4, FieldNames DEF Only, Typed
  <2>2. FALSE \in Types.dirty
    BY DEF Types
  <2> HIDE DEF d
  <2>3. \A x \in {"dirty"} : d[x] \in Types[x]
    BY <2>1, <2>2
  <2>4. Only(s, d, {"pm", "dead", "dirty"})
    BY <1>3, <1>4, <2>1 DEF Only
  <2>5. QED
    BY <1>4, <2>1, <2>3, <2>4, KeepsFields, Retyped
<1> HIDE DEF d
<1>6. Keeps(s, s2) /\ Typed(s2) /\ (Nothing(s2) <=> Nothing(s))
  <2>1. Keeps(s, d)
    BY <1>3, <1>4, <1>5, KeepsTrans
  <2>2. Nothing(d) <=> Nothing(s)
    BY <1>5, FieldNames DEF Only, Nothing
  <2>3. Nothing(s1) <=> Nothing(s)
    BY <1>3, FieldNames DEF Only, Nothing
  <2>4. QED
    BY <1>3, <1>5, <2>1, <2>2, <2>3
<1> HIDE DEF s2
<1>7. Keeps(s, s3) /\ Typed(s3)
  <2>1. Keeps(s2, Draw(s2, slot, "msg")) /\ Typed(Draw(s2, slot, "msg"))
    BY <1>2, <1>6, DrawKeeps, DrawType DEF Contents, Quiet
  <2>2. Keeps(s2, magnify_proc(s2, slot)) /\ (~Nothing(s) => Typed(magnify_proc(s2, slot)))
    BY <1>2, <1>6, MagnifyKeeps, MagnifyType DEF Quiet
  <2>3. QED
    BY <1>6, <2>1, <2>2, KeepsTrans
<1> HIDE DEF s3
<1>8. Typed(s4)
  BY <1>2, <1>7, OtherSlot, ShowType
<1> HIDE DEF s4
<1>9. /\ Only(s4, t, {"refreshH", "old", "reset", "refresh"})
      /\ s4.refreshH \subseteq t.refreshH
      /\ t.old["TRACE"] = s4.old["TRACE"]
      /\ t.reset = s4.reset \ {"MAG"} /\ t.refresh = s4.refresh \ {"MAG"}
  <2>1. DOMAIN s4 = Fields
    BY <1>8 DEF Typed
  <2>2. t.old["TRACE"] = s4.old["TRACE"]
    BY <2>1, <1>8, FieldTypes, FieldNames DEF Kinds
  <2>3. s4.refreshH \subseteq t.refreshH
    BY <2>1, FieldNames
  <2>4. Only(s4, t, {"refreshH", "old", "reset", "refresh"}) /\ t.reset = s4.reset \ {"MAG"} /\ t.refresh = s4.refresh \ {"MAG"}
    BY <2>1, FieldNames DEF Only
  <2>5. QED
    BY <2>2, <2>3, <2>4
<1> HIDE DEF t
<1>10. Keeps(s4, t)
  BY <1>9, KeepsFields
<1>11. QED
  BY <1>1, <1>2, <1>7, <1>10 DEF s4

LEMMA MagTraced ==
    ASSUME NEW s, Traced(s)
    PROVE  Traced(magPixmap(s)) /\ Same(s, magPixmap(s))
<1>1. Typed(s) /\ TraceOk(s) /\ Area("MAG") \in Areas
  BY OtherSlot DEF Traced, Part
<1>2. PICK u, i : /\ Keeps(s, u) /\ Typed(u) /\ i \in Slots
                  /\ Keeps(Show(u, Area("MAG"), i), magPixmap(s))
  BY <1>1, MagSteps
<1>3. TraceOk(u) /\ KindOf(u, Area("MAG")) # "TRACE"
  BY <1>1, <1>2, KeepsOk, OtherSlot
<1>4. TraceOk(magPixmap(s))
  <2>1. TraceOk(Show(u, Area("MAG"), i))
    BY <1>1, <1>2, <1>3, ShowSeen
  <2>2. QED
    BY <1>2, <2>1, KeepsOk
<1>5. Drew(s, magPixmap(s), {}, Area("MAG"))
  BY MagPixmap DEF Traced
<1>6. QED
  BY <1>4, <1>5, PartNone DEF Drew, Traced

LEMMA SpecTraced ==
    ASSUME NEW s, Traced(s)
    PROVE  Traced(specPixmap(s)) /\ Same(s, specPixmap(s))
<1> DEFINE M == MainSlots("SPEC")
           slot == IF Nothing(s) THEN None("SPEC") ELSE Key("SPEC", s.view["SPEC"], s.tf)
           reset == Nothing(s) \/ "SPEC" \in s.reset
           clear == reset \/ "SPEC" \in s.refresh
           s1 == IF clear THEN Unref(s, M) ELSE s
           s2 == IF s1.pm[slot] # "none" THEN s1
                 ELSE IF Nothing(s) THEN Draw(s1, slot, "msg") ELSE transform_proc(s1, slot, reset)
           new == reset \/ slot # s.old["SPEC"]
           cross == Nothing(s) /\ \E x \in Screens : s.pix[x] # NoWin
           s3 == Show(s2, Area("SPEC"), slot)
           t == [s3 EXCEPT !.refreshH = IF new THEN @ \cup TwoPanes({"SPEC"}) ELSE @, !.old["SPEC"] = slot,
                           !.lost = IF cross THEN @ \cup {"cross"} ELSE @,
                           !.reset = @ \ {"SPEC"}, !.refresh = @ \ {"SPEC"}]
<1>1. t = specPixmap(s)
  BY DEF specPixmap
<1>2. Typed(s) /\ slot \in M /\ slot \in Slots \ TraceSlots /\ clear \in BOOLEAN /\ reset \in BOOLEAN
  BY OtherSlot DEF Traced, Part
<1> HIDE DEF slot, clear, new, reset, cross
<1>3. Keeps(s, s1) /\ Typed(s1) /\ Only(s, s1, {"pm", "dead"})
  BY <1>2, MaybeKeeps, MaybeUnref
<1> HIDE DEF s1, M
<1>4. Nothing(s1) <=> Nothing(s)
  BY <1>3, FieldNames DEF Only, Nothing
<1>5. Keeps(s, s2) /\ Typed(s2)
  <2>1. Keeps(s1, Draw(s1, slot, "msg")) /\ Typed(Draw(s1, slot, "msg"))
    BY <1>2, <1>3, DrawKeeps, DrawType DEF Contents, Quiet
  <2>2. Keeps(s1, transform_proc(s1, slot, reset)) /\ (~Nothing(s) => Typed(transform_proc(s1, slot, reset)))
    BY <1>2, <1>3, <1>4, TransformKeeps, TransformType DEF Quiet
  <2>3. QED
    BY <1>3, <2>1, <2>2, KeepsTrans
<1> HIDE DEF s2
<1>6. TraceOk(s3) /\ Typed(s3)
  <2>1. TraceOk(s2)
    BY <1>5, KeepsOk DEF Traced
  <2>2. Area("SPEC") \in Areas /\ KindOf(s2, Area("SPEC")) # "TRACE"
    BY <1>5, OtherSlot
  <2>3. QED
    BY <1>2, <1>5, <2>1, <2>2, ShowSeen, ShowType
<1> HIDE DEF s3
<1>7. /\ Only(s3, t, {"refreshH", "old", "lost", "reset", "refresh"})
      /\ s3.refreshH \subseteq t.refreshH /\ s3.lost \subseteq t.lost
      /\ t.old["TRACE"] = s3.old["TRACE"]
      /\ t.reset = s3.reset \ {"SPEC"} /\ t.refresh = s3.refresh \ {"SPEC"}
  <2>1. DOMAIN s3 = Fields
    BY <1>6 DEF Typed
  <2>2. t.old["TRACE"] = s3.old["TRACE"]
    BY <2>1, <1>6, FieldTypes, FieldNames DEF Kinds
  <2>3. s3.refreshH \subseteq t.refreshH /\ s3.lost \subseteq t.lost
    BY <2>1, FieldNames
  <2>4. Only(s3, t, {"refreshH", "old", "lost", "reset", "refresh"}) /\ t.reset = s3.reset \ {"SPEC"} /\ t.refresh = s3.refresh \ {"SPEC"}
    BY <2>1, FieldNames DEF Only
  <2>5. QED
    BY <2>2, <2>3, <2>4
<1> HIDE DEF t
<1>8. Keeps(s3, t)
  BY <1>7, KeepsFields
<1>9. TraceOk(t)
  BY <1>6, <1>8, KeepsOk
<1>10. Part(t, {}) /\ Same(s, t)
  <2>1. Drew(s, specPixmap(s), {}, Area("SPEC"))
    BY SpecPixmap DEF Traced
  <2>2. QED
    BY <1>1, <2>1, PartNone DEF Drew
<1>11. QED
  BY <1>1, <1>9, <1>10 DEF Traced

-----------------------------------------------------------------------------
(* The panes.                                                              *)

\* What a trace pane shows when it is drawn.
PaneDue(s) == IF s.sel THEN "ok" ELSE "msg"

LEMMA PlotFilesOnly ==
    ASSUME NEW s, Typed(s), NEW i \in Slots
    PROVE  /\ Only(s, plot_files(s, i), {"pm", "gr", "lost", "pix"})
           /\ plot_files(s, i).pm = [s.pm EXCEPT ![i] = "ok"]
           /\ s.lost \subseteq plot_files(s, i).lost
BY FieldNames DEF Only, Typed, plot_files

\* A pane drawn when its slot was empty.
LEMMA FillOk ==
    ASSUME NEW s, Typed(s), TraceOk(s), NEW p \in Panes, s.pm[<<p, "TRACE">>] = "none",
           NEW t, Only(s, t, {"pm", "gr", "lost", "pix"}), s.lost \subseteq t.lost,
           t.pm = [s.pm EXCEPT ![<<p, "TRACE">>] = PaneDue(s)]
    PROVE  TraceOk(t)
<1> DEFINE i == <<p, "TRACE">>
<1>1. i \in TraceSlots /\ i \in Slots
  BY TraceSlotFacts
<1>2. t.pm[i] = PaneDue(s) /\ \A j \in Slots \ {i} : t.pm[j] = s.pm[j]
  BY <1>1, FieldTypes
<1>3. /\ t.page = s.page /\ t.panes = s.panes /\ t.lay = s.lay /\ t.busy = s.busy /\ t.sel = s.sel
      /\ t.view = s.view /\ t.old = s.old /\ t.reset = s.reset /\ t.refresh = s.refresh
      /\ t.resetAll = s.resetAll /\ t.refreshH = s.refreshH /\ t.drawn = s.drawn /\ t.dead = s.dead
      /\ t.shown = s.shown
  BY FieldNames DEF Only
<1>4. PageCache(t)
  <2>1. \A v \in Views : <<"TRACE", v>> \in Slots \ {i}
    BY TraceSlotFacts DEF OnOff, Panes
  <2>2. QED
    BY <1>2, <1>3, <2>1 DEF TraceOk, PageCache
<1>5. PaneCache(t)
  <2>1. \A x \in Panes : <<x, "TRACE">> \in Slots
    BY TraceSlotFacts
  <2>2. QED
    BY <1>2, <1>3, <2>1 DEF TraceOk, PaneCache, PaneDue
<1>6. Seen(t)
  <2>1. SUFFICES ASSUME NEW a \in (t.drawn \ t.dead) \cap Visible(t), KindOf(t, a) = "TRACE"
                 PROVE  t.shown[a] \in TraceSlots /\ (Spared(t) \/ t.pm[t.shown[a]] = Due(t, a))
    BY DEF Seen
  <2>2. a \in (s.drawn \ s.dead) \cap Visible(s) /\ KindOf(s, a) = "TRACE"
    BY <1>3, <2>1 DEF Visible, KindOf
  <2>3. s.shown[a] \in TraceSlots /\ (Spared(s) \/ s.pm[s.shown[a]] = Due(s, a)) /\ t.shown[a] = s.shown[a]
    BY <1>3, <2>2 DEF TraceOk, Seen
  <2>4. Due(t, a) = Due(s, a) /\ Due(s, a) # "none" /\ (Spared(s) => Spared(t))
    BY <1>3 DEF Due, Spared
  <2>5. s.shown[a] \in Slots
    BY <2>3, TraceSlotFacts
  <2>6. QED
    BY <1>2, <2>3, <2>4, <2>5
<1>7. QED
  BY <1>4, <1>5, <1>6 DEF TraceOk

\* One pane drawn in its empty slot.
LEMMA PaneTraced ==
    ASSUME NEW s, Typed(s), TraceOk(s), NEW p \in Panes, NEW k \in Kinds, s.pm[<<p, k>>] = "none"
    PROVE  LET t == splitPane(s, <<p, k>>) IN
           /\ TraceOk(t) /\ Typed(t)
           /\ Only(s, t, {"pm", "gr", "lost", "pix", "user", "vline", "half", "fft", "reset", "refresh"})
           /\ \A j \in TraceSlots : \/ t.pm[j] \in {s.pm[j], "none"}
                                    \/ j = <<p, k>> /\ k = "TRACE" /\ t.pm[j] = PaneDue(s)
           /\ k = "TRACE" => t.pm[<<p, k>>] = PaneDue(s)
<1> DEFINE i == <<p, k>>
           t == splitPane(s, i)
           F == {"pm", "gr", "lost", "pix", "user", "vline", "half", "fft", "reset", "refresh"}
<1>1. i \in SplitSlots /\ i \in Slots /\ i[2] = k /\ i[1] = p
  BY SlotFacts
<1>2. Typed(t)
  BY <1>1, SplitPaneType DEF Quiet
<1>3. CASE k = "TRACE"
  <2> DEFINE d == Draw(s, i, "msg")
             f == plot_files(s, i)
  <2>1. /\ Only(s, d, {"pm", "gr", "lost", "pix"}) /\ d.pm = [s.pm EXCEPT ![i] = "msg"] /\ s.lost \subseteq d.lost
    BY FieldNames DEF Only, Typed, Draw
  <2>2. /\ Only(s, f, {"pm", "gr", "lost", "pix"}) /\ f.pm = [s.pm EXCEPT ![i] = "ok"] /\ s.lost \subseteq f.lost
    BY <1>1, PlotFilesOnly
  <2>3. t = IF s.sel THEN f ELSE d
    BY <1>1, <1>3 DEF splitPane
  <2> HIDE DEF d, f, t
  <2>4. Only(s, t, {"pm", "gr", "lost", "pix"}) /\ t.pm = [s.pm EXCEPT ![i] = PaneDue(s)] /\ s.lost \subseteq t.lost
    BY <2>1, <2>2, <2>3 DEF PaneDue
  <2>5. t.pm[i] = PaneDue(s) /\ \A j \in Slots \ {i} : t.pm[j] = s.pm[j]
    BY <1>1, <2>4, FieldTypes
  <2>6. TraceOk(t)
    BY <1>3, <2>4, FillOk
  <2>7. Only(s, t, F)
    BY <2>4 DEF Only
  <2>8. QED
    BY <1>2, <1>3, <2>5, <2>6, <2>7, TraceSlotFacts DEF t
<1>4. CASE k \in {"MAG", "SPEC"}
  <2>1. i \in Slots \ TraceSlots /\ k # "TRACE"
    BY <1>1, <1>4, TraceSlotFacts
  <2>2. Keeps(s, t) /\ Only(s, t, F)
    <3>1. Keeps(s, Draw(s, i, "msg")) /\ Only(s, Draw(s, i, "msg"), F)
      BY <2>1, DrawKeeps, FieldNames DEF Only, Draw, Typed
    <3>2. Keeps(s, magnify_proc(s, i)) /\ Only(s, magnify_proc(s, i), F)
      <4>1. CASE s.screen \in s.gr
        <5>1. Only(s, magnify_proc(s, i), F)
          BY <4>1, FieldNames DEF Only, Typed, magnify_proc
        <5>2. QED
          BY <2>1, <5>1, MagnifyKeeps
      <4>2. CASE s.screen \notin s.gr
        <5>1. Only(s, magnify_proc(s, i), F)
          BY <4>2, FieldNames DEF Only, Typed, magnify_proc, Draw
        <5>2. QED
          BY <2>1, <5>1, MagnifyKeeps
      <4>3. QED
        BY <4>1, <4>2
    <3> DEFINE r == "SPEC" \in s.reset
               q == transform_proc(s, i, r)
               v == [q EXCEPT !.reset = @ \ {"SPEC"},
                              !.refresh = IF r THEN @ \cup {"SPEC"} ELSE @]
    <3>3. Keeps(s, q) /\ Only(s, q, F)
      <4> HIDE DEF r
      <4>1. Only(s, q, F)
        BY FieldNames DEF Only, Typed, transform_proc
      <4>2. QED
        BY <2>1, <4>1, TransformKeeps
    <3> HIDE DEF q, r
    <3>4. Keeps(q, v) /\ Only(q, v, F)
      <4>1. /\ Only(q, v, {"reset", "refresh"}) /\ v.reset = q.reset \ {"SPEC"} /\ q.refresh \subseteq v.refresh
        BY <3>3, FieldNames DEF Only
      <4> HIDE DEF v
      <4>2. Only(q, v, F)
        BY <4>1 DEF Only
      <4>3. QED
        BY <4>1, <4>2, KeepsFields
    <3>5. Keeps(s, v) /\ Only(s, v, F)
      BY <3>3, <3>4, KeepsTrans, OnlyTrans
    <3>6. t \in {Draw(s, i, "msg"), magnify_proc(s, i), v}
      BY <1>1, <1>4 DEF splitPane, q, r
    <3> HIDE DEF t, v
    <3>7. QED
      BY <3>1, <3>2, <3>5, <3>6
  <2> HIDE DEF t
  <2>3. TraceOk(t)
    BY <2>2, KeepsOk
  <2>4. \A j \in TraceSlots : t.pm[j] \in {s.pm[j], "none"}
    BY <2>2 DEF Keeps
  <2>5. QED
    BY <1>2, <2>1, <2>2, <2>3, <2>4 DEF t
<1>5. QED
  BY <1>3, <1>4 DEF Kinds

LEMMA SplitTraced ==
    ASSUME NEW s, Traced(s), NEW q, s.lay[s.panes][q] \in Kinds
    PROVE  LET t == splitPixmap(s, q) IN
           /\ Traced(t) /\ Same(s, t)
           /\ s.lay[s.panes][q] = "TRACE" => Spared(t) \/ t.pm[<<s.panes, "TRACE">>] = PaneDue(t)
<1> DEFINE kind == s.lay[s.panes][q]
           slot == <<s.panes, kind>>
           u == Unref(s, SplitSlots)
           r == [u EXCEPT !.left = @ \cup Visible(s)]
           s1 == IF s.resetAll THEN r ELSE s
           s2 == IF <<s.panes, q>> \in s.resetH \/ slot \in s.refreshH THEN Unref(s1, {slot}) ELSE s1
           p == splitPane(s2, slot)
           p1 == [p EXCEPT !.lost = @ \cup {"take"}]
           s3 == IF s2.pm[slot] # "none" THEN s2 ELSE IF s.screen = "MAIN" THEN p1 ELSE p
           t == [s3 EXCEPT !.resetAll = FALSE, !.resetH = @ \ {<<s.panes, q>>}, !.refreshH = @ \ {slot}]
           F == {"pm", "dead", "left", "gr", "lost", "pix", "user", "vline", "half", "fft", "reset", "refresh"}
<1>1. splitPixmap(s, q) = t
  BY DEF splitPixmap
<1>2. Typed(s) /\ s.panes \in Panes /\ kind \in Kinds /\ slot \in SplitSlots /\ slot \in Slots
  BY FieldTypes, SlotFacts DEF Traced, Part
<1>3. Keeps(s, s1) /\ Typed(s1) /\ Only(s, s1, F)
      /\ (s.resetAll => \A j \in SplitSlots : s1.pm[j] = "none")
  <2>1. Typed(u) /\ Only(s, u, {"pm", "dead"}) /\ Keeps(s, u) /\ \A j \in SplitSlots : u.pm[j] = "none"
    BY <1>2, UnrefType, UnrefKeeps, SlotFacts
  <2> HIDE DEF u
  <2>2. Only(u, r, {"left"}) /\ r.left = u.left \cup Visible(s)
    BY <2>1, FieldNames DEF Only, Typed
  <2>3. r.left \in Types.left
    BY <2>1, <2>2, FieldTypes DEF Types, Visible
  <2> HIDE DEF r
  <2>4. \A x \in {"left"} : r[x] \in Types[x]
    BY <2>3
  <2>5. Typed(r) /\ Keeps(u, r) /\ r.pm = u.pm
    <3>1. r.pm = u.pm
      BY <2>2, FieldNames DEF Only
    <3>2. QED
      BY <2>1, <2>2, <2>4, <3>1, Retyped, KeepsFields
  <2>6. Keeps(s, r) /\ Only(s, r, F)
    BY <2>1, <2>2, <2>5, KeepsTrans DEF Only
  <2>7. Only(s, s, F)
    BY <1>2 DEF Only, Typed
  <2>8. QED
    BY <1>2, <2>1, <2>5, <2>6, <2>7, KeepsItself
<1> HIDE DEF s1, kind
<1>4. Keeps(s, s2) /\ Typed(s2) /\ Only(s, s2, F)
      /\ (slot \in s.refreshH => s2.pm[slot] = "none")
      /\ (s.resetAll => \A j \in SplitSlots : s2.pm[j] = "none")
  <2> DEFINE v == Unref(s1, {slot})
  <2>1. Typed(v) /\ Only(s1, v, {"pm", "dead"}) /\ Keeps(s1, v) /\ v.pm[slot] = "none"
        /\ \A j \in Slots \ {slot} : v.pm[j] = s1.pm[j]
    BY <1>2, <1>3, UnrefType, UnrefKeeps
  <2> HIDE DEF v
  <2>2. Keeps(s, v) /\ Only(s, v, F)
    BY <1>3, <2>1, KeepsTrans DEF Only
  <2>3. s.resetAll => \A j \in SplitSlots : v.pm[j] = "none"
    BY <1>3, <2>1, SlotFacts
  <2>4. QED
    BY <1>3, <2>1, <2>2, <2>3 DEF v
<1> HIDE DEF s2
<1>5. TraceOk(s2) /\ s2.sel = s.sel
  BY <1>4, KeepsOk DEF Traced, Keeps
<1>6. /\ TraceOk(s3) /\ Typed(s3) /\ Only(s, s3, F)
      /\ \A j \in TraceSlots : \/ s3.pm[j] \in {s2.pm[j], "none"}
                               \/ j = slot /\ kind = "TRACE" /\ s3.pm[j] = PaneDue(s)
      /\ kind = "TRACE" /\ s2.pm[slot] = "none" => s3.pm[slot] = PaneDue(s)
      /\ s2.pm[slot] # "none" => s3 = s2
  <2>1. CASE s2.pm[slot] # "none"
    BY <1>4, <1>5, <2>1
  <2>2. CASE s2.pm[slot] = "none"
    <3>1. /\ TraceOk(p) /\ Typed(p) /\ Only(s2, p, F)
          /\ \A j \in TraceSlots : \/ p.pm[j] \in {s2.pm[j], "none"}
                                   \/ j = slot /\ kind = "TRACE" /\ p.pm[j] = PaneDue(s2)
          /\ kind = "TRACE" => p.pm[slot] = PaneDue(s2)
      <4>1. \A x : Only(s2, x, {"pm", "gr", "lost", "pix", "user", "vline", "half", "fft", "reset", "refresh"}) => Only(s2, x, F)
        BY DEF Only
      <4>2. QED
        BY <1>2, <1>4, <1>5, <2>2, <4>1, PaneTraced
    <3> HIDE DEF p
    <3>2. Only(p, p1, {"lost"}) /\ p1.lost = p.lost \cup {"take"}
      BY <3>1, FieldNames DEF Only, Typed
    <3>3. p1.lost \in Types.lost
      BY <3>1, <3>2, FieldTypes DEF Types, Exempt
    <3> HIDE DEF p1
    <3>4. \A x \in {"lost"} : p1[x] \in Types[x]
      BY <3>3
    <3>5. Typed(p1) /\ Keeps(p, p1) /\ p1.pm = p.pm
      <4>1. p1.pm = p.pm
        BY <3>2, FieldNames DEF Only
      <4>2. p.lost \cap {"atEnd", "gain"} \subseteq p1.lost
        BY <3>2
      <4>3. QED
        BY <3>1, <3>2, <3>4, <4>1, <4>2, Retyped, KeepsFields
    <3>6. TraceOk(p1) /\ Only(p, p1, F)
      BY <3>1, <3>2, <3>5, KeepsOk DEF Only
    <3>7. Only(s, p, F) /\ Only(s, p1, F)
      BY <1>4, <3>1, <3>6, OnlyTrans
    <3>8. PaneDue(s2) = PaneDue(s)
      BY <1>5 DEF PaneDue
    <3>9. QED
      BY <2>2, <3>1, <3>5, <3>6, <3>7, <3>8
  <2>3. QED
    BY <2>1, <2>2
<1> HIDE DEF s3
<1>7. /\ Only(s3, t, {"resetAll", "resetH", "refreshH"}) /\ t.resetAll = FALSE
      /\ t.refreshH = s3.refreshH \ {slot}
  BY <1>6, FieldNames DEF Only, Typed
<1>8. s3.resetAll = s.resetAll /\ s3.refreshH = s.refreshH /\ s3.sel = s.sel /\ s3.page = s.page
      /\ s3.panes = s.panes /\ s3.lay = s.lay
  BY <1>6, FieldNames DEF Only
<1> HIDE DEF t
<1>9. /\ t.page = s3.page /\ t.panes = s3.panes /\ t.lay = s3.lay /\ t.busy = s3.busy /\ t.sel = s3.sel
      /\ t.view = s3.view /\ t.old = s3.old /\ t.reset = s3.reset /\ t.refresh = s3.refresh
      /\ t.drawn = s3.drawn /\ t.dead = s3.dead /\ t.shown = s3.shown /\ t.lost = s3.lost /\ t.pm = s3.pm
  BY <1>7, FieldNames DEF Only
<1>10. PageCache(t)
  BY <1>6, <1>9 DEF TraceOk, PageCache
<1>11. Seen(t)
  <2>1. Visible(t) = Visible(s3) /\ (Spared(t) <=> Spared(s3)) /\ \A a : KindOf(t, a) = KindOf(s3, a) /\ Due(t, a) = Due(s3, a)
    BY <1>9 DEF Visible, Spared, KindOf, Due
  <2>2. QED
    BY <1>6, <1>9, <2>1 DEF TraceOk, Seen
<1>12. PaneCache(t)
  <2>1. SUFFICES ASSUME NEW x \in Panes
                 PROVE  \/ t.pm[<<x, "TRACE">>] \in {"none", IF t.sel THEN "ok" ELSE "msg"}
                        \/ <<x, "TRACE">> \in t.refreshH \/ t.resetAll \/ "gain" \in t.lost
    BY DEF PaneCache
  <2> DEFINE j == <<x, "TRACE">>
  <2>2. j \in TraceSlots /\ j \in SplitSlots /\ PaneDue(s) = IF t.sel THEN "ok" ELSE "msg"
    BY <1>8, <1>9, TraceSlotFacts, SlotFacts DEF PaneDue, Kinds
  <2>3. CASE s.resetAll
    BY <1>4, <1>6, <1>9, <2>2, <2>3
  <2>4. CASE ~s.resetAll
    <3>1. CASE j = slot
      <4>1. CASE j \in s.refreshH
        BY <1>4, <1>6, <1>9, <2>2, <3>1, <4>1
      <4>2. CASE j \notin s.refreshH
        BY <1>6, <1>8, <1>9, <2>1, <2>4, <4>2 DEF TraceOk, PaneCache
      <4>3. QED
        BY <4>1, <4>2
    <3>2. CASE j # slot
      BY <1>6, <1>7, <1>8, <1>9, <2>1, <2>4, <3>2 DEF TraceOk, PaneCache
    <3>3. QED
      BY <3>1, <3>2
  <2>5. QED
    BY <2>3, <2>4
<1>13. kind = "TRACE" => Spared(t) \/ t.pm[<<s.panes, "TRACE">>] = PaneDue(t)
  <2>1. SUFFICES ASSUME kind = "TRACE"  PROVE  Spared(t) \/ t.pm[slot] = PaneDue(t)
    OBVIOUS
  <2>2. PaneDue(t) = PaneDue(s)
    BY <1>8, <1>9 DEF PaneDue
  <2>3. CASE s2.pm[slot] = "none"
    BY <1>6, <1>9, <2>1, <2>2, <2>3
  <2>4. CASE s2.pm[slot] # "none"
    <3>1. s3 = s2 /\ slot \notin s.refreshH /\ ~s.resetAll
      BY <1>2, <1>4, <1>6, <2>4
    <3>2. \/ s3.pm[slot] \in {"none", IF s3.sel THEN "ok" ELSE "msg"}
          \/ slot \in s3.refreshH \/ s3.resetAll \/ "gain" \in s3.lost
      BY <1>2, <1>6, <2>1 DEF TraceOk, PaneCache
    <3>3. s3.pm[slot] = PaneDue(s) \/ "gain" \in s3.lost
      BY <1>8, <2>4, <3>1, <3>2 DEF PaneDue
    <3>4. QED
      BY <1>9, <2>2, <3>3 DEF Spared
  <2>5. QED
    BY <2>3, <2>4
<1>14. Part(t, {}) /\ Same(s, t)
  <2>1. Cleared(s, splitPixmap(s, q), {<<s.panes, s.lay[s.panes][q]>>})
    BY <1>2, SplitCleared DEF kind
  <2>2. QED
    BY <1>1, <2>1 DEF Cleared, Part, Own, Traced
<1>15. QED
  BY <1>1, <1>10, <1>11, <1>12, <1>13, <1>14 DEF Traced, TraceOk, kind

\* A pane shown, of the layout that is up.
LEMMA ShowPane ==
    ASSUME NEW s, Traced(s), NEW a \in Areas, a[1] # "MAIN", s.lay[s.panes][a[2]] \in Kinds
    PROVE  LET t == Show(splitPixmap(s, a[2]), a, <<s.panes, s.lay[s.panes][a[2]]>>) IN
           Traced(t) /\ Same(s, t)
<1> DEFINE kind == s.lay[s.panes][a[2]]
           slot == <<s.panes, kind>>
           u == splitPixmap(s, a[2])
           t == Show(u, a, slot)
<1>1. Typed(s) /\ s.panes \in Panes /\ slot \in SplitSlots /\ slot \in Slots
  BY FieldTypes, SlotFacts DEF Traced, Part
<1>2. Traced(u) /\ Same(s, u) /\ (kind = "TRACE" => Spared(u) \/ u.pm[<<s.panes, "TRACE">>] = PaneDue(u))
  BY SplitTraced
<1>3. Cleared(s, u, {slot})
  BY <1>1, SplitCleared
<1> HIDE DEF u
<1>4. TraceOk(t)
  <2>1. ASSUME a \in Visible(u), KindOf(u, a) = "TRACE"
        PROVE  slot \in TraceSlots /\ (Spared(u) \/ u.pm[slot] = Due(u, a))
    <3>1. a[1] = s.panes /\ KindOf(u, a) = kind
      BY <2>1, <1>2 DEF Visible, KindOf, Same
    <3>2. a # Area("TRACE")
      BY DEF Area
    <3>3. QED
      BY <1>1, <1>2, <2>1, <3>1, <3>2, TraceSlotFacts DEF Due, PaneDue
  <2>2. QED
    BY <1>1, <1>2, <2>1, ShowSeen DEF Traced, Part
<1>5. Drew(s, t, {}, a)
  <2>1. \A k \in Kinds : a # Area(k)
    BY DEF Area
  <2>2. a \in Visible(s) => slot = <<s.panes, s.lay[s.panes][a[2]]>>
    OBVIOUS
  <2>3. QED
    BY <1>1, <1>3, <2>1, <2>2, ShowDrew DEF Traced
<1>6. QED
  BY <1>4, <1>5, PartNone DEF Drew, Traced, u

LEMMA SplitAreaTraced ==
    ASSUME NEW s, Traced(s), NEW q \in Places(s.panes)
    PROVE  Traced(splitArea(s, q)) /\ Same(s, splitArea(s, q))
<1>1. s.panes \in Panes /\ s.lay[s.panes][q] \in Kinds
  BY LayFacts DEF Traced, Part
<1>2. <<s.panes, q>> \in Areas /\ <<s.panes, q>>[1] # "MAIN" /\ <<s.panes, q>>[2] = q
  BY <1>1, PaneFacts DEF Panes
<1>3. QED
  BY <1>1, <1>2, ShowPane DEF splitArea

LEMMA CrashTraced ==
    ASSUME NEW s, Traced(s)
    PROVE  Traced([s EXCEPT !.crashed = TRUE]) /\ Same(s, [s EXCEPT !.crashed = TRUE])
<1> DEFINE t == [s EXCEPT !.crashed = TRUE]
<1>1. Typed(s)
  BY DEF Traced, Part
<1>2. Quiet(s, t)
  BY <1>1, FlagTypes
<1>3. Only(s, t, {"crashed"})
  BY <1>1, FieldNames DEF Only, Typed
<1> HIDE DEF t
<1>4. Keeps(s, t)
  BY <1>3, KeepsFields
<1>5. QED
  BY <1>2, <1>4, QuietTraced DEF t

LEMMA InvisibleTraced ==
    ASSUME NEW s, Traced(s)
    PROVE  Traced(makePixmap2M(s)) /\ Same(s, makePixmap2M(s))
<1>1. CASE s.panes = "SPLIT2" /\ s.lay["SPLIT2"]["MID"] = "TRACE"
  <2> DEFINE q == splitPixmap(s, "MID")
             t == [q EXCEPT !.resetH = @ \cup {"SPLIT2"} \X Places("SPLIT2")]
  <2>1. makePixmap2M(s) = t
    BY <1>1 DEF makePixmap2M
  <2>2. Traced(q) /\ Same(s, q) /\ Typed(q)
    <3>1. s.lay[s.panes]["MID"] \in Kinds
      BY <1>1 DEF Kinds
    <3>2. Traced(q) /\ Same(s, q)
      BY <3>1, SplitTraced
    <3>3. QED
      BY <3>2 DEF Traced, Part
  <2> HIDE DEF q
  <2>3. Only(q, t, {"resetH"}) /\ t.resetH = q.resetH \cup {"SPLIT2"} \X Places("SPLIT2")
    BY <2>2, FieldNames DEF Only, Typed
  <2>4. q.resetH \cup {"SPLIT2"} \X Places("SPLIT2") \in Types.resetH
    <3>1. {"SPLIT2"} \X Places("SPLIT2") \subseteq Areas
      BY AreaFacts DEF Panes
    <3>2. QED
      BY <2>2, <3>1, FieldTypes DEF Types
  <2> HIDE DEF t
  <2>5. \A x \in {"resetH"} : t[x] \in Types[x]
    BY <2>3, <2>4
  <2>6. Quiet(q, t) /\ Keeps(q, t)
    BY <2>2, <2>3, <2>5, QuietStep, KeepsFields DEF SceneFields
  <2>7. QED
    BY <2>1, <2>2, <2>6, QuietTraced, SameTrans
<1>2. CASE ~(s.panes = "SPLIT2" /\ s.lay["SPLIT2"]["MID"] = "TRACE")
  BY <1>2 DEF makePixmap2M, Same
<1>3. QED
  BY <1>1, <1>2

LEMMA PanesTraced ==
    ASSUME NEW s, Traced(s)
    PROVE  Traced(drawPanes(s)) /\ Same(s, drawPanes(s))
<1> DEFINE u == makePixmap2M(s)
           s1 == splitArea(u, "TOP")
           s2 == IF s.panes = "SPLIT3" THEN splitArea(s1, "MID") ELSE s1
           t == splitArea(s2, "BOT")
<1>1. s.panes \in Panes
  BY FieldTypes DEF Traced, Part
<1>2. Traced(u) /\ Same(s, u) /\ u.panes = s.panes
  BY InvisibleTraced DEF Same
<1>3. t = drawPanes(s)
  BY DEF drawPanes
<1> HIDE DEF u
<1>4. "TOP" \in Places(s.panes) /\ "BOT" \in Places(s.panes) /\ (s.panes = "SPLIT3" => "MID" \in Places(s.panes))
  BY <1>1 DEF Places, Panes
<1>5. Traced(s1) /\ Same(u, s1) /\ s1.panes = s.panes
  BY <1>2, <1>4, SplitAreaTraced DEF Same
<1> HIDE DEF s1
<1>6. Traced(s2) /\ Same(s1, s2) /\ s2.panes = s.panes
  <2>1. Same(s1, s1)
    BY DEF Same
  <2>2. CASE s.panes = "SPLIT3"
    BY <1>4, <1>5, <2>2, SplitAreaTraced DEF Same
  <2>3. CASE s.panes # "SPLIT3"
    BY <1>5, <2>1, <2>3
  <2>4. QED
    BY <2>2, <2>3
<1> HIDE DEF s2
<1>7. Traced(t) /\ Same(s2, t)
  BY <1>4, <1>6, SplitAreaTraced
<1> HIDE DEF t
<1>8. QED
  BY <1>2, <1>3, <1>5, <1>6, <1>7 DEF Same

LEMMA WindowTraced ==
    ASSUME NEW s, Traced(s)
    PROVE  Traced(WindowChanged(s)) /\ Same(s, WindowChanged(s))
BY WindowChangedType, WindowKeeps, QuietTraced DEF Traced, Part

LEMMA ReMagTraced ==
    ASSUME NEW s, Traced(s), NEW p
    PROVE  Traced(reMag(s, p)) /\ Same(s, reMag(s, p))
<1> DEFINE w == WindowChanged(s)
           b == IF w.panes = "SPLIT2" THEN "BOT" ELSE "MID"
<1>1. Traced(w) /\ Same(s, w)
  BY WindowTraced
<1>2. reMag(s, p) = CASE p = "M" -> magPixmap(w) [] p = "H" -> drawPanes(splitArea(w, b)) [] OTHER -> w
  BY DEF reMag
<1>3. w.panes \in Panes /\ b \in Places(w.panes)
  BY <1>1, FieldTypes DEF Traced, Part, Panes, Places
<1> HIDE DEF w, b
<1>4. CASE p = "M"
  BY <1>1, <1>2, <1>4, MagTraced, SameTrans
<1>5. CASE p = "H"
  <2>1. Traced(splitArea(w, b)) /\ Same(w, splitArea(w, b))
    BY <1>1, <1>3, SplitAreaTraced
  <2>2. Traced(drawPanes(splitArea(w, b))) /\ Same(splitArea(w, b), drawPanes(splitArea(w, b)))
    BY <2>1, PanesTraced
  <2>3. QED
    BY <1>1, <1>2, <1>5, <2>1, <2>2, SameTrans
<1>6. CASE p # "M" /\ p # "H"
  BY <1>1, <1>2, <1>6
<1>7. QED
  BY <1>4, <1>5, <1>6

LEMMA ComboTraced ==
    ASSUME NEW s, Traced(s)
    PROVE  Traced(comboChanged(s)) /\ Same(s, comboChanged(s))
<1> DEFINE v == [s EXCEPT !.view["SPEC"] = s.view["MAG"]]
           S == IF s.view["SPEC"] = s.view["MAG"] THEN {} ELSE TwoPanes({"SPEC"})
           t == Age(v, S)
<1>1. Typed(s)
  BY DEF Traced, Part
<1>2. comboChanged(s) = reMag(t, "H")
  BY DEF comboChanged
<1>3. Only(s, v, {"view"}) /\ v.view = [s.view EXCEPT !["SPEC"] = s.view["MAG"]]
  BY <1>1, FieldNames DEF Only, Typed
<1>4. v.view \in Types.view /\ v.view["TRACE"] = s.view["TRACE"]
  BY <1>1, <1>3, FieldTypes DEF Types, Kinds
<1> HIDE DEF v
<1>5. \A x \in {"view"} : v[x] \in Types[x]
  BY <1>4
<1>6. Quiet(s, v) /\ Keeps(s, v)
  <2>1. Quiet(s, v)
    BY <1>1, <1>3, <1>5, QuietStep DEF SceneFields
  <2>2. Keeps(s, v)
    BY <1>3, <1>4, KeepsFields
  <2>3. QED
    BY <2>1, <2>2
<1>7. Traced(v) /\ Same(s, v) /\ Typed(v)
  BY <1>6, QuietTraced
<1>8. S \cap TraceSlots = {}
  BY TraceSlotFacts
<1> HIDE DEF S
<1>9. Traced(t) /\ Same(v, t)
  BY <1>7, <1>8, AgeType, AgeKeeps, QuietTraced
<1> HIDE DEF t
<1>10. QED
  BY <1>2, <1>7, <1>9, ReMagTraced, SameTrans

-----------------------------------------------------------------------------
(* The trace page: the selection, and tracePixmap.                         *)

\* What selecting changes and what it does not.
LEMMA SelectionFields ==
    ASSUME NEW s, Typed(s), NEW b \in BOOLEAN
    PROVE  LET t == makeSelectionList(s, b) IN
           /\ Only(s, t, {"pm", "fft", "sel", "reset", "user", "vline", "dirty", "selChanged"})
           /\ t.sel = b /\ t.reset = s.reset \cup {"MAG", "SPEC"}
           /\ \A i \in MainSlots("TRACE") : t.pm[i] = s.pm[i]
<1> DEFINE S == Slots \ MainSlots("TRACE")
           q1 == Age(s, S)
           q == AgeFFT(q1)
           t == makeSelectionList(s, b)
           F == {"pm", "fft", "sel", "reset", "user", "vline", "dirty", "selChanged"}
<1>1. /\ Only(s, q1, {"pm"}) /\ Typed(q1) /\ \A i \in MainSlots("TRACE") : q1.pm[i] = s.pm[i]
  <2>1. q1.pm = [i \in Slots |-> IF i \in S /\ s.pm[i] \in Windows \cup {"ok"} THEN "old" ELSE s.pm[i]]
    BY FieldNames DEF Typed, Age
  <2>2. Only(s, q1, {"pm"}) /\ Typed(q1)
    BY AgeType DEF Quiet
  <2> HIDE DEF q1
  <2>3. MainSlots("TRACE") \subseteq Slots
    BY SlotFacts DEF Kinds
  <2>4. QED
    BY <2>1, <2>2, <2>3
<1>2. t = [q EXCEPT !.sel = b, !.reset = @ \cup {"MAG", "SPEC"},
        !.user = NoWin, !.vline = 0, !.dirty = FALSE, !.selChanged = TRUE]
  BY DEF makeSelectionList
<1> HIDE DEF q1
<1>3. Only(q1, q, {"fft"}) /\ Typed(q)
  BY <1>1, AgeFFTType DEF Quiet
<1> HIDE DEF q
<1>4. Only(q, t, {"sel", "reset", "user", "vline", "dirty", "selChanged"}) /\ t.sel = b
      /\ t.reset = q.reset \cup {"MAG", "SPEC"}
  <2> HIDE DEF t
  <2> QED  BY <1>2, <1>3, FieldNames DEF Only, Typed
<1> HIDE DEF t
<1>5. q.reset = s.reset /\ t.pm = q1.pm
  BY <1>1, <1>3, <1>4, FieldNames DEF Only
<1>6. Only(s, t, F)
  BY <1>1, <1>3, <1>4 DEF Only
<1>7. QED
  BY <1>1, <1>4, <1>5, <1>6 DEF t

LEMMA DeselectFields ==
    ASSUME NEW s, Typed(s)
    PROVE  LET t == Deselect(s) IN
           /\ Only(s, t, {"pm", "fft", "sel", "reset", "user", "vline", "dirty", "selChanged",
                          "resetAll", "pix", "half", "refreshH"})
           /\ t.sel = FALSE /\ t.reset = s.reset \cup {"MAG", "SPEC"} /\ t.resetAll
           /\ t.refreshH = TwoPanes(Kinds)
           /\ \A i \in MainSlots("TRACE") : t.pm[i] = s.pm[i]
<1> DEFINE q == makeSelectionList(s, FALSE)
           t == Deselect(s)
           F == {"pm", "fft", "sel", "reset", "user", "vline", "dirty", "selChanged",
                 "resetAll", "pix", "half", "refreshH"}
<1>1. /\ Only(s, q, {"pm", "fft", "sel", "reset", "user", "vline", "dirty", "selChanged"})
      /\ q.sel = FALSE /\ q.reset = s.reset \cup {"MAG", "SPEC"}
      /\ \A i \in MainSlots("TRACE") : q.pm[i] = s.pm[i]
  BY SelectionFields
<1>2. t = [q EXCEPT !.resetAll = TRUE, !.pix = [x \in Screens |-> NoWin], !.half = {},
             !.refreshH = TwoPanes(Kinds)]
  BY DEF Deselect
<1>3. DOMAIN q = Fields
  BY <1>1 DEF Only
<1> HIDE DEF q
<1>4. /\ Only(q, t, {"resetAll", "pix", "half", "refreshH"}) /\ t.resetAll /\ t.refreshH = TwoPanes(Kinds)
      /\ t.sel = q.sel /\ t.reset = q.reset /\ t.pm = q.pm
  <2> HIDE DEF t
  <2> QED  BY <1>2, <1>3, FieldNames DEF Only
<1> HIDE DEF t
<1>5. Only(s, t, F)
  BY <1>1, <1>4 DEF Only
<1>6. QED
  BY <1>1, <1>4, <1>5 DEF t

LEMMA RestartFields ==
    ASSUME NEW s, Typed(s)
    PROVE  LET t == Restart(s) IN
           /\ "TRACE" \in t.refresh /\ t.refreshH = TwoPanes(Kinds) /\ t.drawn = s.drawn
           /\ t.view = s.view /\ t.old = s.old /\ t.busy = s.busy
<1> DEFINE q == Deselect(s)
           t == Restart(s)
<1>1. DOMAIN q = Fields /\ q.refreshH = TwoPanes(Kinds) /\ q.drawn = s.drawn
      /\ q.view = s.view /\ q.old = s.old /\ q.busy = s.busy
  <2>1. Only(s, q, {"pm", "fft", "sel", "reset", "user", "vline", "dirty", "selChanged",
                    "resetAll", "pix", "half", "refreshH"}) /\ q.refreshH = TwoPanes(Kinds)
    BY DeselectFields
  <2> HIDE DEF q
  <2>2. QED
    BY <2>1, FieldNames DEF Only
<1>2. t = [q EXCEPT !.tf = "off", !.gr = {}, !.reset = @ \cup {"MAG", "SPEC"},
                    !.refresh = @ \cup {"TRACE"}, !.lost = {}]
  BY DEF Restart
<1> HIDE DEF q, t
<1>3. QED
  BY <1>1, <1>2, FieldNames DEF t

\* The plot of the traces, up to what it shows.
LEMMA PlotSeen ==
    ASSUME NEW s, Typed(s), s.drawn = {}, ~s.busy,
           \A v \in Views : s.pm[<<"TRACE", v>>] \in {"none", "ok"} \/ "TRACE" \in s.reset \cup s.refresh \/ "atEnd" \in s.lost,
           PaneCache(s) \/ s.old["TRACE"] # <<"TRACE", s.view["TRACE"]>> \/ "TRACE" \in s.reset \cup s.refresh
    PROVE  TraceOk(tracePixmapPlot(s))
<1> DEFINE s1 == IF "TRACE" \in s.reset THEN Restart(s) ELSE s
           s2 == IF "TRACE" \in s1.refresh THEN Unref(s1, Slots) ELSE s1
           slot == Key("TRACE", s.view["TRACE"], s.tf)
           new == slot # s.old["TRACE"]
           r3 == [s2 EXCEPT !.selChanged = FALSE, !.pm[slot] = IF @ = "none" THEN @ ELSE "ok"]
           s3 == IF new /\ s2.selChanged THEN r3 ELSE s2
           s4 == IF s3.pm[slot] = "none" THEN plot_files(s3, slot) ELSE s3
           r5 == [s4 EXCEPT !.refreshH = @ \cup TwoPanes({"TRACE"}),
                            !.reset = @ \cup {"MAG"}, !.old["TRACE"] = slot]
           s5 == IF new THEN r5 ELSE s4
           s6 == Show(s5, Area("TRACE"), slot)
           t == [s6 EXCEPT !.reset = @ \ {"TRACE"}, !.refresh = @ \ {"TRACE"}]
           G == {"selChanged", "pm", "gr", "lost", "pix"}
<1>1. tracePixmapPlot(s) = t
  BY DEF tracePixmapPlot
<1>2. /\ slot \in MainSlots("TRACE") /\ slot \in Slots /\ slot = <<"TRACE", s.view["TRACE"]>> /\ s.view["TRACE"] \in Views
      /\ \A p \in Panes : <<p, "TRACE">> # slot
  <2>1. slot \in MainSlots("TRACE") /\ slot \in Slots /\ s.view["TRACE"] \in Views
    BY SlotTypes, FieldTypes DEF Kinds
  <2>2. slot = <<"TRACE", s.view["TRACE"]>>
    BY DEF Key
  <2>3. QED
    BY <2>1, <2>2 DEF Panes
<1> HIDE DEF slot
<1>3. /\ Typed(s1) /\ s1.drawn = {} /\ s1.view = s.view /\ s1.old = s.old /\ ~s1.busy
      /\ "TRACE" \in s.reset => "TRACE" \in s1.refresh
  BY RestartType, RestartFields DEF Quiet
<1>4. /\ Typed(s2) /\ s2.drawn = {} /\ s2.view = s.view /\ s2.old = s.old /\ ~s2.busy
      /\ "TRACE" \in s.reset \cup s.refresh => \A i \in Slots : s2.pm[i] = "none"
      /\ "TRACE" \notin s.reset \cup s.refresh => s2 = s
  <2> DEFINE u == Unref(s1, Slots)
  <2>1. Typed(u) /\ Only(s1, u, {"pm", "dead"}) /\ \A i \in Slots : u.pm[i] = "none"
    BY <1>3, UnrefType
  <2> HIDE DEF u
  <2>2. u.drawn = {} /\ u.view = s.view /\ u.old = s.old /\ ~u.busy
    BY <1>3, <2>1, FieldNames DEF Only
  <2>3. s2 = IF "TRACE" \in s1.refresh THEN u ELSE s1
    BY DEF u
  <2>4. "TRACE" \in s.reset \cup s.refresh => "TRACE" \in s1.refresh
    BY <1>3
  <2>5. "TRACE" \notin s.reset \cup s.refresh => s1 = s /\ "TRACE" \notin s1.refresh
    OBVIOUS
  <2> HIDE DEF s2, s1
  <2>6. QED
    BY <1>3, <2>1, <2>2, <2>3, <2>4, <2>5
<1> HIDE DEF s1
<1>5. /\ \A v \in Views : s2.pm[<<"TRACE", v>>] \in {"none", "ok"} \/ "atEnd" \in s2.lost
      /\ new \/ PaneCache(s2)
  <2>1. \A v \in Views : <<"TRACE", v>> \in Slots
    BY TraceSlotFacts DEF OnOff
  <2>2. \A p \in Panes : <<p, "TRACE">> \in Slots
    BY TraceSlotFacts
  <2>3. CASE "TRACE" \in s.reset \cup s.refresh
    BY <1>4, <2>1, <2>2, <2>3 DEF PaneCache
  <2>4. CASE "TRACE" \notin s.reset \cup s.refresh
    BY <1>2, <1>4, <2>4
  <2>5. QED
    BY <2>3, <2>4
<1> HIDE DEF s2
<1>6. /\ Typed(s3) /\ Only(s2, s3, G) /\ s3.lost = s2.lost
      /\ \A i \in Slots \ {slot} : s3.pm[i] = s2.pm[i]
      /\ s3.pm[slot] \in {s2.pm[slot], "ok"}
  <2> DEFINE P == [s2.pm EXCEPT ![slot] = IF @ = "none" THEN @ ELSE "ok"]
  <2>1. Only(s2, r3, {"selChanged", "pm"}) /\ r3.selChanged = FALSE /\ r3.pm = P
    BY <1>4, FieldNames DEF Only, Typed
  <2>2. FALSE \in Types.selChanged /\ P \in Types.pm
    BY <1>2, <1>4, FieldTypes DEF Types, Contents
  <2>3. P[slot] \in {s2.pm[slot], "ok"} /\ \A i \in Slots \ {slot} : P[i] = s2.pm[i]
    BY <1>2, <1>4, FieldTypes
  <2> HIDE DEF r3, P
  <2>4. \A x \in {"selChanged", "pm"} : r3[x] \in Types[x]
    BY <2>1, <2>2
  <2>5. Typed(r3)
    BY <1>4, <2>1, <2>4, Retyped
  <2>6. Only(s2, r3, G) /\ Only(s2, s2, G) /\ r3.lost = s2.lost
    BY <1>4, <2>1, FieldNames DEF Only, Typed
  <2>7. QED
    BY <1>4, <2>1, <2>3, <2>5, <2>6
<1> HIDE DEF s3
<1>7. /\ Typed(s4) /\ Only(s2, s4, G) /\ s2.lost \subseteq s4.lost
      /\ \A i \in Slots \ {slot} : s4.pm[i] = s2.pm[i]
      /\ s4.pm[slot] = "ok" \/ "atEnd" \in s4.lost
  <2> DEFINE f == plot_files(s3, slot)
  <2>1. Typed(f)
    BY <1>2, <1>6, PlotFilesType DEF Quiet
  <2>2. Only(s3, f, {"pm", "gr", "lost", "pix"}) /\ f.pm = [s3.pm EXCEPT ![slot] = "ok"] /\ s3.lost \subseteq f.lost
    BY <1>2, <1>6, PlotFilesOnly
  <2> HIDE DEF f
  <2>3. f.pm[slot] = "ok" /\ \A i \in Slots \ {slot} : f.pm[i] = s3.pm[i]
    BY <1>2, <1>6, <2>2, FieldTypes
  <2>4. Only(s2, f, G)
    BY <1>6, <2>2 DEF Only
  <2>5. s2.pm[slot] \in {"none", "ok"} \/ "atEnd" \in s2.lost
    BY <1>2, <1>5
  <2>6. CASE s3.pm[slot] = "none"
    BY <1>6, <2>1, <2>2, <2>3, <2>4, <2>6 DEF f
  <2>7. CASE s3.pm[slot] # "none"
    BY <1>6, <2>5, <2>7
  <2>8. QED
    BY <2>6, <2>7
<1> HIDE DEF s4
<1>8. /\ s4.drawn = {} /\ s4.view = s.view /\ s4.old = s.old /\ ~s4.busy /\ s4.sel = s2.sel
      /\ s4.refreshH = s2.refreshH /\ s4.resetAll = s2.resetAll
  BY <1>4, <1>7, FieldNames DEF Only
<1>9. /\ Typed(s5) /\ s5.drawn = {} /\ s5.view = s.view /\ s5.old["TRACE"] = slot /\ ~s5.busy
      /\ s5.pm = s4.pm /\ s5.lost = s4.lost /\ PaneCache(s5)
  <2>1. PaneCache(s2) => PaneCache(s4)
    <3>1. \A p \in Panes : <<p, "TRACE">> \in Slots \ {slot}
      BY <1>2, TraceSlotFacts
    <3>2. QED
      BY <1>7, <1>8, <3>1 DEF PaneCache
  <2>2. CASE ~new
    BY <1>5, <1>7, <1>8, <2>1, <2>2
  <2>3. CASE new
    <3>1. /\ Only(s4, r5, {"refreshH", "reset", "old"}) /\ r5.refreshH = s4.refreshH \cup TwoPanes({"TRACE"})
          /\ r5.reset = s4.reset \cup {"MAG"} /\ r5.old = [s4.old EXCEPT !["TRACE"] = slot]
      BY <1>7, FieldNames DEF Only, Typed
    <3>2. /\ s4.refreshH \cup TwoPanes({"TRACE"}) \in Types.refreshH /\ s4.reset \cup {"MAG"} \in Types.reset
          /\ [s4.old EXCEPT !["TRACE"] = slot] \in Types.old /\ r5.old["TRACE"] = slot
      BY <1>2, <1>7, <3>1, FieldTypes DEF Types, TwoPanes, Kinds
    <3> HIDE DEF r5
    <3>3. \A x \in {"refreshH", "reset", "old"} : r5[x] \in Types[x]
      BY <3>1, <3>2
    <3>4. Typed(r5)
      BY <1>7, <3>1, <3>3, Retyped
    <3>5. r5.drawn = {} /\ r5.view = s.view /\ ~r5.busy /\ r5.pm = s4.pm /\ r5.lost = s4.lost
      BY <1>8, <3>1, FieldNames DEF Only
    <3>6. PaneCache(r5)
      BY <3>1, TraceSlotFacts DEF PaneCache
    <3>7. QED
      BY <2>3, <3>2, <3>4, <3>5, <3>6
  <2>4. QED
    BY <2>2, <2>3
<1> HIDE DEF s5, new
<1>10. /\ Typed(s6) /\ Only(s5, s6, {"shown", "dead", "left", "drawn"})
       /\ s6.shown[Area("TRACE")] = slot /\ s6.drawn = {Area("TRACE")}
  <2>1. Area("TRACE") \in Areas
    BY AreaFacts DEF Kinds
  <2>2. s6.drawn = {Area("TRACE")}
    BY <1>9, FieldNames DEF Show, Typed
  <2>3. /\ Typed(s6) /\ Only(s5, s6, {"shown", "dead", "left", "drawn"})
        /\ s6.shown = [s5.shown EXCEPT ![Area("TRACE")] = slot]
    BY <1>2, <1>9, <2>1, ShowType
  <2>4. s5.shown \in [Areas -> Slots \cup {<<>>}]
    BY <1>9, FieldTypes
  <2>5. QED
    BY <2>1, <2>2, <2>3, <2>4
<1> HIDE DEF s6
<1>11. Only(s6, t, {"reset", "refresh"})
  BY <1>10, FieldNames DEF Only, Typed
<1> HIDE DEF t
<1>12. /\ t.shown = s6.shown /\ t.drawn = {Area("TRACE")} /\ t.view = s.view /\ t.old["TRACE"] = slot
       /\ ~t.busy /\ t.pm = s4.pm /\ t.lost = s4.lost /\ t.sel = s5.sel /\ t.refreshH = s5.refreshH
       /\ t.resetAll = s5.resetAll
  BY <1>9, <1>10, <1>11, FieldNames DEF Only
<1>13. PageCache(t)
  <2>1. \A v \in Views : <<"TRACE", v>> \in Slots
    BY TraceSlotFacts DEF OnOff
  <2>2. QED
    BY <1>2, <1>5, <1>7, <1>12, <2>1 DEF PageCache
<1>14. PaneCache(t)
  BY <1>9, <1>12 DEF PaneCache
<1>15. Seen(t)
  BY <1>2, <1>7, <1>10, <1>12 DEF Seen, Spared, Due, TraceSlots
<1>16. QED
  BY <1>1, <1>13, <1>14, <1>15 DEF TraceOk

\* While traces are read every pixmap went, and the page is the message.
LEMMA BusySeen ==
    ASSUME NEW s, Typed(s), s.drawn = {}, s.busy
    PROVE  TraceOk(tracePixmapBusy(s))
<1> DEFINE u == Unref(s, Slots)
           i == None("TRACE")
           d == Draw(u, i, "msg")
           q == Show(d, Area("TRACE"), i)
           t == [q EXCEPT !.reset = @ \cup {"TRACE"}]
<1>1. t = tracePixmapBusy(s)
  BY DEF tracePixmapBusy
<1>2. i \in MainSlots("TRACE") /\ i \in Slots /\ Area("TRACE") \in Areas
  BY SlotFacts, AreaFacts DEF Kinds
<1>3. Typed(u) /\ Only(s, u, {"pm", "dead"}) /\ \A j \in Slots : u.pm[j] = "none"
  BY UnrefType
<1> HIDE DEF i, u
<1>4. Typed(d) /\ Only(u, d, {"pm"}) /\ d.pm = [u.pm EXCEPT ![i] = "msg"]
  BY <1>2, <1>3, DrawType, FieldNames DEF Contents, Quiet, Only, Typed, Draw
<1>5. d.pm[i] = "msg" /\ \A j \in Slots \ {i} : d.pm[j] = "none"
  BY <1>2, <1>3, <1>4, FieldTypes
<1> HIDE DEF d
<1>6. d.drawn = {} /\ d.busy
  BY <1>3, <1>4, FieldNames DEF Only
<1>7. Typed(q) /\ Only(d, q, {"shown", "dead", "left", "drawn"}) /\ q.shown[Area("TRACE")] = i
      /\ q.drawn = {Area("TRACE")}
  <2>1. q.drawn = {Area("TRACE")}
    BY <1>4, <1>6, FieldNames DEF Show, Typed
  <2>2. /\ Typed(q) /\ Only(d, q, {"shown", "dead", "left", "drawn"})
        /\ q.shown = [d.shown EXCEPT ![Area("TRACE")] = i]
    BY <1>2, <1>4, ShowType
  <2>3. d.shown \in [Areas -> Slots \cup {<<>>}]
    BY <1>4, FieldTypes
  <2>4. QED
    BY <1>2, <2>1, <2>2, <2>3
<1> HIDE DEF q
<1>8. Only(q, t, {"reset"}) /\ "TRACE" \in t.reset
  BY <1>7, FieldNames DEF Only, Typed
<1> HIDE DEF t
<1>9. t.pm = d.pm /\ t.busy /\ t.drawn = {Area("TRACE")} /\ t.shown = q.shown
  BY <1>6, <1>7, <1>8, FieldNames DEF Only
<1>10. PageCache(t)
  BY <1>8 DEF PageCache
<1>11. PaneCache(t)
  <2>1. \A p \in Panes : <<p, "TRACE">> \in TwoPanes(Kinds) /\ <<p, "TRACE">> \in Slots
    BY SlotFacts DEF TwoPanes, Kinds
  <2>2. \A p \in Panes : <<p, "TRACE">> # i
    BY <1>2, <2>1, TraceSlotFacts
  <2>3. ASSUME NEW p \in Panes  PROVE  t.pm[<<p, "TRACE">>] = "none"
    BY <1>5, <1>9, <2>1, <2>2
  <2>4. QED
    BY <2>3 DEF PaneCache
<1>12. Seen(t)
  BY <1>2, <1>5, <1>7, <1>9 DEF Seen, Due, TraceSlots
<1>13. QED
  BY <1>1, <1>10, <1>11, <1>12 DEF TraceOk

LEMMA TraceTraced ==
    ASSUME NEW s, Part(s, {}), s.drawn = {},
           \A v \in Views : s.pm[<<"TRACE", v>>] \in {"none", "ok"} \/ "TRACE" \in s.reset \cup s.refresh \/ "atEnd" \in s.lost \/ s.busy,
           PaneCache(s) \/ s.old["TRACE"] # <<"TRACE", s.view["TRACE"]>> \/ "TRACE" \in s.reset \cup s.refresh \/ s.busy
    PROVE  Traced(tracePixmap(s)) /\ Same(s, tracePixmap(s))
<1> DEFINE r1 == [s EXCEPT !.left = Visible(s)]
           r == IF s.page = "T" THEN s ELSE r1
<1>1. Typed(s)
  BY DEF Part
<1>2. Typed(r) /\ Only(s, r, {"left"})
  <2>1. Only(s, r1, {"left"}) /\ r1.left = Visible(s)
    BY <1>1, FieldNames DEF Only, Typed
  <2>2. r1.left \in Types.left
    BY <2>1 DEF Types, Visible
  <2> HIDE DEF r1
  <2>3. \A x \in {"left"} : r1[x] \in Types[x]
    BY <2>2
  <2>4. Only(s, s, {"left"})
    BY <1>1 DEF Only, Typed
  <2>5. QED
    BY <1>1, <2>1, <2>3, <2>4, Retyped
<1>3. tracePixmap(s) = IF s.busy THEN tracePixmapBusy(r) ELSE tracePixmapPlot(r)
  BY DEF tracePixmap
<1> HIDE DEF r
<1>4. /\ r.drawn = {} /\ r.busy = s.busy /\ r.pm = s.pm /\ r.reset = s.reset /\ r.refresh = s.refresh
      /\ r.lost = s.lost /\ r.old = s.old /\ r.view = s.view /\ r.sel = s.sel /\ r.refreshH = s.refreshH
      /\ r.resetAll = s.resetAll
  BY <1>2, FieldNames DEF Only
<1>5. PaneCache(s) => PaneCache(r)
  BY <1>4 DEF PaneCache
<1>6. TraceOk(tracePixmap(s))
  <2>1. CASE s.busy
    BY <1>2, <1>3, <1>4, <2>1, BusySeen
  <2>2. CASE ~s.busy
    BY <1>2, <1>3, <1>4, <1>5, <2>2, PlotSeen
  <2>3. QED
    BY <2>1, <2>2
<1>7. Drew(s, tracePixmap(s), {}, Area("TRACE"))
  BY TracePixmap
<1>8. QED
  BY <1>6, <1>7, PartNone DEF Drew, Traced

-----------------------------------------------------------------------------
(* Handlers that draw.                                                     *)

LEMMA TracedType ==
    ASSUME NEW s, Traced(s)
    PROVE  Typed(s) /\ TraceOk(s) /\ Part(s, {})
BY DEF Traced, Part

\* With nothing drawn, the trace page is drawn from any state in order.
LEMMA TracePlain ==
    ASSUME NEW s, Traced(s), s.drawn = {}
    PROVE  Traced(tracePixmap(s)) /\ Same(s, tracePixmap(s))
BY TraceTraced DEF Traced, TraceOk, PageCache

LEMMA MakeTraced ==
    ASSUME NEW s, Traced(s), s.drawn = {}, NEW a \in Areas
    PROVE  Traced(makePixmap(s, a)) /\ Same(s, makePixmap(s, a))
<1>1. CASE a \in MainAreas
  <2>1. a = Area("TRACE") \/ a = Area("MAG") \/ a = Area("SPEC")
    BY <1>1 DEF MainAreas, Kinds
  <2>2. Area("TRACE") # Area("MAG") /\ Area("TRACE") # Area("SPEC") /\ Area("MAG") # Area("SPEC")
    BY DEF Area
  <2>3. /\ makePixmap(s, Area("TRACE")) = tracePixmap(s)
        /\ makePixmap(s, Area("MAG")) = magPixmap(s)
        /\ makePixmap(s, Area("SPEC")) = specPixmap(s)
    BY <2>2 DEF makePixmap
  <2>4. QED
    BY <2>1, <2>3, TracePlain, MagTraced, SpecTraced
<1>2. CASE a \notin MainAreas
  <2>1. PICK p \in Panes : a \in PaneAreas(p) /\ a[1] = p /\ a[1] # "MAIN"
    BY <1>2, PaneFacts
  <2>2. a[2] \in {"TOP", "MID", "BOT"}
    BY <2>1 DEF PaneAreas, Places
  <2>3. a # Area("TRACE") /\ a # Area("MAG") /\ a # Area("SPEC")
    BY <1>2 DEF MainAreas, Kinds
  <2>4. CASE s.lay[s.panes][a[2]] = "NONE"
    BY <2>3, <2>4, CrashTraced DEF makePixmap
  <2>5. CASE s.lay[s.panes][a[2]] # "NONE"
    <3>1. s.lay[s.panes][a[2]] \in Kinds
      BY <2>2, <2>5, TracedType, LayFacts
    <3>2. makePixmap(s, a) = Show(splitPixmap(s, a[2]), a, <<s.panes, s.lay[s.panes][a[2]]>>)
      BY <2>3, <2>5 DEF makePixmap
    <3>3. QED
      BY <2>1, <3>1, <3>2, ShowPane
  <2>6. QED
    BY <2>4, <2>5
<1>3. QED
  BY <1>1, <1>2

\* Before anything is drawn: other flags, another page or layout, and caches
\* that are told of a change.
LEMMA Recached ==
    ASSUME NEW s, Traced(s), s.drawn = {}, NEW t, Part(t, {}), t.drawn = {},
           t.view["TRACE"] = s.view["TRACE"], t.old["TRACE"] = s.old["TRACE"],
           s.reset \subseteq t.reset, s.refresh \subseteq t.refresh, s.lost \subseteq t.lost,
           \/ \A v \in Views : t.pm[<<"TRACE", v>>] = s.pm[<<"TRACE", v>>]
           \/ "TRACE" \in t.reset \cup t.refresh \/ "atEnd" \in t.lost,
           \/ /\ t.sel = s.sel /\ (s.resetAll => t.resetAll) /\ s.refreshH \subseteq t.refreshH
              /\ \A p \in Panes : t.pm[<<p, "TRACE">>] = s.pm[<<p, "TRACE">>]
           \/ t.resetAll \/ TwoPanes({"TRACE"}) \subseteq t.refreshH \/ "gain" \in t.lost
    PROVE  Traced(t)
<1>1. PageCache(s) /\ PaneCache(s)
  BY DEF Traced, TraceOk
<1>2. PageCache(t)
  BY <1>1 DEF PageCache
<1>3. PaneCache(t)
  BY <1>1, TraceSlotFacts DEF PaneCache
<1>4. Seen(t)
  BY DEF Seen
<1>5. QED
  BY <1>2, <1>3, <1>4 DEF Traced, TraceOk

LEMMA Relayed ==
    ASSUME NEW s, Traced(s), s.drawn = {}, NEW t, Part(t, {}),
           Only(s, t, {"page", "panes", "lay", "lost", "refreshH", "screen", "busy", "resize"}),
           s.lost \subseteq t.lost, s.refreshH \subseteq t.refreshH
    PROVE  Traced(t) /\ t.drawn = {}
<1>1. /\ t.drawn = s.drawn /\ t.view = s.view /\ t.old = s.old /\ t.reset = s.reset /\ t.refresh = s.refresh
      /\ t.sel = s.sel /\ t.resetAll = s.resetAll /\ t.pm = s.pm
  BY FieldNames DEF Only
<1>2. QED
  BY <1>1, Recached

\* The panes of the split page are chosen anew, and drawn.
LEMMA SetPanesTraced ==
    ASSUME NEW s, Good(s), Traced(s), s.drawn = {}, NEW p \in Panes
    PROVE  TraceOk(setPanes(s, p))
<1> DEFINE s1 == [s EXCEPT !.panes = p]
           Set(x, q) == IF s.lay[s.panes][q] # s.lay[p][q] THEN comboChanged(x) ELSE x
<1>1. Typed(s)
  BY TracedType
<1>2. ASSUME NEW x, Traced(x), NEW q
      PROVE  Traced(Set(x, q)) /\ Same(x, Set(x, q))
  BY <1>2, ComboTraced DEF Same
<1>3. ASSUME NEW x, Traced(x)
      PROVE  Traced(Set(Set(x, "TOP"), "BOT")) /\ Same(x, Set(Set(x, "TOP"), "BOT"))
  <2> DEFINE y == Set(x, "TOP")
  <2>1. Traced(y) /\ Same(x, y)
    BY <1>2, <1>3
  <2> HIDE DEF y
  <2>2. Traced(Set(y, "BOT")) /\ Same(y, Set(y, "BOT"))
    BY <1>2, <2>1
  <2> HIDE DEF Set
  <2>3. QED
    BY <2>1, <2>2, SameTrans DEF y
<1>4. CASE p = "SPLIT2"
  <2> DEFINE r == [s1 EXCEPT !.screen = p]
             u == makePixmap2M(r)
             v == Set(Set(u, "TOP"), "BOT")
             w == splitArea(v, "TOP")
             t == splitArea(w, "BOT")
  <2>1. setPanes(s, p) = t
    BY <1>4 DEF setPanes
  <2>2. Only(s, r, {"panes", "screen"}) /\ r.panes = p /\ r.screen = p
    BY <1>1, FieldNames DEF Only, Typed
  <2> HIDE DEF r
  <2>3. \A x \in {"panes", "screen"} : r[x] \in Types[x]
    BY <2>2 DEF Types, Screens
  <2>4. Typed(r) /\ r.shown = s.shown /\ r.lost = s.lost /\ r.refreshH = s.refreshH
    <3>1. Typed(r)
      BY <1>1, <2>2, <2>3, Retyped
    <3>2. QED
      BY <2>2, <3>1, FieldNames DEF Only
  <2>5. Part(r, {})
    BY <2>4 DEF Good, Part, Own
  <2>6. Traced(r)
    <3>1. Only(s, r, {"page", "panes", "lay", "lost", "refreshH", "screen", "busy", "resize"})
      BY <2>2 DEF Only
    <3>2. QED
      BY <2>4, <2>5, <3>1, Relayed
  <2>7. Traced(u) /\ Same(r, u)
    BY <2>6, InvisibleTraced
  <2> HIDE DEF u
  <2>8. Traced(v) /\ Same(u, v)
    BY <1>3, <2>7
  <2> HIDE DEF v
  <2>9. "TOP" \in Places(v.panes) /\ "BOT" \in Places(v.panes)
    BY <1>4, <2>2, <2>7, <2>8 DEF Places, Same
  <2>10. Traced(w) /\ Same(v, w)
    BY <2>8, <2>9, SplitAreaTraced
  <2> HIDE DEF w
  <2>11. Traced(t)
    BY <2>9, <2>10, SplitAreaTraced DEF Same
  <2>12. QED
    BY <2>1, <2>11 DEF Traced
<1>5. CASE p = "SPLIT3"
  <2> DEFINE u == Set(Set(s1, "TOP"), "BOT")
             v == [u EXCEPT !.screen = p, !.lost = IF u = s1 THEN @ ELSE @ \cup {"order"}]
  <2>1. setPanes(s, p) = drawPanes(v)
    <3>1. p # "SPLIT2"
      BY <1>5
    <3>2. QED
      BY <3>1 DEF setPanes
  <2>2. Only(s, s1, {"panes"}) /\ s1.panes = p
    BY <1>1, FieldNames DEF Only, Typed
  <2> HIDE DEF s1
  <2>3. \A x \in {"panes"} : s1[x] \in Types[x]
    BY <2>2 DEF Types
  <2>4. Typed(s1) /\ s1.shown = s.shown /\ s1.lost = s.lost /\ s1.refreshH = s.refreshH
    <3>1. Typed(s1)
      BY <1>1, <2>2, <2>3, Retyped
    <3>2. QED
      BY <2>2, <3>1, FieldNames DEF Only
  <2>5. Part(s1, {})
    BY <2>4 DEF Good, Part, Own
  <2>6. Traced(s1)
    <3>1. Only(s, s1, {"page", "panes", "lay", "lost", "refreshH", "screen", "busy", "resize"})
      BY <2>2 DEF Only
    <3>2. QED
      BY <2>4, <2>5, <3>1, Relayed
  <2>7. Traced(u) /\ Typed(u)
    BY <1>3, <2>6, TracedType
  <2> HIDE DEF u
  <2>8. Only(u, v, {"screen", "lost"}) /\ v.screen = p /\ v.lost \in {u.lost, u.lost \cup {"order"}}
    BY <2>7, FieldNames DEF Only, Typed
  <2> HIDE DEF v
  <2>9. \A x \in {"screen", "lost"} : v[x] \in Types[x]
    BY <2>7, <2>8, FieldTypes DEF Types, Screens, Exempt
  <2>10. Quiet(u, v)
    BY <2>7, <2>8, <2>9, QuietStep DEF SceneFields
  <2>11. Keeps(u, v)
    BY <2>8, KeepsFields
  <2>12. Traced(drawPanes(v))
    BY <2>7, <2>10, <2>11, QuietTraced, PanesTraced
  <2>13. QED
    BY <2>1, <2>12 DEF Traced
<1>6. QED
  BY <1>4, <1>5 DEF Panes

LEMMA RedrawTraced ==
    ASSUME NEW s, Traced(s), NEW p, NEW a \in Areas,
           s.drawn = {} \/ a = Area("MAG") \/ a = Area("SPEC")
    PROVE  Traced(redrawPage(s, p, a))
<1>1. CASE p \in {"M", "S"}
  <2>1. Area("TRACE") # Area("MAG") /\ Area("TRACE") # Area("SPEC") /\ Area("MAG") # Area("SPEC")
    BY DEF Area
  <2>2. /\ makePixmap(s, Area("MAG")) = magPixmap(s)
        /\ makePixmap(s, Area("SPEC")) = specPixmap(s)
    BY <2>1 DEF makePixmap
  <2>3. redrawPage(s, p, a) = makePixmap(s, a)
    BY <1>1 DEF redrawPage
  <2>4. QED
    BY <2>2, <2>3, MakeTraced, MagTraced, SpecTraced
<1>2. CASE p = "H"
  <2> DEFINE u == drawPanes(s)
             t == [u EXCEPT !.refreshH = @ \cup (Panes \ {s.screen}) \X Kinds]
  <2>1. redrawPage(s, p, a) = t
    BY <1>2 DEF redrawPage
  <2>2. Traced(u) /\ Typed(u)
    BY PanesTraced, TracedType
  <2> HIDE DEF u
  <2>3. Only(u, t, {"refreshH"}) /\ t.refreshH = u.refreshH \cup (Panes \ {s.screen}) \X Kinds
    BY <2>2, FieldNames DEF Only, Typed
  <2>4. t.refreshH \in Types.refreshH
    BY <2>2, <2>3, FieldTypes DEF Types, TwoPanes
  <2> HIDE DEF t
  <2>5. Quiet(u, t)
    <3>1. \A x \in {"refreshH"} : t[x] \in Types[x]
      BY <2>4
    <3>2. QED
      BY <2>2, <2>3, <3>1, QuietStep DEF SceneFields
  <2>6. Keeps(u, t)
    BY <2>3, KeepsFields
  <2>7. QED
    BY <2>1, <2>2, <2>5, <2>6, QuietTraced
<1>3. CASE p \notin {"M", "S", "H"}
  BY <1>3 DEF redrawPage
<1>4. QED
  BY <1>1, <1>2, <1>3

LEMMA TfKeeps ==
    ASSUME NEW s, Typed(s), NEW t \in OnOff, NEW S, S \cap TraceSlots = {}
    PROVE  Keeps(s, AgeFFT(Age([s EXCEPT !.tf = t], S)))
<1> DEFINE u == [s EXCEPT !.tf = t]
           v == Age(u, S)
<1>1. Typed(u)
  BY TfType DEF Quiet
<1>2. Only(s, u, {"tf"})
  BY FieldNames DEF Only, Typed
<1> HIDE DEF u
<1>3. Keeps(s, u)
  BY <1>2, KeepsFields
<1>4. Keeps(u, v) /\ Typed(v)
  BY <1>1, AgeKeeps, AgeType DEF Quiet
<1> HIDE DEF v
<1>5. Keeps(v, AgeFFT(v))
  BY <1>4, AgeFFTKeeps
<1>6. QED
  BY <1>3, <1>4, <1>5, KeepsTrans DEF u, v

LEMMA TransformedKeeps ==
    ASSUME NEW s, Typed(s), NEW t \in OnOff
    PROVE  Keeps(s, Transformed(s, t))
<1> DEFINE S == TwoPanes({"MAG", "SPEC"}) \cup {Key(k, v, "on") : k \in {"MAG", "SPEC"}, v \in Views}
<1>1. \A k \in {"MAG", "SPEC"}, v \in Views : Key(k, v, "on") \notin TraceSlots
  <2>1. \A k \in {"MAG", "SPEC"}, v \in Views : k \in Kinds /\ Key(k, v, "on") \in MainSlots(k)
    BY SlotFacts DEF Kinds, OnOff
  <2>2. QED
    BY <2>1, TraceSlotFacts
<1>2. S \cap TraceSlots = {}
  BY <1>1, TraceSlotFacts
<1>3. Transformed(s, t) = AgeFFT(Age([s EXCEPT !.tf = t], S))
  BY DEF Transformed
<1> HIDE DEF S
<1>4. QED
  BY <1>2, <1>3, TfKeeps

LEMMA ApplyTraced ==
    ASSUME NEW s, Traced(s), s.drawn = {}
    PROVE  Traced(applyFilter(s))
<1>1. Typed(s) /\ s.tf \in OnOff /\ "off" \in OnOff
  BY TracedType, FieldTypes DEF OnOff
<1>2. ASSUME NEW t \in OnOff
      PROVE  Traced(makeMAGSelectionList(Transformed(s, t)))
  <2> DEFINE u == Transformed(s, t)
  <2>1. Quiet(s, u) /\ Typed(u) /\ Keeps(s, u)
    BY <1>1, TransformedType, TransformedKeeps DEF Quiet
  <2> HIDE DEF u
  <2>2. Quiet(u, makeMAGSelectionList(u)) /\ Keeps(u, makeMAGSelectionList(u))
    BY <2>1, MagSelectionType, MagSelectionKeeps
  <2>3. QED
    BY <2>1, <2>2, QuietTraced DEF u
<1>3. CASE s.tf = "on" /\ ~s.sel
  BY <1>1, <1>2, <1>3 DEF applyFilter
<1>4. CASE ~(s.tf = "on" /\ ~s.sel)
  <2>1. applyFilter(s) = redrawPage(makeMAGSelectionList(Transformed(s, s.tf)), s.page, MainArea(s.page))
    BY <1>4 DEF applyFilter
  <2>2. MainArea(s.page) = Area("MAG") \/ MainArea(s.page) = Area("SPEC")
    BY DEF MainArea
  <2>3. QED
    BY <1>1, <1>2, <2>1, <2>2, RedrawTraced, MainAreaFacts
<1>5. QED
  BY <1>3, <1>4

LEMMA UserKeeps ==
    ASSUME NEW s, Typed(s), NEW w \in Windows \cup {NoWin}
    PROVE  Keeps(s, [s EXCEPT !.user = w]) /\ Keeps(s, [s EXCEPT !.user = w, !.vline = 0])
<1>1. Only(s, [s EXCEPT !.user = w], {"user"}) /\ Only(s, [s EXCEPT !.user = w, !.vline = 0], {"user", "vline"})
  BY FieldNames DEF Only, Typed
<1>2. QED
  BY <1>1, KeepsFields

\* What a handler still has to do.
LEMMA RestTraced ==
    ASSUME NEW s, Good(s), Traced(s), s.drawn = {}, NEW t \in Waiting
    PROVE  TraceOk(Rest(s, t))
<1>1. CASE t[1] = "area"
  <2>1. t[2] \in Areas
    BY <1>1, AreaFacts DEF Waiting
  <2>2. QED
    BY <1>1, <2>1, MakeTraced DEF Rest, Traced
<1>2. CASE t[1] = "panes"
  BY <1>2, PanesTraced DEF Rest, Traced
<1>3. CASE t[1] = "snap"
  <2> DEFINE u == [s EXCEPT !.user = t[2], !.vline = 0]
             p == IF s.screen = "MAIN" THEN "M" ELSE "H"
  <2>1. Rest(s, t) = reMag(u, p)
    BY <1>3 DEF Rest
  <2>2. t[2] \in Windows
    BY <1>3 DEF Waiting
  <2>3. Quiet(s, u) /\ Keeps(s, u)
    BY <2>2, UserType, UserKeeps, TracedType
  <2> HIDE DEF u
  <2>4. Traced(u)
    BY <2>3, QuietTraced
  <2>5. QED
    BY <2>1, <2>4, ReMagTraced DEF Traced
<1>4. CASE t[1] = "split"
  <2>1. Rest(s, t) = setPanes(s, t[2]) /\ t[2] \in Panes
    BY <1>4 DEF Rest, Waiting
  <2>2. QED
    BY <2>1, SetPanesTraced
<1>5. CASE t[1] = "filter"
  BY <1>5, ApplyTraced DEF Rest, Traced
<1>6. QED
  BY <1>1, <1>2, <1>3, <1>4, <1>5 DEF Waiting

-----------------------------------------------------------------------------
(* The invariant of the trace areas, and what every action does to it.     *)

\* The invariant of the trace areas, with that of the scene.
TraceInv == IInv /\ TraceOk(g)

LEMMA StartTraced ==
    ASSUME TraceInv
    PROVE  Traced(s0) /\ Typed(s0) /\ s0.drawn = {} /\ Good(s0) /\ Same(g, s0)
<1>1. Typed(s0) /\ Typed(g) /\ Same(g, s0) /\ Only(g, s0, {"drawn"}) /\ Good(s0)
  BY StartGood DEF TraceInv
<1>2. Part(s0, {})
  BY <1>1 DEF Good, Part
<1>3. s0.drawn = {}
  BY <1>1, FieldNames DEF s0, Typed
<1> HIDE DEF s0
<1>4. /\ s0.view = g.view /\ s0.old = g.old /\ s0.reset = g.reset /\ s0.refresh = g.refresh /\ s0.lost = g.lost
      /\ s0.sel = g.sel /\ s0.resetAll = g.resetAll /\ s0.refreshH = g.refreshH /\ s0.pm = g.pm
  BY <1>1, FieldNames DEF Only
<1>5. PageCache(s0) /\ PaneCache(s0)
  BY <1>4 DEF TraceInv, TraceOk, PageCache, PaneCache
<1>6. Seen(s0)
  BY <1>3 DEF Seen
<1>7. QED
  BY <1>1, <1>2, <1>3, <1>5, <1>6 DEF Traced, TraceOk

\* Settings that keep what the trace areas show, before anything is drawn.
LEMMA KeptStart ==
    ASSUME TraceInv, NEW s, Quiet(s0, s), Keeps(s0, s)
    PROVE  Traced(s) /\ Typed(s) /\ s.drawn = {} /\ Same(g, s)
<1>1. Traced(s) /\ Typed(s) /\ Same(s0, s)
  BY StartTraced, QuietTraced
<1>2. s.drawn = {}
  BY StartTraced DEF Keeps
<1>3. QED
  BY <1>1, <1>2, StartTraced, SameTrans

LEMMA DoTraced ==
    ASSUME NEW s, TraceOk(s), Do(s) \/ \E x, y : DoThen(s, x, y)
    PROVE  TraceOk(g)'
<1>1. g' = s
  BY DEF Do, DoThen, Serve
<1>2. QED
  BY <1>1

LEMMA ReleasedTraced ==
    ASSUME TraceInv, NEW s, Traced(s), Same(g, s), NEW a \in Visible(g), NEW all, Released(s, a, all)
    PROVE  TraceOk(g)'
<1>1. CASE a[1] = "MAIN"
  BY <1>1, DoTraced DEF Released, Traced
<1>2. CASE a[1] # "MAIN"
  <2>1. a \in Areas /\ s.panes \in Panes /\ Typed(s)
    BY TracedType, LayFacts DEF Visible
  <2>2. a[2] \in Places(s.panes)
    BY <1>2, <2>1, PaneFacts DEF PaneAreas, Visible, Same
  <2>3. TraceOk(splitArea(s, a[2]))
    BY <2>2, SplitAreaTraced DEF Traced
  <2>4. DoThen(splitArea(s, a[2]), "panes", <<>>) \/ Do(splitArea(s, a[2]))
    BY <1>2 DEF Released
  <2>5. QED
    BY <2>3, <2>4, DoTraced
<1>3. QED
  BY <1>1, <1>2

LEMMA ResizeTraced ==
    ASSUME TraceInv, NEW a \in Areas, pixmap_cfg(a)
    PROVE  TraceOk(g)'
<1> DEFINE m == [s0 EXCEPT !.refresh = @ \cup {a[2]}]
           h == [s0 EXCEPT !.resetH = @ \cup {a}]
           s1 == IF a[1] = "MAIN" THEN m ELSE h
           s2 == IF PageOf(a) = g.page THEN makePixmap(s1, a) ELSE s1
           t == [s2 EXCEPT !.curScr = a, !.resize = @ \ {a}]
<1>1. Do(t)
  BY DEF pixmap_cfg
<1>2. Typed(s0)
  BY StartTraced
<1>3. Quiet(s0, s1) /\ Keeps(s0, s1)
  <2>1. CASE a[1] = "MAIN"
    <3>1. a[2] \in Kinds
      BY <2>1, PaneFacts, AreaFacts DEF MainAreas
    <3>2. Only(s0, m, {"refresh"}) /\ m.refresh = s0.refresh \cup {a[2]}
      BY <1>2, FieldNames DEF Only, Typed
    <3> HIDE DEF m
    <3>3. m.refresh \in Types.refresh
      BY <1>2, <3>1, <3>2, FieldTypes DEF Types
    <3>4. \A x \in {"refresh"} : m[x] \in Types[x]
      BY <3>3
    <3>5. Quiet(s0, m)
      BY <1>2, <3>2, <3>4, QuietStep DEF SceneFields
    <3>6. Keeps(s0, m)
      BY <3>2, KeepsFields
    <3>7. QED
      BY <2>1, <3>5, <3>6
  <2>2. CASE a[1] # "MAIN"
    <3>1. Only(s0, h, {"resetH"}) /\ h.resetH \in Types.resetH
      BY <1>2, FieldNames, FieldTypes DEF Only, Typed, Types
    <3> HIDE DEF h
    <3>2. Quiet(s0, h) /\ Keeps(s0, h)
      BY <1>2, <3>1, QuietStep, KeepsFields DEF SceneFields
    <3>3. QED
      BY <2>2, <3>2
  <2>3. QED
    BY <2>1, <2>2
<1> HIDE DEF s1
<1>4. Traced(s1) /\ s1.drawn = {}
  BY <1>3, KeptStart
<1>5. Traced(s2) /\ Typed(s2)
  <2>1. Traced(makePixmap(s1, a))
    BY <1>4, MakeTraced
  <2>2. QED
    BY <1>4, <2>1, TracedType
<1> HIDE DEF s2
<1>6. Only(s2, t, {"curScr", "resize"})
  BY <1>5, FieldNames DEF Only, Typed
<1> HIDE DEF t
<1>7. Keeps(s2, t)
  BY <1>6, KeepsFields
<1>8. TraceOk(t)
  BY <1>5, <1>7, KeepsOk, TracedType
<1>9. QED
  BY <1>1, <1>8, DoTraced

LEMMA PageTraced ==
    ASSUME TraceInv, NEW p \in Pages, change_menu(p)
    PROVE  TraceOk(g)'
<1> DEFINE s1 == [s0 EXCEPT !.page = p, !.screen = IF p = "H" THEN g.panes ELSE "MAIN"]
           r == [s1 EXCEPT !.resize = @ \cup {Area("MAG")}]
<1>1. Good(s0) /\ Traced(s0) /\ Typed(s0) /\ Typed(g) /\ s0.drawn = {}
  BY StartTraced, StartGood DEF TraceInv
<1>2. Do(CASE p = "T" -> tracePixmap(s1)
           [] p = "M" -> r
           [] p = "S" -> specPixmap(s1)
           [] p = "H" -> drawPanes(s1)
           [] p = "HDR" -> s1)
  BY DEF change_menu
<1>3. Only(s0, s1, {"page", "screen"}) /\ s1.page = p /\ s1.screen \in {g.panes, "MAIN"}
  BY <1>1, FieldNames DEF Only, Typed
<1> HIDE DEF s1
<1>4. Typed(s1)
  <2>1. \A x \in {"page", "screen"} : s1[x] \in Types[x]
    BY <1>1, <1>3, FieldTypes DEF Types, Screens
  <2>2. QED
    BY <1>1, <1>3, <2>1, Retyped
<1>5. s1.shown = s0.shown /\ s1.lost = s0.lost /\ s1.refreshH = s0.refreshH
  BY <1>3, FieldNames DEF Only
<1>6. Part(s1, {})
  BY <1>1, <1>4, <1>5 DEF Good, Part, Own
<1>7. Traced(s1) /\ s1.drawn = {}
  <2>1. Only(s0, s1, {"page", "panes", "lay", "lost", "refreshH", "screen", "busy", "resize"})
    BY <1>3 DEF Only
  <2>2. QED
    BY <1>1, <1>5, <1>6, <2>1, Relayed
<1>8. TraceOk(r)
  <2>1. Only(s1, r, {"resize"})
    BY <1>4, FieldNames DEF Only, Typed
  <2> HIDE DEF r
  <2>2. Keeps(s1, r)
    BY <2>1, KeepsFields
  <2>3. QED
    BY <1>7, <2>2, KeepsOk, TracedType
<1> HIDE DEF r
<1>9. TraceOk(s1) /\ TraceOk(tracePixmap(s1)) /\ TraceOk(specPixmap(s1)) /\ TraceOk(drawPanes(s1))
  BY <1>7, TracePlain, SpecTraced, PanesTraced, TracedType
<1>10. QED
  BY <1>2, <1>8, <1>9, DoTraced DEF Pages

\* The scene of a state whose settings leave it alone.
LEMMA QuietScene ==
    ASSUME NEW s, Traced(s), NEW t, Quiet(s, t)
    PROVE  Part(t, {}) /\ Typed(t) /\ Same(s, t)
BY QuietPart, TracedType DEF Quiet

\* A handler that sets some flags, then draws one of the pages.
LEMMA PagesTraced ==
    ASSUME NEW s, Traced(s), s.drawn = {}
    PROVE  /\ TraceOk(s) /\ TraceOk(tracePixmap(s)) /\ TraceOk(magPixmap(s)) /\ TraceOk(specPixmap(s))
           /\ TraceOk(drawPanes(s)) /\ \A p : TraceOk(reMag(s, p))
BY TracePlain, MagTraced, SpecTraced, PanesTraced, ReMagTraced, TracedType

LEMMA SelectTraced ==
    ASSUME TraceInv, NEW b \in BOOLEAN, selectT(b)
    PROVE  TraceOk(g)'
<1> DEFINE q == makeSelectionList(s0, TRUE)
           q1 == [q EXCEPT !.resetAll = TRUE]
           d == Deselect(s0)
<1>1. Do(tracePixmap(q1)) \/ Do(tracePixmap(d))
  <2>1. Do(tracePixmap(IF b THEN q1 ELSE d))
    BY DEF selectT
  <2>2. QED
    BY <2>1
<1>2. Typed(s0) /\ Traced(s0) /\ s0.drawn = {} /\ TRUE \in BOOLEAN
  BY StartTraced
<1>3. /\ Only(s0, q, {"pm", "fft", "sel", "reset", "user", "vline", "dirty", "selChanged"})
      /\ q.reset = s0.reset \cup {"MAG", "SPEC"}
      /\ \A i \in MainSlots("TRACE") : q.pm[i] = s0.pm[i]
  BY <1>2, SelectionFields
<1>4. Quiet(s0, q) /\ Typed(q)
  BY <1>2, SelectionType DEF Quiet
<1> HIDE DEF q
<1>5. Only(q, q1, {"resetAll"}) /\ q1.resetAll = TRUE
  BY <1>4, FieldNames DEF Only, Typed
<1>6. Quiet(s0, q1)
  BY <1>4, FlagTypes, QuietTrans
<1>7. /\ Only(s0, d, {"pm", "fft", "sel", "reset", "user", "vline", "dirty", "selChanged",
                      "resetAll", "pix", "half", "refreshH"})
      /\ d.reset = s0.reset \cup {"MAG", "SPEC"} /\ d.resetAll
      /\ \A i \in MainSlots("TRACE") : d.pm[i] = s0.pm[i]
  BY <1>2, DeselectFields
<1>8. Quiet(s0, d)
  BY <1>2, DeselectType
<1> HIDE DEF q1, d
<1>9. \A v \in Views : <<"TRACE", v>> \in MainSlots("TRACE")
  BY MainTraceSlots
<1>10. Traced(q1) /\ q1.drawn = {}
  <2>1. /\ q1.drawn = s0.drawn /\ q1.view = s0.view /\ q1.old = s0.old /\ q1.refresh = s0.refresh /\ q1.lost = s0.lost
        /\ q1.pm = q.pm /\ q1.reset = q.reset
    BY <1>3, <1>5, FieldNames DEF Only
  <2>2. Part(q1, {})
    BY <1>2, <1>6, QuietScene
  <2>3. QED
    BY <1>2, <1>3, <1>5, <1>9, <2>1, <2>2, Recached
<1>11. Traced(d) /\ d.drawn = {}
  <2>1. d.drawn = s0.drawn /\ d.view = s0.view /\ d.old = s0.old /\ d.refresh = s0.refresh /\ d.lost = s0.lost
    BY <1>7, FieldNames DEF Only
  <2>2. Part(d, {})
    BY <1>2, <1>8, QuietScene
  <2>3. QED
    BY <1>2, <1>7, <1>9, <2>1, <2>2, Recached
<1>12. QED
  BY <1>1, <1>10, <1>11, PagesTraced, DoTraced

LEMMA NextTraced ==
    ASSUME TraceInv, NEW b \in BOOLEAN, nextTrace(b)
    PROVE  TraceOk(g)'
<1> DEFINE S == IF g.sel THEN {g.shown[Area("TRACE")]} ELSE {}
           d == Deselect(s0)
           s1 == Age(d, S)
           r == [s1 EXCEPT !.busy = TRUE]
           l == [s1 EXCEPT !.lost = @ \cup {"atEnd"}]
<1>1. Do(tracePixmap(r)) \/ Do(l)
  <2>1. IF b THEN Do(tracePixmap(r)) ELSE Do(l)
    BY DEF nextTrace
  <2>2. QED
    BY <2>1
<1> HIDE DEF S
<1>2. Typed(s0) /\ Traced(s0) /\ s0.drawn = {}
  BY StartTraced
<1>3. /\ Only(s0, d, {"pm", "fft", "sel", "reset", "user", "vline", "dirty", "selChanged",
                      "resetAll", "pix", "half", "refreshH"})
      /\ d.reset = s0.reset \cup {"MAG", "SPEC"} /\ d.resetAll
  BY <1>2, DeselectFields
<1>4. Quiet(s0, d) /\ Typed(d)
  BY <1>2, DeselectType DEF Quiet
<1> HIDE DEF d
<1>5. Quiet(s0, s1) /\ Typed(s1) /\ Only(d, s1, {"pm"})
  BY <1>4, AgeType, QuietTrans DEF Quiet
<1> HIDE DEF s1
<1>6. /\ s1.drawn = s0.drawn /\ s1.view = s0.view /\ s1.old = s0.old /\ s1.refresh = s0.refresh
      /\ s1.reset = s0.reset \cup {"MAG", "SPEC"} /\ s1.resetAll /\ s1.lost = s0.lost
  BY <1>3, <1>5, FieldNames DEF Only
<1>7. Traced(tracePixmap(r))
  <2>1. Quiet(s0, r)
    BY <1>5, FlagTypes, QuietTrans
  <2>2. Only(s1, r, {"busy"}) /\ r.busy = TRUE
    BY <1>5, FieldNames DEF Only, Typed
  <2> HIDE DEF r
  <2>3. r.drawn = {}
    BY <1>2, <1>6, <2>2, FieldNames DEF Only
  <2>4. Part(r, {})
    BY <1>2, <2>1, QuietScene
  <2>5. QED
    BY <2>2, <2>3, <2>4, TraceTraced
<1>8. TraceOk(l)
  <2>1. s1.lost \cup {"atEnd"} \in SUBSET Exempt
    BY <1>5, FieldTypes DEF Exempt
  <2>2. Quiet(s0, l)
    BY <1>5, <2>1, FlagTypes, QuietTrans
  <2>3. Only(s1, l, {"lost"}) /\ l.lost = s1.lost \cup {"atEnd"}
    BY <1>5, FieldNames DEF Only, Typed
  <2> HIDE DEF l
  <2>4. /\ l.drawn = {} /\ l.view = s0.view /\ l.old = s0.old /\ l.refresh = s0.refresh
        /\ l.reset = s0.reset \cup {"MAG", "SPEC"} /\ l.resetAll
    BY <1>2, <1>6, <2>3, FieldNames DEF Only
  <2>5. Part(l, {})
    BY <1>2, <2>2, QuietScene
  <2>6. Traced(l)
    BY <1>2, <1>6, <2>3, <2>4, <2>5, Recached
  <2>7. QED
    BY <2>6 DEF Traced
<1>9. QED
  BY <1>1, <1>7, <1>8, DoTraced DEF Traced

LEMMA ReadDoneTraced ==
    ASSUME TraceInv, ReadDone
    PROVE  TraceOk(g)'
<1> DEFINE s == [s0 EXCEPT !.busy = FALSE]
<1>1. Do(tracePixmap(s))
  BY DEF ReadDone
<1>2. Typed(s0) /\ Traced(s0) /\ s0.drawn = {}
  BY StartTraced
<1>3. Quiet(s0, s)
  BY <1>2, FlagTypes
<1>4. Only(s0, s, {"busy"})
  BY <1>2, FieldNames DEF Only, Typed
<1> HIDE DEF s
<1>5. Traced(s) /\ s.drawn = {}
  <2>1. Only(s0, s, {"page", "panes", "lay", "lost", "refreshH", "screen", "busy", "resize"})
    BY <1>4 DEF Only
  <2>2. s.lost = s0.lost /\ s.refreshH = s0.refreshH
    BY <1>4, FieldNames DEF Only
  <2>3. Part(s, {})
    BY <1>2, <1>3, QuietScene
  <2>4. QED
    BY <1>2, <2>1, <2>2, <2>3, Relayed
<1>6. QED
  BY <1>1, <1>5, PagesTraced, DoTraced

LEMMA SelectTraceTraced ==
    ASSUME TraceInv, NEW b \in BOOLEAN, selectTrace(b)
    PROVE  TraceOk(g)'
<1> DEFINE q == makeSelectionList(s0, b)
           s == [q EXCEPT !.refreshH = TwoPanes(Kinds)]
<1>1. Released(s, Area("TRACE"), FALSE) /\ Area("TRACE") \in Visible(g)
  BY DEF selectTrace, Mouse
<1>2. Typed(s0) /\ Traced(s0) /\ s0.drawn = {} /\ Same(g, s0)
  BY StartTraced
<1>3. /\ Only(s0, q, {"pm", "fft", "sel", "reset", "user", "vline", "dirty", "selChanged"})
      /\ q.reset = s0.reset \cup {"MAG", "SPEC"}
      /\ \A i \in MainSlots("TRACE") : q.pm[i] = s0.pm[i]
  BY <1>2, SelectionFields
<1>4. Quiet(s0, q) /\ Typed(q)
  BY <1>2, SelectionType DEF Quiet
<1> HIDE DEF q
<1>5. Only(q, s, {"refreshH"}) /\ s.refreshH = TwoPanes(Kinds)
  BY <1>4, FieldNames DEF Only, Typed
<1>6. Quiet(s0, s)
  BY <1>4, FlagTypes, QuietTrans
<1> HIDE DEF s
<1>7. /\ s.drawn = {} /\ s.view = s0.view /\ s.old = s0.old /\ s.refresh = s0.refresh /\ s.lost = s0.lost
      /\ s.pm = q.pm /\ s.reset = q.reset
  BY <1>2, <1>3, <1>5, FieldNames DEF Only
<1>8. \A v \in Views : <<"TRACE", v>> \in MainSlots("TRACE")
  BY MainTraceSlots
<1>9. TwoPanes({"TRACE"}) \subseteq s.refreshH
  BY <1>5 DEF TwoPanes, Kinds
<1>10. Part(s, {}) /\ Same(s0, s)
  BY <1>2, <1>6, QuietScene
<1>11. Traced(s)
  BY <1>2, <1>3, <1>7, <1>8, <1>9, <1>10, Recached
<1>12. QED
  BY <1>1, <1>2, <1>10, <1>11, SameTrans, ReleasedTraced

\* Flags of no trace area.
LEMMA FlagKeeps ==
    ASSUME NEW s, Typed(s)
    PROVE  /\ \A v \in BOOLEAN : /\ Keeps(s, [s EXCEPT !.drag = v]) /\ Keeps(s, [s EXCEPT !.filter = v])
                                 /\ Keeps(s, [s EXCEPT !.crashed = v])
           /\ \A v \in 0..2 : Keeps(s, [s EXCEPT !.vline = v])
           /\ \A v : s.reset \subseteq v => Keeps(s, [s EXCEPT !.reset = v])
           /\ \A v : s.refreshH \subseteq v => Keeps(s, [s EXCEPT !.refreshH = v])
           /\ \A v : s.lost \subseteq v => Keeps(s, [s EXCEPT !.lost = v])
<1>1. \A v : \A x \in {"drag", "filter", "crashed", "vline", "reset", "refreshH", "lost"} :
            LET t == [s EXCEPT ![x] = v] IN Only(s, t, {x}) /\ t[x] = v
  BY FieldNames DEF Only, Typed
<1>2. ASSUME NEW v  PROVE  /\ Keeps(s, [s EXCEPT !.drag = v]) /\ Keeps(s, [s EXCEPT !.filter = v])
                           /\ Keeps(s, [s EXCEPT !.crashed = v]) /\ Keeps(s, [s EXCEPT !.vline = v])
  <2>1. /\ Only(s, [s EXCEPT !.drag = v], {"drag"}) /\ Only(s, [s EXCEPT !.filter = v], {"filter"})
        /\ Only(s, [s EXCEPT !.crashed = v], {"crashed"}) /\ Only(s, [s EXCEPT !.vline = v], {"vline"})
    BY <1>1
  <2>2. Keeps(s, [s EXCEPT !.drag = v])
    BY <2>1, KeepsFields
  <2>3. Keeps(s, [s EXCEPT !.filter = v])
    BY <2>1, KeepsFields
  <2>4. Keeps(s, [s EXCEPT !.crashed = v])
    BY <2>1, KeepsFields
  <2>5. Keeps(s, [s EXCEPT !.vline = v])
    BY <2>1, KeepsFields
  <2>6. QED
    BY <2>2, <2>3, <2>4, <2>5
<1>3. ASSUME NEW v, s.reset \subseteq v  PROVE  Keeps(s, [s EXCEPT !.reset = v])
  <2> DEFINE t == [s EXCEPT !.reset = v]
  <2>1. Only(s, t, {"reset"}) /\ t.reset = v
    BY <1>1
  <2> HIDE DEF t
  <2>2. Keeps(s, t)
    BY <1>3, <2>1, KeepsFields
  <2>3. QED
    BY <2>2 DEF t
<1>4. ASSUME NEW v, s.refreshH \subseteq v  PROVE  Keeps(s, [s EXCEPT !.refreshH = v])
  <2> DEFINE t == [s EXCEPT !.refreshH = v]
  <2>1. Only(s, t, {"refreshH"}) /\ t.refreshH = v
    BY <1>1
  <2> HIDE DEF t
  <2>2. Keeps(s, t)
    BY <1>4, <2>1, KeepsFields
  <2>3. QED
    BY <2>2 DEF t
<1>5. ASSUME NEW v, s.lost \subseteq v  PROVE  Keeps(s, [s EXCEPT !.lost = v])
  <2> DEFINE t == [s EXCEPT !.lost = v]
  <2>1. Only(s, t, {"lost"}) /\ t.lost = v
    BY <1>1
  <2> HIDE DEF t
  <2>2. Keeps(s, t)
    BY <1>5, <2>1, KeepsFields
  <2>3. QED
    BY <2>2 DEF t
<1>6. QED
  BY <1>2, <1>3, <1>4, <1>5

LEMMA BoundaryTraced ==
    ASSUME TraceInv, NEW a \in Areas, NEW w \in Windows, magBoundary(a, w)
    PROVE  TraceOk(g)'
<1> DEFINE first == g.pix[g.screen] = NoWin \/ g.screen \notin g.half
           q == WindowChanged(s0)
           s == [q EXCEPT !.pix[g.screen] = w, !.user = NoWin,
                          !.half = IF first THEN @ \cup {g.screen} ELSE @ \ {g.screen}]
<1>1. Released(s, a, ~first) /\ a \in Visible(g)
  BY DEF magBoundary, Mouse
<1>2. Traced(q) /\ Typed(q) /\ Same(g, q) /\ g.screen \in Screens
  <2>1. Typed(s0) /\ Typed(g)
    BY StartTraced, StartGood DEF TraceInv
  <2>2. Quiet(s0, q) /\ Keeps(s0, q)
    BY <2>1, WindowChangedType, WindowKeeps
  <2>3. QED
    BY <2>1, <2>2, KeptStart, FieldTypes
<1> HIDE DEF q
<1> HIDE DEF first
<1>3. /\ Only(q, s, {"pix", "user", "half"}) /\ s.pix = [q.pix EXCEPT ![g.screen] = w] /\ s.user = NoWin
      /\ s.half \in {q.half \cup {g.screen}, q.half \ {g.screen}}
  BY <1>2, FieldNames DEF Only, Typed
<1> HIDE DEF s
<1>4. \A x \in {"pix", "user", "half"} : s[x] \in Types[x]
  BY <1>2, <1>3, FieldTypes DEF Types
<1>5. Quiet(q, s)
  BY <1>2, <1>3, <1>4, QuietStep DEF SceneFields
<1>6. Keeps(q, s)
  BY <1>3, KeepsFields
<1>7. Traced(s) /\ Same(g, s)
  BY <1>2, <1>5, <1>6, QuietTraced, SameTrans
<1>8. QED
  BY <1>1, <1>7, ReleasedTraced

LEMMA SelectMagTraced ==
    ASSUME TraceInv, NEW a \in Areas, selectMag(a)
    PROVE  TraceOk(g)'
<1> DEFINE q == [s0 EXCEPT !.refreshH = @ \cup TwoPanes({"MAG", "SPEC"})]
           s == makeMAGSelectionList(q)
<1>1. Released(s, a, FALSE) /\ a \in Visible(g)
  BY DEF selectMag, Magnified, Mouse
<1>2. Typed(s0) /\ s0.refreshH \cup TwoPanes({"MAG", "SPEC"}) \in SUBSET TwoPanes(Kinds)
  BY StartTraced, FieldTypes DEF TwoPanes, Kinds
<1>3. Quiet(s0, q) /\ Keeps(s0, q)
  BY <1>2, FlagTypes, FlagKeeps
<1> HIDE DEF q
<1>4. Traced(q) /\ Typed(q) /\ Same(g, q)
  BY <1>3, KeptStart
<1>5. Quiet(q, s) /\ Keeps(q, s)
  BY <1>4, MagSelectionType, MagSelectionKeeps
<1> HIDE DEF s
<1>6. Traced(s) /\ Same(g, s)
  BY <1>4, <1>5, QuietTraced, SameTrans
<1>7. QED
  BY <1>1, <1>6, ReleasedTraced

LEMMA VLineTraced ==
    ASSUME TraceInv, NEW a \in Areas, vLine(a)
    PROVE  TraceOk(g)'
<1> DEFINE v == IF s0.vline = 1 THEN 2 ELSE 1
           s == [s0 EXCEPT !.vline = v]
<1>1. Released(s, a, FALSE) /\ a \in Visible(g)
  BY DEF vLine, Magnified, Mouse
<1>2. v \in 0..2 /\ Typed(s0)
  BY StartTraced
<1> HIDE DEF v
<1>3. Quiet(s0, s) /\ Keeps(s0, s)
  BY <1>2, FlagTypes, FlagKeeps
<1> HIDE DEF s
<1>4. QED
  BY <1>1, <1>3, KeptStart, ReleasedTraced

LEMMA XAxisTraced ==
    ASSUME TraceInv, NEW a \in Areas, NEW w \in Windows, xAxis(a, w)
    PROVE  TraceOk(g)'
<1> DEFINE q == WindowChanged(s0)
           s == [q EXCEPT !.user = w, !.vline = 0]
<1>1. Released(s, a, TRUE) /\ a \in Visible(g)
  BY DEF xAxis, Magnified, Mouse
<1>2. Quiet(s0, q) /\ Typed(q) /\ Keeps(s0, q)
  BY StartTraced, WindowChangedType, WindowKeeps DEF Quiet
<1> HIDE DEF q
<1>3. Quiet(s0, s) /\ Keeps(s0, s)
  BY <1>2, UserType, UserKeeps, QuietTrans, KeepsTrans
<1> HIDE DEF s
<1>4. QED
  BY <1>1, <1>3, KeptStart, ReleasedTraced

LEMMA XAxisShiftTraced ==
    ASSUME TraceInv, NEW a \in Areas, NEW w \in Windows, xAxisShift(a, w)
    PROVE  TraceOk(g)'
<1> DEFINE s == [s0 EXCEPT !.user = w, !.pix[g.screen] = w, !.reset = @ \cup {"MAG"},
                            !.refreshH = TwoPanes(Kinds), !.lost = @ \cup {"shift"}]
           F == {"user", "pix", "reset", "refreshH", "lost"}
<1>1. Released(s, a, TRUE) /\ a \in Visible(g)
  BY DEF xAxisShift, Magnified, Mouse
<1>2. Typed(s0) /\ g.screen \in Screens
  BY StartTraced, StartGood, FieldTypes DEF TraceInv
<1>3. /\ Only(s0, s, F) /\ s.user = w /\ s.pix = [s0.pix EXCEPT ![g.screen] = w]
      /\ s.reset = s0.reset \cup {"MAG"} /\ s.refreshH = TwoPanes(Kinds)
      /\ s.lost = s0.lost \cup {"shift"}
  BY <1>2, FieldNames DEF Only, Typed
<1> HIDE DEF s
<1>4. \A x \in F : s[x] \in Types[x]
  BY <1>2, <1>3, FieldTypes DEF Types, Kinds, Exempt
<1>5. Quiet(s0, s)
  BY <1>2, <1>3, <1>4, QuietStep DEF SceneFields
<1>6. Keeps(s0, s)
  <2>1. s0.refreshH \subseteq s.refreshH
    BY <1>2, <1>3, FieldTypes
  <2>2. QED
    BY <1>3, <2>1, KeepsFields
<1>7. QED
  BY <1>1, <1>5, <1>6, KeptStart, ReleasedTraced

LEMMA DragTraced ==
    ASSUME TraceInv, NEW a \in Areas, NEW w \in Windows, magDrag(a, w)
    PROVE  TraceOk(g)'
<1> DEFINE q == WindowChanged(s0)
           s == [q EXCEPT !.user = w]
           d == makePixmap(s, a)
           t == [d EXCEPT !.drag = TRUE]
<1>1. Do(t)
  BY DEF magDrag
<1>2. Quiet(s0, q) /\ Typed(q) /\ Keeps(s0, q)
  BY StartTraced, WindowChangedType, WindowKeeps DEF Quiet
<1> HIDE DEF q
<1>3. Quiet(s0, s) /\ Keeps(s0, s)
  BY <1>2, UserType, UserKeeps, QuietTrans, KeepsTrans
<1> HIDE DEF s
<1>4. Traced(d) /\ Typed(d)
  BY <1>3, KeptStart, MakeTraced, TracedType
<1> HIDE DEF d
<1>5. TraceOk(t)
  BY <1>4, FlagKeeps, KeepsOk, TracedType
<1>6. QED
  BY <1>1, <1>5, DoTraced

LEMMA DragReleaseTraced ==
    ASSUME TraceInv, NEW a \in Areas, dragRelease(a)
    PROVE  TraceOk(g)'
<1> DEFINE s == [s0 EXCEPT !.drag = FALSE]
<1>1. Released(s, a, TRUE) /\ a \in Visible(g)
  BY DEF dragRelease, Magnified, Mouse
<1>2. Quiet(s0, s) /\ Keeps(s0, s)
  BY StartTraced, FlagTypes, FlagKeeps
<1> HIDE DEF s
<1>3. QED
  BY <1>1, <1>2, KeptStart, ReleasedTraced

LEMMA ScrollTraced ==
    ASSUME TraceInv, NEW a \in Areas, NEW w \in Windows, scrollEvent(a, w)
    PROVE  TraceOk(g)'
<1> DEFINE c == [s0 EXCEPT !.crashed = TRUE]
           v == IF s0.user = NoWin THEN s0.user ELSE w
           s == [s0 EXCEPT !.user = v]
<1>1. Do(c) \/ Do(reMag(s, g.page))
  BY DEF scrollEvent
<1>2. Quiet(s0, c) /\ Keeps(s0, c)
  BY StartTraced, FlagTypes, FlagKeeps
<1>3. v \in Windows \cup {NoWin}
  OBVIOUS
<1> HIDE DEF v
<1>4. Quiet(s0, s) /\ Keeps(s0, s)
  BY <1>3, StartTraced, UserType, UserKeeps
<1> HIDE DEF c, s
<1>5. TraceOk(c) /\ TraceOk(reMag(s, g.page))
  BY <1>2, <1>4, KeptStart, PagesTraced
<1>6. QED
  BY <1>1, <1>5, DoTraced

LEMMA SnapTraced ==
    ASSUME TraceInv, NEW w \in Windows, snapMag(w)
    PROVE  TraceOk(g)'
<1> DEFINE c == [s0 EXCEPT !.crashed = TRUE]
<1>1. Do(c) \/ DoThen(s0, "snap", w)
  BY DEF snapMag
<1>2. Quiet(s0, c) /\ Keeps(s0, c)
  BY StartTraced, FlagTypes, FlagKeeps
<1> HIDE DEF c
<1>3. TraceOk(c) /\ TraceOk(s0)
  BY <1>2, KeptStart, StartTraced, TracedType
<1>4. QED
  BY <1>1, <1>3, DoTraced

\* A display type of Magnify or of the spectra.
LEMMA ViewKeeps ==
    ASSUME NEW s, Typed(s), NEW k \in {"MAG", "SPEC"}, NEW v \in Views
    PROVE  Keeps(s, Age([s EXCEPT !.view[k] = v], TwoPanes({k})))
<1> DEFINE u == [s EXCEPT !.view[k] = v]
<1>1. Only(s, u, {"view"}) /\ u.view = [s.view EXCEPT ![k] = v]
  BY FieldNames DEF Only, Typed
<1> HIDE DEF u
<1>2. Typed(u)
  <2>1. \A x \in {"view"} : u[x] \in Types[x]
    BY <1>1, FieldTypes DEF Types, Kinds
  <2>2. QED
    BY <1>1, <2>1, Retyped
<1>3. u.view["TRACE"] = s.view["TRACE"]
  BY <1>1, FieldTypes DEF Kinds
<1>4. Keeps(s, u)
  BY <1>1, <1>3, KeepsFields
<1>5. Keeps(u, Age(u, TwoPanes({k})))
  BY <1>2, AgeKeeps, TraceSlotFacts
<1>6. QED
  BY <1>4, <1>5, KeepsTrans DEF u

LEMMA DisplayTraced ==
    ASSUME TraceInv, displayType
    PROVE  TraceOk(g)'
<1> DEFINE d(k) == Age([s0 EXCEPT !.view[k] = Flip(s0.view[k])], TwoPanes({k}))
           m == [s0 EXCEPT !.view["MAG"] = Flip(@), !.view["SPEC"] = Flip(g.view["MAG"])]
           h == Age(m, TwoPanes({"MAG", "SPEC"}))
<1>1. \/ Do(tracePixmap(d("TRACE"))) \/ Do(magPixmap(d("MAG"))) \/ Do(specPixmap(d("SPEC")))
      \/ Do(reMag(h, "H"))
  BY DEF displayType
<1>2. Traced(s0) /\ Typed(s0) /\ s0.drawn = {}
  BY StartTraced
<1>3. TraceOk(magPixmap(d("MAG"))) /\ TraceOk(specPixmap(d("SPEC")))
  <2>1. \A k \in {"MAG", "SPEC"} : k \in Kinds /\ Flip(s0.view[k]) \in Views
    BY <1>2, FlipType DEF Kinds
  <2>2. Quiet(s0, d("MAG")) /\ Keeps(s0, d("MAG")) /\ Quiet(s0, d("SPEC")) /\ Keeps(s0, d("SPEC"))
    BY <1>2, <2>1, ViewType, ViewKeeps
  <2> HIDE DEF d
  <2>3. QED
    BY <2>2, KeptStart, PagesTraced
<1>4. TraceOk(tracePixmap(d("TRACE")))
  <2> DEFINE f == Flip(s0.view["TRACE"])
             u == [s0 EXCEPT !.view["TRACE"] = f]
             t == Age(u, TwoPanes({"TRACE"}))
  <2>1. f \in Views /\ f # s0.view["TRACE"] /\ "TRACE" \in Kinds
    BY <1>2, FieldTypes DEF Flip, Views, Kinds
  <2>2. Quiet(s0, t)
    BY <1>2, <2>1, ViewType
  <2>3. Only(s0, u, {"view"}) /\ u.view = [s0.view EXCEPT !["TRACE"] = f]
    BY <1>2, FieldNames DEF Only, Typed
  <2> HIDE DEF u
  <2>4. Typed(u)
    <3>1. u.view \in Types.view
      BY <1>2, <2>1, <2>3, FieldTypes DEF Types
    <3>2. \A x \in {"view"} : u[x] \in Types[x]
      BY <3>1
    <3>3. QED
      BY <1>2, <2>3, <3>2, Retyped
  <2>5. /\ Only(u, t, {"pm"})
        /\ \A v \in Views : t.pm[<<"TRACE", v>>] = u.pm[<<"TRACE", v>>]
    <3>1. t.pm = [i \in Slots |-> IF i \in TwoPanes({"TRACE"}) /\ u.pm[i] \in Windows \cup {"ok"} THEN "old" ELSE u.pm[i]]
      BY <2>4, FieldNames DEF Typed, Age
    <3>2. Only(u, t, {"pm"})
      BY <2>4, AgeType
    <3> HIDE DEF t
    <3>3. \A v \in Views : <<"TRACE", v>> \in Slots /\ <<"TRACE", v>> \notin TwoPanes({"TRACE"})
      <4>1. TwoPanes({"TRACE"}) \subseteq TwoPanes(Kinds)
        BY DEF TwoPanes, Kinds
      <4>2. \A v \in Views : <<"TRACE", v>> \in MainSlots("TRACE") /\ <<"TRACE", v>> \in TraceSlots
        BY MainTraceSlots
      <4>3. QED
        BY <4>1, <4>2, TraceSlotFacts
    <3>4. QED
      BY <3>1, <3>2, <3>3
  <2> HIDE DEF t
  <2>6. /\ t.drawn = {} /\ t.old = s0.old /\ t.reset = s0.reset /\ t.refresh = s0.refresh /\ t.lost = s0.lost
        /\ t.view = u.view /\ u.pm = s0.pm
    BY <1>2, <2>3, <2>5, FieldNames DEF Only
  <2>7. t.view["TRACE"] = f
    BY <1>2, <2>1, <2>3, <2>6, FieldTypes
  <2>8. PageCache(s0)
    BY <1>2 DEF Traced, TraceOk
  <2>9. t.old["TRACE"] # <<"TRACE", t.view["TRACE"]>> \/ "TRACE" \in t.reset
    BY <2>1, <2>6, <2>7, <2>8 DEF PageCache
  <2>10. \A v \in Views : t.pm[<<"TRACE", v>>] \in {"none", "ok"} \/ "TRACE" \in t.reset \cup t.refresh \/ "atEnd" \in t.lost
    BY <2>5, <2>6, <2>8 DEF PageCache
  <2>11. Part(t, {})
    BY <1>2, <2>2, QuietScene
  <2>12. Traced(tracePixmap(t))
    BY <2>6, <2>9, <2>10, <2>11, TraceTraced
  <2>13. QED
    BY <2>12 DEF t, u, Traced
<1>5. TraceOk(reMag(h, "H"))
  <2> DEFINE f == Flip(s0.view["MAG"])
             e == Flip(g.view["MAG"])
  <2>1. Only(s0, m, {"view"}) /\ m.view = [s0.view EXCEPT !["MAG"] = f, !["SPEC"] = e]
    BY <1>2, FieldNames DEF Only, Typed
  <2>2. f \in Views /\ e \in Views
    BY DEF Flip, Views
  <2> HIDE DEF m, f, e
  <2>3. s0.view \in [Kinds -> Views]
    BY <1>2, FieldTypes
  <2>4. m.view \in Types.view /\ m.view["TRACE"] = s0.view["TRACE"]
    <3>1. [s0.view EXCEPT !["MAG"] = f, !["SPEC"] = e] \in [Kinds -> Views]
      BY <2>2, <2>3
    <3>2. [s0.view EXCEPT !["MAG"] = f, !["SPEC"] = e]["TRACE"] = s0.view["TRACE"]
      BY <2>3 DEF Kinds
    <3>3. QED
      BY <2>1, <3>1, <3>2 DEF Types
  <2>5. \A x \in {"view"} : m[x] \in Types[x]
    BY <2>4
  <2>6. Quiet(s0, m) /\ Typed(m)
    BY <1>2, <2>1, <2>5, QuietStep DEF SceneFields, Quiet
  <2>7. Keeps(s0, m)
    BY <2>1, <2>4, KeepsFields
  <2>8. Quiet(m, h) /\ Keeps(m, h)
    BY <2>6, AgeType, AgeKeeps, TraceSlotFacts
  <2> HIDE DEF h
  <2>9. Quiet(s0, h) /\ Keeps(s0, h)
    BY <2>6, <2>7, <2>8, QuietTrans, KeepsTrans
  <2>10. QED
    BY <2>9, KeptStart, PagesTraced
<1> HIDE DEF d, h, m
<1>6. QED
  BY <1>1, <1>3, <1>4, <1>5, DoTraced

LEMMA TimeAxisTraced ==
    ASSUME TraceInv, timeAxis
    PROVE  TraceOk(g)'
<1> DEFINE s == [s0 EXCEPT !.reset = @ \cup {"TRACE"}]
<1>1. Do(tracePixmap(s))
  BY DEF timeAxis
<1>2. Typed(s0)
  BY StartTraced
<1>3. Quiet(s0, s) /\ Keeps(s0, s)
  BY <1>2, TraceFlags, FlagKeeps
<1> HIDE DEF s
<1>4. QED
  BY <1>1, <1>3, KeptStart, PagesTraced, DoTraced

LEMMA PaneKindTraced ==
    ASSUME TraceInv, NEW c \in Combos, paneKind(c[1], c[2], c[3])
    PROVE  TraceOk(g)'
<1> DEFINE p == c[1]
           s == [s0 EXCEPT !.lay[p][c[2]] = c[3]]
<1>1. Do(comboChanged(s))
  BY DEF paneKind
<1>2. p \in Panes /\ c[2] \in Places(p) /\ c[3] \in Kinds
  BY ScreensAssumption
<1>3. Traced(s0) /\ Typed(s0) /\ s0.drawn = {} /\ Good(s0)
  BY StartTraced
<1>4. Only(s0, s, {"lay"}) /\ s.lay = [s0.lay EXCEPT ![p] = [s0.lay[p] EXCEPT ![c[2]] = c[3]]]
  BY <1>3, FieldNames DEF Only, Typed
<1> HIDE DEF s
<1>5. s.lay \in Types.lay
  BY <1>2, <1>3, <1>4, LaidOut
<1>6. Typed(s)
  <2>1. \A x \in {"lay"} : s[x] \in Types[x]
    BY <1>5
  <2>2. QED
    BY <1>3, <1>4, <2>1, Retyped
<1>7. s.shown = s0.shown /\ s.lost = s0.lost /\ s.refreshH = s0.refreshH
  BY <1>4, FieldNames DEF Only
<1>8. Part(s, {})
  BY <1>3, <1>6, <1>7 DEF Good, Part, Own
<1>9. Traced(s)
  <2>1. Only(s0, s, {"page", "panes", "lay", "lost", "refreshH", "screen", "busy", "resize"})
    BY <1>4 DEF Only
  <2>2. QED
    BY <1>3, <1>7, <1>8, <2>1, Relayed
<1>10. TraceOk(comboChanged(s))
  BY <1>9, ComboTraced DEF Traced
<1>11. QED
  BY <1>1, <1>10, DoTraced

LEMMA NewSplitTraced ==
    ASSUME TraceInv, NEW p \in Panes, newSplit(p)
    PROVE  TraceOk(g)'
<1>1. DoThen(s0, "split", p) /\ TraceOk(s0)
  BY StartTraced, TracedType DEF newSplit
<1>2. QED
  BY <1>1, DoTraced

\* Settings of the spectra or of Magnify: the trace areas keep what they show.
LEMMA SettingsKeep ==
    ASSUME NEW s, Typed(s)
    PROVE  /\ \A k \in {"MAG", "SPEC"} :
                Keeps(s, [Age(s, MainSlots(k) \cup TwoPanes({k})) EXCEPT
                            !.refresh = @ \cup {k}, !.refreshH = @ \cup TwoPanes({k})])
           /\ Keeps(s, [AgeFFT(Age(s, MainSlots("SPEC") \cup TwoPanes({"SPEC"}))) EXCEPT
                            !.reset = @ \cup {"SPEC"}, !.lost = @ \cup {"range"}])
<1>1. ASSUME NEW k \in {"MAG", "SPEC"}
      PROVE  Keeps(s, [Age(s, MainSlots(k) \cup TwoPanes({k})) EXCEPT
                            !.refresh = @ \cup {k}, !.refreshH = @ \cup TwoPanes({k})])
  <2> DEFINE u == Age(s, MainSlots(k) \cup TwoPanes({k}))
             t == [u EXCEPT !.refresh = @ \cup {k}, !.refreshH = @ \cup TwoPanes({k})]
  <2>1. Keeps(s, u) /\ Typed(u)
    BY AgeType, AgeKeeps, TraceSlotFacts DEF Quiet
  <2> HIDE DEF u
  <2>2. Only(u, t, {"refresh", "refreshH"}) /\ t.refresh = u.refresh \cup {k} /\ t.refreshH = u.refreshH \cup TwoPanes({k})
    BY <2>1, FieldNames DEF Only, Typed
  <2> HIDE DEF t
  <2>3. Keeps(u, t)
    BY <2>2, KeepsFields
  <2>4. QED
    BY <2>1, <2>3, KeepsTrans DEF t, u
<1>2. Keeps(s, [AgeFFT(Age(s, MainSlots("SPEC") \cup TwoPanes({"SPEC"}))) EXCEPT
                            !.reset = @ \cup {"SPEC"}, !.lost = @ \cup {"range"}])
  <2> DEFINE u == Age(s, MainSlots("SPEC") \cup TwoPanes({"SPEC"}))
             v == AgeFFT(u)
             t == [v EXCEPT !.reset = @ \cup {"SPEC"}, !.lost = @ \cup {"range"}]
  <2>1. Keeps(s, u) /\ Typed(u)
    BY AgeType, AgeKeeps, TraceSlotFacts DEF Quiet
  <2> HIDE DEF u
  <2>2. Keeps(u, v) /\ Typed(v)
    BY <2>1, AgeFFTType, AgeFFTKeeps DEF Quiet
  <2> HIDE DEF v
  <2>3. Only(v, t, {"reset", "lost"}) /\ t.reset = v.reset \cup {"SPEC"} /\ t.lost = v.lost \cup {"range"}
    BY <2>2, FieldNames DEF Only, Typed
  <2> HIDE DEF t
  <2>4. Keeps(v, t)
    BY <2>3, KeepsFields
  <2>5. QED
    BY <2>1, <2>2, <2>4, KeepsTrans DEF t, v, u
<1>3. QED
  BY <1>1, <1>2

LEMMA ContinueTraced ==
    ASSUME TraceInv, NEW k \in Kinds \cup {"range", "none"}, Continue(k)
    PROVE  TraceOk(g)'
<1> DEFINE mid == IF "TRACE" \in {g.lay["SPLIT2"][p] : p \in {"TOP", "BOT"}} THEN "NONE" ELSE "TRACE"
           s1 == [s0 EXCEPT !.lay["SPLIT2"]["MID"] = mid,
                         !.refreshH = IF mid = g.lay["SPLIT2"]["MID"] THEN @ ELSE @ \cup {<<"SPLIT2", "MAG">>},
                         !.screen = IF g.page = "H" THEN g.panes ELSE "MAIN"]
           u == Age(s1, MainSlots(k) \cup TwoPanes({k}))
           a == [u EXCEPT !.refresh = @ \cup {k}, !.refreshH = @ \cup TwoPanes({k})]
           b == [AgeFFT(Age(s1, MainSlots("SPEC") \cup TwoPanes({"SPEC"}))) EXCEPT
                    !.reset = @ \cup {"SPEC"}, !.lost = @ \cup {"range"}]
           s2 == CASE k \in Kinds -> a [] k = "range" -> b [] OTHER -> s1
<1>1. Do(CASE g.page = "T" -> tracePixmap(s2)
           [] g.page = "M" -> magPixmap(s2)
           [] g.page = "S" -> specPixmap(s2)
           [] g.page = "H" -> drawPanes(s2)
           [] OTHER -> s2)
  BY DEF Continue
<1>2. Good(s0) /\ Traced(s0) /\ Typed(s0) /\ Typed(g) /\ s0.drawn = {}
  BY StartTraced, StartGood DEF TraceInv
<1>3. mid \in {"TRACE", "NONE"}
  OBVIOUS
<1> HIDE DEF mid
<1>4. /\ Only(s0, s1, {"lay", "refreshH", "screen"})
      /\ s1.lay = [s0.lay EXCEPT !["SPLIT2"] = [s0.lay["SPLIT2"] EXCEPT !["MID"] = mid]]
      /\ s1.refreshH \in {s0.refreshH, s0.refreshH \cup {<<"SPLIT2", "MAG">>}}
      /\ s1.screen \in {g.panes, "MAIN"}
  BY <1>2, FieldNames DEF Only, Typed
<1> HIDE DEF s1
<1>5. Typed(s1)
  <2> DEFINE l == [s0.lay["SPLIT2"] EXCEPT !["MID"] = mid]
  <2>1. s0.lay \in [SPLIT2 : [TOP : Kinds, MID : {"TRACE", "NONE"}, BOT : Kinds],
                    SPLIT3 : [TOP : Kinds, MID : Kinds, BOT : Kinds]]
    BY <1>2, FieldTypes
  <2>2. l \in [TOP : Kinds, MID : {"TRACE", "NONE"}, BOT : Kinds]
    BY <1>3, <2>1
  <2> HIDE DEF l
  <2>3. [s0.lay EXCEPT !["SPLIT2"] = l] \in Types.lay
    BY <2>1, <2>2 DEF Types
  <2>4. s1.lay \in Types.lay
    BY <1>4, <2>3 DEF l
  <2>5. s1.refreshH \in Types.refreshH /\ s1.screen \in Types.screen
    BY <1>2, <1>4, FieldTypes DEF Types, TwoPanes, Panes, Kinds, Screens
  <2>6. \A x \in {"lay", "refreshH", "screen"} : s1[x] \in Types[x]
    BY <2>4, <2>5
  <2>7. QED
    BY <1>2, <1>4, <2>6, Retyped
<1>6. s1.shown = s0.shown /\ s1.lost = s0.lost /\ s0.refreshH \subseteq s1.refreshH
  <2>1. s1.shown = s0.shown /\ s1.lost = s0.lost
    BY <1>4, FieldNames DEF Only
  <2>2. QED
    BY <1>4, <2>1
<1>7. Part(s1, {})
  BY <1>2, <1>5, <1>6 DEF Good, Part, Own
<1>8. Traced(s1) /\ s1.drawn = {}
  <2>1. Only(s0, s1, {"page", "panes", "lay", "lost", "refreshH", "screen", "busy", "resize"})
    BY <1>4 DEF Only
  <2>2. QED
    BY <1>2, <1>6, <1>7, <2>1, Relayed
<1>9. Traced(b) /\ b.drawn = {}
  <2>1. Quiet(s1, b) /\ Keeps(s1, b)
    BY <1>5, Settings, SettingsKeep
  <2> HIDE DEF b
  <2>2. QED
    BY <1>8, <2>1, QuietTraced DEF Keeps
<1>10. ASSUME k \in {"MAG", "SPEC"}  PROVE  Traced(a) /\ a.drawn = {}
  <2>1. Quiet(s1, a) /\ Keeps(s1, a)
    <3>1. k \in Kinds
      BY <1>10 DEF Kinds
    <3>2. QED
      BY <1>5, <1>10, <3>1, Settings, SettingsKeep
  <2> HIDE DEF a
  <2>2. QED
    BY <1>8, <2>1, QuietTraced DEF Keeps
<1>11. ASSUME k = "TRACE"  PROVE  Traced(a) /\ a.drawn = {}
  <2>1. k \in Kinds
    BY <1>11 DEF Kinds
  <2>2. Quiet(s1, a)
    BY <1>5, <2>1, Settings
  <2>3. Only(s1, u, {"pm"}) /\ Typed(u)
    BY <1>5, AgeType DEF Quiet
  <2> HIDE DEF u
  <2>4. Only(u, a, {"refresh", "refreshH"}) /\ a.refresh = u.refresh \cup {k} /\ a.refreshH = u.refreshH \cup TwoPanes({k})
    BY <2>3, FieldNames DEF Only, Typed
  <2> HIDE DEF a
  <2>5. /\ a.drawn = {} /\ a.view = s1.view /\ a.old = s1.old /\ a.reset = s1.reset /\ a.lost = s1.lost
        /\ u.refresh = s1.refresh
    BY <1>8, <2>3, <2>4, FieldNames DEF Only
  <2>6. Part(a, {})
    BY <1>8, <2>2, QuietScene
  <2>7. "TRACE" \in a.refresh /\ TwoPanes({"TRACE"}) \subseteq a.refreshH /\ s1.refresh \subseteq a.refresh
    BY <1>11, <2>4, <2>5
  <2>8. QED
    BY <1>8, <2>5, <2>6, <2>7, Recached
<1> HIDE DEF a, b
<1>12. Traced(s2) /\ s2.drawn = {}
  BY <1>8, <1>9, <1>10, <1>11 DEF Kinds
<1> HIDE DEF s2
<1>13. QED
  BY <1>1, <1>12, PagesTraced, DoTraced

\* The gain: the trace page is drawn anew; from Magnify the panes are left.
LEMMA ReDrawTraced ==
    ASSUME TraceInv, reDraw
    PROVE  TraceOk(g)'
<1> DEFINE S == MainSlots("TRACE") \cup MainSlots("MAG") \cup TwoPanes({"TRACE", "MAG"})
           q == [s0 EXCEPT !.reset = @ \cup {"TRACE", "MAG"}]
           s == Age(q, S)
           u == magPixmap(s)
           t == [u EXCEPT !.lost = @ \cup {"gain"}]
<1>1. Do(tracePixmap(s)) \/ Do(t)
  BY DEF reDraw
<1> HIDE DEF S
<1>2. Traced(s0) /\ Typed(s0) /\ s0.drawn = {}
  BY StartTraced
<1>3. Quiet(s0, q) /\ Typed(q)
  <2>1. s0.reset \cup {"TRACE", "MAG"} \in SUBSET Kinds
    BY <1>2, FieldTypes DEF Kinds
  <2>2. Quiet(s0, q)
    BY <1>2, <2>1, FlagTypes
  <2>3. QED
    BY <2>2 DEF Quiet
<1>4. Only(s0, q, {"reset"}) /\ q.reset = s0.reset \cup {"TRACE", "MAG"}
  BY <1>2, FieldNames DEF Only, Typed
<1> HIDE DEF q
<1>5. Quiet(s0, s) /\ Typed(s) /\ Only(q, s, {"pm"})
  BY <1>3, AgeType, QuietTrans DEF Quiet
<1> HIDE DEF s
<1>6. "TRACE" \in s.reset /\ s.drawn = {}
  BY <1>2, <1>4, <1>5, FieldNames DEF Only
<1>7. Part(s, {})
  BY <1>2, <1>5, QuietScene
<1>8. TraceOk(tracePixmap(s))
  BY <1>6, <1>7, TraceTraced DEF Traced
<1>9. TraceOk(t)
  <2>1. Area("MAG") \in Areas /\ Typed(u)
    <3>1. Drew(s, u, {}, Area("MAG"))
      BY <1>7, MagPixmap
    <3>2. QED
      BY <1>5, <3>1, OtherSlot DEF Drew, Part
  <2>2. PICK v, i : /\ Keeps(s, v) /\ Typed(v) /\ i \in Slots
                    /\ Keeps(Show(v, Area("MAG"), i), u)
    BY <1>5, MagSteps
  <2> HIDE DEF u
  <2>3. v.drawn = {} /\ "TRACE" \in v.reset
    BY <1>6, <2>2 DEF Keeps
  <2>4. Only(v, Show(v, Area("MAG"), i), {"shown", "dead", "left", "drawn"})
        /\ Show(v, Area("MAG"), i).drawn = {Area("MAG")}
    <3>1. Show(v, Area("MAG"), i).drawn = v.drawn \cup {Area("MAG")}
      BY <2>2, FieldNames DEF Show, Typed
    <3>2. QED
      BY <2>1, <2>2, <2>3, <3>1, ShowType
  <2>5. "TRACE" \in Show(v, Area("MAG"), i).reset
    BY <2>3, <2>4, FieldNames DEF Only
  <2>6. u.drawn = {Area("MAG")} /\ "TRACE" \in u.reset
    BY <2>2, <2>4, <2>5 DEF Keeps
  <2>7. Only(u, t, {"lost"}) /\ t.lost = u.lost \cup {"gain"}
    BY <2>1, FieldNames DEF Only, Typed
  <2> HIDE DEF t
  <2>8. t.drawn = {Area("MAG")} /\ "TRACE" \in t.reset /\ "gain" \in t.lost
    BY <2>6, <2>7, FieldNames DEF Only
  <2>9. PageCache(t) /\ PaneCache(t)
    BY <2>8 DEF PageCache, PaneCache
  <2>10. KindOf(t, Area("MAG")) # "TRACE"
    BY DEF KindOf, Area
  <2>11. Seen(t)
    BY <2>8, <2>10 DEF Seen
  <2>12. QED
    BY <2>9, <2>11 DEF TraceOk
<1> HIDE DEF t
<1>10. QED
  BY <1>1, <1>8, <1>9, DoTraced

LEMMA TFormDispTraced ==
    ASSUME TraceInv, tFormDisp
    PROVE  TraceOk(g)'
<1> DEFINE t == IF g.tf = "on" THEN "off" ELSE "on"
           q == AgeFFT(Age([s0 EXCEPT !.tf = t], TwoPanes({"MAG", "SPEC"})))
           s == AllReset(q)
<1>1. Do(redrawPage(s, g.page, MainArea(g.page)))
  BY DEF tFormDisp
<1>2. t \in OnOff /\ Typed(s0)
  BY StartTraced DEF OnOff
<1> HIDE DEF t
<1>3. Quiet(s0, q) /\ Keeps(s0, q)
  BY <1>2, TfAged, TfKeeps, TraceSlotFacts
<1> HIDE DEF q
<1>4. Quiet(q, s) /\ Keeps(q, s)
  BY <1>3, KeptStart, MagSelectionType, MagSelectionKeeps DEF AllReset, makeMAGSelectionList
<1>5. Quiet(s0, s) /\ Keeps(s0, s)
  BY <1>3, <1>4, QuietTrans, KeepsTrans
<1> HIDE DEF s
<1>6. TraceOk(redrawPage(s, g.page, MainArea(g.page)))
  BY <1>5, KeptStart, RedrawTraced, MainAreaFacts DEF Traced
<1>7. QED
  BY <1>1, <1>6, DoTraced

LEMMA FltrSelectTraced ==
    ASSUME TraceInv, NEW b \in BOOLEAN, fltrSelect(b)
    PROVE  TraceOk(g)'
<1> DEFINE off == AgeFFT(Age([s0 EXCEPT !.tf = "off"], TwoPanes({"MAG", "SPEC"})))
           u == magPixmap(off)
           l == u.lost \cup {"edit"} \cup IF g.old["MAG"] = u.old["MAG"] THEN {"same"} ELSE {}
           t == [u EXCEPT !.lost = l]
           f == [s0 EXCEPT !.tf = "on", !.filter = TRUE]
<1>1. Do(magPixmap(s0)) \/ Do(t) \/ Do(f)
  <2>1. Do(IF g.tf = "off" THEN magPixmap(s0) ELSE t) \/ Do(f)
    BY DEF fltrSelect
  <2>2. QED
    BY <2>1
<1>2. "off" \in OnOff /\ Typed(s0) /\ Traced(s0) /\ s0.drawn = {}
  BY StartTraced DEF OnOff
<1>3. Quiet(s0, off) /\ Keeps(s0, off)
  BY <1>2, TfAged, TfKeeps, TraceSlotFacts
<1> HIDE DEF off
<1>4. Traced(u) /\ Typed(u)
  BY <1>3, KeptStart, MagTraced, TracedType
<1> HIDE DEF u
<1>5. TraceOk(t)
  <2>1. u.lost \subseteq l
    OBVIOUS
  <2> HIDE DEF l
  <2>2. Keeps(u, t)
    BY <1>4, <2>1, FlagKeeps
  <2>3. QED
    BY <1>4, <2>2, KeepsOk, TracedType
<1> HIDE DEF t
<1>6. TraceOk(f)
  <2>1. Only(s0, f, {"tf", "filter"})
    BY <1>2, FieldNames DEF Only, Typed
  <2> HIDE DEF f
  <2>2. Keeps(s0, f)
    BY <2>1, KeepsFields
  <2>3. QED
    BY <1>2, <2>2, KeepsOk, TracedType
<1> HIDE DEF f
<1>7. QED
  BY <1>1, <1>2, <1>5, <1>6, PagesTraced, DoTraced

LEMMA IdleFilterTraced ==
    ASSUME TraceInv, idleFilter
    PROVE  TraceOk(g)'
<1> DEFINE s == [s0 EXCEPT !.filter = FALSE]
<1>1. DoThen(s, "filter", <<>>)
  BY DEF idleFilter
<1>2. Keeps(s0, s) /\ TraceOk(s0)
  BY StartTraced, FlagKeeps, TracedType
<1> HIDE DEF s
<1>3. QED
  BY <1>1, <1>2, KeepsOk, DoTraced

LEMMA TFormSelTraced ==
    ASSUME TraceInv, NEW t \in OnOff, pqlTFormSel(t)
    PROVE  TraceOk(g)'
<1> DEFINE q == Transformed(s0, t)
           d == [q EXCEPT !.dirty = TRUE]
           s == makeMAGSelectionList(d)
<1>1. Do(redrawPage(s, g.page, g.curScr))
  BY DEF pqlTFormSel
<1>2. Quiet(s0, q) /\ Keeps(s0, q) /\ Typed(q)
  BY StartTraced, TransformedType, TransformedKeeps DEF Quiet
<1> HIDE DEF q
<1>3. Only(q, d, {"dirty"}) /\ d.dirty \in Types.dirty
  BY <1>2, FieldNames DEF Only, Typed, Types
<1> HIDE DEF d
<1>4. Quiet(q, d) /\ Keeps(q, d)
  BY <1>2, <1>3, QuietStep, KeepsFields DEF SceneFields
<1>5. Quiet(d, s) /\ Keeps(d, s)
  BY <1>4, MagSelectionType, MagSelectionKeeps DEF Quiet
<1>6. Quiet(s0, s) /\ Keeps(s0, s)
  BY <1>2, <1>4, <1>5, QuietTrans, KeepsTrans
<1> HIDE DEF s
<1>7. g.curScr \in Areas
  BY StartGood, FieldTypes DEF TraceInv
<1>8. TraceOk(redrawPage(s, g.page, g.curScr))
  BY <1>6, <1>7, KeptStart, RedrawTraced DEF Traced
<1>9. QED
  BY <1>1, <1>8, DoTraced

LEMMA ResumeTraced ==
    ASSUME TraceInv, Resume
    PROVE  TraceOk(g)'
<1> DEFINE t == tails[Len(tails)]
           W == Waiting
<1>1. tails # <<>> /\ g' = Rest(s0, t)
  BY DEF Resume
<1>2. tails \in Seq(W)
  BY DEF TraceInv, IInv
<1> HIDE DEF W
<1>3. t \in W
  BY <1>1, <1>2
<1> HIDE DEF t
<1>4. TraceOk(Rest(s0, t))
  BY <1>3, StartTraced, RestTraced DEF W
<1>5. QED
  BY <1>1, <1>4

LEMMA TraceInit ==
    ASSUME Init
    PROVE  TraceInv
<1>1. IInv
  BY InitInv
<1>2. /\ g.view = [k \in Kinds |-> "A"] /\ g.old = [k \in Kinds |-> Key(k, "A", "off")]
      /\ g.pm = [s \in Slots |-> IF s = Key("TRACE", "A", "off") THEN "ok" ELSE "none"]
      /\ g.drawn = {} /\ g.resetAll = TRUE
  BY DEF Init
<1>3. "TRACE" \in Kinds /\ Key("TRACE", "A", "off") = <<"TRACE", "A">>
  BY DEF Kinds, Key
<1>4. \A v \in Views : <<"TRACE", v>> \in Slots
  BY TraceSlotFacts DEF OnOff
<1>5. PageCache(g)
  BY <1>2, <1>3, <1>4 DEF PageCache
<1>6. PaneCache(g) /\ Seen(g)
  BY <1>2 DEF PaneCache, Seen
<1>7. QED
  BY <1>1, <1>5, <1>6 DEF TraceInv, TraceOk

LEMMA TraceNext ==
    ASSUME TraceInv, [Next]_vars
    PROVE  TraceInv'
<1>1. IInv'
  BY NextInv DEF TraceInv
<1>2. TraceOk(g)'
  <2>1. CASE \E a \in Areas : pixmap_cfg(a)
    BY <2>1, ResizeTraced
  <2>2. CASE \E p \in Pages : change_menu(p)
    BY <2>2, PageTraced
  <2>3. CASE \E b \in BOOLEAN : selectT(b) \/ nextTrace(b) \/ selectTrace(b) \/ fltrSelect(b)
    BY <2>3, SelectTraced, NextTraced, SelectTraceTraced, FltrSelectTraced
  <2>4. CASE ReadDone
    BY <2>4, ReadDoneTraced
  <2>5. CASE \E a \in Areas, w \in Windows :
          magBoundary(a, w) \/ xAxis(a, w) \/ xAxisShift(a, w) \/ magDrag(a, w) \/ scrollEvent(a, w)
    BY <2>5, BoundaryTraced, XAxisTraced, XAxisShiftTraced, DragTraced, ScrollTraced
  <2>6. CASE \E a \in Areas : selectMag(a) \/ vLine(a) \/ dragRelease(a)
    BY <2>6, SelectMagTraced, VLineTraced, DragReleaseTraced
  <2>7. CASE \E w \in Windows : snapMag(w)
    BY <2>7, SnapTraced
  <2>8. CASE displayType \/ timeAxis \/ reDraw \/ tFormDisp \/ idleFilter
    BY <2>8, DisplayTraced, TimeAxisTraced, ReDrawTraced, TFormDispTraced, IdleFilterTraced
  <2>9. CASE \E c \in Combos : paneKind(c[1], c[2], c[3])
    BY <2>9, PaneKindTraced
  <2>10. CASE \E p \in Panes : newSplit(p)
    BY <2>10, NewSplitTraced
  <2>11. CASE \E t \in OnOff : pqlTFormSel(t)
    BY <2>11, TFormSelTraced
  <2>12. CASE \E k \in Kinds \cup {"range", "none"} : Continue(k)
    BY <2>12, ContinueTraced
  <2>13. CASE Resume
    BY <2>13, ResumeTraced
  <2>14. CASE UNCHANGED vars
    <3>1. g' = g
      BY <2>14 DEF vars
    <3>2. QED
      BY <3>1 DEF TraceInv
  <2>15. QED
    BY <2>1, <2>2, <2>3, <2>4, <2>5, <2>6, <2>7, <2>8, <2>9, <2>10, <2>11, <2>12, <2>13, <2>14 DEF Next
<1>3. QED
  BY <1>1, <1>2 DEF TraceInv

-----------------------------------------------------------------------------
(* Theorems.                                                               *)

LEMMA Invariant == Spec => []IInv
<1>1. Init => IInv
  BY InitInv
<1>2. IInv /\ [Next]_vars => IInv'
  BY NextInv
<1>3. QED
  BY <1>1, <1>2, PTL DEF Spec

\* Every handler, in whatever order they run and nest, leaves the state within
\* its types: the flags are those of kinds, panes and areas that exist, and the
\* windows and pixmaps in use are of the sets they are looked up in.
THEOREM TypeCorrect == Spec => []TypeOK
<1>1. IInv => TypeOK
  BY GoodMain DEF IInv, TypeOK
<1>2. QED
  BY <1>1, Invariant, PTL

\* No area on the page that is up keeps a pixmap that makePixmap gave back,
\* but for one to be resized, one told of (left), and panes of one kind.
THEOREM AliveAlways == Spec => []Alive
<1>1. IInv => Alive
  <2>1. ASSUME IInv, NEW a \in g.dead \cap Visible(g), Alone(a)  PROVE  a \in g.resize \cup g.left
    <3>1. AloneIn(g, a)
      BY <2>1 DEF AloneIn, Alone
    <3>2. a \in Areas /\ Ok(g, a)
      BY <2>1 DEF IInv, Good, Part, Visible
    <3>3. QED
      BY <3>1, <3>2 DEF Ok
  <2>2. QED
    BY <2>1 DEF Alive
<1>2. QED
  BY <1>1, Invariant, PTL

\* Unless Next came to the end of the list, or a gain was entered on Magnify, the
\* trace page and the panes that show traces show, whenever a handler draws them,
\* the message while traces are read and otherwise the traces and their labels as
\* now selected: no cached plot outlives a change of the selection, the display
\* type or the layout of the panes.
THEOREM TraceFreshAlways == Spec => []TraceFresh
<1>1. TraceInv => TraceFresh
  <2>1. ASSUME TraceInv, g.lost \cap {"atEnd", "gain"} = {},
               NEW a \in (g.drawn \ g.dead) \cap Visible(g), KindOf(g, a) = "TRACE"
        PROVE  Shown(a) = Expected(a)
    <3>1. g.pm[g.shown[a]] = Due(g, a)
      BY <2>1 DEF TraceInv, TraceOk, Seen, Spared
    <3>2. Expected(a) = Due(g, a)
      <4>1. CASE a = Area("TRACE")
        BY <4>1 DEF Expected, Due
      <4>2. CASE a # Area("TRACE")
        BY <2>1, <4>2 DEF Expected, Due
      <4>3. QED
        BY <4>1, <4>2
    <3>3. QED
      BY <3>1, <3>2 DEF Shown
  <2>2. QED
    BY <2>1 DEF TraceFresh, FreshKind
<1>2. Init => TraceInv
  BY TraceInit
<1>3. TraceInv /\ [Next]_vars => TraceInv'
  BY TraceNext
<1>4. QED
  BY <1>1, <1>2, <1>3, PTL DEF Spec
=============================================================================
