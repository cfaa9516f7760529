----------------------------- MODULE MseedGroup -----------------------------
(***************************************************************************)
(* Pure operators: how the packets of a miniSEED file become one array of  *)
(* samples.  The trace groups of libmseed (contrib/libmseed/traceutils.c)  *)
(* and get_mseed_trace of utils/data/data_mseed.c.                         *)
(*                                                                         *)
(* Time is counted in ticks, One to a sample.  A sample is its time; Zero  *)
(* is what a gap is filled with.  All packets of a channel have one rate,  *)
(* but packets without samples may have none (rate FALSE).                 *)
(***************************************************************************)
EXTENDS Lists, SequencesExt

CONSTANT One        \* ticks per sample

ASSUME OneAssumption == One \in Nat \ {0}

Zero == -1

msr_endtime(p) == IF p.n = 0 \/ ~p.rate THEN p.s ELSE p.s + (p.n - 1) * One

Samples(p) == [i \in 1..p.n |-> p.s + (i - 1) * One]

-----------------------------------------------------------------------------
(* Trace groups: sequences of [s, e, d, rate] of one channel.              *)

Absolute(x) == IF x < 0 THEN -x ELSE x
Within(gap) == 2 * Absolute(gap) <= One         \* half a sample

\* Where p fits trace t: 1 at the end, 2 at the beginning, 0 nowhere.  With any,
\* the better of the two, however far (tolerance -2.0).
Whence(t, p, any) ==
    LET delta == IF p.rate THEN One ELSE 0
        post == p.s - t.e - delta
        pre == t.s - msr_endtime(p) - delta
    IN  IF any THEN (IF Absolute(post) < Absolute(pre) THEN 1 ELSE 2)
        ELSE IF ~(p.rate /\ t.rate) THEN 0
        ELSE IF Within(post) THEN 1 ELSE IF Within(pre) THEN 2 ELSE 0

\* mst_addmsr and mst_addspan.
Extended(t, s, e, d, whence) ==
    IF whence = 1 THEN [t EXCEPT !.e = e, !.d = @ \o d] ELSE [t EXCEPT !.s = s, !.d = d \o @]

mst_findadjacent(g, p, any) == {j \in DOMAIN g : Whence(g[j], p, any) # 0}

\* A packet without samples adds nothing where it fits, but makes a trace of its
\* own where it does not.
mst_addmsrtogroup(g, p, any) ==
    LET fits == mst_findadjacent(g, p, any)
        j == CHOOSE j \in fits : \A k \in fits : j <= k
    IN  IF fits = {} THEN Append(g, [s |-> p.s, e |-> msr_endtime(p), d |-> Samples(p), rate |-> p.rate])
        ELSE IF p.n = 0 \/ ~p.rate THEN g
        ELSE [g EXCEPT ![j] = Extended(@, p.s, msr_endtime(p), Samples(p), Whence(@, p, any))]

Group(packets, any) == FoldLeft(LAMBDA g, p : mst_addmsrtogroup(g, p, any), <<>>, packets)

\* By start, of those the longest first.
mst_groupsort(g) ==
    StableSort(StableSort(g, [t \in Elems(g) |-> -t.e]), [t \in Elems(g) |-> t.s])

FitsTrace(t, u) ==
    IF ~(t.rate /\ u.rate) THEN 0
    ELSE IF Within(u.s - t.e - One) THEN 1 ELSE IF Within(t.s - u.e - One) THEN 2 ELSE 0

\* Trace c takes in trace x, if that fits.
TakeIn(list, c, x) ==
    LET w == FitsTrace(list[c], list[x]) IN
    IF x = c \/ list[x].gone \/ w = 0 THEN list
    ELSE [list EXCEPT ![c] = Extended(@, list[x].s, list[x].e, list[x].d, w), ![x].gone = TRUE]

Places(list) == [i \in DOMAIN list |-> i]
TakeAll(list, c) ==
    IF list[c].gone THEN list ELSE FoldLeft(LAMBDA l, x : TakeIn(l, c, x), list, Places(list))

\* Every trace in turn takes in all the others that fit it; they leave the list.
Marked(g) ==
    [i \in DOMAIN g |-> [s |-> g[i].s, e |-> g[i].e, d |-> g[i].d, rate |-> g[i].rate, gone |-> FALSE]]
Remaining(list) == Only(list, {t \in Elems(list) : ~t.gone})
mst_groupheal(g) == Remaining(FoldLeft(TakeAll, Marked(g), Places(g)))

-----------------------------------------------------------------------------
(* get_mseed_trace: the traces of the group laid out in one array.         *)

Smaller(x, y) == IF x < y THEN x ELSE y
Greater(x, y) == IF x > y THEN x ELSE y

OlapPoints(end, t) == (end + One - t.s) \div One

\* MUTANT: the last sample of the overlap is not saved.
AddOverlapLess(a, t) ==
    LET pt == OlapPoints(a.end, t)
        full == t.e <= a.end + One
        n == IF full THEN Len(t.d) ELSE Smaller(pt, Len(t.d))
    IN  [a EXCEPT !.olaps = Append(@, [from |-> Len(a.data) - pt, d |-> SubSeq(t.d, 1, n - 1)]),
                  !.data = IF full THEN @ ELSE @ \o SubSeq(t.d, n + 1, Len(t.d)),
                  !.short = @ \/ (full /\ t.e > a.end)]

\* An overlap that ends by one sample after the end is full: nothing is copied
\* to the array.  short notes that the array misses that sample from then on.
\* (A count past the samples of t needs more jitter than these bounds allow.)
AddOverlap(a, t) ==
    LET pt == OlapPoints(a.end, t)
        full == t.e <= a.end + One
        n == IF full THEN Len(t.d) ELSE Smaller(pt, Len(t.d))
    IN  [a EXCEPT !.olaps = Append(@, [from |-> Len(a.data) - pt, d |-> SubSeq(t.d, 1, n)]),
                  !.data = IF full THEN @ ELSE @ \o SubSeq(t.d, n + 1, Len(t.d)),
                  !.short = @ \/ (full /\ t.e > a.end)]

\* MUTANT: the gap is filled up to the last sample before it.
GapFillMore(end, t) == (t.s - end) \div One
GapFill(end, t) == (t.s - end - One) \div One

\* MUTANT: bounds are taken after the fill.
AddGapLate(a, t) ==
    LET fill == GapFill(a.end, t)
        at == Len(a.data) + fill
    IN  [a EXCEPT !.gaps = Append(@, <<at, at + fill>>),
                  !.data = @ \o [i \in 1..fill |-> Zero] \o t.d]

AddGap(a, t) ==
    LET fill == GapFill(a.end, t)
        at == Len(a.data)
    IN  [a EXCEPT !.gaps = Append(@, <<at, at + fill>>),
                  !.data = @ \o [i \in 1..fill |-> Zero] \o t.d]

AddTrace(a, t) ==
    LET b == IF t.s < a.end + One THEN AddOverlap(a, t)
             ELSE IF t.s > a.end + One THEN AddGap(a, t)
             ELSE [a EXCEPT !.data = @ \o t.d]
    IN  [b EXCEPT !.end = Greater(@, t.e)]

\* No data, and the data of the first trace.
Nothing == [s |-> 0, end |-> 0, data |-> <<>>, gaps |-> <<>>, olaps |-> <<>>, short |-> FALSE, fast |-> FALSE]
Start(t) == [Nothing EXCEPT !.s = t.s, !.end = t.e, !.data = t.d]

\* Traces without samples are passed over; none left is no data.
WithData(list) == Only(list, {t \in Elems(list) : t.d # <<>>})
LayOut(g) == IF g = <<>> THEN Nothing ELSE FoldLeft(AddTrace, Start(g[1]), Tail(g))
Assemble(packets, any) == LayOut(WithData(mst_groupheal(mst_groupsort(Group(packets, any)))))
=============================================================================
