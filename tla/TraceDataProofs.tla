--------------------------- MODULE TraceDataProofs ---------------------------
(***************************************************************************)
(* Proofs about TraceData and MseedGroup, for any sampling interval, any   *)
(* packets and options and any number of openings: what is read stands     *)
(* where its time says, marked gaps are the entries without data, a file   *)
(* read packet by packet gives what its trace groups would, a multiplexed  *)
(* file is shared out among its traces, the log is in order of time, and   *)
(* no sample is lost or made up.                                           *)
(*                                                                         *)
(* First folds, then what the trace groups of libmseed hold (Placed), how  *)
(* they are laid out (LaidOut), the two ways of reading, the headers, the  *)
(* invariant of the traces (Consistent), the windows (Sharing) and how     *)
(* often a sample is in each of them (Tally, AllKept).                     *)
(***************************************************************************)
EXTENDS TraceData, ListProofs

-----------------------------------------------------------------------------
(* Folds: the value after the first k elements.                            *)

\* The largest of 1 .. k is k, and a set of the first k + 1 that holds k + 1 has
\* it as its largest.
LEMMA Largest ==
    ASSUME NEW k \in Nat, NEW S \in SUBSET (1 .. k + 1), k + 1 \in S
    PROVE  Max(S) = k + 1 /\ S \ {k + 1} \in SUBSET (1 .. k)
<1>1. \A y \in S : k + 1 >= y /\ y \in 1 .. k + 1
  OBVIOUS
<1>2. ASSUME NEW x \in S, \A y \in S : x >= y PROVE x = k + 1
  BY <1>1, <1>2
<1>3. Max(S) = k + 1
  <2>1. Max(S) \in S /\ \A y \in S : Max(S) >= y
    BY <1>1 DEF Max
  <2> QED BY <1>2, <2>1
<1>4. S \ {k + 1} \in SUBSET (1 .. k)
  OBVIOUS
<1> QED BY <1>3, <1>4

\* The function that folds F over the subsets of the places of a list.
IsFold(h, F, base, seq, n) ==
    h = [S \in SUBSET (1 .. n) |->
            IF S = {} THEN base ELSE F[<<h[S \ {Max(S)}], seq[Max(S)]>>]]

\* A list folded by a function on a set of values has a result after every set of
\* its places.
LEMMA FoldExists ==
    ASSUME NEW V, NEW base \in V, NEW E, NEW seq \in Seq(E), NEW F \in [V \X E -> V]
    PROVE  \E h : IsFold(h, F, base, seq, Len(seq)) /\ h \in [SUBSET (1 .. Len(seq)) -> V]
<1> DEFINE N == Len(seq)
           P(n) == \E h : IsFold(h, F, base, seq, n) /\ h \in [SUBSET (1 .. n) -> V]
           Q == {n \in Nat : n <= N => P(n)}
<1>0. N \in Nat /\ \A k \in 1 .. N : seq[k] \in E
  OBVIOUS
<1> HIDE DEF N
<1>1. 0 \in Q
  <2> DEFINE h == [S \in SUBSET (1 .. 0) |-> base]
  <2>1. SUBSET (1 .. 0) = {{}}
    OBVIOUS
  <2>2. IsFold(h, F, base, seq, 0)
    BY <2>1 DEF IsFold
  <2>3. h \in [SUBSET (1 .. 0) -> V]
    OBVIOUS
  <2>4. P(0)
    BY <2>2, <2>3
  <2> HIDE DEF P
  <2> QED BY <2>4
<1>2. ASSUME NEW n \in Q PROVE n + 1 \in Q
  <2>0. SUFFICES ASSUME n + 1 <= N PROVE P(n + 1)
    <3> HIDE DEF P
    <3> QED OBVIOUS
  <2>6. P(n)
    <3> HIDE DEF P
    <3> QED BY <1>0, <2>0
  <2>1. PICK f : IsFold(f, F, base, seq, n) /\ f \in [SUBSET (1 .. n) -> V]
    BY <2>6
  <2> DEFINE h == [S \in SUBSET (1 .. n + 1) |->
                     IF n + 1 \in S THEN F[<<f[S \ {n + 1}], seq[n + 1]>>] ELSE f[S]]
  <2>2. n \in Nat /\ seq[n + 1] \in E
    BY <1>0, <2>0
  <2>3. ASSUME NEW S \in SUBSET (1 .. n + 1)
        PROVE  /\ h[S] \in V
               /\ h[S] = IF S = {} THEN base ELSE F[<<h[S \ {Max(S)}], seq[Max(S)]>>]
    <3>1. CASE n + 1 \in S
      <4>1. Max(S) = n + 1 /\ S \ {n + 1} \in SUBSET (1 .. n) /\ S # {}
        BY <2>2, <3>1, Largest
      <4>2. h[S] = F[<<f[S \ {n + 1}], seq[n + 1]>>] /\ h[S \ {n + 1}] = f[S \ {n + 1}]
        BY <3>1, <4>1
      <4>3. f[S \ {n + 1}] \in V
        BY <2>1, <4>1
      <4> QED BY <2>2, <4>1, <4>2, <4>3
    <3>2. CASE n + 1 \notin S
      <4>1. S \in SUBSET (1 .. n) /\ h[S] = f[S]
        BY <2>2, <3>2
      <4>2. f[S] = IF S = {} THEN base ELSE F[<<f[S \ {Max(S)}], seq[Max(S)]>>]
        BY <2>1, <4>1 DEF IsFold
      <4>3. h[S \ {Max(S)}] = f[S \ {Max(S)}]
        BY <3>2
      <4> QED BY <2>1, <4>1, <4>2, <4>3
    <3> QED BY <3>1, <3>2
  <2>4. IsFold(h, F, base, seq, n + 1)
    BY <2>3 DEF IsFold
  <2>5. h \in [SUBSET (1 .. n + 1) -> V]
    BY <2>3
  <2> QED BY <2>4, <2>5
<1> HIDE DEF P
<1>3. Q = Nat
  <2> HIDE DEF Q
  <2>1. Q \in SUBSET Nat
    BY DEF Q
  <2> QED BY <1>1, <1>2, <2>1, SetInduction
<1>4. P(N)
  BY <1>0, <1>3
<1> QED BY <1>4 DEF N, P

\* A fold goes through the first k places for every k.
LEMMA FoldPrefix ==
    ASSUME NEW k \in Nat, k # 0
    PROVE  1 .. k # {} /\ Max(1 .. k) = k /\ (1 .. k) \ {k} = 1 .. k - 1
<1>1. k - 1 \in Nat /\ (k - 1) + 1 = k /\ k \in 1 .. k
  OBVIOUS
<1>2. Max(1 .. k) = k
  BY <1>1, Largest
<1> QED BY <1>2

LEMMA LargestExists ==
    ASSUME NEW n \in Nat, NEW S \in SUBSET (1 .. n), S # {}
    PROVE  Max(S) \in S
<1> DEFINE Q == {m \in Nat : \A T \in SUBSET (1 .. m) : T # {} => Max(T) \in T}
<1>1. 0 \in Q
  <2>1. 1 .. 0 = {}
    OBVIOUS
  <2> QED BY <2>1
<1>2. ASSUME NEW m \in Q PROVE m + 1 \in Q
  <2> SUFFICES ASSUME NEW T \in SUBSET (1 .. m + 1), T # {} PROVE Max(T) \in T
    OBVIOUS
  <2>1. CASE m + 1 \in T
    BY <2>1, Largest
  <2>2. CASE m + 1 \notin T
    BY <2>2
  <2> QED BY <2>1, <2>2
<1>3. Q = Nat
  <2> HIDE DEF Q
  <2>1. Q \in SUBSET Nat
    BY DEF Q
  <2> QED BY <1>1, <1>2, <2>1, SetInduction
<1>4. n \in Q
  BY <1>3
<1> QED BY <1>4

-----------------------------------------------------------------------------
(* Trace groups.                                                           *)

\* The traces of a group.
GroupTraces == [s : Int, e : Int, d : Seq(Int), rate : BOOLEAN]

Packets(list) == \A k \in DOMAIN list : Packet(list[k])

LEMMA PacketTypes ==
    ASSUME NEW p, Packet(p)
    PROVE  /\ p.s \in Nat /\ p.n \in Nat /\ p.rate \in BOOLEAN
           /\ msr_endtime(p) \in Int
           /\ Samples(p) \in Seq(Int) /\ Len(Samples(p)) = p.n
           /\ \A k \in 1 .. p.n : Samples(p)[k] = p.s + (k - 1) * One
<1>1. p.s \in Nat /\ p.n \in Nat /\ p.rate \in BOOLEAN
  BY DEF Packet
<1>2. msr_endtime(p) \in Int
  BY <1>1, OneAssumption DEF msr_endtime
<1>3. \A k \in 1 .. p.n : p.s + (k - 1) * One \in Int
  BY <1>1, OneAssumption
<1> QED BY <1>1, <1>2, <1>3 DEF Samples

LEMMA ExtendedTypes ==
    ASSUME NEW t \in GroupTraces, NEW s \in Int, NEW e \in Int, NEW d \in Seq(Int), NEW w
    PROVE  Extended(t, s, e, d, w) \in GroupTraces
<1>1. t.d \o d \in Seq(Int) /\ d \o t.d \in Seq(Int)
  BY DEF GroupTraces
<1> QED BY <1>1 DEF Extended, GroupTraces

LEMMA AddTypes ==
    ASSUME NEW g \in Seq(GroupTraces), NEW p, Packet(p), NEW any \in BOOLEAN
    PROVE  mst_addmsrtogroup(g, p, any) \in Seq(GroupTraces)
<1>1. [s |-> p.s, e |-> msr_endtime(p), d |-> Samples(p), rate |-> p.rate] \in GroupTraces
  BY PacketTypes DEF GroupTraces
<1>2. Append(g, [s |-> p.s, e |-> msr_endtime(p), d |-> Samples(p), rate |-> p.rate]) \in Seq(GroupTraces)
  BY <1>1
<1> DEFINE fits == mst_findadjacent(g, p, any)
           j == CHOOSE j \in fits : \A k \in fits : j <= k
           x == Extended(g[j], p.s, msr_endtime(p), Samples(p), Whence(g[j], p, any))
<1>3. ASSUME fits # {} PROVE j \in DOMAIN g
  <2>1. fits \in SUBSET Nat
    BY DEF mst_findadjacent
  <2>2. j \in fits
    BY <1>3, <2>1, LeastElement
  <2> QED BY <2>2 DEF mst_findadjacent
<1> HIDE DEF j, fits
<1>4. ASSUME fits # {} PROVE [g EXCEPT ![j] = x] \in Seq(GroupTraces)
  <2>1. j \in DOMAIN g /\ g[j] \in GroupTraces
    BY <1>3, <1>4
  <2>2. x \in GroupTraces
    BY <2>1, PacketTypes, ExtendedTypes
  <2> HIDE DEF x
  <2> QED BY <2>1, <2>2
<1> QED BY <1>2, <1>4 DEF mst_addmsrtogroup, j, fits, x

\* The groups of the first k packets.
LEMMA GroupRun ==
    ASSUME NEW E, NEW P \in Seq(E), Packets(P), NEW any \in BOOLEAN
    PROVE  \E r : /\ r[0] = <<>>
                  /\ \A k \in 1 .. Len(P) : r[k] = mst_addmsrtogroup(r[k - 1], P[k], any)
                  /\ Group(P, any) = r[Len(P)]
<1> DEFINE N == Len(P)
           V == Seq(GroupTraces)
           D == {P[k] : k \in DOMAIN P}
           F == [z \in V \X D |-> mst_addmsrtogroup(z[1], z[2], any)]
           IsIt(h) == h = [S \in SUBSET (1 .. N) |->
                             IF S = {} THEN <<>> ELSE mst_addmsrtogroup(h[S \ {Max(S)}], P[Max(S)], any)]
           it == CHOOSE h : IsIt(h)
<1>1. N \in Nat /\ DOMAIN P = 1 .. N /\ P \in Seq(D)
  OBVIOUS
<1>2. \A x \in V, p \in D : F[<<x, p>>] = mst_addmsrtogroup(x, p, any) /\ mst_addmsrtogroup(x, p, any) \in V
  BY AddTypes DEF Packets
<1>3. F \in [V \X D -> V] /\ <<>> \in V
  <2>1. ASSUME NEW z \in V \X D PROVE mst_addmsrtogroup(z[1], z[2], any) \in V
    <3> HIDE DEF V, D
    <3>1. z[1] \in V /\ z[2] \in D /\ z = <<z[1], z[2]>>
      OBVIOUS
    <3>2. \A x \in V, p \in D : mst_addmsrtogroup(x, p, any) \in V
      BY <1>2
    <3> QED BY <3>1, <3>2
  <2>2. <<>> \in V
    OBVIOUS
  <2> QED BY <2>1, <2>2
<1>4. Group(P, any) = it[1 .. N]
  BY <1>1 DEF Group, FoldLeft, MapThenFoldSet
<1> HIDE DEF N, V, D, F, it
<1>5. PICK h : IsFold(h, F, <<>>, P, N) /\ h \in [SUBSET (1 .. N) -> V]
  BY <1>1, <1>3, FoldExists DEF N
<1>6. ASSUME NEW S \in SUBSET (1 .. N), S # {}
      PROVE  F[<<h[S \ {Max(S)}], P[Max(S)]>>] = mst_addmsrtogroup(h[S \ {Max(S)}], P[Max(S)], any)
  <2>1. Max(S) \in S
    BY <1>1, <1>6, LargestExists
  <2>2. Max(S) \in DOMAIN P /\ S \ {Max(S)} \in SUBSET (1 .. N)
    BY <1>1, <2>1
  <2>3. P[Max(S)] \in D
    BY <2>2 DEF D
  <2>4. h[S \ {Max(S)}] \in V
    BY <1>5, <2>2
  <2> QED BY <1>2, <2>3, <2>4
<1>7. IsIt(h)
  BY <1>5, <1>6 DEF IsFold
<1>8. IsIt(it)
  BY <1>7 DEF it
<1> DEFINE r == [k \in 0 .. N |-> it[1 .. k]]
<1>9. r[0] = <<>>
  <2>1. 1 .. 0 = {} /\ 0 \in 0 .. N
    BY <1>1
  <2> QED BY <1>8, <2>1
<1>10. ASSUME NEW k \in 1 .. N PROVE r[k] = mst_addmsrtogroup(r[k - 1], P[k], any)
  <2>1. k \in Nat /\ k # 0 /\ k - 1 \in 0 .. N /\ k \in 0 .. N /\ 1 .. k \in SUBSET (1 .. N)
    BY <1>1
  <2>2. 1 .. k # {} /\ Max(1 .. k) = k /\ (1 .. k) \ {k} = 1 .. k - 1
    BY <2>1, FoldPrefix
  <2> QED BY <1>8, <2>1, <2>2
<1>11. N \in 0 .. N
  BY <1>1
<1> QED BY <1>4, <1>9, <1>10, <1>11 DEF N

-----------------------------------------------------------------------------
(* Packets on the grid of the samples.                                     *)

OnGrid(b, x) == \E q \in Int : x = b + q * One

\* Samples without a gap from s to e, each at its time.
Piece(s, e, d, b) ==
    /\ s \in Nat /\ e \in Nat /\ s <= e /\ OnGrid(b, s) /\ OnGrid(b, e)
    /\ d \in Seq(Nat) /\ d # <<>> /\ e = s + (Len(d) - 1) * One
    /\ \A k \in DOMAIN d : d[k] = s + (k - 1) * One

LEMMA PieceTypes ==
    ASSUME NEW b \in Int, NEW s, NEW e, NEW d, Piece(s, e, d, b)
    PROVE  /\ s \in Nat /\ e \in Nat /\ s \in Int /\ e \in Int /\ s <= e /\ OnGrid(b, s) /\ OnGrid(b, e)
           /\ d \in Seq(Nat) /\ d \in Seq(Int)
           /\ Len(d) \in Nat \ {0} /\ DOMAIN d = 1 .. Len(d) /\ e = s + (Len(d) - 1) * One
           /\ \A k \in 1 .. Len(d) : d[k] = s + (k - 1) * One /\ d[k] \in Nat
BY DEF Piece

\* After m and n sampling intervals m + n have passed.
LEMMA TwoSteps ==
    ASSUME NEW x \in Int, NEW y \in Int, NEW m \in Int, NEW n \in Int, y = x + m * One
    PROVE  y + n * One = x + (m + n) * One
BY OneAssumption

LEMMA LaterSample ==
    ASSUME NEW x \in Nat, NEW n \in Nat
    PROVE  x + n * One \in Nat
BY OneAssumption

\* Whole sampling intervals are compared by their number.
LEMMA Intervals ==
    ASSUME NEW p \in Int, NEW q \in Int
    PROVE  /\ p * One \in Int /\ (p + q) * One = p * One + q * One /\ (p - q) * One = p * One - q * One
           /\ p * One <= q * One <=> p <= q
           /\ p * One < q * One <=> p < q
BY OneAssumption

LEMMA Later ==
    ASSUME NEW s \in Int, NEW e \in Int, NEW u \in Int, NEW f \in Int, s <= e, u <= f, u = e + One
    PROVE  s <= u /\ e <= f
BY OneAssumption

LEMMA GridGap ==
    ASSUME NEW b \in Int, NEW x \in Int, NEW y \in Int, OnGrid(b, x), OnGrid(b, y)
    PROVE  Within(x - y - One) <=> x = y + One
<1>1. PICK p \in Int : x = b + p * One
  BY DEF OnGrid
<1>2. PICK q \in Int : y = b + q * One
  BY DEF OnGrid
<1>3. x - y - One = (p - q - 1) * One
  BY <1>1, <1>2, OneAssumption
<1>4. \A m \in Int : 2 * Absolute(m * One) <= One => m = 0
  BY OneAssumption DEF Absolute
<1>5. Within(x - y - One) => p - q - 1 = 0
  BY <1>3, <1>4 DEF Within
<1>6. p - q - 1 = 0 => x = y + One
  BY <1>3, OneAssumption
<1>7. x = y + One => Within(x - y - One)
  BY OneAssumption DEF Within, Absolute
<1> QED BY <1>5, <1>6, <1>7

\* Two pieces of which one begins where the other ends are one piece.
LEMMA JoinPieces ==
    ASSUME NEW b \in Int, NEW s, NEW e, NEW d, Piece(s, e, d, b),
           NEW u, NEW f, NEW c, Piece(u, f, c, b), u = e + One
    PROVE  Piece(s, f, d \o c, b)
<1>1. /\ s \in Nat /\ d \in Seq(Nat) /\ Len(d) \in Nat \ {0} /\ e = s + (Len(d) - 1) * One
      /\ f \in Nat /\ c \in Seq(Nat) /\ Len(c) \in Nat \ {0} /\ f = u + (Len(c) - 1) * One
      /\ s <= e /\ u <= f /\ e \in Nat /\ u \in Nat
  BY DEF Piece
<1>2. /\ d \o c \in Seq(Nat) /\ Len(d \o c) = Len(d) + Len(c) /\ DOMAIN (d \o c) = 1 .. Len(d) + Len(c)
      /\ \A k \in 1 .. Len(d) : (d \o c)[k] = d[k]
      /\ \A k \in Len(d) + 1 .. Len(d) + Len(c) : (d \o c)[k] = c[k - Len(d)]
  BY <1>1
<1>3. f = s + (Len(d \o c) - 1) * One
  BY <1>1, <1>2, OneAssumption
<1>4. ASSUME NEW k \in DOMAIN (d \o c) PROVE (d \o c)[k] = s + (k - 1) * One
  <2>1. CASE k <= Len(d)
    <3>1. k \in DOMAIN d /\ (d \o c)[k] = d[k]
      BY <1>1, <1>2, <2>1
    <3> QED BY <3>1 DEF Piece
  <2>2. CASE ~(k <= Len(d))
    <3> DEFINE m == Len(d)  j == k - m
    <3>1. m \in Nat /\ Len(c) \in Nat /\ k \in m + 1 .. m + Len(c)
      BY <1>1, <1>2, <2>2
    <3>2. j \in 1 .. Len(c) /\ m + (j - 1) = k - 1 /\ (d \o c)[k] = c[j]
      BY <1>2, <3>1
    <3>3. u = s + m * One
      BY <1>1, <3>1, OneAssumption
    <3>4. j \in DOMAIN c
      <4>1. DOMAIN c = 1 .. Len(c)
        BY PieceTypes, Zenon
      <4> QED BY <3>2, <4>1
    <3> HIDE DEF m, j
    <3>5. c[j] = u + (j - 1) * One
      BY <3>4 DEF Piece
    <3>6. u + (j - 1) * One = s + (m + (j - 1)) * One
      BY <1>1, <3>1, <3>2, <3>3, TwoSteps
    <3> QED BY <3>2, <3>5, <3>6
  <2> QED BY <2>1, <2>2
<1>5. s <= f /\ OnGrid(b, s) /\ OnGrid(b, f) /\ d \o c # <<>>
  BY <1>1, <1>2, OneAssumption DEF Piece
<1> QED BY <1>1, <1>2, <1>3, <1>4, <1>5 DEF Piece

Straight(t, b) ==
    /\ t \in GroupTraces
    /\ IF t.rate THEN Piece(t.s, t.e, t.d, b) ELSE t.d = <<>>

\* Some trace with samples reaches from s to e.
Spans(g, s, e) == \E j \in DOMAIN g : g[j].rate /\ g[j].s <= s /\ e <= g[j].e

OnGridAll(P, b) == \A k \in DOMAIN P : (P[k].rate <=> P[k].n > 0) /\ OnGrid(b, P[k].s)

LEMMA PacketPiece ==
    ASSUME NEW b \in Int, NEW p, Packet(p), p.rate, p.n > 0, OnGrid(b, p.s)
    PROVE  Piece(p.s, msr_endtime(p), Samples(p), b)
<1>1. p.s \in Nat /\ p.n \in Nat \ {0} /\ msr_endtime(p) = p.s + (p.n - 1) * One
  BY DEF Packet, msr_endtime
<1>2. Samples(p) \in Seq(Int) /\ Len(Samples(p)) = p.n /\ \A k \in 1 .. p.n : Samples(p)[k] = p.s + (k - 1) * One
  BY PacketTypes
<1>3. \A m \in Nat : m * One \in Nat /\ p.s + m * One \in Nat
  BY <1>1, OneAssumption
<1>4. \A k \in 1 .. p.n : p.s + (k - 1) * One \in Nat
  BY <1>1, <1>3
<1>5. Samples(p) \in Seq(Nat) /\ DOMAIN Samples(p) = 1 .. p.n /\ Samples(p) # <<>>
  <2>1. Samples(p) \in [1 .. p.n -> Nat]
    BY <1>4 DEF Samples
  <2>2. Samples(p) \in Seq(Nat) /\ DOMAIN Samples(p) = 1 .. p.n
    BY <1>1, <2>1
  <2> QED BY <1>1, <1>2, <2>2
<1>6. OnGrid(b, msr_endtime(p))
  <2>1. PICK q \in Int : p.s = b + q * One
    BY DEF OnGrid
  <2>2. msr_endtime(p) = b + (q + p.n - 1) * One
    BY <1>1, <2>1, OneAssumption
  <2> QED BY <1>1, <2>2 DEF OnGrid
<1>7. msr_endtime(p) \in Nat /\ p.s <= msr_endtime(p)
  BY <1>1, <1>3
<1> QED BY <1>1, <1>2, <1>5, <1>6, <1>7 DEF Piece

\* Where a packet on the grid fits a trace.
LEMMA WhenceOnGrid ==
    ASSUME NEW b \in Int, NEW t, Straight(t, b), NEW p, Packet(p), OnGrid(b, p.s), p.rate <=> p.n > 0,
           NEW any \in BOOLEAN, ~any, Whence(t, p, any) # 0
    PROVE  /\ t.rate /\ p.rate /\ p.n > 0
           /\ \/ Whence(t, p, any) = 1 /\ p.s = t.e + One
              \/ Whence(t, p, any) = 2 /\ t.s = msr_endtime(p) + One
<1>1. t.rate \in BOOLEAN /\ p.rate /\ t.rate /\ p.n > 0
  BY DEF Straight, GroupTraces, Whence, Packet
<1>2. Piece(t.s, t.e, t.d, b) /\ Piece(p.s, msr_endtime(p), Samples(p), b)
  BY <1>1, PacketPiece DEF Straight
<1>3. t.s \in Int /\ t.e \in Int /\ p.s \in Int /\ msr_endtime(p) \in Int
      /\ OnGrid(b, t.s) /\ OnGrid(b, t.e) /\ OnGrid(b, msr_endtime(p))
  BY <1>2 DEF Piece
<1>4. Within(p.s - t.e - One) <=> p.s = t.e + One
  BY <1>3, GridGap
<1>5. Within(t.s - msr_endtime(p) - One) <=> t.s = msr_endtime(p) + One
  BY <1>3, GridGap
<1>6. Whence(t, p, any) = IF Within(p.s - t.e - One) THEN 1
                            ELSE IF Within(t.s - msr_endtime(p) - One) THEN 2 ELSE 0
  BY <1>1 DEF Whence
<1> QED BY <1>1, <1>4, <1>5, <1>6

\* A packet added to a group of straight traces leaves them straight and the group
\* spanning what it did, and the packet.
LEMMA AddStraight ==
    ASSUME NEW b \in Int, NEW g \in Seq(GroupTraces), \A j \in DOMAIN g : Straight(g[j], b),
           NEW p, Packet(p), OnGrid(b, p.s), p.rate <=> p.n > 0,
           NEW any \in BOOLEAN, ~any, NEW h, h = mst_addmsrtogroup(g, p, any)
    PROVE  /\ \A j \in DOMAIN h : Straight(h[j], b)
           /\ \A s, e \in Int : Spans(g, s, e) => Spans(h, s, e)
           /\ p.n > 0 => Spans(h, p.s, msr_endtime(p))
<1> DEFINE fits == mst_findadjacent(g, p, any)
           j == CHOOSE j \in fits : \A k \in fits : j <= k
           new == [s |-> p.s, e |-> msr_endtime(p), d |-> Samples(p), rate |-> p.rate]
           w == Whence(g[j], p, any)
           x == Extended(g[j], p.s, msr_endtime(p), Samples(p), w)
<1>1. fits = {k \in DOMAIN g : Whence(g[k], p, any) # 0}
  BY DEF mst_findadjacent
<1>2. ASSUME fits # {} PROVE j \in DOMAIN g /\ w # 0
  <2>1. fits \in SUBSET Nat
    BY <1>1
  <2>2. j \in fits
    BY <1>2, <2>1, LeastElement
  <2> HIDE DEF j
  <2> QED BY <1>1, <2>2
<1>3. h = IF fits = {} THEN Append(g, new)
          ELSE IF p.n = 0 \/ ~p.rate THEN g ELSE [g EXCEPT ![j] = x]
  BY DEF mst_addmsrtogroup
<1>4. p.s \in Nat /\ p.n \in Nat /\ p.rate \in BOOLEAN /\ msr_endtime(p) \in Int /\ Samples(p) \in Seq(Int)
      /\ Len(Samples(p)) = p.n
  BY PacketTypes
<1> HIDE DEF fits, j
<1>5. CASE fits = {}
  <2>1. new \in GroupTraces
    BY <1>4 DEF GroupTraces
  <2>2. Straight(new, b)
    <3>1. CASE p.n > 0
      BY <2>1, <3>1, PacketPiece DEF Straight
    <3>2. CASE p.n = 0
      <4>1. Samples(p) = <<>> /\ ~p.rate
        BY <1>4, <3>2
      <4> QED BY <2>1, <4>1 DEF Straight
    <3> QED BY <1>4, <3>1, <3>2
  <2>3. h = Append(g, new)
    BY <1>3, <1>5
  <2>4. new.s = p.s /\ new.e = msr_endtime(p) /\ new.rate = p.rate
    OBVIOUS
  <2> HIDE DEF new
  <2>5. /\ DOMAIN h = 1 .. Len(g) + 1 /\ DOMAIN g = 1 .. Len(g) /\ Len(g) \in Nat
        /\ h[Len(g) + 1] = new /\ \A k \in 1 .. Len(g) : h[k] = g[k]
    BY <2>1, <2>3
  <2>6. \A k \in DOMAIN h : Straight(h[k], b)
    BY <2>2, <2>5
  <2>7. \A s, e \in Int : Spans(g, s, e) => Spans(h, s, e)
    <3> SUFFICES ASSUME NEW s \in Int, NEW e \in Int, Spans(g, s, e) PROVE Spans(h, s, e)
      OBVIOUS
    <3>1. PICK k \in DOMAIN g : g[k].rate /\ g[k].s <= s /\ e <= g[k].e
      BY DEF Spans
    <3>2. k \in DOMAIN h /\ h[k] = g[k]
      BY <2>5
    <3> QED BY <3>1, <3>2 DEF Spans
  <2>8. p.n > 0 => Spans(h, p.s, msr_endtime(p))
    <3>1. Len(g) + 1 \in DOMAIN h
      BY <2>5
    <3> QED BY <1>4, <2>4, <2>5, <3>1 DEF Spans
  <2> QED BY <2>6, <2>7, <2>8
<1>6. CASE fits # {}
  <2>1. j \in DOMAIN g /\ w # 0 /\ Straight(g[j], b)
    BY <1>2, <1>6
  <2>2. /\ g[j].rate /\ p.rate /\ p.n > 0
        /\ \/ w = 1 /\ p.s = g[j].e + One
           \/ w = 2 /\ g[j].s = msr_endtime(p) + One
    BY <2>1, WhenceOnGrid
  <2>3. Piece(g[j].s, g[j].e, g[j].d, b) /\ Piece(p.s, msr_endtime(p), Samples(p), b)
    BY <2>1, <2>2, PacketPiece DEF Straight
  <2>4. h = [g EXCEPT ![j] = x]
    BY <1>3, <1>6, <2>2
  <2>5. g[j] \in GroupTraces
    BY <2>1
  <2>6. Straight(x, b) /\ x.rate /\ x.s <= g[j].s /\ g[j].e <= x.e /\ x.s <= p.s /\ msr_endtime(p) <= x.e
    <3>1. x \in GroupTraces
      BY <1>4, <2>5, ExtendedTypes
    <3>2. g[j].s \in Nat /\ g[j].e \in Nat /\ g[j].s <= g[j].e /\ p.s <= msr_endtime(p)
      BY <2>3 DEF Piece
    <3>3. CASE w = 1 /\ p.s = g[j].e + One
      <4>1. x = [g[j] EXCEPT !.e = msr_endtime(p), !.d = g[j].d \o Samples(p)]
        BY <3>3 DEF Extended
      <4>2. x.s = g[j].s /\ x.e = msr_endtime(p) /\ x.d = g[j].d \o Samples(p) /\ x.rate = g[j].rate
        BY <2>5, <4>1 DEF GroupTraces
      <4>3. Piece(g[j].s, msr_endtime(p), g[j].d \o Samples(p), b)
        BY <2>3, <3>3, JoinPieces
      <4>4. Straight(x, b)
        BY <2>2, <3>1, <4>2, <4>3 DEF Straight
      <4> HIDE DEF x
      <4>5. g[j].e <= msr_endtime(p) /\ g[j].s <= p.s
        <5>1. p.s \in Int /\ msr_endtime(p) \in Int /\ g[j].s \in Int /\ g[j].e \in Int
          BY <2>3, PieceTypes, Zenon
        <5>2. g[j].s <= g[j].e /\ p.s <= msr_endtime(p) /\ p.s = g[j].e + One
          BY <3>2, <3>3
        <5> DEFINE gs == g[j].s  ge == g[j].e  ps == p.s  pe == msr_endtime(p)
        <5>3. ps \in Int /\ pe \in Int /\ gs \in Int /\ ge \in Int /\ gs <= ge /\ ps <= pe /\ ps = ge + One
          BY <5>1, <5>2
        <5> HIDE DEF gs, ge, ps, pe
        <5>4. gs <= ps /\ ge <= pe
          BY <5>3, Later
        <5> QED BY <5>4 DEF gs, ge, ps, pe
      <4> QED BY <2>2, <3>2, <4>2, <4>4, <4>5, <1>4
    <3>4. CASE w = 2 /\ g[j].s = msr_endtime(p) + One
      <4>1. x = [g[j] EXCEPT !.s = p.s, !.d = Samples(p) \o g[j].d]
        BY <3>4 DEF Extended
      <4>2. x.s = p.s /\ x.e = g[j].e /\ x.d = Samples(p) \o g[j].d /\ x.rate = g[j].rate
        BY <2>5, <4>1 DEF GroupTraces
      <4>3. Piece(p.s, g[j].e, Samples(p) \o g[j].d, b)
        BY <2>3, <3>4, JoinPieces
      <4>4. Straight(x, b)
        BY <2>2, <3>1, <4>2, <4>3 DEF Straight
      <4> HIDE DEF x
      <4>5. p.s <= g[j].s /\ msr_endtime(p) <= g[j].e
        BY <1>4, <3>2, <3>4, OneAssumption
      <4> QED BY <2>2, <3>2, <4>2, <4>4, <4>5, <1>4
    <3> QED BY <2>2, <3>3, <3>4
  <2> HIDE DEF x, w
  <2>7. DOMAIN h = DOMAIN g /\ h[j] = x /\ \A k \in DOMAIN g : k # j => h[k] = g[k]
    BY <2>1, <2>4
  <2>8. \A k \in DOMAIN h : Straight(h[k], b)
    BY <2>6, <2>7
  <2>9. ASSUME NEW s \in Int, NEW e \in Int, Spans(g, s, e) PROVE Spans(h, s, e)
    <3>1. PICK k \in DOMAIN g : g[k].rate /\ g[k].s <= s /\ e <= g[k].e
      BY <2>9 DEF Spans
    <3>2. CASE k = j
      <4>1. h[j].s <= s /\ e <= h[j].e /\ h[j].rate
        <5>1. x.s \in Int /\ x.e \in Int /\ g[j].s \in Int /\ g[j].e \in Int
          BY <2>5, <2>6 DEF Straight, GroupTraces
        <5> QED BY <2>6, <2>7, <3>1, <3>2, <5>1
      <4> QED BY <2>1, <2>7, <4>1 DEF Spans
    <3>3. CASE k # j
      BY <2>7, <3>1, <3>3 DEF Spans
    <3> QED BY <3>2, <3>3
  <2>10. Spans(h, p.s, msr_endtime(p))
    BY <2>1, <2>6, <2>7 DEF Spans
  <2> QED BY <2>8, <2>9, <2>10
<1> QED BY <1>5, <1>6

\* The groups of packets on the grid are straight, and span every packet with
\* samples.
LEMMA GroupStraight ==
    ASSUME NEW b \in Int, NEW E, NEW P \in Seq(E), Packets(P), OnGridAll(P, b),
           NEW any \in BOOLEAN, ~any
    PROVE  /\ Group(P, any) \in Seq(GroupTraces)
           /\ \A j \in DOMAIN Group(P, any) : Straight(Group(P, any)[j], b)
           /\ \A i \in DOMAIN P : P[i].n > 0 => Spans(Group(P, any), P[i].s, msr_endtime(P[i]))
<1> DEFINE N == Len(P)
<1>1. N \in Nat /\ DOMAIN P = 1 .. N
  OBVIOUS
<1>2. PICK r : /\ r[0] = <<>>
               /\ \A k \in 1 .. N : r[k] = mst_addmsrtogroup(r[k - 1], P[k], any)
               /\ Group(P, any) = r[N]
  BY GroupRun
<1> HIDE DEF N
<1> DEFINE I(m) == /\ r[m] \in Seq(GroupTraces)
                   /\ \A j \in DOMAIN r[m] : Straight(r[m][j], b)
                   /\ \A i \in 1 .. m : P[i].n > 0 => Spans(r[m], P[i].s, msr_endtime(P[i]))
           Q == {m \in Nat : m <= N => I(m)}
<1>3. I(0)
  BY <1>2
<1>4. ASSUME NEW m \in Nat, m + 1 <= N, I(m) PROVE I(m + 1)
  <2>1. m + 1 \in 1 .. N /\ r[m + 1] = mst_addmsrtogroup(r[m], P[m + 1], any)
    BY <1>1, <1>2, <1>4
  <2>2. Packet(P[m + 1]) /\ OnGrid(b, P[m + 1].s) /\ (P[m + 1].rate <=> P[m + 1].n > 0)
    BY <1>1, <2>1 DEF Packets, OnGridAll
  <2>3. r[m + 1] \in Seq(GroupTraces)
    BY <1>4, <2>1, <2>2, AddTypes
  <2>4. /\ \A j \in DOMAIN r[m + 1] : Straight(r[m + 1][j], b)
        /\ \A s, e \in Int : Spans(r[m], s, e) => Spans(r[m + 1], s, e)
        /\ P[m + 1].n > 0 => Spans(r[m + 1], P[m + 1].s, msr_endtime(P[m + 1]))
    BY <1>4, <2>1, <2>2, AddStraight
  <2>5. ASSUME NEW i \in 1 .. m + 1, P[i].n > 0 PROVE Spans(r[m + 1], P[i].s, msr_endtime(P[i]))
    <3>1. CASE i = m + 1
      BY <2>4, <2>5, <3>1
    <3>2. CASE i # m + 1
      <4>1. i \in 1 .. m /\ i \in DOMAIN P
        BY <1>1, <1>4, <3>2
      <4>2. P[i].s \in Int /\ msr_endtime(P[i]) \in Int
        <5>1. Packet(P[i])
          BY <4>1 DEF Packets
        <5> QED BY <5>1, PacketTypes
      <4>3. Spans(r[m], P[i].s, msr_endtime(P[i]))
        BY <1>4, <2>5, <4>1
      <4> QED BY <2>4, <4>2, <4>3
    <3> QED BY <3>1, <3>2
  <2> QED BY <2>3, <2>4, <2>5
<1> HIDE DEF I
<1>5. Q = Nat
  <2>1. 0 \in Q
    BY <1>3
  <2>2. \A m \in Q : m + 1 \in Q
    BY <1>1, <1>4
  <2> HIDE DEF Q
  <2>3. Q \in SUBSET Nat
    BY DEF Q
  <2> QED BY <2>1, <2>2, <2>3, SetInduction
<1>6. I(N)
  BY <1>1, <1>5
<1> QED BY <1>1, <1>2, <1>6 DEF I

\* What a group spans depends on its elements.
LEMMA SpansElems ==
    ASSUME NEW g, NEW h, \A t \in Elems(g) : t.rate => t \in Elems(h), NEW s, NEW e, Spans(g, s, e)
    PROVE  Spans(h, s, e)
<1>1. PICK j \in DOMAIN g : g[j].rate /\ g[j].s <= s /\ e <= g[j].e
  BY DEF Spans
<1>2. g[j] \in Elems(g)
  BY DEF Elems
<1>3. PICK k \in DOMAIN h : h[k] = g[j]
  BY <1>1, <1>2 DEF Elems
<1> QED BY <1>1, <1>3 DEF Spans

InOrder(g) == \A m, n \in DOMAIN g : m < n => g[m].s <= g[n].s

\* Sorting orders a group by start.
LEMMA SortedGroup ==
    ASSUME NEW g \in Seq(GroupTraces)
    PROVE  /\ mst_groupsort(g) \in Seq(GroupTraces)
           /\ Elems(mst_groupsort(g)) = Elems(g)
           /\ Len(mst_groupsort(g)) = Len(g)
           /\ InOrder(mst_groupsort(g))
<1> DEFINE T == Elems(g)
           byEnd == [t \in T |-> -t.e]
           byStart == [t \in T |-> t.s]
           h == StableSort(g, byEnd)
           i == StableSort(h, byStart)
<1>1. T \in SUBSET GroupTraces /\ g \in Seq(T)
  BY DEF Elems
<1>2. byEnd \in [T -> Int] /\ byStart \in [T -> Int]
  BY <1>1 DEF GroupTraces
<1>3. mst_groupsort(g) = i
  <2>1. mst_groupsort(g) = StableSort(StableSort(g, byEnd), byStart)
    BY DEF mst_groupsort
  <2> QED BY <2>1
<1> HIDE DEF T, byEnd, byStart, h, i
<1>4. h \in Seq(T) /\ Len(h) = Len(g) /\ Elems(h) = Elems(g)
  BY <1>1, <1>2, SortProperties DEF h
<1>5. /\ i \in Seq(T) /\ Len(i) = Len(h) /\ Elems(i) = Elems(h)
      /\ \A m, n \in 1 .. Len(h) : m < n => byStart[i[m]] <= byStart[i[n]]
  BY <1>2, <1>4, SortProperties DEF i
<1>6. DOMAIN i = 1 .. Len(h) /\ \A m \in DOMAIN i : i[m] \in T /\ byStart[i[m]] = i[m].s
  BY <1>5 DEF byStart
<1>7. InOrder(i)
  BY <1>5, <1>6 DEF InOrder
<1>8. i \in Seq(GroupTraces)
  BY <1>1, <1>5
<1> QED BY <1>3, <1>4, <1>5, <1>7, <1>8

-----------------------------------------------------------------------------
(* Healing.                                                                *)

HealTraces == [s : Int, e : Int, d : Seq(Int), rate : BOOLEAN, gone : BOOLEAN]

\* Lists of n traces to be healed.
HealLists(n) == [1 .. n -> HealTraces]

LEMMA TakeInTypes ==
    ASSUME NEW n \in Nat, NEW l \in HealLists(n), NEW c \in 1 .. n, NEW x \in 1 .. n
    PROVE  TakeIn(l, c, x) \in HealLists(n)
<1>1. l[c] \in HealTraces /\ l[x] \in HealTraces
  BY DEF HealLists
<1>2. l[x].s \in Int /\ l[x].e \in Int /\ l[x].d \in Seq(Int) /\ l[c].d \in Seq(Int)
  BY <1>1 DEF HealTraces
<1>3. l[c].d \o l[x].d \in Seq(Int) /\ l[x].d \o l[c].d \in Seq(Int)
  BY <1>2
<1> DEFINE w == FitsTrace(l[c], l[x])
           t == Extended(l[c], l[x].s, l[x].e, l[x].d, w)
<1>4. t \in HealTraces
  <2>1. CASE w = 1
    <3>1. t = [l[c] EXCEPT !.e = l[x].e, !.d = l[c].d \o l[x].d]
      BY <2>1 DEF Extended
    <3> QED BY <1>1, <1>2, <1>3, <3>1 DEF HealTraces
  <2>2. CASE w # 1
    <3>1. t = [l[c] EXCEPT !.s = l[x].s, !.d = l[x].d \o l[c].d]
      BY <2>2 DEF Extended
    <3> QED BY <1>1, <1>2, <1>3, <3>1 DEF HealTraces
  <2> QED BY <2>1, <2>2
<1>5. TakeIn(l, c, x) = IF x = c \/ l[x].gone \/ w = 0 THEN l
                        ELSE [[l EXCEPT ![c] = t] EXCEPT ![x] = [[l EXCEPT ![c] = t][x] EXCEPT !.gone = TRUE]]
  BY DEF TakeIn
<1> HIDE DEF w, t
<1>6. [l EXCEPT ![c] = t] \in HealLists(n)
  BY <1>4 DEF HealLists
<1>7. ASSUME NEW m \in HealLists(n) PROVE [m EXCEPT ![x] = [m[x] EXCEPT !.gone = TRUE]] \in HealLists(n)
  <2>1. m[x] \in HealTraces
    BY DEF HealLists
  <2>2. [m[x] EXCEPT !.gone = TRUE] \in HealTraces
    BY <2>1 DEF HealTraces
  <2> QED BY <2>2 DEF HealLists
<1> QED BY <1>5, <1>6, <1>7

\* Trace c takes in the first k traces.
LEMMA TakeAllRun ==
    ASSUME NEW n \in Nat, NEW l \in HealLists(n), NEW c \in 1 .. n, ~l[c].gone
    PROVE  \E r : /\ r[0] = l
                  /\ \A k \in 1 .. n : r[k] = TakeIn(r[k - 1], c, Places(l)[k])
                  /\ TakeAll(l, c) = r[n]
<1> DEFINE N == n
           V == HealLists(n)
           D == 1 .. n
           F == [z \in V \X D |-> TakeIn(z[1], c, z[2])]
           IsIt(h) == h = [S \in SUBSET (1 .. N) |->
                             IF S = {} THEN l ELSE TakeIn(h[S \ {Max(S)}], c, Places(l)[Max(S)])]
           it == CHOOSE h : IsIt(h)
<1>1. N \in Nat /\ DOMAIN Places(l) = 1 .. N /\ Places(l) \in Seq(D) /\ Len(Places(l)) = N
  BY DEF Places, HealLists
<1>2. \A v \in V, x \in D : TakeIn(v, c, x) \in V
  BY TakeInTypes
<1>3. F \in [V \X D -> V] /\ l \in V
  <2>1. ASSUME NEW z \in V \X D PROVE TakeIn(z[1], c, z[2]) \in V
    <3> HIDE DEF V, D
    <3>1. z[1] \in V /\ z[2] \in D /\ z = <<z[1], z[2]>>
      OBVIOUS
    <3> QED BY <1>2, <3>1
  <2>2. l \in V
    OBVIOUS
  <2> QED BY <2>1, <2>2
<1>4. TakeAll(l, c) = it[1 .. N]
  BY <1>1 DEF TakeAll, FoldLeft, MapThenFoldSet
<1> HIDE DEF N, V, D, it
<1>5. PICK h : IsFold(h, F, l, Places(l), N) /\ h \in [SUBSET (1 .. N) -> V]
  <2> HIDE DEF F
  <2> QED BY <1>1, <1>3, FoldExists
<1>6. ASSUME NEW S \in SUBSET (1 .. N), S # {}
      PROVE  F[<<h[S \ {Max(S)}], Places(l)[Max(S)]>>] = TakeIn(h[S \ {Max(S)}], c, Places(l)[Max(S)])
  <2>1. Max(S) \in S
    BY <1>1, <1>6, LargestExists
  <2>2. Max(S) \in DOMAIN Places(l) /\ S \ {Max(S)} \in SUBSET (1 .. N)
    BY <1>1, <2>1
  <2>3. Places(l)[Max(S)] \in D
    BY <1>1, <2>2
  <2>4. h[S \ {Max(S)}] \in V
    BY <1>5, <2>2
  <2> QED BY <2>3, <2>4
<1> HIDE DEF F
<1>7. IsIt(h)
  BY <1>5, <1>6 DEF IsFold
<1>8. IsIt(it)
  BY <1>7 DEF it
<1> DEFINE r == [k \in 0 .. N |-> it[1 .. k]]
<1>9. r[0] = l
  <2>1. 1 .. 0 = {} /\ 0 \in 0 .. N
    BY <1>1
  <2> QED BY <1>8, <2>1
<1>10. ASSUME NEW k \in 1 .. N PROVE r[k] = TakeIn(r[k - 1], c, Places(l)[k])
  <2>1. k \in Nat /\ k # 0 /\ k - 1 \in 0 .. N /\ k \in 0 .. N /\ 1 .. k \in SUBSET (1 .. N)
    BY <1>1
  <2>2. 1 .. k # {} /\ Max(1 .. k) = k /\ (1 .. k) \ {k} = 1 .. k - 1
    BY <2>1, FoldPrefix
  <2> QED BY <1>8, <2>1, <2>2
<1>11. N \in 0 .. N
  BY <1>1
<1>12. TakeAll(l, c) = r[N]
  BY <1>4, <1>11
<1> HIDE DEF r
<1> QED BY <1>9, <1>10, <1>12 DEF N

LEMMA TakeAllTypes ==
    ASSUME NEW n \in Nat, NEW l \in HealLists(n), NEW c \in 1 .. n
    PROVE  TakeAll(l, c) \in HealLists(n)
<1>1. CASE l[c].gone
  BY <1>1 DEF TakeAll
<1>2. CASE ~l[c].gone
  <2>1. PICK r : /\ r[0] = l
                 /\ \A k \in 1 .. n : r[k] = TakeIn(r[k - 1], c, Places(l)[k])
                 /\ TakeAll(l, c) = r[n]
    BY <1>2, TakeAllRun
  <2>2. \A k \in 1 .. n : Places(l)[k] = k
    BY DEF Places, HealLists
  <2> DEFINE Q == {m \in Nat : m <= n => r[m] \in HealLists(n)}
  <2>3. 0 \in Q
    BY <2>1
  <2>4. ASSUME NEW m \in Q PROVE m + 1 \in Q
    <3> SUFFICES ASSUME m + 1 <= n PROVE r[m + 1] \in HealLists(n)
      OBVIOUS
    <3>1. m + 1 \in 1 .. n /\ (m + 1) - 1 = m /\ r[m] \in HealLists(n)
      OBVIOUS
    <3>2. r[m + 1] = TakeIn(r[m], c, m + 1)
      BY <2>1, <2>2, <3>1
    <3> QED BY <3>1, <3>2, TakeInTypes
  <2>5. Q = Nat
    <3> HIDE DEF Q
    <3>1. Q \in SUBSET Nat
      BY DEF Q
    <3> QED BY <2>3, <2>4, <3>1, SetInduction
  <2>6. n \in Q
    BY <2>5
  <2> QED BY <2>1, <2>6
<1> QED BY <1>1, <1>2

\* A group with everything taken in that fits.
Healed(g) == FoldLeft(TakeAll, Marked(g), Places(g))

LEMMA HealIsHealed ==
    ASSUME NEW g
    PROVE  mst_groupheal(g) = Only(Healed(g), {t \in Elems(Healed(g)) : ~t.gone})
BY DEF mst_groupheal, Healed, Remaining

LEMMA MarkedTypes ==
    ASSUME NEW g \in Seq(GroupTraces)
    PROVE  /\ Marked(g) \in HealLists(Len(g))
           /\ \A i \in DOMAIN g : /\ Marked(g)[i].s = g[i].s /\ Marked(g)[i].e = g[i].e
                                  /\ Marked(g)[i].d = g[i].d /\ Marked(g)[i].rate = g[i].rate
                                  /\ ~Marked(g)[i].gone
<1>1. DOMAIN g = 1 .. Len(g) /\ \A i \in DOMAIN g : g[i] \in GroupTraces
  OBVIOUS
<1>2. ASSUME NEW i \in DOMAIN g
      PROVE  [s |-> g[i].s, e |-> g[i].e, d |-> g[i].d, rate |-> g[i].rate, gone |-> FALSE] \in HealTraces
  BY <1>1 DEF GroupTraces, HealTraces
<1> QED BY <1>1, <1>2 DEF Marked, HealLists

\* The first k traces have taken in what fits them.
LEMMA HealRun ==
    ASSUME NEW g \in Seq(GroupTraces)
    PROVE  \E r : /\ r[0] = Marked(g)
                  /\ \A k \in 1 .. Len(g) : r[k] = TakeAll(r[k - 1], Places(g)[k])
                  /\ Healed(g) = r[Len(g)]
<1> DEFINE N == Len(g)
           V == HealLists(Len(g))
           D == 1 .. Len(g)
           F == [z \in V \X D |-> TakeAll(z[1], z[2])]
           IsIt(h) == h = [S \in SUBSET (1 .. N) |->
                             IF S = {} THEN Marked(g) ELSE TakeAll(h[S \ {Max(S)}], Places(g)[Max(S)])]
           it == CHOOSE h : IsIt(h)
<1>1. N \in Nat /\ DOMAIN Places(g) = 1 .. N /\ Places(g) \in Seq(D) /\ Len(Places(g)) = N
  BY DEF Places
<1>2. \A v \in V, x \in D : TakeAll(v, x) \in V
  BY TakeAllTypes
<1>3. F \in [V \X D -> V] /\ Marked(g) \in V
  <2>1. ASSUME NEW z \in V \X D PROVE TakeAll(z[1], z[2]) \in V
    <3> HIDE DEF V, D
    <3>1. z[1] \in V /\ z[2] \in D /\ z = <<z[1], z[2]>>
      OBVIOUS
    <3> QED BY <1>2, <3>1
  <2>2. Marked(g) \in V
    BY MarkedTypes
  <2> QED BY <2>1, <2>2
<1>4. Healed(g) = it[1 .. N]
  BY <1>1 DEF Healed, FoldLeft, MapThenFoldSet
<1> HIDE DEF N, V, D, it
<1>5. PICK h : IsFold(h, F, Marked(g), Places(g), N) /\ h \in [SUBSET (1 .. N) -> V]
  <2> HIDE DEF F
  <2> QED BY <1>1, <1>3, FoldExists
<1>6. ASSUME NEW S \in SUBSET (1 .. N), S # {}
      PROVE  F[<<h[S \ {Max(S)}], Places(g)[Max(S)]>>] = TakeAll(h[S \ {Max(S)}], Places(g)[Max(S)])
  <2>1. Max(S) \in S
    BY <1>1, <1>6, LargestExists
  <2>2. Max(S) \in DOMAIN Places(g) /\ S \ {Max(S)} \in SUBSET (1 .. N)
    BY <1>1, <2>1
  <2>3. Places(g)[Max(S)] \in D
    BY <1>1, <2>2
  <2>4. h[S \ {Max(S)}] \in V
    BY <1>5, <2>2
  <2> QED BY <2>3, <2>4
<1> HIDE DEF F
<1>7. IsIt(h)
  BY <1>5, <1>6 DEF IsFold
<1>8. IsIt(it)
  BY <1>7 DEF it
<1> DEFINE r == [k \in 0 .. N |-> it[1 .. k]]
<1>9. r[0] = Marked(g)
  <2>1. 1 .. 0 = {} /\ 0 \in 0 .. N
    BY <1>1
  <2> QED BY <1>8, <2>1
<1>10. ASSUME NEW k \in 1 .. N PROVE r[k] = TakeAll(r[k - 1], Places(g)[k])
  <2>1. k \in Nat /\ k # 0 /\ k - 1 \in 0 .. N /\ k \in 0 .. N /\ 1 .. k \in SUBSET (1 .. N)
    BY <1>1
  <2>2. 1 .. k # {} /\ Max(1 .. k) = k /\ (1 .. k) \ {k} = 1 .. k - 1
    BY <2>1, FoldPrefix
  <2> QED BY <1>8, <2>1, <2>2
<1>11. N \in 0 .. N
  BY <1>1
<1>12. Healed(g) = r[N]
  BY <1>4, <1>11
<1> HIDE DEF r
<1> QED BY <1>9, <1>10, <1>12 DEF N

\* The times of a piece are numbers.
LEMMA PieceTimes ==
    ASSUME NEW s, NEW e, NEW d, NEW b, Piece(s, e, d, b)
    PROVE  s \in Nat /\ e \in Nat /\ s <= e /\ OnGrid(b, s) /\ OnGrid(b, e)
BY DEF Piece

Live(l, x) == l[x].rate /\ ~l[x].gone

\* What is left of the traces of g are pieces that begin where they did, and reach
\* as far as all of them.
Pieces(l, g, b) ==
    \A i \in DOMAIN g : /\ l[i].s = g[i].s /\ l[i].rate = g[i].rate
                        /\ IF l[i].rate THEN Piece(l[i].s, l[i].e, l[i].d, b) ELSE l[i].d = <<>>
Reaches(l, g) ==
    \A i \in DOMAIN g : g[i].rate => \E j \in DOMAIN g : Live(l, j) /\ l[j].s <= g[i].s /\ g[i].e <= l[j].e

\* No trace begins where one before c ends; none of the first x where c ends.
Done(l, g, c) ==
    \A x, u \in DOMAIN g : x < c /\ Live(l, x) /\ Live(l, u) => l[u].s # l[x].e + One
Passed(l, c, x) == Live(l, c) => \A i \in 1 .. x : Live(l, i) => l[i].s # l[c].e + One

\* In the order of starts a trace is extended only at its end.
LEMMA TakenAtEnd ==
    ASSUME NEW b \in Int, NEW g \in Seq(GroupTraces), InOrder(g), NEW l \in HealLists(Len(g)),
           NEW c \in DOMAIN g, NEW x \in DOMAIN g, Pieces(l, g, b), Done(l, g, c),
           ~l[c].gone, ~l[x].gone, x # c, FitsTrace(l[c], l[x]) # 0
    PROVE  /\ Live(l, c) /\ Live(l, x) /\ FitsTrace(l[c], l[x]) = 1 /\ l[x].s = l[c].e + One
<1>1. l[c] \in HealTraces /\ l[x] \in HealTraces /\ DOMAIN g = 1 .. Len(g)
  BY DEF HealLists
<1>2. l[c].rate \in BOOLEAN /\ l[x].rate \in BOOLEAN
  BY <1>1 DEF HealTraces
<1>3. l[c].rate /\ l[x].rate /\ Live(l, c) /\ Live(l, x)
  BY <1>2 DEF FitsTrace, Live
<1>4. Piece(l[c].s, l[c].e, l[c].d, b) /\ Piece(l[x].s, l[x].e, l[x].d, b)
  BY <1>3 DEF Pieces
<1>5. /\ l[c].s \in Int /\ l[c].e \in Int /\ l[x].s \in Int /\ l[x].e \in Int /\ l[x].s <= l[x].e
      /\ OnGrid(b, l[c].s) /\ OnGrid(b, l[c].e) /\ OnGrid(b, l[x].s) /\ OnGrid(b, l[x].e)
  BY <1>4, PieceTypes, Zenon
<1> DEFINE cs == l[c].s  ce == l[c].e  xs == l[x].s  xe == l[x].e
<1>9. cs \in Int /\ ce \in Int /\ xs \in Int /\ xe \in Int
      /\ OnGrid(b, cs) /\ OnGrid(b, ce) /\ OnGrid(b, xs) /\ OnGrid(b, xe)
  BY <1>5
<1> HIDE DEF cs, ce, xs, xe
<1>10. Within(xs - ce - One) <=> xs = ce + One
  BY <1>9, GridGap
<1>11. Within(cs - xe - One) <=> cs = xe + One
  BY <1>9, GridGap
<1> USE DEF cs, ce, xs, xe
<1>6. Within(l[x].s - l[c].e - One) <=> l[x].s = l[c].e + One
  BY <1>10
<1>7. Within(l[c].s - l[x].e - One) <=> l[c].s = l[x].e + One
  BY <1>11
<1>8. l[c].s # l[x].e + One
  <2> SUFFICES ASSUME l[c].s = l[x].e + One PROVE FALSE
    OBVIOUS
  <2>1. l[x].s < l[c].s
    BY <1>5, OneAssumption
  <2>2. ~(c < x)
    BY <1>5, <2>1 DEF InOrder, Pieces
  <2>3. x < c
    BY <1>1, <2>2
  <2> QED BY <1>3, <2>3 DEF Done
<1> QED BY <1>3, <1>6, <1>7, <1>8 DEF FitsTrace

\* In m trace c has what it and x had in l, and x is gone.
Taken(l, m, c, x, n) ==
    /\ m \in HealLists(n)
    /\ m[c].s = l[c].s /\ m[c].e = l[x].e /\ m[c].d = l[c].d \o l[x].d
    /\ m[c].rate = l[c].rate /\ m[c].gone = l[c].gone
    /\ m[x].s = l[x].s /\ m[x].e = l[x].e /\ m[x].d = l[x].d
    /\ m[x].rate = l[x].rate /\ m[x].gone
    /\ \A i \in 1 .. n : i # c /\ i # x => m[i] = l[i]

LEMMA TakenTraces ==
    ASSUME NEW n \in Nat, NEW l \in HealLists(n), NEW c \in 1 .. n, NEW x \in 1 .. n, x # c,
           ~l[x].gone, FitsTrace(l[c], l[x]) = 1
    PROVE  Taken(l, TakeIn(l, c, x), c, x, n)
<1> DEFINE m == TakeIn(l, c, x)
           t == [l[c] EXCEPT !.e = l[x].e, !.d = l[c].d \o l[x].d]
           y == [l[x] EXCEPT !.gone = TRUE]
<1>1. l[c] \in HealTraces /\ l[x] \in HealTraces
  BY DEF HealLists
<1>2. t = Extended(l[c], l[x].s, l[x].e, l[x].d, FitsTrace(l[c], l[x]))
  BY DEF Extended
<1>3. m = [l EXCEPT ![c] = Extended(l[c], l[x].s, l[x].e, l[x].d, FitsTrace(l[c], l[x])), ![x].gone = TRUE]
  BY DEF TakeIn
<1>4. /\ t.s = l[c].s /\ t.e = l[x].e /\ t.d = l[c].d \o l[x].d /\ t.rate = l[c].rate /\ t.gone = l[c].gone
      /\ y.s = l[x].s /\ y.e = l[x].e /\ y.d = l[x].d /\ y.rate = l[x].rate /\ y.gone
  BY <1>1 DEF HealTraces
<1>5. m = [l EXCEPT ![c] = t, ![x].gone = TRUE]
  BY <1>2, <1>3
<1>6. DOMAIN l = 1 .. n
  BY DEF HealLists
<1>7. m[c] = t /\ m[x] = y /\ \A i \in 1 .. n : i # c /\ i # x => m[i] = l[i]
  <2> HIDE DEF t
  <2> QED BY <1>5, <1>6
<1> HIDE DEF t, y, m
<1>8. m \in HealLists(n)
  BY TakeInTypes DEF m
<1> QED BY <1>4, <1>7, <1>8 DEF m, Taken

LEMMA TakeInStep ==
    ASSUME NEW b \in Int, NEW g \in Seq(GroupTraces), InOrder(g), NEW l \in HealLists(Len(g)),
           NEW c \in DOMAIN g, NEW x \in DOMAIN g, Pieces(l, g, b), Reaches(l, g), Done(l, g, c),
           ~l[c].gone, Passed(l, c, x - 1), NEW m, m = TakeIn(l, c, x)
    PROVE  /\ m \in HealLists(Len(g)) /\ Pieces(m, g, b) /\ Reaches(m, g) /\ Done(m, g, c)
           /\ ~m[c].gone /\ Passed(m, c, x)
<1>1. DOMAIN g = 1 .. Len(g) /\ x \in Nat /\ x # 0 /\ l[c] \in HealTraces /\ l[x] \in HealTraces
      /\ \A i \in DOMAIN g : l[i] \in HealTraces
  BY DEF HealLists
<1>2. CASE x = c \/ l[x].gone \/ FitsTrace(l[c], l[x]) = 0
  <2>1. m = l
    BY <1>2 DEF TakeIn
  <2>2. Live(l, c) /\ Live(l, x) => l[x].s # l[c].e + One
    <3> SUFFICES ASSUME Live(l, c), Live(l, x), l[x].s = l[c].e + One PROVE FALSE
      OBVIOUS
    <3>1. Piece(l[c].s, l[c].e, l[c].d, b) /\ Piece(l[x].s, l[x].e, l[x].d, b) /\ l[c].rate /\ l[x].rate /\ ~l[x].gone
      BY DEF Pieces, Live
    <3>2. l[c].s \in Int /\ l[c].e \in Int /\ l[c].s <= l[c].e
      BY <3>1, PieceTimes
    <3>3. x # c
      BY <3>2, OneAssumption
    <3>4. Within(l[x].s - l[c].e - One)
      BY <3>2, OneAssumption DEF Within, Absolute
    <3>5. FitsTrace(l[c], l[x]) = 1
      BY <3>1, <3>4 DEF FitsTrace
    <3> QED BY <1>2, <3>1, <3>3, <3>5
  <2>3. Passed(l, c, x)
    <3> SUFFICES ASSUME Live(l, c), NEW i \in 1 .. x, Live(l, i) PROVE l[i].s # l[c].e + One
      BY DEF Passed
    <3>1. i = x \/ i \in 1 .. x - 1
      BY <1>1
    <3> QED BY <2>2, <3>1 DEF Passed
  <2> QED BY <2>1, <2>3
<1>3. CASE ~(x = c \/ l[x].gone \/ FitsTrace(l[c], l[x]) = 0)
  <2>1. x # c /\ ~l[x].gone /\ FitsTrace(l[c], l[x]) # 0
    BY <1>3
  <2>2. Live(l, c) /\ Live(l, x) /\ FitsTrace(l[c], l[x]) = 1 /\ l[x].s = l[c].e + One
    BY <2>1, TakenAtEnd
  <2>3. /\ m \in HealLists(Len(g))
        /\ m[c].s = l[c].s /\ m[c].e = l[x].e /\ m[c].d = l[c].d \o l[x].d
        /\ m[c].rate = l[c].rate /\ m[c].gone = l[c].gone
        /\ m[x].s = l[x].s /\ m[x].e = l[x].e /\ m[x].d = l[x].d
        /\ m[x].rate = l[x].rate /\ m[x].gone
        /\ \A i \in 1 .. Len(g) : i # c /\ i # x => m[i] = l[i]
    <3>1. Len(g) \in Nat /\ c \in 1 .. Len(g) /\ x \in 1 .. Len(g) /\ x # c /\ ~l[x].gone /\ FitsTrace(l[c], l[x]) = 1
      BY <1>1, <2>1, <2>2
    <3>2. Taken(l, m, c, x, Len(g))
      BY <3>1, TakenTraces
    <3> QED BY <3>2 DEF Taken
  <2>4. Piece(l[c].s, l[c].e, l[c].d, b) /\ Piece(l[x].s, l[x].e, l[x].d, b)
    BY <2>2 DEF Pieces, Live
  <2>5. Piece(m[c].s, m[c].e, m[c].d, b)
    BY <2>2, <2>3, <2>4, JoinPieces
  <2>6. /\ l[c].s \in Int /\ l[c].e \in Int /\ l[x].s \in Int /\ l[x].e \in Int /\ l[c].s <= l[c].e /\ l[x].s <= l[x].e
    BY <2>4, PieceTypes, Zenon
  <2>7. Pieces(m, g, b)
    <3> SUFFICES ASSUME NEW i \in DOMAIN g
                 PROVE  /\ m[i].s = g[i].s /\ m[i].rate = g[i].rate
                        /\ IF m[i].rate THEN Piece(m[i].s, m[i].e, m[i].d, b) ELSE m[i].d = <<>>
      BY DEF Pieces
    <3>1. /\ l[i].s = g[i].s /\ l[i].rate = g[i].rate
          /\ IF l[i].rate THEN Piece(l[i].s, l[i].e, l[i].d, b) ELSE l[i].d = <<>>
      BY DEF Pieces
    <3>2. CASE i = c
      <4>1. m[c].rate
        BY <2>2, <2>3 DEF Live
      <4> QED BY <2>3, <2>5, <3>1, <3>2, <4>1
    <3>3. CASE i = x
      BY <2>3, <3>1, <3>3
    <3>4. CASE i # c /\ i # x
      BY <1>1, <2>3, <3>1, <3>4
    <3> QED BY <3>2, <3>3, <3>4
  <2>8. \A i \in DOMAIN g : Live(m, i) => i # x /\ Live(l, i) /\ m[i].s = l[i].s /\ (i # c => m[i].e = l[i].e)
    BY <1>1, <2>2, <2>3 DEF Live
  <2>9. \A i \in DOMAIN g : i # x /\ Live(l, i) => Live(m, i)
    BY <1>1, <2>2, <2>3 DEF Live
  <2>10. Reaches(m, g)
    <3> SUFFICES ASSUME NEW i \in DOMAIN g, g[i].rate
                 PROVE  \E j \in DOMAIN g : Live(m, j) /\ m[j].s <= g[i].s /\ g[i].e <= m[j].e
      BY DEF Reaches
    <3>1. PICK j \in DOMAIN g : Live(l, j) /\ l[j].s <= g[i].s /\ g[i].e <= l[j].e
      BY DEF Reaches
    <3>2. g[i].s \in Int /\ g[i].e \in Int
      <4>1. g[i] \in GroupTraces
        OBVIOUS
      <4> QED BY <4>1 DEF GroupTraces
    <3>3. CASE j = x \/ j = c
      <4>3. l[x].s = l[c].e + One
        BY <2>2
      <4>2. l[c].s <= l[x].s /\ l[c].e <= l[x].e
        <5> DEFINE cs == l[c].s  ce == l[c].e  xs == l[x].s  xe == l[x].e
        <5>1. cs \in Int /\ ce \in Int /\ xs \in Int /\ xe \in Int /\ cs <= ce /\ xs <= xe /\ xs = ce + One
          BY <2>6, <4>3
        <5> HIDE DEF cs, ce, xs, xe
        <5>2. cs <= xs /\ ce <= xe
          BY <5>1, Later
        <5> QED BY <5>2 DEF cs, ce, xs, xe
      <4>1. m[c].s <= g[i].s /\ g[i].e <= m[c].e
        <5>1. CASE j = x
          BY <2>3, <2>6, <3>1, <3>2, <4>2, <5>1
        <5>2. CASE j = c
          BY <2>3, <2>6, <3>1, <3>2, <4>2, <5>2
        <5> QED BY <3>3, <5>1, <5>2
      <4> QED BY <2>1, <2>2, <2>9, <4>1
    <3>4. CASE j # x /\ j # c
      BY <1>1, <2>3, <2>9, <3>1, <3>4
    <3> QED BY <3>3, <3>4
  <2>11. Done(m, g, c)
    <3> SUFFICES ASSUME NEW y \in DOMAIN g, NEW u \in DOMAIN g, y < c, Live(m, y), Live(m, u)
                 PROVE  m[u].s # m[y].e + One
      BY DEF Done
    <3>1. y # c
      BY <1>1
    <3>2. Live(l, y) /\ Live(l, u) /\ m[u].s = l[u].s /\ m[y].e = l[y].e
      BY <2>8, <3>1
    <3> QED BY <3>2 DEF Done
  <2>12. Passed(m, c, x)
    <3> SUFFICES ASSUME NEW i \in 1 .. x, Live(m, i) PROVE m[i].s # m[c].e + One
      BY DEF Passed
    <3>1. i \in DOMAIN g /\ (i = x \/ i < x)
      BY <1>1
    <3>2. m[i].s = g[i].s /\ l[x].s = g[x].s
      BY <2>7, <3>1 DEF Pieces
    <3>3. g[i].s <= g[x].s /\ g[i].s \in Int
      <4>1. g[i] \in GroupTraces
        BY <3>1
      <4>2. g[i].s \in Int
        BY <4>1 DEF GroupTraces
      <4> QED BY <2>6, <3>1, <3>2, <4>2 DEF InOrder
    <3> DEFINE is == g[i].s  xs == l[x].s  xe == l[x].e
    <3>4. is \in Int /\ xs \in Int /\ xe \in Int /\ is <= xs /\ xs <= xe
      BY <2>6, <3>2, <3>3
    <3> HIDE DEF is, xs, xe
    <3>5. is # xe + One
      BY <3>4, OneAssumption
    <3> QED BY <2>3, <3>2, <3>5 DEF is, xe
  <2> QED BY <2>3, <2>7, <2>10, <2>11, <2>12
<1> QED BY <1>2, <1>3

\* Trace c takes in whatever begins where it ends, again and again.
LEMMA TakeAllStep ==
    ASSUME NEW b \in Int, NEW g \in Seq(GroupTraces), InOrder(g), NEW l \in HealLists(Len(g)),
           NEW c \in DOMAIN g, Pieces(l, g, b), Reaches(l, g), Done(l, g, c)
    PROVE  /\ TakeAll(l, c) \in HealLists(Len(g)) /\ Pieces(TakeAll(l, c), g, b)
           /\ Reaches(TakeAll(l, c), g) /\ Done(TakeAll(l, c), g, c + 1)
<1> DEFINE N == Len(g)
<1>1. N \in Nat /\ DOMAIN g = 1 .. N
  OBVIOUS
<1>2. CASE l[c].gone
  <2>1. TakeAll(l, c) = l
    BY <1>2 DEF TakeAll
  <2>2. \A x \in DOMAIN g : x < c + 1 => x < c \/ x = c
    BY <1>1
  <2>3. ~Live(l, c)
    BY <1>2 DEF Live
  <2>4. Done(l, g, c + 1)
    BY <2>2, <2>3 DEF Done
  <2> QED BY <2>1, <2>4
<1>3. CASE ~l[c].gone
  <2>1. PICK r : /\ r[0] = l
                 /\ \A k \in 1 .. N : r[k] = TakeIn(r[k - 1], c, Places(l)[k])
                 /\ TakeAll(l, c) = r[N]
    <3>1. Len(g) \in Nat /\ c \in 1 .. Len(g)
      BY <1>1
    <3> QED BY <1>3, <3>1, TakeAllRun
  <2>2. \A k \in 1 .. N : Places(l)[k] = k
    BY DEF Places, HealLists
  <2> DEFINE I(m) == /\ r[m] \in HealLists(Len(g)) /\ Pieces(r[m], g, b) /\ Reaches(r[m], g)
                     /\ Done(r[m], g, c) /\ ~r[m][c].gone /\ Passed(r[m], c, m)
             Q == {m \in Nat : m <= N => I(m)}
  <2>3. I(0)
    BY <1>3, <2>1 DEF Passed
  <2>4. ASSUME NEW m \in Nat, m + 1 <= N, I(m) PROVE I(m + 1)
    <3>1. m + 1 \in 1 .. N /\ m + 1 \in DOMAIN g /\ (m + 1) - 1 = m
      BY <1>1, <2>4
    <3>2. r[m + 1] = TakeIn(r[m], c, m + 1)
      BY <2>1, <2>2, <3>1
    <3>3. Passed(r[m], c, (m + 1) - 1)
      BY <2>4, <3>1
    <3> QED BY <2>4, <3>1, <3>2, <3>3, TakeInStep
  <2> HIDE DEF I, N
  <2>5. Q = Nat
    <3>1. 0 \in Q
      BY <2>3
    <3>2. \A m \in Q : m + 1 \in Q
      BY <1>1, <2>4
    <3> HIDE DEF Q
    <3>3. Q \in SUBSET Nat
      BY DEF Q
    <3> QED BY <3>1, <3>2, <3>3, SetInduction
  <2>6. I(N)
    BY <1>1, <2>5
  <2>7. /\ r[N] \in HealLists(Len(g)) /\ Pieces(r[N], g, b) /\ Reaches(r[N], g)
        /\ Done(r[N], g, c) /\ Passed(r[N], c, N)
    BY <2>6 DEF I
  <2>8. Done(r[N], g, c + 1)
    <3> SUFFICES ASSUME NEW x \in DOMAIN g, NEW u \in DOMAIN g, x < c + 1, Live(r[N], x), Live(r[N], u)
                 PROVE  r[N][u].s # r[N][x].e + One
      BY DEF Done
    <3>1. x < c \/ x = c
      BY <1>1
    <3>2. u \in 1 .. N
      BY <1>1
    <3> QED BY <2>7, <3>1, <3>2 DEF Done, Passed
  <2> QED BY <2>1, <2>7, <2>8
<1> QED BY <1>2, <1>3

\* Healing leaves pieces in the order of their starts that reach as far as the
\* traces they were made of.
LEMMA HealedStraight ==
    ASSUME NEW b \in Int, NEW g \in Seq(GroupTraces), InOrder(g), \A j \in DOMAIN g : Straight(g[j], b)
    PROVE  /\ Healed(g) \in HealLists(Len(g)) /\ Pieces(Healed(g), g, b) /\ Reaches(Healed(g), g)
<1> DEFINE N == Len(g)
<1>1. N \in Nat /\ DOMAIN g = 1 .. N
  OBVIOUS
<1>2. PICK r : /\ r[0] = Marked(g)
               /\ \A k \in 1 .. N : r[k] = TakeAll(r[k - 1], Places(g)[k])
               /\ Healed(g) = r[N]
  BY HealRun
<1>3. \A k \in 1 .. N : Places(g)[k] = k
  BY <1>1 DEF Places
<1> DEFINE I(m) == /\ r[m] \in HealLists(Len(g)) /\ Pieces(r[m], g, b) /\ Reaches(r[m], g)
                   /\ Done(r[m], g, m + 1)
           Q == {m \in Nat : m <= N => I(m)}
<1>4. I(0)
  <2> DEFINE l == Marked(g)
  <2>1. /\ l \in HealLists(Len(g))
        /\ \A i \in DOMAIN g : /\ l[i].s = g[i].s /\ l[i].e = g[i].e
                               /\ l[i].d = g[i].d /\ l[i].rate = g[i].rate
                               /\ ~l[i].gone
    BY MarkedTypes
  <2> HIDE DEF l
  <2>2. Pieces(l, g, b)
    <3> SUFFICES ASSUME NEW i \in DOMAIN g
                 PROVE  /\ l[i].s = g[i].s /\ l[i].rate = g[i].rate
                        /\ IF l[i].rate THEN Piece(l[i].s, l[i].e, l[i].d, b) ELSE l[i].d = <<>>
      BY DEF Pieces
    <3>1. IF g[i].rate THEN Piece(g[i].s, g[i].e, g[i].d, b) ELSE g[i].d = <<>>
      BY DEF Straight
    <3>2. l[i].s = g[i].s /\ l[i].e = g[i].e /\ l[i].d = g[i].d /\ l[i].rate = g[i].rate
      BY <2>1
    <3> QED BY <3>1, <3>2
  <2>3. Reaches(l, g)
    <3> SUFFICES ASSUME NEW i \in DOMAIN g, g[i].rate
                 PROVE  \E j \in DOMAIN g : Live(l, j) /\ l[j].s <= g[i].s /\ g[i].e <= l[j].e
      BY DEF Reaches
    <3>1. g[i] \in GroupTraces
      OBVIOUS
    <3>2. g[i].s <= g[i].s /\ g[i].e <= g[i].e
      BY <3>1 DEF GroupTraces
    <3>3. l[i].s = g[i].s /\ l[i].e = g[i].e /\ l[i].rate = g[i].rate /\ ~l[i].gone
      BY <2>1
    <3>4. Live(l, i)
      BY <3>3 DEF Live
    <3> QED BY <3>2, <3>3, <3>4
  <2>4. \A x \in DOMAIN g : ~(x < 0 + 1)
    BY <1>1
  <2>5. Done(l, g, 0 + 1)
    BY <2>4 DEF Done
  <2> QED BY <1>2, <2>1, <2>2, <2>3, <2>5 DEF l
<1>5. ASSUME NEW m \in Nat, m + 1 <= N, I(m) PROVE I(m + 1)
  <2>1. m + 1 \in 1 .. N /\ m + 1 \in DOMAIN g /\ (m + 1) - 1 = m
    BY <1>1, <1>5
  <2>2. r[m + 1] = TakeAll(r[m], m + 1)
    BY <1>2, <1>3, <2>1
  <2> QED BY <1>5, <2>1, <2>2, TakeAllStep
<1> HIDE DEF I, N
<1>6. Q = Nat
  <2>1. 0 \in Q
    BY <1>4
  <2>2. \A m \in Q : m + 1 \in Q
    BY <1>1, <1>5
  <2> HIDE DEF Q
  <2>3. Q \in SUBSET Nat
    BY DEF Q
  <2> QED BY <2>1, <2>2, <2>3, SetInduction
<1>7. I(N)
  BY <1>1, <1>6
<1> QED BY <1>2, <1>7 DEF I

\* A group whose traces with samples are pieces.
Whole(g, b) ==
    /\ g \in Seq(HealTraces) /\ InOrder(g)
    /\ \A j \in DOMAIN g : IF g[j].rate THEN Piece(g[j].s, g[j].e, g[j].d, b) ELSE g[j].d = <<>>

\* Leaving traces out keeps the order.
LEMMA OnlyInOrder ==
    ASSUME NEW S, NEW g \in Seq(S), InOrder(g), NEW T
    PROVE  InOrder(Only(g, T))
<1> DEFINE h == Only(g, T)
<1>1. h \in Seq(S)
  BY OnlyProperties
<1>2. PICK at : Embeds(at, h, g)
  BY OnlyEmbeds
<1> HIDE DEF h
<1>3. /\ at \in [1 .. Len(h) -> DOMAIN g] /\ DOMAIN h = 1 .. Len(h)
      /\ \A k \in 1 .. Len(h) : h[k] = g[at[k]]
      /\ \A j, k \in 1 .. Len(h) : j < k => at[j] < at[k]
  BY <1>1, <1>2 DEF Embeds
<1> SUFFICES ASSUME NEW m \in DOMAIN h, NEW n \in DOMAIN h, m < n PROVE h[m].s <= h[n].s
  BY DEF InOrder, h
<1>4. at[m] \in DOMAIN g /\ at[n] \in DOMAIN g /\ at[m] < at[n]
  BY <1>3
<1> QED BY <1>3, <1>4 DEF InOrder

LEMMA HealStraight ==
    ASSUME NEW b \in Int, NEW g \in Seq(GroupTraces), InOrder(g), \A j \in DOMAIN g : Straight(g[j], b)
    PROVE  /\ Whole(mst_groupheal(g), b)
           /\ \A s, e \in Int : Spans(g, s, e) => Spans(mst_groupheal(g), s, e)
<1> DEFINE l == Healed(g)  T == {t \in Elems(l) : ~t.gone}  h == Only(l, T)
<1>1. l \in HealLists(Len(g)) /\ Pieces(l, g, b) /\ Reaches(l, g)
  BY HealedStraight
<1>2. mst_groupheal(g) = h
  BY HealIsHealed
<1> HIDE DEF l
<1>3. Len(g) \in Nat /\ DOMAIN g = 1 .. Len(g) /\ DOMAIN l = DOMAIN g /\ l \in Seq(HealTraces)
  BY <1>1 DEF HealLists
<1>4. InOrder(l)
  <2>1. \A i \in DOMAIN g : l[i].s = g[i].s
    BY <1>1 DEF Pieces
  <2> QED BY <1>3, <2>1 DEF InOrder
<1> HIDE DEF T
<1>5. h \in Seq(HealTraces) /\ Elems(h) = Elems(l) \cap T
  BY <1>3, OnlyProperties
<1>6. InOrder(h)
  BY <1>3, <1>4, OnlyInOrder
<1> HIDE DEF h
<1>7. ASSUME NEW j \in DOMAIN h
      PROVE  IF h[j].rate THEN Piece(h[j].s, h[j].e, h[j].d, b) ELSE h[j].d = <<>>
  <2>1. h[j] \in Elems(l)
    BY <1>5 DEF Elems
  <2>2. PICK i \in DOMAIN l : h[j] = l[i]
    BY <2>1 DEF Elems
  <2>3. IF l[i].rate THEN Piece(l[i].s, l[i].e, l[i].d, b) ELSE l[i].d = <<>>
    BY <1>1, <1>3 DEF Pieces
  <2> QED BY <2>2, <2>3
<1>8. ASSUME NEW s \in Int, NEW e \in Int, Spans(g, s, e) PROVE Spans(h, s, e)
  <2>1. PICK i \in DOMAIN g : g[i].rate /\ g[i].s <= s /\ e <= g[i].e
    BY <1>8 DEF Spans
  <2>2. PICK j \in DOMAIN g : Live(l, j) /\ l[j].s <= g[i].s /\ g[i].e <= l[j].e
    BY <1>1, <2>1 DEF Reaches
  <2>3. l[j] \in Elems(h)
    BY <1>3, <1>5, <2>2 DEF Elems, T, Live
  <2>4. PICK k \in DOMAIN h : h[k] = l[j]
    BY <2>3 DEF Elems
  <2>5. g[i] \in GroupTraces /\ l[j] \in HealTraces
    BY <1>3
  <2>6. g[i].s \in Int /\ g[i].e \in Int /\ l[j].s \in Int /\ l[j].e \in Int
    BY <2>5 DEF GroupTraces, HealTraces
  <2>7. l[j].s <= s /\ e <= l[j].e
    BY <2>1, <2>2, <2>6
  <2>8. h[k].rate /\ h[k].s <= s /\ e <= h[k].e
    BY <2>2, <2>4, <2>7 DEF Live
  <2> QED BY <2>8 DEF Spans
<1> QED BY <1>2, <1>5, <1>6, <1>7, <1>8 DEF Whole

-----------------------------------------------------------------------------
(* The array the traces of a group are laid out in.                        *)

Overlaps == [from : Int, d : Seq(Int)]
Layouts == [s : Int, end : Int, data : Seq(Int), gaps : Seq(Int \X Int), olaps : Seq(Overlaps),
            short : BOOLEAN, fast : BOOLEAN]

LEMMA LayoutTypes ==
    ASSUME NEW a \in Layouts
    PROVE  /\ a.s \in Int /\ a.end \in Int /\ a.data \in Seq(Int) /\ a.gaps \in Seq(Int \X Int)
           /\ a.olaps \in Seq(Overlaps) /\ a.short \in BOOLEAN /\ a.fast \in BOOLEAN
           /\ Len(a.data) \in Nat /\ DOMAIN a.data = 1 .. Len(a.data)
BY DEF Layouts

LEMMA TraceTypes ==
    ASSUME NEW t \in HealTraces
    PROVE  /\ t.s \in Int /\ t.e \in Int /\ t.d \in Seq(Int) /\ Len(t.d) \in Nat
           /\ DOMAIN t.d = 1 .. Len(t.d)
BY DEF HealTraces

\* One may divide by the sampling interval.
LEMMA Divided ==
    ASSUME NEW x \in Int
    PROVE  x \div One \in Int /\ (x >= 0 => x \div One >= 0)
BY OneAssumption

\* How many samples of t lie over what is there, and which of t are appended.
Covered(a, t) == t.e <= a.end + One
Over(a, t) == IF Covered(a, t) THEN Len(t.d) ELSE Smaller(OlapPoints(a.end, t), Len(t.d))

LEMMA OverTypes ==
    ASSUME NEW a \in Layouts, NEW t \in HealTraces, t.s < a.end + One
    PROVE  OlapPoints(a.end, t) \in Nat /\ Over(a, t) \in 0 .. Len(t.d)
<1>1. a.end \in Int /\ t.s \in Int /\ Len(t.d) \in Nat
  BY LayoutTypes, TraceTypes
<1>2. a.end + One - t.s \in Int /\ a.end + One - t.s >= 0
  BY <1>1, OneAssumption
<1>3. OlapPoints(a.end, t) \in Nat
  BY <1>2, Divided DEF OlapPoints
<1> QED BY <1>1, <1>3 DEF Over, Smaller

\* Layout a with the overlap, the gap, or neither, of trace t.
IsOverlap(a, c, t) ==
    /\ c \in Layouts /\ c.s = a.s /\ c.end = a.end /\ c.gaps = a.gaps
    /\ c.data = IF Covered(a, t) THEN a.data ELSE a.data \o SubSeq(t.d, Over(a, t) + 1, Len(t.d))
    /\ c.olaps = Append(a.olaps, [from |-> Len(a.data) - OlapPoints(a.end, t),
                                  d |-> SubSeq(t.d, 1, Over(a, t))])
    /\ c.short <=> a.short \/ (Covered(a, t) /\ t.e > a.end)

IsGap(a, c, t) ==
    LET fill == GapFill(a.end, t) IN
    /\ fill \in Nat
    /\ c \in Layouts /\ c.s = a.s /\ c.end = a.end /\ c.olaps = a.olaps /\ c.short = a.short
    /\ c.data = a.data \o [i \in 1 .. fill |-> Zero] \o t.d
    /\ c.gaps = Append(a.gaps, <<Len(a.data), Len(a.data) + fill>>)

Adjoined(a, t) == [a EXCEPT !.data = @ \o t.d]

IsJoined(a, c, t) ==
    /\ c \in Layouts /\ c.s = a.s /\ c.end = a.end /\ c.olaps = a.olaps /\ c.short = a.short
    /\ c.data = a.data \o t.d /\ c.gaps = a.gaps

LEMMA OverlapIs ==
    ASSUME NEW a \in Layouts, NEW t \in HealTraces, t.s < a.end + One, NEW c, c = AddOverlap(a, t)
    PROVE  IsOverlap(a, c, t)
<1> DEFINE n == Over(a, t)
           o == [from |-> Len(a.data) - OlapPoints(a.end, t), d |-> SubSeq(t.d, 1, n)]
           dt == IF Covered(a, t) THEN a.data ELSE a.data \o SubSeq(t.d, n + 1, Len(t.d))
           sh == a.short \/ (Covered(a, t) /\ t.e > a.end)
<1>1. /\ a.data \in Seq(Int) /\ a.olaps \in Seq(Overlaps) /\ a.short \in BOOLEAN /\ Len(a.data) \in Nat
      /\ t.d \in Seq(Int) /\ Len(t.d) \in Nat
  BY LayoutTypes, TraceTypes
<1>2. n \in 0 .. Len(t.d) /\ OlapPoints(a.end, t) \in Nat
  BY OverTypes
<1> HIDE DEF n
<1>3. SubSeq(t.d, 1, n) \in Seq(Int)
  <2>1. 0 \in 0 .. Len(t.d) /\ n \in 0 .. Len(t.d)
    BY <1>1, <1>2
  <2>2. SubSeq(t.d, 0 + 1, n) \in Seq(Int)
    BY <1>1, <2>1, RunProperties
  <2> QED BY <2>2
<1>4. SubSeq(t.d, n + 1, Len(t.d)) \in Seq(Int)
  <2>1. Len(t.d) \in n .. Len(t.d)
    BY <1>1, <1>2
  <2> QED BY <1>1, <1>2, <2>1, RunProperties
<1>5. o \in Overlaps
  BY <1>1, <1>2, <1>3 DEF Overlaps
<1>6. dt \in Seq(Int)
  BY <1>1, <1>4
<1>7. sh \in BOOLEAN
  OBVIOUS
<1>8. c = [a EXCEPT !.olaps = Append(a.olaps, o), !.data = dt, !.short = sh]
  BY DEF AddOverlap, Over, Covered, n
<1> HIDE DEF o, dt, sh
<1>9. Append(a.olaps, o) \in Seq(Overlaps)
  BY <1>1, <1>5
<1>10. /\ c \in Layouts /\ c.s = a.s /\ c.end = a.end /\ c.gaps = a.gaps
       /\ c.data = dt /\ c.olaps = Append(a.olaps, o) /\ c.short = sh
  BY <1>6, <1>7, <1>8, <1>9 DEF Layouts
<1> QED BY <1>10 DEF IsOverlap, o, dt, sh, n

LEMMA GapIs ==
    ASSUME NEW a \in Layouts, NEW t \in HealTraces, t.s > a.end + One, NEW c, c = AddGap(a, t)
    PROVE  IsGap(a, c, t)
<1> DEFINE fill == GapFill(a.end, t)
           dt == a.data \o [i \in 1 .. fill |-> Zero] \o t.d
           o == <<Len(a.data), Len(a.data) + fill>>
<1>1. /\ a.data \in Seq(Int) /\ a.gaps \in Seq(Int \X Int) /\ Len(a.data) \in Nat /\ a.end \in Int
      /\ t.d \in Seq(Int) /\ t.s \in Int
  BY LayoutTypes, TraceTypes
<1>2. fill \in Nat
  <2>1. t.s - a.end - One \in Int /\ t.s - a.end - One >= 0
    BY <1>1, OneAssumption
  <2> QED BY <2>1, Divided DEF GapFill
<1> HIDE DEF fill
<1>3. [i \in 1 .. fill |-> Zero] \in Seq(Int)
  BY <1>2 DEF Zero
<1>4. dt \in Seq(Int) /\ o \in Int \X Int
  BY <1>1, <1>2, <1>3
<1>5. c = [a EXCEPT !.gaps = Append(a.gaps, o), !.data = dt]
  BY DEF AddGap, fill
<1> HIDE DEF o, dt
<1>6. Append(a.gaps, o) \in Seq(Int \X Int)
  BY <1>1, <1>4
<1>7. /\ c \in Layouts /\ c.s = a.s /\ c.end = a.end /\ c.olaps = a.olaps /\ c.short = a.short
      /\ c.data = dt /\ c.gaps = Append(a.gaps, o)
  BY <1>4, <1>5, <1>6 DEF Layouts
<1> QED BY <1>2, <1>7 DEF IsGap, o, dt, fill

LEMMA JoinIs ==
    ASSUME NEW a \in Layouts, NEW t \in HealTraces, NEW c, c = Adjoined(a, t)
    PROVE  IsJoined(a, c, t)
<1> DEFINE d == a.data \o t.d
<1>1. d \in Seq(Int)
  BY LayoutTypes, TraceTypes
<1>2. c = [a EXCEPT !.data = d]
  BY DEF Adjoined
<1> HIDE DEF d
<1>3. /\ c \in Layouts /\ c.s = a.s /\ c.end = a.end /\ c.olaps = a.olaps /\ c.short = a.short
      /\ c.data = d /\ c.gaps = a.gaps
  BY <1>1, <1>2 DEF Layouts
<1> QED BY <1>3 DEF IsJoined, d

LEMMA EndIs ==
    ASSUME NEW a \in Layouts, NEW t \in HealTraces, NEW c, c = [a EXCEPT !.end = Greater(@, t.e)]
    PROVE  /\ c \in Layouts /\ c.s = a.s /\ c.end = Greater(a.end, t.e) /\ c.olaps = a.olaps
           /\ c.short = a.short /\ c.data = a.data /\ c.gaps = a.gaps
<1>1. Greater(a.end, t.e) \in Int
  BY LayoutTypes, TraceTypes DEF Greater
<1> QED BY <1>1 DEF Layouts

LEMMA AddTraceTypes ==
    ASSUME NEW a \in Layouts, NEW t \in HealTraces
    PROVE  AddTrace(a, t) \in Layouts
<1> DEFINE c == IF t.s < a.end + One THEN AddOverlap(a, t)
                ELSE IF t.s > a.end + One THEN AddGap(a, t)
                ELSE [a EXCEPT !.data = @ \o t.d]
<1>1. c \in Layouts
  <2>1. CASE t.s < a.end + One
    <3>1. c = AddOverlap(a, t)
      BY <2>1
    <3> HIDE DEF c
    <3>2. IsOverlap(a, c, t)
      BY <2>1, <3>1, OverlapIs, Zenon
    <3> QED BY <3>2 DEF IsOverlap
  <2>2. CASE ~(t.s < a.end + One) /\ t.s > a.end + One
    <3>1. c = AddGap(a, t)
      BY <2>2
    <3> HIDE DEF c
    <3>2. IsGap(a, c, t)
      BY <2>2, <3>1, GapIs, Zenon
    <3> QED BY <3>2 DEF IsGap
  <2>3. CASE ~(t.s < a.end + One) /\ ~(t.s > a.end + One)
    <3>1. c = Adjoined(a, t)
      BY <2>3 DEF Adjoined
    <3> HIDE DEF c
    <3>2. IsJoined(a, c, t)
      BY <3>1, JoinIs, Zenon
    <3> QED BY <3>2 DEF IsJoined
  <2> QED BY <2>1, <2>2, <2>3
<1>2. AddTrace(a, t) = [c EXCEPT !.end = Greater(@, t.e)]
  BY DEF AddTrace
<1> HIDE DEF c
<1> QED BY <1>1, <1>2, EndIs

LEMMA StartTypes ==
    ASSUME NEW g \in Seq(HealTraces), g # <<>>
    PROVE  Start(g[1]) \in Layouts
<1>1. g[1] \in HealTraces
  OBVIOUS
<1>2. g[1].s \in Int /\ g[1].e \in Int /\ g[1].d \in Seq(Int)
  BY <1>1, TraceTypes
<1>3. <<>> \in Seq(Int \X Int) /\ <<>> \in Seq(Overlaps)
  OBVIOUS
<1> QED BY <1>2, <1>3 DEF Start, Nothing, Layouts

\* The layout of the first trace and k more.
LEMMA LayoutRun ==
    ASSUME NEW g \in Seq(HealTraces), g # <<>>
    PROVE  \E r : /\ r[0] = Start(g[1])
                  /\ \A k \in 1 .. Len(Tail(g)) : r[k] = AddTrace(r[k - 1], Tail(g)[k])
                  /\ FoldLeft(AddTrace, Start(g[1]), Tail(g)) = r[Len(Tail(g))]
<1> DEFINE N == Len(Tail(g))
           V == Layouts
           D == HealTraces
           F == [z \in V \X D |-> AddTrace(z[1], z[2])]
           IsIt(h) == h = [S \in SUBSET (1 .. N) |->
                             IF S = {} THEN Start(g[1]) ELSE AddTrace(h[S \ {Max(S)}], Tail(g)[Max(S)])]
           it == CHOOSE h : IsIt(h)
<1>1. N \in Nat /\ DOMAIN Tail(g) = 1 .. N /\ Tail(g) \in Seq(D) /\ Len(Tail(g)) = N
  OBVIOUS
<1>2. \A v \in V, x \in D : AddTrace(v, x) \in V
  BY AddTraceTypes
<1>3. F \in [V \X D -> V] /\ Start(g[1]) \in V
  <2>1. ASSUME NEW z \in V \X D PROVE AddTrace(z[1], z[2]) \in V
    <3> HIDE DEF V, D
    <3>1. z[1] \in V /\ z[2] \in D /\ z = <<z[1], z[2]>>
      OBVIOUS
    <3> QED BY <1>2, <3>1
  <2>2. Start(g[1]) \in V
    BY StartTypes
  <2> QED BY <2>1, <2>2
<1>4. FoldLeft(AddTrace, Start(g[1]), Tail(g)) = it[1 .. N]
  BY <1>1 DEF FoldLeft, MapThenFoldSet
<1> HIDE DEF N, V, D, it
<1>5. PICK h : IsFold(h, F, Start(g[1]), Tail(g), N) /\ h \in [SUBSET (1 .. N) -> V]
  <2> HIDE DEF F
  <2> QED BY <1>1, <1>3, FoldExists
<1>6. ASSUME NEW S \in SUBSET (1 .. N), S # {}
      PROVE  F[<<h[S \ {Max(S)}], Tail(g)[Max(S)]>>] = AddTrace(h[S \ {Max(S)}], Tail(g)[Max(S)])
  <2>1. Max(S) \in S
    BY <1>1, <1>6, LargestExists
  <2>2. Max(S) \in DOMAIN Tail(g) /\ S \ {Max(S)} \in SUBSET (1 .. N)
    BY <1>1, <2>1
  <2>3. Tail(g)[Max(S)] \in D
    BY <1>1, <2>2
  <2>4. h[S \ {Max(S)}] \in V
    BY <1>5, <2>2
  <2> QED BY <2>3, <2>4
<1> HIDE DEF F
<1>7. IsIt(h)
  BY <1>5, <1>6 DEF IsFold
<1>8. IsIt(it)
  BY <1>7 DEF it
<1> DEFINE r == [k \in 0 .. N |-> it[1 .. k]]
<1>9. r[0] = Start(g[1])
  <2>1. 1 .. 0 = {} /\ 0 \in 0 .. N
    BY <1>1
  <2> QED BY <1>8, <2>1
<1>10. ASSUME NEW k \in 1 .. N PROVE r[k] = AddTrace(r[k - 1], Tail(g)[k])
  <2>1. k \in Nat /\ k # 0 /\ k - 1 \in 0 .. N /\ k \in 0 .. N /\ 1 .. k \in SUBSET (1 .. N)
    BY <1>1
  <2>2. 1 .. k # {} /\ Max(1 .. k) = k /\ (1 .. k) \ {k} = 1 .. k - 1
    BY <2>1, FoldPrefix
  <2> QED BY <1>8, <2>1, <2>2
<1>11. N \in 0 .. N
  BY <1>1
<1>12. FoldLeft(AddTrace, Start(g[1]), Tail(g)) = r[N]
  BY <1>4, <1>11
<1> HIDE DEF r
<1> QED BY <1>9, <1>10, <1>12 DEF N

\* The array grew by f entries without data and n with, which stand at their times.
Grown(a, c, f, n) ==
    /\ c.s = a.s /\ Len(c.data) = Len(a.data) + f + n
    /\ \A k \in 1 .. Len(a.data) : c.data[k] = a.data[k]
    /\ \A k \in Len(a.data) + 1 .. Len(a.data) + f : c.data[k] = Zero
    /\ \A k \in Len(a.data) + f + 1 .. Len(a.data) + f + n :
          c.data[k] = a.s + (k - 1) * One /\ c.data[k] # Zero

Timed(a) == \A k \in DOMAIN a.data : a.data[k] \in {Zero, a.s + (k - 1) * One}
Laid(a) ==
    \A o \in Elems(a.olaps) :
        /\ 0 <= o.from /\ o.from + Len(o.d) <= Len(a.data)
        /\ \A k \in DOMAIN o.d : o.d[k] = a.s + (o.from + k - 1) * One
InGap(a, k) == \E o \in Elems(a.gaps) : o[1] < k /\ k <= o[2]
Gaps(a) ==
    /\ \A k \in DOMAIN a.data : a.data[k] = Zero <=> InGap(a, k)
    /\ \A o \in Elems(a.gaps) : o[2] <= Len(a.data)
Covers(t, x) == t.s <= x /\ x <= t.e
Unseen(a, g) ==
    \A k \in DOMAIN a.data : a.data[k] = Zero => \A j \in DOMAIN g : ~Covers(g[j], a.s + (k - 1) * One)

LEMMA GrownPlaces ==
    ASSUME NEW a \in Layouts, NEW c \in Layouts, NEW f \in Nat, NEW n \in Nat, Grown(a, c, f, n),
           NEW k \in DOMAIN c.data
    PROVE  \/ k \in DOMAIN a.data /\ c.data[k] = a.data[k]
           \/ k \in Len(a.data) + 1 .. Len(a.data) + f /\ c.data[k] = Zero /\ k \notin DOMAIN a.data
           \/ k > Len(a.data) + f /\ c.data[k] = a.s + (k - 1) * One /\ c.data[k] # Zero
<1>1. /\ Len(a.data) \in Nat /\ DOMAIN a.data = 1 .. Len(a.data)
      /\ Len(c.data) \in Nat /\ DOMAIN c.data = 1 .. Len(c.data)
  BY LayoutTypes
<1>2. k \in Nat /\ k >= 1 /\ k <= Len(a.data) + f + n
  BY <1>1 DEF Grown
<1>3. CASE k \in 1 .. Len(a.data)
  BY <1>1, <1>3 DEF Grown
<1>4. CASE k \in Len(a.data) + 1 .. Len(a.data) + f
  BY <1>1, <1>4 DEF Grown
<1>5. CASE k \in Len(a.data) + f + 1 .. Len(a.data) + f + n
  BY <1>1, <1>5 DEF Grown
<1> QED BY <1>1, <1>2, <1>3, <1>4, <1>5

LEMMA GrownTimed ==
    ASSUME NEW a \in Layouts, NEW c \in Layouts, NEW f \in Nat, NEW n \in Nat, Grown(a, c, f, n), Timed(a)
    PROVE  Timed(c)
<1> SUFFICES ASSUME NEW k \in DOMAIN c.data PROVE c.data[k] \in {Zero, c.s + (k - 1) * One}
  BY DEF Timed
<1>1. c.s = a.s
  BY DEF Grown
<1> QED BY <1>1, GrownPlaces DEF Timed

LEMMA GrownUnseen ==
    ASSUME NEW a \in Layouts, NEW c \in Layouts, NEW f \in Nat, NEW n \in Nat, Grown(a, c, f, n),
           NEW g, Unseen(a, g),
           \A k \in Len(a.data) + 1 .. Len(a.data) + f : \A j \in DOMAIN g : ~Covers(g[j], a.s + (k - 1) * One)
    PROVE  Unseen(c, g)
<1> SUFFICES ASSUME NEW k \in DOMAIN c.data, c.data[k] = Zero, NEW j \in DOMAIN g
             PROVE  ~Covers(g[j], a.s + (k - 1) * One)
  BY DEF Unseen, Grown
<1>1. \/ k \in DOMAIN a.data /\ c.data[k] = a.data[k]
      \/ k \in Len(a.data) + 1 .. Len(a.data) + f
  BY GrownPlaces
<1> QED BY <1>1 DEF Unseen

IsAppended(t, s, x) == t = Append(s, x)
OneMore(t, s, x) == Elems(t) = Elems(s) \cup {x}

LEMMA AppendElems ==
    ASSUME NEW S, NEW s \in Seq(S), NEW x \in S, NEW t, IsAppended(t, s, x)
    PROVE  OneMore(t, s, x)
<1>1. /\ Len(s) \in Nat /\ DOMAIN s = 1 .. Len(s) /\ DOMAIN t = 1 .. Len(s) + 1
      /\ t[Len(s) + 1] = x /\ \A k \in 1 .. Len(s) : t[k] = s[k]
  BY DEF IsAppended
<1>2. \A k \in DOMAIN t : k = Len(s) + 1 \/ k \in DOMAIN s
  BY <1>1
<1>3. Len(s) + 1 \in DOMAIN t /\ \A k \in DOMAIN s : k \in DOMAIN t
  BY <1>1
<1>4. Elems(t) = Elems(s) \cup {x}
  BY <1>1, <1>2, <1>3 DEF Elems
<1> QED BY <1>4 DEF OneMore

LEMMA GapTypes ==
    ASSUME NEW a \in Layouts
    PROVE  \A o \in Elems(a.gaps) : o[1] \in Int /\ o[2] \in Int
<1>1. a.gaps \in Seq(Int \X Int)
  BY LayoutTypes
<1>2. \A o \in Elems(a.gaps) : o \in Int \X Int
  BY <1>1 DEF Elems
<1> QED BY <1>2

\* Nothing without data was appended: no gap is marked.
LEMMA GrownGapsOld ==
    ASSUME NEW a \in Layouts, NEW c \in Layouts, NEW n \in Nat, Grown(a, c, 0, n), Gaps(a), c.gaps = a.gaps
    PROVE  Gaps(c)
<1>1. /\ Len(a.data) \in Nat /\ DOMAIN a.data = 1 .. Len(a.data) /\ a.gaps \in Seq(Int \X Int)
      /\ Len(c.data) = Len(a.data) + n /\ DOMAIN c.data = 1 .. Len(c.data)
  BY LayoutTypes DEF Grown
<1>2. \A o \in Elems(a.gaps) : o[1] \in Int /\ o[2] \in Int /\ o[2] <= Len(a.data)
  BY GapTypes DEF Gaps
<1>3. ASSUME NEW k \in DOMAIN c.data PROVE c.data[k] = Zero <=> InGap(c, k)
  <2>1. InGap(c, k) <=> InGap(a, k)
    BY DEF InGap
  <2>2. CASE k \in DOMAIN a.data
    BY <1>1, <2>1, <2>2 DEF Gaps, Grown
  <2>3. CASE k \notin DOMAIN a.data
    <3>3. \/ k \in Len(a.data) + 1 .. Len(a.data) + 0
          \/ k > Len(a.data) + 0 /\ c.data[k] # Zero
      BY <2>3, GrownPlaces, 0 \in Nat
    <3>1. k > Len(a.data) + 0 /\ c.data[k] # Zero
      BY <1>1, <3>3
    <3>2. ~InGap(a, k)
      BY <1>1, <1>2, <3>1 DEF InGap
    <3> QED BY <2>1, <3>1, <3>2
  <2> QED BY <2>2, <2>3
<1>4. \A o \in Elems(c.gaps) : o[2] <= Len(c.data)
  BY <1>1, <1>2
<1> QED BY <1>3, <1>4 DEF Gaps

\* What was appended without data is marked.
LEMMA GrownGapsNew ==
    ASSUME NEW a \in Layouts, NEW c \in Layouts, NEW f \in Nat, NEW n \in Nat, Grown(a, c, f, n), Gaps(a),
           c.gaps = Append(a.gaps, <<Len(a.data), Len(a.data) + f>>)
    PROVE  Gaps(c)
<1> DEFINE x == <<Len(a.data), Len(a.data) + f>>
<1>1. /\ Len(a.data) \in Nat /\ DOMAIN a.data = 1 .. Len(a.data) /\ a.gaps \in Seq(Int \X Int)
      /\ Len(c.data) = Len(a.data) + f + n /\ DOMAIN c.data = 1 .. Len(c.data)
  BY LayoutTypes DEF Grown
<1>2. \A o \in Elems(a.gaps) : o[1] \in Int /\ o[2] \in Int /\ o[2] <= Len(a.data)
  BY GapTypes DEF Gaps
<1>3. x \in Int \X Int /\ x[1] = Len(a.data) /\ x[2] = Len(a.data) + f
  BY <1>1
<1> HIDE DEF x
<1>4. Elems(c.gaps) = Elems(a.gaps) \cup {x}
  <2>1. IsAppended(c.gaps, a.gaps, x)
    BY DEF x, IsAppended
  <2>2. a.gaps \in Seq(Int \X Int) /\ x \in Int \X Int
    BY <1>1, <1>3
  <2>3. OneMore(c.gaps, a.gaps, x)
    BY <2>1, <2>2, AppendElems, Zenon
  <2> QED BY <2>3, Zenon DEF OneMore
<1>5. ASSUME NEW k \in DOMAIN c.data PROVE c.data[k] = Zero <=> InGap(c, k)
  <2>0. k \in Nat
    BY <1>1
  <2>1. InGap(c, k) <=> InGap(a, k) \/ (Len(a.data) < k /\ k <= Len(a.data) + f)
    BY <1>3, <1>4 DEF InGap
  <2>2. CASE k \in DOMAIN a.data
    <3>1. ~(Len(a.data) < k) /\ c.data[k] = a.data[k]
      BY <1>1, <2>2 DEF Grown
    <3>2. a.data[k] = Zero <=> InGap(a, k)
      BY <2>2 DEF Gaps
    <3> QED BY <2>1, <3>1, <3>2
  <2>3. CASE k \notin DOMAIN a.data
    <3>1. ~InGap(a, k)
      BY <1>1, <1>2, <2>0, <2>3 DEF InGap
    <3>2. \/ k \in Len(a.data) + 1 .. Len(a.data) + f /\ c.data[k] = Zero
          \/ k > Len(a.data) + f /\ c.data[k] # Zero
      BY <2>3, GrownPlaces
    <3>3. CASE k \in Len(a.data) + 1 .. Len(a.data) + f /\ c.data[k] = Zero
      <4>1. Len(a.data) < k /\ k <= Len(a.data) + f
        BY <1>1, <2>0, <3>3
      <4> QED BY <2>1, <3>3, <4>1
    <3>4. CASE k > Len(a.data) + f /\ c.data[k] # Zero
      <4>1. ~(k <= Len(a.data) + f)
        BY <1>1, <2>0, <3>4
      <4> QED BY <2>1, <3>1, <3>4, <4>1
    <3> QED BY <3>2, <3>3, <3>4
  <2> QED BY <2>2, <2>3
<1>6. \A o \in Elems(c.gaps) : o[2] <= Len(c.data)
  <2>1. \A o \in Elems(a.gaps) : o[2] <= Len(c.data)
    BY <1>1, <1>2
  <2>2. x[2] <= Len(c.data)
    BY <1>1, <1>3
  <2> QED BY <1>4, <2>1, <2>2
<1> QED BY <1>5, <1>6 DEF Gaps

\* Overlaps stay where they are, and one more is laid where it belongs.
LEMMA GrownLaid ==
    ASSUME NEW a \in Layouts, NEW c \in Layouts, NEW f \in Nat, NEW n \in Nat, Grown(a, c, f, n), Laid(a),
           c.olaps = a.olaps
    PROVE  Laid(c)
<1>1. Len(a.data) \in Nat /\ Len(c.data) = Len(a.data) + f + n /\ c.s = a.s /\ a.olaps \in Seq(Overlaps)
  BY LayoutTypes DEF Grown
<1> SUFFICES ASSUME NEW o \in Elems(a.olaps)
             PROVE  /\ 0 <= o.from /\ o.from + Len(o.d) <= Len(c.data)
                    /\ \A k \in DOMAIN o.d : o.d[k] = c.s + (o.from + k - 1) * One
  BY DEF Laid
<1>2. o \in Overlaps
  BY <1>1 DEF Elems
<1>3. o.from \in Int /\ Len(o.d) \in Nat
  BY <1>2 DEF Overlaps
<1> QED BY <1>1, <1>3 DEF Laid

LEMMA LaidMore ==
    ASSUME NEW a \in Layouts, NEW c \in Layouts, NEW f \in Nat, NEW n \in Nat, Grown(a, c, f, n), Laid(a),
           NEW o \in Overlaps, c.olaps = Append(a.olaps, o),
           0 <= o.from, o.from + Len(o.d) <= Len(c.data),
           \A k \in DOMAIN o.d : o.d[k] = c.s + (o.from + k - 1) * One
    PROVE  Laid(c)
<1>1. Len(a.data) \in Nat /\ Len(c.data) = Len(a.data) + f + n /\ c.s = a.s /\ a.olaps \in Seq(Overlaps)
  BY LayoutTypes DEF Grown
<1>2. Elems(c.olaps) = Elems(a.olaps) \cup {o}
  <2>1. IsAppended(c.olaps, a.olaps, o)
    BY DEF IsAppended
  <2>2. OneMore(c.olaps, a.olaps, o)
    BY <1>1, <2>1, AppendElems, Zenon
  <2> QED BY <2>2, Zenon DEF OneMore
<1> SUFFICES ASSUME NEW p \in Elems(a.olaps)
             PROVE  /\ 0 <= p.from /\ p.from + Len(p.d) <= Len(c.data)
                    /\ \A k \in DOMAIN p.d : p.d[k] = c.s + (p.from + k - 1) * One
  BY <1>2 DEF Laid
<1>3. p \in Overlaps
  BY <1>1 DEF Elems
<1>4. p.from \in Int /\ Len(p.d) \in Nat
  BY <1>3 DEF Overlaps
<1> QED BY <1>1, <1>4 DEF Laid

\* Times on the grid lie whole sampling intervals apart.
LEMMA GridSteps ==
    ASSUME NEW b \in Int, NEW x \in Int, NEW y \in Int, OnGrid(b, x), OnGrid(b, y)
    PROVE  \E q \in Int : y = x + q * One
<1>1. PICK p \in Int : x = b + p * One
  BY DEF OnGrid
<1>2. PICK q \in Int : y = b + q * One
  BY DEF OnGrid
<1>3. y = x + (q - p) * One
  BY <1>1, <1>2, OneAssumption
<1> QED BY <1>3

LEMMA Quotient ==
    ASSUME NEW q \in Int
    PROVE  (q * One) \div One = q
BY OneAssumption

\* Of m samples from s to e, which begin q intervals before end does, over L from s0 to end.
Overlaid(s0, L, end, s, m, e, q) ==
    /\ q \in 1 .. L /\ s = s0 + (L - q) * One /\ e = end + (m - q) * One
    /\ e <= end => m <= q
    /\ e > end + One => q < m

LEMMA OverlapCounts ==
    ASSUME NEW s0 \in Nat, NEW L \in Nat \ {0}, NEW end \in Int, end = s0 + (L - 1) * One,
           NEW s \in Nat, NEW m \in Nat \ {0}, NEW e \in Int, e = s + (m - 1) * One,
           NEW b \in Int, OnGrid(b, end), OnGrid(b, s), s0 <= s, s < end + One
    PROVE  Overlaid(s0, L, end, s, m, e, (end + One - s) \div One)
<1>1. PICK q \in Int : end = s + q * One
  BY GridSteps
<1>2. end + One - s = (q + 1) * One
  BY <1>1, OneAssumption
<1>3. (end + One - s) \div One = q + 1
  BY <1>2, Quotient
<1> DEFINE p == q + 1
<1>4. p \in Int /\ end = s + (p - 1) * One
  BY <1>1
<1> HIDE DEF p
<1>5. s = s0 + (L - p) * One
  BY <1>4, OneAssumption
<1>6. e = end + (m - p) * One
  BY <1>4, OneAssumption
<1>7. p <= L
  <2>1. 0 <= (L - p) * One
    BY <1>4, <1>5, OneAssumption
  <2>2. L - p \in Int
    BY <1>4
  <2>3. L - p >= 0
    BY <2>1, <2>2, OneAssumption
  <2> QED BY <1>4, <2>3
<1>8. p >= 1
  <2>1. 0 < p * One
    BY <1>4, OneAssumption
  <2> QED BY <1>4, <2>1, OneAssumption
<1>9. e <= end => m <= p
  <2>1. e <= end => (m - p) * One <= 0
    BY <1>4, <1>6, OneAssumption
  <2>2. (m - p) * One <= 0 => m - p <= 0
    BY <1>4, OneAssumption
  <2> QED BY <1>4, <2>1, <2>2
<1>10. e > end + One => p < m
  <2>1. e > end + One => (m - p) * One > 0
    BY <1>4, <1>6, OneAssumption
  <2>2. (m - p) * One > 0 => m - p > 0
    BY <1>4, OneAssumption
  <2> QED BY <1>4, <2>1, <2>2
<1> QED BY <1>3, <1>4, <1>5, <1>6, <1>7, <1>8, <1>9, <1>10 DEF p, Overlaid

\* The array reaches to the end of what was laid out, by one entry per interval.
Even(a, b) ==
    /\ a \in Layouts /\ a.s \in Nat /\ Len(a.data) # 0 /\ OnGrid(b, a.end)
    /\ a.end = a.s + (Len(a.data) - 1) * One

LEMMA EvenTypes ==
    ASSUME NEW b \in Int, NEW a, Even(a, b)
    PROVE  /\ a \in Layouts /\ a.s \in Nat /\ a.end \in Int /\ OnGrid(b, a.end) /\ a.data \in Seq(Int)
           /\ Len(a.data) \in Nat \ {0} /\ DOMAIN a.data = 1 .. Len(a.data)
           /\ a.end = a.s + (Len(a.data) - 1) * One
BY LayoutTypes DEF Even

LEMMA Same ==
    ASSUME NEW a \in Layouts, NEW c \in Layouts, c.s = a.s, c.data = a.data
    PROVE  Grown(a, c, 0, 0)
<1>1. Len(a.data) \in Nat
  BY LayoutTypes
<1>2. Len(a.data) + 0 + 0 = Len(a.data) /\ Len(a.data) + 0 = Len(a.data)
  BY <1>1
<1>3. Len(a.data) + 1 .. Len(a.data) = {}
  BY <1>1
<1> QED BY <1>2, <1>3 DEF Grown

LEMMA JoinGrown ==
    ASSUME NEW a \in Layouts, NEW c \in Layouts, NEW w \in Seq(Int), c.s = a.s, c.data = a.data \o w,
           \A k \in 1 .. Len(w) : w[k] = a.s + (Len(a.data) + k - 1) * One /\ w[k] # Zero
    PROVE  Grown(a, c, 0, Len(w))
<1> DEFINE L == Len(a.data)  n == Len(w)
<1>1. L \in Nat /\ n \in Nat /\ a.data \in Seq(Int)
  BY LayoutTypes
<1>2. /\ Len(c.data) = L + n
      /\ \A k \in 1 .. L : c.data[k] = a.data[k]
      /\ \A k \in L + 1 .. L + n : c.data[k] = w[k - L]
  BY <1>1
<1>3. ASSUME NEW k \in L + 1 .. L + n PROVE c.data[k] = a.s + (k - 1) * One /\ c.data[k] # Zero
  <2>1. k - L \in 1 .. n /\ L + (k - L) = k
    BY <1>1
  <2>2. w[k - L] = a.s + (L + (k - L) - 1) * One /\ w[k - L] # Zero
    BY <2>1
  <2> QED BY <1>2, <2>1, <2>2
<1> HIDE DEF L, n
<1>4. L + 0 + n = L + n /\ L + 0 = L /\ L + 1 .. L = {}
  BY <1>1
<1>5. Grown(a, c, 0, n)
  BY <1>2, <1>3, <1>4 DEF Grown, L
<1> QED BY <1>5 DEF n

Chain(p, q, r) ==
    /\ r \in Seq(Int) /\ Len(p) \in Nat /\ Len(q) \in Nat /\ Len(r) = Len(p) + Len(q)
    /\ \A k \in 1 .. Len(p) : r[k] = p[k]
    /\ \A k \in Len(p) + 1 .. Len(p) + Len(q) : r[k] = q[k - Len(p)]

LEMMA Joined ==
    ASSUME NEW p \in Seq(Int), NEW q \in Seq(Int)
    PROVE  Chain(p, q, p \o q)
BY DEF Chain

LEMMA FillGrown ==
    ASSUME NEW a \in Layouts, NEW c \in Layouts, NEW w \in Seq(Int), NEW f \in Nat, c.s = a.s,
           c.data = a.data \o [i \in 1 .. f |-> Zero] \o w,
           \A k \in 1 .. Len(w) : w[k] = a.s + (Len(a.data) + f + k - 1) * One /\ w[k] # Zero
    PROVE  Grown(a, c, f, Len(w))
<1> DEFINE L == Len(a.data)  n == Len(w)  z == [i \in 1 .. f |-> Zero]  y == a.data \o z
<1>1. L \in Nat /\ n \in Nat /\ a.data \in Seq(Int)
  BY LayoutTypes
<1>2. z \in Seq(Int) /\ Len(z) = f /\ \A k \in 1 .. f : z[k] = Zero
  BY DEF Zero
<1> HIDE DEF z
<1>3. /\ y \in Seq(Int) /\ Len(y) = L + f
      /\ \A k \in 1 .. L : y[k] = a.data[k]
      /\ \A k \in L + 1 .. L + f : y[k] = z[k - L]
  <2>1. y = a.data \o z
    OBVIOUS
  <2> HIDE DEF y, L
  <2>2. Chain(a.data, z, y)
    BY <1>1, <1>2, <2>1, Joined, Zenon
  <2> QED BY <1>2, <2>2 DEF L, Chain
<1>4. c.data = y \o w
  BY DEF z
<1> HIDE DEF y
<1>5. /\ Len(c.data) = L + f + n
      /\ \A k \in 1 .. L + f : c.data[k] = y[k]
      /\ \A k \in L + f + 1 .. L + f + n : c.data[k] = w[k - (L + f)]
  <2>1. Chain(y, w, c.data)
    BY <1>3, <1>4, Joined, Zenon
  <2> QED BY <1>3, <2>1 DEF Chain
<1>6. \A k \in 1 .. L : c.data[k] = a.data[k]
  BY <1>1, <1>3, <1>5
<1>7. ASSUME NEW k \in L + 1 .. L + f PROVE c.data[k] = Zero
  <2>1. k - L \in 1 .. f /\ k \in 1 .. L + f
    BY <1>1
  <2> QED BY <1>2, <1>3, <1>5, <2>1
<1>8. ASSUME NEW k \in L + f + 1 .. L + f + n PROVE c.data[k] = a.s + (k - 1) * One /\ c.data[k] # Zero
  <2> HIDE DEF L, n
  <2>1. k - (L + f) \in 1 .. n /\ L + f + (k - (L + f)) = k
    BY <1>1
  <2>2. w[k - (L + f)] = a.s + (L + f + (k - (L + f)) - 1) * One /\ w[k - (L + f)] # Zero
    BY <2>1 DEF L, n
  <2>3. c.data[k] = w[k - (L + f)]
    BY <1>5
  <2>4. L + f + (k - (L + f)) - 1 = k - 1
    BY <1>1
  <2> QED BY <2>2, <2>3, <2>4, Zenon
<1>9. Grown(a, c, f, n)
  BY <1>5, <1>6, <1>7, <1>8 DEF Grown
<1> QED BY <1>9

\* m samples, the first of which is from sampling intervals after x.
Timely(w, m, x, from) ==
    /\ w \in Seq(Int) /\ Len(w) = m
    /\ \A k \in 1 .. m : w[k] = x + (from + k - 1) * One /\ w[k] # Zero

\* A part of a piece stands at its times too.
LEMMA PartTimes ==
    ASSUME NEW b \in Int, NEW s, NEW e, NEW d, Piece(s, e, d, b),
           NEW x \in Int, NEW from \in Int, s = x + from * One,
           NEW i \in 0 .. Len(d), NEW j \in i .. Len(d)
    PROVE  Timely(SubSeq(d, i + 1, j), j - i, x, from + i)
<1>1. /\ s \in Nat /\ d \in Seq(Int) /\ Len(d) \in Nat
      /\ \A k \in 1 .. Len(d) : d[k] = s + (k - 1) * One /\ d[k] \in Nat
  BY PieceTypes
<1>2. /\ SubSeq(d, i + 1, j) \in Seq(Int) /\ Len(SubSeq(d, i + 1, j)) = j - i
      /\ \A k \in 1 .. j - i : SubSeq(d, i + 1, j)[k] = d[i + k]
  BY <1>1, RunProperties
<1>3. ASSUME NEW k \in 1 .. j - i
      PROVE  SubSeq(d, i + 1, j)[k] = x + (from + i + k - 1) * One /\ SubSeq(d, i + 1, j)[k] # Zero
  <2>1. i + k \in 1 .. Len(d) /\ i \in Int /\ k \in Int
    BY <1>1
  <2>2. d[i + k] = s + (i + k - 1) * One /\ d[i + k] \in Nat
    BY <1>1, <2>1
  <2>3. s + (i + k - 1) * One = x + (from + i + k - 1) * One
    BY <2>1, OneAssumption
  <2> QED BY <1>2, <2>2, <2>3 DEF Zero
<1> QED BY <1>2, <1>3 DEF Timely

\* Adding trace t changes the array a to c: f entries without data, n with.
Adds(a, c, t, f, n) ==
    /\ Grown(a, c, f, n) /\ Greater(a.end, t.e) = a.end + (f + n) * One
    /\ Laid(a) => Laid(c)
    /\ c.gaps = IF f = 0 THEN a.gaps ELSE Append(a.gaps, <<Len(a.data), Len(a.data) + f>>)
    /\ f # 0 => t.s = a.end + (f + 1) * One

LEMMA OverlapEnds ==
    ASSUME NEW end \in Int, NEW m \in Nat, NEW q \in Nat, NEW e \in Int, e = end + (m - q) * One, e > end
    PROVE  Greater(end, e) = end + (0 + (m - q)) * One
BY OneAssumption DEF Greater

LEMMA OverlapGrows ==
    ASSUME NEW b \in Int, NEW a, Even(a, b), NEW t \in HealTraces, Piece(t.s, t.e, t.d, b),
           a.s <= t.s, t.s < a.end + One, NEW c, c = AddOverlap(a, t), ~c.short
    PROVE  c \in Layouts /\ c.s = a.s /\ c.end = a.end /\ ~a.short /\ \E n \in Nat : Adds(a, c, t, 0, n)
<1> DEFINE L == Len(a.data)  m == Len(t.d)  q == OlapPoints(a.end, t)  over == Over(a, t)
           o == [from |-> L - q, d |-> SubSeq(t.d, 1, over)]
<1>1. /\ a \in Layouts /\ a.s \in Nat /\ L \in Nat \ {0} /\ a.end \in Int /\ OnGrid(b, a.end)
      /\ a.end = a.s + (L - 1) * One /\ DOMAIN a.data = 1 .. L
  BY EvenTypes
<1>2. /\ t.s \in Nat /\ t.e \in Int /\ OnGrid(b, t.s) /\ m \in Nat \ {0} /\ t.e = t.s + (m - 1) * One
  <2> HIDE DEF m
  <2> QED BY PieceTypes DEF m
<1>3. /\ q \in 1 .. L /\ t.s = a.s + (L - q) * One /\ t.e = a.end + (m - q) * One
      /\ t.e <= a.end => m <= q
      /\ t.e > a.end + One => q < m
  <2> HIDE DEF L, m
  <2>1. q = (a.end + One - t.s) \div One
    BY DEF OlapPoints
  <2>2. Overlaid(a.s, L, a.end, t.s, m, t.e, q)
    BY <1>1, <1>2, <2>1, OverlapCounts
  <2> HIDE DEF q
  <2> QED BY <2>2 DEF Overlaid
<1>4. /\ c \in Layouts /\ c.s = a.s /\ c.end = a.end /\ c.gaps = a.gaps
      /\ c.data = IF Covered(a, t) THEN a.data ELSE a.data \o SubSeq(t.d, over + 1, m)
      /\ c.olaps = Append(a.olaps, o)
      /\ (c.short <=> a.short \/ (Covered(a, t) /\ t.e > a.end))
  <2>1. a \in Layouts
    BY <1>1
  <2>2. IsOverlap(a, c, t)
    BY <2>1, OverlapIs, Zenon
  <2> QED BY <2>2 DEF IsOverlap
<1>5. ~a.short /\ ~(Covered(a, t) /\ t.e > a.end)
  BY <1>4
<1> HIDE DEF L, m, q
<1>6. Covered(a, t) => over = m /\ m <= q
  <2>1. Covered(a, t) => t.e <= a.end
    BY <1>1, <1>2, <1>5
  <2>2. Covered(a, t) => over = m
    BY DEF Over, m
  <2> QED BY <1>3, <2>1, <2>2
<1>7. ~Covered(a, t) => over = q /\ q < m /\ t.e > a.end
  <2>1. ~Covered(a, t) => over = Smaller(q, m)
    BY DEF Over, m, q
  <2>2. ~Covered(a, t) => t.e > a.end + One
    BY <1>1, <1>2, OneAssumption DEF Covered
  <2>3. t.e > a.end + One => t.e > a.end
    BY <1>1, <1>2, OneAssumption
  <2>4. q \in Nat /\ m \in Nat
    BY <1>1, <1>2, <1>3
  <2>5. q < m => Smaller(q, m) = q
    BY <2>4 DEF Smaller
  <2> QED BY <1>3, <2>1, <2>2, <2>3, <2>5
<1> HIDE DEF over
<1>8. over \in Nat /\ over <= m /\ over <= q
  <2>1. q \in Nat /\ m \in Nat
    BY <1>1, <1>2, <1>3
  <2> QED BY <2>1, <1>6, <1>7
<1>9. L - q \in Int /\ L - q >= 0 /\ L - q + over <= L
  <2>1. q \in Nat /\ q <= L /\ L \in Nat
    BY <1>1, <1>3
  <2> QED BY <1>8, <2>1
<1>10. /\ SubSeq(t.d, 1, over) \in Seq(Int) /\ Len(SubSeq(t.d, 1, over)) = over
       /\ \A k \in 1 .. over : SubSeq(t.d, 1, over)[k] = a.s + (L - q + k - 1) * One
  <2>1. 0 \in 0 .. Len(t.d) /\ over \in 0 .. Len(t.d)
    BY <1>2, <1>8 DEF m
  <2> DEFINE from == L - q
  <2>2. from \in Int /\ t.s = a.s + from * One /\ a.s \in Int
    BY <1>1, <1>3, <1>9
  <2> HIDE DEF from
  <2>3. Timely(SubSeq(t.d, 0 + 1, over), over - 0, a.s, from + 0)
    BY <2>1, <2>2, PartTimes
  <2>4. over - 0 = over /\ 0 + 1 = 1 /\ from + 0 = from
    BY <1>8, <2>2
  <2>5. Timely(SubSeq(t.d, 1, over), over, a.s, from)
    BY <2>3, <2>4
  <2> QED BY <2>5 DEF from, Timely
<1>11. /\ o \in Overlaps /\ o.from = L - q /\ o.d = SubSeq(t.d, 1, over)
  BY <1>9, <1>10 DEF Overlaps
<1>12. /\ Len(o.d) = over /\ DOMAIN o.d = 1 .. over /\ 0 <= o.from /\ o.from + Len(o.d) <= L
       /\ \A k \in DOMAIN o.d : o.d[k] = a.s + (o.from + k - 1) * One
  BY <1>9, <1>10, <1>11
<1>13. c.olaps = Append(a.olaps, o)
  BY <1>4
<1> HIDE DEF o
<1>14. ASSUME NEW n \in Nat, Grown(a, c, 0, n) PROVE Laid(a) => Laid(c)
  <2>1. Len(c.data) = L + n
    BY <1>1, <1>14 DEF Grown, L
  <2>2. L \in Nat /\ o.from + Len(o.d) \in Int
    BY <1>1, <1>8, <1>9, <1>11, <1>12
  <2>3. o.from + Len(o.d) <= Len(c.data)
    BY <1>12, <2>1, <2>2
  <2>4. \A k \in DOMAIN o.d : o.d[k] = c.s + (o.from + k - 1) * One
    BY <1>4, <1>12
  <2> QED BY <1>1, <1>4, <1>11, <1>12, <1>13, <1>14, <2>3, <2>4, LaidMore, 0 \in Nat
<1>15. CASE Covered(a, t)
  <2>1. Grown(a, c, 0, 0)
    BY <1>1, <1>4, <1>15, Same
  <2>2. Greater(a.end, t.e) = a.end + (0 + 0) * One
    <3>1. t.e <= a.end
      BY <1>1, <1>2, <1>5, <1>15
    <3> QED BY <1>1, <1>2, <3>1, OneAssumption DEF Greater
  <2>3. Adds(a, c, t, 0, 0)
    BY <1>4, <1>14, <2>1, <2>2, 0 \in Nat DEF Adds
  <2> QED BY <1>4, <1>5, <2>3, 0 \in Nat
<1>16. CASE ~Covered(a, t)
  <2> DEFINE w == SubSeq(t.d, q + 1, m)
  <2>1. over = q /\ q < m /\ t.e > a.end
    BY <1>7, <1>16
  <2>2. q \in 0 .. Len(t.d) /\ Len(t.d) \in q .. Len(t.d) /\ Len(t.d) = m
    BY <1>2, <1>3, <2>1 DEF m
  <2>3. /\ w \in Seq(Int) /\ Len(w) = m - q
        /\ \A k \in 1 .. m - q : w[k] = a.s + (L + k - 1) * One /\ w[k] # Zero
    <3> DEFINE from == L - q
    <3>1. from \in Int /\ t.s = a.s + from * One /\ a.s \in Int
      BY <1>1, <1>3, <1>9
    <3> HIDE DEF from
    <3>2. Timely(SubSeq(t.d, q + 1, Len(t.d)), Len(t.d) - q, a.s, from + q)
      BY <2>2, <3>1, PartTimes
    <3>3. from + q = L
      BY <1>1, <1>2, <1>3 DEF from
    <3>4. Timely(w, m - q, a.s, L)
      BY <2>2, <3>2, <3>3
    <3> QED BY <3>4 DEF Timely
  <2>4. c.data = a.data \o w
    BY <1>4, <1>16, <2>1
  <2> HIDE DEF w
  <2>5. Grown(a, c, 0, Len(w))
    BY <1>1, <1>4, <2>3, <2>4, JoinGrown DEF L
  <2>6. m - q \in Nat
    BY <1>2, <1>3, <2>1
  <2>7. Greater(a.end, t.e) = a.end + (0 + (m - q)) * One
    <3>1. q \in Nat
      BY <1>1, <1>3
    <3> QED BY <1>1, <1>2, <1>3, <2>1, <3>1, OverlapEnds
  <2>8. Grown(a, c, 0, m - q)
    BY <2>3, <2>5
  <2>9. Adds(a, c, t, 0, m - q)
    BY <1>4, <1>14, <2>6, <2>7, <2>8 DEF Adds
  <2> QED BY <1>4, <1>5, <2>6, <2>9
<1> QED BY <1>15, <1>16

\* A gap of f samples between end and m samples from s to e.
Parted(s0, L, end, s, m, e, f) ==
    /\ f \in Nat \ {0} /\ s = end + (f + 1) * One /\ s = s0 + (L + f) * One
    /\ Greater(end, e) = end + (f + m) * One

LEMMA GapCounts ==
    ASSUME NEW s0 \in Nat, NEW L \in Nat \ {0}, NEW end \in Int, end = s0 + (L - 1) * One,
           NEW s \in Nat, NEW m \in Nat \ {0}, NEW e \in Int, e = s + (m - 1) * One,
           NEW b \in Int, OnGrid(b, end), OnGrid(b, s), s > end + One
    PROVE  Parted(s0, L, end, s, m, e, (s - end - One) \div One)
<1>1. PICK p \in Int : s = end + p * One
  BY GridSteps
<1> DEFINE f == p - 1
<1>2. f \in Int /\ p = f + 1
  BY <1>1
<1>3. s = end + (f + 1) * One
  BY <1>1, <1>2
<1> HIDE DEF f
<1>4. s - end - One = f * One
  BY <1>2, <1>3, OneAssumption
<1>5. (s - end - One) \div One = f
  BY <1>2, <1>4, Quotient
<1>6. f > 0
  <2>1. f * One > 0
    BY <1>2, <1>4, OneAssumption
  <2> QED BY <1>2, <2>1, OneAssumption
<1>7. s = s0 + (L + f) * One
  BY <1>2, <1>3, OneAssumption
<1>8. e = end + (f + m) * One
  BY <1>2, <1>3, OneAssumption
<1>9. e > end
  <2>1. (f + m) * One > 0
    BY <1>2, <1>6, OneAssumption
  <2> QED BY <1>2, <1>8, <2>1, OneAssumption
<1>10. Greater(end, e) = e
  BY <1>9 DEF Greater
<1> QED BY <1>2, <1>3, <1>5, <1>6, <1>7, <1>8, <1>10 DEF Parted

LEMMA GapGrows ==
    ASSUME NEW b \in Int, NEW a, Even(a, b), NEW t \in HealTraces, Piece(t.s, t.e, t.d, b),
           t.s > a.end + One, NEW c, c = AddGap(a, t)
    PROVE  /\ c \in Layouts /\ c.s = a.s /\ c.end = a.end /\ c.short = a.short
           /\ \E f, n \in Nat : Adds(a, c, t, f, n)
<1> DEFINE L == Len(a.data)  m == Len(t.d)  f == GapFill(a.end, t)
<1>1. /\ a \in Layouts /\ a.s \in Nat /\ L \in Nat \ {0} /\ a.end \in Int /\ OnGrid(b, a.end)
      /\ a.end = a.s + (L - 1) * One
  BY EvenTypes
<1>2. /\ t.s \in Nat /\ t.e \in Int /\ OnGrid(b, t.s) /\ m \in Nat \ {0} /\ t.e = t.s + (m - 1) * One
      /\ t.d \in Seq(Int)
  <2> HIDE DEF m
  <2> QED BY PieceTypes DEF m
<1>3. /\ c \in Layouts /\ c.s = a.s /\ c.end = a.end /\ c.olaps = a.olaps /\ c.short = a.short
      /\ c.data = a.data \o [i \in 1 .. f |-> Zero] \o t.d
      /\ c.gaps = Append(a.gaps, <<L, L + f>>)
  <2>1. a \in Layouts
    BY <1>1
  <2>2. IsGap(a, c, t)
    BY <2>1, GapIs, Zenon
  <2> QED BY <2>2 DEF IsGap
<1>4. Parted(a.s, L, a.end, t.s, m, t.e, f)
  <2> HIDE DEF L, m
  <2>1. f = (t.s - a.end - One) \div One
    BY DEF GapFill
  <2> QED BY <1>1, <1>2, <2>1, GapCounts
<1> HIDE DEF L, m, f
<1>5. /\ f \in Nat /\ f # 0 /\ t.s = a.end + (f + 1) * One /\ t.s = a.s + (L + f) * One
      /\ Greater(a.end, t.e) = a.end + (f + m) * One
  BY <1>4 DEF Parted
<1>6. Timely(t.d, m, a.s, L + f)
  <2> DEFINE from == L + f
  <2>1. from \in Int /\ t.s = a.s + from * One /\ a.s \in Int
    BY <1>1, <1>5
  <2>2. 0 \in 0 .. Len(t.d) /\ Len(t.d) \in 0 .. Len(t.d)
    BY <1>2 DEF m
  <2> HIDE DEF from
  <2>3. Timely(SubSeq(t.d, 0 + 1, Len(t.d)), Len(t.d) - 0, a.s, from + 0)
    BY <2>1, <2>2, PartTimes
  <2>4. Len(t.d) - 0 = m /\ 0 + 1 = 1 /\ from + 0 = from
    BY <1>2, <2>1 DEF m
  <2>5. SubSeq(t.d, 1, Len(t.d)) = t.d
    BY <1>2
  <2>6. Timely(t.d, m, a.s, from)
    BY <2>3, <2>4, <2>5
  <2> QED BY <2>6 DEF from
<1>7. Grown(a, c, f, Len(t.d))
  <2>1. \A k \in 1 .. Len(t.d) : t.d[k] = a.s + (L + f + k - 1) * One /\ t.d[k] # Zero
    BY <1>6 DEF Timely, m
  <2> QED BY <1>1, <1>2, <1>3, <1>5, <2>1, FillGrown DEF L
<1>8. Laid(a) => Laid(c)
  BY <1>1, <1>2, <1>3, <1>5, <1>7, GrownLaid DEF m
<1>9. Adds(a, c, t, f, m)
  BY <1>3, <1>5, <1>7, <1>8 DEF Adds, L, m
<1>10. m \in Nat
  BY <1>2
<1> QED BY <1>3, <1>5, <1>9, <1>10

LEMMA JoinCounts ==
    ASSUME NEW s0 \in Nat, NEW L \in Nat \ {0}, NEW end \in Int, end = s0 + (L - 1) * One,
           NEW s \in Nat, NEW m \in Nat \ {0}, NEW e \in Int, e = s + (m - 1) * One, s = end + One
    PROVE  s = s0 + L * One /\ Greater(end, e) = end + (0 + m) * One
<1>1. s = s0 + L * One
  BY OneAssumption
<1>2. e = end + (0 + m) * One
  BY OneAssumption
<1>3. (0 + m) * One > 0 /\ (0 + m) * One \in Int
  BY OneAssumption
<1>4. e > end
  BY <1>2, <1>3
<1>5. Greater(end, e) = e
  BY <1>4 DEF Greater
<1> QED BY <1>1, <1>2, <1>5

LEMMA JoinGrows ==
    ASSUME NEW b \in Int, NEW a, Even(a, b), NEW t \in HealTraces, Piece(t.s, t.e, t.d, b),
           t.s = a.end + One, NEW c, c = [a EXCEPT !.data = @ \o t.d]
    PROVE  /\ c \in Layouts /\ c.s = a.s /\ c.end = a.end /\ c.short = a.short
           /\ \E n \in Nat : Adds(a, c, t, 0, n)
<1> DEFINE L == Len(a.data)  m == Len(t.d)
<1>1. /\ a \in Layouts /\ a.s \in Nat /\ L \in Nat \ {0} /\ a.end \in Int /\ OnGrid(b, a.end)
      /\ a.end = a.s + (L - 1) * One
  BY EvenTypes
<1>2. /\ t.s \in Nat /\ t.e \in Int /\ OnGrid(b, t.s) /\ m \in Nat \ {0} /\ t.e = t.s + (m - 1) * One
      /\ t.d \in Seq(Int)
  <2> HIDE DEF m
  <2> QED BY PieceTypes DEF m
<1>3. /\ c \in Layouts /\ c.s = a.s /\ c.end = a.end /\ c.olaps = a.olaps /\ c.short = a.short
      /\ c.data = a.data \o t.d /\ c.gaps = a.gaps
  <2>1. a \in Layouts
    BY <1>1
  <2>2. c = Adjoined(a, t)
    BY DEF Adjoined
  <2>3. IsJoined(a, c, t)
    BY <2>1, <2>2, JoinIs, Zenon
  <2> QED BY <2>3 DEF IsJoined
<1> HIDE DEF L, m
<1>4. t.s = a.s + L * One /\ Greater(a.end, t.e) = a.end + (0 + m) * One
  BY <1>1, <1>2, JoinCounts
<1>6. Timely(t.d, m, a.s, L)
  <2>1. L \in Int /\ a.s \in Int
    BY <1>1
  <2>2. 0 \in 0 .. Len(t.d) /\ Len(t.d) \in 0 .. Len(t.d)
    BY <1>2 DEF m
  <2>3. Timely(SubSeq(t.d, 0 + 1, Len(t.d)), Len(t.d) - 0, a.s, L + 0)
    BY <1>4, <2>1, <2>2, PartTimes
  <2>4. Len(t.d) - 0 = m /\ 0 + 1 = 1 /\ L + 0 = L
    BY <1>1, <1>2 DEF m
  <2>5. SubSeq(t.d, 1, Len(t.d)) = t.d
    BY <1>2
  <2> QED BY <2>3, <2>4, <2>5
<1>7. Grown(a, c, 0, Len(t.d))
  <2>1. \A k \in 1 .. Len(t.d) : t.d[k] = a.s + (L + k - 1) * One /\ t.d[k] # Zero
    BY <1>6 DEF Timely, m
  <2> QED BY <1>1, <1>2, <1>3, <2>1, JoinGrown DEF L
<1>8. Laid(a) => Laid(c)
  BY <1>1, <1>2, <1>3, <1>7, GrownLaid, 0 \in Nat DEF m
<1>9. Adds(a, c, t, 0, m)
  BY <1>3, <1>4, <1>7, <1>8 DEF Adds, L, m
<1>10. m \in Nat
  BY <1>2
<1> QED BY <1>3, <1>9, <1>10

\* Pieces in the order of their starts.
Full(g, b) ==
    /\ g \in Seq(HealTraces) /\ InOrder(g)
    /\ \A j \in DOMAIN g : Piece(g[j].s, g[j].e, g[j].d, b)

Good(a, g) == Timed(a) /\ Laid(a) /\ Gaps(a) /\ Unseen(a, g)

\* The first n pieces of g are laid out.
LaidOut(a, g, n, b) ==
    /\ a \in Layouts /\ a.s = g[1].s
    /\ \A j \in 1 .. n : g[j].e <= a.end
    /\ ~a.short => Even(a, b) /\ Good(a, g)

LEMMA SameArray ==
    ASSUME NEW c, NEW d, d.s = c.s, d.data = c.data, d.gaps = c.gaps, d.olaps = c.olaps, NEW g, Good(c, g)
    PROVE  Good(d, g)
BY DEF Good, Timed, Laid, Gaps, InGap, Unseen

LEMMA GapTimes ==
    ASSUME NEW s0 \in Nat, NEW L \in Nat, NEW end \in Int, end = s0 + (L - 1) * One,
           NEW f \in Nat, NEW s \in Int, s = end + (f + 1) * One, NEW k \in L + 1 .. L + f
    PROVE  s0 + (k - 1) * One \in Int /\ end < s0 + (k - 1) * One /\ s0 + (k - 1) * One < s
<1>1. s0 + (k - 1) * One = end + (k - L) * One
  BY OneAssumption
<1>2. s = s0 + (k - 1) * One + (f + 1 - (k - L)) * One
  BY <1>1, OneAssumption
<1>3. (k - L) * One > 0
  BY OneAssumption
<1>4. (f + 1 - (k - L)) * One > 0
  BY OneAssumption
<1>5. s0 + (k - 1) * One \in Int /\ (k - L) * One \in Int /\ (f + 1 - (k - L)) * One \in Int
  BY OneAssumption
<1> QED BY <1>1, <1>2, <1>3, <1>4, <1>5

LEMMA EndsEven ==
    ASSUME NEW b \in Int, NEW s0 \in Nat, NEW L \in Nat, NEW end \in Int, OnGrid(b, end), end = s0 + (L - 1) * One,
           NEW q \in Nat
    PROVE  OnGrid(b, end + q * One) /\ end + q * One = s0 + (L + q - 1) * One
<1>1. PICK p \in Int : end = b + p * One
  BY DEF OnGrid
<1>2. end + q * One = b + (p + q) * One
  BY <1>1, OneAssumption
<1>3. p + q \in Int
  BY <1>1
<1>4. end + q * One = s0 + (L + q - 1) * One
  BY OneAssumption
<1> QED BY <1>2, <1>3, <1>4 DEF OnGrid

\* What was added stands at its times, and nothing is missing.
LEMMA AddsGood ==
    ASSUME NEW b \in Int, NEW g, Full(g, b), NEW m \in DOMAIN g, NEW t, t = g[m],
           NEW a, Even(a, b), Good(a, g), \A j \in 1 .. m - 1 : g[j].e <= a.end,
           NEW c \in Layouts, NEW f \in Nat, NEW n \in Nat, Adds(a, c, t, f, n)
    PROVE  Good(c, g)
<1>1. /\ a \in Layouts /\ a.s \in Nat /\ a.end \in Int /\ Len(a.data) \in Nat
      /\ a.end = a.s + (Len(a.data) - 1) * One
  BY EvenTypes
<1>2. Grown(a, c, f, n) /\ Timed(a) /\ Laid(a) /\ Gaps(a) /\ Unseen(a, g)
  BY DEF Adds, Good
<1>3. Timed(c)
  BY <1>1, <1>2, GrownTimed
<1>4. Laid(c)
  BY <1>2 DEF Adds
<1>5. Gaps(c)
  <2>1. CASE f = 0
    <3>1. c.gaps = a.gaps /\ Grown(a, c, 0, n)
      BY <1>2, <2>1 DEF Adds
    <3> QED BY <1>1, <1>2, <3>1, GrownGapsOld
  <2>2. CASE f # 0
    <3>1. c.gaps = Append(a.gaps, <<Len(a.data), Len(a.data) + f>>)
      BY <2>2 DEF Adds
    <3> QED BY <1>1, <1>2, <3>1, GrownGapsNew
  <2> QED BY <2>1, <2>2
<1>6. ASSUME NEW k \in Len(a.data) + 1 .. Len(a.data) + f, NEW j \in DOMAIN g
      PROVE  ~Covers(g[j], a.s + (k - 1) * One)
  <2>1. f # 0
    BY <1>1
  <2>2. g \in Seq(HealTraces) /\ DOMAIN g = 1 .. Len(g) /\ Len(g) \in Nat /\ InOrder(g)
    BY DEF Full
  <2>3. t \in HealTraces /\ g[j] \in HealTraces
    BY <2>2
  <2>4. t.s \in Int /\ g[j].s \in Int /\ g[j].e \in Int
    BY <2>3, TraceTypes
  <2>5. t.s = a.end + (f + 1) * One
    BY <2>1 DEF Adds
  <2> DEFINE x == a.s + (k - 1) * One
  <2>6. x \in Int /\ a.end < x /\ x < t.s
    <3> HIDE DEF x
    <3> DEFINE L == Len(a.data)
    <3>1. L \in Nat /\ a.end = a.s + (L - 1) * One /\ k \in L + 1 .. L + f
      BY <1>1
    <3> HIDE DEF L
    <3> QED BY <1>1, <2>4, <2>5, <3>1, GapTimes DEF x
  <2> HIDE DEF x
  <2>7. CASE j < m
    <3>1. j \in 1 .. m - 1
      BY <2>2, <2>7
    <3>2. g[j].e <= a.end
      BY <3>1
    <3>3. ~(x <= g[j].e)
      BY <1>1, <2>4, <2>6, <3>2
    <3> QED BY <3>3 DEF Covers, x
  <2>8. CASE ~(j < m)
    <3>1. m = j \/ m < j
      BY <2>2, <2>8
    <3>2. t.s <= g[j].s
      BY <2>2, <2>4, <3>1 DEF InOrder
    <3>3. ~(g[j].s <= x)
      BY <2>4, <2>6, <3>2
    <3> QED BY <3>3 DEF Covers, x
  <2> QED BY <2>7, <2>8
<1>7. Unseen(c, g)
  BY <1>1, <1>2, <1>6, GrownUnseen
<1> QED BY <1>3, <1>4, <1>5, <1>7 DEF Good

LEMMA AddsEven ==
    ASSUME NEW b \in Int, NEW a, Even(a, b), NEW t, NEW c \in Layouts, c.s = a.s,
           NEW f \in Nat, NEW n \in Nat, Adds(a, c, t, f, n),
           NEW d \in Layouts, d.s = c.s, d.data = c.data, d.end = Greater(a.end, t.e)
    PROVE  Even(d, b)
<1> DEFINE L == Len(a.data)
<1>1. /\ a \in Layouts /\ a.s \in Nat /\ a.end \in Int /\ L \in Nat \ {0}
      /\ a.end = a.s + (L - 1) * One /\ OnGrid(b, a.end)
  BY EvenTypes
<1>2. Len(d.data) = L + f + n
  BY DEF Adds, Grown
<1>3. d.end = a.end + (f + n) * One
  BY DEF Adds
<1> HIDE DEF L
<1>4. f + n \in Nat /\ L + f + n = L + (f + n) /\ L + f + n # 0
  BY <1>1
<1>5. OnGrid(b, d.end) /\ d.end = a.s + (L + (f + n) - 1) * One
  <2> DEFINE q == f + n
  <2>1. q \in Nat /\ d.end = a.end + q * One
    BY <1>3, <1>4
  <2> HIDE DEF q
  <2>2. L \in Nat
    BY <1>1
  <2>3. OnGrid(b, d.end) /\ d.end = a.s + (L + q - 1) * One
    BY <1>1, <2>1, <2>2, EndsEven
  <2> QED BY <2>3 DEF q
<1> QED BY <1>1, <1>2, <1>4, <1>5 DEF Even

LEMMA EndsGreater ==
    ASSUME NEW x \in Int, NEW y \in Int
    PROVE  Greater(x, y) \in Int /\ x <= Greater(x, y) /\ y <= Greater(x, y)
BY DEF Greater

LEMMA AddStep ==
    ASSUME NEW b \in Int, NEW g, Full(g, b), NEW m \in DOMAIN g, m # 1, NEW a, LaidOut(a, g, m - 1, b)
    PROVE  LaidOut(AddTrace(a, g[m]), g, m, b)
<1> DEFINE t == g[m]
           c == IF t.s < a.end + One THEN AddOverlap(a, t)
                ELSE IF t.s > a.end + One THEN AddGap(a, t)
                ELSE [a EXCEPT !.data = @ \o t.d]
           d == AddTrace(a, t)
<1>1. /\ g \in Seq(HealTraces) /\ DOMAIN g = 1 .. Len(g) /\ Len(g) \in Nat /\ InOrder(g)
      /\ t \in HealTraces /\ m - 1 \in Nat /\ 1 \in DOMAIN g /\ 1 < m
  BY DEF Full
<1>2. /\ a \in Layouts /\ a.s = g[1].s /\ \A j \in 1 .. m - 1 : g[j].e <= a.end
      /\ ~a.short => Even(a, b) /\ Good(a, g)
  BY DEF LaidOut
<1>3. Piece(t.s, t.e, t.d, b)
  BY DEF Full
<1>4. a.s <= t.s
  BY <1>1, <1>2 DEF InOrder
<1>5. a.end \in Int /\ t.s \in Int /\ t.e \in Int
  BY <1>1, <1>2, LayoutTypes, TraceTypes
<1>6. d = [c EXCEPT !.end = Greater(@, t.e)]
  BY DEF AddTrace
<1> HIDE DEF d
<1>7. /\ c \in Layouts /\ c.s = a.s /\ c.end = a.end
      /\ ~c.short => ~a.short /\ \E f, n \in Nat : Adds(a, c, t, f, n)
  <2>1. CASE t.s < a.end + One
    <3>1. c = AddOverlap(a, t)
      BY <2>1
    <3> HIDE DEF c, t
    <3>2. c \in Layouts /\ c.s = a.s /\ c.end = a.end /\ (c.short <=> a.short \/ (Covered(a, t) /\ t.e > a.end))
      <4>1. IsOverlap(a, c, t)
        BY <1>1, <1>2, <2>1, <3>1, OverlapIs, Zenon
      <4> QED BY <4>1 DEF IsOverlap
    <3>3. ASSUME ~c.short PROVE ~a.short /\ \E f, n \in Nat : Adds(a, c, t, f, n)
      <4>1. ~a.short
        BY <3>2, <3>3
      <4>2. \E n \in Nat : Adds(a, c, t, 0, n)
        BY <1>1, <1>2, <1>3, <1>4, <2>1, <3>1, <3>3, <4>1, OverlapGrows
      <4> QED BY <4>1, <4>2, 0 \in Nat
    <3> QED BY <3>2, <3>3
  <2>2. CASE t.s > a.end + One
    <3>1. c = AddGap(a, t)
      BY <1>5, <2>2, OneAssumption
    <3> HIDE DEF c, t
    <3>2. c \in Layouts /\ c.s = a.s /\ c.end = a.end /\ c.short = a.short
      <4>1. IsGap(a, c, t)
        BY <1>1, <1>2, <2>2, <3>1, GapIs, Zenon
      <4> QED BY <4>1 DEF IsGap
    <3>3. ASSUME ~c.short PROVE ~a.short /\ \E f, n \in Nat : Adds(a, c, t, f, n)
      BY <1>1, <1>2, <1>3, <2>2, <3>1, <3>2, <3>3, GapGrows
    <3> QED BY <3>2, <3>3
  <2>3. CASE ~(t.s < a.end + One) /\ ~(t.s > a.end + One)
    <3>1. c = [a EXCEPT !.data = @ \o t.d]
      BY <2>3
    <3>2. t.s = a.end + One
      BY <1>5, <2>3, OneAssumption
    <3> HIDE DEF c, t
    <3>3. c \in Layouts /\ c.s = a.s /\ c.end = a.end /\ c.short = a.short
      <4>1. a \in Layouts /\ t \in HealTraces
        BY <1>1, <1>2
      <4>2. c = Adjoined(a, t)
        BY <3>1 DEF Adjoined
      <4>3. IsJoined(a, c, t)
        BY <4>1, <4>2, JoinIs, Zenon
      <4> QED BY <4>3 DEF IsJoined
    <3>4. ASSUME ~c.short PROVE ~a.short /\ \E f, n \in Nat : Adds(a, c, t, f, n)
      <4>1. ~a.short
        BY <3>3, <3>4
      <4>2. \E n \in Nat : Adds(a, c, t, 0, n)
        BY <1>1, <1>2, <1>3, <3>1, <3>2, <4>1, JoinGrows
      <4> QED BY <4>1, <4>2, 0 \in Nat
    <3> QED BY <3>3, <3>4
  <2> QED BY <2>1, <2>2, <2>3
<1> HIDE DEF c
<1>8. /\ d \in Layouts /\ d.s = c.s /\ d.end = Greater(a.end, t.e) /\ d.olaps = c.olaps
      /\ d.short = c.short /\ d.data = c.data /\ d.gaps = c.gaps
  BY <1>1, <1>6, <1>7, EndIs
<1>9. \A j \in 1 .. m : g[j].e <= d.end
  <2>1. d.end \in Int /\ a.end <= d.end /\ t.e <= d.end
    BY <1>5, <1>8, EndsGreater
  <2> SUFFICES ASSUME NEW j \in 1 .. m PROVE g[j].e <= d.end
    OBVIOUS
  <2>2. CASE j = m
    BY <2>1, <2>2
  <2>3. CASE j # m
    <3>1. j \in 1 .. m - 1 /\ j \in DOMAIN g
      BY <1>1, <2>3
    <3>2. g[j] \in HealTraces
      BY <1>1, <3>1
    <3>3. g[j].e \in Int /\ g[j].e <= a.end
      BY <1>2, <3>1, <3>2, TraceTypes
    <3> QED BY <1>5, <2>1, <3>3
  <2> QED BY <2>2, <2>3
<1>10. ASSUME ~d.short PROVE Even(d, b) /\ Good(d, g)
  <2>1. Even(a, b) /\ Good(a, g)
    BY <1>2, <1>7, <1>8, <1>10
  <2>2. PICK f \in Nat, n \in Nat : Adds(a, c, t, f, n)
    BY <1>7, <1>8, <1>10
  <2>3. Good(c, g)
    <3> HIDE DEF t
    <3>1. t = g[m]
      BY DEF t
    <3> QED BY <1>2, <1>7, <2>1, <2>2, <3>1, AddsGood
  <2>4. Good(d, g)
    BY <1>8, <2>3, SameArray
  <2>5. Even(d, b)
    BY <1>7, <1>8, <2>1, <2>2, AddsEven
  <2> QED BY <2>4, <2>5
<1>11. d.s = g[1].s
  BY <1>2, <1>7, <1>8
<1>12. LaidOut(d, g, m, b)
  BY <1>8, <1>9, <1>10, <1>11 DEF LaidOut
<1> QED BY <1>12 DEF d

LEMMA StartGood ==
    ASSUME NEW b \in Int, NEW g, Full(g, b), g # <<>>
    PROVE  LaidOut(Start(g[1]), g, 1, b)
<1> DEFINE a == Start(g[1])  t == g[1]
<1>1. g \in Seq(HealTraces) /\ 1 \in DOMAIN g
  BY DEF Full
<1>2. a \in Layouts
  BY <1>1, StartTypes
<1>3. a.s = t.s /\ a.end = t.e /\ a.data = t.d /\ a.gaps = <<>> /\ a.olaps = <<>>
  BY DEF Start, Nothing
<1>4. Piece(t.s, t.e, t.d, b)
  BY <1>1 DEF Full
<1> HIDE DEF a, t
<1>5. /\ t.s \in Nat /\ t.e \in Nat /\ OnGrid(b, t.e) /\ Len(t.d) \in Nat \ {0} /\ DOMAIN t.d = 1 .. Len(t.d)
      /\ t.e = t.s + (Len(t.d) - 1) * One
      /\ \A k \in 1 .. Len(t.d) : t.d[k] = t.s + (k - 1) * One /\ t.d[k] \in Nat
  BY <1>4, PieceTypes
<1>6. Even(a, b)
  BY <1>2, <1>3, <1>5 DEF Even
<1>7. \A k \in DOMAIN a.data : a.data[k] = a.s + (k - 1) * One /\ a.data[k] # Zero
  BY <1>3, <1>5 DEF Zero
<1>8. Elems(a.gaps) = {} /\ Elems(a.olaps) = {}
  BY <1>3 DEF Elems
<1>9. Good(a, g)
  BY <1>7, <1>8 DEF Good, Timed, Laid, Gaps, InGap, Unseen
<1>10. \A j \in 1 .. 1 : g[j].e <= a.end
  BY <1>3, <1>5 DEF t
<1> QED BY <1>2, <1>3, <1>6, <1>9, <1>10 DEF LaidOut, a, t

LEMMA LayOutGood ==
    ASSUME NEW b \in Int, NEW g, Full(g, b), g # <<>>
    PROVE  LaidOut(LayOut(g), g, Len(g), b)
<1>1. g \in Seq(HealTraces) /\ Len(g) \in Nat /\ Len(g) >= 1 /\ DOMAIN g = 1 .. Len(g)
  BY DEF Full
<1>2. /\ Len(Tail(g)) = Len(g) - 1 /\ \A k \in 1 .. Len(g) - 1 : Tail(g)[k] = g[k + 1]
  BY <1>1
<1>3. PICK r : /\ r[0] = Start(g[1])
               /\ \A k \in 1 .. Len(Tail(g)) : r[k] = AddTrace(r[k - 1], Tail(g)[k])
               /\ FoldLeft(AddTrace, Start(g[1]), Tail(g)) = r[Len(Tail(g))]
  BY <1>1, LayoutRun
<1>4. LayOut(g) = r[Len(g) - 1]
  BY <1>2, <1>3 DEF LayOut
<1> DEFINE Q == {m \in Nat : m <= Len(g) - 1 => LaidOut(r[m], g, m + 1, b)}
<1>5. 0 \in Q
  BY <1>3, StartGood
<1>6. ASSUME NEW m \in Q PROVE m + 1 \in Q
  <2> SUFFICES ASSUME m + 1 <= Len(g) - 1 PROVE LaidOut(r[m + 1], g, m + 2, b)
    OBVIOUS
  <2>1. m + 1 \in 1 .. Len(g) - 1 /\ (m + 1) - 1 = m /\ LaidOut(r[m], g, m + 1, b)
    BY <1>1
  <2>2. r[m + 1] = AddTrace(r[m], g[m + 2])
    BY <1>2, <1>3, <2>1
  <2> DEFINE q == m + 2
  <2>3. q \in DOMAIN g /\ q # 1 /\ q - 1 = m + 1
    BY <1>1
  <2> HIDE DEF q
  <2>4. LaidOut(AddTrace(r[m], g[q]), g, q, b)
    BY <2>1, <2>3, AddStep
  <2> QED BY <2>2, <2>4 DEF q
<1>7. Q = Nat
  <2> HIDE DEF Q
  <2>1. Q \in SUBSET Nat
    BY DEF Q
  <2> QED BY <1>5, <1>6, <2>1, SetInduction
<1>8. Len(g) - 1 \in Q
  BY <1>1, <1>7
<1>9. LaidOut(r[Len(g) - 1], g, Len(g) - 1 + 1, b) /\ Len(g) - 1 + 1 = Len(g)
  BY <1>1, <1>8
<1> QED BY <1>4, <1>9

LEMMA WithDataFull ==
    ASSUME NEW b \in Int, NEW g, Whole(g, b)
    PROVE  /\ Full(WithData(g), b)
           /\ \A s, e \in Int : Spans(g, s, e) => Spans(WithData(g), s, e)
<1> DEFINE T == {t \in Elems(g) : t.d # <<>>}
           h == Only(g, T)
<1>1. g \in Seq(HealTraces) /\ InOrder(g)
  BY DEF Whole
<1>2. WithData(g) = h
  BY DEF WithData
<1> HIDE DEF T
<1>3. h \in Seq(HealTraces) /\ Elems(h) = Elems(g) \cap T
  BY <1>1, OnlyProperties
<1>4. InOrder(h)
  BY <1>1, OnlyInOrder
<1> HIDE DEF h
<1>5. ASSUME NEW j \in DOMAIN h PROVE Piece(h[j].s, h[j].e, h[j].d, b)
  <2>1. h[j] \in Elems(g) /\ h[j] \in T
    BY <1>3 DEF Elems
  <2>2. PICK i \in DOMAIN g : h[j] = g[i]
    BY <2>1 DEF Elems
  <2>3. g[i].d # <<>>
    BY <2>1, <2>2 DEF T
  <2>4. Piece(g[i].s, g[i].e, g[i].d, b)
    BY <2>3 DEF Whole
  <2> QED BY <2>2, <2>4
<1>6. \A t \in Elems(g) : t.rate => t \in Elems(h)
  <2> SUFFICES ASSUME NEW t \in Elems(g), t.rate PROVE t \in T
    BY <1>3
  <2>1. PICK i \in DOMAIN g : t = g[i]
    BY DEF Elems
  <2>2. Piece(t.s, t.e, t.d, b)
    BY <2>1 DEF Whole
  <2> QED BY <2>2 DEF Piece, T
<1>7. \A s, e \in Int : Spans(g, s, e) => Spans(h, s, e)
  BY <1>6, SpansElems
<1>8. Full(h, b)
  BY <1>3, <1>4, <1>5 DEF Full
<1> QED BY <1>2, <1>7, <1>8

\* Each sample at its time, gaps marked, and no packet with one in them.
Placed(r, P) ==
    /\ Timed(r) /\ Laid(r) /\ Gaps(r)
    /\ \A k \in DOMAIN r.data : r.data[k] = Zero =>
          \A i \in DOMAIN P : P[i].n > 0 =>
            ~(P[i].s <= r.s + (k - 1) * One /\ r.s + (k - 1) * One <= msr_endtime(P[i]))

LEMMA NothingPlaced ==
    ASSUME NEW P
    PROVE  Nothing \in Layouts /\ Nothing.data = <<>> /\ Placed(Nothing, P)
<1>1. Nothing.data = <<>> /\ Nothing.gaps = <<>> /\ Nothing.olaps = <<>>
  BY DEF Nothing
<1>2. <<>> \in Seq(Int) /\ <<>> \in Seq(Int \X Int) /\ <<>> \in Seq(Overlaps) /\ DOMAIN <<>> = {}
  OBVIOUS
<1>3. Nothing \in Layouts
  BY <1>2 DEF Nothing, Layouts
<1>4. DOMAIN Nothing.data = {} /\ Elems(Nothing.gaps) = {} /\ Elems(Nothing.olaps) = {}
  BY <1>1, <1>2 DEF Elems
<1> HIDE DEF Nothing
<1> QED BY <1>1, <1>3, <1>4 DEF Placed, Timed, Laid, Gaps, InGap

\* What packets on the grid are assembled to.
LEMMA AssembleGood ==
    ASSUME NEW b \in Int, NEW E, NEW P \in Seq(E), Packets(P), OnGridAll(P, b),
           NEW any \in BOOLEAN, ~any, NEW r, r = Assemble(P, any)
    PROVE  /\ r \in Layouts
           /\ r.data # <<>> => r.s \in Nat /\ OnGrid(b, r.s)
           /\ ~r.short => Placed(r, P)
<1> DEFINE g1 == Group(P, any)  g2 == mst_groupsort(g1)  g3 == mst_groupheal(g2)  g == WithData(g3)
<1>1. /\ g1 \in Seq(GroupTraces) /\ \A j \in DOMAIN g1 : Straight(g1[j], b)
      /\ \A i \in DOMAIN P : P[i].n > 0 => Spans(g1, P[i].s, msr_endtime(P[i]))
  BY GroupStraight
<1> HIDE DEF g1
<1>2. g2 \in Seq(GroupTraces) /\ Elems(g2) = Elems(g1) /\ InOrder(g2)
  BY <1>1, SortedGroup
<1> HIDE DEF g2
<1>3. \A j \in DOMAIN g2 : Straight(g2[j], b)
  <2> SUFFICES ASSUME NEW j \in DOMAIN g2 PROVE Straight(g2[j], b)
    OBVIOUS
  <2>1. g2[j] \in Elems(g1)
    BY <1>2 DEF Elems
  <2>2. PICK i \in DOMAIN g1 : g2[j] = g1[i]
    BY <2>1 DEF Elems
  <2> QED BY <1>1, <2>2
<1>4. \A s, e : Spans(g1, s, e) => Spans(g2, s, e)
  BY <1>2, SpansElems
<1>5. /\ Whole(g3, b) /\ \A s, e \in Int : Spans(g2, s, e) => Spans(g3, s, e)
  BY <1>2, <1>3, HealStraight
<1> HIDE DEF g3
<1>6. Full(g, b) /\ \A s, e \in Int : Spans(g3, s, e) => Spans(g, s, e)
  BY <1>5, WithDataFull
<1> HIDE DEF g
<1>7. r = LayOut(g)
  BY DEF Assemble, g1, g2, g3, g
<1>8. CASE g = <<>>
  <2>1. r = Nothing
    BY <1>7, <1>8 DEF LayOut
  <2> QED BY <2>1, NothingPlaced
<1>9. CASE g # <<>>
  <2>1. LaidOut(r, g, Len(g), b)
    BY <1>6, <1>7, <1>9, LayOutGood
  <2>2. g \in Seq(HealTraces) /\ 1 \in DOMAIN g
    BY <1>6, <1>9 DEF Full
  <2>3. Piece(g[1].s, g[1].e, g[1].d, b)
    BY <1>6, <2>2 DEF Full
  <2>4. r \in Layouts /\ r.s \in Nat /\ OnGrid(b, r.s)
    BY <2>1, <2>3, PieceTimes DEF LaidOut
  <2>5. ASSUME ~r.short PROVE Placed(r, P)
    <3>1. Timed(r) /\ Laid(r) /\ Gaps(r) /\ Unseen(r, g)
      BY <2>1, <2>5 DEF LaidOut, Good
    <3>2. ASSUME NEW k \in DOMAIN r.data, r.data[k] = Zero, NEW i \in DOMAIN P, P[i].n > 0,
                 P[i].s <= r.s + (k - 1) * One, r.s + (k - 1) * One <= msr_endtime(P[i])
          PROVE  FALSE
      <4> DEFINE x == r.s + (k - 1) * One
      <4>1. Packet(P[i])
        BY DEF Packets
      <4>2. P[i].s \in Int /\ msr_endtime(P[i]) \in Int
        BY <4>1, PacketTypes
      <4>3. Spans(g, P[i].s, msr_endtime(P[i]))
        BY <1>1, <1>4, <1>5, <1>6, <3>2, <4>2
      <4>4. PICK j \in DOMAIN g : g[j].s <= P[i].s /\ msr_endtime(P[i]) <= g[j].e
        BY <4>3 DEF Spans
      <4>5. g[j] \in HealTraces
        BY <2>2
      <4>6. g[j].s \in Int /\ g[j].e \in Int
        BY <4>5, TraceTypes
      <4>7. x \in Int
        <5>1. r.s \in Int /\ k \in Int
          BY <2>4, <3>2, LayoutTypes
        <5> QED BY <5>1, OneAssumption
      <4> HIDE DEF x
      <4>8. g[j].s <= x /\ x <= g[j].e
        BY <3>2, <4>2, <4>4, <4>6, <4>7 DEF x
      <4> QED BY <3>1, <3>2, <4>8 DEF Unseen, Covers, x
    <3> QED BY <3>1, <3>2 DEF Placed
  <2> QED BY <2>4, <2>5
<1> QED BY <1>8, <1>9

-----------------------------------------------------------------------------
(* Reading the packets one after another.                                  *)

Begin(t) == [s |-> t.s, set |-> t.set, data |-> <<>>, next |-> 0, again |-> FALSE]
Fasts(t) == [s : Nat \cup {t.s}, set : BOOLEAN, data : Seq(Int), next : Int, again : BOOLEAN]

LEMMA TakePacketTypes ==
    ASSUME NEW t, NEW a \in Fasts(t), NEW p, Packet(p)
    PROVE  TakePacket(a, p) \in Fasts(t)
<1>1. /\ p.s \in Nat /\ p.odd \in BOOLEAN /\ msr_endtime(p) + One \in Int /\ a.data \o Samples(p) \in Seq(Int)
  BY PacketTypes, OneAssumption DEF Packet, Fasts
<1> DEFINE d == a.data \o Samples(p)  e == msr_endtime(p) + One
<1>2. d \in Seq(Int) /\ e \in Int
  BY <1>1
<1>3. TakePacket(a, p) \in {a, [a EXCEPT !.again = TRUE],
          [a EXCEPT !.s = IF a.set THEN a.s ELSE p.s, !.set = TRUE, !.data = d, !.next = e]}
  BY DEF TakePacket
<1> HIDE DEF d, e
<1>4. (IF a.set THEN a.s ELSE p.s) \in Nat \cup {t.s}
  BY <1>1 DEF Fasts
<1> QED BY <1>2, <1>3, <1>4 DEF Fasts

\* The file read packet by packet.
LEMMA FastRun ==
    ASSUME NEW E, file \in Seq(E), Packets(file), NEW t, t.set \in BOOLEAN
    PROVE  \E r : /\ r[0] = Begin(t)
                  /\ \A k \in 1 .. Len(file) : r[k] = TakePacket(r[k - 1], file[k])
                  /\ Fast(t) = r[Len(file)]
<1> DEFINE N == Len(file)
           V == Fasts(t)
           D == {file[i] : i \in DOMAIN file}
           F == [z \in V \X D |-> TakePacket(z[1], z[2])]
           IsIt(h) == h = [S \in SUBSET (1 .. N) |->
                             IF S = {} THEN Begin(t) ELSE TakePacket(h[S \ {Max(S)}], file[Max(S)])]
           it == CHOOSE h : IsIt(h)
<1>1. N \in Nat /\ DOMAIN file = 1 .. N /\ file \in Seq(D) /\ Len(file) = N
  OBVIOUS
<1>2. \A v \in V, x \in D : TakePacket(v, x) \in V
  BY TakePacketTypes DEF Packets
<1>3. F \in [V \X D -> V] /\ Begin(t) \in V
  <2>1. ASSUME NEW z \in V \X D PROVE TakePacket(z[1], z[2]) \in V
    <3> HIDE DEF V, D
    <3>1. z[1] \in V /\ z[2] \in D /\ z = <<z[1], z[2]>>
      OBVIOUS
    <3> QED BY <1>2, <3>1
  <2>2. Begin(t) \in V
    BY DEF Begin, Fasts
  <2> QED BY <2>1, <2>2
<1>4. Fast(t) = it[1 .. N]
  BY <1>1 DEF Fast, Begin, FoldLeft, MapThenFoldSet
<1> HIDE DEF N, V, D, it
<1>5. PICK h : IsFold(h, F, Begin(t), file, N) /\ h \in [SUBSET (1 .. N) -> V]
  <2> HIDE DEF F
  <2> QED BY <1>1, <1>3, FoldExists
<1>6. ASSUME NEW S \in SUBSET (1 .. N), S # {}
      PROVE  F[<<h[S \ {Max(S)}], file[Max(S)]>>] = TakePacket(h[S \ {Max(S)}], file[Max(S)])
  <2>1. Max(S) \in S
    BY <1>1, <1>6, LargestExists
  <2>2. Max(S) \in DOMAIN file /\ S \ {Max(S)} \in SUBSET (1 .. N)
    BY <1>1, <2>1
  <2>3. file[Max(S)] \in D
    BY <1>1, <2>2
  <2>4. h[S \ {Max(S)}] \in V
    BY <1>5, <2>2
  <2> QED BY <2>3, <2>4
<1> HIDE DEF F
<1>7. IsIt(h)
  BY <1>5, <1>6 DEF IsFold
<1>8. IsIt(it)
  BY <1>7 DEF it
<1> DEFINE r == [k \in 0 .. N |-> it[1 .. k]]
<1>9. r[0] = Begin(t)
  <2>1. 1 .. 0 = {} /\ 0 \in 0 .. N
    BY <1>1
  <2> QED BY <1>8, <2>1
<1>10. ASSUME NEW k \in 1 .. N PROVE r[k] = TakePacket(r[k - 1], file[k])
  <2>1. k \in Nat /\ k # 0 /\ k - 1 \in 0 .. N /\ k \in 0 .. N /\ 1 .. k \in SUBSET (1 .. N)
    BY <1>1
  <2>2. 1 .. k # {} /\ Max(1 .. k) = k /\ (1 .. k) \ {k} = 1 .. k - 1
    BY <2>1, FoldPrefix
  <2> QED BY <1>8, <2>1, <2>2
<1>11. N \in 0 .. N
  BY <1>1
<1>12. Fast(t) = r[N]
  BY <1>4, <1>11
<1> HIDE DEF r
<1> QED BY <1>9, <1>10, <1>12 DEF N

\* One of the first k packets does not start where the one before ended.
Disordered(f, k) ==
    \E i, j \in 1 .. k :
        /\ i < j /\ f[i].n > 0 /\ f[j].n > 0 /\ \A m \in i + 1 .. j - 1 : f[m].n = 0
        /\ f[j].s # msr_endtime(f[i]) + One

\* The first of the first k packets with samples starts at x; the last one ends
\* before next.
StartsAt(f, k, x) == \E i \in 1 .. k : f[i].n > 0 /\ (\A m \in 1 .. i - 1 : f[m].n = 0) /\ x = f[i].s
EndsBefore(f, k, next) ==
    \E i \in 1 .. k : f[i].n > 0 /\ (\A m \in i + 1 .. k : f[m].n = 0) /\ next = msr_endtime(f[i]) + One

Unbroken(d, x, next) ==
    /\ d \in Seq(Nat) /\ d # <<>> /\ next = x + Len(d) * One
    /\ \A j \in DOMAIN d : d[j] = x + (j - 1) * One

\* What the first k packets were read to.
Silent(a, t, f, k) == a.data = <<>> /\ a.s = t.s /\ a.set = t.set /\ \A i \in 1 .. k : f[i].n = 0
Running(a, t, f, k) ==
    \E x \in Nat : /\ StartsAt(f, k, x) /\ EndsBefore(f, k, a.next) /\ Unbroken(a.data, x, a.next)
                   /\ a.set /\ a.s = IF t.set THEN t.s ELSE x
SoFar(a, t, f, k) ==
    IF a.again THEN Disordered(f, k)
    ELSE ~Disordered(f, k) /\ (Silent(a, t, f, k) \/ Running(a, t, f, k))

LEMMA DisorderedMore ==
    ASSUME NEW f, NEW k \in Nat, NEW n \in Nat, k <= n, Disordered(f, k)
    PROVE  Disordered(f, n)
<1>1. PICK i \in 1 .. k, j \in 1 .. k :
        /\ i < j /\ f[i].n > 0 /\ f[j].n > 0 /\ \A m \in i + 1 .. j - 1 : f[m].n = 0
        /\ f[j].s # msr_endtime(f[i]) + One
  BY DEF Disordered
<1>2. i \in 1 .. n /\ j \in 1 .. n
  OBVIOUS
<1> QED BY <1>1, <1>2 DEF Disordered

\* A packet without samples changes nothing.
LEMMA SilentPacket ==
    ASSUME NEW t, NEW f, NEW k \in Nat, NEW a, SoFar(a, t, f, k), f[k + 1].n = 0
    PROVE  SoFar(a, t, f, k + 1)
<1>1. Disordered(f, k + 1) => Disordered(f, k)
  <2> SUFFICES ASSUME Disordered(f, k + 1) PROVE Disordered(f, k)
    OBVIOUS
  <2>1. PICK i \in 1 .. k + 1, j \in 1 .. k + 1 :
        /\ i < j /\ f[i].n > 0 /\ f[j].n > 0 /\ \A m \in i + 1 .. j - 1 : f[m].n = 0
        /\ f[j].s # msr_endtime(f[i]) + One
    BY DEF Disordered
  <2>2. j # k + 1 /\ i # k + 1
    BY <2>1
  <2>3. i \in 1 .. k /\ j \in 1 .. k
    BY <2>2
  <2> QED BY <2>1, <2>3 DEF Disordered
<1>2. k + 1 \in Nat /\ k <= k + 1
  OBVIOUS
<1>3. Disordered(f, k) => Disordered(f, k + 1)
  BY <1>2, DisorderedMore
<1>4. Silent(a, t, f, k) => Silent(a, t, f, k + 1)
  <2>1. \A i \in 1 .. k + 1 : i \in 1 .. k \/ i = k + 1
    OBVIOUS
  <2> QED BY <2>1 DEF Silent
<1>5. ASSUME NEW x \in Nat, StartsAt(f, k, x) PROVE StartsAt(f, k + 1, x)
  <2>1. 1 .. k \subseteq 1 .. k + 1
    OBVIOUS
  <2> QED BY <1>5, <2>1 DEF StartsAt
<1>6. ASSUME EndsBefore(f, k, a.next) PROVE EndsBefore(f, k + 1, a.next)
  <2>1. PICK i \in 1 .. k : f[i].n > 0 /\ (\A m \in i + 1 .. k : f[m].n = 0) /\ a.next = msr_endtime(f[i]) + One
    BY <1>6 DEF EndsBefore
  <2>2. \A m \in i + 1 .. k + 1 : m \in i + 1 .. k \/ m = k + 1
    OBVIOUS
  <2>3. i \in 1 .. k + 1
    OBVIOUS
  <2>4. \A m \in i + 1 .. k + 1 : f[m].n = 0
    BY <2>1, <2>2
  <2> QED BY <2>1, <2>3, <2>4 DEF EndsBefore
<1>7. Running(a, t, f, k) => Running(a, t, f, k + 1)
  BY <1>5, <1>6 DEF Running
<1> QED BY <1>1, <1>3, <1>4, <1>7 DEF SoFar

\* A packet with samples does not follow the last one with some: disorder.
LEMMA BrokenPacket ==
    ASSUME NEW f, NEW k \in Nat, NEW next, EndsBefore(f, k, next), f[k + 1].n > 0
    PROVE  f[k + 1].s # next => Disordered(f, k + 1)
<1> SUFFICES ASSUME f[k + 1].s # next PROVE Disordered(f, k + 1)
  OBVIOUS
<1>1. PICK i \in 1 .. k : f[i].n > 0 /\ (\A m \in i + 1 .. k : f[m].n = 0) /\ next = msr_endtime(f[i]) + One
  BY DEF EndsBefore
<1>2. i \in 1 .. k + 1 /\ k + 1 \in 1 .. k + 1 /\ i < k + 1 /\ (k + 1) - 1 = k
  OBVIOUS
<1> QED BY <1>1, <1>2 DEF Disordered

LEMMA FollowingPacket ==
    ASSUME NEW f, NEW k \in Nat, ~Disordered(f, k), f[k + 1].n > 0, \A i \in 1 .. k : f[i].n \in Nat,
           \/ \A i \in 1 .. k : f[i].n = 0
           \/ EndsBefore(f, k, f[k + 1].s)
    PROVE  ~Disordered(f, k + 1)
<1> SUFFICES ASSUME Disordered(f, k + 1) PROVE FALSE
  OBVIOUS
<1>1. PICK i \in 1 .. k + 1, j \in 1 .. k + 1 :
        /\ i < j /\ f[i].n > 0 /\ f[j].n > 0 /\ \A m \in i + 1 .. j - 1 : f[m].n = 0
        /\ f[j].s # msr_endtime(f[i]) + One
  BY DEF Disordered
<1>2. i \in 1 .. k
  BY <1>1
<1>3. CASE j \in 1 .. k
  BY <1>1, <1>2, <1>3 DEF Disordered
<1>4. CASE j = k + 1
  <2>1. ~(\A m \in 1 .. k : f[m].n = 0)
    BY <1>1, <1>2
  <2>2. PICK l \in 1 .. k : f[l].n > 0 /\ (\A m \in l + 1 .. k : f[m].n = 0) /\ f[k + 1].s = msr_endtime(f[l]) + One
    BY <2>1 DEF EndsBefore
  <2>3. ~(i < l)
    <3>1. i < l => l \in i + 1 .. j - 1
      BY <1>2, <1>4
    <3> QED BY <1>1, <2>2, <3>1
  <2>4. ~(l < i)
    <3>1. l < i => i \in l + 1 .. k
      BY <1>2
    <3> QED BY <1>1, <2>2, <3>1
  <2>5. i = l
    BY <1>2, <2>3, <2>4
  <2> QED BY <1>1, <1>4, <2>2, <2>5
<1> QED BY <1>3, <1>4

\* The samples of p after those of an unbroken run.
LEMMA UnbrokenMore ==
    ASSUME NEW p, Packet(p), p.rate, p.n > 0, NEW d, NEW x \in Nat,
           (d = <<>> /\ x = p.s) \/ Unbroken(d, x, p.s)
    PROVE  Unbroken(d \o Samples(p), x, msr_endtime(p) + One)
<1> DEFINE c == Samples(p)  N == Len(d)  n == Len(c)
<1>1. /\ p.s \in Nat /\ n = p.n /\ n \in Nat \ {0} /\ c \in Seq(Int)
      /\ \A k \in 1 .. n : c[k] = p.s + (k - 1) * One
      /\ msr_endtime(p) = p.s + (n - 1) * One
  BY PacketTypes DEF msr_endtime
<1>2. /\ d \in Seq(Nat) /\ N \in Nat /\ p.s = x + N * One /\ \A j \in 1 .. N : d[j] = x + (j - 1) * One
  <2>1. CASE d = <<>> /\ x = p.s
    <3>1. N = 0 /\ N * One = 0
      BY <2>1, OneAssumption
    <3> QED BY <2>1, <3>1
  <2>2. CASE Unbroken(d, x, p.s)
    BY <2>2 DEF Unbroken
  <2> QED BY <2>1, <2>2
<1>3. c \in Seq(Nat)
  <2>1. ASSUME NEW k \in 1 .. n PROVE c[k] \in Nat
    <3> DEFINE m == k - 1
    <3>1. m \in Nat /\ c[k] = p.s + m * One
      BY <1>1
    <3> HIDE DEF m
    <3>2. p.s + m * One \in Nat
      BY <1>1, <3>1, LaterSample
    <3> QED BY <3>1, <3>2
  <2>2. c \in Seq(Int) /\ Len(c) = n
    BY <1>1
  <2> HIDE DEF c, n
  <2> QED BY <2>1, <2>2
<1> HIDE DEF c
<1>4. /\ d \o c \in Seq(Nat) /\ Len(d \o c) = N + n /\ DOMAIN (d \o c) = 1 .. N + n
      /\ \A k \in 1 .. N : (d \o c)[k] = d[k]
      /\ \A k \in N + 1 .. N + n : (d \o c)[k] = c[k - N]
  <2>1. d \in Seq(Int) /\ c \in Seq(Int)
    BY <1>1, <1>2
  <2>2. Chain(d, c, d \o c)
    BY <2>1, Joined
  <2>3. d \o c \in Seq(Nat)
    BY <1>2, <1>3
  <2>4. DOMAIN (d \o c) = 1 .. Len(d \o c)
    BY <2>3
  <2> QED BY <2>2, <2>3, <2>4 DEF Chain
<1>5. d \o c # <<>>
  BY <1>1, <1>2, <1>4
<1> DEFINE e == d \o c
<1> HIDE DEF e, N, n
<1>6. ASSUME NEW k \in 1 .. N + n PROVE e[k] = x + (k - 1) * One
  <2>1. CASE k \in 1 .. N
    BY <1>2, <1>4, <2>1 DEF e
  <2>2. CASE k \notin 1 .. N
    <3>1. k \in N + 1 .. N + n /\ k - N \in 1 .. n
      BY <1>1, <1>2, <2>2
    <3>2. e[k] = p.s + (k - N - 1) * One
      BY <1>1, <1>4, <3>1 DEF e
    <3>3. p.s + (k - N - 1) * One = x + (k - 1) * One
      BY <1>1, <1>2, <3>1, OneAssumption
    <3> QED BY <3>2, <3>3
  <2> QED BY <2>1, <2>2
<1>7. msr_endtime(p) + One = x + (N + n) * One
  <2>1. msr_endtime(p) + One = p.s + n * One
    BY <1>1, OneAssumption
  <2> QED BY <1>1, <1>2, <2>1, TwoSteps
<1> QED BY <1>4, <1>5, <1>6, <1>7 DEF Unbroken, e, c, N, n

Clean(f) == \A i \in DOMAIN f : Packet(f[i]) /\ ~f[i].odd /\ (f[i].rate <=> f[i].n > 0)

LEMMA TakenPacket ==
    ASSUME NEW t, NEW a \in Fasts(t), NEW p, Packet(p), ~p.odd, NEW c, c = TakePacket(a, p)
    PROVE  /\ a.again \/ p.n = 0 => c = a
           /\ ~a.again /\ p.n > 0 /\ a.data # <<>> /\ p.s # a.next => c.again
           /\ ~a.again /\ p.n > 0 /\ (a.data = <<>> \/ p.s = a.next) =>
                /\ ~c.again /\ c.s = (IF a.set THEN a.s ELSE p.s) /\ c.set
                /\ c.data = a.data \o Samples(p) /\ c.next = msr_endtime(p) + One
<1>1. p.n \in Nat
  BY PacketTypes
<1>2. CASE a.again \/ p.n = 0
  BY <1>1, <1>2 DEF TakePacket
<1>3. CASE ~a.again /\ p.n > 0 /\ a.data # <<>> /\ p.s # a.next
  <2>1. c = [a EXCEPT !.again = TRUE]
    BY <1>1, <1>3 DEF TakePacket, Broken
  <2> QED BY <1>1, <1>3, <2>1 DEF Fasts
<1>4. CASE ~a.again /\ p.n > 0 /\ (a.data = <<>> \/ p.s = a.next)
  <2> DEFINE s == IF a.set THEN a.s ELSE p.s  d == a.data \o Samples(p)  e == msr_endtime(p) + One
  <2>1. c = [a EXCEPT !.s = s, !.set = TRUE, !.data = d, !.next = e]
    BY <1>1, <1>4 DEF TakePacket, Broken
  <2> HIDE DEF s, d, e
  <2>2. c.again = a.again /\ c.s = s /\ c.set = TRUE /\ c.data = d /\ c.next = e
    BY <2>1 DEF Fasts
  <2> QED BY <1>1, <1>4, <2>2 DEF s, d, e
<1> QED BY <1>1, <1>2, <1>3, <1>4

LEMMA FastStep ==
    ASSUME NEW t, t.set \in BOOLEAN, NEW f, Clean(f), NEW k \in Nat, \A i \in 1 .. k + 1 : i \in DOMAIN f,
           NEW a \in Fasts(t), SoFar(a, t, f, k)
    PROVE  SoFar(TakePacket(a, f[k + 1]), t, f, k + 1)
<1> DEFINE p == f[k + 1]  c == TakePacket(a, p)
<1>1. k + 1 \in 1 .. k + 1 /\ k + 1 \in Nat /\ k <= k + 1 /\ \A i \in 1 .. k : i \in DOMAIN f
  OBVIOUS
<1>2. Packet(p) /\ ~p.odd /\ (p.rate <=> p.n > 0) /\ \A i \in 1 .. k : f[i].n \in Nat
  BY <1>1 DEF Clean, Packet
<1>3. p.n \in Nat /\ p.s \in Nat
  BY <1>2, PacketTypes
<1> HIDE DEF c
<1>4. /\ a.again \/ p.n = 0 => c = a
      /\ ~a.again /\ p.n > 0 /\ a.data # <<>> /\ p.s # a.next => c.again
      /\ ~a.again /\ p.n > 0 /\ (a.data = <<>> \/ p.s = a.next) =>
                /\ ~c.again /\ c.s = (IF a.set THEN a.s ELSE p.s) /\ c.set
                /\ c.data = a.data \o Samples(p) /\ c.next = msr_endtime(p) + One
  <2> HIDE DEF p
  <2> QED BY <1>2, TakenPacket DEF c
<1>5. CASE p.n = 0
  BY <1>4, <1>5, SilentPacket DEF c
<1>6. CASE p.n > 0 /\ a.again
  <2>1. Disordered(f, k) /\ c = a
    BY <1>4, <1>6 DEF SoFar
  <2> QED BY <1>1, <1>6, <2>1, DisorderedMore DEF SoFar, c
<1>7. ASSUME p.n > 0, ~a.again, Silent(a, t, f, k)
      PROVE  SoFar(c, t, f, k + 1)
  <2>1. /\ ~c.again /\ c.s = (IF t.set THEN t.s ELSE p.s) /\ c.set
        /\ c.data = a.data \o Samples(p) /\ c.next = msr_endtime(p) + One /\ a.data = <<>>
    BY <1>4, <1>7 DEF Silent
  <2>2. ~Disordered(f, k + 1)
    BY <1>2, <1>7, FollowingPacket DEF Silent, SoFar
  <2>3. StartsAt(f, k + 1, p.s)
    <3>1. (k + 1) - 1 = k
      OBVIOUS
    <3> QED BY <1>1, <1>7, <3>1 DEF StartsAt, Silent
  <2>4. EndsBefore(f, k + 1, c.next)
    <3>1. (k + 1) + 1 .. k + 1 = {}
      OBVIOUS
    <3> QED BY <1>1, <1>7, <2>1, <3>1 DEF EndsBefore
  <2>5. Unbroken(c.data, p.s, c.next)
    <3> HIDE DEF p
    <3> QED BY <1>2, <1>3, <1>7, <2>1, UnbrokenMore
  <2>6. Running(c, t, f, k + 1)
    BY <1>3, <2>1, <2>3, <2>4, <2>5 DEF Running
  <2> QED BY <2>1, <2>2, <2>6 DEF SoFar
<1>8. ASSUME p.n > 0, ~a.again, Running(a, t, f, k)
      PROVE  SoFar(c, t, f, k + 1)
  <2>1. PICK x \in Nat : /\ StartsAt(f, k, x) /\ EndsBefore(f, k, a.next) /\ Unbroken(a.data, x, a.next)
                         /\ a.set /\ a.s = IF t.set THEN t.s ELSE x
    BY <1>8 DEF Running
  <2>2. a.data # <<>>
    BY <2>1 DEF Unbroken
  <2>3. CASE p.s # a.next
    <3>1. c.again
      BY <1>4, <1>8, <2>2, <2>3
    <3>2. Disordered(f, k + 1)
      BY <1>8, <2>1, <2>3, BrokenPacket
    <3> QED BY <3>1, <3>2 DEF SoFar
  <2>4. CASE p.s = a.next
    <3>1. /\ ~c.again /\ c.s = (IF t.set THEN t.s ELSE x) /\ c.set
          /\ c.data = a.data \o Samples(p) /\ c.next = msr_endtime(p) + One
      BY <1>4, <1>8, <2>1, <2>4
    <3>2. ~Disordered(f, k + 1)
      BY <1>2, <1>8, <2>1, <2>4, FollowingPacket DEF SoFar
    <3>3. StartsAt(f, k + 1, x)
      <4>1. 1 .. k \subseteq 1 .. k + 1
        OBVIOUS
      <4> QED BY <2>1, <4>1 DEF StartsAt
    <3>4. EndsBefore(f, k + 1, c.next)
      <4>1. (k + 1) + 1 .. k + 1 = {}
        OBVIOUS
      <4> QED BY <1>1, <1>8, <3>1, <4>1 DEF EndsBefore
    <3>5. Unbroken(c.data, x, c.next)
      <4> HIDE DEF p
      <4> QED BY <1>2, <1>8, <2>1, <2>4, <3>1, UnbrokenMore
    <3>6. Running(c, t, f, k + 1)
      BY <3>1, <3>3, <3>4, <3>5 DEF Running
    <3> QED BY <3>1, <3>2, <3>6 DEF SoFar
  <2> QED BY <2>3, <2>4
<1>9. SoFar(c, t, f, k + 1)
  BY <1>3, <1>5, <1>6, <1>7, <1>8 DEF SoFar, c
<1> QED BY <1>9 DEF c

LEMMA FastResult ==
    ASSUME NEW E, file \in Seq(E), Clean(file), NEW t, t.set \in BOOLEAN
    PROVE  Fast(t) \in Fasts(t) /\ SoFar(Fast(t), t, file, Len(file))
<1> DEFINE N == Len(file)
<1>1. N \in Nat /\ DOMAIN file = 1 .. N /\ Packets(file)
  BY DEF Clean, Packets
<1>2. PICK r : /\ r[0] = Begin(t)
               /\ \A k \in 1 .. N : r[k] = TakePacket(r[k - 1], file[k])
               /\ Fast(t) = r[N]
  BY <1>1, FastRun
<1> HIDE DEF N
<1> DEFINE Q == {m \in Nat : m <= N => r[m] \in Fasts(t) /\ SoFar(r[m], t, file, m)}
<1>3. 0 \in Q
  <2>1. Begin(t) \in Fasts(t)
    BY DEF Begin, Fasts
  <2>2. ~Begin(t).again /\ Begin(t).data = <<>> /\ Begin(t).s = t.s /\ Begin(t).set = t.set
    BY DEF Begin
  <2>3. ~Disordered(file, 0)
    BY DEF Disordered
  <2>4. Silent(Begin(t), t, file, 0)
    BY <2>2 DEF Silent
  <2>5. SoFar(Begin(t), t, file, 0)
    BY <2>2, <2>3, <2>4 DEF SoFar
  <2> QED BY <1>2, <2>1, <2>5
<1>4. ASSUME NEW m \in Q PROVE m + 1 \in Q
  <2> SUFFICES ASSUME m + 1 <= N PROVE r[m + 1] \in Fasts(t) /\ SoFar(r[m + 1], t, file, m + 1)
    OBVIOUS
  <2>1. m \in Nat /\ m + 1 \in 1 .. N /\ (m + 1) - 1 = m /\ r[m] \in Fasts(t) /\ SoFar(r[m], t, file, m)
    BY <1>1
  <2>2. r[m + 1] = TakePacket(r[m], file[m + 1])
    BY <1>2, <2>1
  <2>3. \A i \in 1 .. m + 1 : i \in DOMAIN file
    BY <1>1, <2>1
  <2>4. Packet(file[m + 1])
    BY <1>1, <2>1 DEF Packets
  <2> QED BY <2>1, <2>2, <2>3, <2>4, TakePacketTypes, FastStep
<1>5. Q = Nat
  <2> HIDE DEF Q
  <2>1. Q \in SUBSET Nat
    BY DEF Q
  <2> QED BY <1>3, <1>4, <2>1, SetInduction
<1>6. N \in Q
  BY <1>1, <1>5
<1> QED BY <1>1, <1>2, <1>6 DEF N

LEMMA GridOfRemainder ==
    ASSUME NEW b \in Int, NEW x \in Int, (x - b) % One = 0
    PROVE  OnGrid(b, x)
<1> DEFINE q == (x - b) \div One
<1>1. q \in Int /\ x - b = (One * q) + ((x - b) % One)
  BY OneAssumption
<1>2. x = b + q * One
  BY <1>1, OneAssumption
<1> QED BY <1>1, <1>2 DEF OnGrid

LEMMA StartUnique ==
    ASSUME NEW f, NEW k \in Nat, NEW x, NEW y, StartsAt(f, k, x), StartsAt(f, k, y)
    PROVE  x = y
<1>1. PICK i \in 1 .. k : f[i].n > 0 /\ (\A m \in 1 .. i - 1 : f[m].n = 0) /\ x = f[i].s
  BY DEF StartsAt
<1>2. PICK j \in 1 .. k : f[j].n > 0 /\ (\A m \in 1 .. j - 1 : f[m].n = 0) /\ y = f[j].s
  BY DEF StartsAt
<1>3. ~(i < j)
  <2>1. i < j => i \in 1 .. j - 1
    OBVIOUS
  <2> QED BY <1>1, <1>2, <2>1
<1>4. ~(j < i)
  <2>1. j < i => j \in 1 .. i - 1
    OBVIOUS
  <2> QED BY <1>1, <1>2, <2>1
<1>5. i = j
  BY <1>3, <1>4
<1> QED BY <1>1, <1>2, <1>5

\* A list of which every element is in T is left as it is.
LEMMA OnlyAll ==
    ASSUME NEW S, NEW s \in Seq(S), NEW T, Elems(s) \subseteq T
    PROVE  Only(s, T) = s
<1> DEFINE r == Only(s, T)
<1>1. PICK at : /\ Embeds(at, r, s)
                /\ \A j \in DOMAIN s : s[j] \in T => \E k \in 1 .. Len(r) : at[k] = j
  BY OnlyEmbeds
<1>2. r \in Seq(S) /\ Len(r) <= Len(s) /\ Len(r) \in Nat /\ Len(s) \in Nat /\ DOMAIN s = 1 .. Len(s)
  BY OnlyProperties
<1> HIDE DEF r
<1>3. \A j \in DOMAIN s : s[j] \in T
  BY DEF Elems
<1>4. /\ at \in [1 .. Len(r) -> 1 .. Len(s)]
      /\ \A k \in 1 .. Len(r) : r[k] = s[at[k]]
      /\ \A j, k \in 1 .. Len(r) : j < k => at[j] < at[k]
  BY <1>1, <1>2 DEF Embeds
<1>5. \A j \in 1 .. Len(s) : \E k \in 1 .. Len(r) : at[k] = j
  BY <1>1, <1>2, <1>3
<1> DEFINE Q == {m \in Nat : m <= Len(s) => m <= Len(r) /\ (m # 0 => at[m] = m)}
<1>6. 0 \in Q
  BY <1>2
<1>7. ASSUME NEW m \in Q PROVE m + 1 \in Q
  <2> SUFFICES ASSUME m + 1 <= Len(s) PROVE m + 1 <= Len(r) /\ at[m + 1] = m + 1
    OBVIOUS
  <2>1. m \in Nat /\ m + 1 \in 1 .. Len(s) /\ m <= Len(r) /\ (m # 0 => at[m] = m)
    BY <1>2
  <2>2. PICK k \in 1 .. Len(r) : at[k] = m + 1
    BY <1>5, <2>1
  <2>3. ~(k <= m)
    <3>1. CASE k = m
      BY <2>1, <2>2, <3>1
    <3>2. CASE k < m
      <4>1. m \in 1 .. Len(r) /\ m # 0
        BY <2>1, <3>2
      <4>2. at[k] < at[m] /\ at[m] = m
        BY <1>4, <2>1, <3>2, <4>1
      <4> QED BY <2>1, <2>2, <4>2
    <3> QED BY <2>1, <3>1, <3>2
  <2>4. m + 1 \in 1 .. Len(r)
    BY <1>2, <2>1, <2>3
  <2>5. at[m + 1] <= m + 1
    <3>1. CASE k = m + 1
      BY <2>1, <2>2, <3>1
    <3>2. CASE k # m + 1
      <4>1. m + 1 < k
        BY <2>1, <2>3, <3>2
      <4>2. at[m + 1] < at[k]
        BY <1>4, <2>4, <4>1
      <4>3. at[m + 1] \in Nat
        BY <1>4, <2>4
      <4> QED BY <2>1, <2>2, <4>2, <4>3
    <3> QED BY <3>1, <3>2
  <2>6. at[m + 1] > m
    <3>1. CASE m = 0
      BY <1>4, <2>4, <3>1
    <3>2. CASE m # 0
      <4>1. m \in 1 .. Len(r) /\ m < m + 1
        BY <2>1, <3>2
      <4>2. at[m] < at[m + 1] /\ at[m] = m
        BY <1>4, <2>1, <2>4, <3>2, <4>1
      <4> QED BY <4>2
    <3> QED BY <3>1, <3>2
  <2>7. at[m + 1] \in Nat
    BY <1>4, <2>4
  <2> QED BY <2>1, <2>4, <2>5, <2>6, <2>7
<1>8. Q = Nat
  <2> HIDE DEF Q
  <2>1. Q \in SUBSET Nat
    BY DEF Q
  <2> QED BY <1>6, <1>7, <2>1, SetInduction
<1>9. \A m \in 1 .. Len(s) : m <= Len(r) /\ at[m] = m
  <2> SUFFICES ASSUME NEW m \in 1 .. Len(s) PROVE m <= Len(r) /\ at[m] = m
    OBVIOUS
  <2>1. m \in Q /\ m <= Len(s) /\ m # 0
    BY <1>2, <1>8
  <2> QED BY <2>1
<1>10. Len(r) = Len(s)
  <2>1. Len(s) # 0 => Len(s) <= Len(r)
    BY <1>2, <1>9
  <2> QED BY <1>2, <2>1
<1>11. \A m \in 1 .. Len(s) : r[m] = s[m]
  BY <1>4, <1>9, <1>10
<1>12. r = s
  BY <1>2, <1>10, <1>11
<1> QED BY <1>12 DEF r

\* An excerpt of samples at their times is samples at their times.
LEMMA ExcerptTimed ==
    ASSUME NEW r \in Layouts, r.s \in Nat, Timed(r), NEW t, t.cut.at \in Nat, OnGrid(r.s, t.cut.at),
           NEW x, x = trace_excerpt(t, r), x.data # <<>>
    PROVE  x.s \in Nat /\ \A k \in DOMAIN x.data : x.data[k] \in {Zero, x.s + (k - 1) * One}
<1> DEFINE from == startSamp(t, r)  L == Len(r.data)  n == Smaller(ShotLen \div One, L - from)
           s == IF t.cut.at < r.s THEN r.s ELSE t.cut.at
           d == SubSeq(r.data, from + 1, from + n)
<1>1. r.data \in Seq(Int) /\ L \in Nat
  BY LayoutTypes
<1>2. from \in Nat /\ s \in Nat /\ s = r.s + from * One
  <2>1. CASE t.cut.at < r.s
    <3>1. from = 0 /\ s = r.s /\ 0 * One = 0
      BY <2>1, OneAssumption DEF startSamp
    <3> QED BY <3>1
  <2>2. CASE ~(t.cut.at < r.s)
    <3>1. PICK q \in Int : t.cut.at = r.s + q * One
      BY DEF OnGrid
    <3>2. t.cut.at - r.s = q * One /\ q * One \in Int
      BY <3>1, OneAssumption
    <3>3. (t.cut.at - r.s) \div One = q
      BY <3>2, Quotient
    <3>4. from = q /\ s = t.cut.at
      BY <2>2, <3>3 DEF startSamp
    <3>5. q >= 0
      <4>1. q * One >= 0
        BY <2>2, <3>2
      <4> QED BY <4>1, OneAssumption
    <3> QED BY <3>1, <3>4, <3>5
  <2> QED BY <2>1, <2>2
<1>3. ShotLen \div One \in Int
  BY UsesAssumption, OneAssumption
<1> HIDE DEF from, s
<1>4. n \in Int /\ n <= L - from
  BY <1>1, <1>2, <1>3 DEF Smaller
<1>5. x = [r EXCEPT !.s = s, !.data = d, !.gaps = <<>>, !.olaps = <<>>]
  BY DEF trace_excerpt, from, s
<1> HIDE DEF n, d
<1>6. x.s = s /\ x.data = d
  BY <1>5 DEF Layouts
<1>7. n >= 1
  <2>1. ASSUME n <= 0 PROVE d = <<>>
    <3>1. from + n < from + 1
      BY <1>2, <1>4, <2>1
    <3> QED BY <1>1, <1>2, <1>4, <3>1 DEF d
  <2> QED BY <1>4, <1>6, <2>1
<1>8. from \in 0 .. L /\ from + n \in from .. L
  BY <1>1, <1>2, <1>4, <1>7
<1>9. /\ d \in Seq(Int) /\ Len(d) = n /\ \A k \in 1 .. n : d[k] = r.data[from + k]
  <2>1. /\ d \in Seq(Int) /\ Len(d) = (from + n) - from
        /\ \A k \in 1 .. (from + n) - from : d[k] = r.data[from + k]
    BY <1>1, <1>8, RunProperties DEF d, L
  <2>2. (from + n) - from = n
    BY <1>2, <1>4
  <2> QED BY <2>1, <2>2
<1>10. ASSUME NEW k \in DOMAIN d PROVE d[k] \in {Zero, s + (k - 1) * One}
  <2>1. k \in 1 .. n /\ from + k \in DOMAIN r.data
    BY <1>1, <1>2, <1>4, <1>8, <1>9 DEF L
  <2>2. d[k] \in {Zero, r.s + (from + k - 1) * One}
    <3> DEFINE j == from + k
    <3>1. j \in DOMAIN r.data /\ d[k] = r.data[j]
      BY <1>9, <2>1
    <3> HIDE DEF j
    <3>2. d[k] \in {Zero, r.s + (j - 1) * One}
      BY <3>1 DEF Timed
    <3>3. from + k - 1 = j - 1
      <4>1. from \in Int /\ k \in Int
        BY <1>2, <1>4, <2>1
      <4> QED BY <4>1 DEF j
    <3> QED BY <3>2, <3>3
  <2>3. r.s + (from + k - 1) * One = s + (k - 1) * One
    <3> DEFINE j == k - 1
    <3>1. j \in Int /\ from + k - 1 = from + j
      BY <1>2, <1>4, <2>1
    <3> HIDE DEF j
    <3>2. s + j * One = r.s + (from + j) * One
      BY <1>2, <3>1, TwoSteps
    <3> QED BY <3>1, <3>2 DEF j
  <2> QED BY <2>2, <2>3
<1> QED BY <1>2, <1>6, <1>10

-----------------------------------------------------------------------------
(* A trace and the packets it was read from.                               *)

IsTrace(t) ==
    t = [type |-> t.type, ch |-> t.ch, s |-> t.s, blk |-> t.blk, set |-> t.set, pk |-> t.pk,
         some |-> t.some, cut |-> t.cut, data |-> t.data, seen |-> t.seen]

Sound(t) ==
    /\ IsTrace(t) /\ t.type \in {"MSEED_DATA", "MSEED_MPLEX_DATA"}
    /\ t.pk \in Seq(DOMAIN file)
    /\ t.type = "MSEED_DATA" => t.set \in BOOLEAN
    /\ t.cut # None => t.cut.at \in Nat
    /\ t.seen \in 0 .. Len(file)

LEMMA ReadPlaces ==
    ASSUME NEW E, file \in Seq(E), NEW t, Sound(t)
    PROVE  Read(t) \subseteq DOMAIN file
<1>1. DOMAIN file = 1 .. Len(file) /\ Len(file) \in Nat
  OBVIOUS
<1>2. CASE t.type = "MSEED_MPLEX_DATA"
  BY <1>2 DEF Read, Sound, Elems
<1>3. CASE t.type # "MSEED_MPLEX_DATA"
  <2>1. t.seen \in 0 .. Len(file) /\ Read(t) = 1 .. t.seen
    BY <1>3 DEF Read, Sound
  <2> QED BY <1>1, <2>1
<1> QED BY <1>2, <1>3

\* The packets of a trace are regular, and its excerpt on their grid.
RegularPackets(t) ==
    /\ \A i \in Read(t) : ~file[i].odd /\ file[i].ch = t.ch /\ (file[i].rate <=> file[i].n > 0)
    /\ \A i, j \in Read(t) : OnGrid(file[j].s, file[i].s)
    /\ t.cut # None => \A i \in Read(t) : OnGrid(file[i].s, t.cut.at)

LEMMA RegularMeans ==
    ASSUME NEW E, file \in Seq(E), Packets(file), NEW t, Sound(t), Regular(t)
    PROVE  RegularPackets(t) /\ (t.type = "MSEED_MPLEX_DATA" => t.blk # 0) /\ ~t.data.short
<1> DEFINE ps == {file[i] : i \in Read(t)}
<1>1. \A i \in Read(t) : file[i] \in ps
  OBVIOUS
<1>2. \A p \in ps : p.s \in Nat
  BY ReadPlaces, PacketTypes DEF Packets
<1>3. /\ \A p \in ps : ~p.odd /\ p.ch = t.ch /\ (p.rate <=> p.n > 0)
      /\ \A p, q \in ps : (p.s - q.s) % One = 0
      /\ t.cut # None => \A p \in ps : (t.cut.at - p.s) % One = 0
      /\ t.type = "MSEED_MPLEX_DATA" => t.blk # 0
      /\ ~t.data.short
  BY DEF Regular
<1> HIDE DEF ps
<1>4. \A i, j \in Read(t) : OnGrid(file[j].s, file[i].s)
  BY <1>1, <1>2, <1>3, GridOfRemainder
<1>5. t.cut # None => \A i \in Read(t) : OnGrid(file[i].s, t.cut.at)
  BY <1>1, <1>2, <1>3, GridOfRemainder DEF Sound
<1> QED BY <1>1, <1>3, <1>4, <1>5 DEF RegularPackets

\* What is shown of a trace that was read.
InPlaceOf(t) == \A k \in DOMAIN t.data.data : t.data.data[k] \in {Zero, t.s + (k - 1) * One}
LaidOf(t) ==
    \A o \in Elems(t.data.olaps) :
        /\ 0 <= o.from /\ o.from + Len(o.d) <= Len(t.data.data)
        /\ \A k \in DOMAIN o.d : o.d[k] = t.s + (o.from + k - 1) * One
GapsOf(t) ==
    \A k \in DOMAIN t.data.data :
        /\ t.data.data[k] = Zero <=> \E g \in Elems(t.data.gaps) : g[1] < k /\ k <= g[2]
        /\ t.data.data[k] = Zero => \A i \in Read(t) : ~Has(file[i], t.s + (k - 1) * One)

LEMMA PlacedMeans ==
    ASSUME NEW P, NEW r \in Layouts, Placed(r, P), NEW t, t.data = r, t.s = r.s,
           \A i \in Read(t) : \E k \in DOMAIN P : P[k] = file[i]
    PROVE  InPlaceOf(t) /\ LaidOf(t) /\ GapsOf(t)
<1>1. InPlaceOf(t)
  BY DEF Placed, Timed, InPlaceOf
<1>2. LaidOf(t)
  BY DEF Placed, Laid, LaidOf
<1>3. \A k \in DOMAIN r.data : r.data[k] = Zero <=> \E g \in Elems(r.gaps) : g[1] < k /\ k <= g[2]
  BY DEF Placed, Gaps, InGap
<1>4. ASSUME NEW k \in DOMAIN r.data, r.data[k] = Zero, NEW i \in Read(t)
      PROVE  ~Has(file[i], r.s + (k - 1) * One)
  <2>1. PICK m \in DOMAIN P : P[m] = file[i]
    OBVIOUS
  <2>2. P[m].n > 0 => ~(P[m].s <= r.s + (k - 1) * One /\ r.s + (k - 1) * One <= msr_endtime(P[m]))
    BY <1>4 DEF Placed
  <2> QED BY <2>1, <2>2 DEF Has
<1> QED BY <1>1, <1>2, <1>3, <1>4 DEF GapsOf

\* The packets a trace is read from when the slower way is taken.
SlowPackets(t) == IF t.type = "MSEED_MPLEX_DATA" THEN ToPackets(file, t.pk) ELSE file

LEMMA SlowPacketsAre ==
    ASSUME NEW E, file \in Seq(E), Packets(file), NEW t, Sound(t), t.seen = Len(file)
    PROVE  /\ SlowPackets(t) \in Seq(E) /\ Packets(SlowPackets(t))
           /\ \A k \in DOMAIN SlowPackets(t) : \E i \in Read(t) : SlowPackets(t)[k] = file[i]
           /\ \A i \in Read(t) : \E k \in DOMAIN SlowPackets(t) : SlowPackets(t)[k] = file[i]
<1> DEFINE P == SlowPackets(t)
<1>0. DOMAIN file = 1 .. Len(file) /\ Len(file) \in Nat
  OBVIOUS
<1>1. CASE t.type = "MSEED_MPLEX_DATA"
  <2>1. t.pk \in Seq(DOMAIN file) /\ Read(t) = Elems(t.pk)
    BY <1>1 DEF Sound, Read
  <2>2. DOMAIN t.pk = 1 .. Len(t.pk) /\ Len(t.pk) \in Nat /\ \A k \in 1 .. Len(t.pk) : t.pk[k] \in DOMAIN file
    BY <2>1
  <2>3. P = [i \in 1 .. Len(t.pk) |-> file[t.pk[i]]]
    BY <1>1, <2>2 DEF SlowPackets, ToPackets
  <2> HIDE DEF P
  <2>4. DOMAIN P = 1 .. Len(t.pk) /\ \A k \in 1 .. Len(t.pk) : P[k] = file[t.pk[k]]
    BY <2>3
  <2>5. P \in Seq(E)
    BY <1>0, <2>2, <2>3
  <2>6. Packets(P)
    BY <2>2, <2>4 DEF Packets
  <2>7. \A k \in DOMAIN P : \E i \in Read(t) : P[k] = file[i]
    BY <2>1, <2>2, <2>4 DEF Elems
  <2>8. \A i \in Read(t) : \E k \in DOMAIN P : P[k] = file[i]
    BY <2>1, <2>2, <2>4 DEF Elems
  <2> QED BY <2>5, <2>6, <2>7, <2>8 DEF P
<1>2. CASE t.type # "MSEED_MPLEX_DATA"
  <2>1. P = file /\ Read(t) = DOMAIN file
    BY <1>0, <1>2 DEF SlowPackets, Read
  <2> QED BY <2>1
<1> QED BY <1>1, <1>2

\* Regular packets lie on the grid of any of them.
LEMMA RegularGrid ==
    ASSUME NEW E, file \in Seq(E), Packets(file), NEW t, Sound(t), t.seen = Len(file), RegularPackets(t)
    PROVE  \E b \in Int : OnGridAll(SlowPackets(t), b) /\ (t.cut # None => b = t.cut.at)
<1> DEFINE P == SlowPackets(t)
<1>1. \A k \in DOMAIN P : \E i \in Read(t) : P[k] = file[i]
  BY SlowPacketsAre
<1>2. \A k \in DOMAIN P : P[k].s \in Nat
  BY SlowPacketsAre, PacketTypes DEF Packets
<1> HIDE DEF P
<1>3. \A k \in DOMAIN P : P[k].rate <=> P[k].n > 0
  BY <1>1 DEF RegularPackets
<1>4. CASE t.cut # None
  <2>1. t.cut.at \in Int
    BY <1>4 DEF Sound
  <2>2. ASSUME NEW k \in DOMAIN P PROVE OnGrid(t.cut.at, P[k].s)
    <3>1. OnGrid(P[k].s, t.cut.at)
      BY <1>1, <1>4 DEF RegularPackets
    <3>2. PICK q \in Int : t.cut.at = P[k].s + q * One
      BY <3>1 DEF OnGrid
    <3>3. P[k].s = t.cut.at + (0 - q) * One
      BY <1>2, <2>1, <3>2, OneAssumption
    <3>4. 0 - q \in Int
      OBVIOUS
    <3> QED BY <3>3, <3>4 DEF OnGrid
  <2>3. OnGridAll(P, t.cut.at)
    BY <1>3, <2>2 DEF OnGridAll
  <2> QED BY <2>1, <2>3 DEF P
<1>5. CASE t.cut = None
  <2>1. CASE DOMAIN P = {}
    <3>1. OnGridAll(P, 0)
      BY <2>1 DEF OnGridAll
    <3> QED BY <1>5, <3>1 DEF P
  <2>2. CASE DOMAIN P # {}
    <3>1. PICK m \in DOMAIN P : TRUE
      BY <2>2
    <3>2. \A k \in DOMAIN P : OnGrid(P[m].s, P[k].s)
      BY <1>1, <3>1 DEF RegularPackets
    <3>3. OnGridAll(P, P[m].s) /\ P[m].s \in Int
      BY <1>2, <1>3, <3>1, <3>2 DEF OnGridAll
    <3> QED BY <1>5, <3>3 DEF P
  <2> QED BY <2>1, <2>2
<1> QED BY <1>4, <1>5

\* u is t read to data r, of which x is kept.
ReadTo(t, u, r, x) ==
    /\ r = get_mseed_data(t) /\ r.data # <<>> /\ x = (IF t.cut = None THEN r ELSE trace_excerpt(t, r))
    /\ u.type = t.type /\ u.ch = t.ch /\ u.blk = t.blk /\ u.pk = t.pk /\ u.some = t.some /\ u.cut = t.cut
    /\ u.s = x.s /\ u.set = TRUE /\ u.data = x /\ u.seen = Len(file)

LEMMA ReadIs ==
    ASSUME NEW E, file \in Seq(E), NEW t, Sound(t), NEW u, u = readTrace(t), u.data.data # <<>>
    PROVE  Sound(u) /\ \E r, x : ReadTo(t, u, r, x)
<1> DEFINE r == get_mseed_data(t)  x == IF t.cut = None THEN r ELSE trace_excerpt(t, r)
           F(s, set, data, seen) ==
             [type |-> t.type, ch |-> t.ch, s |-> s, blk |-> t.blk, set |-> set, pk |-> t.pk,
              some |-> t.some, cut |-> t.cut, data |-> data, seen |-> seen]
<1>1. t = F(t.s, t.set, t.data, t.seen)
  BY DEF Sound, IsTrace
<1> HIDE DEF r, x
<1>2. CASE r.data = <<>>
  <2>1. u = [t EXCEPT !.data = r]
    BY <1>2 DEF readTrace, r
  <2>2. u.data = r
    BY <1>1, <2>1
  <2> QED BY <1>2, <2>2
<1>3. CASE r.data # <<>>
  <2>1. u = [t EXCEPT !.s = x.s, !.set = TRUE, !.data = x, !.seen = Len(file)]
    BY <1>3 DEF readTrace, r, x
  <2>2. u = F(x.s, TRUE, x, Len(file))
    BY <1>1, <2>1
  <2>3. /\ u.type = t.type /\ u.ch = t.ch /\ u.blk = t.blk /\ u.pk = t.pk /\ u.some = t.some /\ u.cut = t.cut
        /\ u.s = x.s /\ u.set = TRUE /\ u.data = x /\ u.seen = Len(file)
    BY <2>2
  <2>4. IsTrace(u)
    BY <2>2, <2>3 DEF IsTrace
  <2>5. Len(file) \in 0 .. Len(file)
    OBVIOUS
  <2>6. Sound(u)
    BY <2>3, <2>4, <2>5 DEF Sound
  <2>7. ReadTo(t, u, r, x)
    BY <1>3, <2>3 DEF ReadTo, r, x
  <2> QED BY <2>6, <2>7
<1> QED BY <1>2, <1>3

\* The slower way assembles the packets.
LEMMA SlowIs ==
    ASSUME NEW E, file \in Seq(E), NEW t, NEW u, Sound(u), u.type = t.type, u.pk = t.pk, u.ch = t.ch,
           u.blk = t.blk, u.seen = Len(file), RegularPackets(u), u.type = "MSEED_MPLEX_DATA" => u.blk # 0
    PROVE  \E any \in BOOLEAN : ~any /\ get_mseed_trace(t) = Assemble(SlowPackets(u), any)
<1>1. CASE t.type = "MSEED_MPLEX_DATA"
  <2> DEFINE any == t.blk = 0
  <2>1. get_mseed_trace(t) = Assemble(SlowPackets(u), any)
    BY <1>1 DEF get_mseed_trace, pluckPackets, SlowPackets
  <2>2. any \in BOOLEAN /\ ~any
    BY <1>1
  <2> HIDE DEF any
  <2> QED BY <2>1, <2>2
<1>2. CASE t.type # "MSEED_MPLEX_DATA"
  <2> DEFINE T == {p \in Elems(file) : p.ch = t.ch}
  <2>1. Read(u) = DOMAIN file /\ SlowPackets(u) = file
    BY <1>2 DEF Read, SlowPackets
  <2>2. \A i \in DOMAIN file : ~file[i].odd /\ file[i].ch = t.ch
    BY <2>1 DEF RegularPackets
  <2>3. Elems(file) \subseteq T
    BY <2>2 DEF Elems
  <2> HIDE DEF T
  <2>4. Only(file, T) = file
    BY <2>3, OnlyAll
  <2> DEFINE any == FALSE
  <2>5. get_mseed_trace(t) = Assemble(Only(file, T), any)
    BY <1>2, <2>2 DEF get_mseed_trace, T
  <2>6. any \in BOOLEAN /\ ~any
    OBVIOUS
  <2> HIDE DEF any
  <2> QED BY <2>1, <2>4, <2>5, <2>6
<1> QED BY <1>1, <1>2

LEMMA FastExcerptNot ==
    ASSUME NEW r \in Layouts, NEW t, NEW x, x = trace_excerpt(t, r)
    PROVE  x.fast = r.fast /\ x.short = r.short
<1> DEFINE s == IF t.cut.at < r.s THEN r.s ELSE t.cut.at
           d == SubSeq(r.data, startSamp(t, r) + 1,
                       startSamp(t, r) + Smaller(ShotLen \div One, Len(r.data) - startSamp(t, r)))
<1>1. x = [r EXCEPT !.s = s, !.data = d, !.gaps = <<>>, !.olaps = <<>>]
  BY DEF trace_excerpt
<1> HIDE DEF s, d
<1> QED BY <1>1 DEF Layouts

\* A trace read the slower way is in place.
LEMMA SlowRight ==
    ASSUME NEW E, file \in Seq(E), Packets(file), NEW t, NEW u, Sound(u), NEW r, NEW x,
           ReadTo(t, u, r, x), r = get_mseed_trace(t), RegularPackets(u),
           u.type = "MSEED_MPLEX_DATA" => u.blk # 0, ~u.data.short
    PROVE  InPlaceOf(u) /\ (u.cut = None => LaidOf(u) /\ GapsOf(u))
<1>1. /\ u.type = t.type /\ u.ch = t.ch /\ u.blk = t.blk /\ u.pk = t.pk /\ u.cut = t.cut
      /\ u.s = x.s /\ u.data = x /\ u.seen = Len(file) /\ r.data # <<>>
      /\ x = IF t.cut = None THEN r ELSE trace_excerpt(t, r)
  BY DEF ReadTo
<1> DEFINE P == SlowPackets(u)
<1>2. /\ P \in Seq(E) /\ Packets(P)
      /\ \A i \in Read(u) : \E k \in DOMAIN P : P[k] = file[i]
  BY <1>1, SlowPacketsAre
<1>3. PICK b \in Int : OnGridAll(P, b) /\ (u.cut # None => b = u.cut.at)
  BY <1>1, RegularGrid
<1>4. PICK any \in BOOLEAN : ~any /\ r = Assemble(P, any)
  BY <1>1, SlowIs
<1> HIDE DEF P
<1>5. r \in Layouts /\ r.s \in Nat /\ OnGrid(b, r.s) /\ (~r.short => Placed(r, P))
  BY <1>1, <1>2, <1>3, <1>4, AssembleGood
<1>6. CASE u.cut = None
  <2>1. u.data = r /\ u.s = r.s
    BY <1>1, <1>6
  <2> QED BY <1>2, <1>5, <1>6, <2>1, PlacedMeans
<1>7. CASE u.cut # None
  <2>1. x = trace_excerpt(t, r)
    BY <1>1, <1>7
  <2>2. ~r.short
    BY <1>1, <1>5, <2>1, FastExcerptNot
  <2>3. Timed(r)
    BY <1>5, <2>2 DEF Placed
  <2>4. t.cut.at \in Nat /\ b = t.cut.at
    BY <1>1, <1>3, <1>7 DEF Sound
  <2>5. OnGrid(r.s, t.cut.at)
    <3>1. PICK q \in Int : r.s = t.cut.at + q * One
      BY <1>5, <2>4 DEF OnGrid
    <3>2. t.cut.at = r.s + (0 - q) * One
      BY <1>5, <2>4, <3>1, OneAssumption
    <3>3. 0 - q \in Int
      OBVIOUS
    <3> QED BY <3>2, <3>3 DEF OnGrid
  <2>6. CASE x.data # <<>>
    <3>1. \A k \in DOMAIN x.data : x.data[k] \in {Zero, x.s + (k - 1) * One}
      BY <1>5, <2>1, <2>3, <2>4, <2>5, <2>6, ExcerptTimed
    <3> QED BY <1>1, <1>7, <3>1 DEF InPlaceOf
  <2>7. CASE x.data = <<>>
    BY <1>1, <1>7, <2>7 DEF InPlaceOf
  <2> QED BY <2>6, <2>7
<1> QED BY <1>6, <1>7

OneChannel(f, c) == Clean(f) /\ \A i \in DOMAIN f : f[i].ch = c

\* A start that is known is that of the first packet with samples, unless the file
\* must be read the other way.
StartKnown(t) ==
    /\ t.type = "MSEED_DATA" /\ t.cut = None /\ t.set
    /\ OneChannel(file, t.ch) /\ ~Disordered(file, Len(file))
    => StartsAt(file, Len(file), t.s)

LEMMA RegularClean ==
    ASSUME NEW E, file \in Seq(E), Packets(file), NEW u, Sound(u), u.type = "MSEED_DATA",
           u.seen = Len(file), RegularPackets(u)
    PROVE  OneChannel(file, u.ch)
<1>1. Read(u) = DOMAIN file
  BY DEF Read
<1> QED BY <1>1 DEF RegularPackets, OneChannel, Clean, Packets

\* The data read packet by packet.
FastData(f) == [Nothing EXCEPT !.s = f.s, !.data = f.data, !.fast = TRUE]

LEMMA FastDataIs ==
    ASSUME NEW f
    PROVE  /\ FastData(f).s = f.s /\ FastData(f).data = f.data /\ FastData(f).fast
           /\ FastData(f).gaps = <<>> /\ FastData(f).olaps = <<>>
BY DEF FastData, Nothing

LEMMA DataIs ==
    ASSUME NEW t, t.type \in {"MSEED_DATA", "MSEED_MPLEX_DATA"}, NEW r, r = get_mseed_data(t), r.data # <<>>
    PROVE  \/ t.type = "MSEED_DATA" /\ ~Fast(t).again /\ r = FastData(Fast(t))
           \/ (t.type = "MSEED_DATA" => Fast(t).again) /\ r = get_mseed_trace(t)
<1>1. CASE ~t.some
  <2>1. r = Nothing
    BY <1>1 DEF get_mseed_data, Failed
  <2>2. Nothing.data = <<>>
    BY DEF Nothing
  <2> QED BY <2>1, <2>2
<1>2. CASE t.some /\ t.type = "MSEED_DATA" /\ ~Fast(t).again
  <2>1. r = FastData(Fast(t))
    BY <1>2 DEF get_mseed_data, FastData
  <2> QED BY <1>2, <2>1
<1>3. CASE t.some /\ ~(t.type = "MSEED_DATA" /\ ~Fast(t).again)
  <2>1. r = get_mseed_trace(t)
    BY <1>3 DEF get_mseed_data
  <2> QED BY <1>3, <2>1
<1> QED BY <1>1, <1>2, <1>3

\* A trace read packet by packet begins where the packets do.
LEMMA FastIs ==
    ASSUME NEW E, file \in Seq(E), NEW t, Sound(t), StartKnown(t), t.type = "MSEED_DATA", t.cut = None,
           OneChannel(file, t.ch), ~Fast(t).again, Fast(t).data # <<>>
    PROVE  /\ ~Disordered(file, Len(file))
           /\ \E y \in Nat : /\ StartsAt(file, Len(file), y) /\ Fast(t).s = y
                             /\ EndsBefore(file, Len(file), Fast(t).next) /\ Unbroken(Fast(t).data, y, Fast(t).next)
<1> DEFINE f == Fast(t)
<1>1. t.set \in BOOLEAN /\ Clean(file)
  BY DEF Sound, OneChannel
<1>2. SoFar(f, t, file, Len(file))
  BY <1>1, FastResult
<1> HIDE DEF f
<1>3. ~f.again /\ f.data # <<>>
  BY DEF f
<1>4. ~Disordered(file, Len(file)) /\ Running(f, t, file, Len(file))
  BY <1>2, <1>3 DEF SoFar, Silent
<1>5. PICK y \in Nat : /\ StartsAt(file, Len(file), y) /\ EndsBefore(file, Len(file), f.next)
                       /\ Unbroken(f.data, y, f.next) /\ f.s = IF t.set THEN t.s ELSE y
  BY <1>4 DEF Running
<1>6. f.s = y
  <2>1. CASE t.set
    <3>1. StartsAt(file, Len(file), t.s)
      BY <1>4, <2>1 DEF StartKnown
    <3>2. t.s = y
      BY <1>5, <3>1, StartUnique, Len(file) \in Nat
    <3> QED BY <1>5, <2>1, <3>2
  <2>2. CASE ~t.set
    BY <1>5, <2>2
  <2> QED BY <2>1, <2>2
<1> QED BY <1>4, <1>5, <1>6 DEF f

LEMMA FastRight ==
    ASSUME NEW E, file \in Seq(E), Packets(file), NEW t, Sound(t), StartKnown(t), NEW u, Sound(u),
           NEW r, NEW x, ReadTo(t, u, r, x), t.type = "MSEED_DATA", ~Fast(t).again, r = FastData(Fast(t)),
           RegularPackets(u), u.cut = None
    PROVE  InPlaceOf(u) /\ LaidOf(u) /\ GapsOf(u)
<1> DEFINE f == Fast(t)
<1>1. /\ u.type = t.type /\ u.ch = t.ch /\ u.s = x.s /\ u.data = x /\ u.seen = Len(file)
      /\ r.data # <<>> /\ x = r /\ t.cut = None
  BY DEF ReadTo
<1>2. OneChannel(file, t.ch)
  BY <1>1, RegularClean
<1>3. x.s = f.s /\ x.data = f.data /\ x.gaps = <<>> /\ x.olaps = <<>>
  BY <1>1, FastDataIs
<1>4. PICK y \in Nat : f.s = y /\ Unbroken(f.data, y, f.next)
  BY <1>1, <1>2, <1>3, FastIs
<1> HIDE DEF f
<1>5. \A k \in DOMAIN x.data : x.data[k] = u.s + (k - 1) * One /\ x.data[k] \in Nat
  BY <1>1, <1>3, <1>4 DEF Unbroken
<1>6. Elems(x.gaps) = {} /\ Elems(x.olaps) = {}
  BY <1>3 DEF Elems
<1>7. \A k \in DOMAIN x.data : x.data[k] # Zero
  BY <1>5 DEF Zero
<1>8. InPlaceOf(u)
  BY <1>1, <1>5 DEF InPlaceOf
<1>9. LaidOf(u)
  BY <1>1, <1>6 DEF LaidOf
<1>10. GapsOf(u)
  BY <1>1, <1>6, <1>7 DEF GapsOf
<1> QED BY <1>8, <1>9, <1>10

\* The start of a trace that was read is known.
LEMMA ReadStartKnown ==
    ASSUME NEW E, file \in Seq(E), Packets(file), NEW t, Sound(t), StartKnown(t), NEW u, Sound(u),
           NEW r, NEW x, ReadTo(t, u, r, x)
    PROVE  StartKnown(u)
<1>1. /\ u.type = t.type /\ u.ch = t.ch /\ u.cut = t.cut /\ u.s = x.s /\ r.data # <<>> /\ r = get_mseed_data(t)
      /\ x = IF t.cut = None THEN r ELSE trace_excerpt(t, r)
  BY DEF ReadTo
<1> SUFFICES ASSUME t.type = "MSEED_DATA", t.cut = None, OneChannel(file, t.ch), ~Disordered(file, Len(file))
             PROVE  StartsAt(file, Len(file), u.s)
  BY <1>1 DEF StartKnown
<1>2. ~Fast(t).again
  <2>1. t.set \in BOOLEAN /\ Clean(file)
    BY DEF Sound, OneChannel
  <2>2. SoFar(Fast(t), t, file, Len(file))
    BY <2>1, FastResult
  <2> QED BY <2>2 DEF SoFar
<1>3. r = FastData(Fast(t))
  BY <1>1, <1>2, DataIs
<1>4. Fast(t).data # <<>> /\ u.s = Fast(t).s
  BY <1>1, <1>3, FastDataIs
<1> QED BY <1>2, <1>4, FastIs

-----------------------------------------------------------------------------
(* A file read packet by packet and the trace groups.                      *)

\* The traces of the packets that were read to data d, up to next: one with
\* these data, the others without samples.
Grouped(g, d, next) ==
    /\ g \in Seq(GroupTraces) /\ \A i \in DOMAIN g : ~g[i].rate => g[i].d = <<>>
    /\ d = <<>> => \A i \in DOMAIN g : ~g[i].rate
    /\ d # <<>> => \E j \in DOMAIN g :
         /\ g[j].rate /\ g[j].s = d[1] /\ g[j].e = next - One /\ g[j].d = d
         /\ \A i \in DOMAIN g : g[i].rate => i = j

LEMMA NoWhence ==
    ASSUME NEW t, NEW p, ~(p.rate /\ t.rate), NEW any \in BOOLEAN, ~any
    PROVE  Whence(t, p, any) = 0
BY DEF Whence

LEMMA NextWhence ==
    ASSUME NEW t, NEW p, p.rate, t.rate, p.s \in Int, t.e \in Int, p.s = t.e + One, NEW any \in BOOLEAN, ~any
    PROVE  Whence(t, p, any) = 1
<1>1. p.s - t.e - One = 0
  BY OneAssumption
<1>2. Within(0)
  BY OneAssumption DEF Within, Absolute
<1> QED BY <1>1, <1>2 DEF Whence

\* Packet p fits no trace of g, or trace j alone; what is made of g in each case.
Alone(g, p) == \A i \in DOMAIN g : ~(p.rate /\ g[i].rate)
JoinsAt(g, p, j) ==
    /\ p.rate /\ p.n > 0 /\ j \in DOMAIN g /\ g[j].rate /\ p.s = g[j].e + One
    /\ \A i \in DOMAIN g : g[i].rate => i = j
IsNew(t, p) == t.s = p.s /\ t.e = msr_endtime(p) /\ t.d = Samples(p) /\ t.rate = p.rate
Added(h, g, p) ==
    /\ h \in Seq(GroupTraces) /\ Len(h) = Len(g) + 1 /\ \A i \in DOMAIN g : h[i] = g[i]
    /\ IsNew(h[Len(g) + 1], p)
JoinedTo(h, g, p, j) ==
    /\ h \in Seq(GroupTraces) /\ DOMAIN h = DOMAIN g /\ \A i \in DOMAIN g : i # j => h[i] = g[i]
    /\ h[j].s = g[j].s /\ h[j].e = msr_endtime(p) /\ h[j].d = g[j].d \o Samples(p) /\ h[j].rate

\* A trace of its own for a packet that fits none.
LEMMA NewTrace ==
    ASSUME NEW g \in Seq(GroupTraces), NEW p, Packet(p), NEW any \in BOOLEAN, ~any, Alone(g, p)
    PROVE  Added(mst_addmsrtogroup(g, p, any), g, p)
<1> DEFINE t == [s |-> p.s, e |-> msr_endtime(p), d |-> Samples(p), rate |-> p.rate]
           h == mst_addmsrtogroup(g, p, any)
<1>1. mst_findadjacent(g, p, any) = {}
  BY NoWhence DEF mst_findadjacent, Alone
<1>2. h = Append(g, t)
  BY <1>1 DEF mst_addmsrtogroup
<1>3. t \in GroupTraces
  BY PacketTypes DEF GroupTraces
<1>4. IsNew(t, p)
  BY DEF IsNew
<1> HIDE DEF t, h
<1>5. h \in Seq(GroupTraces) /\ Len(h) = Len(g) + 1 /\ h[Len(g) + 1] = t /\ \A i \in DOMAIN g : h[i] = g[i]
  BY <1>2, <1>3
<1> QED BY <1>4, <1>5 DEF Added, h

\* A packet joins the trace that ends before it.
LEMMA JoinedTrace ==
    ASSUME NEW g \in Seq(GroupTraces), NEW p, Packet(p), NEW any \in BOOLEAN, ~any, NEW j, JoinsAt(g, p, j)
    PROVE  JoinedTo(mst_addmsrtogroup(g, p, any), g, p, j)
<1> DEFINE fits == mst_findadjacent(g, p, any)
           t == Extended(g[j], p.s, msr_endtime(p), Samples(p), 1)
           h == mst_addmsrtogroup(g, p, any)
<1>0. /\ p.rate /\ p.n > 0 /\ j \in DOMAIN g /\ g[j].rate /\ p.s = g[j].e + One
      /\ \A i \in DOMAIN g : g[i].rate => i = j
  BY DEF JoinsAt
<1>1. DOMAIN g = 1 .. Len(g) /\ Len(g) \in Nat /\ g[j] \in GroupTraces
  BY <1>0
<1>2. g[j].e \in Int /\ p.s \in Int
  BY <1>1, PacketTypes DEF GroupTraces
<1>3. Whence(g[j], p, any) = 1
  BY <1>0, <1>2, NextWhence
<1>4. fits = {j}
  <2>1. \A i \in DOMAIN g : Whence(g[i], p, any) # 0 <=> i = j
    <3>1. ASSUME NEW i \in DOMAIN g, i # j PROVE Whence(g[i], p, any) = 0
      BY <1>0, <3>1, NoWhence
    <3> QED BY <1>3, <3>1
  <2> QED BY <1>0, <2>1 DEF mst_findadjacent
<1>5. (CHOOSE i \in fits : \A k \in fits : i <= k) = j
  <2>1. j <= j
    BY <1>0, <1>1
  <2> HIDE DEF fits
  <2> QED BY <1>4, <2>1
<1>6. h = [g EXCEPT ![j] = t]
  <2> DEFINE i == CHOOSE i \in fits : \A k \in fits : i <= k
             w == Whence(g[i], p, any)
  <2>1. fits # {} /\ ~(p.n = 0 \/ ~p.rate)
    BY <1>0, <1>4
  <2>2. h = [g EXCEPT ![i] = Extended(g[i], p.s, msr_endtime(p), Samples(p), w)]
    BY <2>1 DEF mst_addmsrtogroup
  <2>3. i = j /\ w = 1
    BY <1>3, <1>5
  <2> HIDE DEF i, w, fits, h
  <2> QED BY <2>2, <2>3
<1>7. t \in GroupTraces /\ t.s = g[j].s /\ t.e = msr_endtime(p) /\ t.d = g[j].d \o Samples(p) /\ t.rate
  <2>1. t = [g[j] EXCEPT !.e = msr_endtime(p), !.d = g[j].d \o Samples(p)]
    BY DEF Extended
  <2> DEFINE d == g[j].d \o Samples(p)  e == msr_endtime(p)
  <2>2. d \in Seq(Int) /\ e \in Int
    BY <1>1, PacketTypes DEF GroupTraces
  <2> HIDE DEF t, d, e
  <2>3. t \in GroupTraces /\ t.s = g[j].s /\ t.e = e /\ t.d = d /\ t.rate
    <3>1. t = [g[j] EXCEPT !.e = e, !.d = d]
      BY <2>1 DEF d, e
    <3> QED BY <1>0, <1>1, <2>2, <3>1 DEF GroupTraces
  <2> QED BY <2>3 DEF d, e
<1> HIDE DEF t, h
<1>8. JoinedTo(h, g, p, j)
  BY <1>0, <1>1, <1>6, <1>7 DEF JoinedTo
<1> QED BY <1>8 DEF h

\* Packet p follows data d.
LEMMA GroupedStep ==
    ASSUME NEW d \in Seq(Int), NEW next \in Int, NEW g, Grouped(g, d, next),
           NEW p, Packet(p), p.rate <=> p.n > 0, d = <<>> \/ p.n = 0 \/ p.s = next,
           NEW any \in BOOLEAN, ~any, NEW h, h = mst_addmsrtogroup(g, p, any)
    PROVE  IF p.n = 0 THEN Grouped(h, d, next) ELSE Grouped(h, d \o Samples(p), msr_endtime(p) + One)
<1> DEFINE c == d \o Samples(p)  e == msr_endtime(p) + One
<1>1. /\ g \in Seq(GroupTraces) /\ DOMAIN g = 1 .. Len(g) /\ Len(g) \in Nat
      /\ \A i \in DOMAIN g : ~g[i].rate => g[i].d = <<>>
  BY DEF Grouped
<1>2. p.s \in Nat /\ p.n \in Nat /\ msr_endtime(p) \in Int /\ Samples(p) \in Seq(Int) /\ Len(Samples(p)) = p.n
      /\ \A k \in 1 .. p.n : Samples(p)[k] = p.s + (k - 1) * One
  BY PacketTypes
<1>3. e - One = msr_endtime(p)
  BY <1>2, OneAssumption
<1>4. CASE p.n = 0
  <2>1. \A i \in DOMAIN g : ~(p.rate /\ g[i].rate)
    BY <1>4
  <2>2. /\ h \in Seq(GroupTraces) /\ Len(h) = Len(g) + 1 /\ \A i \in DOMAIN g : h[i] = g[i]
        /\ h[Len(g) + 1].d = Samples(p) /\ h[Len(g) + 1].rate = p.rate
    <3>1. Alone(g, p)
      BY <2>1 DEF Alone
    <3>2. Added(h, g, p)
      BY <1>1, <3>1, NewTrace
    <3> QED BY <3>2 DEF Added, IsNew
  <2>3. Samples(p) = <<>> /\ ~p.rate
    BY <1>2, <1>4
  <2>4. DOMAIN h = 1 .. Len(g) + 1 /\ DOMAIN g \subseteq DOMAIN h /\ \A i \in DOMAIN h : i \in DOMAIN g \/ i = Len(g) + 1
    BY <1>1, <2>2
  <2>5. Grouped(h, d, next)
    <3>1. \A i \in DOMAIN h : ~h[i].rate => h[i].d = <<>>
      BY <1>1, <2>2, <2>3, <2>4
    <3>2. d = <<>> => \A i \in DOMAIN h : ~h[i].rate
      BY <2>2, <2>3, <2>4 DEF Grouped
    <3>3. ASSUME d # <<>>
          PROVE  \E j \in DOMAIN h : /\ h[j].rate /\ h[j].s = d[1] /\ h[j].e = next - One /\ h[j].d = d
                                     /\ \A i \in DOMAIN h : h[i].rate => i = j
      <4>1. PICK j \in DOMAIN g : /\ g[j].rate /\ g[j].s = d[1] /\ g[j].e = next - One /\ g[j].d = d
                                  /\ \A i \in DOMAIN g : g[i].rate => i = j
        BY <3>3 DEF Grouped
      <4>2. j \in DOMAIN h /\ h[j] = g[j]
        BY <2>2, <2>4
      <4>3. ASSUME NEW i \in DOMAIN h, h[i].rate PROVE i = j
        <5>1. i # Len(g) + 1
          BY <2>2, <2>3, <4>3
        <5>2. i \in DOMAIN g /\ h[i] = g[i]
          BY <2>2, <2>4, <5>1
        <5> QED BY <4>1, <4>3, <5>2
      <4> QED BY <4>1, <4>2, <4>3
    <3>4. h \in Seq(GroupTraces)
      BY <2>2
    <3> QED BY <3>1, <3>2, <3>3, <3>4, Zenon DEF Grouped
  <2> QED BY <1>4, <2>5
<1>5. CASE p.n # 0 /\ d = <<>>
  <2>1. \A i \in DOMAIN g : ~g[i].rate
    BY <1>5 DEF Grouped
  <2>2. /\ h \in Seq(GroupTraces) /\ Len(h) = Len(g) + 1 /\ \A i \in DOMAIN g : h[i] = g[i]
        /\ h[Len(g) + 1].s = p.s /\ h[Len(g) + 1].e = msr_endtime(p)
        /\ h[Len(g) + 1].d = Samples(p) /\ h[Len(g) + 1].rate = p.rate
    <3>1. Alone(g, p)
      BY <2>1 DEF Alone
    <3>2. Added(h, g, p)
      BY <1>1, <3>1, NewTrace
    <3> QED BY <3>2 DEF Added, IsNew
  <2>3. c = Samples(p) /\ p.rate /\ c # <<>> /\ c[1] = p.s
    <3>1. c = Samples(p)
      BY <1>2, <1>5
    <3>2. 1 \in 1 .. p.n /\ (1 - 1) * One = 0
      BY <1>2, <1>5, OneAssumption
    <3> QED BY <1>2, <1>5, <3>1, <3>2
  <2> HIDE DEF c, e
  <2>4. DOMAIN h = 1 .. Len(g) + 1 /\ Len(g) + 1 \in DOMAIN h /\ \A i \in DOMAIN h : i \in DOMAIN g \/ i = Len(g) + 1
    BY <1>1, <2>2
  <2>5. Grouped(h, c, e)
    <3>1. \A i \in DOMAIN h : ~h[i].rate => h[i].d = <<>>
      BY <1>1, <2>2, <2>3, <2>4
    <3>2. \E j \in DOMAIN h : /\ h[j].rate /\ h[j].s = c[1] /\ h[j].e = e - One /\ h[j].d = c
                              /\ \A i \in DOMAIN h : h[i].rate => i = j
      <4> DEFINE j == Len(g) + 1
      <4>1. h[j].rate /\ h[j].s = c[1] /\ h[j].e = e - One /\ h[j].d = c
        BY <1>3, <2>2, <2>3
      <4>2. ASSUME NEW i \in DOMAIN h, h[i].rate PROVE i = j
        <5> SUFFICES ASSUME i \in DOMAIN g PROVE FALSE
          BY <2>4
        <5> QED BY <2>1, <2>2, <4>2
      <4>3. j \in DOMAIN h
        BY <2>4
      <4> HIDE DEF j
      <4> QED BY <4>1, <4>2, <4>3
    <3>3. h \in Seq(GroupTraces) /\ c # <<>>
      BY <2>2, <2>3
    <3> QED BY <3>1, <3>2, <3>3, Zenon DEF Grouped
  <2> QED BY <1>5, <2>5 DEF c, e
<1>6. CASE p.n # 0 /\ d # <<>>
  <2>1. PICK j \in DOMAIN g : /\ g[j].rate /\ g[j].s = d[1] /\ g[j].e = next - One /\ g[j].d = d
                              /\ \A i \in DOMAIN g : g[i].rate => i = j
    BY <1>6 DEF Grouped
  <2>2. p.rate /\ p.n > 0 /\ p.s = g[j].e + One
    BY <1>2, <1>6, <2>1, OneAssumption
  <2>3. /\ h \in Seq(GroupTraces) /\ DOMAIN h = DOMAIN g /\ \A i \in DOMAIN g : i # j => h[i] = g[i]
        /\ h[j].s = g[j].s /\ h[j].e = msr_endtime(p) /\ h[j].d = g[j].d \o Samples(p) /\ h[j].rate
    <3>1. JoinsAt(g, p, j)
      BY <2>1, <2>2 DEF JoinsAt
    <3>2. JoinedTo(h, g, p, j)
      BY <1>1, <3>1, JoinedTrace
    <3> QED BY <3>2 DEF JoinedTo
  <2>4. c[1] = d[1] /\ c # <<>>
    BY <1>2, <1>6
  <2>5. h[j].d = c
    BY <2>1, <2>3
  <2> HIDE DEF c, e
  <2>6. Grouped(h, c, e)
    <3>1. \A i \in DOMAIN h : ~h[i].rate => h[i].d = <<>>
      BY <1>1, <2>3
    <3>2. \A i \in DOMAIN h : h[i].rate => i = j
      BY <2>1, <2>3
    <3>3. h[j].s = c[1] /\ h[j].e = e - One
      BY <1>3, <2>1, <2>3, <2>4
    <3> QED BY <2>3, <2>4, <2>5, <3>1, <3>2, <3>3 DEF Grouped
  <2> QED BY <1>6, <2>6 DEF c, e
<1> QED BY <1>4, <1>5, <1>6

\* The trace groups of a file that can be read packet by packet.
LEMMA FastGrouped ==
    ASSUME NEW E, file \in Seq(E), Clean(file), NEW t, t.set \in BOOLEAN, ~Fast(t).again,
           NEW any \in BOOLEAN, ~any
    PROVE  Grouped(Group(file, any), Fast(t).data, Fast(t).next)
<1> DEFINE N == Len(file)
<1>1. N \in Nat /\ DOMAIN file = 1 .. N /\ Packets(file)
  BY DEF Clean, Packets
<1>2. PICK a : /\ a[0] = Begin(t)
               /\ \A k \in 1 .. N : a[k] = TakePacket(a[k - 1], file[k])
               /\ Fast(t) = a[N]
  BY <1>1, FastRun
<1>3. PICK g : /\ g[0] = <<>>
               /\ \A k \in 1 .. N : g[k] = mst_addmsrtogroup(g[k - 1], file[k], any)
               /\ Group(file, any) = g[N]
  BY <1>1, GroupRun
<1> HIDE DEF N
<1> DEFINE P(k) == a[k] \in Fasts(t) /\ (~a[k].again => Grouped(g[k], a[k].data, a[k].next))
           Q == {k \in Nat : k <= N => P(k)}
<1>4. P(0)
  <2>1. Begin(t) \in Fasts(t) /\ Begin(t).data = <<>>
    BY DEF Begin, Fasts
  <2>2. <<>> \in Seq(GroupTraces) /\ DOMAIN <<>> = {}
    OBVIOUS
  <2>3. Grouped(<<>>, <<>>, Begin(t).next)
    BY <2>2 DEF Grouped
  <2> QED BY <1>2, <1>3, <2>1, <2>3
<1>5. ASSUME NEW k \in Nat, k + 1 <= N, P(k) PROVE P(k + 1)
  <2> DEFINE p == file[k + 1]  b == a[k]  c == a[k + 1]
  <2>1. k + 1 \in 1 .. N /\ (k + 1) - 1 = k
    BY <1>1, <1>5
  <2>2. Packet(p) /\ ~p.odd /\ (p.rate <=> p.n > 0) /\ p.n \in Nat /\ Samples(p) \in Seq(Int)
    BY <1>1, <2>1, PacketTypes DEF Clean
  <2>3. c = TakePacket(b, p) /\ g[k + 1] = mst_addmsrtogroup(g[k], p, any)
    BY <1>2, <1>3, <2>1
  <2>4. b \in Fasts(t) /\ c \in Fasts(t)
    BY <1>5, <2>2, <2>3, TakePacketTypes
  <2>5. ~b.again => Grouped(g[k], b.data, b.next)
    BY <1>5
  <2> HIDE DEF p, b, c, P
  <2>6. b.data \in Seq(Int) /\ b.next \in Int /\ b.again \in BOOLEAN
    BY <2>4 DEF Fasts
  <2>7. ASSUME ~c.again PROVE Grouped(g[k + 1], c.data, c.next)
    <3>1. ~b.again
      BY <2>3, <2>7 DEF TakePacket
    <3>2. CASE p.n = 0
      <4>1. c = b
        BY <2>2, <2>3, <3>2 DEF TakePacket
      <4>2. Grouped(g[k + 1], b.data, b.next)
        BY <2>2, <2>3, <2>5, <2>6, <3>1, <3>2, GroupedStep
      <4> QED BY <4>1, <4>2
    <3>3. CASE p.n # 0
      <4> DEFINE d == b.data \o Samples(p)  e == msr_endtime(p) + One
                 s == IF b.set THEN b.s ELSE p.s
                 on == [b EXCEPT !.again = TRUE]
      <4>1. on.again
        BY <2>4 DEF Fasts
      <4>2. Broken(b, p) => c = on
        BY <2>2, <2>3, <3>1, <3>3 DEF TakePacket
      <4>3. ~Broken(b, p)
        BY <2>7, <4>1, <4>2
      <4>4. c = [b EXCEPT !.s = s, !.set = TRUE, !.data = d, !.next = e]
        BY <2>2, <2>3, <3>1, <3>3, <4>3 DEF TakePacket
      <4>5. b.data = <<>> \/ p.s = b.next
        BY <4>3 DEF Broken
      <4>6. Grouped(g[k + 1], d, e)
        BY <2>2, <2>3, <2>5, <2>6, <3>1, <3>3, <4>5, GroupedStep
      <4> HIDE DEF d, e, s
      <4>7. c.data = d /\ c.next = e
        BY <2>4, <4>4 DEF Fasts
      <4> QED BY <4>6, <4>7
    <3> QED BY <3>2, <3>3
  <2> QED BY <2>4, <2>7 DEF P, b, c
<1> HIDE DEF P
<1>6. Q = Nat
  <2>1. 0 \in Q
    BY <1>4
  <2>2. \A k \in Q : k + 1 \in Q
    BY <1>1, <1>5
  <2> HIDE DEF Q
  <2>3. Q \in SUBSET Nat
    BY DEF Q
  <2> QED BY <2>1, <2>2, <2>3, SetInduction
<1>7. P(N)
  BY <1>1, <1>6
<1> QED BY <1>2, <1>3, <1>7 DEF P

-----------------------------------------------------------------------------
(* All traces with samples are the same: they begin at y, end at e and have *)
(* data d.                                                                 *)

Alike(t, y, e, d) == IF t.rate THEN t.s = y /\ t.e = e /\ t.d = d ELSE t.d = <<>>

LEMMA GroupedAlike ==
    ASSUME NEW g, NEW d, NEW next, Grouped(g, d, next), d # <<>>
    PROVE  /\ \A t \in Elems(g) : Alike(t, d[1], next - One, d)
           /\ \E t \in Elems(g) : t.rate
BY DEF Grouped, Alike, Elems

\* A trace that begins and ends like another does not fit it.
LEMMA AlikeFitNot ==
    ASSUME NEW y \in Int, NEW e \in Int, NEW d, y <= e, NEW t, NEW u, Alike(t, y, e, d), Alike(u, y, e, d)
    PROVE  FitsTrace(t, u) = 0
<1>1. CASE t.rate /\ u.rate
  <2> DEFINE x == y - e - One
  <2>1. x \in Int /\ x <= 0 - One /\ x < 0 /\ -x >= One
    BY OneAssumption
  <2>2. u.s - t.e - One = x /\ t.s - u.e - One = x
    BY <1>1 DEF Alike
  <2> HIDE DEF x
  <2>3. ~Within(x)
    BY <2>1, OneAssumption DEF Within, Absolute
  <2> QED BY <2>2, <2>3 DEF FitsTrace
<1>2. CASE ~(t.rate /\ u.rate)
  BY <1>2 DEF FitsTrace
<1> QED BY <1>1, <1>2

AllAlike(l, n, y, e, d) == l \in HealLists(n) /\ \A i \in 1 .. n : Alike(l[i], y, e, d) /\ ~l[i].gone

\* Nothing is taken in.
LEMMA TakeAllNothing ==
    ASSUME NEW n \in Nat, NEW y \in Int, NEW e \in Int, NEW d, y <= e, NEW l, AllAlike(l, n, y, e, d),
           NEW c \in 1 .. n
    PROVE  TakeAll(l, c) = l
<1>1. l \in HealLists(n) /\ DOMAIN l = 1 .. n /\ \A i \in 1 .. n : Alike(l[i], y, e, d) /\ ~l[i].gone
  BY DEF AllAlike, HealLists
<1>2. \A x \in 1 .. n : TakeIn(l, c, x) = l
  <2>1. ASSUME NEW x \in 1 .. n PROVE FitsTrace(l[c], l[x]) = 0
    BY <1>1, AlikeFitNot
  <2> QED BY <2>1 DEF TakeIn
<1>3. PICK r : /\ r[0] = l
               /\ \A k \in 1 .. n : r[k] = TakeIn(r[k - 1], c, Places(l)[k])
               /\ TakeAll(l, c) = r[n]
  BY <1>1, TakeAllRun
<1>4. \A k \in 1 .. n : Places(l)[k] = k
  BY <1>1 DEF Places
<1> DEFINE Q == {k \in Nat : k <= n => r[k] = l}
<1>5. 0 \in Q
  BY <1>3
<1>6. ASSUME NEW k \in Q PROVE k + 1 \in Q
  <2> SUFFICES ASSUME k + 1 <= n PROVE r[k + 1] = l
    OBVIOUS
  <2>1. k \in Nat /\ k + 1 \in 1 .. n /\ (k + 1) - 1 = k /\ r[k] = l
    OBVIOUS
  <2>2. r[k + 1] = TakeIn(l, c, k + 1)
    BY <1>3, <1>4, <2>1
  <2> QED BY <1>2, <2>1, <2>2
<1>7. Q = Nat
  <2> HIDE DEF Q
  <2>1. Q \in SUBSET Nat
    BY DEF Q
  <2> QED BY <1>5, <1>6, <2>1, SetInduction
<1>8. r[n] = l
  <2>1. n \in Q
    BY <1>7
  <2> QED BY <2>1
<1> QED BY <1>3, <1>8

LEMMA HealAlike ==
    ASSUME NEW y \in Int, NEW e \in Int, NEW d, y <= e,
           NEW g \in Seq(GroupTraces), \A t \in Elems(g) : Alike(t, y, e, d)
    PROVE  mst_groupheal(g) = Marked(g)
<1> DEFINE n == Len(g)  l == Marked(g)
<1>1. n \in Nat /\ DOMAIN g = 1 .. n /\ \A i \in 1 .. n : Alike(g[i], y, e, d)
  BY DEF Elems
<1>2. /\ l \in HealLists(n)
      /\ \A i \in 1 .. n : /\ l[i].s = g[i].s /\ l[i].e = g[i].e /\ l[i].d = g[i].d
                           /\ l[i].rate = g[i].rate /\ ~l[i].gone
  BY <1>1, MarkedTypes
<1>3. AllAlike(l, n, y, e, d)
  BY <1>1, <1>2 DEF AllAlike, Alike
<1>4. PICK r : /\ r[0] = l
               /\ \A k \in 1 .. n : r[k] = TakeAll(r[k - 1], Places(g)[k])
               /\ Healed(g) = r[n]
  BY HealRun
<1>5. \A k \in 1 .. n : Places(g)[k] = k
  BY <1>1 DEF Places
<1> HIDE DEF n, l
<1> DEFINE Q == {k \in Nat : k <= n => r[k] = l}
<1>6. 0 \in Q
  BY <1>4
<1>7. ASSUME NEW k \in Q PROVE k + 1 \in Q
  <2> SUFFICES ASSUME k + 1 <= n PROVE r[k + 1] = l
    OBVIOUS
  <2>1. k \in Nat /\ k + 1 \in 1 .. n /\ (k + 1) - 1 = k /\ r[k] = l
    BY <1>1
  <2>2. r[k + 1] = TakeAll(l, k + 1)
    BY <1>4, <1>5, <2>1
  <2> QED BY <1>1, <1>3, <2>1, <2>2, TakeAllNothing
<1>8. Q = Nat
  <2> HIDE DEF Q
  <2>1. Q \in SUBSET Nat
    BY DEF Q
  <2> QED BY <1>6, <1>7, <2>1, SetInduction
<1>9. Healed(g) = l
  <2>1. n \in Q
    BY <1>1, <1>8
  <2> QED BY <1>4, <2>1
<1>10. l \in Seq(HealTraces) /\ Elems(l) \subseteq {t \in Elems(l) : ~t.gone}
  BY <1>1, <1>2 DEF HealLists, Elems
<1>11. Only(l, {t \in Elems(l) : ~t.gone}) = l
  <2> DEFINE T == {t \in Elems(l) : ~t.gone}
  <2>1. Elems(l) \subseteq T
    BY <1>10
  <2> HIDE DEF T
  <2>2. Only(l, T) = l
    BY <1>10, <2>1, OnlyAll
  <2> QED BY <2>2 DEF T
<1> QED BY <1>9, <1>11, HealIsHealed DEF l

\* Every trace of list is the same.
Same1(list, y, e, d) ==
    /\ list \in Seq(HealTraces) /\ list # <<>>
    /\ \A i \in DOMAIN list : list[i].s = y /\ list[i].e = e /\ list[i].d = d

LEMMA MarkedAlike ==
    ASSUME NEW y \in Int, NEW e \in Int, NEW d, y <= e, d # <<>>,
           NEW g \in Seq(GroupTraces), \A t \in Elems(g) : Alike(t, y, e, d), \E t \in Elems(g) : t.rate
    PROVE  Same1(WithData(Marked(g)), y, e, d)
<1> DEFINE n == Len(g)  l == Marked(g)
           T == {t \in Elems(l) : t.d # <<>>}
           w == Only(l, T)
<1>1. n \in Nat /\ DOMAIN g = 1 .. n /\ \A i \in 1 .. n : Alike(g[i], y, e, d)
  BY DEF Elems
<1>2. /\ l \in HealLists(n)
      /\ \A i \in 1 .. n : /\ l[i].s = g[i].s /\ l[i].e = g[i].e /\ l[i].d = g[i].d
                           /\ l[i].rate = g[i].rate /\ ~l[i].gone
  BY <1>1, MarkedTypes
<1>3. l \in Seq(HealTraces) /\ DOMAIN l = 1 .. n
  BY <1>1, <1>2 DEF HealLists
<1>4. PICK j \in 1 .. n : g[j].rate
  BY <1>1 DEF Elems
<1>5. WithData(l) = w
  BY DEF WithData
<1> HIDE DEF n, l
<1>6. \A t \in T : t.s = y /\ t.e = e /\ t.d = d
  BY <1>1, <1>2, <1>3 DEF Alike, Elems
<1>7. l[j] \in T
  BY <1>1, <1>2, <1>3, <1>4 DEF Alike, Elems
<1> HIDE DEF T
<1>8. w \in Seq(HealTraces) /\ Elems(w) = Elems(l) \cap T
  BY <1>3, OnlyProperties
<1> HIDE DEF w
<1>9. l[j] \in Elems(w)
  BY <1>3, <1>4, <1>7, <1>8 DEF Elems
<1>10. w # <<>>
  BY <1>9 DEF Elems
<1>11. \A i \in DOMAIN w : w[i] \in T
  BY <1>8 DEF Elems
<1>12. Same1(w, y, e, d)
  BY <1>6, <1>8, <1>10, <1>11 DEF Same1
<1> QED BY <1>5, <1>12 DEF l

\* The same data once more are an overlap that changes nothing of the array.
LEMMA AddSame ==
    ASSUME NEW y \in Int, NEW e \in Int, NEW d, y <= e, NEW a \in Layouts, a.s = y, a.end = e, a.data = d,
           NEW t \in HealTraces, t.s = y, t.e = e, t.d = d
    PROVE  /\ AddTrace(a, t) \in Layouts
           /\ AddTrace(a, t).s = y /\ AddTrace(a, t).end = e /\ AddTrace(a, t).data = d
<1> DEFINE b == AddOverlap(a, t)
           c == [b EXCEPT !.end = Greater(@, t.e)]
<1>1. t.s < a.end + One
  BY OneAssumption
<1>2. AddTrace(a, t) = c
  BY <1>1 DEF AddTrace
<1>3. Covered(a, t)
  BY OneAssumption DEF Covered
<1>4. b \in Layouts /\ b.s = y /\ b.end = e /\ b.data = d
  <2>1. b = AddOverlap(a, t)
    OBVIOUS
  <2> HIDE DEF b
  <2>2. /\ b \in Layouts /\ b.s = a.s /\ b.end = a.end
        /\ b.data = IF Covered(a, t) THEN a.data ELSE a.data \o SubSeq(t.d, Over(a, t) + 1, Len(t.d))
    <3>1. IsOverlap(a, b, t)
      BY <1>1, <2>1, OverlapIs
    <3> QED BY <3>1 DEF IsOverlap
  <2> QED BY <1>3, <2>2
<1> HIDE DEF b
<1>5. c \in Layouts /\ c.s = y /\ c.data = d /\ c.end = Greater(e, t.e)
  BY <1>4, EndIs
<1>6. Greater(e, t.e) = e
  BY DEF Greater
<1> HIDE DEF c
<1> QED BY <1>2, <1>5, <1>6

LEMMA LayOutSame ==
    ASSUME NEW y \in Int, NEW e \in Int, NEW d, y <= e, NEW g, Same1(g, y, e, d)
    PROVE  LayOut(g).s = y /\ LayOut(g).data = d
<1> DEFINE N == Len(Tail(g))
<1>1. /\ g \in Seq(HealTraces) /\ g # <<>>
      /\ \A i \in DOMAIN g : g[i].s = y /\ g[i].e = e /\ g[i].d = d
  BY DEF Same1
<1>2. /\ 1 \in DOMAIN g /\ N \in Nat
      /\ \A k \in 1 .. N : Tail(g)[k] \in HealTraces /\ Tail(g)[k] = g[k + 1] /\ k + 1 \in DOMAIN g
  BY <1>1
<1>3. PICK r : /\ r[0] = Start(g[1])
               /\ \A k \in 1 .. N : r[k] = AddTrace(r[k - 1], Tail(g)[k])
               /\ FoldLeft(AddTrace, Start(g[1]), Tail(g)) = r[N]
  BY <1>1, LayoutRun
<1>4. LayOut(g) = r[N]
  BY <1>1, <1>3 DEF LayOut
<1> HIDE DEF N
<1> DEFINE P(k) == r[k] \in Layouts /\ r[k].s = y /\ r[k].end = e /\ r[k].data = d
           Q == {k \in Nat : k <= N => P(k)}
<1>5. P(0)
  <2>1. Start(g[1]) \in Layouts
    BY <1>1, StartTypes
  <2>2. Start(g[1]).s = g[1].s /\ Start(g[1]).end = g[1].e /\ Start(g[1]).data = g[1].d
    BY DEF Start, Nothing
  <2> QED BY <1>1, <1>2, <1>3, <2>1, <2>2
<1>6. ASSUME NEW k \in Nat, k + 1 <= N, P(k) PROVE P(k + 1)
  <2> DEFINE t == Tail(g)[k + 1]
  <2>1. k + 1 \in 1 .. N /\ (k + 1) - 1 = k
    BY <1>2, <1>6
  <2>2. t \in HealTraces /\ t.s = y /\ t.e = e /\ t.d = d
    BY <1>1, <1>2, <2>1
  <2>3. r[k + 1] = AddTrace(r[k], t)
    BY <1>3, <2>1
  <2> HIDE DEF t
  <2> QED BY <1>6, <2>2, <2>3, AddSame
<1> HIDE DEF P
<1>7. Q = Nat
  <2>1. 0 \in Q
    BY <1>5
  <2>2. \A k \in Q : k + 1 \in Q
    BY <1>2, <1>6
  <2> HIDE DEF Q
  <2>3. Q \in SUBSET Nat
    BY DEF Q
  <2> QED BY <2>1, <2>2, <2>3, SetInduction
<1>8. P(N)
  BY <1>2, <1>7
<1> QED BY <1>4, <1>8 DEF P

LEMMA Multiple ==
    ASSUME NEW m \in Nat \ {0}
    PROVE  m * One \in Nat /\ m * One >= One
<1> DEFINE q == m - 1
<1>1. q \in Nat /\ m = q + 1
  OBVIOUS
<1> HIDE DEF q
<1>2. m * One = q * One + One /\ q * One \in Nat
  BY <1>1, OneAssumption
<1> QED BY <1>2, OneAssumption

\* The trace groups of a file that can be read packet by packet give the same data.
LEMMA FastIsAssembled ==
    ASSUME NEW E, file \in Seq(E), Clean(file), NEW t, t.set \in BOOLEAN, ~Fast(t).again,
           NEW y \in Nat, Unbroken(Fast(t).data, y, Fast(t).next), NEW any \in BOOLEAN, ~any
    PROVE  Assemble(file, any).s = y /\ Assemble(file, any).data = Fast(t).data
<1> DEFINE d == Fast(t).data  next == Fast(t).next  e == next - One  g == Group(file, any)  h == mst_groupsort(g)
<1>1. Grouped(g, d, next)
  BY FastGrouped
<1>2. Assemble(file, any) = LayOut(WithData(mst_groupheal(h)))
  BY DEF Assemble
<1> HIDE DEF d, next, g
<1>3. Unbroken(d, y, next)
  BY DEF d, next
<1>4. /\ d # <<>> /\ d \in Seq(Nat) /\ Len(d) \in Nat \ {0} /\ next = y + Len(d) * One
      /\ d[1] = y + (1 - 1) * One
  BY <1>3 DEF Unbroken
<1>5. e \in Int /\ y <= e /\ d[1] = y
  <2>1. Len(d) * One \in Nat /\ Len(d) * One >= One /\ (1 - 1) * One = 0
    <3>1. (1 - 1) * One = 0
      BY OneAssumption
    <3> QED BY <1>4, <3>1, Multiple
  <2> QED BY <1>4, <2>1, OneAssumption
<1>6. g \in Seq(GroupTraces) /\ (\A u \in Elems(g) : Alike(u, y, e, d)) /\ \E u \in Elems(g) : u.rate
  <2>1. g \in Seq(GroupTraces)
    BY <1>1 DEF Grouped
  <2>2. (\A u \in Elems(g) : Alike(u, d[1], next - One, d)) /\ \E u \in Elems(g) : u.rate
    BY <1>1, <1>4, GroupedAlike
  <2> QED BY <1>5, <2>1, <2>2
<1>7. h \in Seq(GroupTraces) /\ (\A u \in Elems(h) : Alike(u, y, e, d)) /\ \E u \in Elems(h) : u.rate
  BY <1>6, SortedGroup
<1> HIDE DEF e, h
<1>8. mst_groupheal(h) = Marked(h)
  <2>1. y \in Int
    OBVIOUS
  <2> QED BY <1>5, <1>7, <2>1, HealAlike
<1>9. Same1(WithData(Marked(h)), y, e, d)
  BY <1>4, <1>5, <1>7, MarkedAlike
<1>10. LayOut(WithData(Marked(h))).s = y /\ LayOut(WithData(Marked(h))).data = d
  BY <1>5, <1>9, LayOutSame
<1> QED BY <1>2, <1>8, <1>10 DEF d

\* What the properties say of a trace that was read.
AsGroups(t) ==
    t.type = "MSEED_DATA" => LET slow == Assemble(SubSeq(file, 1, t.seen), FALSE)
                             IN  t.data.data = slow.data /\ t.s = slow.s
Right(t) ==
    Regular(t) => /\ t.cut = None \/ ~t.data.fast => InPlaceOf(t)
                  /\ t.cut = None => LaidOf(t) /\ GapsOf(t) /\ AsGroups(t)

\* The data of a trace begin at its label, and an uncut trace has some.
Labelled(t) == t.s = t.data.s /\ t.seen \in DOMAIN file /\ (t.cut = None => t.data.data # <<>>)

\* What is known of a trace at all times.
Known(t) == Sound(t) /\ StartKnown(t) /\ (t.data # None => Right(t) /\ Labelled(t))

\* An excerpt of a trace read packet by packet still says so.
LEMMA FastExcerpt ==
    ASSUME NEW f, NEW t, NEW x, x = trace_excerpt(t, FastData(f))
    PROVE  x.fast
<1> DEFINE r == FastData(f)
           s == IF t.cut.at < r.s THEN r.s ELSE t.cut.at
           d == SubSeq(r.data, startSamp(t, r) + 1,
                       startSamp(t, r) + Smaller(ShotLen \div One, Len(r.data) - startSamp(t, r)))
<1>1. x = [r EXCEPT !.s = s, !.data = d, !.gaps = <<>>, !.olaps = <<>>]
  BY DEF trace_excerpt
<1> HIDE DEF s, d
<1> QED BY <1>1 DEF FastData, Nothing

LEMMA NotAny ==
    ASSUME NEW P, NEW any \in BOOLEAN, ~any
    PROVE  Assemble(P, any) = Assemble(P, FALSE)
<1>1. any = FALSE
  OBVIOUS
<1> QED BY <1>1, Zenon

\* Both ways of reading give the same.
LEMMA ReadAsGroups ==
    ASSUME NEW E, file \in Seq(E), Packets(file), NEW t, Sound(t), StartKnown(t), NEW u, Sound(u),
           NEW r, NEW x, ReadTo(t, u, r, x), RegularPackets(u), u.cut = None
    PROVE  AsGroups(u)
<1>1. /\ u.type = t.type /\ u.ch = t.ch /\ u.blk = t.blk /\ u.pk = t.pk /\ u.cut = t.cut /\ u.s = x.s
      /\ u.data = x /\ u.seen = Len(file) /\ r.data # <<>> /\ r = get_mseed_data(t)
      /\ x = (IF t.cut = None THEN r ELSE trace_excerpt(t, r))
  BY DEF ReadTo
<1> SUFFICES ASSUME u.type = "MSEED_DATA"
             PROVE  u.data.data = Assemble(file, FALSE).data /\ u.s = Assemble(file, FALSE).s
  <2>1. SubSeq(file, 1, u.seen) = file
    BY <1>1
  <2> QED BY <2>1 DEF AsGroups
<1>2. u.data = r /\ u.s = r.s
  BY <1>1
<1>3. CASE r = get_mseed_trace(t)
  <2>1. u.type = "MSEED_MPLEX_DATA" => u.blk # 0
    OBVIOUS
  <2>2. PICK any \in BOOLEAN : ~any /\ r = Assemble(SlowPackets(u), any)
    BY <1>1, <1>3, <2>1, SlowIs
  <2>3. SlowPackets(u) = file
    BY DEF SlowPackets
  <2>4. r = Assemble(file, FALSE)
    BY <2>2, <2>3, NotAny
  <2> QED BY <1>2, <2>4
<1>4. CASE r # get_mseed_trace(t)
  <2>1. t.type = "MSEED_DATA" /\ ~Fast(t).again /\ r = FastData(Fast(t))
    BY <1>1, <1>4, DataIs DEF Sound
  <2>2. r.s = Fast(t).s /\ r.data = Fast(t).data
    BY <2>1, FastDataIs
  <2>3. OneChannel(file, t.ch) /\ t.cut = None /\ t.set \in BOOLEAN
    BY <1>1, <2>1, RegularClean DEF Sound
  <2>4. PICK y \in Nat : Fast(t).s = y /\ Unbroken(Fast(t).data, y, Fast(t).next)
    BY <1>1, <2>1, <2>2, <2>3, FastIs
  <2>5. Clean(file)
    BY <2>3 DEF OneChannel
  <2> DEFINE any == FALSE
  <2>6. any \in BOOLEAN /\ ~any
    OBVIOUS
  <2> HIDE DEF any
  <2>7. Assemble(file, any).s = y /\ Assemble(file, any).data = Fast(t).data
    BY <2>1, <2>3, <2>4, <2>5, <2>6, FastIsAssembled
  <2>8. Assemble(file, FALSE) = Assemble(file, any)
    BY <2>6, NotAny
  <2> QED BY <1>2, <2>2, <2>4, <2>7, <2>8
<1> QED BY <1>3, <1>4

LEMMA ReadRight ==
    ASSUME NEW E, file \in Seq(E), file # <<>>, Packets(file), NEW t, Sound(t), StartKnown(t),
           NEW u, u = readTrace(t), u.data.data # <<>>
    PROVE  Known(u)
<1>1. PICK r, x : ReadTo(t, u, r, x)
  BY ReadIs
<1>2. Sound(u) /\ StartKnown(u)
  BY <1>1, ReadIs, ReadStartKnown
<1>3. /\ u.type = t.type /\ u.cut = t.cut /\ u.data = x /\ u.seen = Len(file) /\ r.data # <<>>
      /\ r = get_mseed_data(t) /\ x = IF t.cut = None THEN r ELSE trace_excerpt(t, r)
  BY <1>1 DEF ReadTo
<1> SUFFICES ASSUME Regular(u)
             PROVE  /\ u.cut = None \/ ~u.data.fast => InPlaceOf(u)
                    /\ u.cut = None => LaidOf(u) /\ GapsOf(u) /\ AsGroups(u)
  <2>1. u.s = u.data.s /\ (u.cut = None => u.data.data # <<>>)
    BY <1>1, <1>3 DEF ReadTo
  <2>2. Len(file) \in DOMAIN file
    OBVIOUS
  <2>3. Labelled(u)
    BY <1>3, <2>1, <2>2 DEF Labelled
  <2> QED BY <1>2, <2>3 DEF Right, Known
<1>4. RegularPackets(u) /\ (u.type = "MSEED_MPLEX_DATA" => u.blk # 0) /\ ~u.data.short
  BY <1>2, RegularMeans
<1>5. u.cut = None => AsGroups(u)
  BY <1>1, <1>2, <1>4, ReadAsGroups
<1>6. CASE r = get_mseed_trace(t)
  BY <1>1, <1>2, <1>4, <1>6, <1>5, SlowRight
<1>7. CASE r # get_mseed_trace(t)
  <2>1. t.type = "MSEED_DATA" /\ ~Fast(t).again /\ r = FastData(Fast(t))
    BY <1>3, <1>7, DataIs DEF Sound
  <2>2. CASE u.cut = None
    BY <1>1, <1>2, <1>4, <1>5, <2>1, <2>2, FastRight
  <2>3. CASE u.cut # None
    BY <1>3, <2>1, <2>3, FastExcerpt
  <2> QED BY <2>2, <2>3
<1> QED BY <1>6, <1>7

-----------------------------------------------------------------------------
(* The file grows.                                                         *)

\* What is known of a trace stays so.
LEMMA StillSound ==
    ASSUME NEW E, file \in Seq(E), NEW p \in E, file' = Append(file, p), NEW t, Sound(t)
    PROVE  Sound(t)'
<1>1. Len(file') = Len(file) + 1 /\ Len(file) \in Nat /\ DOMAIN file \subseteq DOMAIN file'
  OBVIOUS
<1>2. Seq(DOMAIN file) \subseteq Seq(DOMAIN file')
  BY <1>1
<1>3. 0 .. Len(file) \subseteq 0 .. Len(file')
  BY <1>1
<1> QED BY <1>2, <1>3 DEF Sound, IsTrace

LEMMA StillPackets ==
    ASSUME NEW E, file \in Seq(E), NEW p \in E, file' = Append(file, p), NEW t, Sound(t)
    PROVE  Read(t)' = Read(t) /\ \A i \in Read(t) : file'[i] = file[i]
<1>1. \A i \in DOMAIN file : file'[i] = file[i]
  OBVIOUS
<1> QED BY <1>1, ReadPlaces DEF Read

LEMMA StillRight ==
    ASSUME NEW E, file \in Seq(E), NEW p \in E, file' = Append(file, p), NEW t, Sound(t), Right(t)
    PROVE  Right(t)'
<1>1. Read(t)' = Read(t) /\ \A i \in Read(t) : file'[i] = file[i]
  BY StillPackets
<1>2. {file[i] : i \in Read(t)}' = {file[i] : i \in Read(t)}
  BY <1>1
<1>3. Regular(t)' <=> Regular(t)
  BY <1>2 DEF Regular
<1>4. InPlaceOf(t)' <=> InPlaceOf(t)
  BY DEF InPlaceOf
<1>5. LaidOf(t)' <=> LaidOf(t)
  BY DEF LaidOf
<1>6. GapsOf(t)' <=> GapsOf(t)
  BY <1>1 DEF GapsOf, Has
<1>7. Right(t)' <=> Right(t)
  <2>1. t.type = "MSEED_DATA" => SubSeq(file', 1, t.seen) = SubSeq(file, 1, t.seen)
    <3>1. t.seen \in 0 .. Len(file)
      BY DEF Sound
    <3> QED BY <3>1
  <2>2. AsGroups(t)' <=> AsGroups(t)
    BY <2>1 DEF AsGroups
  <2> QED BY <1>3, <1>4, <1>5, <1>6, <2>2 DEF Right
<1> QED BY <1>7

LEMMA StillKnown ==
    ASSUME NEW E, file \in Seq(E), Packets(file), NEW p \in E, file' = Append(file, p), NEW t, Known(t)
    PROVE  Known(t)'
<1>1. Sound(t)'
  BY StillSound DEF Known
<1>2. t.data # None => Right(t)'
  BY StillRight DEF Known
<1>4. t.data # None => Labelled(t)'
  <2>1. DOMAIN file \subseteq DOMAIN file'
    OBVIOUS
  <2> QED BY <2>1 DEF Known, Labelled
<1>3. StartKnown(t)'
  <2> DEFINE N == Len(file)
  <2>1. N \in Nat /\ Len(file') = N + 1 /\ DOMAIN file = 1 .. N /\ DOMAIN file' = 1 .. N + 1
        /\ \A i \in 1 .. N : file'[i] = file[i]
    OBVIOUS
  <2> HIDE DEF N
  <2>2. OneChannel(file, t.ch)' => OneChannel(file, t.ch)
    BY <2>1 DEF OneChannel, Clean
  <2>3. Disordered(file, N) => Disordered(file', N + 1)
    <3> SUFFICES ASSUME Disordered(file, N) PROVE Disordered(file', N + 1)
      OBVIOUS
    <3>1. PICK i \in 1 .. N, j \in 1 .. N :
            /\ i < j /\ file[i].n > 0 /\ file[j].n > 0 /\ \A m \in i + 1 .. j - 1 : file[m].n = 0
            /\ file[j].s # msr_endtime(file[i]) + One
      BY DEF Disordered
    <3>2. i \in 1 .. N + 1 /\ j \in 1 .. N + 1 /\ \A m \in i + 1 .. j - 1 : m \in 1 .. N
      BY <2>1
    <3>3. \A m \in i + 1 .. j - 1 : file'[m].n = 0
      BY <2>1, <3>1, <3>2
    <3>4. file'[i] = file[i] /\ file'[j] = file[j]
      BY <2>1
    <3> QED BY <3>1, <3>2, <3>3, <3>4 DEF Disordered
  <2>4. ASSUME StartsAt(file, N, t.s) PROVE StartsAt(file', N + 1, t.s)
    <3>1. PICK i \in 1 .. N : file[i].n > 0 /\ (\A m \in 1 .. i - 1 : file[m].n = 0) /\ t.s = file[i].s
      BY <2>4 DEF StartsAt
    <3>2. i \in 1 .. N + 1 /\ \A m \in 1 .. i - 1 : m \in 1 .. N
      BY <2>1
    <3> QED BY <2>1, <3>1, <3>2 DEF StartsAt
  <2>5. StartKnown(t)
    BY DEF Known
  <2>6. CASE t.type = "MSEED_DATA" /\ t.cut = None /\ t.set /\ OneChannel(file, t.ch)' /\ ~Disordered(file', N + 1)
    <3>1. StartsAt(file, N, t.s)
      BY <2>2, <2>3, <2>5, <2>6 DEF StartKnown, N
    <3> QED BY <2>1, <2>4, <3>1 DEF StartKnown
  <2>7. CASE ~(t.type = "MSEED_DATA" /\ t.cut = None /\ t.set /\ OneChannel(file, t.ch)' /\ ~Disordered(file', N + 1))
    BY <2>1, <2>7 DEF StartKnown
  <2> QED BY <2>6, <2>7
<1> QED BY <1>1, <1>2, <1>3, <1>4 DEF Known

\* Nothing that is known of a trace depends on anything but the file.
LEMMA KnownUnchanged ==
    ASSUME NEW t, file' = file, Known(t)
    PROVE  Known(t)'
<1>1. Sound(t)' <=> Sound(t)
  BY DEF Sound, IsTrace
<1>2. StartKnown(t)' <=> StartKnown(t)
  BY DEF StartKnown, OneChannel, Clean, Disordered, StartsAt
<1>3. Right(t)' <=> Right(t)
  BY DEF Right, Regular, InPlaceOf, LaidOf, GapsOf, AsGroups, Read, Has
<1>4. Labelled(t)' <=> Labelled(t)
  BY DEF Labelled
<1> QED BY <1>1, <1>2, <1>3, <1>4 DEF Known

-----------------------------------------------------------------------------
(* Lists of traces.                                                        *)

\* What FlattenSeq computes for the first n lists.
IsFlat(f, lists, n) == f = [i \in 1 .. n |-> IF i = 1 THEN lists[i] ELSE f[i - 1] \o lists[i]]

LEMMA FlatExists ==
    ASSUME NEW lists, NEW n \in Nat
    PROVE  \E f : IsFlat(f, lists, n)
<1> DEFINE S == {m \in Nat : \E f : IsFlat(f, lists, m)}
<1>1. 0 \in S
  <2>1. IsFlat([i \in 1 .. 0 |-> <<>>], lists, 0)
    BY DEF IsFlat
  <2> QED BY <2>1
<1>2. ASSUME NEW m \in S PROVE m + 1 \in S
  <2>1. PICK f : IsFlat(f, lists, m)
    OBVIOUS
  <2> DEFINE h == [i \in 1 .. m + 1 |->
                     IF i = m + 1 THEN (IF i = 1 THEN lists[i] ELSE f[m] \o lists[i]) ELSE f[i]]
  <2>2. ASSUME NEW i \in 1 .. m + 1 PROVE h[i] = IF i = 1 THEN lists[i] ELSE h[i - 1] \o lists[i]
    <3>1. CASE i = 1
      <4>1. CASE m = 0
        BY <3>1, <4>1
      <4>2. CASE m # 0
        <5>1. i \in 1 .. m /\ i # m + 1
          BY <3>1, <4>2
        <5>2. f[i] = lists[i]
          BY <2>1, <3>1, <5>1 DEF IsFlat
        <5> QED BY <3>1, <5>1, <5>2
      <4> QED BY <4>1, <4>2
    <3>2. CASE i # 1 /\ i = m + 1
      <4>1. i - 1 = m /\ m \in 1 .. m + 1 /\ m # m + 1
        BY <3>2
      <4>2. h[m] = f[m]
        BY <4>1
      <4> QED BY <3>2, <4>1, <4>2
    <3>3. CASE i # 1 /\ i # m + 1
      <4>1. i \in 1 .. m /\ i - 1 \in 1 .. m + 1 /\ i - 1 # m + 1
        BY <3>3
      <4>2. f[i] = f[i - 1] \o lists[i]
        BY <2>1, <3>3, <4>1 DEF IsFlat
      <4>3. h[i] = f[i] /\ h[i - 1] = f[i - 1]
        BY <3>3, <4>1
      <4> QED BY <3>3, <4>2, <4>3
    <3> QED BY <3>1, <3>2, <3>3
  <2>3. IsFlat(h, lists, m + 1)
    BY <2>2 DEF IsFlat
  <2> QED BY <2>3
<1>3. S = Nat
  <2> HIDE DEF S
  <2>1. S \in SUBSET Nat
    BY DEF S
  <2> QED BY <1>1, <1>2, <2>1, SetInduction
<1> QED BY <1>3

\* A list of lists put together.
LEMMA FlattenProperties ==
    ASSUME NEW S, NEW lists \in Seq(Seq(S))
    PROVE  FlattenSeq(lists) \in Seq(S)
<1> DEFINE N == Len(lists)
           flat == CHOOSE f : IsFlat(f, lists, N)
<1>0. N \in Nat /\ DOMAIN lists = 1 .. N /\ \A i \in 1 .. N : lists[i] \in Seq(S)
  OBVIOUS
<1>1. CASE N = 0
  <2>1. FlattenSeq(lists) = lists /\ lists = <<>>
    BY <1>1 DEF FlattenSeq
  <2>2. <<>> \in Seq(S)
    OBVIOUS
  <2> QED BY <2>1, <2>2
<1>2. CASE N # 0
  <2>1. FlattenSeq(lists) = flat[N]
    BY <1>2 DEF FlattenSeq, IsFlat
  <2>2. IsFlat(flat, lists, N)
    BY <1>0, FlatExists
  <2> HIDE DEF flat, N
  <2>3. \A i \in 1 .. N : flat[i] = IF i = 1 THEN lists[i] ELSE flat[i - 1] \o lists[i]
    BY <2>2 DEF IsFlat
  <2> DEFINE Q == {m \in Nat : m + 1 <= N => flat[m + 1] \in Seq(S)}
  <2>4. 0 \in Q
    <3>1. 1 <= N => flat[1] = lists[1] /\ 1 \in 1 .. N
      BY <1>0, <2>3
    <3> QED BY <1>0, <3>1
  <2>5. ASSUME NEW m \in Q PROVE m + 1 \in Q
    <3> SUFFICES ASSUME m + 1 + 1 <= N PROVE flat[m + 1 + 1] \in Seq(S)
      OBVIOUS
    <3>1. m \in Nat /\ m + 1 + 1 \in 1 .. N /\ m + 1 + 1 # 1 /\ (m + 1 + 1) - 1 = m + 1 /\ m + 1 <= N
      BY <1>0
    <3>2. flat[m + 1] \in Seq(S) /\ lists[m + 1 + 1] \in Seq(S)
      BY <1>0, <3>1
    <3>3. flat[m + 1 + 1] = flat[m + 1] \o lists[m + 1 + 1]
      BY <2>3, <3>1
    <3> QED BY <3>2, <3>3
  <2>6. Q = Nat
    <3> HIDE DEF Q
    <3>1. Q \in SUBSET Nat
      BY DEF Q
    <3> QED BY <2>4, <2>5, <3>1, SetInduction
  <2>7. N - 1 \in Nat /\ (N - 1) + 1 = N
    BY <1>0, <1>2
  <2>8. flat[(N - 1) + 1] \in Seq(S)
    <3>1. N - 1 \in Q /\ (N - 1) + 1 <= N
      <4> HIDE DEF Q
      <4> QED BY <1>0, <2>6, <2>7
    <3> QED BY <3>1
  <2> QED BY <2>1, <2>7, <2>8
<1> QED BY <1>1, <1>2

LEMMA RemovedFrom ==
    ASSUME NEW S, NEW s \in Seq(S), NEW i \in DOMAIN s
    PROVE  RemoveAt(s, i) \in Seq(S)
<1>1. SubSeq(s, 1, i - 1) \in Seq(S) /\ SubSeq(s, i + 1, Len(s)) \in Seq(S)
  OBVIOUS
<1> QED BY <1>1 DEF RemoveAt

\* A list of traces of which everything that must be is known.
AllKnown(list) == list \in Seq(Elems(list)) /\ \A t \in Elems(list) : Known(t)

LEMMA AllKnownIf ==
    ASSUME NEW S, NEW list \in Seq(S), \A t \in S : Known(t)
    PROVE  AllKnown(list)
<1>1. DOMAIN list = 1 .. Len(list) /\ Len(list) \in Nat /\ \A k \in 1 .. Len(list) : list[k] \in S
  OBVIOUS
<1>2. \A k \in 1 .. Len(list) : list[k] \in Elems(list)
  BY <1>1 DEF Elems
<1>3. Elems(list) \subseteq S
  BY <1>1 DEF Elems
<1>4. list \in [1 .. Len(list) -> Elems(list)]
  BY <1>1, <1>2
<1>5. list \in Seq(Elems(list))
  BY <1>1, <1>4
<1> QED BY <1>3, <1>5 DEF AllKnown

LEMMA FlattenKnown ==
    ASSUME NEW n \in Nat, NEW lists, lists = [i \in 1 .. n |-> lists[i]],
           \A i \in 1 .. n : AllKnown(lists[i])
    PROVE  AllKnown(FlattenSeq(lists))
<1> DEFINE S == UNION {Elems(lists[i]) : i \in 1 .. n}
<1>1. \A t \in S : Known(t)
  BY DEF AllKnown
<1>2. ASSUME NEW i \in 1 .. n PROVE lists[i] \in Seq(S)
  <2>1. lists[i] \in Seq(Elems(lists[i])) /\ Elems(lists[i]) \subseteq S
    BY DEF AllKnown
  <2> HIDE DEF S
  <2> QED BY <2>1
<1> HIDE DEF S
<1>3. lists \in [1 .. n -> Seq(S)]
  BY <1>2
<1>4. lists \in Seq(Seq(S))
  BY <1>3
<1> QED BY <1>1, <1>4, FlattenProperties, AllKnownIf

-----------------------------------------------------------------------------
(* Traces without data, and their excerpts.                                *)

LEMMA FreedKnown ==
    ASSUME NEW t, Sound(t), StartKnown(t)
    PROVE  Known(Freed(t)) /\ Freed(t).cut = t.cut
<1> DEFINE u == Freed(t)
           F(data, seen) ==
             [type |-> t.type, ch |-> t.ch, s |-> t.s, blk |-> t.blk, set |-> t.set, pk |-> t.pk,
              some |-> t.some, cut |-> t.cut, data |-> data, seen |-> seen]
<1>0. t = F(t.data, t.seen) /\ u = [t EXCEPT !.data = None, !.seen = 0]
  BY DEF Sound, IsTrace, Freed
<1> HIDE DEF u
<1>1. u = F(None, 0)
  BY <1>0
<1>2. /\ u.type = t.type /\ u.ch = t.ch /\ u.s = t.s /\ u.blk = t.blk /\ u.set = t.set /\ u.pk = t.pk
      /\ u.some = t.some /\ u.cut = t.cut /\ u.data = None /\ u.seen = 0
  BY <1>1
<1>3. IsTrace(u)
  BY <1>1, <1>2 DEF IsTrace
<1>4. 0 \in 0 .. Len(file)
  BY DEF Sound
<1>5. Sound(u)
  BY <1>2, <1>3, <1>4 DEF Sound
<1>6. StartKnown(u)
  BY <1>2 DEF StartKnown
<1> QED BY <1>2, <1>5, <1>6 DEF Known, u

\* A copy of a trace for the excerpt at a shot time.
LEMMA CopyKnown ==
    ASSUME NEW t, Sound(t), StartKnown(t), NEW at \in Nat
    PROVE  Known([Freed(t) EXCEPT !.s = at, !.cut = [at |-> at]])
<1> DEFINE u == [Freed(t) EXCEPT !.s = at, !.cut = [at |-> at]]
           c == [at |-> at]
<1>1. c.at = at /\ c # None
  <2>1. DOMAIN c = {"at"} /\ DOMAIN None = {"none"} /\ "at" # "none"
    BY DEF None
  <2>2. c # None
    BY <2>1
  <2> QED BY <2>2
<1> HIDE DEF c
<1> DEFINE F(s, cut, data, seen) ==
             [type |-> t.type, ch |-> t.ch, s |-> s, blk |-> t.blk, set |-> t.set, pk |-> t.pk,
              some |-> t.some, cut |-> cut, data |-> data, seen |-> seen]
<1>2. t = F(t.s, t.cut, t.data, t.seen) /\ u = [[t EXCEPT !.data = None, !.seen = 0] EXCEPT !.s = at, !.cut = c]
  BY DEF Sound, IsTrace, Freed, c
<1> HIDE DEF u
<1>3. u = F(at, c, None, 0)
  BY <1>2
<1>4. /\ u.type = t.type /\ u.ch = t.ch /\ u.s = at /\ u.blk = t.blk /\ u.set = t.set /\ u.pk = t.pk
      /\ u.some = t.some /\ u.cut = c /\ u.data = None /\ u.seen = 0
  BY <1>3
<1>5. IsTrace(u)
  BY <1>3, <1>4 DEF IsTrace
<1>6. 0 \in 0 .. Len(file)
  BY DEF Sound
<1>7. Sound(u)
  BY <1>1, <1>4, <1>5, <1>6 DEF Sound
<1>8. StartKnown(u)
  BY <1>1, <1>4 DEF StartKnown
<1> QED BY <1>4, <1>7, <1>8 DEF Known, u

LEMMA CutKnown ==
    ASSUME NEW t, Sound(t), StartKnown(t), shots \in Seq(Nat)
    PROVE  AllKnown(cutTrace(t))
<1> DEFINE T == {at \in Elems(shots) : at >= t.s /\ at + ShotLen <= t.s + (Len(t.data.data) - 1) * One}
           fit == Only(shots, T)
           copy(i) == [Freed(t) EXCEPT !.s = fit[i], !.cut = [at |-> fit[i]]]
           S == {copy(i) : i \in DOMAIN fit}
<1>1. cutTrace(t) = [i \in DOMAIN fit |-> copy(i)]
  BY DEF cutTrace
<1> HIDE DEF T
<1>2. fit \in Seq(Nat)
  BY OnlyProperties
<1> HIDE DEF fit
<1>3. DOMAIN fit = 1 .. Len(fit) /\ Len(fit) \in Nat /\ \A i \in DOMAIN fit : fit[i] \in Nat
  BY <1>2
<1>4. \A i \in DOMAIN fit : Known(copy(i))
  BY <1>3, CopyKnown
<1> HIDE DEF copy
<1>5. \A s \in S : Known(s)
  BY <1>4
<1>6. cutTrace(t) \in Seq(S)
  BY <1>1, <1>3
<1> HIDE DEF S
<1> QED BY <1>5, <1>6, AllKnownIf

LEMMA NoneKnown == AllKnown(<<>>)
<1>1. Elems(<<>>) = {} /\ <<>> \in Seq({})
  BY DEF Elems
<1> QED BY <1>1 DEF AllKnown

\* readHdr_2 makes excerpts of the traces it can read.
LEMMA CutUpKnown ==
    ASSUME NEW E, file \in Seq(E), file # <<>>, Packets(file), shots \in Seq(Nat), NEW headers, AllKnown(headers)
    PROVE  AllKnown(CutUp(headers))
<1> DEFINE cut(i) == LET t == readTrace(headers[i]) IN IF t.data.data = <<>> THEN <<>> ELSE cutTrace(t)
           lists == [i \in DOMAIN headers |-> cut(i)]
           n == Len(headers)
<1>1. n \in Nat /\ DOMAIN headers = 1 .. n /\ \A i \in 1 .. n : Known(headers[i])
  BY DEF AllKnown, Elems
<1>2. ASSUME NEW i \in 1 .. n PROVE AllKnown(cut(i))
  <2> DEFINE t == readTrace(headers[i])
  <2>1. CASE t.data.data = <<>>
    <3>1. cut(i) = <<>>
      BY <2>1
    <3> QED BY <3>1, NoneKnown
  <2>2. CASE t.data.data # <<>>
    <3>1. Known(headers[i])
      BY <1>1
    <3>2. Known(t)
      BY <2>2, <3>1, ReadRight DEF Known
    <3>3. cut(i) = cutTrace(t)
      BY <2>2
    <3> QED BY <3>2, <3>3, CutKnown DEF Known
  <2> QED BY <2>1, <2>2
<1>3. CutUp(headers) = FlattenSeq(lists)
  BY DEF CutUp
<1> HIDE DEF cut, n
<1>4. lists = [i \in 1 .. n |-> lists[i]] /\ \A i \in 1 .. n : AllKnown(lists[i])
  BY <1>1, <1>2
<1> HIDE DEF lists
<1> QED BY <1>1, <1>3, <1>4, FlattenKnown

-----------------------------------------------------------------------------
(* The traces made of the index of a file.                                 *)

\* The index is made of the beginning of the file.
Begins(f) ==
    /\ Len(f) <= Len(file) /\ DOMAIN f \subseteq DOMAIN file /\ Packets(f) /\ f \in Seq(Elems(f))
    /\ \A i \in DOMAIN f : f[i] = file[i]

LEMMA IndexedFile ==
    ASSUME NEW E, file \in Seq(E), Packets(file), cache \in 0 .. Len(file)
    PROVE  Begins(index_mplex)
<1> DEFINE f == index_mplex
<1>1. CASE cache = 0
  <2>1. f = file
    BY <1>1 DEF index_mplex
  <2> HIDE DEF f
  <2>2. file \in Seq(Elems(file)) /\ Len(file) <= Len(file)
    BY DEF Elems
  <2> QED BY <2>1, <2>2 DEF Begins, f
<1>2. CASE cache # 0
  <2>1. f = SubSeq(file, 1, cache) /\ cache \in 1 .. Len(file)
    BY <1>2 DEF index_mplex
  <2> HIDE DEF f
  <2>2. f \in Seq(E) /\ Len(f) = cache /\ \A i \in 1 .. cache : f[i] = file[i]
    BY <2>1
  <2>3. DOMAIN f = 1 .. cache /\ DOMAIN f \subseteq DOMAIN file
    BY <2>1, <2>2
  <2>4. Packets(f)
    BY <2>2, <2>3 DEF Packets
  <2>5. f \in Seq(Elems(f))
    BY <2>2 DEF Elems
  <2> QED BY <2>1, <2>2, <2>3, <2>4, <2>5 DEF Begins, f
<1> QED BY <1>1, <1>2

\* The index of a channel: its valid packets in the order of their times.
LEMMA IndexIs ==
    ASSUME NEW f, Packets(f), f \in Seq(Elems(f)), NEW c
    PROVE  /\ Index(f, c) \in Seq(DOMAIN f)
           /\ Elems(Index(f, c)) = {i \in DOMAIN f : f[i].ch = c /\ ~f[i].odd}
           /\ Distinct(Index(f, c))
           /\ \A m, n \in 1 .. Len(Index(f, c)) : m < n => f[Index(f, c)[m]].s <= f[Index(f, c)[n]].s
<1> DEFINE all == [i \in DOMAIN f |-> i]
           T == {i \in DOMAIN f : f[i].ch = c /\ ~f[i].odd}
           nums == Only(all, T)
           back == Reverse(nums)
           key == [i \in DOMAIN f |-> f[i].s]
           r == StableSort(back, key)
<1>1. Index(f, c) = r
  BY DEF Index
<1>2. all \in Seq(DOMAIN f) /\ Elems(all) = DOMAIN f /\ Distinct(all)
  <2>1. DOMAIN f = 1 .. Len(f) /\ Len(f) \in Nat
    OBVIOUS
  <2> QED BY <2>1 DEF Elems, Distinct
<1>3. T \subseteq DOMAIN f
  OBVIOUS
<1>4. key \in [DOMAIN f -> Int] /\ \A i \in DOMAIN f : key[i] = f[i].s
  BY PacketTypes DEF Packets
<1> HIDE DEF all, T, key
<1>5. nums \in Seq(DOMAIN f) /\ Elems(nums) = T /\ Distinct(nums)
  <2>1. nums \in Seq(DOMAIN f) /\ Elems(nums) = Elems(all) \cap T /\ Distinct(nums)
    BY <1>2, OnlyProperties
  <2> HIDE DEF nums
  <2> QED BY <1>2, <1>3, <2>1
<1> HIDE DEF nums
<1>6. back \in Seq(DOMAIN f) /\ Elems(back) = T /\ Distinct(back)
  BY <1>5, ReversedElements
<1> HIDE DEF back
<1>7. r \in Seq(DOMAIN f) /\ Elems(r) = T /\ Distinct(r) /\ Len(r) = Len(back)
      /\ \A m, n \in 1 .. Len(back) : m < n => key[r[m]] <= key[r[n]]
  BY <1>4, <1>6, SortProperties
<1> HIDE DEF r
<1>8. \A m, n \in 1 .. Len(r) : m < n => f[r[m]].s <= f[r[n]].s
  <2> SUFFICES ASSUME NEW m \in 1 .. Len(r), NEW n \in 1 .. Len(r), m < n PROVE f[r[m]].s <= f[r[n]].s
    OBVIOUS
  <2>1. r[m] \in DOMAIN f /\ r[n] \in DOMAIN f
    BY <1>7
  <2>2. key[r[m]] <= key[r[n]]
    BY <1>7
  <2> QED BY <1>4, <2>1, <2>2
<1> QED BY <1>1, <1>7, <1>8 DEF T

LEMMA FirstIs ==
    ASSUME NEW nums, Elems(nums) \in SUBSET Nat, Elems(nums) # {}
    PROVE  First(nums) \in Elems(nums) /\ \A j \in Elems(nums) : First(nums) <= j
BY LeastElement DEF First

\* A channel has a valid packet.
LEMMA ChannelsAre ==
    ASSUME NEW f, f \in Seq(Elems(f))
    PROVE  /\ Channels(f) \in Seq({f[i].ch : i \in DOMAIN f})
           /\ \A k \in DOMAIN Channels(f) : \E i \in DOMAIN f : ~f[i].odd /\ f[i].ch = Channels(f)[k]
<1> DEFINE all == [i \in DOMAIN f |-> i]
           T == {i \in DOMAIN f : ~f[i].odd /\ \A j \in 1 .. i - 1 : f[j].odd \/ f[j].ch # f[i].ch}
           new == Only(all, T)
           nums == Reverse(new)
<1>1. Channels(f) = [k \in DOMAIN nums |-> f[nums[k]].ch]
  BY DEF Channels
<1>2. all \in Seq(DOMAIN f) /\ \A i \in T : i \in DOMAIN f /\ ~f[i].odd
  <2>1. DOMAIN f = 1 .. Len(f) /\ Len(f) \in Nat
    OBVIOUS
  <2> QED BY <2>1
<1> HIDE DEF all, T
<1>3. new \in Seq(DOMAIN f) /\ Elems(new) \subseteq T
  BY <1>2, OnlyProperties
<1> HIDE DEF new
<1>4. nums \in Seq(DOMAIN f) /\ Elems(nums) \subseteq T
  BY <1>3, ReversedElements
<1> HIDE DEF nums
<1>5. DOMAIN nums = 1 .. Len(nums) /\ Len(nums) \in Nat /\ \A k \in DOMAIN nums : nums[k] \in T
  BY <1>4 DEF Elems
<1> QED BY <1>1, <1>2, <1>5

\* The next packet of a channel goes to the last window or begins one.
InWindow(f, acc, i) ==
    IF acc = <<>> \/ Breached(f, i, f[acc[Len(acc)][1]].s) THEN Append(acc, <<i>>)
    ELSE [acc EXCEPT ![Len(acc)] = Append(@, i)]

LEMMA InWindowTypes ==
    ASSUME NEW f, NEW acc \in Seq(Seq(DOMAIN f)), NEW i \in DOMAIN f
    PROVE  InWindow(f, acc, i) \in Seq(Seq(DOMAIN f))
<1>1. Append(acc, <<i>>) \in Seq(Seq(DOMAIN f))
  OBVIOUS
<1>2. ASSUME acc # <<>> PROVE [acc EXCEPT ![Len(acc)] = Append(acc[Len(acc)], i)] \in Seq(Seq(DOMAIN f))
  <2>1. Len(acc) \in DOMAIN acc /\ acc[Len(acc)] \in Seq(DOMAIN f)
    BY <1>2
  <2> DEFINE w == Append(acc[Len(acc)], i)
  <2>2. w \in Seq(DOMAIN f)
    BY <2>1
  <2> HIDE DEF w
  <2>3. [acc EXCEPT ![Len(acc)] = w] \in Seq(Seq(DOMAIN f))
    BY <2>1, <2>2
  <2> QED BY <2>3 DEF w
<1> QED BY <1>1, <1>2 DEF InWindow

\* The windows of a channel.
LEMMA WindowsRun ==
    ASSUME NEW f, NEW nums \in Seq(DOMAIN f)
    PROVE  \E r : /\ r[0] = <<>>
                  /\ \A k \in 1 .. Len(nums) : r[k] = InWindow(f, r[k - 1], nums[k])
                  /\ Windows(f, nums) = r[Len(nums)]
<1> DEFINE N == Len(nums)
           V == Seq(Seq(DOMAIN f))
           D == DOMAIN f
           F == [z \in V \X D |-> InWindow(f, z[1], z[2])]
           IsIt(h) == h = [S \in SUBSET (1 .. N) |->
                             IF S = {} THEN <<>> ELSE InWindow(f, h[S \ {Max(S)}], nums[Max(S)])]
           it == CHOOSE h : IsIt(h)
<1>1. N \in Nat /\ DOMAIN nums = 1 .. N /\ nums \in Seq(D) /\ Len(nums) = N
  OBVIOUS
<1>2. \A v \in V, x \in D : InWindow(f, v, x) \in V
  BY InWindowTypes
<1>3. F \in [V \X D -> V] /\ <<>> \in V
  <2>1. ASSUME NEW z \in V \X D PROVE InWindow(f, z[1], z[2]) \in V
    <3> HIDE DEF V, D
    <3>1. z[1] \in V /\ z[2] \in D /\ z = <<z[1], z[2]>>
      OBVIOUS
    <3> QED BY <1>2, <3>1
  <2>2. <<>> \in V
    OBVIOUS
  <2> QED BY <2>1, <2>2
<1>4. Windows(f, nums) = it[1 .. N]
  BY <1>1 DEF Windows, InWindow, FoldLeft, MapThenFoldSet
<1> HIDE DEF N, V, D, it
<1>5. PICK h : IsFold(h, F, <<>>, nums, N) /\ h \in [SUBSET (1 .. N) -> V]
  <2> HIDE DEF F
  <2> QED BY <1>1, <1>3, FoldExists
<1>6. ASSUME NEW S \in SUBSET (1 .. N), S # {}
      PROVE  F[<<h[S \ {Max(S)}], nums[Max(S)]>>] = InWindow(f, h[S \ {Max(S)}], nums[Max(S)])
  <2>1. Max(S) \in S
    BY <1>1, <1>6, LargestExists
  <2>2. Max(S) \in DOMAIN nums /\ S \ {Max(S)} \in SUBSET (1 .. N)
    BY <1>1, <2>1
  <2>3. nums[Max(S)] \in D
    BY <1>1, <2>2
  <2>4. h[S \ {Max(S)}] \in V
    BY <1>5, <2>2
  <2> QED BY <2>3, <2>4
<1> HIDE DEF F
<1>7. IsIt(h)
  BY <1>5, <1>6 DEF IsFold
<1>8. IsIt(it)
  BY <1>7 DEF it
<1> DEFINE r == [k \in 0 .. N |-> it[1 .. k]]
<1>9. r[0] = <<>>
  <2>1. 1 .. 0 = {} /\ 0 \in 0 .. N
    BY <1>1
  <2> QED BY <1>8, <2>1
<1>10. ASSUME NEW k \in 1 .. N PROVE r[k] = InWindow(f, r[k - 1], nums[k])
  <2>1. k \in Nat /\ k # 0 /\ k - 1 \in 0 .. N /\ k \in 0 .. N /\ 1 .. k \in SUBSET (1 .. N)
    BY <1>1
  <2>2. 1 .. k # {} /\ Max(1 .. k) = k /\ (1 .. k) \ {k} = 1 .. k - 1
    BY <2>1, FoldPrefix
  <2> QED BY <1>8, <2>1, <2>2
<1>11. N \in 0 .. N
  BY <1>1
<1>12. Windows(f, nums) = r[N]
  BY <1>4, <1>11
<1> HIDE DEF r
<1> QED BY <1>9, <1>10, <1>12 DEF N

LEMMA WindowsTypes ==
    ASSUME NEW f, NEW nums \in Seq(DOMAIN f)
    PROVE  Windows(f, nums) \in Seq(Seq(DOMAIN f))
<1>1. PICK r : /\ r[0] = <<>>
               /\ \A k \in 1 .. Len(nums) : r[k] = InWindow(f, r[k - 1], nums[k])
               /\ Windows(f, nums) = r[Len(nums)]
  BY WindowsRun
<1> DEFINE Q == {k \in Nat : k <= Len(nums) => r[k] \in Seq(Seq(DOMAIN f))}
<1>2. 0 \in Q
  <2>1. <<>> \in Seq(Seq(DOMAIN f)) /\ 0 \in Nat
    OBVIOUS
  <2> QED BY <1>1, <2>1
<1>3. ASSUME NEW k \in Q PROVE k + 1 \in Q
  <2> SUFFICES ASSUME k + 1 <= Len(nums) PROVE r[k + 1] \in Seq(Seq(DOMAIN f))
    OBVIOUS
  <2>1. k \in Nat /\ k + 1 \in 1 .. Len(nums) /\ (k + 1) - 1 = k /\ k <= Len(nums) /\ nums[k + 1] \in DOMAIN f
    OBVIOUS
  <2>2. r[k] \in Seq(Seq(DOMAIN f)) /\ r[k + 1] = InWindow(f, r[k], nums[k + 1])
    BY <1>1, <2>1
  <2> QED BY <2>1, <2>2, InWindowTypes
<1>4. Q = Nat
  <2> HIDE DEF Q
  <2>1. Q \in SUBSET Nat
    BY DEF Q
  <2> QED BY <1>2, <1>3, <2>1, SetInduction
<1>5. Len(nums) \in Q
  <2> HIDE DEF Q
  <2> QED BY <1>4
<1> QED BY <1>1, <1>5

\* A trace made of packets of a channel.
LEMMA MultiplexHeader ==
    ASSUME NEW f, Begins(f), NEW nums \in Seq(DOMAIN f), NEW s, NEW blk, NEW set
    PROVE  Known(Header("MSEED_MPLEX_DATA", f, nums, s, blk, set))
<1> DEFINE t == Header("MSEED_MPLEX_DATA", f, nums, s, blk, set)
           key == [i \in Elems(nums) |-> i]
           sorted == StableSort(nums, key)
           some == \E i \in Elems(nums) : f[i].n > 0
<1>1. t = [type |-> "MSEED_MPLEX_DATA", ch |-> f[nums[1]].ch, s |-> s, blk |-> blk, set |-> set, pk |-> sorted,
           some |-> some, cut |-> None, data |-> None, seen |-> 0]
  BY DEF Header
<1>2. sorted \in Seq(DOMAIN file)
  <2>1. nums \in Seq(Elems(nums)) /\ Elems(nums) \subseteq DOMAIN f
    BY DEF Elems
  <2>2. DOMAIN f = 1 .. Len(f) /\ Len(f) \in Nat /\ DOMAIN f \subseteq DOMAIN file
    BY DEF Begins
  <2>3. key \in [Elems(nums) -> Int]
    BY <2>1, <2>2
  <2> HIDE DEF key
  <2>4. sorted \in Seq(Elems(nums))
    BY <2>1, <2>3, SortProperties
  <2> HIDE DEF sorted
  <2> QED BY <2>1, <2>2, <2>4
<1> HIDE DEF t, key, sorted, some
<1>3. /\ t.type = "MSEED_MPLEX_DATA" /\ t.ch = f[nums[1]].ch /\ t.s = s /\ t.blk = blk /\ t.set = set
      /\ t.pk = sorted /\ t.some = some /\ t.cut = None /\ t.data = None /\ t.seen = 0
  BY <1>1
<1>4. IsTrace(t)
  BY <1>1, <1>3 DEF IsTrace
<1>5. 0 \in 0 .. Len(file)
  BY DEF Begins
<1>6. Sound(t)
  BY <1>2, <1>3, <1>4, <1>5 DEF Sound
<1>7. StartKnown(t)
  BY <1>3 DEF StartKnown
<1> QED BY <1>3, <1>6, <1>7 DEF Known, t

LEMMA TracesKnown ==
    ASSUME NEW f, Begins(f)
    PROVE  AllKnown(makeTraces(f))
<1> DEFINE chans == Channels(f)
           traces(c) ==
             LET nums == Index(f, c)
                 win == Windows(f, nums)
             IN  [w \in DOMAIN win |-> Header("MSEED_MPLEX_DATA", f, win[w], f[win[w][1]].s,
                                              blkSize(f), f[First(nums)].rate)]
           lists == [k \in DOMAIN chans |-> IF includeChan(chans[k]) THEN traces(chans[k]) ELSE <<>>]
           n == Len(chans)
<1>1. makeTraces(f) = FlattenSeq(lists)
  BY DEF makeTraces
<1>2. n \in Nat /\ DOMAIN chans = 1 .. n
  BY ChannelsAre DEF Begins
<1>3. ASSUME NEW c PROVE AllKnown(traces(c))
  <2> DEFINE nums == Index(f, c)
             win == Windows(f, nums)
             head(w) == Header("MSEED_MPLEX_DATA", f, win[w], f[win[w][1]].s, blkSize(f), f[First(nums)].rate)
             S == {head(w) : w \in DOMAIN win}
  <2>1. nums \in Seq(DOMAIN f)
    BY IndexIs DEF Begins
  <2>2. win \in Seq(Seq(DOMAIN f))
    <3> HIDE DEF nums
    <3> QED BY <2>1, WindowsTypes
  <2>3. traces(c) = [w \in DOMAIN win |-> head(w)]
    OBVIOUS
  <2> HIDE DEF win, nums
  <2>4. DOMAIN win = 1 .. Len(win) /\ Len(win) \in Nat /\ \A w \in DOMAIN win : win[w] \in Seq(DOMAIN f)
    BY <2>2
  <2>5. \A w \in DOMAIN win : Known(head(w))
    BY <2>4, MultiplexHeader
  <2> HIDE DEF head, traces
  <2>6. traces(c) \in Seq(S) /\ \A t \in S : Known(t)
    BY <2>3, <2>4, <2>5
  <2> HIDE DEF S
  <2> QED BY <2>6, AllKnownIf
<1> HIDE DEF traces
<1>4. lists = [k \in 1 .. n |-> lists[k]] /\ \A k \in 1 .. n : AllKnown(lists[k])
  BY <1>2, <1>3, NoneKnown
<1> HIDE DEF lists, n
<1> QED BY <1>1, <1>2, <1>4, FlattenKnown

\* The trace made of a file with one channel.
LEMMA SingleHeader ==
    ASSUME NEW f, Begins(f), NEW c, NEW nums, nums = Index(f, c),
           \E i \in DOMAIN f : ~f[i].odd /\ f[i].ch = c
    PROVE  Known(Header("MSEED_DATA", f, nums, f[First(nums)].s, 0, f[First(nums)].rate))
<1> DEFINE s == f[First(nums)].s
           set == f[First(nums)].rate
           t == Header("MSEED_DATA", f, nums, s, 0, set)
           some == \E i \in Elems(nums) : f[i].n > 0
<1>1. /\ nums \in Seq(DOMAIN f) /\ Elems(nums) = {i \in DOMAIN f : f[i].ch = c /\ ~f[i].odd}
  BY IndexIs DEF Begins
<1>2. /\ Packets(f) /\ DOMAIN f = 1 .. Len(f) /\ Len(f) \in Nat /\ DOMAIN file = 1 .. Len(file)
      /\ DOMAIN f \subseteq DOMAIN file /\ \A i \in DOMAIN f : f[i] = file[i]
  BY DEF Begins
<1>3. Elems(nums) # {} /\ Elems(nums) \in SUBSET Nat
  BY <1>1, <1>2
<1>4. First(nums) \in Elems(nums) /\ \A j \in Elems(nums) : First(nums) <= j
  BY <1>3, FirstIs
<1>5. f[nums[1]].ch = c
  <2>1. nums # <<>>
    BY <1>3 DEF Elems
  <2>2. 1 \in DOMAIN nums
    BY <1>1, <2>1
  <2>3. nums[1] \in Elems(nums)
    BY <2>2 DEF Elems
  <2> QED BY <1>1, <2>3
<1>6. set \in BOOLEAN /\ <<>> \in Seq(DOMAIN file)
  BY <1>1, <1>2, <1>4 DEF Packets, Packet
<1>7. t = [type |-> "MSEED_DATA", ch |-> f[nums[1]].ch, s |-> s, blk |-> 0, set |-> set, pk |-> <<>>,
           some |-> some, cut |-> None, data |-> None, seen |-> 0]
  BY DEF Header
<1>8. set /\ OneChannel(file, c) => StartsAt(file, Len(file), s)
  <2> SUFFICES ASSUME set, OneChannel(file, c) PROVE StartsAt(file, Len(file), s)
    OBVIOUS
  <2>1. \A i \in DOMAIN file : ~file[i].odd /\ file[i].ch = c /\ (file[i].rate <=> file[i].n > 0)
    BY DEF OneChannel, Clean
  <2>2. Elems(nums) = 1 .. Len(f)
    BY <1>1, <1>2, <2>1
  <2>3. 1 \in Elems(nums)
    BY <1>2, <1>3, <2>2
  <2>4. First(nums) = 1
    BY <1>4, <2>2, <2>3
  <2>5. s = file[1].s /\ file[1].rate /\ 1 \in DOMAIN file
    BY <1>2, <2>2, <2>3, <2>4
  <2>6. file[1].n > 0 /\ 1 .. 1 - 1 = {}
    BY <2>1, <2>5
  <2> QED BY <1>2, <2>5, <2>6 DEF StartsAt
<1> HIDE DEF t, s, set, some
<1>9. /\ t.type = "MSEED_DATA" /\ t.ch = c /\ t.s = s /\ t.blk = 0 /\ t.set = set
      /\ t.pk = <<>> /\ t.some = some /\ t.cut = None /\ t.data = None /\ t.seen = 0
  BY <1>5, <1>7
<1>10. IsTrace(t)
  BY <1>5, <1>7, <1>9 DEF IsTrace
<1>11. 0 \in 0 .. Len(file)
  BY DEF Begins
<1>12. Sound(t)
  BY <1>6, <1>9, <1>10, <1>11 DEF Sound
<1>13. StartKnown(t)
  BY <1>8, <1>9 DEF StartKnown
<1>14. Known(t)
  BY <1>9, <1>12, <1>13 DEF Known
<1> QED BY <1>14 DEF t, s, set

LEMMA HeadersKnown ==
    ASSUME NEW f, Begins(f), Channels(f) # <<>>
    PROVE  AllKnown(get_mseed_hedrM(f))
<1>1. CASE Len(Channels(f)) = 1
  <2> DEFINE c == Channels(f)[1]
             nums == Index(f, c)
             t == Header("MSEED_DATA", f, nums, f[First(nums)].s, 0, f[First(nums)].rate)
  <2>1. get_mseed_hedrM(f) = <<t>>
    BY <1>1 DEF get_mseed_hedrM
  <2>2. \E i \in DOMAIN f : ~f[i].odd /\ f[i].ch = c
    <3>1. Channels(f) \in Seq({f[i].ch : i \in DOMAIN f})
      BY ChannelsAre DEF Begins
    <3>2. 1 \in DOMAIN Channels(f)
      BY <1>1, <3>1
    <3> QED BY <3>2, ChannelsAre DEF Begins
  <2> HIDE DEF c
  <2>3. Known(t)
    BY <2>2, SingleHeader
  <2> HIDE DEF t
  <2> DEFINE S == {t}
  <2>4. <<t>> \in Seq(S) /\ \A u \in S : Known(u)
    BY <2>3
  <2> HIDE DEF S
  <2>5. AllKnown(<<t>>)
    BY <2>4, AllKnownIf
  <2> QED BY <2>1, <2>5
<1>2. CASE Len(Channels(f)) # 1
  BY <1>2, TracesKnown DEF get_mseed_hedrM
<1> QED BY <1>1, <1>2

LEMMA ElementsOf ==
    ASSUME NEW S, NEW s \in Seq(S)
    PROVE  s \in Seq(Elems(s)) /\ Elems(s) \subseteq S
<1>1. DOMAIN s = 1 .. Len(s) /\ Len(s) \in Nat /\ \A k \in 1 .. Len(s) : s[k] \in S
  OBVIOUS
<1>2. \A k \in 1 .. Len(s) : s[k] \in Elems(s)
  BY <1>1 DEF Elems
<1>3. s \in [1 .. Len(s) -> Elems(s)]
  BY <1>1, <1>2
<1>4. Elems(s) \subseteq S
  BY <1>1 DEF Elems
<1>5. s \in Seq(Elems(s))
  BY <1>1, <1>3
<1> QED BY <1>4, <1>5

-----------------------------------------------------------------------------
(* The invariant.                                                          *)

Consistent ==
    /\ use \in DOMAIN Uses /\ shots \in Uses[use].shots
    /\ file \in Seq(Uses[use].packets) /\ cache \in 0 .. Len(file)
    /\ trs # <<>> => file # <<>>
    /\ AllKnown(trs)

\* What the assumptions say of the explored inputs.
LEMMA Explored ==
    ASSUME Consistent
    PROVE  Packets(file) /\ shots \in Seq(Nat) /\ \A p \in Uses[use].packets : Packet(p)
<1>1. /\ \A p \in Uses[use].packets : Packet(p)
      /\ shots \in Seq(Nat)
  BY UsesAssumption DEF Consistent
<1>2. \A k \in DOMAIN file : file[k] \in Uses[use].packets
  BY DEF Consistent
<1> QED BY <1>1, <1>2 DEF Packets

LEMMA StepKnown ==
    ASSUME Consistent, file' = file, NEW list, AllKnown(list)
    PROVE  AllKnown(list)'
<1>1. \A t \in Elems(list) : Known(t)'
  BY KnownUnchanged DEF AllKnown
<1> QED BY <1>1 DEF AllKnown, Elems

LEMMA InitConsistent == Init => Consistent
<1> SUFFICES ASSUME Init PROVE Consistent
  OBVIOUS
<1>1. AllKnown(trs)
  BY NoneKnown DEF Init
<1>2. file \in Seq(Uses[use].packets) /\ cache \in 0 .. Len(file)
  BY DEF Init
<1> QED BY <1>1, <1>2 DEF Init, Consistent

LEMMA ArriveConsistent == Consistent /\ Arrive => Consistent'
<1> SUFFICES ASSUME Consistent, Arrive PROVE Consistent'
  OBVIOUS
<1>1. PICK p \in Uses[use].packets : file' = Append(file, p)
  BY DEF Arrive
<1>2. use' = use /\ shots' = shots /\ cache' = cache /\ trs' = trs
  BY DEF Arrive
<1>3. file' \in Seq(Uses[use].packets) /\ cache \in 0 .. Len(file') /\ file' # <<>>
  BY <1>1 DEF Consistent
<1>4. \A t \in Elems(trs) : Known(t)'
  BY <1>1, Explored, StillKnown DEF Consistent, AllKnown
<1>5. AllKnown(trs)'
  BY <1>2, <1>4 DEF AllKnown, Consistent, Elems
<1> QED BY <1>2, <1>3, <1>5 DEF Consistent

LEMMA OpenConsistent == Consistent /\ Open => Consistent'
<1> SUFFICES ASSUME Consistent, Open PROVE Consistent'
  OBVIOUS
<1> DEFINE f == index_mplex
           headers == get_mseed_hedrM(f)
<1>1. /\ use' = use /\ shots' = shots /\ file' = file /\ Channels(f) # <<>> /\ file # <<>>
      /\ cache' = (IF Len(Channels(f)) > 1 THEN Len(f) ELSE cache)
      /\ trs' = (IF shots = <<>> THEN headers ELSE CutUp(headers))
  BY DEF Open
<1>2. Begins(f)
  BY Explored, IndexedFile DEF Consistent
<1> HIDE DEF f
<1>3. AllKnown(headers)
  BY <1>1, <1>2, HeadersKnown
<1> HIDE DEF headers
<1>4. AllKnown(CutUp(headers))
  BY <1>1, <1>3, Explored, CutUpKnown DEF Consistent
<1>5. AllKnown(IF shots = <<>> THEN headers ELSE CutUp(headers))
  BY <1>3, <1>4
<1> DEFINE list == IF shots = <<>> THEN headers ELSE CutUp(headers)
<1>6. list \in Seq(Elems(list)) /\ \A t \in Elems(list) : Known(t)'
  BY <1>1, <1>5, KnownUnchanged DEF AllKnown
<1>7. trs' = list
  BY <1>1
<1> HIDE DEF list
<1>8. AllKnown(trs)'
  BY <1>6, <1>7 DEF AllKnown, Elems
<1>9. cache' \in 0 .. Len(file)
  <2>1. Len(f) \in 0 .. Len(file)
    BY <1>2 DEF Begins
  <2> QED BY <1>1, <2>1 DEF Consistent
<1> QED BY <1>1, <1>8, <1>9 DEF Consistent

\* Reading a trace, freeing its data and removing it.
LEMMA ReplacedKnown ==
    ASSUME Consistent, file' = file, NEW i \in DOMAIN trs, NEW t, Known(t), trs' = [trs EXCEPT ![i] = t]
    PROVE  AllKnown(trs)'
<1> DEFINE S == Elems(trs) \cup {t}
<1>1. \A u \in S : Known(u)'
  BY KnownUnchanged DEF Consistent, AllKnown
<1>2. trs \in Seq(S)
  BY DEF Consistent, AllKnown
<1> HIDE DEF S
<1>3. t \in S
  BY DEF S
<1>4. trs' \in Seq(S)
  BY <1>2, <1>3
<1>5. trs' \in Seq(Elems(trs')) /\ Elems(trs') \subseteq S
  BY <1>4, ElementsOf
<1>6. \A u \in Elems(trs') : Known(u)'
  BY <1>1, <1>5
<1>7. Elems(trs)' = Elems(trs')
  BY DEF Elems
<1> QED BY <1>5, <1>6, <1>7 DEF AllKnown

LEMMA ReadDataConsistent ==
    ASSUME Consistent, NEW i \in DOMAIN trs, ReadData(i)
    PROVE  Consistent'
<1> DEFINE t == readTrace(trs[i])
<1>1. /\ use' = use /\ shots' = shots /\ file' = file /\ cache' = cache
      /\ trs' = IF t.data.data = <<>> THEN RemoveAt(trs, i) ELSE [trs EXCEPT ![i] = t]
  BY DEF ReadData
<1>2. Known(trs[i]) /\ trs \in Seq(Elems(trs)) /\ file # <<>>
  BY DEF Consistent, AllKnown, Elems
<1>3. AllKnown(trs)'
  <2>1. CASE t.data.data = <<>>
    <3>1. trs' \in Seq(Elems(trs))
      BY <1>1, <1>2, <2>1, RemovedFrom
    <3>2. \A u \in Elems(trs) : Known(u)'
      BY <1>1, KnownUnchanged DEF Consistent, AllKnown
    <3>3. trs' \in Seq(Elems(trs')) /\ Elems(trs') \subseteq Elems(trs)
      BY <3>1, ElementsOf
    <3>4. Elems(trs)' = Elems(trs')
      BY DEF Elems
    <3> QED BY <3>2, <3>3, <3>4 DEF AllKnown
  <2>2. CASE t.data.data # <<>>
    <3>1. Known(t)
      BY <1>2, <2>2, Explored, ReadRight DEF Consistent, Known
    <3>2. trs' = [trs EXCEPT ![i] = t]
      BY <1>1, <2>2
    <3> HIDE DEF t
    <3> QED BY <1>1, <3>1, <3>2, ReplacedKnown
  <2> QED BY <2>1, <2>2
<1> QED BY <1>1, <1>2, <1>3 DEF Consistent

LEMMA FreeDataConsistent ==
    ASSUME Consistent, NEW i \in DOMAIN trs, FreeData(i)
    PROVE  Consistent'
<1> DEFINE t == Freed(trs[i])
<1>1. use' = use /\ shots' = shots /\ file' = file /\ cache' = cache /\ trs' = [trs EXCEPT ![i] = t]
  BY DEF FreeData
<1>2. Known(trs[i]) /\ file # <<>>
  BY DEF Consistent, AllKnown, Elems
<1>3. Known(t)
  BY <1>2, FreedKnown DEF Known
<1> HIDE DEF t
<1>4. AllKnown(trs)'
  BY <1>1, <1>3, ReplacedKnown
<1> QED BY <1>1, <1>2, <1>4 DEF Consistent

LEMMA CloseConsistent == Consistent /\ Close => Consistent'
<1> SUFFICES ASSUME Consistent, Close PROVE Consistent'
  OBVIOUS
<1>1. use' = use /\ shots' = shots /\ file' = file /\ cache' = cache /\ trs' = <<>>
  BY DEF Close
<1>2. AllKnown(trs)'
  BY <1>1 DEF AllKnown, Elems
<1> QED BY <1>1, <1>2 DEF Consistent

\* Whatever arrives in the file and is opened, read, freed or closed (the handlers of
\* readHdr_2, readTrace and kill_all_traces), the invariant stays.
THEOREM ConsistentAlways == Spec => []Consistent
<1>1. Consistent /\ [Next]_vars => Consistent'
  <2> SUFFICES ASSUME Consistent, [Next]_vars PROVE Consistent'
    OBVIOUS
  <2>1. CASE Arrive
    BY <2>1, ArriveConsistent
  <2>2. CASE Open
    BY <2>2, OpenConsistent
  <2>3. CASE Close
    BY <2>3, CloseConsistent
  <2>4. ASSUME NEW i \in DOMAIN trs, ReadData(i) PROVE Consistent'
    BY <2>4, ReadDataConsistent
  <2>5. ASSUME NEW i \in DOMAIN trs, FreeData(i) PROVE Consistent'
    BY <2>5, FreeDataConsistent
  <2>6. CASE UNCHANGED vars
    <3>1. use' = use /\ shots' = shots /\ file' = file /\ cache' = cache /\ trs' = trs
      BY <2>6 DEF vars
    <3>2. \A t \in Elems(trs) : Known(t)'
      BY <3>1, KnownUnchanged DEF Consistent, AllKnown
    <3>3. AllKnown(trs)'
      BY <3>1, <3>2 DEF Consistent, AllKnown, Elems
    <3> QED BY <3>1, <3>3 DEF Consistent
  <2> QED BY <2>1, <2>2, <2>3, <2>4, <2>5, <2>6 DEF Next
<1> QED BY InitConsistent, <1>1, PTL DEF Spec

\* A trace that was read is right.
LEMMA ReadAreRight ==
    ASSUME Consistent, NEW t \in ReadTraces
    PROVE  Right(t)
BY DEF ReadTraces, Consistent, AllKnown, Known, Elems

\* For any sampling interval, packets, options and shot times: every sample that is read
\* (get_mseed_data, get_mseed_trace, trace_excerpt) stands where its time says.
THEOREM InPlaceAlways == Spec => []InPlace
<1>1. Consistent => InPlace
  <2> SUFFICES ASSUME Consistent PROVE InPlace
    OBVIOUS
  <2>1. ASSUME NEW t \in ReadTraces, Regular(t), t.cut = None \/ ~t.data.fast
        PROVE  \A k \in DOMAIN t.data.data : t.data.data[k] \in {Zero, t.s + (k - 1) * One}
    BY <2>1, ReadAreRight DEF Right, InPlaceOf
  <2>2. ASSUME NEW t \in Uncut, Regular(t), NEW o \in Elems(t.data.olaps)
        PROVE  /\ 0 <= o.from /\ o.from + Len(o.d) <= Len(t.data.data)
               /\ \A k \in DOMAIN o.d : o.d[k] = t.s + (o.from + k - 1) * One
    <3>1. t \in ReadTraces /\ t.cut = None
      BY DEF Uncut
    <3> QED BY <2>2, <3>1, ReadAreRight DEF Right, LaidOf
  <2> QED BY <2>1, <2>2 DEF InPlace
<1> QED BY ConsistentAlways, <1>1, PTL

\* The gaps that get_mseed_trace marks are the entries without data, and the file has no
\* sample for a time in them.
THEOREM GapsExactAlways == Spec => []GapsExact
<1>1. Consistent => GapsExact
  <2> SUFFICES ASSUME Consistent PROVE GapsExact
    OBVIOUS
  <2>1. ASSUME NEW t \in Uncut, Regular(t)
        PROVE  GapsOf(t)
    <3>1. t \in ReadTraces /\ t.cut = None
      BY DEF Uncut
    <3> QED BY <2>1, <3>1, ReadAreRight DEF Right
  <2> QED BY <2>1 DEF GapsExact, GapsOf
<1> QED BY ConsistentAlways, <1>1, PTL

\* data_mseed.c:1098: a file that get_mseed_data reads packet by packet gives the
\* data its trace groups would.
THEOREM FastIsSlowAlways == Spec => []FastIsSlow
<1>1. Consistent => FastIsSlow
  <2> SUFFICES ASSUME Consistent PROVE FastIsSlow
    OBVIOUS
  <2>1. ASSUME NEW t \in Uncut, Regular(t)
        PROVE  AsGroups(t)
    <3>1. t \in ReadTraces /\ t.cut = None
      BY DEF Uncut
    <3> QED BY <2>1, <3>1, ReadAreRight DEF Right
  <2> QED BY <2>1 DEF FastIsSlow, AsGroups
<1> QED BY ConsistentAlways, <1>1, PTL

-----------------------------------------------------------------------------
(* The log.                                                                *)

\* The next packet of the log is sought, but not at offset 0.
NextLog(f, a, i) ==
    [pos |-> (IF blkSize(f) * (i - 1) = 0 THEN a.pos ELSE i) + 1,
     got |-> Append(a.got, IF blkSize(f) * (i - 1) = 0 THEN a.pos ELSE i)]

NoLog == [pos |-> 1, got |-> <<>>]

LEMMA NextLogTypes ==
    ASSUME NEW f, f \in Seq(Elems(f)), NEW a \in [pos : Nat, got : Seq(Nat)], NEW i \in DOMAIN f
    PROVE  NextLog(f, a, i) \in [pos : Nat, got : Seq(Nat)]
<1> DEFINE at == IF blkSize(f) * (i - 1) = 0 THEN a.pos ELSE i
<1>1. i \in Nat /\ a.pos \in Nat
  OBVIOUS
<1>2. at \in Nat
  BY <1>1
<1>3. NextLog(f, a, i) = [pos |-> at + 1, got |-> Append(a.got, at)]
  BY DEF NextLog
<1> HIDE DEF at
<1> QED BY <1>2, <1>3

\* The packets of the log one after another.
LEMMA LogsRun ==
    ASSUME NEW f, f \in Seq(Elems(f)), NEW list \in Seq(DOMAIN f), list = LogPackets(f), Len(Channels(f)) > 1
    PROVE  \E r : /\ r[0] = NoLog
                  /\ \A k \in 1 .. Len(list) : r[k] = NextLog(f, r[k - 1], list[k])
                  /\ makeLogs(f) = r[Len(list)].got
<1> DEFINE N == Len(list)
           V == [pos : Nat, got : Seq(Nat)]
           D == DOMAIN f
           F == [z \in V \X D |-> NextLog(f, z[1], z[2])]
           IsIt(h) == h = [S \in SUBSET (1 .. N) |->
                             IF S = {} THEN NoLog ELSE NextLog(f, h[S \ {Max(S)}], list[Max(S)])]
           it == CHOOSE h : IsIt(h)
<1>1. N \in Nat /\ DOMAIN list = 1 .. N /\ list \in Seq(D) /\ Len(list) = N
  OBVIOUS
<1>2. \A v \in V, x \in D : NextLog(f, v, x) \in V
  BY NextLogTypes
<1>3. F \in [V \X D -> V] /\ NoLog \in V
  <2>1. ASSUME NEW z \in V \X D PROVE NextLog(f, z[1], z[2]) \in V
    <3> HIDE DEF V, D
    <3>1. z[1] \in V /\ z[2] \in D /\ z = <<z[1], z[2]>>
      OBVIOUS
    <3> QED BY <1>2, <3>1
  <2>2. NoLog \in V
    BY DEF NoLog
  <2> QED BY <2>1, <2>2
<1>4. makeLogs(f) = it[1 .. N].got
  BY <1>1 DEF makeLogs, NextLog, NoLog, FoldLeft, MapThenFoldSet
<1> HIDE DEF N, V, D, it
<1>5. PICK h : IsFold(h, F, NoLog, list, N) /\ h \in [SUBSET (1 .. N) -> V]
  <2> HIDE DEF F
  <2> QED BY <1>1, <1>3, FoldExists
<1>6. ASSUME NEW S \in SUBSET (1 .. N), S # {}
      PROVE  F[<<h[S \ {Max(S)}], list[Max(S)]>>] = NextLog(f, h[S \ {Max(S)}], list[Max(S)])
  <2>1. Max(S) \in S
    BY <1>1, <1>6, LargestExists
  <2>2. Max(S) \in DOMAIN list /\ S \ {Max(S)} \in SUBSET (1 .. N)
    BY <1>1, <2>1
  <2>3. list[Max(S)] \in D
    BY <1>1, <2>2
  <2>4. h[S \ {Max(S)}] \in V
    BY <1>5, <2>2
  <2> QED BY <2>3, <2>4
<1> HIDE DEF F
<1>7. IsIt(h)
  BY <1>5, <1>6 DEF IsFold
<1>8. IsIt(it)
  BY <1>7 DEF it
<1> DEFINE r == [k \in 0 .. N |-> it[1 .. k]]
<1>9. r[0] = NoLog
  <2>1. 1 .. 0 = {} /\ 0 \in 0 .. N
    BY <1>1
  <2> QED BY <1>8, <2>1
<1>10. ASSUME NEW k \in 1 .. N PROVE r[k] = NextLog(f, r[k - 1], list[k])
  <2>1. k \in Nat /\ k # 0 /\ k - 1 \in 0 .. N /\ k \in 0 .. N /\ 1 .. k \in SUBSET (1 .. N)
    BY <1>1
  <2>2. 1 .. k # {} /\ Max(1 .. k) = k /\ (1 .. k) \ {k} = 1 .. k - 1
    BY <2>1, FoldPrefix
  <2> QED BY <1>8, <2>1, <2>2
<1>11. N \in 0 .. N
  BY <1>1
<1>12. makeLogs(f) = r[N].got
  BY <1>4, <1>11
<1> HIDE DEF r
<1> QED BY <1>9, <1>10, <1>12 DEF N

\* The log shows packet numbers.
LEMMA LogTypes ==
    ASSUME NEW f, f \in Seq(Elems(f)), Packets(f)
    PROVE  makeLogs(f) \in Seq(Nat)
<1>1. CASE Len(Channels(f)) > 1
  <2> DEFINE list == LogPackets(f)
             N == Len(list)
             V == [pos : Nat, got : Seq(Nat)]
  <2>1. list \in Seq(DOMAIN f)
    BY IndexIs DEF LogPackets
  <2> HIDE DEF list
  <2>2. N \in Nat /\ \A k \in 1 .. N : list[k] \in DOMAIN f
    BY <2>1
  <2>3. PICK r : /\ r[0] = NoLog
                 /\ \A k \in 1 .. N : r[k] = NextLog(f, r[k - 1], list[k])
                 /\ makeLogs(f) = r[N].got
    BY <1>1, <2>1, LogsRun DEF list
  <2> DEFINE Q == {k \in Nat : k <= N => r[k] \in V}
  <2>4. 0 \in Q
    <3>1. 1 \in Nat /\ <<>> \in Seq(Nat)
      OBVIOUS
    <3>2. r[0] \in V
      BY <2>3, <3>1 DEF NoLog
    <3> HIDE DEF V
    <3> QED BY <3>2
  <2>5. ASSUME NEW k \in Q PROVE k + 1 \in Q
    <3> SUFFICES ASSUME k + 1 <= N PROVE r[k + 1] \in V
      OBVIOUS
    <3>1. k \in Nat /\ r[k] \in V /\ k + 1 \in 1 .. N /\ (k + 1) - 1 = k
      BY <2>2
    <3> HIDE DEF V, Q
    <3>2. r[k + 1] = NextLog(f, r[k], list[k + 1]) /\ list[k + 1] \in DOMAIN f
      BY <2>2, <2>3, <3>1
    <3> QED BY <3>1, <3>2, NextLogTypes DEF V
  <2> HIDE DEF V, Q
  <2>6. Q \in SUBSET Nat
    BY DEF Q
  <2>7. Q = Nat
    BY <2>4, <2>5, <2>6, SetInduction
  <2>8. r[N] \in V
    BY <2>2, <2>7 DEF Q
  <2> QED BY <2>3, <2>8 DEF V
<1>2. CASE ~(Len(Channels(f)) > 1)
  <2>1. makeLogs(f) = <<>>
    BY <1>2 DEF makeLogs
  <2> QED BY <2>1
<1> QED BY <1>1, <1>2

LEMMA BlockLength ==
    ASSUME NEW f, f \in Seq(Elems(f)), Packets(f), f # <<>>
    PROVE  blkSize(f) \in Nat
<1>1. 1 \in DOMAIN f
  OBVIOUS
<1>2. f[1].len \in Nat
  BY <1>1 DEF Packets, Packet
<1> QED BY <1>2 DEF blkSize

\* The first packet of the file is not sought, but is the first of the log.
EarliestFirst(f) ==
    LET logs == {i \in DOMAIN f : f[i].ch = "LOG" /\ ~f[i].odd}
    IN  1 \in logs => \A i \in logs : f[1].s < f[i].s \/ i = 1

LEMMA LogIs ==
    ASSUME NEW f, f \in Seq(Elems(f)), Packets(f), makeLogs(f) # <<>>, blkSize(f) # 0, EarliestFirst(f)
    PROVE  makeLogs(f) = Index(f, "LOG")
<1> DEFINE list == Index(f, "LOG")
           N == Len(list)
           logs == {i \in DOMAIN f : f[i].ch = "LOG" /\ ~f[i].odd}
<1>1. /\ list \in Seq(DOMAIN f) /\ Elems(list) = logs /\ Distinct(list)
      /\ \A m, n \in 1 .. N : m < n => f[list[m]].s <= f[list[n]].s
  BY IndexIs
<1>2. list = LogPackets(f)
  BY DEF LogPackets
<1>3. Len(Channels(f)) > 1
  BY DEF makeLogs
<1>4. 1 \in logs => \A i \in logs : f[1].s < f[i].s \/ i = 1
  BY DEF EarliestFirst
<1>5. \A i \in DOMAIN f : f[i].s \in Nat
  BY PacketTypes DEF Packets
<1> HIDE DEF list, logs
<1>6. PICK r : /\ r[0] = NoLog
               /\ \A k \in 1 .. N : r[k] = NextLog(f, r[k - 1], list[k])
               /\ makeLogs(f) = r[N].got
  BY <1>1, <1>2, <1>3, LogsRun
<1>7. N \in Nat /\ DOMAIN list = 1 .. N /\ \A k \in 1 .. N : list[k] \in logs /\ list[k] \in DOMAIN f
  BY <1>1 DEF Elems
<1>8. ASSUME NEW k \in 1 .. N, list[k] = 1 PROVE k = 1
  <2> SUFFICES ASSUME k # 1 PROVE FALSE
    OBVIOUS
  <2>1. 1 \in 1 .. N /\ 1 < k
    BY <1>7
  <2>2. f[list[1]].s <= f[1].s
    BY <1>1, <1>8, <2>1
  <2>3. list[1] # 1
    BY <1>1, <1>7, <1>8, <2>1 DEF Distinct
  <2>4. f[1].s < f[list[1]].s
    BY <1>4, <1>7, <1>8, <2>1, <2>3
  <2>5. f[1].s \in Nat /\ f[list[1]].s \in Nat
    BY <1>5, <1>7, <1>8, <2>1
  <2> QED BY <2>2, <2>4, <2>5
<1> DEFINE P(k) == r[k].got = SubSeq(list, 1, k) /\ (k = 0 => r[k].pos = 1)
           Q == {k \in Nat : k <= N => P(k)}
<1>9. P(0)
  <2>1. SubSeq(list, 1, 0) = <<>>
    BY <1>1
  <2> QED BY <1>6, <2>1 DEF NoLog
<1>10. ASSUME NEW k \in Nat, k + 1 <= N, P(k) PROVE P(k + 1)
  <2> DEFINE i == list[k + 1]
             at == IF blkSize(f) * (i - 1) = 0 THEN r[k].pos ELSE i
  <2>1. k + 1 \in 1 .. N /\ (k + 1) - 1 = k /\ k + 1 # 0
    BY <1>7, <1>10
  <2>2. r[k + 1] = [pos |-> at + 1, got |-> Append(r[k].got, at)]
    BY <1>6, <2>1 DEF NextLog
  <2>3. i \in DOMAIN f /\ i \in Nat /\ i # 0
    BY <1>7, <2>1
  <2> HIDE DEF i
  <2>4. at = i
    <3>1. CASE i = 1
      <4>1. k = 0
        BY <1>8, <2>1, <3>1 DEF i
      <4>2. r[k].pos = 1
        BY <1>10, <4>1
      <4> QED BY <3>1, <4>2
    <3>2. CASE i # 1
      <4>1. f # <<>>
        BY <2>3
      <4>2. blkSize(f) \in Nat
        BY <4>1, BlockLength
      <4> DEFINE b == blkSize(f)  j == i - 1
      <4>3. b \in Nat /\ b # 0 /\ j \in Nat /\ j # 0
        BY <2>3, <3>2, <4>2
      <4> HIDE DEF b, j
      <4>4. b * j # 0
        BY <4>3
      <4> QED BY <4>4 DEF b, j
    <3> QED BY <3>1, <3>2
  <2> HIDE DEF at
  <2>5. r[k + 1].got = Append(SubSeq(list, 1, k), list[k + 1])
    BY <1>10, <2>2, <2>4 DEF i
  <2>6. Append(SubSeq(list, 1, k), list[k + 1]) = SubSeq(list, 1, k + 1)
    BY <1>1, <1>7, <2>1
  <2> QED BY <2>1, <2>5, <2>6
<1> HIDE DEF P
<1>11. Q = Nat
  <2>1. 0 \in Q
    BY <1>9
  <2>2. \A k \in Q : k + 1 \in Q
    BY <1>7, <1>10
  <2> HIDE DEF Q
  <2>3. Q \in SUBSET Nat
    BY DEF Q
  <2> QED BY <2>1, <2>2, <2>3, SetInduction
<1>12. P(N)
  BY <1>7, <1>11
<1>13. SubSeq(list, 1, N) = list
  BY <1>1
<1> QED BY <1>6, <1>12, <1>13 DEF P, list

\* What the log shows was made of the index.
LogMade == log # <<>> => cache \in 1 .. Len(file) /\ log = makeLogs(SubSeq(file, 1, cache))

LEMMA LogMadeSteps == Consistent /\ LogMade /\ [Next]_vars => LogMade'
<1> SUFFICES ASSUME Consistent, LogMade, [Next]_vars PROVE LogMade'
  OBVIOUS
<1>0. file \in Seq(Uses[use].packets) /\ Len(file) \in Nat /\ cache \in 0 .. Len(file)
  BY DEF Consistent
<1>1. ASSUME file' = file, cache' = cache, log' = log \/ log' = <<>> PROVE LogMade'
  BY <1>1 DEF LogMade
<1>2. CASE Arrive
  <2>1. PICK p \in Uses[use].packets : file' = Append(file, p)
    BY <1>2 DEF Arrive
  <2>2. cache' = cache /\ log' = log
    BY <1>2 DEF Arrive
  <2>3. ASSUME cache \in 1 .. Len(file) PROVE SubSeq(file', 1, cache) = SubSeq(file, 1, cache)
    BY <1>0, <2>1, <2>3
  <2>4. cache \in 1 .. Len(file) => cache \in 1 .. Len(file')
    BY <1>0, <2>1
  <2> QED BY <2>2, <2>3, <2>4 DEF LogMade
<1>3. CASE Open
  <2> DEFINE f == index_mplex
  <2>1. /\ file' = file /\ (log' = <<>> \/ log' = makeLogs(f))
        /\ cache' = (IF Len(Channels(f)) > 1 THEN Len(f) ELSE cache) /\ file # <<>>
    BY <1>3 DEF Open
  <2>2. Len(f) \in 1 .. Len(file) /\ SubSeq(file, 1, Len(f)) = f
    <3>1. CASE cache = 0
      <4>1. f = file
        BY <3>1 DEF index_mplex
      <4> HIDE DEF f
      <4> QED BY <1>0, <2>1, <4>1
    <3>2. CASE cache # 0
      <4>1. f = SubSeq(file, 1, cache)
        BY <3>2 DEF index_mplex
      <4> HIDE DEF f
      <4>2. Len(f) = cache
        BY <1>0, <3>2, <4>1
      <4> QED BY <1>0, <3>2, <4>1, <4>2
    <3> QED BY <3>1, <3>2
  <2> HIDE DEF f
  <2>3. ASSUME log' # <<>> PROVE log' = makeLogs(f) /\ cache' = Len(f)
    <3>1. log' = makeLogs(f)
      BY <2>1, <2>3
    <3>2. Len(Channels(f)) > 1
      BY <2>3, <3>1 DEF makeLogs
    <3> QED BY <2>1, <3>1, <3>2
  <2>4. ASSUME log' # <<>> PROVE cache' \in 1 .. Len(file') /\ log' = makeLogs(SubSeq(file', 1, cache'))
    <3>1. file' = file /\ cache' = Len(f) /\ log' = makeLogs(f)
      BY <2>1, <2>3, <2>4
    <3>2. cache' \in 1 .. Len(file')
      BY <2>2, <3>1
    <3>3. SubSeq(file', 1, cache') = f
      BY <2>2, <3>1
    <3> QED BY <3>1, <3>2, <3>3
  <2> QED BY <2>4 DEF LogMade
<1>4. CASE Close
  BY <1>1, <1>4 DEF Close
<1>5. ASSUME NEW i \in DOMAIN trs, ReadData(i) \/ FreeData(i) PROVE LogMade'
  BY <1>1, <1>5 DEF ReadData, FreeData
<1>6. CASE UNCHANGED vars
  BY <1>1, <1>6 DEF vars
<1> QED BY <1>2, <1>3, <1>4, <1>5, <1>6 DEF Next

LEMMA LogMadeAlways == Spec => []LogMade
<1>1. Init => LogMade
  BY DEF Init, LogMade
<1>2. Consistent /\ LogMade /\ [Next]_vars => LogMade'
  BY LogMadeSteps
<1> QED BY <1>1, <1>2, ConsistentAlways, PTL DEF Spec

\* makeLogs shows each packet of the log once, in order of time.
THEOREM LogInOrderAlways == Spec => []LogInOrder
<1>1. Consistent /\ LogMade => LogInOrder
  <2> SUFFICES ASSUME Consistent, LogMade PROVE LogInOrder
    OBVIOUS
  <2> DEFINE f == SubSeq(file, 1, cache)
             logs == {i \in DOMAIN f : f[i].ch = "LOG" /\ ~f[i].odd}
  <2> SUFFICES ASSUME log # <<>>, blkSize(f) # 0, 1 \in logs => \A i \in logs : f[1].s < f[i].s \/ i = 1
               PROVE  /\ Elems(log) = logs /\ Len(log) = Cardinality(logs)
                      /\ \A i, j \in DOMAIN log : i < j => f[log[i]].s <= f[log[j]].s
    BY DEF LogInOrder
  <2>1. cache \in 1 .. Len(file) /\ log = makeLogs(f)
    BY DEF LogMade
  <2>2. f = index_mplex
    BY <2>1 DEF index_mplex
  <2>3. EarliestFirst(f)
    BY DEF EarliestFirst
  <2> HIDE DEF f
  <2>4. Packets(f) /\ f \in Seq(Elems(f))
    BY <2>2, Explored, IndexedFile DEF Consistent, Begins
  <2>5. log = Index(f, "LOG")
    BY <2>1, <2>3, <2>4, LogIs
  <2>6. /\ Index(f, "LOG") \in Seq(DOMAIN f) /\ Elems(Index(f, "LOG")) = logs /\ Distinct(Index(f, "LOG"))
        /\ \A m, n \in 1 .. Len(Index(f, "LOG")) : m < n => f[Index(f, "LOG")[m]].s <= f[Index(f, "LOG")[n]].s
    BY <2>4, IndexIs
  <2>7. /\ log \in Seq(DOMAIN f) /\ Elems(log) = logs /\ Distinct(log)
        /\ \A m, n \in 1 .. Len(log) : m < n => f[log[m]].s <= f[log[n]].s
    BY <2>5, <2>6
  <2> HIDE DEF logs
  <2>8. Len(log) = Cardinality(logs)
    BY <2>7, DistinctLength
  <2> QED BY <2>7, <2>8
<1> QED BY <1>1, ConsistentAlways, LogMadeAlways, PTL

-----------------------------------------------------------------------------
(* How the packets are shared out among the traces.                        *)

\* The start of a window, and the packets in the windows.
FirstTime(f, nums) == f[nums[1]].s
Held(acc) == UNION {Elems(acc[w]) : w \in DOMAIN acc}

\* A window has its packets within the length from its first, and each window
\* begins after the packets of those before it.
WindowOf(f, nums) ==
    /\ nums # <<>>
    /\ \A i \in Elems(nums) :
          /\ FirstTime(f, nums) <= f[i].s
          /\ opts.length # 0 => f[i].s < FirstTime(f, nums) + opts.length
InSequence(f, acc) ==
    \A v, w \in DOMAIN acc : v < w => \A i \in Elems(acc[v]) : f[i].s < FirstTime(f, acc[w])
Cut(f, acc) ==
    /\ acc \in Seq(Seq(DOMAIN f))
    /\ \A w \in DOMAIN acc : WindowOf(f, acc[w])
    /\ InSequence(f, acc)

\* What appending does to the elements and to the first of them.
LEMMA AppendElements ==
    ASSUME NEW S, NEW s \in Seq(S), NEW x \in S
    PROVE  /\ Append(s, x) \in Seq(S) /\ Append(s, x) # <<>>
           /\ DOMAIN Append(s, x) = 1 .. Len(s) + 1 /\ DOMAIN s = 1 .. Len(s) /\ Len(s) \in Nat
           /\ Append(s, x)[Len(s) + 1] = x
           /\ \A k \in 1 .. Len(s) : Append(s, x)[k] = s[k]
           /\ Elems(Append(s, x)) = Elems(s) \cup {x}
           /\ s # <<>> => Append(s, x)[1] = s[1] /\ s[1] \in Elems(s)
<1> DEFINE r == Append(s, x)
           N == Len(s)
<1>1. N \in Nat /\ DOMAIN s = 1 .. N /\ \A k \in 1 .. N : s[k] \in S
  OBVIOUS
<1>2. /\ r \in Seq(S) /\ Len(r) = N + 1 /\ DOMAIN r = 1 .. N + 1 /\ r # <<>>
      /\ r[N + 1] = x /\ \A k \in 1 .. N : r[k] = s[k]
  OBVIOUS
<1> HIDE DEF r, N
<1>3. Elems(r) = Elems(s) \cup {x}
  <2>1. N + 1 \in DOMAIN r /\ \A k \in 1 .. N : k \in DOMAIN r
    BY <1>1, <1>2
  <2>2. \A k \in DOMAIN r : k \in 1 .. N \/ k = N + 1
    BY <1>1, <1>2
  <2> QED BY <1>1, <1>2, <2>1, <2>2 DEF Elems
<1>4. s # <<>> => 1 \in 1 .. N
  BY DEF N
<1>5. s # <<>> => r[1] = s[1] /\ s[1] \in Elems(s)
  BY <1>1, <1>2, <1>4 DEF Elems
<1> QED BY <1>1, <1>2, <1>3, <1>5 DEF r, N

\* A window of one packet, and a window with one packet more.
LEMMA WindowGrows ==
    ASSUME NEW f, Packets(f), opts.length \in Nat, NEW nums \in Seq(DOMAIN f), NEW i \in DOMAIN f,
           nums # <<>> => WindowOf(f, nums) /\ FirstTime(f, nums) <= f[i].s /\ ~Breached(f, i, FirstTime(f, nums))
    PROVE  /\ WindowOf(f, Append(nums, i))
           /\ FirstTime(f, Append(nums, i)) = IF nums = <<>> THEN f[i].s ELSE FirstTime(f, nums)
<1> DEFINE more == Append(nums, i)
           L == opts.length
<1>1. f[i].s \in Nat /\ \A j \in DOMAIN f : f[j].s \in Nat
  BY PacketTypes DEF Packets
<1>2. more # <<>> /\ Elems(more) = Elems(nums) \cup {i} /\ (nums # <<>> => more[1] = nums[1] /\ nums[1] \in Elems(nums))
  BY AppendElements
<1>3. Elems(nums) \subseteq DOMAIN f
  BY DEF Elems
<1>4. CASE nums = <<>>
  <2>1. more[1] = i /\ Elems(nums) = {}
    BY <1>4 DEF Elems
  <2> HIDE DEF more
  <2>2. FirstTime(f, more) = f[i].s /\ Elems(more) = {i}
    BY <1>2, <2>1 DEF FirstTime
  <2>3. L # 0 => f[i].s < f[i].s + L
    BY <1>1
  <2>4. f[i].s <= f[i].s
    BY <1>1
  <2>5. WindowOf(f, more)
    BY <1>2, <2>2, <2>3, <2>4 DEF WindowOf
  <2> QED BY <1>4, <2>2, <2>5 DEF more
<1>5. CASE nums # <<>>
  <2> HIDE DEF more
  <2>1. FirstTime(f, more) = FirstTime(f, nums) /\ FirstTime(f, nums) \in Nat
    BY <1>1, <1>2, <1>3, <1>5 DEF FirstTime
  <2> DEFINE b == FirstTime(f, nums)
             x == f[i].s
  <2>2. L # 0 => x < b + L
    <3>1. L # 0 => ~(x - b >= L)
      BY <1>5 DEF Breached
    <3>2. x \in Nat /\ b \in Nat /\ L \in Nat
      BY <1>1, <2>1
    <3> HIDE DEF x, b, L
    <3> QED BY <3>1, <3>2
  <2>3. \A j \in Elems(more) : b <= f[j].s /\ (L # 0 => f[j].s < b + L)
    BY <1>2, <1>5, <2>2 DEF WindowOf
  <2>4. WindowOf(f, more)
    <3> HIDE DEF b, L
    <3> QED BY <1>2, <2>1, <2>3 DEF WindowOf, b, L
  <2> QED BY <1>5, <2>1, <2>4 DEF more
<1> QED BY <1>4, <1>5

\* A packet of a channel that is not before the others goes to its window.
LEMMA WindowsStep ==
    ASSUME NEW f, Packets(f), opts.length \in Nat, NEW acc, Cut(f, acc), NEW i \in DOMAIN f,
           \A j \in Held(acc) : f[j].s <= f[i].s
    PROVE  Cut(f, InWindow(f, acc, i)) /\ Held(InWindow(f, acc, i)) = Held(acc) \cup {i}
<1> DEFINE N == Len(acc)
           V == Seq(DOMAIN f)
           L == opts.length
<1>1. N \in Nat /\ DOMAIN acc = 1 .. N /\ acc \in Seq(V) /\ \A w \in 1 .. N : acc[w] \in V
  BY DEF Cut
<1>2. f[i].s \in Nat /\ L \in Nat /\ \A j \in DOMAIN f : f[j].s \in Nat
  BY PacketTypes DEF Packets
<1>3. \A w \in 1 .. N : /\ WindowOf(f, acc[w]) /\ Elems(acc[w]) \subseteq Held(acc) /\ Elems(acc[w]) \subseteq DOMAIN f
                        /\ acc[w] # <<>> /\ acc[w][1] \in Elems(acc[w]) /\ FirstTime(f, acc[w]) \in Nat /\ FirstTime(f, acc[w]) <= f[i].s
  <2> SUFFICES ASSUME NEW w \in 1 .. N
               PROVE  /\ WindowOf(f, acc[w]) /\ Elems(acc[w]) \subseteq Held(acc) /\ Elems(acc[w]) \subseteq DOMAIN f
                      /\ acc[w] # <<>> /\ acc[w][1] \in Elems(acc[w]) /\ FirstTime(f, acc[w]) \in Nat /\ FirstTime(f, acc[w]) <= f[i].s
    OBVIOUS
  <2>1. WindowOf(f, acc[w]) /\ Elems(acc[w]) \subseteq Held(acc)
    BY <1>1 DEF Cut, Held
  <2>2. acc[w] \in Seq(DOMAIN f) /\ acc[w] # <<>>
    BY <1>1, <2>1 DEF WindowOf
  <2>3. acc[w][1] \in Elems(acc[w]) /\ Elems(acc[w]) \subseteq DOMAIN f
    BY <2>2, AppendElements DEF Elems
  <2> QED BY <1>2, <2>1, <2>2, <2>3 DEF FirstTime
<1>4. CASE acc = <<>> \/ Breached(f, i, FirstTime(f, acc[N]))
  <2> DEFINE one == <<i>>
             r == Append(acc, one)
  <2>1. InWindow(f, acc, i) = r
    BY <1>4 DEF InWindow, FirstTime
  <2>2. one \in V /\ one = Append(<<>>, i) /\ <<>> \in V /\ Elems(one) = {i}
    BY DEF Elems
  <2>3. WindowOf(f, one) /\ FirstTime(f, one) = f[i].s
    <3> HIDE DEF one
    <3> QED BY <2>2, WindowGrows
  <2> HIDE DEF one, V
  <2>4. /\ r \in Seq(V) /\ DOMAIN r = 1 .. N + 1 /\ r[N + 1] = one
        /\ \A w \in 1 .. N : r[w] = acc[w]
    BY <1>1, <2>2, AppendElements
  <2> HIDE DEF r
  <2>5. \A w \in 1 .. N + 1 : w \in 1 .. N \/ w = N + 1
    BY <1>1
  <2>6. \A w \in DOMAIN r : WindowOf(f, r[w])
    BY <1>3, <2>3, <2>4, <2>5
  <2>7. ASSUME NEW v \in 1 .. N, NEW j \in Elems(acc[v]) PROVE f[j].s < f[i].s
    <3>1. N \in 1 .. N /\ acc # <<>>
      BY <1>1
    <3> DEFINE b == FirstTime(f, acc[N])
               x == f[i].s
               y == f[j].s
    <3>2. b \in Nat /\ x \in Nat /\ y \in Nat
      BY <1>2, <1>3, <2>7, <3>1
    <3>3. L # 0 /\ x - b >= L
      BY <1>4, <3>1 DEF Breached
    <3>4. v # N => y < b
      <4>1. v # N => v < N /\ v \in DOMAIN acc /\ N \in DOMAIN acc
        <5> HIDE DEF N
        <5> QED BY <1>1, <2>7, <3>1
      <4> QED BY <2>7, <4>1 DEF Cut, InSequence
    <3>5. v = N => y < b + L
      BY <1>3, <2>7, <3>1, <3>3 DEF WindowOf
    <3> HIDE DEF b, x, y, L
    <3>6. x < y \/ x = y \/ y < x
      BY <3>2
    <3>7. y < x
      BY <1>2, <3>2, <3>3, <3>4, <3>5
    <3> QED BY <3>7 DEF x, y
  <2>8. ASSUME NEW v \in DOMAIN r, NEW w \in DOMAIN r, v < w, NEW j \in Elems(r[v]) PROVE f[j].s < FirstTime(f, r[w])
    <3>1. v \in 1 .. N /\ r[v] = acc[v] /\ j \in Elems(acc[v])
      BY <1>1, <2>4, <2>8
    <3>2. CASE w = N + 1
      BY <2>3, <2>4, <2>7, <3>1, <3>2
    <3>3. CASE w # N + 1
      <4>1. w \in 1 .. N /\ r[w] = acc[w]
        BY <1>1, <2>4, <2>8, <3>3
      <4> QED BY <1>1, <2>8, <3>1, <4>1 DEF Cut, InSequence
    <3> QED BY <3>2, <3>3
  <2>9. Cut(f, r)
    BY <2>4, <2>6, <2>8 DEF Cut, InSequence, V
  <2>10. Held(r) = Held(acc) \cup {i}
    <3>1. N + 1 \in DOMAIN r /\ \A w \in 1 .. N : w \in DOMAIN r
      BY <1>1, <2>4
    <3>2. Held(r) \subseteq Held(acc) \cup {i}
      BY <1>3, <2>2, <2>4, <2>5 DEF Held
    <3>3. Held(acc) \subseteq Held(r)
      BY <1>1, <2>4, <3>1 DEF Held
    <3>4. i \in Held(r)
      BY <2>2, <2>4, <3>1 DEF Held
    <3> QED BY <3>2, <3>3, <3>4
  <2> QED BY <2>1, <2>9, <2>10
<1>5. CASE ~(acc = <<>> \/ Breached(f, i, FirstTime(f, acc[N])))
  <2> DEFINE last == acc[N]
             more == Append(last, i)
             r == [acc EXCEPT ![N] = more]
  <2>1. InWindow(f, acc, i) = r
    BY <1>5 DEF InWindow, FirstTime
  <2>2. N \in 1 .. N
    BY <1>1, <1>5
  <2>3. last \in V /\ WindowOf(f, last) /\ FirstTime(f, last) <= f[i].s /\ last # <<>> /\ ~Breached(f, i, FirstTime(f, last))
    BY <1>1, <1>3, <1>5, <2>2
  <2>4. more \in V /\ Elems(more) = Elems(last) \cup {i}
    BY <2>3, AppendElements
  <2>5. WindowOf(f, more) /\ FirstTime(f, more) = FirstTime(f, last)
    <3> HIDE DEF last
    <3> QED BY <2>3, WindowGrows
  <2> HIDE DEF more, V
  <2>6. /\ r \in Seq(V) /\ DOMAIN r = 1 .. N /\ r[N] = more
        /\ \A w \in 1 .. N : w # N => r[w] = acc[w]
    BY <1>1, <2>2, <2>4
  <2> HIDE DEF r
  <2>7. \A w \in DOMAIN r : WindowOf(f, r[w])
    BY <1>3, <2>5, <2>6
  <2>8. \A w \in 1 .. N : FirstTime(f, r[w]) = FirstTime(f, acc[w])
    BY <2>5, <2>6
  <2>9. ASSUME NEW v \in DOMAIN r, NEW w \in DOMAIN r, v < w, NEW j \in Elems(r[v]) PROVE f[j].s < FirstTime(f, r[w])
    <3>1. v \in 1 .. N /\ w \in 1 .. N /\ v # N
      <4> HIDE DEF N
      <4> QED BY <1>1, <2>6, <2>9
    <3>2. j \in Elems(acc[v])
      BY <2>6, <2>9, <3>1
    <3> QED BY <1>1, <2>8, <2>9, <3>1, <3>2 DEF Cut, InSequence
  <2>10. Cut(f, r)
    BY <2>6, <2>7, <2>9 DEF Cut, InSequence, V
  <2>11. Held(r) = Held(acc) \cup {i}
    <3>1. Held(r) \subseteq Held(acc) \cup {i}
      BY <1>3, <2>2, <2>4, <2>6 DEF Held
    <3>2. Held(acc) \subseteq Held(r)
      <4>1. \A w \in 1 .. N : Elems(acc[w]) \subseteq Elems(r[w])
        BY <2>4, <2>6
      <4>2. DOMAIN acc = 1 .. N /\ DOMAIN r = 1 .. N
        BY <1>1, <2>6
      <4> HIDE DEF N
      <4> SUFFICES ASSUME NEW j \in Held(acc) PROVE j \in Held(r)
        OBVIOUS
      <4>3. PICK w \in 1 .. N : j \in Elems(acc[w])
        BY <4>2 DEF Held
      <4>4. j \in Elems(r[w])
        BY <4>1, <4>3
      <4> QED BY <4>2, <4>4 DEF Held
    <3>3. i \in Held(r)
      BY <2>2, <2>4, <2>6 DEF Held
    <3> QED BY <3>1, <3>2, <3>3
  <2> QED BY <2>1, <2>10, <2>11
<1> QED BY <1>4, <1>5

\* The windows of a channel hold its valid packets.
LEMMA IndexWindows ==
    ASSUME NEW f, Packets(f), f \in Seq(Elems(f)), opts.length \in Nat, NEW c
    PROVE  /\ Cut(f, Windows(f, Index(f, c)))
           /\ Held(Windows(f, Index(f, c))) = {i \in DOMAIN f : f[i].ch = c /\ ~f[i].odd}
<1> DEFINE nums == Index(f, c)
           N == Len(nums)
           T == {i \in DOMAIN f : f[i].ch = c /\ ~f[i].odd}
<1>1. nums \in Seq(DOMAIN f) /\ Elems(nums) = T /\ \A m, n \in 1 .. N : m < n => f[nums[m]].s <= f[nums[n]].s
  BY IndexIs
<1> HIDE DEF nums, T
<1>2. N \in Nat /\ DOMAIN nums = 1 .. N /\ \A k \in 1 .. N : nums[k] \in DOMAIN f
  BY <1>1
<1>3. PICK r : /\ r[0] = <<>>
               /\ \A k \in 1 .. N : r[k] = InWindow(f, r[k - 1], nums[k])
               /\ Windows(f, nums) = r[N]
  BY <1>1, WindowsRun
<1> HIDE DEF N
<1> DEFINE P(k) == Cut(f, r[k]) /\ Held(r[k]) = {nums[j] : j \in 1 .. k}
           Q == {k \in Nat : k <= N => P(k)}
<1>4. 0 \in Q
  <2>1. Cut(f, <<>>)
    BY DEF Cut, InSequence
  <2>2. Held(<<>>) = {} /\ 1 .. 0 = {} /\ 0 \in Nat
    BY DEF Held
  <2> QED BY <1>3, <2>1, <2>2
<1>5. ASSUME NEW k \in Q PROVE k + 1 \in Q
  <2> SUFFICES ASSUME k + 1 <= N PROVE P(k + 1)
    OBVIOUS
  <2>1. k \in Nat /\ k + 1 \in 1 .. N /\ (k + 1) - 1 = k /\ k <= N
    BY <1>2
  <2>2. Cut(f, r[k]) /\ Held(r[k]) = {nums[j] : j \in 1 .. k}
    BY <2>1
  <2>3. r[k + 1] = InWindow(f, r[k], nums[k + 1]) /\ nums[k + 1] \in DOMAIN f
    BY <1>2, <1>3, <2>1
  <2>4. \A j \in Held(r[k]) : f[j].s <= f[nums[k + 1]].s
    <3>1. \A j \in 1 .. k : j \in 1 .. N /\ j < k + 1
      BY <1>2, <2>1
    <3> QED BY <1>1, <2>1, <2>2, <3>1
  <2>5. Cut(f, r[k + 1]) /\ Held(r[k + 1]) = Held(r[k]) \cup {nums[k + 1]}
    BY <2>2, <2>3, <2>4, WindowsStep
  <2>6. {nums[j] : j \in 1 .. k + 1} = {nums[j] : j \in 1 .. k} \cup {nums[k + 1]}
    <3>1. 1 .. k + 1 = (1 .. k) \cup {k + 1}
      BY <2>1
    <3> QED BY <3>1
  <2> QED BY <2>2, <2>5, <2>6
<1>6. Q = Nat
  <2> HIDE DEF Q
  <2>1. Q \in SUBSET Nat
    BY DEF Q
  <2> QED BY <1>4, <1>5, <2>1, SetInduction
<1>7. P(N)
  <2>1. N \in Q /\ N <= N
    <3> HIDE DEF Q
    <3> QED BY <1>2, <1>6
  <2> QED BY <2>1
<1>8. {nums[j] : j \in 1 .. N} = T
  BY <1>1, <1>2 DEF Elems
<1> QED BY <1>3, <1>7, <1>8 DEF nums, T

\* The packets of a trace are valid ones of its channel, from its start on and within
\* the length; two traces have none in common; a trace of a channel begins after the
\* packets of one that begins before it; all packets of the channels C that are asked
\* for are in a trace.
Carries(f, t) ==
    \A i \in Elems(t.pk) :
        /\ i \in DOMAIN f /\ ~f[i].odd /\ includeChan(f[i].ch) /\ f[i].ch = t.ch
        /\ t.s <= f[i].s
        /\ opts.length # 0 => f[i].s < t.s + opts.length
Disjoint(t, u) == Elems(t.pk) \cap Elems(u.pk) = {}
Follows(f, t, u) == u.ch = t.ch /\ u.s > t.s => \A i \in Elems(t.pk) : f[i].s < u.s
Holding(list, i) == {k \in DOMAIN list : i \in Elems(list[k].pk)}
Sharing(list, f, C) ==
    /\ list \in Seq(Elems(list))
    /\ \A k \in DOMAIN list : list[k].ch \in C /\ Carries(f, list[k])
    /\ \A k, m \in DOMAIN list : Follows(f, list[k], list[m]) /\ (k # m => Disjoint(list[k], list[m]))
    /\ \A i \in DOMAIN f : ~f[i].odd /\ f[i].ch \in C /\ includeChan(f[i].ch) => Holding(list, i) # {}

\* The traces makeTraces makes of a channel.
ChannelTraces(f, c) ==
    LET nums == Index(f, c)
        win == Windows(f, nums)
    IN  [w \in DOMAIN win |-> Header("MSEED_MPLEX_DATA", f, win[w], f[win[w][1]].s,
                                     blkSize(f), f[First(nums)].rate)]

LEMMA HeaderPackets ==
    ASSUME NEW f, DOMAIN f \in SUBSET Int, NEW nums \in Seq(DOMAIN f), NEW s, NEW blk, NEW set
    PROVE  LET t == Header("MSEED_MPLEX_DATA", f, nums, s, blk, set)
           IN  Elems(t.pk) = Elems(nums) /\ t.s = s /\ t.ch = f[nums[1]].ch
<1> DEFINE key == [i \in Elems(nums) |-> i]
           sorted == StableSort(nums, key)
           some == \E i \in Elems(nums) : f[i].n > 0
           t == Header("MSEED_MPLEX_DATA", f, nums, s, blk, set)
<1>1. t = [type |-> "MSEED_MPLEX_DATA", ch |-> f[nums[1]].ch, s |-> s, blk |-> blk, set |-> set, pk |-> sorted,
           some |-> some, cut |-> None, data |-> None, seen |-> 0]
  BY DEF Header
<1>2. nums \in Seq(Elems(nums)) /\ Elems(nums) \subseteq DOMAIN f
  BY ElementsOf
<1>3. key \in [Elems(nums) -> Int]
  BY <1>2
<1> HIDE DEF key
<1>4. Elems(sorted) = Elems(nums)
  BY <1>2, <1>3, SortProperties
<1> HIDE DEF sorted, some, t
<1>5. t.pk = sorted /\ t.s = s /\ t.ch = f[nums[1]].ch
  BY <1>1
<1> QED BY <1>4, <1>5 DEF t

LEMMA ChannelShared ==
    ASSUME NEW f, Packets(f), f \in Seq(Elems(f)), opts.length \in Nat, NEW c, includeChan(c)
    PROVE  Sharing(ChannelTraces(f, c), f, {c})
<1> DEFINE nums == Index(f, c)
           win == Windows(f, nums)
           set == f[First(nums)].rate
           blk == blkSize(f)
           head(w) == Header("MSEED_MPLEX_DATA", f, win[w], f[win[w][1]].s, blk, set)
           list == ChannelTraces(f, c)
           N == Len(win)
           T == {i \in DOMAIN f : f[i].ch = c /\ ~f[i].odd}
<1>1. list = [w \in DOMAIN win |-> head(w)]
  BY DEF ChannelTraces
<1>2. Cut(f, win) /\ Held(win) = T
  BY IndexWindows
<1>3. DOMAIN f \in SUBSET Int
  OBVIOUS
<1> HIDE DEF nums, win, set, blk, list, T
<1>4. N \in Nat /\ DOMAIN win = 1 .. N /\ \A w \in 1 .. N : win[w] \in Seq(DOMAIN f) /\ WindowOf(f, win[w])
  BY <1>2 DEF Cut
<1>5. DOMAIN list = 1 .. N /\ \A w \in 1 .. N : list[w] = head(w)
  BY <1>1, <1>4
<1>6. list \in Seq(Elems(list))
  <2> HIDE DEF head
  <2>1. list \in Seq({head(w) : w \in 1 .. N})
    BY <1>1, <1>4
  <2> QED BY <2>1, ElementsOf
<1>7. \A w \in 1 .. N : /\ Elems(list[w].pk) = Elems(win[w]) /\ list[w].s = FirstTime(f, win[w])
                        /\ list[w].ch = f[win[w][1]].ch
  BY <1>3, <1>4, <1>5, HeaderPackets DEF FirstTime
<1> HIDE DEF head, N
<1>8. \A w \in 1 .. N : /\ win[w][1] \in Elems(win[w]) /\ Elems(win[w]) \subseteq T
                        /\ FirstTime(f, win[w]) \in Nat
  <2> SUFFICES ASSUME NEW w \in 1 .. N
               PROVE  win[w][1] \in Elems(win[w]) /\ Elems(win[w]) \subseteq T /\ FirstTime(f, win[w]) \in Nat
    OBVIOUS
  <2>1. win[w] \in Seq(DOMAIN f) /\ win[w] # <<>>
    BY <1>4 DEF WindowOf
  <2>2. win[w][1] \in Elems(win[w]) /\ win[w][1] \in DOMAIN f
    BY <2>1, AppendElements DEF Elems
  <2>3. Elems(win[w]) \subseteq T
    BY <1>2, <1>4 DEF Held
  <2>4. f[win[w][1]].s \in Nat
    BY <2>2, PacketTypes DEF Packets
  <2> QED BY <2>2, <2>3, <2>4 DEF FirstTime
<1>9. \A i \in T : i \in DOMAIN f /\ ~f[i].odd /\ f[i].ch = c
  BY DEF T
<1>10. \A w \in 1 .. N : list[w].ch = c
  BY <1>7, <1>8, <1>9
<1>11. ASSUME NEW w \in 1 .. N PROVE Carries(f, list[w])
  BY <1>4, <1>7, <1>8, <1>9, <1>10 DEF Carries, WindowOf
<1>12. ASSUME NEW v \in 1 .. N, NEW w \in 1 .. N, v < w PROVE \A i \in Elems(win[v]) : f[i].s < FirstTime(f, win[w])
  BY <1>2, <1>4, <1>12 DEF Cut, InSequence
<1>13. ASSUME NEW v \in 1 .. N, NEW w \in 1 .. N, v < w PROVE Elems(win[v]) \cap Elems(win[w]) = {}
  <2> SUFFICES ASSUME NEW i \in Elems(win[v]), i \in Elems(win[w]) PROVE FALSE
    OBVIOUS
  <2> DEFINE x == f[i].s
             b == FirstTime(f, win[w])
  <2>1. x < b /\ b <= x
    BY <1>4, <1>12, <1>13 DEF WindowOf
  <2>2. i \in DOMAIN f
    BY <1>8, <1>9
  <2>3. x \in Nat /\ b \in Nat
    BY <1>8, <2>2, PacketTypes DEF Packets
  <2> HIDE DEF x, b
  <2> QED BY <2>1, <2>3
<1>14. ASSUME NEW v \in 1 .. N, NEW w \in 1 .. N PROVE Follows(f, list[v], list[w])
  <2> SUFFICES ASSUME list[w].s > list[v].s PROVE \A i \in Elems(list[v].pk) : f[i].s < list[w].s
    BY DEF Follows
  <2>1. v < w
    <3> SUFFICES ASSUME ~(v < w) PROVE FALSE
      OBVIOUS
    <3> DEFINE a == list[v].s
               b == list[w].s
    <3>1. a = FirstTime(f, win[v]) /\ b = FirstTime(f, win[w]) /\ a \in Nat /\ b \in Nat /\ b > a
      BY <1>7, <1>8
    <3>2. w # v
      <4> HIDE DEF a, b
      <4>1. a # b
        BY <3>1
      <4> QED BY <4>1 DEF a, b
    <3>3. w < v
      BY <1>4, <3>2
    <3>4. f[win[w][1]].s < FirstTime(f, win[v])
      BY <1>8, <1>12, <3>3
    <3>5. b < a
      BY <3>1, <3>4 DEF FirstTime
    <3> HIDE DEF a, b
    <3> QED BY <3>1, <3>5
  <2> QED BY <1>7, <1>12, <2>1
<1>15. ASSUME NEW v \in 1 .. N, NEW w \in 1 .. N, v # w PROVE Disjoint(list[v], list[w])
  <2>1. v < w \/ w < v
    BY <1>4, <1>15
  <2>2. Elems(win[v]) \cap Elems(win[w]) = {}
    BY <1>13, <2>1
  <2> QED BY <1>7, <2>2 DEF Disjoint
<1>16. ASSUME NEW i \in DOMAIN f, ~f[i].odd, f[i].ch \in {c} PROVE Holding(list, i) # {}
  <2>1. i \in Held(win)
    BY <1>2, <1>16 DEF T
  <2>2. PICK w \in 1 .. N : i \in Elems(win[w])
    BY <1>4, <2>1 DEF Held
  <2>3. w \in Holding(list, i)
    BY <1>5, <1>7, <2>2 DEF Holding
  <2> QED BY <2>3
<1>17. \A w \in 1 .. N : list[w].ch \in {c}
  BY <1>10
<1>18. Sharing(list, f, {c})
  BY <1>5, <1>6, <1>11, <1>14, <1>15, <1>16, <1>17 DEF Sharing
<1> QED BY <1>18 DEF list

\* No trace, for a channel that is not asked for.
LEMMA NoneShared ==
    ASSUME NEW f, NEW c, ~includeChan(c)
    PROVE  Sharing(<<>>, f, {c})
<1>1. <<>> \in Seq(Elems(<<>>)) /\ DOMAIN <<>> = {}
  OBVIOUS
<1> HIDE DEF includeChan
<1> QED BY <1>1 DEF Sharing

\* The traces of some channels, and those of others.
LEMMA SharingJoin ==
    ASSUME NEW f, NEW a, NEW b, NEW A, NEW B, Sharing(a, f, A), Sharing(b, f, B), A \cap B = {}
    PROVE  Sharing(a \o b, f, A \cup B)
<1> DEFINE M == Len(a)
           N == Len(b)
           r == a \o b
           S == Elems(a) \cup Elems(b)
<1>1. a \in Seq(S) /\ b \in Seq(S)
  <2>1. a \in Seq(Elems(a)) /\ b \in Seq(Elems(b))
    BY DEF Sharing
  <2> HIDE DEF S
  <2>2. Elems(a) \subseteq S /\ Elems(b) \subseteq S
    BY DEF S
  <2> QED BY <2>1, <2>2
<1>2. r \in Seq(S) /\ Elems(r) = S
  BY <1>1, ConcatenationProperties
<1> HIDE DEF S
<1>3. /\ M \in Nat /\ N \in Nat /\ DOMAIN a = 1 .. M /\ DOMAIN b = 1 .. N /\ DOMAIN r = 1 .. M + N
      /\ \A k \in 1 .. M : r[k] = a[k]
      /\ \A k \in 1 .. N : r[M + k] = b[k]
  BY <1>1
<1> HIDE DEF M, N, r
<1>4. \A k \in DOMAIN r : \/ k \in 1 .. M
                          \/ k - M \in 1 .. N /\ k = M + (k - M)
  BY <1>3
<1>5. \A k \in DOMAIN r : \/ k \in 1 .. M /\ r[k] = a[k] /\ r[k].ch \in A
                          \/ k - M \in 1 .. N /\ r[k] = b[k - M] /\ r[k].ch \in B
  <2> SUFFICES ASSUME NEW k \in DOMAIN r
               PROVE  \/ k \in 1 .. M /\ r[k] = a[k] /\ r[k].ch \in A
                      \/ k - M \in 1 .. N /\ r[k] = b[k - M] /\ r[k].ch \in B
    OBVIOUS
  <2>1. CASE k \in 1 .. M
    BY <1>3, <2>1 DEF Sharing
  <2>2. CASE k - M \in 1 .. N /\ k = M + (k - M)
    <3> DEFINE j == k - M
    <3>1. j \in 1 .. N /\ k = M + j
      BY <2>2
    <3> HIDE DEF j
    <3>2. r[k] = b[j] /\ j \in DOMAIN b
      BY <1>3, <3>1
    <3>3. b[j].ch \in B
      BY <3>2 DEF Sharing
    <3> QED BY <3>1, <3>2, <3>3 DEF j
  <2> QED BY <1>4, <2>1, <2>2
<1>6. \A k \in DOMAIN r : r[k].ch \in A \cup B /\ Carries(f, r[k])
  BY <1>3, <1>5 DEF Sharing
<1>7. ASSUME NEW t, NEW u, t.ch # u.ch, Carries(f, t), Carries(f, u)
      PROVE  Follows(f, t, u) /\ Disjoint(t, u)
  BY <1>7 DEF Follows, Disjoint, Carries
<1>8. ASSUME NEW k \in DOMAIN r, NEW m \in DOMAIN r
      PROVE  Follows(f, r[k], r[m]) /\ (k # m => Disjoint(r[k], r[m]))
  <2>1. CASE k \in 1 .. M /\ r[k] = a[k] /\ m \in 1 .. M /\ r[m] = a[m]
    BY <1>3, <2>1 DEF Sharing
  <2>2. CASE k - M \in 1 .. N /\ r[k] = b[k - M] /\ m - M \in 1 .. N /\ r[m] = b[m - M]
    <3>1. k # m => k - M # m - M
      BY <1>3
    <3> QED BY <1>3, <2>2, <3>1 DEF Sharing
  <2>3. CASE (r[k].ch \in A /\ r[m].ch \in B) \/ (r[k].ch \in B /\ r[m].ch \in A)
    <3>1. r[k].ch # r[m].ch
      BY <2>3
    <3> QED BY <1>6, <1>7, <3>1
  <2> QED BY <1>5, <2>1, <2>2, <2>3
<1>9. ASSUME NEW i \in DOMAIN f, ~f[i].odd, f[i].ch \in A \cup B, includeChan(f[i].ch)
      PROVE  Holding(r, i) # {}
  <2>1. CASE f[i].ch \in A
    <3>1. Holding(a, i) # {}
      BY <1>9, <2>1 DEF Sharing
    <3>2. PICK k \in 1 .. M : i \in Elems(a[k].pk)
      BY <1>3, <3>1 DEF Holding
    <3>3. k \in DOMAIN r /\ r[k] = a[k]
      BY <1>3
    <3> QED BY <3>2, <3>3 DEF Holding
  <2>2. CASE f[i].ch \in B
    <3>1. Holding(b, i) # {}
      BY <1>9, <2>2 DEF Sharing
    <3>2. PICK k \in 1 .. N : i \in Elems(b[k].pk)
      BY <1>3, <3>1 DEF Holding
    <3>3. M + k \in DOMAIN r /\ r[M + k] = b[k]
      BY <1>3
    <3> QED BY <3>2, <3>3 DEF Holding
  <2> QED BY <1>9, <2>1, <2>2
<1>10. r \in Seq(Elems(r))
  BY <1>2
<1> QED BY <1>6, <1>8, <1>9, <1>10 DEF Sharing, r

\* Each channel with a valid packet is met once.
LEMMA ChannelsOnce ==
    ASSUME NEW f, f \in Seq(Elems(f))
    PROVE  /\ Distinct(Channels(f))
           /\ \A i \in DOMAIN f : ~f[i].odd => f[i].ch \in Elems(Channels(f))
<1> DEFINE all == [i \in DOMAIN f |-> i]
           T == {i \in DOMAIN f : ~f[i].odd /\ \A j \in 1 .. i - 1 : f[j].odd \/ f[j].ch # f[i].ch}
           new == Only(all, T)
           nums == Reverse(new)
           chans == Channels(f)
<1>1. chans = [k \in DOMAIN nums |-> f[nums[k]].ch]
  BY DEF Channels
<1>2. DOMAIN f = 1 .. Len(f) /\ Len(f) \in Nat
  OBVIOUS
<1>3. all \in Seq(DOMAIN f) /\ Elems(all) = DOMAIN f /\ Distinct(all)
  BY <1>2 DEF Elems, Distinct
<1>4. T \subseteq DOMAIN f
  OBVIOUS
<1> HIDE DEF all, chans
<1>5. new \in Seq(DOMAIN f) /\ Elems(new) = T /\ Distinct(new)
  <2> HIDE DEF T
  <2>1. new \in Seq(DOMAIN f) /\ Elems(new) = Elems(all) \cap T /\ Distinct(new)
    BY <1>3, OnlyProperties
  <2> HIDE DEF new
  <2> QED BY <1>3, <1>4, <2>1
<1> HIDE DEF new
<1>6. nums \in Seq(DOMAIN f) /\ Elems(nums) = T /\ Distinct(nums)
  <2> HIDE DEF T
  <2> QED BY <1>5, ReversedElements
<1> HIDE DEF nums
<1>7. ASSUME NEW i \in T, NEW j \in T, f[i].ch = f[j].ch PROVE i = j
  <2>1. i \in 1 .. Len(f) /\ j \in 1 .. Len(f) /\ ~f[i].odd /\ ~f[j].odd
    BY <1>2
  <2>2. ~(i < j)
    <3>1. i < j => i \in 1 .. j - 1
      BY <1>2, <2>1
    <3> QED BY <1>7, <2>1, <3>1
  <2>3. ~(j < i)
    <3>1. j < i => j \in 1 .. i - 1
      BY <1>2, <2>1
    <3> QED BY <1>7, <2>1, <3>1
  <2> HIDE DEF T
  <2> QED BY <1>2, <2>1, <2>2, <2>3
<1>8. ASSUME NEW i \in DOMAIN f, ~f[i].odd PROVE \E j \in T : f[j].ch = f[i].ch
  <2> DEFINE S == {k \in DOMAIN f : ~f[k].odd /\ f[k].ch = f[i].ch}
             least == CHOOSE k \in S : \A j \in S : k <= j
  <2>1. S \in SUBSET Nat /\ S # {}
    BY <1>2, <1>8
  <2>2. least \in S /\ \A j \in S : least <= j
    <3> HIDE DEF S
    <3> QED BY <2>1, LeastElement
  <2> HIDE DEF least
  <2>3. ASSUME NEW j \in 1 .. least - 1 PROVE f[j].odd \/ f[j].ch # f[least].ch
    <3>1. j \in DOMAIN f /\ ~(least <= j)
      BY <1>2, <2>2
    <3> QED BY <2>2, <3>1
  <2> QED BY <2>2, <2>3
<1> HIDE DEF T
<1>9. DOMAIN chans = DOMAIN nums /\ \A k \in DOMAIN nums : chans[k] = f[nums[k]].ch /\ nums[k] \in T
  BY <1>1, <1>6 DEF Elems
<1>10. Distinct(chans)
  <2> SUFFICES ASSUME NEW j \in DOMAIN nums, NEW k \in DOMAIN nums, chans[j] = chans[k] PROVE j = k
    BY <1>9 DEF Distinct
  <2>1. nums[j] = nums[k]
    BY <1>7, <1>9
  <2> QED BY <1>6, <2>1 DEF Distinct
<1>11. ASSUME NEW i \in DOMAIN f, ~f[i].odd PROVE f[i].ch \in Elems(chans)
  <2>1. PICK j \in T : f[j].ch = f[i].ch
    BY <1>8, <1>11
  <2>2. PICK k \in DOMAIN nums : nums[k] = j
    BY <1>6 DEF Elems
  <2> QED BY <1>9, <2>1, <2>2 DEF Elems
<1> QED BY <1>10, <1>11 DEF chans

LEMMA TracesShared ==
    ASSUME NEW f, Packets(f), f \in Seq(Elems(f)), opts.length \in Nat
    PROVE  Sharing(makeTraces(f), f, Elems(Channels(f)))
<1> DEFINE chans == Channels(f)
           N == Len(chans)
           lists == [k \in DOMAIN chans |-> IF includeChan(chans[k]) THEN ChannelTraces(f, chans[k]) ELSE <<>>]
           flat == CHOOSE h : IsFlat(h, lists, N)
           C(k) == {chans[j] : j \in 1 .. k}
<1>1. makeTraces(f) = FlattenSeq(lists)
  BY DEF makeTraces, ChannelTraces
<1>2. N \in Nat /\ DOMAIN chans = 1 .. N
  BY ChannelsAre
<1>3. Distinct(chans)
  BY ChannelsOnce
<1>4. ASSUME NEW k \in 1 .. N PROVE Sharing(lists[k], f, {chans[k]})
  <2>1. CASE includeChan(chans[k])
    <3>1. lists[k] = ChannelTraces(f, chans[k])
      BY <1>2, <2>1
    <3> QED BY <2>1, <3>1, ChannelShared
  <2>2. CASE ~includeChan(chans[k])
    <3>1. lists[k] = <<>>
      BY <1>2, <2>2
    <3> QED BY <2>2, <3>1, NoneShared
  <2> QED BY <2>1, <2>2
<1>5. DOMAIN lists = 1 .. N /\ Len(lists) = N
  BY <1>2
<1>6. Elems(chans) = C(N)
  BY <1>2 DEF Elems
<1> HIDE DEF lists, chans
<1>7. CASE N = 0
  <2>1. lists = <<>>
    BY <1>5, <1>7 DEF lists
  <2>2. FlattenSeq(lists) = <<>>
    BY <2>1 DEF FlattenSeq
  <2>3. C(N) = {}
    BY <1>7
  <2>4. <<>> \in Seq(Elems(<<>>)) /\ DOMAIN <<>> = {}
    OBVIOUS
  <2>5. Sharing(<<>>, f, {})
    BY <2>4 DEF Sharing
  <2> QED BY <1>1, <1>6, <2>2, <2>3, <2>5 DEF chans
<1>8. CASE N # 0
  <2>1. FlattenSeq(lists) = flat[N]
    BY <1>5, <1>8 DEF FlattenSeq, IsFlat
  <2>2. IsFlat(flat, lists, N)
    BY <1>2, FlatExists
  <2> HIDE DEF flat, N
  <2>3. \A i \in 1 .. N : flat[i] = IF i = 1 THEN lists[i] ELSE flat[i - 1] \o lists[i]
    BY <2>2 DEF IsFlat
  <2> DEFINE P(k) == Sharing(flat[k], f, C(k))
             Q == {m \in Nat : m + 1 <= N => P(m + 1)}
  <2>4. 0 \in Q
    <3>1. 0 \in Nat /\ 0 + 1 = 1
      OBVIOUS
    <3>2. ASSUME 1 <= N PROVE P(1)
      <4>1. 1 \in 1 .. N /\ flat[1] = lists[1]
        BY <1>2, <2>3, <3>2
      <4>2. C(1) = {chans[1]}
        <5>1. 1 .. 1 = {1}
          OBVIOUS
        <5> QED BY <5>1
      <4> HIDE DEF C
      <4> QED BY <1>4, <4>1, <4>2
    <3> HIDE DEF P
    <3> QED BY <3>1, <3>2
  <2>5. ASSUME NEW m \in Q PROVE m + 1 \in Q
    <3> DEFINE n == m + 1 + 1
    <3> SUFFICES ASSUME n <= N PROVE P(n)
      OBVIOUS
    <3>1. m \in Nat /\ n \in 1 .. N /\ n # 1 /\ n - 1 = m + 1 /\ m + 1 <= N
      BY <1>2
    <3>2. P(m + 1) /\ Sharing(lists[n], f, {chans[n]})
      BY <1>4, <3>1
    <3>3. flat[n] = flat[m + 1] \o lists[n]
      BY <2>3, <3>1
    <3>4. C(n) = C(m + 1) \cup {chans[n]}
      <4>1. 1 .. n = (1 .. m + 1) \cup {n}
        BY <3>1
      <4> HIDE DEF n
      <4> QED BY <4>1
    <3>5. C(m + 1) \cap {chans[n]} = {}
      <4> SUFFICES ASSUME NEW j \in 1 .. m + 1, chans[j] = chans[n] PROVE FALSE
        OBVIOUS
      <4>1. j \in 1 .. N /\ j # n
        BY <1>2, <3>1
      <4> QED BY <1>2, <1>3, <3>1, <4>1 DEF Distinct, N
    <3> HIDE DEF C, n
    <3> QED BY <3>2, <3>3, <3>4, <3>5, SharingJoin
  <2>6. Q = Nat
    <3> HIDE DEF Q
    <3>1. Q \in SUBSET Nat
      BY DEF Q
    <3> QED BY <2>4, <2>5, <3>1, SetInduction
  <2>7. P(N)
    <3>1. N - 1 \in Nat /\ (N - 1) + 1 = N
      BY <1>2, <1>8
    <3>2. N - 1 \in Q /\ (N - 1) + 1 <= N
      <4> HIDE DEF Q
      <4> QED BY <1>2, <2>6, <3>1
    <3> HIDE DEF P
    <3>3. P((N - 1) + 1)
      BY <3>2
    <3> QED BY <3>1, <3>3
  <2> HIDE DEF C
  <2> QED BY <1>1, <1>6, <2>1, <2>7 DEF chans
<1> QED BY <1>7, <1>8

\* Traces that share the packets of all channels of a file share out the file.
LEMMA SharingSharesOut ==
    ASSUME NEW f, f \in Seq(Elems(f)), NEW list, Sharing(list, f, Elems(Channels(f)))
    PROVE  SharedOut(f, list)
<1> HIDE DEF includeChan
<1>1. ASSUME NEW i \in DOMAIN f
      PROVE  Cardinality(Holding(list, i)) = IF ~f[i].odd /\ includeChan(f[i].ch) THEN 1 ELSE 0
  <2>1. CASE ~f[i].odd /\ includeChan(f[i].ch)
    <3>1. f[i].ch \in Elems(Channels(f))
      BY <2>1, ChannelsOnce
    <3>2. Holding(list, i) # {}
      BY <2>1, <3>1 DEF Sharing
    <3>3. PICK k \in Holding(list, i) : TRUE
      BY <3>2
    <3>4. \A m \in Holding(list, i) : m = k
      BY <3>3 DEF Holding, Sharing, Disjoint
    <3>5. Holding(list, i) = {k}
      BY <3>3, <3>4
    <3> QED BY <2>1, <3>5, FS_Singleton
  <2>2. CASE ~(~f[i].odd /\ includeChan(f[i].ch))
    <3>1. Holding(list, i) = {}
      BY <2>2 DEF Holding, Sharing, Carries
    <3>2. Cardinality({}) = 0
      BY FS_EmptySet
    <3> QED BY <2>2, <3>1, <3>2
  <2> QED BY <2>1, <2>2
<1>2. ASSUME NEW k \in DOMAIN list, NEW i \in DOMAIN f, i \in Elems(list[k].pk)
      PROVE  /\ f[i].ch = list[k].ch /\ list[k].s <= f[i].s
             /\ opts.length # 0 => f[i].s < list[k].s + opts.length
             /\ \A m \in DOMAIN list : list[m].ch = list[k].ch /\ list[m].s > list[k].s => f[i].s < list[m].s
  BY <1>2 DEF Sharing, Carries, Follows
<1> QED BY <1>1, <1>2 DEF SharedOut, Holding

\* The options are those explored.
Optional == opts \in Uses[use].opts

\* Opening a file of several channels shares out its packets: each valid packet of a
\* channel that is asked for is in one trace, of its channel and within its window
\* (makeTraces, make_mseed_trace).
THEOREM DemuxAlways == Spec => Demux
<1>1. Init => Optional
  BY DEF Init, Optional
<1>2. Optional /\ [Next]_vars => Optional'
  <2> SUFFICES ASSUME Optional, [Next]_vars PROVE use' = use /\ opts' = opts
    BY DEF Optional
  <2> QED BY DEF Next, Arrive, Open, Close, ReadData, FreeData, vars
<1>3. Consistent /\ Optional /\ [Next]_vars =>
        [opens' # opens /\ shots = <<>> /\ cache \in {0, Len(file)} /\ Len(Channels(file)) > 1 =>
            SharedOut(file, trs')]_vars
  <2> SUFFICES ASSUME Consistent, Optional, [Next]_vars, opens' # opens, shots = <<>>, cache \in {0, Len(file)},
                      Len(Channels(file)) > 1
               PROVE  SharedOut(file, trs')
    OBVIOUS
  <2>1. Open
    BY DEF Next, Arrive, Close, ReadData, FreeData, vars
  <2>2. file \in Seq(Elems(file)) /\ Packets(file)
    BY Explored, ElementsOf DEF Consistent
  <2>3. index_mplex = file
    <3>1. SubSeq(file, 1, Len(file)) = file
      BY <2>2
    <3> QED BY <3>1 DEF index_mplex
  <2>4. get_mseed_hedrM(file) = makeTraces(file)
    <3> DEFINE n == Len(Channels(file))
    <3>1. n \in Nat /\ n > 1
      BY <2>2, ChannelsAre
    <3>2. n # 1
      <4> HIDE DEF n
      <4> QED BY <3>1
    <3> QED BY <3>2 DEF get_mseed_hedrM
  <2>5. trs' = makeTraces(file)
    BY <2>1, <2>3, <2>4 DEF Open
  <2>6. opts.length \in Nat
    BY UsesAssumption DEF Consistent, Optional
  <2>7. Sharing(makeTraces(file), file, Elems(Channels(file)))
    BY <2>2, <2>6, TracesShared
  <2>8. SharedOut(file, makeTraces(file))
    BY <2>2, <2>7, SharingSharesOut
  <2> QED BY <2>5, <2>8
<1> QED BY <1>1, <1>2, <1>3, ConsistentAlways, PTL DEF Spec, Demux

-----------------------------------------------------------------------------
(* How often a sample is in a list, and in lists of lists.                 *)

\* How often x is in s.
Occurs(s, x) == Cardinality({k \in DOMAIN s : s[k] = x})

\* The places of x in the lists of d with a number in J.
Spots(d, J, x) == {z \in J \X Nat : z[2] \in DOMAIN d[z[1]] /\ d[z[1]][z[2]] = x}
Tally(d, J, x) == Cardinality(Spots(d, J, x))

\* A one-to-one correspondence keeps the number.
LEMMA SameNumber ==
    ASSUME NEW S, NEW T, IsFiniteSet(S), NEW f \in [S -> T],
           \A a, b \in S : f[a] = f[b] => a = b, \A y \in T : \E a \in S : f[a] = y
    PROVE  IsFiniteSet(T) /\ Cardinality(T) = Cardinality(S)
<1>1. f \in Bijection(S, T)
  BY Fun_IsBij
<1>2. ExistsBijection(S, T)
  BY <1>1 DEF ExistsBijection
<1> QED BY <1>2, FS_Bijection

\* Sets without a common element.
LEMMA NumberOfBoth ==
    ASSUME NEW S, NEW T, IsFiniteSet(S), IsFiniteSet(T), S \cap T = {}
    PROVE  IsFiniteSet(S \cup T) /\ Cardinality(S \cup T) = Cardinality(S) + Cardinality(T)
<1>1. Cardinality(S) \in Nat /\ Cardinality(T) \in Nat
  BY FS_CardinalityType
<1>2. Cardinality(S \cap T) = 0
  BY FS_EmptySet
<1>3. Cardinality(S \cup T) = Cardinality(S) + Cardinality(T) - Cardinality(S \cap T)
  BY FS_Union
<1> QED BY <1>1, <1>2, <1>3, FS_Union

\* A number, as the list is finite.
LEMMA OccursTypes ==
    ASSUME NEW S, NEW s \in Seq(S), NEW x
    PROVE  IsFiniteSet({k \in DOMAIN s : s[k] = x}) /\ Occurs(s, x) \in Nat
<1>1. DOMAIN s = 1 .. Len(s) /\ Len(s) \in Nat /\ 1 \in Int
  OBVIOUS
<1>2. IsFiniteSet(1 .. Len(s))
  BY <1>1, FS_Interval
<1>3. IsFiniteSet({k \in DOMAIN s : s[k] = x})
  BY <1>1, <1>2, FS_Subset
<1> QED BY <1>3, FS_CardinalityType DEF Occurs

\* What is not in a list is in it zero times.
LEMMA OccursNot ==
    ASSUME NEW s, NEW x, \A k \in DOMAIN s : s[k] # x
    PROVE  Occurs(s, x) = 0
<1>1. {k \in DOMAIN s : s[k] = x} = {}
  OBVIOUS
<1> QED BY <1>1, FS_EmptySet DEF Occurs

\* Two lists joined have x as often as both.
LEMMA OccursJoin ==
    ASSUME NEW S, NEW s \in Seq(S), NEW t \in Seq(S), NEW x
    PROVE  Occurs(s \o t, x) = Occurs(s, x) + Occurs(t, x)
<1> DEFINE M == Len(s)
           N == Len(t)
           r == s \o t
           A == {k \in DOMAIN s : s[k] = x}
           B == {k \in DOMAIN t : t[k] = x}
           C == {k \in DOMAIN r : r[k] = x}
           D == {k \in C : k > M}
           f == [k \in B |-> M + k]
<1>1. /\ M \in Nat /\ N \in Nat /\ DOMAIN s = 1 .. M /\ DOMAIN t = 1 .. N /\ DOMAIN r = 1 .. M + N
      /\ \A k \in 1 .. M : r[k] = s[k]
      /\ \A k \in 1 .. N : r[M + k] = t[k]
  OBVIOUS
<1>2. IsFiniteSet(A) /\ IsFiniteSet(B)
  BY OccursTypes
<1> HIDE DEF M, N, r
<1>3. \A k \in DOMAIN r : k > M => k - M \in 1 .. N /\ k = M + (k - M)
  BY <1>1
<1>4. C = A \cup D /\ A \cap D = {}
  <2>1. \A k \in 1 .. M : k \in DOMAIN r /\ ~(k > M)
    BY <1>1
  <2>2. \A k \in DOMAIN r : ~(k > M) => k \in 1 .. M
    BY <1>1
  <2> QED BY <1>1, <2>1, <2>2
<1>5. f \in [B -> D]
  <2>1. \A k \in 1 .. N : M + k \in DOMAIN r /\ M + k > M
    BY <1>1
  <2> QED BY <1>1, <2>1
<1>6. \A a, b \in B : f[a] = f[b] => a = b
  BY <1>1
<1>7. \A y \in D : \E a \in B : f[a] = y
  <2> SUFFICES ASSUME NEW y \in D PROVE \E a \in B : f[a] = y
    OBVIOUS
  <2> DEFINE a == y - M
  <2>1. a \in 1 .. N /\ y = M + a /\ r[y] = x
    BY <1>3
  <2> HIDE DEF a
  <2>2. a \in B /\ f[a] = y
    BY <1>1, <2>1
  <2> QED BY <2>2
<1> HIDE DEF f
<1>8. IsFiniteSet(D) /\ Cardinality(D) = Cardinality(B)
  BY <1>2, <1>5, <1>6, <1>7, SameNumber
<1> HIDE DEF A, B, D
<1>9. Cardinality(C) = Cardinality(A) + Cardinality(D)
  BY <1>2, <1>4, <1>8, NumberOfBoth
<1> QED BY <1>8, <1>9 DEF Occurs, A, B, C, r

\* One list more.
CountsMore(d, J, j, x) == Tally(d, J \cup {j}, x) = Tally(d, J, x) + Occurs(d[j], x)

\* The places in one list more.
LEMMA SpotsMore ==
    ASSUME NEW d, NEW J, NEW j, j \notin J, NEW S, d[j] \in Seq(S), NEW x, IsFiniteSet(Spots(d, J, x))
    PROVE  /\ IsFiniteSet(Spots(d, J \cup {j}, x))
           /\ CountsMore(d, J, j, x)
<1> DEFINE A == Spots(d, J, x)
           B == Spots(d, {j}, x)
           K == {k \in DOMAIN d[j] : d[j][k] = x}
           f == [k \in K |-> <<j, k>>]
<1>1. Spots(d, J \cup {j}, x) = A \cup B /\ A \cap B = {}
  BY DEF Spots
<1>2. IsFiniteSet(K)
  BY OccursTypes
<1>3. DOMAIN d[j] \subseteq Nat
  <2>1. DOMAIN d[j] = 1 .. Len(d[j]) /\ Len(d[j]) \in Nat
    OBVIOUS
  <2> QED BY <2>1
<1>4. f \in [K -> B]
  BY <1>3 DEF Spots
<1>5. \A a, b \in K : f[a] = f[b] => a = b
  OBVIOUS
<1>6. \A y \in B : \E a \in K : f[a] = y
  <2> SUFFICES ASSUME NEW y \in B PROVE \E a \in K : f[a] = y
    OBVIOUS
  <2>1. y \in {j} \X Nat /\ y[2] \in DOMAIN d[y[1]] /\ d[y[1]][y[2]] = x
    BY DEF Spots
  <2>2. y = <<j, y[2]>> /\ y[1] = j
    BY <2>1
  <2>3. y[2] \in K
    BY <2>1, <2>2
  <2> QED BY <2>2, <2>3
<1> HIDE DEF f
<1>7. IsFiniteSet(B) /\ Cardinality(B) = Cardinality(K)
  BY <1>2, <1>4, <1>5, <1>6, SameNumber
<1> HIDE DEF A, B
<1>8. IsFiniteSet(A \cup B) /\ Cardinality(A \cup B) = Cardinality(A) + Cardinality(B)
  BY <1>1, <1>7, NumberOfBoth DEF A
<1> QED BY <1>1, <1>7, <1>8 DEF CountsMore, Tally, Occurs, A

\* There are finitely many places, and their number is a natural one.
LEMMA SpotsFinite ==
    ASSUME NEW n \in Nat, NEW S, NEW d, \A j \in 1 .. n : d[j] \in Seq(S), NEW J \in SUBSET (1 .. n), NEW x
    PROVE  IsFiniteSet(Spots(d, J, x)) /\ Tally(d, J, x) \in Nat
<1> DEFINE Q == {m \in Nat : m <= n => IsFiniteSet(Spots(d, 1 .. m, x))}
<1>1. 0 \in Q
  <2>1. 1 .. 0 = {} /\ 0 \in Nat
    OBVIOUS
  <2>2. Spots(d, {}, x) = {}
    BY DEF Spots
  <2> QED BY <2>1, <2>2, FS_EmptySet
<1>2. ASSUME NEW m \in Q PROVE m + 1 \in Q
  <2> SUFFICES ASSUME m + 1 <= n PROVE IsFiniteSet(Spots(d, 1 .. m + 1, x))
    OBVIOUS
  <2>1. m \in Nat /\ m <= n /\ m + 1 \in 1 .. n /\ m + 1 \notin 1 .. m /\ 1 .. m + 1 = (1 .. m) \cup {m + 1}
    OBVIOUS
  <2>2. IsFiniteSet(Spots(d, 1 .. m, x))
    BY <2>1
  <2>3. IsFiniteSet(Spots(d, (1 .. m) \cup {m + 1}, x))
    BY <2>1, <2>2, SpotsMore
  <2> QED BY <2>1, <2>3
<1>3. Q = Nat
  <2> HIDE DEF Q
  <2>1. Q \in SUBSET Nat
    BY DEF Q
  <2> QED BY <1>1, <1>2, <2>1, SetInduction
<1>4. IsFiniteSet(Spots(d, 1 .. n, x))
  <2>1. n \in Q /\ n <= n
    <3> HIDE DEF Q
    <3> QED BY <1>3
  <2> QED BY <2>1
<1>5. Spots(d, J, x) \in SUBSET Spots(d, 1 .. n, x)
  BY DEF Spots
<1>6. IsFiniteSet(Spots(d, J, x))
  BY <1>4, <1>5, FS_Subset
<1> QED BY <1>6, FS_CardinalityType DEF Tally

\* The lists numbered J, one of them apart.
LEMMA TallyMore ==
    ASSUME NEW n \in Nat, NEW S, NEW d, \A j \in 1 .. n : d[j] \in Seq(S), NEW J \in SUBSET (1 .. n), NEW x,
           NEW j \in 1 .. n, j \notin J
    PROVE  /\ CountsMore(d, J, j, x)
           /\ Tally(d, J, x) \in Nat /\ Occurs(d[j], x) \in Nat
<1>1. IsFiniteSet(Spots(d, J, x)) /\ Tally(d, J, x) \in Nat
  BY SpotsFinite
<1>2. d[j] \in Seq(S)
  OBVIOUS
<1>3. CountsMore(d, J, j, x)
  BY <1>1, <1>2, SpotsMore
<1> QED BY <1>1, <1>2, <1>3, OccursTypes

\* No list, no place.
LEMMA TallyNone ==
    ASSUME NEW d, NEW x
    PROVE  Tally(d, {}, x) = 0
<1>1. Spots(d, {}, x) = {}
  BY DEF Spots
<1> QED BY <1>1, FS_EmptySet DEF Tally

\* The same lists have the same places.
Agree(d, e, J) == \A j \in J : d[j] = e[j]

LEMMA TallySame ==
    ASSUME NEW d, NEW e, NEW J, Agree(d, e, J), NEW x
    PROVE  Tally(d, J, x) = Tally(e, J, x)
<1>1. Spots(d, J, x) = Spots(e, J, x)
  BY DEF Spots, Agree
<1> QED BY <1>1 DEF Tally

\* Lists without elements do not count.
LEMMA TallySkips ==
    ASSUME NEW d, NEW J, NEW I \in SUBSET J, \A j \in J : j \notin I => d[j] = <<>>, NEW x
    PROVE  Tally(d, J, x) = Tally(d, I, x)
<1>1. Spots(d, J, x) = Spots(d, I, x)
  <2>1. DOMAIN <<>> = {}
    OBVIOUS
  <2> QED BY <2>1 DEF Spots
<1> QED BY <1>1 DEF Tally

\* Neither does their order: p gives the lists numbered J their numbers in I.
Renumbers(p, d, J, e, I) ==
    /\ p \in [J -> I]
    /\ \A i, j \in J : p[i] = p[j] => i = j
    /\ \A i \in I : \E j \in J : p[j] = i
    /\ \A j \in J : d[j] = e[p[j]]

LEMMA TallyMoved ==
    ASSUME NEW p, NEW d, NEW J, NEW e, NEW I, Renumbers(p, d, J, e, I), NEW x, IsFiniteSet(Spots(d, J, x))
    PROVE  Tally(e, I, x) = Tally(d, J, x)
<1> USE DEF Renumbers
<1> DEFINE A == Spots(d, J, x)
           B == Spots(e, I, x)
           f == [z \in A |-> <<p[z[1]], z[2]>>]
<1>1. \A z \in A : z \in J \X Nat /\ z = <<z[1], z[2]>> /\ z[1] \in J /\ z[2] \in Nat
                   /\ z[2] \in DOMAIN d[z[1]] /\ d[z[1]][z[2]] = x
  BY DEF Spots
<1>2. f \in [A -> B]
  <2> SUFFICES ASSUME NEW z \in A PROVE <<p[z[1]], z[2]>> \in B
    OBVIOUS
  <2> QED BY <1>1 DEF Spots
<1>3. \A a, b \in A : f[a] = f[b] => a = b
  <2> SUFFICES ASSUME NEW a \in A, NEW b \in A, f[a] = f[b] PROVE a = b
    OBVIOUS
  <2>1. p[a[1]] = p[b[1]] /\ a[2] = b[2]
    OBVIOUS
  <2>2. a[1] = b[1]
    BY <1>1, <2>1
  <2> HIDE DEF A
  <2> QED BY <1>1, <2>1, <2>2
<1>4. \A y \in B : \E a \in A : f[a] = y
  <2> SUFFICES ASSUME NEW y \in B PROVE \E a \in A : f[a] = y
    OBVIOUS
  <2>1. y = <<y[1], y[2]>> /\ y[1] \in I /\ y[2] \in Nat /\ y[2] \in DOMAIN e[y[1]] /\ e[y[1]][y[2]] = x
    BY DEF Spots
  <2>2. PICK j \in J : p[j] = y[1]
    BY <2>1
  <2> DEFINE a == <<j, y[2]>>
  <2>3. a \in A
    BY <2>1, <2>2 DEF Spots
  <2>4. f[a] = <<p[j], y[2]>>
    BY <2>3
  <2> QED BY <2>1, <2>2, <2>3, <2>4
<1> HIDE DEF f
<1>5. Cardinality(B) = Cardinality(A)
  <2> HIDE DEF B
  <2> QED BY <1>2, <1>3, <1>4, SameNumber
<1> QED BY <1>5 DEF Tally

\* A multiple of the sampling interval leaves no remainder.
LEMMA NoRemainder ==
    ASSUME NEW q \in Int
    PROVE  (q * One) % One = 0
<1> DEFINE y == q * One
<1>1. y \in Int /\ y \div One = q
  BY OneAssumption, Quotient
<1>2. y = One * (y \div One) + (y % One) /\ y % One \in Int
  <2> HIDE DEF y
  <2> QED BY <1>1, OneAssumption
<1>3. One * q = q * One /\ One * q \in Int
  BY OneAssumption
<1> HIDE DEF y
<1> QED BY <1>1, <1>2, <1>3 DEF y

\* A packet with a rate has each of its samples once.
LEMMA SampleOnce ==
    ASSUME NEW p, Packet(p), p.n > 0 => p.rate, NEW x \in Int
    PROVE  Occurs(Samples(p), x) = IF Has(p, x) THEN 1 ELSE 0
<1> DEFINE d == Samples(p)
           n == p.n
           s == p.s
<1>1. n \in Nat /\ s \in Int /\ DOMAIN d = 1 .. n /\ \A k \in 1 .. n : d[k] = s + (k - 1) * One
  BY PacketTypes DEF Packet, Samples
<1>2. n > 0 => msr_endtime(p) = s + (n - 1) * One
  BY DEF msr_endtime
<1> HIDE DEF d, n, s
<1>3. ASSUME NEW k \in 1 .. n, d[k] = x PROVE Has(p, x)
  <2> DEFINE q == k - 1
             m == n - 1
  <2>1. q \in Int /\ 0 \in Int /\ m \in Int /\ 0 <= q /\ q <= m /\ n > 0 /\ x = s + q * One
    BY <1>1, <1>3
  <2> HIDE DEF q, m
  <2>2. 0 * One <= q * One /\ q * One <= m * One /\ q * One \in Int /\ m * One \in Int /\ 0 * One = 0
    BY <2>1, Intervals, OneAssumption
  <2>3. s <= x /\ x <= s + m * One
    BY <1>1, <2>1, <2>2
  <2>4. (x - s) % One = 0
    <3>1. x - s = q * One
      BY <1>1, <2>1, <2>2
    <3> QED BY <2>1, <3>1, NoRemainder
  <2> QED BY <1>2, <2>1, <2>3, <2>4 DEF Has, n, s, m
<1>4. ASSUME Has(p, x) PROVE \E k \in 1 .. n : d[k] = x
  <2>1. n > 0 /\ s <= x /\ x <= s + (n - 1) * One /\ (x - s) % One = 0
    BY <1>2, <1>4 DEF Has, n, s
  <2>2. PICK q \in Int : x = s + q * One
    BY <1>1, <2>1, GridOfRemainder DEF OnGrid
  <2> DEFINE m == n - 1
  <2>3. m \in Int /\ 0 \in Int /\ x <= s + m * One
    BY <1>1, <2>1
  <2>4. 0 * One = 0 /\ q * One \in Int /\ m * One \in Int
    BY <2>3, OneAssumption
  <2> HIDE DEF m
  <2>5. 0 * One <= q * One /\ q * One <= m * One
    BY <1>1, <2>1, <2>2, <2>3, <2>4
  <2>6. 0 <= q /\ q <= m
    BY <2>3, <2>5, Intervals
  <2> DEFINE k == q + 1
  <2>7. k \in 1 .. n /\ k - 1 = q
    BY <1>1, <2>6 DEF m
  <2> HIDE DEF k
  <2>8. d[k] = x
    BY <1>1, <2>2, <2>7
  <2> QED BY <2>7, <2>8
<1>5. ASSUME NEW j \in 1 .. n, NEW k \in 1 .. n, d[j] = d[k] PROVE j = k
  <2> DEFINE a == j - 1
             b == k - 1
  <2>1. a \in Int /\ b \in Int /\ s + a * One = s + b * One
    BY <1>1, <1>5
  <2> HIDE DEF a, b
  <2>2. a * One \in Int /\ b * One \in Int
    BY <2>1, OneAssumption
  <2>3. a * One <= b * One /\ b * One <= a * One
    BY <1>1, <2>1, <2>2
  <2>4. a <= b /\ b <= a
    BY <2>1, <2>3, Intervals
  <2>5. a = b
    BY <2>1, <2>4
  <2> QED BY <1>1, <2>5 DEF a, b
<1>6. CASE Has(p, x)
  <2>1. PICK k \in 1 .. n : d[k] = x
    BY <1>4, <1>6
  <2>2. {j \in DOMAIN d : d[j] = x} = {k}
    BY <1>1, <1>5, <2>1
  <2> QED BY <1>6, <2>2, FS_Singleton DEF Occurs, d
<1>7. CASE ~Has(p, x)
  <2>1. \A k \in DOMAIN d : d[k] # x
    BY <1>1, <1>3, <1>7
  <2> QED BY <1>7, <2>1, OccursNot DEF d
<1> QED BY <1>6, <1>7

-----------------------------------------------------------------------------
(* No sample is lost or doubled by the trace groups.                       *)

\* The samples of each trace of a group, and how often one is among them.
Data(g) == [j \in DOMAIN g |-> g[j].d]
GroupTally(g, x) == Tally(Data(g), DOMAIN g, x)

\* The samples of a group are lists.
LEMMA DataTypes ==
    ASSUME NEW g \in Seq(GroupTraces)
    PROVE  /\ Len(g) \in Nat /\ DOMAIN g = 1 .. Len(g)
           /\ \A j \in 1 .. Len(g) : Data(g)[j] = g[j].d /\ Data(g)[j] \in Seq(Int)
<1>1. Len(g) \in Nat /\ DOMAIN g = 1 .. Len(g) /\ \A j \in 1 .. Len(g) : g[j] \in GroupTraces
  OBVIOUS
<1>2. \A t \in GroupTraces : t.d \in Seq(Int)
  BY DEF GroupTraces
<1> QED BY <1>1, <1>2 DEF Data

\* mst_addmsr: a trace that takes a packet has its samples and the packet's.
LEMMA ExtendedOccurs ==
    ASSUME NEW t \in GroupTraces, NEW s, NEW e, NEW d \in Seq(Int), NEW w, NEW x
    PROVE  Occurs(Extended(t, s, e, d, w).d, x) = Occurs(t.d, x) + Occurs(d, x)
<1>1. t.d \in Seq(Int) /\ t = [s |-> t.s, e |-> t.e, d |-> t.d, rate |-> t.rate]
  BY DEF GroupTraces
<1>2. Extended(t, s, e, d, w).d = IF w = 1 THEN t.d \o d ELSE d \o t.d
  BY <1>1 DEF Extended
<1>3. /\ Occurs(t.d \o d, x) = Occurs(t.d, x) + Occurs(d, x)
      /\ Occurs(d \o t.d, x) = Occurs(d, x) + Occurs(t.d, x)
      /\ Occurs(d, x) \in Nat /\ Occurs(t.d, x) \in Nat
  BY <1>1, OccursJoin, OccursTypes
<1> QED BY <1>2, <1>3

\* mst_addmsrtogroup: so has the group, whichever trace took the packet.
LEMMA AddTally ==
    ASSUME NEW g \in Seq(GroupTraces), NEW p, Packet(p), p.n > 0 => p.rate, NEW any \in BOOLEAN, NEW x \in Int,
           NEW h, h = mst_addmsrtogroup(g, p, any)
    PROVE  GroupTally(h, x) = GroupTally(g, x) + Occurs(Samples(p), x) /\ GroupTally(g, x) \in Nat
<1> DEFINE n == Len(g)
           fits == mst_findadjacent(g, p, any)
           j == CHOOSE j \in fits : \A k \in fits : j <= k
           t == [s |-> p.s, e |-> msr_endtime(p), d |-> Samples(p), rate |-> p.rate]
           u == Extended(g[j], p.s, msr_endtime(p), Samples(p), Whence(g[j], p, any))
<1>0. h \in Seq(GroupTraces)
  BY AddTypes
<1>1. /\ n \in Nat /\ DOMAIN g = 1 .. n /\ \A k \in 1 .. n : Data(g)[k] = g[k].d /\ Data(g)[k] \in Seq(Int)
      /\ Len(h) \in Nat /\ DOMAIN h = 1 .. Len(h)
      /\ \A k \in 1 .. Len(h) : Data(h)[k] = h[k].d /\ Data(h)[k] \in Seq(Int)
  BY <1>0, DataTypes
<1>2. Samples(p) \in Seq(Int) /\ msr_endtime(p) \in Int /\ p.s \in Int /\ Occurs(Samples(p), x) \in Nat
  <2>1. Samples(p) \in Seq(Int) /\ msr_endtime(p) \in Int /\ p.s \in Nat
    BY PacketTypes
  <2>2. p.s \in Int
    BY <2>1
  <2>3. Occurs(Samples(p), x) \in Nat
    BY <2>1, OccursTypes
  <2> QED BY <2>1, <2>2, <2>3
<1>3. GroupTally(g, x) \in Nat
  BY <1>1, SpotsFinite DEF GroupTally
<1>4. ASSUME fits # {} PROVE j \in 1 .. n
  <2>1. fits \in SUBSET Nat
    BY <1>1 DEF mst_findadjacent
  <2>2. j \in fits
    BY <1>4, <2>1, LeastElement
  <2> QED BY <1>1, <2>2 DEF mst_findadjacent
<1>5. h = IF fits = {} THEN Append(g, t) ELSE IF p.n = 0 \/ ~p.rate THEN g ELSE [g EXCEPT ![j] = u]
  BY DEF mst_addmsrtogroup
<1>6. t \in GroupTraces /\ t.d = Samples(p)
  BY PacketTypes DEF GroupTraces
<1> HIDE DEF t, j, fits
<1>7. CASE fits = {}
  <2>1. h = Append(g, t)
    BY <1>5, <1>7
  <2>2. Len(h) = n + 1 /\ h[n + 1] = t /\ \A k \in 1 .. n : h[k] = g[k]
    BY <1>6, <2>1
  <2> HIDE DEF n
  <2>3. n + 1 \in 1 .. n + 1 /\ n + 1 \notin 1 .. n /\ 1 .. n + 1 = (1 .. n) \cup {n + 1} /\ 1 .. n \in SUBSET (1 .. n + 1)
    BY <1>1
  <2>4. CountsMore(Data(h), 1 .. n, n + 1, x)
    BY <1>1, <2>2, <2>3, TallyMore
  <2>5. Tally(Data(h), 1 .. n, x) = Tally(Data(g), 1 .. n, x)
    <3>1. Agree(Data(h), Data(g), 1 .. n)
      BY <1>1, <2>2, <2>3 DEF Agree
    <3> QED BY <3>1, TallySame
  <2>6. Data(h)[n + 1] = Samples(p)
    BY <1>1, <1>6, <2>2, <2>3
  <2> QED BY <1>1, <1>3, <2>2, <2>3, <2>4, <2>5, <2>6 DEF GroupTally, CountsMore
<1>8. CASE fits # {} /\ (p.n = 0 \/ ~p.rate)
  <2>1. h = g /\ p.n = 0
    <3>1. p.n \in Nat
      BY DEF Packet
    <3> QED BY <1>5, <1>8, <3>1
  <2>2. \A k \in DOMAIN Samples(p) : Samples(p)[k] # x
    BY <2>1 DEF Samples
  <2>3. Occurs(Samples(p), x) = 0
    BY <2>2, OccursNot
  <2> QED BY <1>3, <2>1, <2>3
<1>9. CASE fits # {} /\ ~(p.n = 0 \/ ~p.rate)
  <2>1. j \in 1 .. n /\ g[j] \in GroupTraces
    BY <1>1, <1>4, <1>9
  <2>2. h = [g EXCEPT ![j] = u]
    BY <1>5, <1>9
  <2>3. Occurs(u.d, x) = Occurs(g[j].d, x) + Occurs(Samples(p), x)
    BY <1>2, <2>1, ExtendedOccurs
  <2> HIDE DEF u
  <2>4. Len(h) = n /\ h[j] = u /\ \A k \in 1 .. n : k # j => h[k] = g[k]
    BY <1>1, <2>1, <2>2
  <2> HIDE DEF n
  <2> DEFINE J == (1 .. n) \ {j}
  <2>5. J \in SUBSET (1 .. n) /\ j \notin J /\ J \cup {j} = 1 .. n
    BY <2>1
  <2>6. \A k \in J : k \in 1 .. n /\ k # j
    OBVIOUS
  <2> HIDE DEF J
  <2>7. /\ CountsMore(Data(g), J, j, x)
        /\ Tally(Data(g), J, x) \in Nat /\ Occurs(Data(g)[j], x) \in Nat
    BY <1>1, <2>1, <2>5, TallyMore
  <2>8. CountsMore(Data(h), J, j, x)
    BY <1>1, <2>1, <2>4, <2>5, TallyMore
  <2>9. Tally(Data(h), J, x) = Tally(Data(g), J, x)
    <3>1. Agree(Data(h), Data(g), J)
      BY <1>1, <2>4, <2>6 DEF Agree
    <3> QED BY <3>1, TallySame
  <2>10. Data(h)[j] = u.d /\ Data(g)[j] = g[j].d
    BY <1>1, <2>1, <2>4
  <2>11. GroupTally(g, x) = Tally(Data(g), J \cup {j}, x) /\ GroupTally(h, x) = Tally(Data(h), J \cup {j}, x)
    BY <1>1, <2>4, <2>5 DEF GroupTally
  <2> QED BY <1>2, <1>3, <2>3, <2>7, <2>8, <2>9, <2>10, <2>11 DEF CountsMore
<1> QED BY <1>7, <1>8, <1>9

\* How many of the first k packets have a sample.
Hits(P, k, x) == Cardinality({i \in 1 .. k : Has(P[i], x)})

\* One packet more.
LEMMA HitsMore ==
    ASSUME NEW P, NEW k \in Nat, NEW x
    PROVE  /\ Hits(P, k + 1, x) = Hits(P, k, x) + (IF Has(P[k + 1], x) THEN 1 ELSE 0)
           /\ Hits(P, k, x) \in Nat
<1> DEFINE A == {i \in 1 .. k : Has(P[i], x)}
<1>1. IsFiniteSet(1 .. k)
  BY FS_Interval
<1>2. IsFiniteSet(A)
  BY <1>1, FS_Subset
<1>3. Cardinality(A) \in Nat
  BY <1>2, FS_CardinalityType
<1>4. 1 .. k + 1 = (1 .. k) \cup {k + 1} /\ k + 1 \notin 1 .. k
  OBVIOUS
<1> HIDE DEF Has
<1>5. CASE Has(P[k + 1], x)
  <2>1. {i \in 1 .. k + 1 : Has(P[i], x)} = A \cup {k + 1} /\ k + 1 \notin A
    BY <1>4, <1>5
  <2> HIDE DEF A
  <2>2. Cardinality(A \cup {k + 1}) = Cardinality(A) + 1
    BY <1>2, <2>1, FS_AddElement
  <2> QED BY <1>3, <1>5, <2>1, <2>2 DEF Hits, A
<1>6. CASE ~Has(P[k + 1], x)
  <2>1. {i \in 1 .. k + 1 : Has(P[i], x)} = A
    BY <1>4, <1>6
  <2> HIDE DEF A
  <2> QED BY <1>3, <1>6, <2>1 DEF Hits, A
<1> QED BY <1>5, <1>6

\* No packet.
LEMMA HitsNone ==
    ASSUME NEW P, NEW x
    PROVE  Hits(P, 0, x) = 0
<1>1. {i \in 1 .. 0 : Has(P[i], x)} = {}
  <2>1. 1 .. 0 = {}
    OBVIOUS
  <2> QED BY <2>1
<1> QED BY <1>1, FS_EmptySet DEF Hits

\* Packets of which those with samples have a rate.
Rated(P) == \A k \in DOMAIN P : P[k].n > 0 => P[k].rate

\* After any packets the group has each sample as often as they have it.
LEMMA GroupKeeps ==
    ASSUME NEW E, NEW P \in Seq(E), Packets(P), Rated(P), NEW any \in BOOLEAN, NEW x \in Int
    PROVE  /\ Group(P, any) \in Seq(GroupTraces)
           /\ GroupTally(Group(P, any), x) = Hits(P, Len(P), x)
<1> DEFINE N == Len(P)
<1>1. N \in Nat /\ DOMAIN P = 1 .. N
  OBVIOUS
<1>2. PICK r : /\ r[0] = <<>>
               /\ \A k \in 1 .. N : r[k] = mst_addmsrtogroup(r[k - 1], P[k], any)
               /\ Group(P, any) = r[N]
  BY GroupRun
<1> HIDE DEF N
<1> DEFINE I(m) == r[m] \in Seq(GroupTraces) /\ GroupTally(r[m], x) = Hits(P, m, x)
           Q == {m \in Nat : m <= N => I(m)}
<1>3. I(0)
  <2>1. <<>> \in Seq(GroupTraces) /\ DOMAIN <<>> = {}
    OBVIOUS
  <2>2. GroupTally(<<>>, x) = 0
    BY <2>1, TallyNone DEF GroupTally
  <2> QED BY <1>2, <2>1, <2>2, HitsNone
<1>4. ASSUME NEW m \in Nat, m + 1 <= N, I(m) PROVE I(m + 1)
  <2>1. m + 1 \in 1 .. N /\ r[m + 1] = mst_addmsrtogroup(r[m], P[m + 1], any)
    BY <1>1, <1>2, <1>4
  <2>2. Packet(P[m + 1]) /\ (P[m + 1].n > 0 => P[m + 1].rate)
    BY <1>1, <2>1 DEF Packets, Rated
  <2>3. r[m + 1] \in Seq(GroupTraces)
    BY <1>4, <2>1, <2>2, AddTypes
  <2>4. GroupTally(r[m + 1], x) = GroupTally(r[m], x) + Occurs(Samples(P[m + 1]), x)
    BY <1>4, <2>1, <2>2, AddTally
  <2>5. Occurs(Samples(P[m + 1]), x) = IF Has(P[m + 1], x) THEN 1 ELSE 0
    BY <2>2, SampleOnce
  <2> QED BY <1>4, <2>3, <2>4, <2>5, HitsMore
<1> HIDE DEF I
<1>5. Q = Nat
  <2>1. 0 \in Q
    BY <1>3
  <2>2. \A m \in Q : m + 1 \in Q
    BY <1>1, <1>4
  <2> HIDE DEF Q
  <2>3. Q \in SUBSET Nat
    BY DEF Q
  <2> QED BY <2>1, <2>2, <2>3, SetInduction
<1>6. I(N)
  BY <1>1, <1>5
<1> QED BY <1>2, <1>6 DEF I, N

\* Sorting.
LEMMA SortTally ==
    ASSUME NEW g \in Seq(GroupTraces), NEW S, g \in Seq(S), NEW key \in [S -> Int], NEW x
    PROVE  GroupTally(StableSort(g, key), x) = GroupTally(g, x)
<1> DEFINE N == Len(g)
           h == StableSort(g, key)
           p == [n \in 1 .. N |-> Place(g, key, n)]
<1>1. N \in Nat /\ DOMAIN g = 1 .. N /\ \A k \in 1 .. N : Data(g)[k] = g[k].d /\ Data(g)[k] \in Seq(Int)
  BY DataTypes
<1>2. /\ \A n \in 1 .. N : /\ Place(g, key, n) \in 1 .. N
                           /\ Cardinality(Preceding(g, key, Place(g, key, n))) = n - 1
      /\ \A k \in 1 .. N : \E n \in 1 .. N : Place(g, key, n) = k
  BY PlacesFilled
<1>3. h = [n \in 1 .. N |-> g[Place(g, key, n)]]
  <2> DEFINE q == [n \in 1 .. N |-> g[Place(g, key, n)]]
  <2>1. h = q \o <<>>
    BY DEF StableSort, Place
  <2>2. q \in Seq(S)
    <3>1. \A k \in 1 .. N : g[k] \in S
      BY <1>1
    <3> QED BY <1>1, <1>2, <3>1
  <2> HIDE DEF q
  <2>3. q \o <<>> = q
    BY <2>2
  <2> QED BY <2>1, <2>3 DEF q
<1> HIDE DEF N, h
<1>4. DOMAIN h = 1 .. N /\ \A n \in 1 .. N : h[n] = g[p[n]]
  BY <1>3
<1>5. p \in [1 .. N -> 1 .. N] /\ \A k \in 1 .. N : \E n \in 1 .. N : p[n] = k
  BY <1>2
<1>6. \A m, n \in 1 .. N : p[m] = p[n] => m = n
  <2> SUFFICES ASSUME NEW m \in 1 .. N, NEW n \in 1 .. N, p[m] = p[n] PROVE m = n
    OBVIOUS
  <2>1. m - 1 = n - 1
    BY <1>2
  <2> QED BY <1>1, <2>1
<1>7. \A n \in 1 .. N : p[n] \in 1 .. N
  BY <1>5
<1> HIDE DEF p
<1>8. \A n \in 1 .. N : Data(h)[n] = Data(g)[p[n]]
  BY <1>1, <1>4, <1>7 DEF Data
<1>9. IsFiniteSet(Spots(Data(h), 1 .. N, x))
  <2>1. \A n \in 1 .. N : Data(h)[n] \in Seq(Int)
    BY <1>1, <1>7, <1>8
  <2> QED BY <1>1, <2>1, SpotsFinite
<1>10. Tally(Data(g), 1 .. N, x) = Tally(Data(h), 1 .. N, x)
  <2>1. Renumbers(p, Data(h), 1 .. N, Data(g), 1 .. N)
    BY <1>5, <1>6, <1>8 DEF Renumbers
  <2> QED BY <1>9, <2>1, TallyMoved
<1> QED BY <1>1, <1>4, <1>10 DEF GroupTally, h

\* mst_groupsort loses nothing.
LEMMA SortedTally ==
    ASSUME NEW g \in Seq(GroupTraces), NEW x
    PROVE  GroupTally(mst_groupsort(g), x) = GroupTally(g, x)
<1> DEFINE T == Elems(g)
           byEnd == [t \in T |-> -t.e]
           byStart == [t \in T |-> t.s]
           h == StableSort(g, byEnd)
<1>1. T \in SUBSET GroupTraces /\ g \in Seq(T)
  BY DEF Elems
<1>2. byEnd \in [T -> Int] /\ byStart \in [T -> Int]
  BY <1>1 DEF GroupTraces
<1>3. mst_groupsort(g) = StableSort(h, byStart)
  <2>1. mst_groupsort(g) = StableSort(StableSort(g, byEnd), byStart)
    BY DEF mst_groupsort
  <2> QED BY <2>1
<1> HIDE DEF T, byEnd, byStart
<1>4. h \in Seq(T)
  BY <1>1, <1>2, SortProperties
<1>5. h \in Seq(GroupTraces)
  <2> HIDE DEF h
  <2> QED BY <1>1, <1>4
<1>6. GroupTally(h, x) = GroupTally(g, x)
  BY <1>1, <1>2, SortTally
<1> HIDE DEF h
<1>7. GroupTally(StableSort(h, byStart), x) = GroupTally(h, x)
  BY <1>2, <1>4, <1>5, SortTally
<1> QED BY <1>3, <1>6, <1>7

\* Healing: the traces that are not gone.
Staying(l) == {j \in DOMAIN l : ~l[j].gone}
LiveTally(l, x) == Tally(Data(l), Staying(l), x)

\* The samples of a group being healed are lists.
LEMMA HealDataTypes ==
    ASSUME NEW n \in Nat, NEW l \in HealLists(n)
    PROVE  DOMAIN l = 1 .. n /\ \A j \in 1 .. n : Data(l)[j] = l[j].d /\ Data(l)[j] \in Seq(Int)
<1>1. DOMAIN l = 1 .. n /\ \A j \in 1 .. n : l[j] \in HealTraces
  BY DEF HealLists
<1>2. \A t \in HealTraces : t.d \in Seq(Int)
  BY DEF HealTraces
<1> QED BY <1>1, <1>2 DEF Data

\* In m trace c has the samples it and y had in l, and y is gone.
Merged(l, m, c, y, x) ==
    /\ Occurs(m[c].d, x) = Occurs(l[c].d, x) + Occurs(l[y].d, x)
    /\ ~m[c].gone /\ m[y].gone
    /\ \A i \in DOMAIN l : i # c /\ i # y => m[i] = l[i]

\* mst_groupheal: the trace y is taken in by c.
LEMMA TakeInMerges ==
    ASSUME NEW n \in Nat, NEW l \in HealLists(n), NEW c \in 1 .. n, NEW y \in 1 .. n, ~l[c].gone, NEW x,
           ~(y = c \/ l[y].gone \/ FitsTrace(l[c], l[y]) = 0)
    PROVE  Merged(l, TakeIn(l, c, y), c, y, x)
<1> DEFINE m == TakeIn(l, c, y)
           w == FitsTrace(l[c], l[y])
           t == Extended(l[c], l[y].s, l[y].e, l[y].d, w)
           z == [l[y] EXCEPT !.gone = TRUE]
<1>1. l[c] \in HealTraces /\ l[y] \in HealTraces /\ DOMAIN l = 1 .. n
  BY DEF HealLists
<1>2. m = [l EXCEPT ![c] = t, ![y].gone = TRUE]
  BY DEF TakeIn
<1>3. l[c].d \in Seq(Int) /\ l[y].d \in Seq(Int)
  BY <1>1 DEF HealTraces
<1>4. t.d = (IF w = 1 THEN l[c].d \o l[y].d ELSE l[y].d \o l[c].d) /\ t.gone = l[c].gone
  BY <1>1 DEF Extended, HealTraces
<1>5. /\ Occurs(l[c].d \o l[y].d, x) = Occurs(l[c].d, x) + Occurs(l[y].d, x)
      /\ Occurs(l[y].d \o l[c].d, x) = Occurs(l[y].d, x) + Occurs(l[c].d, x)
      /\ Occurs(l[c].d, x) \in Nat /\ Occurs(l[y].d, x) \in Nat
  BY <1>3, OccursJoin, OccursTypes
<1>6. z.gone
  BY <1>1 DEF HealTraces
<1> HIDE DEF t, w
<1>7. m[c] = t /\ m[y] = z /\ \A i \in 1 .. n : i # c /\ i # y => m[i] = l[i]
  BY <1>1, <1>2
<1>8. Occurs(t.d, x) = Occurs(l[c].d, x) + Occurs(l[y].d, x)
  BY <1>4, <1>5
<1> HIDE DEF m, z
<1> QED BY <1>1, <1>4, <1>6, <1>7, <1>8 DEF Merged, m

\* Taking in loses nothing.
LEMMA TakeInTally ==
    ASSUME NEW n \in Nat, NEW l \in HealLists(n), NEW c \in 1 .. n, NEW y \in 1 .. n, ~l[c].gone, NEW x,
           NEW m, m = TakeIn(l, c, y)
    PROVE  m \in HealLists(n) /\ ~m[c].gone /\ LiveTally(m, x) = LiveTally(l, x)
<1>1. m \in HealLists(n)
  BY TakeInTypes
<1>2. CASE y = c \/ l[y].gone \/ FitsTrace(l[c], l[y]) = 0
  <2>1. m = l
    BY <1>2 DEF TakeIn
  <2> QED BY <1>1, <2>1
<1>3. CASE ~(y = c \/ l[y].gone \/ FitsTrace(l[c], l[y]) = 0)
  <2>1. Merged(l, m, c, y, x)
    BY <1>3, TakeInMerges
  <2>2. /\ DOMAIN l = 1 .. n /\ DOMAIN m = 1 .. n
        /\ \A j \in 1 .. n : Data(l)[j] = l[j].d /\ Data(l)[j] \in Seq(Int)
        /\ \A j \in 1 .. n : Data(m)[j] = m[j].d /\ Data(m)[j] \in Seq(Int)
    BY <1>1, HealDataTypes
  <2> DEFINE J == {j \in 1 .. n : j # c /\ j # y /\ ~l[j].gone}
             K == J \cup {c}
  <2>3. /\ J \in SUBSET (1 .. n) /\ K \in SUBSET (1 .. n) /\ c \notin J /\ y \notin K
        /\ Staying(l) = K \cup {y} /\ Staying(m) = K
        /\ \A j \in J : j \in 1 .. n /\ l[j] = m[j]
    BY <1>3, <2>1, <2>2 DEF Staying, Merged
  <2> HIDE DEF J
  <2>4. CountsMore(Data(l), J, c, x) /\ Tally(Data(l), J, x) \in Nat /\ Occurs(Data(l)[c], x) \in Nat
    BY <2>2, <2>3, TallyMore
  <2>5. CountsMore(Data(m), J, c, x)
    BY <2>2, <2>3, TallyMore
  <2>6. Tally(Data(l), J, x) = Tally(Data(m), J, x)
    <3>1. ASSUME NEW j \in J PROVE Data(l)[j] = Data(m)[j]
      <4>1. j \in 1 .. n /\ l[j] = m[j]
        BY <2>3
      <4>2. Data(l)[j] = l[j].d /\ Data(m)[j] = m[j].d
        BY <2>2, <4>1
      <4> QED BY <4>1, <4>2
    <3>2. Agree(Data(l), Data(m), J)
      BY <3>1 DEF Agree
    <3> QED BY <3>2, TallySame
  <2>7. Tally(Data(l), K, x) = Tally(Data(l), J, x) + Occurs(Data(l)[c], x)
    BY <2>4 DEF CountsMore
  <2>8. Tally(Data(m), K, x) = Tally(Data(m), J, x) + Occurs(Data(m)[c], x)
    BY <2>5 DEF CountsMore
  <2> HIDE DEF K
  <2>9. CountsMore(Data(l), K, y, x) /\ Occurs(Data(l)[y], x) \in Nat
    BY <2>2, <2>3, TallyMore
  <2>10. Occurs(Data(m)[c], x) = Occurs(Data(l)[c], x) + Occurs(Data(l)[y], x)
    BY <2>1, <2>2 DEF Merged
  <2>11. LiveTally(m, x) = LiveTally(l, x)
    BY <2>3, <2>4, <2>6, <2>7, <2>8, <2>9, <2>10 DEF LiveTally, CountsMore
  <2> QED BY <1>1, <2>1, <2>11 DEF Merged
<1> QED BY <1>2, <1>3

\* Neither does taking in all that fit, one after the other.
LEMMA TakeAllTally ==
    ASSUME NEW n \in Nat, NEW l \in HealLists(n), NEW c \in 1 .. n, NEW x
    PROVE  LiveTally(TakeAll(l, c), x) = LiveTally(l, x)
<1>1. CASE l[c].gone
  BY <1>1 DEF TakeAll
<1>2. CASE ~l[c].gone
  <2>1. PICK r : /\ r[0] = l
                 /\ \A k \in 1 .. n : r[k] = TakeIn(r[k - 1], c, Places(l)[k])
                 /\ TakeAll(l, c) = r[n]
    BY <1>2, TakeAllRun
  <2>2. \A k \in 1 .. n : Places(l)[k] = k
    BY DEF Places, HealLists
  <2> DEFINE I(m) == r[m] \in HealLists(n) /\ ~r[m][c].gone /\ LiveTally(r[m], x) = LiveTally(l, x)
             Q == {m \in Nat : m <= n => I(m)}
  <2>3. I(0)
    BY <1>2, <2>1
  <2>4. ASSUME NEW m \in Nat, m + 1 <= n, I(m) PROVE I(m + 1)
    <3>1. m + 1 \in 1 .. n /\ (m + 1) - 1 = m
      BY <2>4
    <3>2. r[m + 1] = TakeIn(r[m], c, m + 1)
      BY <2>1, <2>2, <3>1
    <3>3. /\ r[m + 1] \in HealLists(n) /\ ~r[m + 1][c].gone
          /\ LiveTally(r[m + 1], x) = LiveTally(r[m], x)
      BY <2>4, <3>1, <3>2, TakeInTally
    <3> QED BY <2>4, <3>3
  <2> HIDE DEF I
  <2>5. Q = Nat
    <3>1. 0 \in Q
      BY <2>3
    <3>2. \A m \in Q : m + 1 \in Q
      BY <2>4
    <3> HIDE DEF Q
    <3>3. Q \in SUBSET Nat
      BY DEF Q
    <3> QED BY <3>1, <3>2, <3>3, SetInduction
  <2>6. I(n)
    BY <2>5
  <2> QED BY <2>1, <2>6 DEF I
<1> QED BY <1>1, <1>2

\* Nor doing so for every trace.
LEMMA HealedTally ==
    ASSUME NEW g \in Seq(GroupTraces), NEW x
    PROVE  Healed(g) \in HealLists(Len(g)) /\ LiveTally(Healed(g), x) = GroupTally(g, x)
<1> DEFINE n == Len(g)
           l == Marked(g)
<1>1. n \in Nat /\ DOMAIN g = 1 .. n /\ \A j \in 1 .. n : Data(g)[j] = g[j].d
  BY DataTypes
<1>2. l \in HealLists(n) /\ \A j \in 1 .. n : l[j].d = g[j].d /\ ~l[j].gone
  BY <1>1, MarkedTypes
<1>3. PICK r : /\ r[0] = l
               /\ \A k \in 1 .. n : r[k] = TakeAll(r[k - 1], Places(g)[k])
               /\ Healed(g) = r[n]
  BY HealRun
<1> HIDE DEF n, l
<1>4. \A k \in 1 .. n : Places(g)[k] = k
  BY <1>1 DEF Places
<1>5. LiveTally(l, x) = GroupTally(g, x)
  <2>1. DOMAIN l = 1 .. n /\ \A j \in 1 .. n : Data(l)[j] = l[j].d
    BY <1>1, <1>2, HealDataTypes
  <2>2. Staying(l) = 1 .. n
    BY <1>2, <2>1 DEF Staying
  <2>3. Agree(Data(l), Data(g), 1 .. n)
    BY <1>1, <1>2, <2>1 DEF Agree
  <2>4. Tally(Data(l), 1 .. n, x) = Tally(Data(g), 1 .. n, x)
    BY <2>3, TallySame
  <2> QED BY <1>1, <2>2, <2>4 DEF LiveTally, GroupTally
<1> DEFINE I(m) == r[m] \in HealLists(n) /\ LiveTally(r[m], x) = GroupTally(g, x)
           Q == {m \in Nat : m <= n => I(m)}
<1>6. I(0)
  BY <1>2, <1>3, <1>5
<1>7. ASSUME NEW m \in Nat, m + 1 <= n, I(m) PROVE I(m + 1)
  <2>1. m + 1 \in 1 .. n /\ (m + 1) - 1 = m
    BY <1>1, <1>7
  <2>2. r[m + 1] = TakeAll(r[m], m + 1)
    BY <1>3, <1>4, <2>1
  <2>3. r[m + 1] \in HealLists(n) /\ LiveTally(r[m + 1], x) = LiveTally(r[m], x)
    BY <1>1, <1>7, <2>1, <2>2, TakeAllTypes, TakeAllTally
  <2> QED BY <1>7, <2>3
<1> HIDE DEF I
<1>8. Q = Nat
  <2>1. 0 \in Q
    BY <1>6
  <2>2. \A m \in Q : m + 1 \in Q
    BY <1>1, <1>7
  <2> HIDE DEF Q
  <2>3. Q \in SUBSET Nat
    BY DEF Q
  <2> QED BY <2>1, <2>2, <2>3, SetInduction
<1>9. I(n)
  BY <1>1, <1>8
<1> QED BY <1>3, <1>9 DEF I, n

\* Some of the traces.
LEMMA OnlyTally ==
    ASSUME NEW g \in Seq(HealTraces), NEW T, NEW x
    PROVE  GroupTally(Only(g, T), x) = Tally(Data(g), {j \in DOMAIN g : g[j] \in T}, x)
<1> DEFINE h == Only(g, T)
           I == {j \in DOMAIN g : g[j] \in T}
           n == Len(h)
           m == Len(g)
<1>1. h \in Seq(HealTraces) /\ Elems(h) = Elems(g) \cap T
  BY OnlyProperties
<1>2. PICK at : Embeds(at, h, g) /\ \A j \in DOMAIN g : g[j] \in T => \E k \in 1 .. n : at[k] = j
  BY OnlyEmbeds
<1> HIDE DEF h
<1>3. /\ n \in Nat /\ DOMAIN h = 1 .. n /\ m \in Nat /\ DOMAIN g = 1 .. m
      /\ \A k \in 1 .. n : h[k] \in HealTraces
  BY <1>1
<1> HIDE DEF n, m
<1>4. /\ at \in [1 .. n -> DOMAIN g]
      /\ \A k \in 1 .. n : h[k] = g[at[k]]
      /\ \A j, k \in 1 .. n : j < k => at[j] < at[k]
  BY <1>2 DEF Embeds, n
<1>5. \A k \in 1 .. n : at[k] \in 1 .. m /\ g[at[k]] \in T
  <2>1. \A k \in 1 .. n : h[k] \in T
    BY <1>1, <1>3 DEF Elems
  <2> QED BY <1>3, <1>4, <2>1
<1>6. at \in [1 .. n -> I]
  BY <1>3, <1>4, <1>5
<1>7. \A j, k \in 1 .. n : at[j] = at[k] => j = k
  <2> SUFFICES ASSUME NEW j \in 1 .. n, NEW k \in 1 .. n, at[j] = at[k] PROVE j = k
    OBVIOUS
  <2>1. at[j] \in Int /\ at[k] \in Int
    BY <1>5
  <2>2. ~(j < k) /\ ~(k < j)
    BY <1>4, <2>1
  <2> QED BY <1>3, <2>2
<1>8. \A k \in 1 .. n : Data(h)[k] = Data(g)[at[k]]
  BY <1>3, <1>4, <1>5 DEF Data
<1>9. Renumbers(at, Data(h), 1 .. n, Data(g), I)
  BY <1>2, <1>6, <1>7, <1>8 DEF Renumbers
<1>10. IsFiniteSet(Spots(Data(h), 1 .. n, x))
  <2>1. \A k \in 1 .. n : Data(h)[k] \in Seq(Int)
    BY <1>3 DEF Data, HealTraces
  <2> QED BY <1>3, <2>1, SpotsFinite
<1> HIDE DEF I
<1>11. Tally(Data(g), I, x) = Tally(Data(h), 1 .. n, x)
  BY <1>9, <1>10, TallyMoved
<1> QED BY <1>3, <1>11 DEF GroupTally, h, I

\* mst_groupheal loses nothing.
LEMMA HealTally ==
    ASSUME NEW g \in Seq(GroupTraces), NEW x
    PROVE  /\ mst_groupheal(g) \in Seq(HealTraces)
           /\ GroupTally(mst_groupheal(g), x) = GroupTally(g, x)
<1> DEFINE l == Healed(g)
           T == {t \in Elems(l) : ~t.gone}
<1>1. mst_groupheal(g) = Only(l, T)
  BY HealIsHealed
<1>2. l \in HealLists(Len(g)) /\ LiveTally(l, x) = GroupTally(g, x)
  BY HealedTally
<1> HIDE DEF l
<1>3. l \in Seq(HealTraces)
  <2>1. Len(g) \in Nat
    OBVIOUS
  <2> QED BY <1>2, <2>1 DEF HealLists
<1>4. {j \in DOMAIN l : l[j] \in T} = Staying(l)
  BY DEF Staying, Elems
<1>5. Only(l, T) \in Seq(HealTraces)
  BY <1>3, OnlyProperties
<1> HIDE DEF T
<1>6. GroupTally(Only(l, T), x) = Tally(Data(l), Staying(l), x)
  BY <1>3, <1>4, OnlyTally
<1> QED BY <1>1, <1>2, <1>5, <1>6 DEF LiveTally

\* Traces without samples have none to lose.
LEMMA WithDataTally ==
    ASSUME NEW g \in Seq(HealTraces), NEW x
    PROVE  WithData(g) \in Seq(HealTraces) /\ GroupTally(WithData(g), x) = GroupTally(g, x)
<1> DEFINE T == {t \in Elems(g) : t.d # <<>>}
           I == {j \in DOMAIN g : g[j] \in T}
<1>1. WithData(g) = Only(g, T)
  BY DEF WithData
<1>2. \A j \in DOMAIN g : j \notin I => Data(g)[j] = <<>>
  BY DEF Data, Elems
<1> HIDE DEF T
<1>3. GroupTally(Only(g, T), x) = Tally(Data(g), I, x)
  BY OnlyTally
<1>4. I \in SUBSET DOMAIN g
  OBVIOUS
<1> HIDE DEF I
<1>5. Tally(Data(g), DOMAIN g, x) = Tally(Data(g), I, x)
  BY <1>2, <1>4, TallySkips
<1>6. Only(g, T) \in Seq(HealTraces)
  BY OnlyProperties
<1> QED BY <1>1, <1>3, <1>5, <1>6 DEF GroupTally

\* One trace, or one overlap, more in a list g of them.
HasMore(h, g, d, x) == GroupTally(h, x) = GroupTally(g, x) + Occurs(d, x)

\* A trace appended adds what it has.
LEMMA AppendTally ==
    ASSUME NEW S, \A t \in S : t.d \in Seq(Int), NEW g \in Seq(S), NEW t \in S, NEW x, NEW h, h = Append(g, t)
    PROVE  HasMore(h, g, t.d, x) /\ GroupTally(g, x) \in Nat
<1> DEFINE n == Len(g)
<1>1. /\ n \in Nat /\ DOMAIN g = 1 .. n /\ \A k \in 1 .. n : g[k] \in S
      /\ h \in Seq(S) /\ DOMAIN h = 1 .. n + 1 /\ h[n + 1] = t /\ \A k \in 1 .. n : h[k] = g[k]
  OBVIOUS
<1> HIDE DEF n
<1>2. n + 1 \in 1 .. n + 1 /\ n + 1 \notin 1 .. n /\ 1 .. n + 1 = (1 .. n) \cup {n + 1} /\ 1 .. n \in SUBSET (1 .. n + 1)
      /\ n + 1 \in Nat
  BY <1>1
<1>3. \A k \in 1 .. n + 1 : Data(h)[k] = h[k].d /\ Data(h)[k] \in Seq(Int)
  <2>1. \A k \in 1 .. n + 1 : h[k] \in S
    BY <1>1, <1>2
  <2> QED BY <1>1, <2>1 DEF Data
<1>4. \A k \in 1 .. n : Data(g)[k] = g[k].d /\ Data(g)[k] \in Seq(Int)
  BY <1>1 DEF Data
<1>5. CountsMore(Data(h), 1 .. n, n + 1, x)
  BY <1>2, <1>3, TallyMore
<1>6. Agree(Data(h), Data(g), 1 .. n)
  BY <1>1, <1>2, <1>3, <1>4 DEF Agree
<1>7. Tally(Data(h), 1 .. n, x) = Tally(Data(g), 1 .. n, x)
  BY <1>6, TallySame
<1>8. GroupTally(g, x) \in Nat
  BY <1>1, <1>4, SpotsFinite DEF GroupTally
<1>9. Data(h)[n + 1] = t.d
  BY <1>1, <1>2, <1>3
<1> QED BY <1>1, <1>2, <1>5, <1>7, <1>8, <1>9 DEF GroupTally, CountsMore, HasMore

\* A list cut in two has what its parts have.
LEMMA OccursCut ==
    ASSUME NEW s \in Seq(Int), NEW n \in 0 .. Len(s), NEW x
    PROVE  /\ SubSeq(s, 1, n) \in Seq(Int) /\ SubSeq(s, n + 1, Len(s)) \in Seq(Int)
           /\ Occurs(SubSeq(s, 1, n), x) + Occurs(SubSeq(s, n + 1, Len(s)), x) = Occurs(s, x)
           /\ n = Len(s) => Occurs(SubSeq(s, n + 1, Len(s)), x) = 0
<1> DEFINE a == SubSeq(s, 1, n)
           b == SubSeq(s, n + 1, Len(s))
           m == Len(s)
<1>1. /\ m \in Nat /\ n \in 0 .. m /\ DOMAIN s = 1 .. m
      /\ a \in Seq(Int) /\ Len(a) = n /\ b \in Seq(Int) /\ Len(b) = m - n
      /\ \A k \in 1 .. n : a[k] = s[k]
      /\ \A k \in 1 .. m - n : b[k] = s[n + k]
  OBVIOUS
<1> HIDE DEF a, b, m
<1>2. a \o b = s
  <2> DEFINE r == a \o b
  <2>1. /\ r \in Seq(Int) /\ DOMAIN r = 1 .. Len(a) + Len(b)
        /\ \A k \in 1 .. Len(a) : r[k] = a[k]
        /\ \A k \in 1 .. Len(b) : r[Len(a) + k] = b[k]
    <3>1. a \in Seq(Int) /\ b \in Seq(Int)
      BY <1>1
    <3> QED BY <3>1
  <2> HIDE DEF r
  <2>2. n + (m - n) = m /\ m - n \in Nat
    BY <1>1
  <2>3. DOMAIN r = 1 .. m
    BY <1>1, <2>1, <2>2
  <2>4. ASSUME NEW k \in 1 .. m PROVE r[k] = s[k]
    <3>1. CASE k \in 1 .. n
      BY <1>1, <2>1, <3>1
    <3>2. CASE ~(k \in 1 .. n)
      <4> DEFINE q == k - n
      <4>1. q \in 1 .. m - n /\ n + q = k
        BY <1>1, <3>2
      <4> HIDE DEF q
      <4>2. r[n + q] = b[q] /\ b[q] = s[n + q]
        BY <1>1, <2>1, <4>1
      <4> QED BY <4>1, <4>2
    <3> QED BY <3>1, <3>2
  <2>5. r = s
    BY <1>1, <2>1, <2>3, <2>4
  <2> QED BY <2>5 DEF r
<1>3. Occurs(a \o b, x) = Occurs(a, x) + Occurs(b, x)
  BY <1>1, OccursJoin
<1>4. n = m => Occurs(b, x) = 0
  <2>1. n = m => DOMAIN b = {}
    BY <1>1
  <2> QED BY <2>1, OccursNot
<1> QED BY <1>1, <1>2, <1>3, <1>4 DEF a, b, m

\* The samples of a layout: those of the array and those of the overlaps.
LayoutTally(a, x) == Occurs(a.data, x) + GroupTally(a.olaps, x)
Takes(c, a, t, x) == LayoutTally(c, x) = LayoutTally(a, x) + Occurs(t.d, x)

\* A trace that overlaps is laid out in part, the rest is kept as an overlap.
LEMMA OverlapTally ==
    ASSUME NEW a \in Layouts, NEW t \in HealTraces, t.s < a.end + One, NEW c, IsOverlap(a, c, t), NEW x
    PROVE  Takes(c, a, t, x)
<1> DEFINE n == Over(a, t)
           o == [from |-> Len(a.data) - OlapPoints(a.end, t), d |-> SubSeq(t.d, 1, n)]
           u == SubSeq(t.d, n + 1, Len(t.d))
<1>1. t.d \in Seq(Int) /\ a.data \in Seq(Int) /\ a.olaps \in Seq(Overlaps) /\ Len(a.data) \in Nat /\ n \in 0 .. Len(t.d)
      /\ OlapPoints(a.end, t) \in Nat
  <2>1. t.d \in Seq(Int)
    BY TraceTypes
  <2>2. a.data \in Seq(Int) /\ a.olaps \in Seq(Overlaps) /\ Len(a.data) \in Nat
    BY LayoutTypes
  <2>3. OlapPoints(a.end, t) \in Nat /\ Over(a, t) \in 0 .. Len(t.d)
    BY OverTypes
  <2> QED BY <2>1, <2>2, <2>3
<1>2. Covered(a, t) => n = Len(t.d)
  BY DEF Over
<1>3. /\ c.data = IF Covered(a, t) THEN a.data ELSE a.data \o u
      /\ c.olaps = Append(a.olaps, o)
  BY DEF IsOverlap
<1> HIDE DEF n
<1>4. /\ SubSeq(t.d, 1, n) \in Seq(Int) /\ u \in Seq(Int)
      /\ Occurs(SubSeq(t.d, 1, n), x) + Occurs(u, x) = Occurs(t.d, x)
      /\ n = Len(t.d) => Occurs(u, x) = 0
  BY <1>1, OccursCut
<1> HIDE DEF u
<1>5. /\ Occurs(a.data \o u, x) = Occurs(a.data, x) + Occurs(u, x)
      /\ Occurs(a.data, x) \in Nat /\ Occurs(u, x) \in Nat /\ Occurs(SubSeq(t.d, 1, n), x) \in Nat
  <2>1. a.data \in Seq(Int) /\ u \in Seq(Int) /\ SubSeq(t.d, 1, n) \in Seq(Int)
    BY <1>1, <1>4
  <2>2. Occurs(a.data \o u, x) = Occurs(a.data, x) + Occurs(u, x)
    BY <2>1, OccursJoin
  <2>3. Occurs(a.data, x) \in Nat /\ Occurs(u, x) \in Nat /\ Occurs(SubSeq(t.d, 1, n), x) \in Nat
    BY <2>1, OccursTypes
  <2> QED BY <2>2, <2>3
<1>6. o \in Overlaps /\ o.d = SubSeq(t.d, 1, n)
  BY <1>1, <1>4 DEF Overlaps
<1> HIDE DEF o
<1>7. HasMore(c.olaps, a.olaps, o.d, x) /\ GroupTally(a.olaps, x) \in Nat
  <2>1. \A z \in Overlaps : z.d \in Seq(Int)
    BY DEF Overlaps
  <2> QED BY <1>1, <1>3, <1>6, <2>1, AppendTally
<1>8. Occurs(c.data, x) = Occurs(a.data, x) + Occurs(u, x)
  BY <1>2, <1>3, <1>4, <1>5
<1>9. GroupTally(c.olaps, x) = GroupTally(a.olaps, x) + Occurs(SubSeq(t.d, 1, n), x)
  BY <1>6, <1>7 DEF HasMore
<1> QED BY <1>4, <1>5, <1>7, <1>8, <1>9 DEF Takes, LayoutTally

\* A trace laid out adds what it has; the gap before it adds only Zeros.
LEMMA AddTraceTally ==
    ASSUME NEW a \in Layouts, NEW t \in HealTraces, NEW x, x # Zero
    PROVE  Takes(AddTrace(a, t), a, t, x)
<1> DEFINE c == IF t.s < a.end + One THEN AddOverlap(a, t)
                ELSE IF t.s > a.end + One THEN AddGap(a, t)
                ELSE [a EXCEPT !.data = @ \o t.d]
<1>1. t.d \in Seq(Int) /\ a.data \in Seq(Int) /\ a.olaps \in Seq(Overlaps)
  BY TraceTypes, LayoutTypes
<1>2. /\ Occurs(a.data, x) \in Nat /\ Occurs(t.d, x) \in Nat /\ GroupTally(a.olaps, x) \in Nat
      /\ Occurs(a.data \o t.d, x) = Occurs(a.data, x) + Occurs(t.d, x)
  <2>1. Occurs(a.data \o t.d, x) = Occurs(a.data, x) + Occurs(t.d, x)
    BY <1>1, OccursJoin
  <2>2. Occurs(a.data, x) \in Nat /\ Occurs(t.d, x) \in Nat
    BY <1>1, OccursTypes
  <2>3. GroupTally(a.olaps, x) \in Nat
    <3>1. Len(a.olaps) \in Nat /\ DOMAIN a.olaps = 1 .. Len(a.olaps)
          /\ \A k \in 1 .. Len(a.olaps) : a.olaps[k] \in Overlaps
      BY <1>1
    <3>2. \A k \in 1 .. Len(a.olaps) : Data(a.olaps)[k] \in Seq(Int)
      BY <3>1 DEF Data, Overlaps
    <3> QED BY <3>1, <3>2, SpotsFinite DEF GroupTally
  <2> QED BY <2>1, <2>2, <2>3
<1>3. c \in Layouts /\ Takes(c, a, t, x)
  <2>1. CASE t.s < a.end + One
    <3>1. c = AddOverlap(a, t)
      BY <2>1
    <3> HIDE DEF c
    <3>2. IsOverlap(a, c, t)
      BY <2>1, <3>1, OverlapIs, Zenon
    <3>3. c \in Layouts
      BY <3>2 DEF IsOverlap
    <3> QED BY <2>1, <3>2, <3>3, OverlapTally
  <2>2. CASE ~(t.s < a.end + One) /\ t.s > a.end + One
    <3>1. c = AddGap(a, t)
      BY <2>2
    <3> HIDE DEF c
    <3>2. IsGap(a, c, t)
      BY <2>2, <3>1, GapIs, Zenon
    <3> DEFINE fill == GapFill(a.end, t)
               z == [i \in 1 .. fill |-> Zero]
    <3>3. fill \in Nat /\ c \in Layouts /\ c.olaps = a.olaps /\ c.data = a.data \o z \o t.d
      BY <3>2 DEF IsGap
    <3> HIDE DEF fill
    <3>4. z \in Seq(Int) /\ \A k \in DOMAIN z : z[k] # x
      BY <3>3 DEF Zero
    <3>5. Occurs(z, x) = 0
      BY <3>4, OccursNot
    <3> HIDE DEF z
    <3>6. a.data \o z \in Seq(Int)
      BY <1>1, <3>4
    <3>7. Occurs(a.data \o z, x) = Occurs(a.data, x) + Occurs(z, x)
      BY <1>1, <3>4, OccursJoin
    <3>8. Occurs(a.data \o z \o t.d, x) = Occurs(a.data \o z, x) + Occurs(t.d, x)
      BY <1>1, <3>6, OccursJoin
    <3> QED BY <1>2, <3>3, <3>5, <3>7, <3>8 DEF Takes, LayoutTally
  <2>3. CASE ~(t.s < a.end + One) /\ ~(t.s > a.end + One)
    <3>1. c = Adjoined(a, t)
      BY <2>3 DEF Adjoined
    <3> HIDE DEF c
    <3>2. IsJoined(a, c, t)
      BY <3>1, JoinIs, Zenon
    <3>3. c \in Layouts /\ c.olaps = a.olaps /\ c.data = a.data \o t.d
      BY <3>2 DEF IsJoined
    <3> QED BY <1>2, <3>3 DEF Takes, LayoutTally
  <2> QED BY <2>1, <2>2, <2>3
<1>4. AddTrace(a, t) = [c EXCEPT !.end = Greater(@, t.e)]
  BY DEF AddTrace
<1> HIDE DEF c
<1>5. AddTrace(a, t).data = c.data /\ AddTrace(a, t).olaps = c.olaps
  BY <1>3, <1>4, EndIs
<1> QED BY <1>3, <1>5 DEF Takes, LayoutTally

\* All traces laid out add what they have.
LEMMA LayOutTally ==
    ASSUME NEW g \in Seq(HealTraces), NEW x, x # Zero
    PROVE  LayOut(g) \in Layouts /\ LayoutTally(LayOut(g), x) = GroupTally(g, x)
<1>0. \A t \in HealTraces : t.d \in Seq(Int)
  BY DEF HealTraces
<1>1. CASE g = <<>>
  <2>1. LayOut(g) = Nothing
    BY <1>1 DEF LayOut
  <2>2. Nothing.data = <<>> /\ Nothing.olaps = <<>> /\ DOMAIN <<>> = {}
    BY DEF Nothing
  <2>3. GroupTally(<<>>, x) = 0
    BY <2>2, TallyNone DEF GroupTally
  <2>4. Occurs(<<>>, x) = 0
    BY <2>2, OccursNot
  <2>5. Nothing \in Layouts
    BY NothingPlaced
  <2> QED BY <1>1, <2>1, <2>2, <2>3, <2>4, <2>5 DEF LayoutTally
<1>2. CASE g # <<>>
  <2> DEFINE u == Tail(g)
             n == Len(u)
  <2>1. LayOut(g) = FoldLeft(AddTrace, Start(g[1]), u)
    BY <1>2 DEF LayOut
  <2>2. PICK r : /\ r[0] = Start(g[1])
                 /\ \A k \in 1 .. n : r[k] = AddTrace(r[k - 1], u[k])
                 /\ FoldLeft(AddTrace, Start(g[1]), u) = r[n]
    BY <1>2, LayoutRun
  <2>3. /\ n \in Nat /\ Len(g) = n + 1 /\ DOMAIN g = 1 .. n + 1
        /\ \A k \in 1 .. n : u[k] = g[k + 1]
        /\ \A k \in 1 .. n + 1 : g[k] \in HealTraces
    BY <1>2
  <2> HIDE DEF u, n
  <2>4. n + 1 \in Nat /\ \A k \in 1 .. n + 1 : Data(g)[k] = g[k].d /\ Data(g)[k] \in Seq(Int)
    BY <1>0, <2>3 DEF Data
  <2> DEFINE I(m) == r[m] \in Layouts /\ LayoutTally(r[m], x) = Tally(Data(g), 1 .. m + 1, x)
             Q == {m \in Nat : m <= n => I(m)}
  <2>5. I(0)
    <3>1. Start(g[1]) \in Layouts
      BY <1>2, StartTypes
    <3>2. 1 \in 1 .. n + 1 /\ {} \in SUBSET (1 .. n + 1) /\ 1 \notin {} /\ 1 .. 1 = {} \cup {1} /\ 0 + 1 = 1
      BY <2>3
    <3>3. Start(g[1]).data = g[1].d /\ Start(g[1]).olaps = <<>> /\ DOMAIN <<>> = {}
      BY DEF Start, Nothing
    <3>4. GroupTally(<<>>, x) = 0
      BY <3>3, TallyNone DEF GroupTally
    <3>5. CountsMore(Data(g), {}, 1, x) /\ Occurs(Data(g)[1], x) \in Nat
      BY <2>4, <3>2, TallyMore
    <3>6. Tally(Data(g), {}, x) = 0
      BY TallyNone
    <3>7. Tally(Data(g), 1 .. 1, x) = Occurs(g[1].d, x)
      BY <2>4, <3>2, <3>5, <3>6 DEF CountsMore
    <3>8. Occurs(g[1].d, x) \in Nat
      BY <2>4, <3>2, <3>5
    <3> QED BY <2>2, <3>1, <3>2, <3>3, <3>4, <3>7, <3>8 DEF LayoutTally
  <2>6. ASSUME NEW m \in Nat, m + 1 <= n, I(m) PROVE I(m + 1)
    <3> DEFINE j == (m + 1) + 1
    <3>1. m + 1 \in 1 .. n /\ (m + 1) - 1 = m
      BY <2>3, <2>6
    <3>2. j \in 1 .. n + 1 /\ j \notin 1 .. m + 1 /\ 1 .. m + 1 \in SUBSET (1 .. n + 1) /\ 1 .. j = (1 .. m + 1) \cup {j}
      BY <2>3, <2>6
    <3>3. u[m + 1] = g[j] /\ g[j] \in HealTraces
      BY <2>3, <3>1, <3>2
    <3> HIDE DEF j
    <3>4. r[m + 1] = AddTrace(r[m], g[j])
      BY <2>2, <3>1, <3>3
    <3>5. r[m + 1] \in Layouts /\ Takes(r[m + 1], r[m], g[j], x)
      BY <2>6, <3>3, <3>4, AddTraceTypes, AddTraceTally
    <3>6. CountsMore(Data(g), 1 .. m + 1, j, x)
      BY <2>4, <3>2, TallyMore
    <3>7. Data(g)[j] = g[j].d
      BY <2>4, <3>2
    <3>8. LayoutTally(r[m + 1], x) = Tally(Data(g), 1 .. j, x)
      BY <2>6, <3>2, <3>5, <3>6, <3>7 DEF Takes, CountsMore
    <3> QED BY <3>5, <3>8 DEF j
  <2> HIDE DEF I
  <2>7. Q = Nat
    <3>1. 0 \in Q
      BY <2>5
    <3>2. \A m \in Q : m + 1 \in Q
      BY <2>3, <2>6
    <3> HIDE DEF Q
    <3>3. Q \in SUBSET Nat
      BY DEF Q
    <3> QED BY <3>1, <3>2, <3>3, SetInduction
  <2>8. I(n)
    BY <2>3, <2>7
  <2> QED BY <2>1, <2>2, <2>3, <2>8 DEF I, GroupTally
<1> QED BY <1>1, <1>2

\* The array and the overlaps made of packets have each sample as often as the packets.
LEMMA AssembleKeeps ==
    ASSUME NEW E, NEW P \in Seq(E), Packets(P), Rated(P), NEW any \in BOOLEAN, NEW x \in Int, x # Zero
    PROVE  /\ Assemble(P, any) \in Layouts
           /\ LayoutTally(Assemble(P, any), x) = Hits(P, Len(P), x)
<1> DEFINE g == Group(P, any)
           h == mst_groupsort(g)
           i == mst_groupheal(h)
           w == WithData(i)
<1>1. g \in Seq(GroupTraces) /\ GroupTally(g, x) = Hits(P, Len(P), x)
  BY GroupKeeps
<1> HIDE DEF g
<1>2. h \in Seq(GroupTraces) /\ GroupTally(h, x) = GroupTally(g, x)
  BY <1>1, SortedGroup, SortedTally
<1> HIDE DEF h
<1>3. i \in Seq(HealTraces) /\ GroupTally(i, x) = GroupTally(h, x)
  BY <1>2, HealTally
<1> HIDE DEF i
<1>4. w \in Seq(HealTraces) /\ GroupTally(w, x) = GroupTally(i, x)
  BY <1>3, WithDataTally
<1>5. Assemble(P, any) = LayOut(w)
  BY DEF Assemble, g, h, i
<1> HIDE DEF w
<1> QED BY <1>1, <1>2, <1>3, <1>4, <1>5, LayOutTally

\* All the samples of a layout, in one list.
AllSamples(a) == FoldLeft(LAMBDA acc, o : acc \o o.d, a.data, a.olaps)

\* The list of all samples after each overlap.
LEMMA SamplesRun ==
    ASSUME NEW a, a.data \in Seq(Int), a.olaps \in Seq(Overlaps)
    PROVE  \E r : /\ r[0] = a.data
                  /\ \A k \in 1 .. Len(a.olaps) : r[k] = r[k - 1] \o a.olaps[k].d
                  /\ AllSamples(a) = r[Len(a.olaps)]
<1> DEFINE L == a.olaps
           N == Len(L)
           V == Seq(Int)
           D == Overlaps
           F == [z \in V \X D |-> z[1] \o z[2].d]
           IsIt(h) == h = [S \in SUBSET (1 .. N) |->
                             IF S = {} THEN a.data ELSE h[S \ {Max(S)}] \o L[Max(S)].d]
           it == CHOOSE h : IsIt(h)
<1>1. N \in Nat /\ DOMAIN L = 1 .. N /\ L \in Seq(D) /\ Len(L) = N
  OBVIOUS
<1>2. \A v \in V, x \in D : v \o x.d \in V
  BY DEF Overlaps
<1>3. F \in [V \X D -> V] /\ a.data \in V
  <2>1. ASSUME NEW z \in V \X D PROVE z[1] \o z[2].d \in V
    <3> HIDE DEF V, D
    <3>1. z[1] \in V /\ z[2] \in D /\ z = <<z[1], z[2]>>
      OBVIOUS
    <3> QED BY <1>2, <3>1
  <2>2. a.data \in V
    OBVIOUS
  <2> QED BY <2>1, <2>2
<1>4. AllSamples(a) = it[1 .. N]
  BY <1>1 DEF AllSamples, FoldLeft, MapThenFoldSet
<1> HIDE DEF N, V, D, it, L
<1>5. PICK h : IsFold(h, F, a.data, L, N) /\ h \in [SUBSET (1 .. N) -> V]
  <2> HIDE DEF F
  <2> QED BY <1>1, <1>3, FoldExists
<1>6. ASSUME NEW S \in SUBSET (1 .. N), S # {}
      PROVE  F[<<h[S \ {Max(S)}], L[Max(S)]>>] = h[S \ {Max(S)}] \o L[Max(S)].d
  <2>1. Max(S) \in S
    BY <1>1, <1>6, LargestExists
  <2>2. Max(S) \in DOMAIN L /\ S \ {Max(S)} \in SUBSET (1 .. N)
    BY <1>1, <2>1
  <2>3. L[Max(S)] \in D
    BY <1>1, <2>2
  <2>4. h[S \ {Max(S)}] \in V
    BY <1>5, <2>2
  <2> QED BY <2>3, <2>4
<1> HIDE DEF F
<1>7. IsIt(h)
  BY <1>5, <1>6 DEF IsFold
<1>8. IsIt(it)
  BY <1>7 DEF it
<1> DEFINE r == [k \in 0 .. N |-> it[1 .. k]]
<1>9. r[0] = a.data
  <2>1. 1 .. 0 = {} /\ 0 \in 0 .. N
    BY <1>1
  <2> QED BY <1>8, <2>1
<1>10. ASSUME NEW k \in 1 .. N PROVE r[k] = r[k - 1] \o L[k].d
  <2>1. k \in Nat /\ k # 0 /\ k - 1 \in 0 .. N /\ k \in 0 .. N /\ 1 .. k \in SUBSET (1 .. N)
    BY <1>1
  <2>2. 1 .. k # {} /\ Max(1 .. k) = k /\ (1 .. k) \ {k} = 1 .. k - 1
    BY <2>1, FoldPrefix
  <2> QED BY <1>8, <2>1, <2>2
<1>11. N \in 0 .. N
  BY <1>1
<1>12. AllSamples(a) = r[N]
  BY <1>4, <1>11
<1> HIDE DEF r
<1> QED BY <1>9, <1>10, <1>12 DEF N, L

\* It has each sample as often as the array and the overlaps.
LEMMA SamplesTally ==
    ASSUME NEW a, a.data \in Seq(Int), a.olaps \in Seq(Overlaps), NEW x
    PROVE  AllSamples(a) \in Seq(Int) /\ Occurs(AllSamples(a), x) = LayoutTally(a, x)
<1> DEFINE L == a.olaps
           n == Len(L)
<1>1. /\ n \in Nat /\ DOMAIN L = 1 .. n /\ a.data \in Seq(Int)
      /\ \A k \in 1 .. n : L[k].d \in Seq(Int)
  <2>1. L \in Seq(Overlaps) /\ a.data \in Seq(Int) /\ \A o \in Overlaps : o.d \in Seq(Int)
    BY DEF Overlaps
  <2> QED BY <2>1
<1>2. PICK r : /\ r[0] = a.data
               /\ \A k \in 1 .. n : r[k] = r[k - 1] \o L[k].d
               /\ AllSamples(a) = r[n]
  BY SamplesRun
<1>3. \A k \in 1 .. n : Data(L)[k] = L[k].d /\ Data(L)[k] \in Seq(Int)
  BY <1>1 DEF Data
<1> HIDE DEF n, L
<1> DEFINE I(m) == r[m] \in Seq(Int) /\ Occurs(r[m], x) = Occurs(a.data, x) + Tally(Data(L), 1 .. m, x)
           Q == {m \in Nat : m <= n => I(m)}
<1>4. Occurs(a.data, x) \in Nat
  BY <1>1, OccursTypes
<1>5. I(0)
  <2>1. 1 .. 0 = {}
    OBVIOUS
  <2>2. Tally(Data(L), {}, x) = 0
    BY TallyNone
  <2> QED BY <1>1, <1>2, <1>4, <2>1, <2>2
<1>6. ASSUME NEW m \in Nat, m + 1 <= n, I(m) PROVE I(m + 1)
  <2>1. m + 1 \in 1 .. n /\ (m + 1) - 1 = m /\ m + 1 \notin 1 .. m /\ 1 .. m \in SUBSET (1 .. n)
        /\ 1 .. m + 1 = (1 .. m) \cup {m + 1}
    BY <1>1, <1>6
  <2>2. r[m + 1] = r[m] \o L[m + 1].d
    BY <1>2, <2>1
  <2>3. L[m + 1].d \in Seq(Int) /\ Data(L)[m + 1] = L[m + 1].d
    BY <1>1, <1>3, <2>1
  <2>4. r[m + 1] \in Seq(Int)
    BY <1>6, <2>2, <2>3
  <2>5. Occurs(r[m + 1], x) = Occurs(r[m], x) + Occurs(L[m + 1].d, x)
    BY <1>6, <2>2, <2>3, OccursJoin
  <2>6. /\ CountsMore(Data(L), 1 .. m, m + 1, x)
        /\ Tally(Data(L), 1 .. m, x) \in Nat /\ Occurs(Data(L)[m + 1], x) \in Nat
    BY <1>1, <1>3, <2>1, TallyMore
  <2>7. Tally(Data(L), 1 .. m + 1, x) = Tally(Data(L), 1 .. m, x) + Occurs(L[m + 1].d, x)
    BY <2>1, <2>3, <2>6 DEF CountsMore
  <2>8. Occurs(L[m + 1].d, x) \in Nat
    BY <2>3, <2>6
  <2>9. Occurs(r[m + 1], x) = Occurs(a.data, x) + Tally(Data(L), 1 .. m + 1, x)
    BY <1>4, <1>6, <2>5, <2>6, <2>7, <2>8
  <2> QED BY <2>4, <2>9
<1> HIDE DEF I
<1>7. Q = Nat
  <2>1. 0 \in Q
    BY <1>5
  <2>2. \A m \in Q : m + 1 \in Q
    BY <1>1, <1>6
  <2> HIDE DEF Q
  <2>3. Q \in SUBSET Nat
    BY DEF Q
  <2> QED BY <2>1, <2>2, <2>3, SetInduction
<1>8. I(n)
  BY <1>1, <1>7
<1> QED BY <1>1, <1>2, <1>8 DEF I, LayoutTally, GroupTally, L

\* Reading packet by packet.
LEMMA PacketTaken ==
    ASSUME NEW t, NEW a \in Fasts(t), NEW p, Packet(p), NEW c, c = TakePacket(a, p), ~c.again
    PROVE  ~a.again /\ ((p.n = 0 /\ c = a) \/ c.data = a.data \o Samples(p))
<1>1. CASE a.again
  <2>1. c = a
    BY <1>1 DEF TakePacket
  <2> QED BY <1>1, <2>1
<1>2. CASE ~a.again /\ p.odd
  <2>1. c = [a EXCEPT !.again = TRUE]
    BY <1>2 DEF TakePacket
  <2>2. c.again
    BY <2>1 DEF Fasts
  <2> QED BY <2>2
<1>3. CASE ~a.again /\ ~p.odd
  <2>1. p.n \in Nat
    BY PacketTypes
  <2> QED BY <1>3, <2>1, TakenPacket
<1> QED BY <1>1, <1>2, <1>3

\* The packets read in order are joined to one list, which has what they have.
LEMMA FastTally ==
    ASSUME NEW E, file \in Seq(E), Packets(file), Rated(file), NEW t, t.set \in BOOLEAN, ~Fast(t).again, NEW x \in Int
    PROVE  Fast(t).data \in Seq(Int) /\ Occurs(Fast(t).data, x) = Hits(file, Len(file), x)
<1> DEFINE N == Len(file)
<1>1. N \in Nat /\ DOMAIN file = 1 .. N
  OBVIOUS
<1>2. PICK r : /\ r[0] = Begin(t)
               /\ \A k \in 1 .. N : r[k] = TakePacket(r[k - 1], file[k])
               /\ Fast(t) = r[N]
  BY FastRun
<1> HIDE DEF N
<1> DEFINE I(m) == r[m] \in Fasts(t) /\ (~r[m].again => Occurs(r[m].data, x) = Hits(file, m, x))
           Q == {m \in Nat : m <= N => I(m)}
<1>3. I(0)
  <2>1. Begin(t) \in Fasts(t) /\ Begin(t).data = <<>> /\ DOMAIN <<>> = {}
    BY DEF Begin, Fasts
  <2>2. Occurs(<<>>, x) = 0
    BY <2>1, OccursNot
  <2> QED BY <1>2, <2>1, <2>2, HitsNone
<1>4. ASSUME NEW m \in Nat, m + 1 <= N, I(m) PROVE I(m + 1)
  <2> DEFINE p == file[m + 1]
  <2>1. m + 1 \in 1 .. N /\ (m + 1) - 1 = m
    BY <1>1, <1>4
  <2>2. r[m + 1] = TakePacket(r[m], p)
    BY <1>2, <2>1
  <2>3. Packet(p) /\ (p.n > 0 => p.rate)
    BY <1>1, <2>1 DEF Packets, Rated
  <2>4. Hits(file, m + 1, x) = Hits(file, m, x) + (IF Has(p, x) THEN 1 ELSE 0) /\ Hits(file, m, x) \in Nat
    BY HitsMore
  <2> HIDE DEF p
  <2>5. r[m + 1] \in Fasts(t)
    BY <1>4, <2>2, <2>3, TakePacketTypes
  <2>6. ASSUME ~r[m + 1].again PROVE Occurs(r[m + 1].data, x) = Hits(file, m + 1, x)
    <3>1. ~r[m].again /\ ((p.n = 0 /\ r[m + 1] = r[m]) \/ r[m + 1].data = r[m].data \o Samples(p))
      BY <1>4, <2>2, <2>3, <2>6, PacketTaken
    <3>2. Occurs(r[m].data, x) = Hits(file, m, x)
      BY <1>4, <3>1
    <3>3. CASE p.n = 0 /\ r[m + 1] = r[m]
      <4>1. ~Has(p, x)
        BY <3>3 DEF Has
      <4> QED BY <2>4, <3>2, <3>3, <4>1
    <3>4. CASE r[m + 1].data = r[m].data \o Samples(p)
      <4>1. r[m].data \in Seq(Int) /\ Samples(p) \in Seq(Int)
        BY <1>4, <2>3, PacketTypes DEF Fasts
      <4>2. Occurs(r[m].data \o Samples(p), x) = Occurs(r[m].data, x) + Occurs(Samples(p), x)
        BY <4>1, OccursJoin
      <4>3. Occurs(Samples(p), x) = IF Has(p, x) THEN 1 ELSE 0
        BY <2>3, SampleOnce
      <4> QED BY <2>4, <3>2, <3>4, <4>2, <4>3
    <3> QED BY <3>1, <3>3, <3>4
  <2> QED BY <2>5, <2>6
<1> HIDE DEF I
<1>5. Q = Nat
  <2>1. 0 \in Q
    BY <1>3
  <2>2. \A m \in Q : m + 1 \in Q
    BY <1>1, <1>4
  <2> HIDE DEF Q
  <2>3. Q \in SUBSET Nat
    BY DEF Q
  <2> QED BY <2>1, <2>2, <2>3, SetInduction
<1>6. I(N)
  BY <1>1, <1>5
<1>7. Fast(t).data \in Seq(Int)
  BY <1>2, <1>6 DEF I, Fasts
<1> QED BY <1>2, <1>6, <1>7 DEF I, N

\* Packets taken from the file by number.
LEMMA HitsByNumber ==
    ASSUME NEW nums \in Seq(DOMAIN file), Distinct(nums), NEW x
    PROVE  Hits(ToPackets(file, nums), Len(ToPackets(file, nums)), x) = Cardinality({i \in Elems(nums) : Has(file[i], x)})
<1> DEFINE P == ToPackets(file, nums)
           n == Len(nums)
           A == {k \in 1 .. n : Has(P[k], x)}
           B == {i \in Elems(nums) : Has(file[i], x)}
           f == [k \in A |-> nums[k]]
<1>1. n \in Nat /\ DOMAIN nums = 1 .. n /\ \A k \in 1 .. n : nums[k] \in Elems(nums)
  BY DEF Elems
<1>2. Len(P) = n /\ \A k \in 1 .. n : P[k] = file[nums[k]]
  <2>1. P = [i \in 1 .. n |-> file[nums[i]]]
    BY <1>1 DEF ToPackets
  <2> HIDE DEF P
  <2> QED BY <1>1, <2>1
<1> HIDE DEF P, n
<1>3. IsFiniteSet(A)
  <2>1. IsFiniteSet(1 .. n)
    BY <1>1, FS_Interval
  <2> QED BY <2>1, FS_Subset
<1> HIDE DEF Has
<1>4. f \in [A -> B]
  BY <1>1, <1>2
<1>5. \A j, k \in A : f[j] = f[k] => j = k
  BY <1>1 DEF Distinct
<1>6. \A i \in B : \E k \in A : f[k] = i
  <2> SUFFICES ASSUME NEW i \in B PROVE \E k \in A : f[k] = i
    OBVIOUS
  <2>1. PICK k \in 1 .. n : nums[k] = i
    BY <1>1 DEF Elems
  <2>2. k \in A
    BY <1>2, <2>1
  <2> QED BY <2>1, <2>2
<1> HIDE DEF f, A, B
<1>7. Cardinality(B) = Cardinality(A)
  BY <1>3, <1>4, <1>5, <1>6, SameNumber
<1> QED BY <1>2, <1>7 DEF Hits, P, A, B

\* What NothingLost says of a trace.
Joinable(t) == \A i \in Read(t) : file[i].ch = t.ch /\ (file[i].n > 0 => file[i].rate)
HitsOf(t, x) == Cardinality({i \in Read(t) : Has(file[i], x)})
KeepsAll(t) ==
    Joinable(t) =>
        /\ AllSamples(t.data) \in Seq(Int)
        /\ \A x \in Int : x # Zero => Occurs(AllSamples(t.data), x) = HitsOf(t, x)

\* A trace just read (readTrace) has every sample of its packets.
LEMMA ReadKeepsAll ==
    ASSUME NEW E, file \in Seq(E), Packets(file), NEW t, Sound(t), Distinct(t.pk), NEW u,
           NEW r, NEW x, ReadTo(t, u, r, x), u.cut = None
    PROVE  KeepsAll(u)
<1> SUFFICES ASSUME Joinable(u)
             PROVE  /\ AllSamples(r) \in Seq(Int)
                    /\ \A y \in Int : y # Zero => Occurs(AllSamples(r), y) = HitsOf(u, y)
  BY DEF KeepsAll, ReadTo
<1>1. /\ r = get_mseed_data(t) /\ r.data # <<>> /\ u.seen = Len(file)
      /\ u.type = t.type /\ u.ch = t.ch /\ u.pk = t.pk
      /\ t.type \in {"MSEED_DATA", "MSEED_MPLEX_DATA"}
  BY DEF ReadTo, Sound
<1>2. DOMAIN file = 1 .. Len(file) /\ Len(file) \in Nat
  OBVIOUS
<1>3. CASE t.type = "MSEED_DATA"
  <2>1. Read(u) = 1 .. Len(file)
    BY <1>1, <1>3 DEF Read
  <2>2. Rated(file) /\ \A i \in DOMAIN file : file[i].ch = t.ch
    BY <1>1, <1>2, <2>1 DEF Joinable, Rated
  <2>3. \A y : HitsOf(u, y) = Hits(file, Len(file), y)
    BY <2>1 DEF HitsOf, Hits
  <2>4. CASE ~Fast(t).again /\ r = FastData(Fast(t))
    <3>1. t.set \in BOOLEAN
      BY <1>3 DEF Sound
    <3>2. r.data = Fast(t).data /\ r.olaps = <<>> /\ <<>> \in Seq(Overlaps) /\ DOMAIN <<>> = {}
      BY <2>4, FastDataIs
    <3>3. 0 \in Int
      OBVIOUS
    <3>4. r.data \in Seq(Int)
      BY <2>2, <2>4, <3>1, <3>2, <3>3, FastTally
    <3>5. ASSUME NEW y \in Int PROVE Occurs(AllSamples(r), y) = HitsOf(u, y)
      <4>1. Occurs(AllSamples(r), y) = LayoutTally(r, y)
        BY <3>2, <3>4, SamplesTally
      <4>2. GroupTally(<<>>, y) = 0
        BY <3>2, TallyNone DEF GroupTally
      <4>3. Occurs(r.data, y) = Hits(file, Len(file), y)
        BY <2>2, <2>4, <3>1, <3>2, FastTally
      <4>4. Occurs(r.data, y) \in Nat
        BY <3>4, OccursTypes
      <4> QED BY <2>3, <3>2, <4>1, <4>2, <4>3, <4>4 DEF LayoutTally
    <3>6. AllSamples(r) \in Seq(Int)
      BY <3>2, <3>4, SamplesTally
    <3> QED BY <3>5, <3>6
  <2>5. CASE r = get_mseed_trace(t)
    <3> DEFINE T == {p \in Elems(file) : p.ch = t.ch}
               any == FALSE
    <3>1. ~\E i \in DOMAIN file : file[i].odd
      <4>1. Nothing.data = <<>>
        BY DEF Nothing
      <4> QED BY <1>1, <1>3, <2>5, <4>1 DEF get_mseed_trace, Failed
    <3>2. Elems(file) \subseteq T
      BY <2>2 DEF Elems
    <3> HIDE DEF T
    <3>3. Only(file, T) = file
      BY <3>2, OnlyAll
    <3>4. r = Assemble(Only(file, T), any)
      BY <1>3, <2>5, <3>1 DEF get_mseed_trace, T
    <3>5. r = Assemble(file, any) /\ any \in BOOLEAN
      BY <3>3, <3>4
    <3> HIDE DEF any
    <3>6. \A y \in Int : y # Zero => r \in Layouts /\ LayoutTally(r, y) = Hits(file, Len(file), y)
      BY <2>2, <3>5, AssembleKeeps
    <3>7. r \in Layouts
      <4>1. 0 \in Int /\ 0 # Zero
        BY DEF Zero
      <4> QED BY <3>6, <4>1
    <3>8. r.data \in Seq(Int) /\ r.olaps \in Seq(Overlaps)
      BY <3>7, LayoutTypes
    <3> QED BY <2>3, <3>6, <3>8, SamplesTally
  <2> QED BY <1>1, <2>4, <2>5, DataIs
<1>4. CASE t.type = "MSEED_MPLEX_DATA"
  <2> DEFINE P == ToPackets(file, t.pk)
             any == t.blk = 0
  <2>1. r = get_mseed_trace(t)
    BY <1>1, <1>4, DataIs
  <2>2. r = Assemble(P, any)
    BY <1>4, <2>1 DEF get_mseed_trace, pluckPackets
  <2>3. Read(u) = Elems(t.pk) /\ t.pk \in Seq(DOMAIN file)
    BY <1>1, <1>4 DEF Read, Sound
  <2>4. DOMAIN P = 1 .. Len(t.pk) /\ \A k \in 1 .. Len(t.pk) : P[k] = file[t.pk[k]] /\ t.pk[k] \in Elems(t.pk) /\ t.pk[k] \in DOMAIN file
    BY <2>3 DEF ToPackets, Elems
  <2>5. P \in Seq(E)
    <3>1. P = [k \in 1 .. Len(t.pk) |-> file[t.pk[k]]] /\ Len(t.pk) \in Nat
      BY <2>3 DEF ToPackets
    <3>2. \A k \in 1 .. Len(t.pk) : file[t.pk[k]] \in E
      BY <1>2, <2>4
    <3> HIDE DEF P
    <3> QED BY <3>1, <3>2
  <2>6. \A y : HitsOf(u, y) = Hits(P, Len(P), y)
    BY <2>3, HitsByNumber DEF HitsOf
  <2> HIDE DEF P
  <2>7. Packets(P) /\ Rated(P)
    BY <2>3, <2>4 DEF Packets, Rated, Joinable
  <2>8. any \in BOOLEAN
    OBVIOUS
  <2> HIDE DEF any
  <2>9. \A y \in Int : y # Zero => r \in Layouts /\ LayoutTally(r, y) = Hits(P, Len(P), y)
    BY <2>2, <2>5, <2>7, <2>8, AssembleKeeps
  <2>10. r \in Layouts
    <3>1. 0 \in Int /\ 0 # Zero
      BY DEF Zero
    <3> QED BY <2>9, <3>1
  <2>11. r.data \in Seq(Int) /\ r.olaps \in Seq(Overlaps)
    BY <2>10, LayoutTypes
  <2> QED BY <2>6, <2>9, <2>11, SamplesTally
<1> QED BY <1>1, <1>3, <1>4

\* A channel's packets are each in one window only.
LEMMA AppendDistinct ==
    ASSUME NEW S, NEW s \in Seq(S), NEW x \in S, Distinct(s), x \notin Elems(s)
    PROVE  Distinct(Append(s, x))
<1> DEFINE r == Append(s, x)
           n == Len(s)
<1>1. /\ DOMAIN r = 1 .. n + 1 /\ DOMAIN s = 1 .. n /\ n \in Nat /\ r[n + 1] = x
      /\ \A k \in 1 .. n : r[k] = s[k]
  BY AppendElements
<1> HIDE DEF r, n
<1>2. \A k \in 1 .. n : r[k] # x
  BY <1>1 DEF Elems
<1> SUFFICES ASSUME NEW j \in DOMAIN r, NEW k \in DOMAIN r, r[j] = r[k] PROVE j = k
  BY DEF Distinct, r
<1>3. (j \in 1 .. n \/ j = n + 1) /\ (k \in 1 .. n \/ k = n + 1)
  BY <1>1
<1> QED BY <1>1, <1>2, <1>3 DEF Distinct

\* Windows in which no packet is twice.
Separate(f, acc) == acc \in Seq(Seq(DOMAIN f)) /\ \A w \in DOMAIN acc : Distinct(acc[w])

\* A packet in no window yet is put in one (makeTraces).
LEMMA InWindowSeparate ==
    ASSUME NEW f, NEW acc, Separate(f, acc), NEW i \in DOMAIN f, i \notin Held(acc)
    PROVE  Separate(f, InWindow(f, acc, i)) /\ Held(InWindow(f, acc, i)) \subseteq Held(acc) \cup {i}
<1> DEFINE N == Len(acc)
           V == Seq(DOMAIN f)
           r == InWindow(f, acc, i)
<1>1. acc \in Seq(V) /\ N \in Nat /\ DOMAIN acc = 1 .. N /\ \A w \in 1 .. N : acc[w] \in V /\ Distinct(acc[w])
  BY DEF Separate
<1>2. r \in Seq(V)
  BY InWindowTypes DEF Separate
<1>3. \A w \in 1 .. N : i \notin Elems(acc[w])
  BY <1>1 DEF Held
<1>4. CASE acc = <<>> \/ Breached(f, i, f[acc[N][1]].s)
  <2>1. r = Append(acc, <<i>>)
    BY <1>4 DEF InWindow
  <2>2. DOMAIN r = 1 .. N + 1 /\ r[N + 1] = <<i>> /\ \A w \in 1 .. N : r[w] = acc[w]
    <3> HIDE DEF r
    <3>1. <<i>> \in V
      OBVIOUS
    <3> HIDE DEF V
    <3> QED BY <1>1, <2>1, <3>1
  <2> HIDE DEF r, N
  <2>3. Distinct(<<i>>) /\ Elems(<<i>>) = {i}
    BY DEF Distinct, Elems
  <2>4. \A w \in 1 .. N + 1 : w \in 1 .. N \/ w = N + 1
    BY <1>1
  <2>5. \A w \in DOMAIN r : Distinct(r[w])
    BY <1>1, <2>2, <2>3, <2>4
  <2>6. Held(r) \subseteq Held(acc) \cup {i}
    BY <1>1, <2>2, <2>3, <2>4 DEF Held
  <2> QED BY <1>2, <2>5, <2>6 DEF Separate, r, V
<1>5. CASE ~(acc = <<>> \/ Breached(f, i, f[acc[N][1]].s))
  <2> DEFINE last == acc[N]
             more == Append(last, i)
  <2>1. r = [acc EXCEPT ![N] = more]
    BY <1>5 DEF InWindow
  <2>2. N \in 1 .. N
    BY <1>1, <1>5
  <2>3. last \in Seq(DOMAIN f) /\ Distinct(last) /\ i \notin Elems(last)
    BY <1>1, <1>3, <2>2
  <2> HIDE DEF last
  <2>4. Distinct(more) /\ Elems(more) = Elems(last) \cup {i}
    BY <2>3, AppendDistinct, AppendElements
  <2> HIDE DEF more, r
  <2>5. DOMAIN r = 1 .. N /\ r[N] = more /\ \A w \in 1 .. N : w # N => r[w] = acc[w]
    BY <1>1, <2>1, <2>2
  <2> HIDE DEF N
  <2>6. \A w \in DOMAIN r : Distinct(r[w])
    BY <1>1, <2>4, <2>5
  <2>7. \A w \in 1 .. N : Elems(r[w]) \subseteq Elems(acc[w]) \cup {i}
    BY <2>4, <2>5 DEF last
  <2>8. Held(r) \subseteq Held(acc) \cup {i}
    BY <1>1, <2>5, <2>7 DEF Held
  <2> QED BY <1>2, <2>6, <2>8 DEF Separate, r, V
<1> QED BY <1>4, <1>5

\* So no window lists a packet twice.
LEMMA WindowsSeparate ==
    ASSUME NEW f, NEW nums \in Seq(DOMAIN f), Distinct(nums)
    PROVE  Separate(f, Windows(f, nums))
<1> DEFINE N == Len(nums)
<1>1. N \in Nat /\ DOMAIN nums = 1 .. N /\ \A k \in 1 .. N : nums[k] \in DOMAIN f
  OBVIOUS
<1>2. PICK r : /\ r[0] = <<>>
               /\ \A k \in 1 .. N : r[k] = InWindow(f, r[k - 1], nums[k])
               /\ Windows(f, nums) = r[N]
  BY WindowsRun
<1> HIDE DEF N
<1> DEFINE I(m) == Separate(f, r[m]) /\ Held(r[m]) \subseteq {nums[k] : k \in 1 .. m}
           Q == {m \in Nat : m <= N => I(m)}
<1>3. I(0)
  <2>1. <<>> \in Seq(Seq(DOMAIN f)) /\ DOMAIN <<>> = {}
    OBVIOUS
  <2> QED BY <1>2, <2>1 DEF Separate, Held
<1>4. ASSUME NEW m \in Nat, m + 1 <= N, I(m) PROVE I(m + 1)
  <2> DEFINE i == nums[m + 1]
  <2>1. m + 1 \in 1 .. N /\ (m + 1) - 1 = m /\ m + 1 \notin 1 .. m /\ 1 .. m + 1 = (1 .. m) \cup {m + 1}
        /\ 1 .. m \subseteq 1 .. N
    BY <1>1, <1>4
  <2>2. r[m + 1] = InWindow(f, r[m], i) /\ i \in DOMAIN f
    BY <1>1, <1>2, <2>1
  <2>3. i \notin {nums[k] : k \in 1 .. m}
    BY <1>1, <2>1 DEF Distinct
  <2>4. {nums[k] : k \in 1 .. m + 1} = {nums[k] : k \in 1 .. m} \cup {i}
    BY <2>1
  <2> HIDE DEF i
  <2>5. i \notin Held(r[m])
    BY <1>4, <2>3
  <2>6. Separate(f, r[m + 1]) /\ Held(r[m + 1]) \subseteq Held(r[m]) \cup {i}
    BY <1>4, <2>2, <2>5, InWindowSeparate
  <2> QED BY <1>4, <2>4, <2>6
<1> HIDE DEF I
<1>5. Q = Nat
  <2>1. 0 \in Q
    BY <1>3
  <2>2. \A m \in Q : m + 1 \in Q
    BY <1>1, <1>4
  <2> HIDE DEF Q
  <2>3. Q \in SUBSET Nat
    BY DEF Q
  <2> QED BY <2>1, <2>2, <2>3, SetInduction
<1>6. I(N)
  BY <1>1, <1>5
<1> QED BY <1>2, <1>6 DEF I

\* A trace without data whose packets are each listed once.
Fresh(t) == t.data = None /\ Distinct(t.pk)
AllFresh(list) == list \in Seq(Elems(list)) /\ \A t \in Elems(list) : Fresh(t)

\* Fresh traces make a fresh list.
LEMMA AllFreshIf ==
    ASSUME NEW S, NEW list \in Seq(S), \A t \in S : Fresh(t)
    PROVE  AllFresh(list)
<1>1. list \in Seq(Elems(list)) /\ Elems(list) \subseteq S
  BY ElementsOf
<1> QED BY <1>1 DEF AllFresh

LEMMA NoneFresh == AllFresh(<<>>)
<1>1. Elems(<<>>) = {} /\ <<>> \in Seq({})
  BY DEF Elems
<1> QED BY <1>1 DEF AllFresh

\* So do fresh lists joined.
LEMMA FlattenFresh ==
    ASSUME NEW n \in Nat, NEW lists, lists = [i \in 1 .. n |-> lists[i]],
           \A i \in 1 .. n : AllFresh(lists[i])
    PROVE  AllFresh(FlattenSeq(lists))
<1> DEFINE S == UNION {Elems(lists[i]) : i \in 1 .. n}
<1>1. \A t \in S : Fresh(t)
  BY DEF AllFresh
<1>2. ASSUME NEW i \in 1 .. n PROVE lists[i] \in Seq(S)
  <2>1. lists[i] \in Seq(Elems(lists[i])) /\ Elems(lists[i]) \subseteq S
    BY DEF AllFresh
  <2> HIDE DEF S
  <2> QED BY <2>1
<1> HIDE DEF S
<1>3. lists \in [1 .. n -> Seq(S)]
  BY <1>2
<1>4. lists \in Seq(Seq(S))
  BY <1>3
<1> QED BY <1>1, <1>4, FlattenProperties, AllFreshIf

\* A header is fresh,
LEMMA HeaderFresh ==
    ASSUME NEW f, NEW nums \in Seq(DOMAIN f), DOMAIN f \in SUBSET Int, Distinct(nums), NEW type, NEW s, NEW blk, NEW set
    PROVE  Fresh(Header(type, f, nums, s, blk, set))
<1> DEFINE t == Header(type, f, nums, s, blk, set)
           key == [i \in Elems(nums) |-> i]
           sorted == StableSort(nums, key)
<1>1. t.data = None /\ t.pk = IF type = "MSEED_DATA" THEN <<>> ELSE sorted
  BY DEF Header
<1>2. nums \in Seq(Elems(nums)) /\ Elems(nums) \subseteq DOMAIN f
  BY ElementsOf
<1>3. key \in [Elems(nums) -> Int]
  BY <1>2
<1> HIDE DEF key
<1>4. Distinct(sorted)
  BY <1>2, <1>3, SortProperties
<1>5. Distinct(<<>>)
  BY DEF Distinct
<1> HIDE DEF sorted, t
<1> QED BY <1>1, <1>4, <1>5 DEF Fresh, t

\* so are all headers of a file (get_mseed_hedr),
LEMMA HeadersFresh ==
    ASSUME NEW f, Begins(f), Channels(f) # <<>>
    PROVE  AllFresh(get_mseed_hedrM(f))
<1>1. /\ f \in Seq(Elems(f)) /\ Packets(f) /\ DOMAIN f \in SUBSET Int
      /\ \A c : Index(f, c) \in Seq(DOMAIN f) /\ Distinct(Index(f, c))
  <2>1. f \in Seq(Elems(f)) /\ Packets(f)
    BY DEF Begins
  <2>2. DOMAIN f = 1 .. Len(f) /\ Len(f) \in Nat
    BY <2>1
  <2> QED BY <2>1, <2>2, IndexIs
<1>2. CASE Len(Channels(f)) = 1
  <2> DEFINE nums == Index(f, Channels(f)[1])
             t == Header("MSEED_DATA", f, nums, f[First(nums)].s, 0, f[First(nums)].rate)
             S == {t}
  <2>1. get_mseed_hedrM(f) = <<t>>
    BY <1>2 DEF get_mseed_hedrM
  <2>2. Fresh(t)
    BY <1>1, HeaderFresh
  <2> HIDE DEF t
  <2>3. <<t>> \in Seq(S) /\ \A u \in S : Fresh(u)
    BY <2>2
  <2> HIDE DEF S
  <2>4. AllFresh(<<t>>)
    BY <2>3, AllFreshIf
  <2> QED BY <2>1, <2>4
<1>3. CASE Len(Channels(f)) # 1
  <2> DEFINE chans == Channels(f)
             lists == [k \in DOMAIN chans |-> IF includeChan(chans[k]) THEN ChannelTraces(f, chans[k]) ELSE <<>>]
             n == Len(chans)
  <2>1. get_mseed_hedrM(f) = FlattenSeq(lists)
    BY <1>3 DEF get_mseed_hedrM, makeTraces, ChannelTraces
  <2>2. n \in Nat /\ DOMAIN chans = 1 .. n
    BY <1>1, ChannelsAre
  <2>3. ASSUME NEW c PROVE AllFresh(ChannelTraces(f, c))
    <3> DEFINE nums == Index(f, c)
               win == Windows(f, nums)
               head(w) == Header("MSEED_MPLEX_DATA", f, win[w], f[win[w][1]].s, blkSize(f), f[First(nums)].rate)
               S == {head(w) : w \in DOMAIN win}
               list == ChannelTraces(f, c)
    <3>1. list = [w \in DOMAIN win |-> head(w)]
      BY DEF ChannelTraces
    <3>2. nums \in Seq(DOMAIN f) /\ Distinct(nums)
      BY <1>1
    <3> HIDE DEF nums, list
    <3>3. Separate(f, win)
      BY <3>2, WindowsSeparate
    <3> HIDE DEF win
    <3>4. /\ DOMAIN win = 1 .. Len(win) /\ Len(win) \in Nat
          /\ \A w \in DOMAIN win : win[w] \in Seq(DOMAIN f) /\ Distinct(win[w])
      BY <3>3 DEF Separate
    <3>5. \A w \in DOMAIN win : Fresh(head(w))
      BY <1>1, <3>4, HeaderFresh
    <3> HIDE DEF head
    <3>6. list \in Seq(S) /\ \A t \in S : Fresh(t)
      BY <3>1, <3>4, <3>5
    <3> HIDE DEF S
    <3>7. AllFresh(list)
      BY <3>6, AllFreshIf
    <3> QED BY <3>7 DEF list
  <2>4. lists = [k \in 1 .. n |-> lists[k]] /\ \A k \in 1 .. n : AllFresh(lists[k])
    BY <2>2, <2>3, NoneFresh
  <2> HIDE DEF lists, n
  <2> QED BY <2>1, <2>2, <2>4, FlattenFresh
<1> QED BY <1>2, <1>3

\* a trace whose data are freed,
LEMMA FreedFresh ==
    ASSUME NEW t, IsTrace(t), Distinct(t.pk)
    PROVE  Fresh(Freed(t)) /\ \A at : Fresh([Freed(t) EXCEPT !.s = at, !.cut = [at |-> at]])
<1> DEFINE u == Freed(t)
<1>1. u.data = None /\ u.pk = t.pk /\ DOMAIN u = DOMAIN t /\ "data" \in DOMAIN t /\ "pk" \in DOMAIN t
  BY DEF Freed, IsTrace
<1> HIDE DEF u
<1>2. \A at : [u EXCEPT !.s = at, !.cut = [at |-> at]].data = u.data /\ [u EXCEPT !.s = at, !.cut = [at |-> at]].pk = u.pk
  BY <1>1
<1> QED BY <1>1, <1>2 DEF Fresh, u

\* its excerpts (cutTrace),
LEMMA CutFresh ==
    ASSUME NEW t, IsTrace(t), Distinct(t.pk), shots \in Seq(Nat)
    PROVE  AllFresh(cutTrace(t))
<1> DEFINE T == {at \in Elems(shots) : at >= t.s /\ at + ShotLen <= t.s + (Len(t.data.data) - 1) * One}
           fit == Only(shots, T)
           copy(i) == [Freed(t) EXCEPT !.s = fit[i], !.cut = [at |-> fit[i]]]
           S == {copy(i) : i \in DOMAIN fit}
<1>1. cutTrace(t) = [i \in DOMAIN fit |-> copy(i)]
  BY DEF cutTrace
<1> HIDE DEF T
<1>2. fit \in Seq(Nat)
  BY OnlyProperties
<1> HIDE DEF fit
<1>3. DOMAIN fit = 1 .. Len(fit) /\ Len(fit) \in Nat
  BY <1>2
<1>4. \A i \in DOMAIN fit : Fresh(copy(i))
  BY FreedFresh
<1> HIDE DEF copy
<1>5. \A s \in S : Fresh(s)
  BY <1>4
<1>6. cutTrace(t) \in Seq(S)
  BY <1>1, <1>3
<1> HIDE DEF S
<1> QED BY <1>5, <1>6, AllFreshIf

\* and those of all headers.
LEMMA CutUpFresh ==
    ASSUME NEW E, file \in Seq(E), shots \in Seq(Nat), NEW headers, AllKnown(headers), AllFresh(headers)
    PROVE  AllFresh(CutUp(headers))
<1> DEFINE cut(i) == LET t == readTrace(headers[i]) IN IF t.data.data = <<>> THEN <<>> ELSE cutTrace(t)
           lists == [i \in DOMAIN headers |-> cut(i)]
           n == Len(headers)
<1>1. n \in Nat /\ DOMAIN headers = 1 .. n /\ \A i \in 1 .. n : Sound(headers[i]) /\ Fresh(headers[i])
  BY DEF AllKnown, AllFresh, Known, Elems
<1>2. ASSUME NEW i \in 1 .. n PROVE AllFresh(cut(i))
  <2> DEFINE t == readTrace(headers[i])
  <2>1. CASE t.data.data = <<>>
    <3>1. cut(i) = <<>>
      BY <2>1
    <3> QED BY <3>1, NoneFresh
  <2>2. CASE t.data.data # <<>>
    <3>1. Sound(headers[i]) /\ Fresh(headers[i])
      BY <1>1
    <3>2. Sound(t) /\ \E r, x : ReadTo(headers[i], t, r, x)
      BY <2>2, <3>1, ReadIs
    <3>3. cut(i) = cutTrace(t)
      BY <2>2
    <3> HIDE DEF t
    <3>4. Distinct(t.pk) /\ IsTrace(t)
      BY <3>1, <3>2 DEF ReadTo, Fresh, Sound
    <3> QED BY <3>3, <3>4, CutFresh
  <2> QED BY <2>1, <2>2
<1>3. CutUp(headers) = FlattenSeq(lists)
  BY DEF CutUp
<1> HIDE DEF cut, n
<1>4. lists = [i \in 1 .. n |-> lists[i]] /\ \A i \in 1 .. n : AllFresh(lists[i])
  BY <1>1, <1>2
<1> HIDE DEF lists
<1> QED BY <1>1, <1>3, <1>4, FlattenFresh

\* A trace names no packet twice and, when it has its data, has every sample of them.
Kept(t) == Distinct(t.pk) /\ (t.data # None /\ t.cut = None => KeepsAll(t))
AllKept == \A t \in Elems(trs) : Kept(t)

\* The traces after a step, from a set that contains them.
LEMMA AllKeptIf ==
    ASSUME NEW S, \A t \in S : Kept(t)', \A k \in DOMAIN trs' : trs'[k] \in S
    PROVE  AllKept'
<1>1. Elems(trs)' \subseteq S
  BY DEF Elems
<1> QED BY <1>1 DEF AllKept

\* A fresh trace has no data that could lack a sample.
LEMMA FreshKept == ASSUME NEW t, Fresh(t) PROVE Kept(t)'
BY DEF Fresh, Kept

\* Nothing changes while the file does not,
LEMMA KeptIfSame == ASSUME file' = file, NEW t, Kept(t) PROVE Kept(t)'
<1>1. Read(t)' = Read(t)
  BY DEF Read
<1>2. Joinable(t)' = Joinable(t) /\ \A x : HitsOf(t, x)' = HitsOf(t, x)
  BY <1>1 DEF Joinable, HitsOf
<1>3. KeepsAll(t) => KeepsAll(t)'
  BY <1>2 DEF KeepsAll
<1> QED BY <1>3 DEF Kept

\* nor when a packet arrives: the trace still stands for the packets it was read from.
LEMMA KeptIfMore ==
    ASSUME NEW E, file \in Seq(E), NEW p \in E, file' = Append(file, p), NEW t, Sound(t), Kept(t)
    PROVE  Kept(t)'
<1>1. Read(t)' = Read(t) /\ \A i \in Read(t) : file'[i] = file[i]
  BY StillPackets
<1>2. Joinable(t)' = Joinable(t)
  BY <1>1 DEF Joinable
<1>3. ASSUME NEW x PROVE HitsOf(t, x)' = HitsOf(t, x)
  <2>1. {i \in Read(t) : Has(file[i], x)} = {i \in Read(t)' : Has(file'[i], x)}
    BY <1>1
  <2> QED BY <2>1 DEF HitsOf
<1>4. KeepsAll(t) => KeepsAll(t)'
  BY <1>2, <1>3 DEF KeepsAll
<1> QED BY <1>4 DEF Kept

\* Opening makes fresh traces,
LEMMA OpeningKept ==
    ASSUME Consistent, Open
    PROVE  AllKept'
<1> DEFINE f == index_mplex
           headers == get_mseed_hedrM(f)
           list == IF shots = <<>> THEN headers ELSE CutUp(headers)
<1>1. Channels(f) # <<>> /\ trs' = list
  BY DEF Open
<1>2. Begins(f)
  BY Explored, IndexedFile DEF Consistent
<1> HIDE DEF f
<1>3. AllKnown(headers) /\ AllFresh(headers)
  BY <1>1, <1>2, HeadersKnown, HeadersFresh
<1> HIDE DEF headers
<1>4. file \in Seq(Uses[use].packets) /\ shots \in Seq(Nat)
  BY Explored DEF Consistent
<1>5. AllFresh(CutUp(headers))
  BY <1>3, <1>4, CutUpFresh
<1>6. AllFresh(list)
  BY <1>3, <1>5
<1> HIDE DEF list
<1> DEFINE S == Elems(list)
<1>7. \A t \in S : Kept(t)'
  BY <1>6, FreshKept DEF AllFresh
<1>8. \A k \in DOMAIN trs' : trs'[k] \in S
  BY <1>1 DEF Elems
<1> HIDE DEF S
<1> QED BY <1>7, <1>8, AllKeptIf

\* reading makes one that has everything,
LEMMA ReadingKept ==
    ASSUME Consistent, AllKept, NEW i \in DOMAIN trs, ReadData(i)
    PROVE  AllKept'
<1> DEFINE t == trs[i]
           u == readTrace(t)
<1>1. /\ file' = file
      /\ trs' = IF u.data.data = <<>> THEN RemoveAt(trs, i) ELSE [trs EXCEPT ![i] = u]
  BY DEF ReadData
<1>2. Sound(t) /\ Distinct(t.pk) /\ trs \in Seq(Elems(trs)) /\ file \in Seq(Uses[use].packets) /\ Packets(file)
  BY Explored DEF Consistent, AllKnown, Known, Elems, AllKept, Kept
<1> DEFINE S == Elems(trs)
<1>3. (\A v \in S : Kept(v)') /\ \A k \in DOMAIN trs : trs[k] \in S
  BY <1>1, KeptIfSame DEF AllKept, Elems
<1> HIDE DEF t, S
<1>4. CASE u.data.data = <<>>
  <2>1. trs' = RemoveAt(trs, i)
    BY <1>1, <1>4
  <2>2. trs' \in Seq(S)
    BY <1>2, <2>1, RemovedFrom DEF S
  <2>3. \A k \in DOMAIN trs' : trs'[k] \in S
    BY <2>2
  <2> QED BY <1>3, <2>3, AllKeptIf
<1>5. CASE u.data.data # <<>>
  <2>1. trs' = [trs EXCEPT ![i] = u]
    BY <1>1, <1>5
  <2>2. PICK r, x : ReadTo(t, u, r, x)
    BY <1>2, <1>5, ReadIs
  <2> HIDE DEF u
  <2>3. Distinct(u.pk)
    BY <1>2, <2>2 DEF ReadTo
  <2>4. u.cut = None => KeepsAll(u)
    BY <1>2, <2>2, ReadKeepsAll
  <2>5. \A v : v = u => Kept(v)
    BY <2>3, <2>4 DEF Kept
  <2>6. \A v : v = u => Kept(v)'
    BY <1>1, <2>5, KeptIfSame
  <2>7. DOMAIN trs' = DOMAIN trs /\ trs'[i] = u /\ \A k \in DOMAIN trs : k # i => trs'[k] = trs[k]
    BY <2>1
  <2> DEFINE V == S \cup {u}
  <2>8. (\A v \in V : Kept(v)') /\ \A k \in DOMAIN trs' : trs'[k] \in V
    BY <1>3, <2>6, <2>7
  <2> HIDE DEF V
  <2> QED BY <2>8, AllKeptIf
<1> QED BY <1>4, <1>5

\* and freeing a fresh one.
LEMMA FreeingKept ==
    ASSUME Consistent, AllKept, NEW i \in DOMAIN trs, FreeData(i)
    PROVE  AllKept'
<1> DEFINE u == Freed(trs[i])
<1>1. file' = file /\ trs' = [trs EXCEPT ![i] = u]
  BY DEF FreeData
<1>2. IsTrace(trs[i]) /\ Distinct(trs[i].pk)
  BY DEF Consistent, AllKnown, Known, Sound, Elems, AllKept, Kept
<1>3. Fresh(u)
  BY <1>2, FreedFresh
<1> HIDE DEF u
<1> DEFINE S == Elems(trs) \cup {u}
<1>4. \A v \in S : Kept(v)'
  BY <1>1, <1>3, FreshKept, KeptIfSame DEF AllKept
<1>5. \A k \in DOMAIN trs' : trs'[k] \in S
  BY <1>1 DEF Elems
<1> HIDE DEF S
<1> QED BY <1>4, <1>5, AllKeptIf

LEMMA KeptSteps == Consistent /\ AllKept /\ [Next]_vars => AllKept'
<1> SUFFICES ASSUME Consistent, AllKept, [Next]_vars PROVE AllKept'
  OBVIOUS
<1>1. CASE Arrive
  <2>1. PICK p \in Uses[use].packets : file' = Append(file, p) /\ trs' = trs
    BY <1>1 DEF Arrive
  <2> DEFINE S == Elems(trs)
  <2>2. file \in Seq(Uses[use].packets) /\ \A t \in S : Sound(t) /\ Kept(t)
    BY DEF Consistent, AllKnown, Known, AllKept
  <2>3. \A t \in S : Kept(t)'
    BY <2>1, <2>2, KeptIfMore
  <2>4. \A k \in DOMAIN trs' : trs'[k] \in S
    BY <2>1 DEF Elems
  <2> HIDE DEF S
  <2> QED BY <2>3, <2>4, AllKeptIf
<1>2. CASE Open
  BY <1>2, OpeningKept
<1>3. CASE Close
  BY <1>3 DEF Close, AllKept, Elems
<1>4. ASSUME NEW i \in DOMAIN trs, ReadData(i) PROVE AllKept'
  BY <1>4, ReadingKept
<1>5. ASSUME NEW i \in DOMAIN trs, FreeData(i) PROVE AllKept'
  BY <1>5, FreeingKept
<1>6. CASE UNCHANGED vars
  <2>1. file' = file /\ trs' = trs
    BY <1>6 DEF vars
  <2> DEFINE S == Elems(trs)
  <2>2. \A t \in S : Kept(t)'
    BY <2>1, KeptIfSame DEF AllKept
  <2>3. \A k \in DOMAIN trs' : trs'[k] \in S
    BY <2>1 DEF Elems
  <2> HIDE DEF S
  <2> QED BY <2>2, <2>3, AllKeptIf
<1> QED BY <1>1, <1>2, <1>3, <1>4, <1>5, <1>6 DEF Next

\* Whatever arrives, is opened, read, freed or closed.
LEMMA AllKeptAlways == Spec => []AllKept
<1>1. Init => AllKept
  BY DEF Init, AllKept, Elems
<1>2. Consistent /\ AllKept /\ [Next]_vars => AllKept'
  BY KeptSteps
<1> QED BY <1>1, <1>2, ConsistentAlways, PTL DEF Spec

\* For any sampling interval, packets, options and shot times: a trace whose packets are
\* of its channel, those with samples having a rate, has each sample (other than Zero,
\* which also marks a gap) as data or as overlap exactly as often as the packets it was
\* read from; mst_addmsrtogroup, mst_groupheal, mst_groupsort, the layout and the
\* reading packet by packet of get_mseed_data lose none and make none up.
THEOREM NothingLostAlways == Spec => []NothingLost
<1>1. Consistent /\ AllKept => NothingLost
  <2> SUFFICES ASSUME Consistent, AllKept, NEW t \in Uncut, Joinable(t),
                      NEW x \in Elems(AllSamples(t.data)) \cup UNION {Elems(Samples(file[i])) : i \in Read(t)},
                      x # Zero
               PROVE  Occurs(AllSamples(t.data), x) = HitsOf(t, x)
    BY DEF NothingLost, Joinable, AllSamples, Occurs, HitsOf
  <2>1. PICK k \in DOMAIN trs : t = trs[k] /\ t.data # None /\ t.cut = None
    BY DEF Uncut, ReadTraces
  <2>2. Sound(t) /\ KeepsAll(t)
    BY <2>1 DEF Consistent, AllKnown, Known, Elems, AllKept, Kept
  <2>3. AllSamples(t.data) \in Seq(Int) /\ \A y \in Int : y # Zero => Occurs(AllSamples(t.data), y) = HitsOf(t, y)
    BY <2>2 DEF KeepsAll
  <2>4. x \in Int
    <3>1. CASE x \in Elems(AllSamples(t.data))
      BY <2>3, <3>1 DEF Elems
    <3>2. ASSUME NEW i \in Read(t), x \in Elems(Samples(file[i])) PROVE x \in Int
      <4>1. i \in DOMAIN file
        BY <2>2, ReadPlaces DEF Consistent
      <4>2. Packet(file[i])
        BY <4>1, Explored DEF Packets
      <4>3. Samples(file[i]) \in Seq(Int)
        BY <4>2, PacketTypes
      <4> QED BY <3>2, <4>3 DEF Elems
    <3> QED BY <3>1, <3>2
  <2> QED BY <2>3, <2>4
<1> QED BY <1>1, ConsistentAlways, AllKeptAlways, PTL

-----------------------------------------------------------------------------
(* Types.                                                                  *)

\* How often the file may be opened.
Counted == opens \in 0 .. Uses[use].opens

LEMMA CountedAlways == Spec => []Counted
<1>1. Init => Counted
  <2>1. \A u \in DOMAIN Uses : Uses[u].opens \in Nat
    BY UsesAssumption
  <2> QED BY <2>1 DEF Init, Counted
<1>2. Consistent /\ Counted /\ [Next]_vars => Counted'
  <2> SUFFICES ASSUME Consistent, Counted, [Next]_vars PROVE Counted'
    OBVIOUS
  <2>1. Uses[use].opens \in Nat
    BY UsesAssumption DEF Consistent
  <2>2. CASE Open
    <3>1. use' = use /\ opens < Uses[use].opens /\ opens' = opens + 1
      BY <2>2 DEF Open
    <3> QED BY <2>1, <3>1 DEF Counted
  <2>3. ASSUME use' = use, opens' = opens PROVE Counted'
    BY <2>3 DEF Counted
  <2>4. CASE Arrive \/ Close
    BY <2>3, <2>4 DEF Arrive, Close
  <2>5. ASSUME NEW i \in DOMAIN trs, ReadData(i) \/ FreeData(i) PROVE Counted'
    BY <2>3, <2>5 DEF ReadData, FreeData
  <2>6. CASE UNCHANGED vars
    BY <2>3, <2>6 DEF vars
  <2> QED BY <2>2, <2>4, <2>5, <2>6 DEF Next
<1> QED BY <1>1, <1>2, ConsistentAlways, PTL DEF Spec

\* Every variable keeps its type, and a trace that was read (readTrace) has data and
\* begins at its label.
THEOREM TypeCorrect == Spec => []TypeOK
<1>1. Consistent /\ LogMade /\ Counted => TypeOK
  <2> SUFFICES ASSUME Consistent, LogMade, Counted PROVE TypeOK
    OBVIOUS
  <2>1. file \in Seq(Uses[use].packets) /\ cache \in 0 .. Len(file)
    BY DEF Consistent
  <2>2. log \in Seq(Nat)
    <3> DEFINE f == SubSeq(file, 1, cache)
    <3>1. CASE log = <<>>
      BY <3>1
    <3>2. CASE log # <<>>
      <4>1. cache \in 1 .. Len(file) /\ log = makeLogs(f)
        BY <3>2 DEF LogMade
      <4>2. f = index_mplex
        BY <4>1 DEF index_mplex
      <4> HIDE DEF f
      <4>3. Packets(f) /\ f \in Seq(Elems(f))
        BY <4>2, Explored, IndexedFile DEF Consistent, Begins
      <4> QED BY <4>1, <4>3, LogTypes
    <3> QED BY <3>1, <3>2
  <2>3. ASSUME NEW i \in DOMAIN trs
        PROVE  /\ trs[i].type \in {"MSEED_DATA", "MSEED_MPLEX_DATA"}
               /\ Elems(trs[i].pk) \subseteq DOMAIN file
               /\ trs[i].data # None => Labelled(trs[i])
    <3>1. Known(trs[i])
      BY DEF Consistent, AllKnown, Elems
    <3>2. trs[i].pk \in Seq(DOMAIN file)
      BY <3>1 DEF Known, Sound
    <3>3. Elems(trs[i].pk) \subseteq DOMAIN file
      BY <3>2, ElementsOf
    <3> QED BY <3>1, <3>3 DEF Known, Sound
  <2> QED BY <2>1, <2>2, <2>3 DEF TypeOK, Labelled, Counted
<1> QED BY <1>1, ConsistentAlways, LogMadeAlways, CountedAlways, PTL
=============================================================================
