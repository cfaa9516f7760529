----------------------------- MODULE ListProofs -----------------------------
(***************************************************************************)
(* What the list operations of Lists return, for every list.               *)
(***************************************************************************)
EXTENDS Lists, SequencesExt, FiniteSetTheorems, FunctionTheorems, WellFoundedInduction, TLAPS

\* Induction over the naturals for a set: what holds of 0 and, with a number,
\* of the next one, holds of all.
LEMMA SetInduction ==
    ASSUME NEW S \in SUBSET Nat, 0 \in S, \A n \in S : n + 1 \in S
    PROVE  S = Nat
<1> SUFFICES ASSUME Nat \ S # {} PROVE FALSE
  OBVIOUS
<1>1. PICK x \in Nat \ S : \A y \in Nat \ S : ~(<<y, x>> \in OpToRel(<, Nat))
  BY WFMin, NatLessThanWellFounded, Zenon
<1>2. x # 0 /\ x - 1 \in Nat /\ x - 1 \in Nat \ S
  OBVIOUS
<1>3. <<x - 1, x>> \in OpToRel(<, Nat)
  BY <1>2 DEF OpToRel
<1> QED BY <1>1, <1>2, <1>3

-----------------------------------------------------------------------------
(* Only.                                                                   *)

\* What Only computes for the first k elements.
IsKept(f, s, T, n) ==
    f = [k \in 0 .. n |-> IF k = 0 THEN <<>>
                          ELSE IF s[k] \in T THEN Append(f[k - 1], s[k]) ELSE f[k - 1]]

\* The recursive function exists.
LEMMA KeptExists ==
    ASSUME NEW s, NEW T, NEW n \in Nat
    PROVE  \E f : IsKept(f, s, T, n)
<1> DEFINE S == {m \in Nat : \E f : IsKept(f, s, T, m)}
<1>1. 0 \in S
  <2>1. IsKept([k \in 0 .. 0 |-> <<>>], s, T, 0)
    BY DEF IsKept
  <2> QED BY <2>1
<1>2. ASSUME NEW m \in S PROVE m + 1 \in S
  <2>1. PICK f : IsKept(f, s, T, m)
    OBVIOUS
  <2> DEFINE h == [k \in 0 .. m + 1 |->
                     IF k = m + 1 THEN (IF s[m + 1] \in T THEN Append(f[m], s[m + 1]) ELSE f[m])
                     ELSE f[k]]
  <2>2. ASSUME NEW k \in 0 .. m + 1
        PROVE  h[k] = IF k = 0 THEN <<>>
                      ELSE IF s[k] \in T THEN Append(h[k - 1], s[k]) ELSE h[k - 1]
    <3>1. CASE k = m + 1
      BY <3>1
    <3>2. CASE k = 0
      BY <2>1, <3>2 DEF IsKept
    <3>3. CASE k # m + 1 /\ k # 0
      <4>1. k \in 0 .. m /\ k - 1 \in 0 .. m
        BY <3>3
      <4>2. f[k] = IF s[k] \in T THEN Append(f[k - 1], s[k]) ELSE f[k - 1]
        BY <2>1, <3>3, <4>1 DEF IsKept
      <4>3. h[k] = f[k] /\ h[k - 1] = f[k - 1]
        BY <3>3, <4>1
      <4> QED BY <4>2, <4>3, <3>3
    <3> QED BY <3>1, <3>2, <3>3
  <2>3. IsKept(h, s, T, m + 1)
    BY <2>2 DEF IsKept
  <2> QED BY <2>3
<1>3. S = Nat
  <2> HIDE DEF S
  <2>1. S \in SUBSET Nat
    BY DEF S
  <2> QED BY <1>1, <1>2, <2>1, SetInduction
<1> QED BY <1>3

\* Only keeps the elements of T, in a list of no more elements, none twice if
\* none was twice.
LEMMA OnlyProperties ==
    ASSUME NEW S, NEW s \in Seq(S), NEW T
    PROVE  /\ Only(s, T) \in Seq(S)
           /\ Elems(Only(s, T)) = Elems(s) \cap T
           /\ Len(Only(s, T)) <= Len(s)
           /\ Distinct(s) => Distinct(Only(s, T))
<1> DEFINE N == Len(s)
           kept == CHOOSE f : IsKept(f, s, T, N)
<1>0. N \in Nat /\ DOMAIN s = 1 .. N /\ \A k \in 1 .. N : s[k] \in S
  OBVIOUS
<1>1. Only(s, T) = kept[N]
  BY DEF Only, IsKept
<1>2. IsKept(kept, s, T, N)
  BY <1>0, KeptExists
<1> HIDE DEF kept, N
<1>3. \A k \in 0 .. N : kept[k] = IF k = 0 THEN <<>>
                          ELSE IF s[k] \in T THEN Append(kept[k - 1], s[k]) ELSE kept[k - 1]
  BY <1>2 DEF IsKept
<1> DEFINE P(m) == /\ kept[m] \in Seq(S) /\ Len(kept[m]) <= m
                   /\ Elems(kept[m]) = {s[k] : k \in 1 .. m} \cap T
                   /\ Distinct(s) => Distinct(kept[m])
           Q == {m \in Nat : m <= N => P(m)}
<1>4. 0 \in Q
  <2>1. kept[0] = <<>>
    BY <1>0, <1>3
  <2>2. <<>> \in Seq(S) /\ Len(<<>>) = 0 /\ DOMAIN <<>> = {} /\ 1 .. 0 = {}
    OBVIOUS
  <2>3. Elems(<<>>) = {} /\ Distinct(<<>>)
    BY <2>2 DEF Elems, Distinct
  <2>4. {s[k] : k \in 1 .. 0} = {}
    BY <2>2
  <2>5. kept[0] \in Seq(S) /\ Len(kept[0]) <= 0
    BY <2>1, <2>2
  <2>6. Elems(kept[0]) = {s[k] : k \in 1 .. 0} \cap T
    BY <2>1, <2>3, <2>4
  <2>7. Distinct(kept[0])
    BY <2>1, <2>3
  <2>8. P(0)
    BY <2>5, <2>6, <2>7
  <2> HIDE DEF P
  <2> QED BY <2>8
<1>5. ASSUME NEW m \in Q PROVE m + 1 \in Q
  <2> SUFFICES ASSUME m + 1 <= N PROVE P(m + 1)
    OBVIOUS
  <2>1. P(m) /\ m + 1 \in 1 .. N /\ m \in Nat
    BY <1>0
  <2>2. kept[m + 1] = IF s[m + 1] \in T THEN Append(kept[m], s[m + 1]) ELSE kept[m]
    BY <1>0, <1>3, <2>1
  <2>3. CASE s[m + 1] \notin T
    <3>1. {s[k] : k \in 1 .. m + 1} = {s[k] : k \in 1 .. m} \cup {s[m + 1]}
      BY <2>1
    <3> QED BY <2>1, <2>2, <2>3, <3>1
  <2>4. CASE s[m + 1] \in T
    <3> DEFINE r == kept[m]  x == s[m + 1]
    <3>1. r \in Seq(S) /\ x \in S /\ kept[m + 1] = Append(r, x)
      BY <1>0, <2>1, <2>2, <2>4
    <3>2. /\ Append(r, x) \in Seq(S) /\ Len(Append(r, x)) = Len(r) + 1 /\ Len(r) \in Nat
          /\ DOMAIN Append(r, x) = 1 .. Len(r) + 1
          /\ \A k \in 1 .. Len(r) : Append(r, x)[k] = r[k]
          /\ Append(r, x)[Len(r) + 1] = x
      BY <3>1
    <3>3. {s[k] : k \in 1 .. m + 1} = {s[k] : k \in 1 .. m} \cup {x}
      BY <2>1
    <3>4. DOMAIN r = 1 .. Len(r)
      BY <3>1
    <3> HIDE DEF r, x
    <3>5. Elems(Append(r, x)) = Elems(r) \cup {x}
      BY <3>2, <3>4 DEF Elems
    <3>6. Elems(kept[m + 1]) = {s[k] : k \in 1 .. m + 1} \cap T
      BY <2>1, <2>4, <3>1, <3>3, <3>5 DEF r, x
    <3>7. ASSUME Distinct(s) PROVE Distinct(Append(r, x))
      <4>1. x \notin Elems(r)
        <5>1. \A k \in 1 .. m : s[k] # s[m + 1]
          BY <3>7, <1>0, <2>1 DEF Distinct
        <5>2. Elems(r) \subseteq {s[k] : k \in 1 .. m}
          BY <2>1 DEF r
        <5> QED BY <5>1, <5>2 DEF x
      <4>2. Distinct(r)
        BY <2>1, <3>7 DEF r
      <4> QED BY <3>2, <3>4, <4>1, <4>2 DEF Distinct, Elems
    <3> QED BY <2>1, <3>1, <3>2, <3>6, <3>7 DEF r
  <2> QED BY <2>3, <2>4
<1>6. Q = Nat
  <2> HIDE DEF Q
  <2>1. Q \in SUBSET Nat
    BY DEF Q
  <2> QED BY <1>4, <1>5, <2>1, SetInduction
<1>7. P(N)
  <2>1. N \in Q
    BY <1>0, <1>6
  <2> HIDE DEF P
  <2> QED BY <2>1, <1>0
<1>8. Elems(s) = {s[k] : k \in 1 .. N}
  BY <1>0 DEF Elems
<1> QED BY <1>1, <1>7, <1>8 DEF N

\* Without keeps all but the elements of T.
LEMMA WithoutProperties ==
    ASSUME NEW S, NEW s \in Seq(S), NEW T
    PROVE  /\ Without(s, T) \in Seq(S)
           /\ Elems(Without(s, T)) = Elems(s) \ T
           /\ Len(Without(s, T)) <= Len(s)
           /\ Distinct(s) => Distinct(Without(s, T))
<1> DEFINE rest == Elems(s) \ T
<1>1. Without(s, T) = Only(s, rest) /\ Elems(s) \cap rest = rest
  BY DEF Without
<1> HIDE DEF rest
<1>2. /\ Only(s, rest) \in Seq(S) /\ Elems(Only(s, rest)) = Elems(s) \cap rest
      /\ Len(Only(s, rest)) <= Len(s) /\ (Distinct(s) => Distinct(Only(s, rest)))
  BY OnlyProperties
<1> QED BY <1>1, <1>2 DEF rest

-----------------------------------------------------------------------------
(* Reverse, Head and Tail.                                                 *)

\* Reversing a list keeps its elements.
LEMMA ReversedElements ==
    ASSUME NEW S, NEW s \in Seq(S)
    PROVE  /\ Reverse(s) \in Seq(S) /\ Len(Reverse(s)) = Len(s)
           /\ Elems(Reverse(s)) = Elems(s)
           /\ Distinct(s) => Distinct(Reverse(s))
<1> DEFINE r == Reverse(s)
           N == Len(s)
<1>1. DOMAIN s = 1 .. N /\ N \in Nat /\ \A k \in 1 .. N : s[k] \in S
  OBVIOUS
<1>2. r = [k \in 1 .. N |-> s[N - k + 1]]
  BY DEF Reverse
<1> HIDE DEF r, N
<1>3. \A k \in 1 .. N : N - k + 1 \in 1 .. N /\ N - (N - k + 1) + 1 = k
  BY <1>1
<1>4. r \in Seq(S) /\ Len(r) = N /\ DOMAIN r = 1 .. N
  BY <1>1, <1>2, <1>3
<1>5. Elems(r) = Elems(s)
  BY <1>1, <1>2, <1>3, <1>4 DEF Elems
<1>6. ASSUME Distinct(s) PROVE Distinct(r)
  <2> SUFFICES ASSUME NEW j \in 1 .. N, NEW k \in 1 .. N, r[j] = r[k] PROVE j = k
    BY <1>4 DEF Distinct
  <2>1. N - j + 1 = N - k + 1
    BY <1>1, <1>2, <1>3, <1>6 DEF Distinct
  <2> QED BY <1>1, <2>1
<1> QED BY <1>4, <1>5, <1>6 DEF r, N

\* A list that is not empty is its head and its tail.
LEMMA TailProperties ==
    ASSUME NEW S, NEW s \in Seq(S), s # <<>>
    PROVE  /\ Head(s) \in S /\ Tail(s) \in Seq(S)
           /\ Elems(s) = {Head(s)} \cup Elems(Tail(s))
           /\ Distinct(s) => Distinct(Tail(s)) /\ Head(s) \notin Elems(Tail(s))
<1> DEFINE N == Len(s)
           h == Head(s)
           u == Tail(s)
<1>1. DOMAIN s = 1 .. N /\ N \in Nat \ {0} /\ \A k \in 1 .. N : s[k] \in S
  OBVIOUS
<1>2. /\ h = s[1] /\ u \in Seq(S) /\ DOMAIN u = 1 .. N - 1
      /\ \A k \in 1 .. N - 1 : u[k] = s[k + 1]
  OBVIOUS
<1> HIDE DEF N, h, u
<1>3. \A k \in 1 .. N : k = 1 \/ (k - 1 \in 1 .. N - 1 /\ u[k - 1] = s[k])
  BY <1>1, <1>2
<1>4. 1 \in 1 .. N /\ \A k \in 1 .. N - 1 : k + 1 \in 1 .. N /\ k + 1 # 1 /\ k \in Int
  BY <1>1
<1>5. Elems(s) = {h} \cup Elems(u)
  <2>1. ASSUME NEW x \in Elems(s) PROVE x \in {h} \cup Elems(u)
    <3>1. PICK k \in 1 .. N : x = s[k]
      BY <1>1 DEF Elems
    <3>2. CASE k = 1
      BY <1>2, <3>1, <3>2
    <3>3. CASE k # 1
      <4>1. k - 1 \in DOMAIN u /\ x = u[k - 1]
        BY <1>2, <1>3, <3>1, <3>3
      <4> QED BY <4>1 DEF Elems
    <3> QED BY <3>2, <3>3
  <2>2. ASSUME NEW x \in Elems(u) PROVE x \in Elems(s)
    BY <1>1, <1>2, <1>4 DEF Elems
  <2>3. h \in Elems(s)
    BY <1>1, <1>2, <1>4 DEF Elems
  <2> QED BY <2>1, <2>2, <2>3
<1>6. ASSUME Distinct(s) PROVE Distinct(u) /\ h \notin Elems(u)
  <2>1. \A j, k \in 1 .. N : s[j] = s[k] => j = k
    BY <1>1, <1>6 DEF Distinct
  <2>2. \A j, k \in 1 .. N - 1 : u[j] = u[k] => j = k
    <3> SUFFICES ASSUME NEW j \in 1 .. N - 1, NEW k \in 1 .. N - 1, u[j] = u[k] PROVE j = k
      OBVIOUS
    <3>1. j + 1 = k + 1
      BY <1>2, <1>4, <2>1
    <3> QED BY <1>4, <3>1
  <2>3. \A k \in 1 .. N - 1 : u[k] # h
    BY <1>2, <1>4, <2>1
  <2> QED BY <1>2, <2>2, <2>3 DEF Distinct, Elems
<1> QED BY <1>1, <1>2, <1>4, <1>5, <1>6 DEF h, u

-----------------------------------------------------------------------------
(* StableSort.                                                             *)

\* The place of s that a stable sort by key puts at place n.
Place(s, key, n) == CHOOSE k \in DOMAIN s : Cardinality(Preceding(s, key, k)) = n - 1

\* Of two places one precedes the other, and what precedes it precedes the other.
LEMMA PrecedingOrder ==
    ASSUME NEW S, NEW s \in Seq(S), NEW key \in [S -> Int],
           NEW j \in DOMAIN s, NEW k \in DOMAIN s, j \in Preceding(s, key, k)
    PROVE  Cardinality(Preceding(s, key, j)) < Cardinality(Preceding(s, key, k))
<1>1. DOMAIN s = 1 .. Len(s) /\ Len(s) \in Nat /\ \A m \in DOMAIN s : key[s[m]] \in Int
  OBVIOUS
<1>2. Preceding(s, key, j) \subseteq Preceding(s, key, k) \ {j}
  BY <1>1 DEF Preceding
<1>3. IsFiniteSet(Preceding(s, key, k)) /\ IsFiniteSet(Preceding(s, key, k) \ {j})
  <2>1. 1 \in Int /\ Len(s) \in Int
    BY <1>1
  <2>2. IsFiniteSet(1 .. Len(s))
    BY <2>1, FS_Interval
  <2>3. Preceding(s, key, k) \subseteq 1 .. Len(s)
    BY <1>1 DEF Preceding
  <2>4. IsFiniteSet(Preceding(s, key, k))
    BY <2>2, <2>3, FS_Subset
  <2>5. Preceding(s, key, k) \ {j} \subseteq Preceding(s, key, k)
    OBVIOUS
  <2> QED BY <2>4, <2>5, FS_Subset
<1>4. /\ Cardinality(Preceding(s, key, k) \ {j}) = Cardinality(Preceding(s, key, k)) - 1
      /\ Cardinality(Preceding(s, key, k)) \in Nat
  BY <1>3, FS_RemoveElement, FS_CardinalityType
<1>5. /\ Cardinality(Preceding(s, key, j)) <= Cardinality(Preceding(s, key, k) \ {j})
      /\ IsFiniteSet(Preceding(s, key, j))
  BY <1>2, <1>3, FS_Subset
<1>6. Cardinality(Preceding(s, key, j)) \in Nat
  BY <1>5, FS_CardinalityType
<1> QED BY <1>4, <1>5, <1>6

\* Every place is filled, with the element that has as many before it.
LEMMA PlacesFilled ==
    ASSUME NEW S, NEW s \in Seq(S), NEW key \in [S -> Int]
    PROVE  /\ \A n \in 1 .. Len(s) :
                 /\ Place(s, key, n) \in 1 .. Len(s)
                 /\ Cardinality(Preceding(s, key, Place(s, key, n))) = n - 1
           /\ \A k \in 1 .. Len(s) : \E n \in 1 .. Len(s) : Place(s, key, n) = k
<1> DEFINE N == Len(s)
           c == [k \in 1 .. N |-> Cardinality(Preceding(s, key, k))]
<1>1. DOMAIN s = 1 .. N /\ N \in Nat /\ \A m \in 1 .. N : key[s[m]] \in Int
  OBVIOUS
<1> HIDE DEF N, c
<1>2. ASSUME NEW k \in 1 .. N
      PROVE  Cardinality(Preceding(s, key, k)) \in 0 .. N - 1
  <2>1. k \notin Preceding(s, key, k) /\ Preceding(s, key, k) \subseteq (1 .. N) \ {k}
    BY <1>1 DEF Preceding
  <2>6. 1 \in Int /\ N \in Int /\ (IF 1 > N THEN 0 ELSE N - 1 + 1) = N
    BY <1>1
  <2>2. IsFiniteSet(1 .. N) /\ Cardinality(1 .. N) = N
    BY <2>6, FS_Interval
  <2>3. IsFiniteSet((1 .. N) \ {k}) /\ Cardinality((1 .. N) \ {k}) = N - 1
    BY <2>2, FS_RemoveElement
  <2>4. /\ IsFiniteSet(Preceding(s, key, k))
        /\ Cardinality(Preceding(s, key, k)) <= N - 1
    BY <2>1, <2>3, FS_Subset
  <2>5. Cardinality(Preceding(s, key, k)) \in Nat
    BY <2>4, FS_CardinalityType
  <2> QED BY <1>1, <2>4, <2>5
<1>3. c \in [1 .. N -> 0 .. N - 1]
  BY <1>2 DEF c
<1>4. ASSUME NEW j \in 1 .. N, NEW k \in 1 .. N, j # k PROVE c[j] # c[k]
  <2>1. j \in Preceding(s, key, k) \/ k \in Preceding(s, key, j)
    BY <1>1, <1>4 DEF Preceding
  <2>2. c[j] < c[k] \/ c[k] < c[j]
    BY <1>1, <2>1, PrecedingOrder DEF c
  <2>3. c[j] \in Int /\ c[k] \in Int
    BY <1>3
  <2> QED BY <2>2, <2>3
<1>5. c \in Injection(1 .. N, 0 .. N - 1)
  BY <1>3, <1>4, Fun_IsInj
<1>6. /\ IsFiniteSet(0 .. N - 1)
      /\ Cardinality(1 .. N) = Cardinality(0 .. N - 1)
  <2>1. 0 \in Int /\ 1 \in Int /\ N \in Int /\ N - 1 \in Int
    BY <1>1
  <2>2. IsFiniteSet(0 .. N - 1) /\ Cardinality(0 .. N - 1) = IF 0 > N - 1 THEN 0 ELSE N - 1 - 0 + 1
    BY <2>1, FS_Interval
  <2>3. Cardinality(1 .. N) = IF 1 > N THEN 0 ELSE N - 1 + 1
    BY <2>1, FS_Interval
  <2> QED BY <1>1, <2>2, <2>3
<1>7. c \in Surjection(1 .. N, 0 .. N - 1)
  BY <1>5, <1>6, FS_Injection
<1>8. ASSUME NEW n \in 1 .. N
      PROVE  /\ Place(s, key, n) \in 1 .. N
             /\ Cardinality(Preceding(s, key, Place(s, key, n))) = n - 1
  <2>1. n - 1 \in 0 .. N - 1
    BY <1>1
  <2>4. \A u \in 0 .. N - 1 : \E k \in 1 .. N : c[k] = u
    BY <1>7 DEF Surjection
  <2>2. \E k \in 1 .. N : c[k] = n - 1
    BY <2>1, <2>4
  <2>3. \E k \in DOMAIN s : Cardinality(Preceding(s, key, k)) = n - 1
    BY <1>1, <2>2 DEF c
  <2> QED BY <1>1, <2>3 DEF Place
<1>9. ASSUME NEW k \in 1 .. N PROVE \E n \in 1 .. N : Place(s, key, n) = k
  <2>1. c[k] + 1 \in 1 .. N /\ c[k] \in Int
    BY <1>1, <1>3
  <2>2. c[Place(s, key, c[k] + 1)] = c[k] /\ Place(s, key, c[k] + 1) \in 1 .. N
    BY <1>8, <2>1 DEF c
  <2> QED BY <1>4, <2>1, <2>2
<1> QED BY <1>8, <1>9 DEF N

\* A stable sort gives a permutation of the list that is sorted by the key.
LEMMA SortProperties ==
    ASSUME NEW S, NEW s \in Seq(S), NEW key \in [S -> Int]
    PROVE  /\ StableSort(s, key) \in Seq(S)
           /\ Len(StableSort(s, key)) = Len(s)
           /\ Elems(StableSort(s, key)) = Elems(s)
           /\ Distinct(s) => Distinct(StableSort(s, key))
           /\ \A m, n \in 1 .. Len(s) :
                 m < n => key[StableSort(s, key)[m]] <= key[StableSort(s, key)[n]]
<1> DEFINE N == Len(s)
           r == StableSort(s, key)
<1>1. DOMAIN s = 1 .. N /\ N \in Nat /\ \A m \in 1 .. N : s[m] \in S /\ key[s[m]] \in Int
  OBVIOUS
<1>3. \A n \in 1 .. N : /\ Place(s, key, n) \in 1 .. N
                         /\ Cardinality(Preceding(s, key, Place(s, key, n))) = n - 1
  BY PlacesFilled
<1>2. r = [n \in 1 .. N |-> s[Place(s, key, n)]]
  <2> DEFINE q == [n \in 1 .. N |-> s[Place(s, key, n)]]
  <2>1. r = q \o <<>>
    BY DEF StableSort, Place
  <2>2. q \in Seq(S)
    BY <1>1, <1>3
  <2> HIDE DEF q
  <2>3. q \o <<>> = q
    BY <2>2
  <2> QED BY <2>1, <2>3 DEF q
<1>4. \A k \in 1 .. N : \E n \in 1 .. N : Place(s, key, n) = k
  BY PlacesFilled
<1> HIDE DEF r
<1>5. r \in Seq(S) /\ Len(r) = N /\ DOMAIN r = 1 .. N
  BY <1>1, <1>2, <1>3
<1>6. Elems(r) = Elems(s)
  BY <1>1, <1>2, <1>3, <1>4, <1>5 DEF Elems
<1>7. ASSUME Distinct(s) PROVE Distinct(r)
  <2> SUFFICES ASSUME NEW m \in 1 .. N, NEW n \in 1 .. N, r[m] = r[n] PROVE m = n
    BY <1>5 DEF Distinct
  <2>1. s[Place(s, key, m)] = s[Place(s, key, n)]
    BY <1>2
  <2>2. Place(s, key, m) = Place(s, key, n)
    BY <1>1, <1>3, <1>7, <2>1 DEF Distinct
  <2>3. m - 1 = n - 1
    BY <1>3, <2>2
  <2> QED BY <2>3
<1>8. ASSUME NEW m \in 1 .. N, NEW n \in 1 .. N, m < n PROVE key[r[m]] <= key[r[n]]
  <2> DEFINE a == Place(s, key, m)  b == Place(s, key, n)
  <2>1. /\ a \in 1 .. N /\ b \in 1 .. N
        /\ Cardinality(Preceding(s, key, a)) = m - 1
        /\ Cardinality(Preceding(s, key, b)) = n - 1
    BY <1>3
  <2>2. r[m] = s[a] /\ r[n] = s[b]
    BY <1>2
  <2> HIDE DEF a, b
  <2>3. b \notin Preceding(s, key, a)
    BY SMTT(30), <1>1, <1>8, <2>1, PrecedingOrder
  <2>4. ~(key[s[b]] < key[s[a]])
    BY <1>1, <2>1, <2>3 DEF Preceding
  <2> QED BY <1>1, <2>1, <2>2, <2>4
<1> QED BY <1>5, <1>6, <1>7, <1>8 DEF r
-----------------------------------------------------------------------------
(* Runs of a list, and two lists one after the other.                      *)

\* The run of s after the first a elements and up to the b-th.
LEMMA RunProperties ==
    ASSUME NEW S, NEW s \in Seq(S), NEW a \in 0 .. Len(s), NEW b \in a .. Len(s)
    PROVE  /\ SubSeq(s, a + 1, b) \in Seq(S)
           /\ Len(SubSeq(s, a + 1, b)) = b - a
           /\ \A k \in 1 .. b - a : SubSeq(s, a + 1, b)[k] = s[a + k]
           /\ Elems(SubSeq(s, a + 1, b)) = {s[k] : k \in a + 1 .. b}
           /\ Elems(SubSeq(s, a + 1, b)) \subseteq Elems(s)
           /\ Distinct(s) => Distinct(SubSeq(s, a + 1, b))
<1> DEFINE r == SubSeq(s, a + 1, b)
           N == Len(s)
<1>1. /\ DOMAIN s = 1 .. N /\ N \in Nat /\ \A k \in 1 .. N : s[k] \in S
      /\ a \in 0 .. N /\ b \in a .. N
  OBVIOUS
<1>2. /\ r \in Seq(S) /\ Len(r) = b - a /\ DOMAIN r = 1 .. b - a
      /\ \A k \in 1 .. b - a : r[k] = s[a + k]
  OBVIOUS
<1> HIDE DEF r, N
<1>3. /\ \A k \in 1 .. b - a : a + k \in a + 1 .. b
      /\ \A k \in a + 1 .. b : k \in 1 .. N /\ k - a \in 1 .. b - a /\ a + (k - a) = k
  BY <1>1
<1>4. Elems(r) = {s[k] : k \in a + 1 .. b}
  <2>1. \A k \in a + 1 .. b : k - a \in DOMAIN r /\ r[k - a] = s[k]
    BY <1>2, <1>3
  <2>2. \A k \in DOMAIN r : a + k \in a + 1 .. b /\ r[k] = s[a + k]
    BY <1>2, <1>3
  <2>3. ASSUME NEW x \in Elems(r) PROVE x \in {s[k] : k \in a + 1 .. b}
    BY <2>2 DEF Elems
  <2>4. ASSUME NEW k \in a + 1 .. b PROVE s[k] \in Elems(r)
    BY <2>1 DEF Elems
  <2> QED BY <2>3, <2>4
<1>5. Elems(r) \subseteq Elems(s)
  BY <1>1, <1>3, <1>4 DEF Elems
<1>6. ASSUME Distinct(s) PROVE Distinct(r)
  <2> SUFFICES ASSUME NEW j \in 1 .. b - a, NEW k \in 1 .. b - a, r[j] = r[k] PROVE j = k
    BY <1>2 DEF Distinct
  <2>1. s[a + j] = s[a + k] /\ a + j \in 1 .. N /\ a + k \in 1 .. N
    BY <1>2, <1>3
  <2>2. a + j = a + k
    BY <2>1, <1>1, <1>6 DEF Distinct
  <2> QED BY <2>2, <1>1
<1> QED BY <1>2, <1>4, <1>5, <1>6 DEF r

LEMMA ConcatenationProperties ==
    ASSUME NEW S, NEW s \in Seq(S), NEW t \in Seq(S)
    PROVE  /\ s \o t \in Seq(S)
           /\ Len(s \o t) = Len(s) + Len(t)
           /\ Elems(s \o t) = Elems(s) \cup Elems(t)
           /\ Distinct(s) /\ Distinct(t) /\ Elems(s) \cap Elems(t) = {} => Distinct(s \o t)
<1> DEFINE r == s \o t
           M == Len(s)
           N == Len(t)
<1>1. /\ DOMAIN s = 1 .. M /\ M \in Nat /\ DOMAIN t = 1 .. N /\ N \in Nat
  OBVIOUS
<1>2. /\ r \in Seq(S) /\ Len(r) = M + N /\ DOMAIN r = 1 .. M + N
      /\ \A k \in 1 .. M + N : r[k] = IF k <= M THEN s[k] ELSE t[k - M]
  OBVIOUS
<1> HIDE DEF r, M, N
<1>3. /\ \A k \in 1 .. M : k \in 1 .. M + N /\ r[k] = s[k]
      /\ \A k \in 1 .. N : M + k \in 1 .. M + N /\ r[M + k] = t[k]
      /\ \A k \in 1 .. M + N : k \in 1 .. M \/ (k - M \in 1 .. N /\ M + (k - M) = k)
  <2>1. \A k \in 1 .. N : M + k \in 1 .. M + N /\ ~(M + k <= M) /\ (M + k) - M = k
    BY <1>1
  <2>2. \A k \in 1 .. M : k \in 1 .. M + N /\ k <= M
    BY <1>1
  <2>3. \A k \in 1 .. M + N : k \in 1 .. M \/ (k - M \in 1 .. N /\ M + (k - M) = k)
    BY <1>1
  <2> QED BY <1>2, <2>1, <2>2, <2>3
<1>4. Elems(r) = Elems(s) \cup Elems(t)
  <2>1. \A k \in 1 .. M + N : r[k] \in Elems(s) \cup Elems(t)
    BY <1>1, <1>3 DEF Elems
  <2>2. \A k \in 1 .. M : s[k] \in Elems(r)
    BY <1>2, <1>3 DEF Elems
  <2>3. \A k \in 1 .. N : t[k] \in Elems(r)
    BY <1>2, <1>3 DEF Elems
  <2> QED BY <1>1, <1>2, <2>1, <2>2, <2>3 DEF Elems
<1>5. ASSUME Distinct(s), Distinct(t), Elems(s) \cap Elems(t) = {}, NEW j \in 1 .. M + N,
             NEW k \in 1 .. M + N, r[j] = r[k]
      PROVE  j = k
  <2>1. CASE j \in 1 .. M /\ k \in 1 .. M
    BY <2>1, <1>1, <1>3, <1>5 DEF Distinct
  <2>2. CASE j - M \in 1 .. N /\ k - M \in 1 .. N /\ M + (j - M) = j /\ M + (k - M) = k
    <3>1. t[j - M] = t[k - M]
      BY <2>2, <1>3, <1>5
    <3>2. j - M = k - M
      BY <3>1, <2>2, <1>1, <1>5 DEF Distinct
    <3> QED BY <3>2, <1>1
  <2>3. \A i \in 1 .. M : r[i] \in Elems(s)
    BY <1>1, <1>3 DEF Elems
  <2>4. ASSUME NEW i \in 1 .. M + N, i - M \in 1 .. N, M + (i - M) = i PROVE r[i] \in Elems(t)
    <3>1. r[i] = t[i - M]
      BY <1>3, <2>4
    <3> QED BY <1>1, <2>4, <3>1 DEF Elems
  <2> QED BY <2>1, <2>2, <2>3, <2>4, <1>3, <1>5
<1>6. Distinct(s) /\ Distinct(t) /\ Elems(s) \cap Elems(t) = {} => Distinct(r)
  BY <1>2, <1>5 DEF Distinct
<1> QED BY <1>2, <1>4, <1>6 DEF r, M, N

\* A list without repetitions is as long as it has elements.
LEMMA DistinctLength ==
    ASSUME NEW S, NEW list \in Seq(S), Distinct(list)
    PROVE  IsFiniteSet(Elems(list)) /\ Cardinality(Elems(list)) = Len(list)
<1> DEFINE D == 1 .. Len(list)
<1>1. Len(list) \in Nat /\ DOMAIN list = D /\ list \in [D -> Elems(list)]
  BY DEF Elems
<1>2. \A a, b \in D : list[a] = list[b] => a = b
  BY <1>1 DEF Distinct
<1>3. \A x \in Elems(list) : \E k \in D : list[k] = x
  BY <1>1 DEF Elems
<1>4. IsFiniteSet(D) /\ Cardinality(D) = Len(list)
  <2>1. 1 \in Int /\ Len(list) \in Int
    BY <1>1
  <2>2. IsFiniteSet(D) /\ Cardinality(D) = (IF 1 > Len(list) THEN 0 ELSE Len(list) - 1 + 1)
    BY <2>1, FS_Interval, Zenon
  <2> HIDE DEF D
  <2> QED BY <1>1, <2>2
<1> HIDE DEF D
<1>5. list \in Bijection(D, Elems(list))
  BY <1>1, <1>2, <1>3, Fun_IsBij
<1> QED BY <1>4, <1>5, FS_Bijection DEF ExistsBijection

-----------------------------------------------------------------------------
(* The least element of a set of naturals.                                 *)

LEMMA LeastElement ==
    ASSUME NEW S \in SUBSET Nat, S # {}
    PROVE  LET x == CHOOSE k \in S : \A j \in S : k <= j
           IN  x \in S /\ \A j \in S : x <= j
<1>1. PICK x \in S : \A y \in S : ~(<<y, x>> \in OpToRel(<, Nat))
  BY WFMin, NatLessThanWellFounded, Zenon
<1>2. \A y \in S : ~(y < x)
  BY <1>1 DEF OpToRel
<1>3. \A y \in S : x <= y
  BY <1>2
<1> QED BY <1>3

-----------------------------------------------------------------------------
(* Where Only keeps the elements of a list.                                *)

\* at gives the places in s of the elements of r, in their order.
Embeds(at, r, s) ==
    /\ at \in [1 .. Len(r) -> DOMAIN s]
    /\ \A k \in 1 .. Len(r) : r[k] = s[at[k]]
    /\ \A j, k \in 1 .. Len(r) : j < k => at[j] < at[k]

\* Only keeps the order, and every element of T with each of its places.
LEMMA OnlyEmbeds ==
    ASSUME NEW S, NEW s \in Seq(S), NEW T
    PROVE  \E at : /\ Embeds(at, Only(s, T), s)
                   /\ \A j \in DOMAIN s : s[j] \in T => \E k \in 1 .. Len(Only(s, T)) : at[k] = j
<1> DEFINE N == Len(s)
           kept == CHOOSE f : IsKept(f, s, T, N)
<1>0. N \in Nat /\ DOMAIN s = 1 .. N /\ \A k \in 1 .. N : s[k] \in S
  OBVIOUS
<1>1. Only(s, T) = kept[N]
  BY DEF Only, IsKept
<1>2. IsKept(kept, s, T, N)
  BY <1>0, KeptExists
<1> HIDE DEF kept, N
<1>3. \A k \in 0 .. N : kept[k] = IF k = 0 THEN <<>>
                          ELSE IF s[k] \in T THEN Append(kept[k - 1], s[k]) ELSE kept[k - 1]
  BY <1>2 DEF IsKept
<1> DEFINE P(m) == /\ kept[m] \in Seq(S)
                   /\ \E at : /\ Embeds(at, kept[m], s)
                              /\ \A k \in 1 .. Len(kept[m]) : at[k] <= m
                              /\ \A j \in 1 .. m : s[j] \in T => \E k \in 1 .. Len(kept[m]) : at[k] = j
           Q == {m \in Nat : m <= N => P(m)}
<1>4. P(0)
  <2>1. kept[0] = <<>>
    BY <1>0, <1>3
  <2>2. <<>> \in Seq(S) /\ Len(<<>>) = 0 /\ 1 .. 0 = {}
    OBVIOUS
  <2>3. Embeds([k \in 1 .. 0 |-> 0], <<>>, s)
    BY <2>2 DEF Embeds
  <2> QED BY <2>1, <2>2, <2>3
<1>5. ASSUME NEW m \in Nat, m + 1 <= N, P(m) PROVE P(m + 1)
  <2>1. m + 1 \in 1 .. N /\ kept[m + 1] = IF s[m + 1] \in T THEN Append(kept[m], s[m + 1]) ELSE kept[m]
    BY <1>0, <1>3, <1>5
  <2>2. PICK at : /\ Embeds(at, kept[m], s)
                  /\ \A k \in 1 .. Len(kept[m]) : at[k] <= m
                  /\ \A j \in 1 .. m : s[j] \in T => \E k \in 1 .. Len(kept[m]) : at[k] = j
    BY <1>5
  <2> DEFINE r == kept[m]  L == Len(r)
  <2>3. r \in Seq(S) /\ L \in Nat
    BY <1>5
  <2>4. CASE s[m + 1] \notin T
    <3>1. kept[m + 1] = r
      BY <2>1, <2>4
    <3>2. \A k \in 1 .. L : at[k] \in DOMAIN s /\ at[k] \in Int
      BY <1>0, <2>2 DEF Embeds
    <3>3. /\ \A k \in 1 .. L : at[k] <= m + 1
          /\ \A j \in 1 .. m + 1 : s[j] \in T => \E k \in 1 .. L : at[k] = j
      BY <2>2, <2>4, <3>2
    <3> QED BY <2>2, <2>3, <3>1, <3>3
  <2>5. CASE s[m + 1] \in T
    <3> DEFINE q == Append(r, s[m + 1])
               to == [k \in 1 .. L + 1 |-> IF k = L + 1 THEN m + 1 ELSE at[k]]
    <3>1. kept[m + 1] = q /\ s[m + 1] \in S /\ m + 1 \in DOMAIN s
      BY <1>0, <2>1, <2>5
    <3>2. q \in Seq(S) /\ Len(q) = L + 1 /\ q[L + 1] = s[m + 1] /\ \A k \in 1 .. L : q[k] = r[k]
      BY <2>3, <3>1
    <3> HIDE DEF r, q
    <3>3. at \in [1 .. L -> DOMAIN s] /\ (\A k \in 1 .. L : r[k] = s[at[k]])
          /\ \A j, k \in 1 .. L : j < k => at[j] < at[k]
      BY <2>2 DEF Embeds, r
    <3> HIDE DEF L
    <3>4. \A k \in 1 .. L : to[k] = at[k] /\ k \in 1 .. L + 1 /\ at[k] \in Int /\ at[k] < m + 1
      BY <1>0, <1>5, <2>2, <2>3, <3>3 DEF L, r
    <3>5. to[L + 1] = m + 1 /\ L + 1 \in 1 .. L + 1
      BY <2>3
    <3>6. \A k \in 1 .. L + 1 : k = L + 1 \/ k \in 1 .. L
      BY <2>3
    <3>7. to \in [1 .. L + 1 -> DOMAIN s]
      BY <3>1, <3>3, <3>6
    <3> HIDE DEF to
    <3>8. Embeds(to, q, s)
      <4>1. \A k \in 1 .. L + 1 : q[k] = s[to[k]]
        BY <3>2, <3>3, <3>4, <3>5, <3>6
      <4>2. ASSUME NEW j \in 1 .. L + 1, NEW k \in 1 .. L + 1, j < k PROVE to[j] < to[k]
        <5>1. j \in 1 .. L
          BY <2>3, <4>2
        <5> QED BY <3>3, <3>4, <3>5, <3>6, <4>2, <5>1
      <4> QED BY <3>2, <3>7, <4>1, <4>2 DEF Embeds
    <3>9. /\ \A k \in 1 .. L + 1 : to[k] <= m + 1
          /\ \A j \in 1 .. m + 1 : s[j] \in T => \E k \in 1 .. L + 1 : to[k] = j
      <4>1. \A k \in 1 .. L + 1 : to[k] <= m + 1
        BY <3>4, <3>5, <3>6
      <4>2. ASSUME NEW j \in 1 .. m + 1, s[j] \in T PROVE \E k \in 1 .. L + 1 : to[k] = j
        <5>1. CASE j = m + 1
          BY <3>5, <5>1
        <5>2. CASE j # m + 1
          <6>1. j \in 1 .. m
            BY <1>5, <5>2
          <6>2. PICK k \in 1 .. L : at[k] = j
            BY <2>2, <4>2, <6>1 DEF L, r
          <6> QED BY <3>4, <6>2
        <5> QED BY <5>1, <5>2
      <4> QED BY <4>1, <4>2
    <3> QED BY <3>1, <3>2, <3>8, <3>9
  <2> QED BY <2>4, <2>5
<1> HIDE DEF P
<1>6. Q = Nat
  <2>1. 0 \in Q
    BY <1>4
  <2>2. \A m \in Q : m + 1 \in Q
    BY <1>0, <1>5
  <2> HIDE DEF Q
  <2>3. Q \in SUBSET Nat
    BY DEF Q
  <2> QED BY <2>1, <2>2, <2>3, SetInduction
<1>7. P(N)
  BY <1>0, <1>6
<1> QED BY <1>0, <1>1, <1>7 DEF P
=============================================================================
