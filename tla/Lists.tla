------------------------------- MODULE Lists -------------------------------
(***************************************************************************)
(* GLib's singly linked lists (GSList) as sequences: the operations of it  *)
(* that src/src/data.c, thread_trace.c and the miniSEED reader use.        *)
(*                                                                         *)
(* Filtering is a recursive function and sorting a count, where SelectSeq  *)
(* and SortSeq would do for TLC: the proofs need their definitions.        *)
(***************************************************************************)
EXTENDS Integers, Sequences, FiniteSets

Elems(s) == {s[k] : k \in DOMAIN s}

\* No element twice.
Distinct(s) == \A j, k \in DOMAIN s : s[j] = s[k] => j = k

\* The elements of s that are in T, in their order.
Only(s, T) ==
    LET kept[k \in 0 .. Len(s)] ==
            IF k = 0 THEN <<>>
            ELSE IF s[k] \in T THEN Append(kept[k - 1], s[k]) ELSE kept[k - 1]
    IN  kept[Len(s)]

\* The list without the elements of T (g_slist_remove of each).
Without(s, T) == Only(s, Elems(s) \ T)

\* The places of s whose elements a stable sort by key puts before that of k,
\* and the sorted list (g_slist_sort).  (With \o <<>> TLC works it out once.)
Preceding(s, key, k) ==
    {j \in DOMAIN s : key[s[j]] < key[s[k]] \/ (key[s[j]] = key[s[k]] /\ j < k)}
StableSort(s, key) ==
    [n \in 1 .. Len(s) |-> s[CHOOSE k \in DOMAIN s : Cardinality(Preceding(s, key, k)) = n - 1]] \o <<>>
=============================================================================
