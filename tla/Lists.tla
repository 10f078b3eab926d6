-------------------------------- MODULE Lists --------------------------------
(***************************************************************************)
(* The operations on lists that the search pipeline and the classifier use:*)
(* a comprehension with a condition, dict.fromkeys, chain, list.sort, a    *)
(* slice and sum.                                                          *)
(*                                                                         *)
(* Each is defined by the places of the elements it keeps, in the order it *)
(* keeps them, and not by recursion: SelectSeq, SortSeq and FlattenSeq     *)
(* compute the same, but the proof system knows nothing about them.        *)
(***************************************************************************)
EXTENDS Integers, Sequences, FiniteSets

\* The elements of a finite set, in the order of a strict total order on it.
Nth(S, before, k) == CHOOSE x \in S : Cardinality({y \in S : <<y, x>> \in before}) = k - 1
Ordered(S, before) == [k \in 1 .. Cardinality(S) |-> Nth(S, before, k)]

Ascending == [places \in SUBSET Int |->
                Ordered(places, {p \in places \X places : p[1] < p[2]})]

\* The elements of s at the places of a set, in their order: a comprehension
\* with a condition.
AtPlaces(s, places) ==
  LET order == Ascending[places] IN [k \in DOMAIN order |-> s[order[k]]]

\* The elements in the order they first appear: what a dict keeps.
FirstPlaces(s) == {i \in DOMAIN s : \A j \in 1 .. i - 1 : s[j] # s[i]}
FirstSeen(s) == AtPlaces(s, FirstPlaces(s))

\* The elements that belong to a set.
Kept(s, set) == AtPlaces(s, {i \in DOMAIN s : s[i] \in set})

\* The lists of a list, one after the other.
Chained(lists) ==
  LET places == UNION {{i} \X (DOMAIN lists[i]) : i \in DOMAIN lists}
      earlier == {p \in places \X places :
                    \/ p[1][1] < p[2][1]
                    \/ p[1][1] = p[2][1] /\ p[1][2] < p[2][2]}
      order == Ordered(places, earlier)
  IN  [k \in DOMAIN order |-> lists[order[k][1]][order[k][2]]]

\* A stable descending sort: equal scores keep their order (list.sort).
SortedBy(s, score) ==
  LET before == {p \in (DOMAIN s) \X (DOMAIN s) :
                   \/ score[s[p[1]]] > score[s[p[2]]]
                   \/ score[s[p[1]]] = score[s[p[2]]] /\ p[1] < p[2]}
      order == Ordered(DOMAIN s, before)
  IN  [k \in DOMAIN s |-> s[order[k]]]

\* The first n elements.
Take(s, n) == SubSeq(s, 1, IF n < Len(s) THEN n ELSE Len(s))

\* The sum of a list of numbers.
Total(s) ==
  LET sum[n \in 0 .. Len(s)] == IF n = 0 THEN 0 ELSE sum[n - 1] + s[n] IN sum[Len(s)]
==============================================================================
