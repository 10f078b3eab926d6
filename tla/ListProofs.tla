----------------------------- MODULE ListProofs -----------------------------
(***************************************************************************)
(* What TLAPS proves of the list operations.                               *)
(***************************************************************************)
EXTENDS Lists, FiniteSetsExt, FunctionTheorems, FiniteSetTheorems, SequenceTheorems, WellFoundedInduction, TLAPS

StrictOrder(S, before) ==
  /\ \A x \in S : <<x, x>> \notin before
  /\ \A x, y, z \in S : <<x, y>> \in before /\ <<y, z>> \in before => <<x, z>> \in before
  /\ \A x, y \in S : x = y \/ <<x, y>> \in before \/ <<y, x>> \in before

\* The number of elements before one.
RankIn(S, before) == [x \in S |-> Cardinality({y \in S : <<y, x>> \in before})]

\* It tells the place of the element, and no place is free.
LEMMA RankOnto ==
  ASSUME NEW S, IsFiniteSet(S), NEW before, StrictOrder(S, before)
  PROVE  /\ \A x \in S : RankIn(S, before)[x] \in 0 .. Cardinality(S) - 1
         /\ \A x, y \in S : RankIn(S, before)[x] = RankIn(S, before)[y] => x = y
         /\ \A k \in 0 .. Cardinality(S) - 1 : \E x \in S : RankIn(S, before)[x] = k
<1> DEFINE below(x) == {y \in S : <<y, x>> \in before}
           rank == [x \in S |-> Cardinality(below(x))]
           n == Cardinality(S)
<1>n. n \in Nat
  BY FS_CardinalityType
<1>1. ASSUME NEW x \in S
      PROVE  IsFiniteSet(below(x)) /\ Cardinality(below(x)) \in 0 .. n - 1
  <2>1. IsFiniteSet(below(x)) /\ Cardinality(below(x)) <= n /\ (n = Cardinality(below(x)) => S = below(x))
    BY FS_Subset, below(x) \in SUBSET S
  <2>2. x \notin below(x)
    BY DEF StrictOrder
  <2>3. Cardinality(below(x)) # n
    BY <2>1, <2>2
  <2>4. Cardinality(below(x)) \in Nat
    BY <2>1, FS_CardinalityType
  <2> QED BY <2>1, <2>3, <2>4, <1>n
<1>2. ASSUME NEW x \in S, NEW y \in S, <<x, y>> \in before
      PROVE  Cardinality(below(x)) < Cardinality(below(y))
  <2>1. below(x) \subseteq below(y)
    BY <1>2 DEF StrictOrder
  <2>2. x \in below(y) /\ x \notin below(x)
    BY <1>2 DEF StrictOrder
  <2>3. IsFiniteSet(below(y)) /\ Cardinality(below(x)) \in Nat /\ Cardinality(below(y)) \in Nat
    <3> HIDE DEF below, n
    <3> QED BY <1>1, <1>n
  <2>4. Cardinality(below(x)) <= Cardinality(below(y)) /\ Cardinality(below(x)) # Cardinality(below(y))
    BY <2>1, <2>2, <2>3, FS_Subset, below(x) \in SUBSET below(y)
  <2> QED BY <2>3, <2>4
<1>3. ASSUME NEW x \in S, NEW y \in S, rank[x] = rank[y]
      PROVE  x = y
  <2>1. Cardinality(below(x)) \in Nat /\ Cardinality(below(y)) \in Nat
    <3> HIDE DEF below, n
    <3> QED BY <1>1, <1>n
  <2>2. ~(Cardinality(below(x)) < Cardinality(below(y))) /\ ~(Cardinality(below(y)) < Cardinality(below(x)))
    BY <1>3, <2>1
  <2>3. <<x, y>> \notin before /\ <<y, x>> \notin before
    BY <2>2, <1>2
  <2> QED BY <2>3 DEF StrictOrder
<1>4. rank \in Injection(S, 0 .. n - 1)
  <2>1. rank \in [S -> 0 .. n - 1]
    <3> HIDE DEF below, n
    <3> QED BY <1>1
  <2> HIDE DEF rank
  <2> QED BY <2>1, <1>3, Fun_IsInj
<1>5. IsFiniteSet(0 .. n - 1) /\ Cardinality(0 .. n - 1) = n
  BY <1>n, FS_Interval, SMT
<1>6. rank \in Surjection(S, 0 .. n - 1)
  <2> HIDE DEF rank
  <2> QED BY <1>4, <1>5, FS_Injection
<1>7. \A k \in 0 .. n - 1 : \E x \in S : rank[x] = k
  <2> HIDE DEF rank
  <2> QED BY <1>6, Fun_SurjectionProperties
<1>8. \A x \in S : rank[x] \in 0 .. n - 1
  <2> HIDE DEF rank, n
  <2>1. rank \in [S -> 0 .. n - 1]
    BY <1>4, Fun_InjectionProperties
  <2> QED BY <2>1
<1>9. rank = RankIn(S, before)
  BY DEF RankIn
<1> HIDE DEF rank, n
<1> QED BY <1>8, <1>3, <1>7, <1>9 DEF n

\* A strict order makes a list of every element, each once.
LEMMA OrderedLists ==
  ASSUME NEW S, IsFiniteSet(S), NEW before, StrictOrder(S, before)
  PROVE  /\ Cardinality(S) \in Nat
         /\ Ordered(S, before) \in [1 .. Cardinality(S) -> S]
         /\ \A j, k \in 1 .. Cardinality(S) :
              Ordered(S, before)[j] = Ordered(S, before)[k] => j = k
         /\ \A x \in S : \E k \in 1 .. Cardinality(S) : Ordered(S, before)[k] = x
<1> DEFINE rank == RankIn(S, before)
           n == Cardinality(S)
           order == Ordered(S, before)
<1>n. n \in Nat
  BY FS_CardinalityType
<1>1. /\ \A x \in S : rank[x] \in 0 .. n - 1
      /\ \A x, y \in S : rank[x] = rank[y] => x = y
      /\ \A k \in 0 .. n - 1 : \E x \in S : rank[x] = k
  BY RankOnto
<1>2. ASSUME NEW k \in 1 .. n PROVE order[k] \in S /\ rank[order[k]] = k - 1
  <2>1. k - 1 \in 0 .. n - 1
    BY <1>n
  <2>2. PICK x \in S : rank[x] = k - 1
    BY <1>1, <2>1
  <2>3. Cardinality({y \in S : <<y, x>> \in before}) = k - 1
    BY <2>2 DEF RankIn
  <2>4. /\ Nth(S, before, k) \in S
        /\ Cardinality({y \in S : <<y, Nth(S, before, k)>> \in before}) = k - 1
    BY <2>3 DEF Nth
  <2>5. order[k] = Nth(S, before, k)
    BY DEF Ordered
  <2> QED BY <2>4, <2>5 DEF RankIn
<1>3. order = [k \in 1 .. n |-> Nth(S, before, k)]
  BY DEF Ordered
<1> HIDE DEF rank, order, n
<1>4. order \in [1 .. n -> S]
  <2>1. \A k \in 1 .. n : order[k] = Nth(S, before, k)
    BY <1>3
  <2> QED BY <1>2, <1>3, <2>1
<1>5. ASSUME NEW j \in 1 .. n, NEW k \in 1 .. n, order[j] = order[k] PROVE j = k
  BY <1>2, <1>5, <1>n
<1>6. ASSUME NEW x \in S PROVE \E k \in 1 .. n : order[k] = x
  <2>1. rank[x] \in 0 .. n - 1
    BY <1>1
  <2>2. rank[x] + 1 \in 1 .. n /\ (rank[x] + 1) - 1 = rank[x]
    BY <2>1, <1>n
  <2>3. order[rank[x] + 1] \in S /\ rank[order[rank[x] + 1]] = rank[x]
    BY <1>2, <2>2
  <2> QED BY <1>1, <2>2, <2>3
<1> QED BY <1>n, <1>4, <1>5, <1>6 DEF order, n
-----------------------------------------------------------------------------
(* What a list operation leaves of a list: the elements at some places, each *)
(* place once.                                                               *)

Arranges(t, s, places) ==
  \E order \in Bijection(DOMAIN t, places) : \A k \in DOMAIN t : t[k] = s[order[k]]

LEMMA OrderedArranges ==
  ASSUME NEW S, IsFiniteSet(S), NEW before, StrictOrder(S, before)
  PROVE  /\ Cardinality(S) \in Nat
         /\ DOMAIN Ordered(S, before) = 1 .. Cardinality(S)
         /\ Ordered(S, before) \in Bijection(1 .. Cardinality(S), S)
<1> DEFINE order == Ordered(S, before)
           n == Cardinality(S)
<1>1. /\ n \in Nat
      /\ order \in [1 .. n -> S]
      /\ \A j, k \in 1 .. n : order[j] = order[k] => j = k
      /\ \A x \in S : \E k \in 1 .. n : order[k] = x
  BY OrderedLists
<1> HIDE DEF order, n
<1>2. order \in Bijection(1 .. n, S)
  BY <1>1, Fun_IsBij
<1> QED BY <1>1, <1>2 DEF order, n

LEMMA Earlier ==
  ASSUME NEW places \in SUBSET Int
  PROVE  StrictOrder(places, {p \in places \X places : p[1] < p[2]})
BY DEF StrictOrder

LEMMA AtPlacesArranges ==
  ASSUME NEW s, NEW places \in SUBSET Int, IsFiniteSet(places)
  PROVE  /\ Cardinality(places) \in Nat
         /\ DOMAIN AtPlaces(s, places) = 1 .. Cardinality(places)
         /\ AtPlaces(s, places) = [k \in 1 .. Cardinality(places) |-> AtPlaces(s, places)[k]]
         /\ Arranges(AtPlaces(s, places), s, places)
<1> DEFINE earlier == {p \in places \X places : p[1] < p[2]}
           order == Ordered(places, earlier)
           n == Cardinality(places)
<1>1. n \in Nat /\ DOMAIN order = 1 .. n /\ order \in Bijection(1 .. n, places)
  BY Earlier, OrderedArranges
<1>2. AtPlaces(s, places) = [k \in DOMAIN order |-> s[order[k]]]
  <2>1. Ascending[places] = order
    BY DEF Ascending
  <2> HIDE DEF order
  <2> QED BY <2>1 DEF AtPlaces
<1> HIDE DEF order, n
<1>3. AtPlaces(s, places) = [k \in 1 .. n |-> s[order[k]]]
  BY <1>1, <1>2
<1>4. Arranges(AtPlaces(s, places), s, places)
  BY <1>1, <1>3 DEF Arranges
<1> QED BY <1>1, <1>3, <1>4 DEF n

LEMMA SortedArranges ==
  ASSUME NEW n \in Nat, NEW s, DOMAIN s = 1 .. n, NEW score, \A i \in 1 .. n : score[s[i]] \in Int
  PROVE  /\ SortedBy(s, score) = [k \in 1 .. n |-> SortedBy(s, score)[k]]
         /\ Arranges(SortedBy(s, score), s, DOMAIN s)
<1> DEFINE ahead(p) == \/ score[s[p[1]]] > score[s[p[2]]]
                       \/ score[s[p[1]]] = score[s[p[2]]] /\ p[1] < p[2]
           before == {p \in (DOMAIN s) \X (DOMAIN s) : ahead(p)}
           order == Ordered(DOMAIN s, before)
<1>1. IsFiniteSet(DOMAIN s) /\ Cardinality(DOMAIN s) = n
  BY FS_Interval, SMT
<1>2. StrictOrder(DOMAIN s, before)
  <2> DEFINE m == [i \in 1 .. n |-> score[s[i]]]
  <2>1. m \in [1 .. n -> Int]
    OBVIOUS
  <2>3. ASSUME NEW i \in 1 .. n, NEW j \in 1 .. n
        PROVE  <<i, j>> \in before <=> (m[i] > m[j] \/ (m[i] = m[j] /\ i < j))
    <3>1. m[i] = score[s[i]] /\ m[j] = score[s[j]]
      OBVIOUS
    <3>2. <<i, j>> \in (DOMAIN s) \X (DOMAIN s)
      OBVIOUS
    <3>3. <<i, j>> \in before <=> ahead(<<i, j>>)
      <4> HIDE DEF ahead
      <4> QED BY <3>2
    <3>4. <<i, j>>[1] = i /\ <<i, j>>[2] = j
      OBVIOUS
    <3>5. ahead(<<i, j>>) <=> (score[s[i]] > score[s[j]] \/ (score[s[i]] = score[s[j]] /\ i < j))
      BY <3>4, Zenon
    <3> QED BY <3>1, <3>3, <3>5, Zenon
  <2> HIDE DEF m, before
  <2>4. \A i \in 1 .. n : i \in Int /\ m[i] \in Int
    BY <2>1
  <2> QED BY <2>3, <2>4 DEF StrictOrder
<1>3. order \in Bijection(1 .. n, DOMAIN s)
  BY <1>1, <1>2, OrderedArranges
<1>4. SortedBy(s, score) = [k \in 1 .. n |-> s[order[k]]]
  BY DEF SortedBy
<1> HIDE DEF order
<1>5. Arranges(SortedBy(s, score), s, DOMAIN s)
  BY <1>3, <1>4 DEF Arranges
<1> QED BY <1>4, <1>5

PlacesIn(lists) == UNION {{i} \X (DOMAIN lists[i]) : i \in DOMAIN lists}

LEMMA ArrangedRange ==
  ASSUME NEW t, NEW s, NEW places, Arranges(t, s, places)
  PROVE  Range(t) = {s[i] : i \in places}
<1> PICK order \in Bijection(DOMAIN t, places) : \A k \in DOMAIN t : t[k] = s[order[k]]
  BY DEF Arranges
<1>1. /\ order \in [DOMAIN t -> places]
      /\ \A i \in places : \E k \in DOMAIN t : order[k] = i
  BY Fun_BijectionProperties
<1> QED BY <1>1 DEF Range

\* How many of the places hold an element of G.
CountAt(s, places, G) == Cardinality({i \in places : s[i] \in G})
Count(s, G) == CountAt(s, DOMAIN s, G)

\* An arrangement holds the elements of a kind as often as the places do.
LEMMA ArrangedCount ==
  ASSUME NEW t, NEW s, NEW places, IsFiniteSet(places), Arranges(t, s, places), NEW G
  PROVE  Count(t, G) = CountAt(s, places, G)
<1> PICK order \in Bijection(DOMAIN t, places) : \A k \in DOMAIN t : t[k] = s[order[k]]
  BY DEF Arranges
<1> DEFINE T == {k \in DOMAIN t : t[k] \in G}
           P == {i \in places : s[i] \in G}
           part == [k \in T |-> order[k]]
<1>1. /\ order \in [DOMAIN t -> places]
      /\ \A j, k \in DOMAIN t : order[j] = order[k] => j = k
      /\ \A i \in places : \E k \in DOMAIN t : order[k] = i
  BY Fun_BijectionProperties
<1>2. /\ part \in [T -> P]
      /\ \A j, k \in T : part[j] = part[k] => j = k
      /\ \A i \in P : \E k \in T : part[k] = i
  BY <1>1
<1>3. part \in Injection(T, P) /\ part \in Surjection(T, P)
  <2> HIDE DEF part, T, P
  <2> QED BY <1>2, Fun_IsInj, Fun_IsSurj
<1>4. IsFiniteSet(P)
  BY FS_Subset, P \in SUBSET places
<1>5. IsFiniteSet(T) /\ Cardinality(T) = Cardinality(P)
  <2> HIDE DEF part, T, P
  <2> QED BY <1>3, <1>4, FS_Injection
<1> QED BY <1>5 DEF Count, CountAt

LEMMA LeastNumber ==
  ASSUME NEW T \in SUBSET Nat, T # {}
  PROVE  \E x \in T : \A y \in T : x <= y
<1>1. PICK x \in T : \A y \in T : <<y, x>> \notin OpToRel(<, Nat)
  BY NatLessThanWellFounded, WFMin
<1>2. \A y \in T : ~(y < x)
  BY <1>1 DEF OpToRel
<1> QED BY <1>2

-----------------------------------------------------------------------------
(* Each operation on a list: what it returns, and what it keeps of the list. *)

LEMMA CountIsNumber ==
  ASSUME NEW T, NEW s \in Seq(T), NEW G
  PROVE  IsFiniteSet({i \in DOMAIN s : s[i] \in G}) /\ Count(s, G) \in Nat
<1>1. IsFiniteSet(DOMAIN s)
  BY FS_Interval, LenProperties, SMT
<1>2. IsFiniteSet({i \in DOMAIN s : s[i] \in G})
  BY <1>1, FS_Subset, {i \in DOMAIN s : s[i] \in G} \in SUBSET DOMAIN s
<1> QED BY <1>2, FS_CardinalityType DEF Count, CountAt

LEMMA PlacesAreFinite ==
  ASSUME NEW T, NEW s \in Seq(T), NEW places \in SUBSET DOMAIN s
  PROVE  places \in SUBSET Int /\ IsFiniteSet(places)
<1>1. Len(s) \in Nat /\ DOMAIN s = 1 .. Len(s)
  OBVIOUS
<1>2. IsFiniteSet(1 .. Len(s))
  BY <1>1, FS_Interval, SMT
<1> QED BY <1>1, <1>2, FS_Subset

\* An arrangement on 1 .. n of elements of T is a list of T.
LEMMA ArrangedIsSeq ==
  ASSUME NEW T, NEW s, NEW places, \A i \in places : s[i] \in T,
         NEW n \in Nat, NEW t, t = [k \in 1 .. n |-> t[k]], Arranges(t, s, places)
  PROVE  t \in Seq(T) /\ Len(t) = n
<1>1. PICK order \in Bijection(DOMAIN t, places) : \A k \in DOMAIN t : t[k] = s[order[k]]
  BY DEF Arranges
<1>2. order \in [DOMAIN t -> places]
  BY <1>1, Fun_BijectionProperties
<1>3. DOMAIN t = 1 .. n
  OBVIOUS
<1>4. \A k \in 1 .. n : t[k] \in T
  BY <1>1, <1>2, <1>3
<1>5. t \in [1 .. n -> T]
  BY <1>3, <1>4
<1> QED BY <1>5, IsASeq, LenProperties

LEMMA AtPlacesFacts ==
  ASSUME NEW T, NEW s \in Seq(T), NEW places \in SUBSET DOMAIN s
  PROVE  /\ AtPlaces(s, places) \in Seq(T)
         /\ Len(AtPlaces(s, places)) = Cardinality(places)
         /\ Range(AtPlaces(s, places)) = {s[i] : i \in places}
         /\ Arranges(AtPlaces(s, places), s, places)
<1>1. places \in SUBSET Int /\ IsFiniteSet(places)
  BY PlacesAreFinite
<1>2. \A i \in places : s[i] \in T
  OBVIOUS
<1>3. /\ Cardinality(places) \in Nat
      /\ AtPlaces(s, places) = [k \in 1 .. Cardinality(places) |-> AtPlaces(s, places)[k]]
      /\ Arranges(AtPlaces(s, places), s, places)
  BY <1>1, AtPlacesArranges
<1>4. AtPlaces(s, places) \in Seq(T) /\ Len(AtPlaces(s, places)) = Cardinality(places)
  BY <1>2, <1>3, ArrangedIsSeq
<1>5. Range(AtPlaces(s, places)) = {s[i] : i \in places}
  <2> DEFINE t == AtPlaces(s, places)
  <2>1. Arranges(t, s, places)
    BY <1>3
  <2> HIDE DEF t
  <2>2. Range(t) = {s[i] : i \in places}
    BY <2>1, ArrangedRange
  <2> QED BY <2>2 DEF t
<1> QED BY <1>3, <1>4, <1>5

LEMMA KeptFacts ==
  ASSUME NEW T, NEW s \in Seq(T), NEW set
  PROVE  /\ Kept(s, set) \in Seq(T)
         /\ Range(Kept(s, set)) = Range(s) \cap set
<1> DEFINE places == {i \in DOMAIN s : s[i] \in set}
<1>1. /\ AtPlaces(s, places) \in Seq(T)
      /\ Range(AtPlaces(s, places)) = {s[i] : i \in places}
  BY AtPlacesFacts
<1>2. {s[i] : i \in places} = Range(s) \cap set
  BY DEF Range
<1> QED BY <1>1, <1>2 DEF Kept

LEMMA KeptCount ==
  ASSUME NEW T, NEW s \in Seq(T), NEW set, NEW G
  PROVE  Count(Kept(s, set), G) = Count(s, set \cap G)
<1> DEFINE places == {i \in DOMAIN s : s[i] \in set}
<1>1. Arranges(AtPlaces(s, places), s, places) /\ IsFiniteSet(places)
  BY AtPlacesFacts, PlacesAreFinite, places \in SUBSET DOMAIN s
<1>2. Count(AtPlaces(s, places), G) = CountAt(s, places, G)
  <2> HIDE DEF places
  <2> QED BY <1>1, ArrangedCount
<1>3. {i \in places : s[i] \in G} = {i \in DOMAIN s : s[i] \in set \cap G}
  OBVIOUS
<1> QED BY <1>2, <1>3 DEF Kept, Count, CountAt

LEMMA CountGrows ==
  ASSUME NEW T, NEW s \in Seq(T), NEW G, NEW H, G \subseteq H
  PROVE  Count(s, G) <= Count(s, H)
<1>1. IsFiniteSet({i \in DOMAIN s : s[i] \in H})
  BY CountIsNumber
<1> QED BY <1>1, FS_Subset, {i \in DOMAIN s : s[i] \in G} \in SUBSET {i \in DOMAIN s : s[i] \in H}
  DEF Count, CountAt

LEMMA FirstSeenFacts ==
  ASSUME NEW T, NEW s \in Seq(T)
  PROVE  FirstSeen(s) \in Seq(T) /\ Range(FirstSeen(s)) = Range(s)
<1>1. FirstPlaces(s) \in SUBSET DOMAIN s
  BY DEF FirstPlaces
<1>2. /\ FirstSeen(s) \in Seq(T)
      /\ Range(FirstSeen(s)) = {s[i] : i \in FirstPlaces(s)}
  BY <1>1, AtPlacesFacts DEF FirstSeen
<1>3. ASSUME NEW k \in DOMAIN s PROVE \E i \in FirstPlaces(s) : s[i] = s[k]
  <2> DEFINE same == {j \in DOMAIN s : s[j] = s[k]}
  <2>1. same \in SUBSET Nat /\ same # {}
    OBVIOUS
  <2>2. PICK i \in same : \A j \in same : i <= j
    BY <2>1, LeastNumber
  <2>3. i \in FirstPlaces(s)
    <3>1. ASSUME NEW j \in 1 .. i - 1 PROVE s[j] # s[i]
      <4>1. j \in DOMAIN s /\ ~(i <= j)
        BY <2>1, <2>2
      <4> QED BY <4>1, <2>2
    <3> QED BY <3>1 DEF FirstPlaces
  <2> QED BY <2>2, <2>3
<1> QED BY <1>1, <1>2, <1>3 DEF Range

LEMMA SortedFacts ==
  ASSUME NEW T, NEW s \in Seq(T), NEW score, \A x \in Range(s) : score[x] \in Int
  PROVE  /\ SortedBy(s, score) \in Seq(T)
         /\ Len(SortedBy(s, score)) = Len(s)
         /\ Range(SortedBy(s, score)) = Range(s)
<1>1. Len(s) \in Nat /\ DOMAIN s = 1 .. Len(s)
  OBVIOUS
<1>2. \A i \in 1 .. Len(s) : score[s[i]] \in Int
  BY <1>1 DEF Range
<1>3. /\ SortedBy(s, score) = [k \in 1 .. Len(s) |-> SortedBy(s, score)[k]]
      /\ Arranges(SortedBy(s, score), s, DOMAIN s)
  BY <1>1, <1>2, SortedArranges
<1>4. \A i \in DOMAIN s : s[i] \in T
  OBVIOUS
<1>5. SortedBy(s, score) \in Seq(T) /\ Len(SortedBy(s, score)) = Len(s)
  <2> DEFINE places == DOMAIN s
             n == Len(s)
             t == SortedBy(s, score)
  <2>1. n \in Nat /\ t = [k \in 1 .. n |-> t[k]] /\ Arranges(t, s, places)
          /\ \A i \in places : s[i] \in T
    BY <1>1, <1>3, <1>4
  <2> HIDE DEF places, n, t
  <2>2. t \in Seq(T) /\ Len(t) = n
    BY <2>1, ArrangedIsSeq
  <2> QED BY <2>2 DEF n, t
<1>6. Range(SortedBy(s, score)) = {s[i] : i \in DOMAIN s}
  BY <1>3, ArrangedRange
<1> QED BY <1>5, <1>6 DEF Range

LEMMA SortedCount ==
  ASSUME NEW T, NEW s \in Seq(T), NEW score, \A x \in Range(s) : score[x] \in Int, NEW G
  PROVE  Count(SortedBy(s, score), G) = Count(s, G)
<1>1. Len(s) \in Nat /\ DOMAIN s = 1 .. Len(s)
  OBVIOUS
<1>2. \A i \in 1 .. Len(s) : score[s[i]] \in Int
  BY <1>1 DEF Range
<1>3. Arranges(SortedBy(s, score), s, DOMAIN s)
  BY <1>1, <1>2, SortedArranges
<1>4. IsFiniteSet(DOMAIN s)
  BY PlacesAreFinite, DOMAIN s \in SUBSET DOMAIN s
<1>5. Count(SortedBy(s, score), G) = CountAt(s, DOMAIN s, G)
  BY <1>3, <1>4, ArrangedCount
<1> QED BY <1>5 DEF Count

LEMMA TakeFacts ==
  ASSUME NEW T, NEW s \in Seq(T), NEW n \in Nat
  PROVE  /\ Take(s, n) \in Seq(T)
         /\ Len(Take(s, n)) <= n
         /\ Len(Take(s, n)) <= Len(s)
         /\ Range(Take(s, n)) \subseteq Range(s)
         /\ s # <<>> /\ n > 0 => Take(s, n) # <<>>
<1> DEFINE m == IF n < Len(s) THEN n ELSE Len(s)
<1>1. m \in 0 .. Len(s) /\ Len(s) \in Nat /\ m <= n /\ (s # <<>> /\ n > 0 => m # 0)
  BY EmptySeq
<1>2. Take(s, n) = SubSeq(s, 1, m)
  BY DEF Take
<1>3. /\ SubSeq(s, 1, m) \in Seq(T)
      /\ Len(SubSeq(s, 1, m)) = m
      /\ \A i \in 1 .. m : SubSeq(s, 1, m)[i] = s[i]
  <2> HIDE DEF m
  <2> QED BY <1>1, SMT
<1>4. Range(SubSeq(s, 1, m)) \subseteq Range(s)
  <2> HIDE DEF m
  <2>1. DOMAIN SubSeq(s, 1, m) = 1 .. m /\ 1 .. m \subseteq DOMAIN s
    BY <1>1, <1>3
  <2> QED BY <1>3, <2>1 DEF Range
<1>5. m # 0 => SubSeq(s, 1, m) # <<>>
  <2> HIDE DEF m
  <2> QED BY <1>3, EmptySeq
<1> HIDE DEF m
<1> QED BY <1>1, <1>2, <1>3, <1>4, <1>5

\* Places of a list of lists, ordered like the chain of the lists.
LEMMA PlacesInOrder ==
  ASSUME NEW T, NEW lists \in Seq(Seq(T))
  PROVE  /\ IsFiniteSet(PlacesIn(lists))
         /\ \A p \in PlacesIn(lists) : p[1] \in DOMAIN lists /\ p[2] \in DOMAIN lists[p[1]]
         /\ \A i \in DOMAIN lists : \A k \in DOMAIN lists[i] : <<i, k>> \in PlacesIn(lists)
         /\ StrictOrder(PlacesIn(lists),
              {p \in PlacesIn(lists) \X PlacesIn(lists) :
                 \/ p[1][1] < p[2][1]
                 \/ p[1][1] = p[2][1] /\ p[1][2] < p[2][2]})
<1> DEFINE S == PlacesIn(lists)
           before == {p \in S \X S : \/ p[1][1] < p[2][1]
                                     \/ p[1][1] = p[2][1] /\ p[1][2] < p[2][2]}
<1>1. \A i \in DOMAIN lists : lists[i] \in Seq(T) /\ i \in Int
  OBVIOUS
<1>2. \A i \in DOMAIN lists : \A k \in DOMAIN lists[i] : k \in Int
  BY <1>1
<1>3. \A p \in S : \E i \in DOMAIN lists : \E k \in DOMAIN lists[i] : p = <<i, k>>
  BY DEF PlacesIn
<1>4. ASSUME NEW i \in DOMAIN lists PROVE IsFiniteSet({i} \X (DOMAIN lists[i]))
  <2>1. IsFiniteSet({i}) /\ IsFiniteSet(DOMAIN lists[i])
    BY <1>1, PlacesAreFinite, DOMAIN lists[i] \in SUBSET DOMAIN lists[i], FS_Singleton
  <2> QED BY <2>1, FS_Product
<1>5. IsFiniteSet(S)
  <2> DEFINE blocks == {{i} \X (DOMAIN lists[i]) : i \in DOMAIN lists}
  <2>1. IsFiniteSet(DOMAIN lists)
    BY PlacesAreFinite, DOMAIN lists \in SUBSET DOMAIN lists
  <2>2. IsFiniteSet(blocks)
    <3> DEFINE block == [i \in DOMAIN lists |-> {i} \X (DOMAIN lists[i])]
    <3>1. block \in Surjection(DOMAIN lists, blocks)
      <4>1. block \in [DOMAIN lists -> blocks] /\ \A b \in blocks : \E i \in DOMAIN lists : block[i] = b
        OBVIOUS
      <4> HIDE DEF block, blocks
      <4> QED BY <4>1, Fun_IsSurj
    <3> HIDE DEF block, blocks
    <3> QED BY <2>1, <3>1, FS_Surjection
  <2>3. \A b \in blocks : IsFiniteSet(b)
    BY <1>4
  <2>4. IsFiniteSet(UNION blocks)
    <3> HIDE DEF blocks
    <3> QED BY <2>2, <2>3, FS_UNION
  <2> QED BY <2>4 DEF PlacesIn
<1>6. \A p \in S : p[1] \in DOMAIN lists /\ p[2] \in DOMAIN lists[p[1]] /\ p = <<p[1], p[2]>>
  BY <1>3
<1>7. \A i \in DOMAIN lists : \A k \in DOMAIN lists[i] : <<i, k>> \in S
  BY DEF PlacesIn
<1>8. StrictOrder(S, before)
  <2>1. ASSUME NEW x \in S, NEW y \in S
        PROVE  <<x, y>> \in before <=> (x[1] < y[1] \/ (x[1] = y[1] /\ x[2] < y[2]))
    <3> HIDE DEF S
    <3> QED OBVIOUS
  <2>2. \A x \in S : x[1] \in Int /\ x[2] \in Int /\ x = <<x[1], x[2]>>
    BY <1>1, <1>2, <1>6
  <2>3. \A x, y \in S : x[1] = y[1] /\ x[2] = y[2] => x = y
    BY <2>2
  <2> HIDE DEF before, S
  <2>4. \A x \in S : <<x, x>> \notin before
    BY <2>1, <2>2
  <2>5. \A x, y, z \in S : <<x, y>> \in before /\ <<y, z>> \in before => <<x, z>> \in before
    <3>1. ASSUME NEW x \in S, NEW y \in S, NEW z \in S, <<x, y>> \in before, <<y, z>> \in before
          PROVE  <<x, z>> \in before
      <4>1. x[1] < y[1] \/ (x[1] = y[1] /\ x[2] < y[2])
        BY <2>1, <3>1
      <4>2. y[1] < z[1] \/ (y[1] = z[1] /\ y[2] < z[2])
        BY <2>1, <3>1
      <4>3. /\ x[1] \in Int /\ x[2] \in Int /\ y[1] \in Int /\ y[2] \in Int
            /\ z[1] \in Int /\ z[2] \in Int
        BY <2>2
      <4>4. x[1] < z[1] \/ (x[1] = z[1] /\ x[2] < z[2])
        BY <4>1, <4>2, <4>3
      <4> QED BY <2>1, <4>4
    <3> QED BY <3>1
  <2>6. \A x, y \in S : x = y \/ <<x, y>> \in before \/ <<y, x>> \in before
    <3>1. ASSUME NEW x \in S, NEW y \in S, x # y
          PROVE  <<x, y>> \in before \/ <<y, x>> \in before
      <4>1. x[1] \in Int /\ x[2] \in Int /\ y[1] \in Int /\ y[2] \in Int
        BY <2>2
      <4>2. x[1] # y[1] \/ x[2] # y[2]
        BY <2>3, <3>1
      <4>3. \/ x[1] < y[1] \/ (x[1] = y[1] /\ x[2] < y[2])
            \/ y[1] < x[1] \/ (y[1] = x[1] /\ y[2] < x[2])
        BY <4>1, <4>2
      <4> QED BY <2>1, <4>3
    <3> QED BY <3>1
  <2> QED BY <2>4, <2>5, <2>6 DEF StrictOrder
<1> QED BY <1>5, <1>6, <1>7, <1>8

LEMMA ChainedFacts ==
  ASSUME NEW T, NEW lists \in Seq(Seq(T))
  PROVE  /\ Chained(lists) \in Seq(T)
         /\ \A x : x \in Range(Chained(lists)) <=> \E i \in DOMAIN lists : x \in Range(lists[i])
<1> DEFINE S == PlacesIn(lists)
           before == {p \in S \X S : \/ p[1][1] < p[2][1]
                                     \/ p[1][1] = p[2][1] /\ p[1][2] < p[2][2]}
           order == Ordered(S, before)
           n == Cardinality(S)
<1>1. /\ IsFiniteSet(S) /\ StrictOrder(S, before)
      /\ \A p \in S : p[1] \in DOMAIN lists /\ p[2] \in DOMAIN lists[p[1]]
      /\ \A i \in DOMAIN lists : \A k \in DOMAIN lists[i] : <<i, k>> \in S
  BY PlacesInOrder
<1>2. Chained(lists) = [k \in DOMAIN order |-> lists[order[k][1]][order[k][2]]]
  BY DEF Chained, PlacesIn
<1> HIDE DEF S, before
<1>3. /\ n \in Nat /\ DOMAIN order = 1 .. n
      /\ order \in [1 .. n -> S]
      /\ \A p \in S : \E k \in 1 .. n : order[k] = p
  BY <1>1, OrderedLists DEF Ordered
<1> HIDE DEF order, n
<1>4. ASSUME NEW p \in S PROVE lists[p[1]][p[2]] \in T
  <2>1. lists[p[1]] \in Seq(T) /\ p[2] \in DOMAIN lists[p[1]]
    BY <1>1
  <2> QED BY <2>1
<1>5. Chained(lists) \in [1 .. n -> T]
  BY <1>2, <1>3, <1>4
<1>6. ASSUME NEW x, x \in Range(Chained(lists))
      PROVE  \E i \in DOMAIN lists : x \in Range(lists[i])
  <2>1. PICK k \in 1 .. n : x = lists[order[k][1]][order[k][2]]
    BY <1>2, <1>3, <1>6 DEF Range
  <2>2. order[k][1] \in DOMAIN lists /\ order[k][2] \in DOMAIN lists[order[k][1]]
    BY <1>1, <1>3
  <2> QED BY <2>1, <2>2 DEF Range
<1>7. ASSUME NEW x, NEW i \in DOMAIN lists, x \in Range(lists[i])
      PROVE  x \in Range(Chained(lists))
  <2>1. PICK j \in DOMAIN lists[i] : x = lists[i][j]
    BY <1>7 DEF Range
  <2>2. PICK k \in 1 .. n : order[k] = <<i, j>>
    BY <1>1, <1>3
  <2>3. Chained(lists)[k] = x
    BY <1>2, <1>3, <2>1, <2>2
  <2> QED BY <1>5, <2>3 DEF Range
<1> QED BY <1>3, <1>5, <1>6, <1>7, IsASeq

\* A sum of numbers is a number.
LEMMA TotalIsNumber ==
  ASSUME NEW s \in Seq(Nat)
  PROVE  Total(s) \in Nat
<1> DEFINE n == Len(s)
           Sums(m, f) == \A i \in 0 .. m : f[i] = IF i = 0 THEN 0 ELSE f[i - 1] + s[i]
           Bad == {m \in 0 .. n : ~ \E f \in [0 .. m -> Nat] : Sums(m, f)}
<1>n. n \in Nat
  OBVIOUS
<1>1. Bad = {}
  <2> SUFFICES ASSUME Bad # {} PROVE FALSE
    OBVIOUS
  <2>1. PICK m \in Bad : \A k \in Bad : m <= k
    <3>1. Bad \in SUBSET Nat
      OBVIOUS
    <3> HIDE DEF Bad
    <3> QED BY <3>1, LeastNumber
  <2>2. m \in 0 .. n /\ ~ \E f \in [0 .. m -> Nat] : Sums(m, f)
    OBVIOUS
  <2>3. m # 0
    <3>1. [i \in 0 .. 0 |-> 0] \in [0 .. 0 -> Nat] /\ Sums(0, [i \in 0 .. 0 |-> 0])
      OBVIOUS
    <3> QED BY <2>2, <3>1
  <2>4. m - 1 \in 0 .. n /\ m - 1 \notin Bad /\ m \in 1 .. n
    <3> HIDE DEF Bad, n
    <3> QED BY <1>n, <2>1, <2>2, <2>3
  <2>5. PICK f \in [0 .. m - 1 -> Nat] : Sums(m - 1, f)
    BY <2>4
  <2> DEFINE g == [i \in 0 .. m |-> IF i = m THEN f[m - 1] + s[m] ELSE f[i]]
  <2>6. s[m] \in Nat /\ f[m - 1] \in Nat
    BY <2>4
  <2>7. g \in [0 .. m -> Nat]
    BY <2>4, <2>6
  <2>8. Sums(m, g)
    <3>1. ASSUME NEW i \in 0 .. m PROVE g[i] = IF i = 0 THEN 0 ELSE g[i - 1] + s[i]
      <4>1. CASE i = m
        <5>1. i # 0 /\ i - 1 \in 0 .. m /\ i - 1 # m
          BY <2>4, <4>1
        <5>2. g[i] = f[m - 1] + s[m] /\ g[i - 1] = f[m - 1]
          BY <4>1, <5>1
        <5> QED BY <4>1, <5>1, <5>2
      <4>2. CASE i # m
        <5>1. i \in 0 .. m - 1 /\ g[i] = f[i]
          BY <2>4, <4>2
        <5>2. f[i] = IF i = 0 THEN 0 ELSE f[i - 1] + s[i]
          BY <2>5, <5>1
        <5>3. i # 0 => i - 1 \in 0 .. m /\ i - 1 # m
          BY <2>4, <4>2
        <5>4. i # 0 => g[i - 1] = f[i - 1]
          BY <5>3
        <5> QED BY <5>1, <5>2, <5>4
      <4> QED BY <4>1, <4>2
    <3> HIDE DEF g
    <3> QED BY <3>1
  <2> HIDE DEF g
  <2> QED BY <2>2, <2>7, <2>8
<1>2. PICK f \in [0 .. n -> Nat] : Sums(n, f)
  BY <1>1, <1>n
<1> DEFINE Body(h) == [i \in 0 .. n |-> IF i = 0 THEN 0 ELSE h[i - 1] + s[i]]
           sum == CHOOSE h : h = Body(h)
<1>3. f = Body(f)
  BY <1>2
<1>4. sum = Body(sum)
  <2> HIDE DEF Body
  <2> QED BY <1>3
<1>5. Total(s) = sum[n]
  BY DEF Total
<1> HIDE DEF sum
<1>6. \A i \in 0 .. n : sum[i] = IF i = 0 THEN 0 ELSE sum[i - 1] + s[i]
  BY <1>4
<1> DEFINE Odd == {m \in 0 .. n : sum[m] \notin Nat}
<1>7. Odd = {}
  <2> SUFFICES ASSUME Odd # {} PROVE FALSE
    OBVIOUS
  <2>1. PICK m \in Odd : \A k \in Odd : m <= k
    <3>1. Odd \in SUBSET Nat
      OBVIOUS
    <3> HIDE DEF Odd
    <3> QED BY <3>1, LeastNumber
  <2>2. m \in 0 .. n /\ sum[m] \notin Nat
    OBVIOUS
  <2>3. m # 0
    BY <1>6, <2>2
  <2>4. m - 1 \in 0 .. n /\ m - 1 \notin Odd /\ m \in 1 .. n
    <3> HIDE DEF Odd, n
    <3> QED BY <1>n, <2>1, <2>2, <2>3
  <2>5. sum[m - 1] \in Nat /\ s[m] \in Nat
    BY <2>4
  <2>6. sum[m] = sum[m - 1] + s[m]
    BY <1>6, <2>2, <2>3
  <2> QED BY <2>2, <2>5, <2>6
<1> QED BY <1>5, <1>7, <1>n

LEMMA RangeIsFinite ==
  ASSUME NEW T, NEW s \in Seq(T)
  PROVE  /\ Range(s) \subseteq T /\ IsFiniteSet(Range(s))
         /\ Cardinality(Range(s)) \in Nat /\ Cardinality(Range(s)) <= Len(s)
<1>1. Len(s) \in Nat /\ s \in [1 .. Len(s) -> T]
  BY LenProperties
<1>2. IsFiniteSet(1 .. Len(s)) /\ Cardinality(1 .. Len(s)) = Len(s)
  BY <1>1, FS_Interval, SMT
<1>3. Range(s) \subseteq T /\ s \in Surjection(1 .. Len(s), Range(s))
  BY <1>1, Fun_RangeProperties
<1>4. IsFiniteSet(Range(s)) /\ Cardinality(Range(s)) <= Cardinality(1 .. Len(s))
  BY <1>2, <1>3, FS_Surjection
<1> QED BY <1>2, <1>3, <1>4, FS_CardinalityType

\* Only a list without elements has no range.
LEMMA EmptyRange ==
  ASSUME NEW T, NEW s \in Seq(T)
  PROVE  s = <<>> <=> Range(s) = {}
<1>1. s = <<>> <=> Len(s) = 0
  BY EmptySeq
<1>2. Len(s) \in Nat /\ DOMAIN s = 1 .. Len(s)
  OBVIOUS
<1>3. Range(s) = {} <=> DOMAIN s = {}
  BY DEF Range
<1>4. 1 .. Len(s) = {} <=> Len(s) = 0
  <2> DEFINE n == Len(s)
  <2>1. n \in Nat
    BY <1>2
  <2> HIDE DEF n
  <2>2. n = 0 => 1 .. n = {}
    BY <2>1
  <2>3. n # 0 => 1 \in 1 .. n
    BY <2>1
  <2>4. 1 .. n = {} <=> n = 0
    BY <2>2, <2>3
  <2> QED BY <2>4 DEF n
<1>5. DOMAIN s = {} <=> Len(s) = 0
  BY <1>2, <1>4
<1> QED BY <1>1, <1>3, <1>5

LEMMA Greatest ==
  ASSUME NEW S \in SUBSET Nat, IsFiniteSet(S), S # {}
  PROVE  \E m \in S : \A y \in S : m >= y
<1> DEFINE Bad == {T \in SUBSET S : T # {} /\ ~\E m \in T : \A y \in T : m >= y}
<1> SUFFICES ASSUME Bad # {} PROVE FALSE
  OBVIOUS
<1>1. Bad \subseteq FiniteSubsetsOf(S)
  BY FS_Subset DEF FiniteSubsetsOf
<1>2. PICK T \in Bad : \A U \in Bad : <<U, T>> \notin StrictSubsetOrdering(S)
  <2> HIDE DEF Bad
  <2> QED BY <1>1, FS_StrictSubsetOrderingWellFounded, WFMin
<1>3. PICK x \in T : TRUE
  OBVIOUS
<1>4. <<T \ {x}, T>> \in StrictSubsetOrdering(S)
  BY <1>3 DEF StrictSubsetOrdering
<1>5. T \ {x} \notin Bad
  BY <1>2, <1>4
<1>6. CASE T \ {x} = {}
  BY <1>2, <1>3, <1>6
<1>7. CASE T \ {x} # {}
  <2>1. PICK m \in T \ {x} : \A y \in T \ {x} : m >= y
    BY <1>5, <1>7
  <2>2. m \in Nat /\ x \in Nat /\ T \subseteq Nat
    BY <2>1, <1>3
  <2>3. CASE m >= x
    BY <2>1, <2>2, <2>3, <1>2
  <2>4. CASE x > m
    <3>1. \A y \in T : x >= y
      BY <2>1, <2>2, <2>4
    <3> QED BY <3>1, <1>2, <1>3
  <2> QED BY <2>2, <2>3, <2>4
<1> QED BY <1>6, <1>7

LEMMA MaxIsGreatest ==
  ASSUME NEW S \in SUBSET Nat, IsFiniteSet(S), S # {}
  PROVE  Max(S) \in S /\ \A y \in S : Max(S) >= y
BY Greatest DEF Max

LEMMA MinIsLeast ==
  ASSUME NEW S \in SUBSET Nat, S # {}
  PROVE  Min(S) \in S /\ \A y \in S : Min(S) <= y
BY LeastNumber DEF Min

\* At most m members of a set of numbers have fewer than m members before them.
LEMMA FewEarly ==
  ASSUME NEW D \in SUBSET Nat, IsFiniteSet(D), NEW m \in Nat
  PROVE  Cardinality({i \in D : Cardinality({j \in D : j < i}) < m}) <= m
<1> DEFINE before == {p \in D \X D : p[1] < p[2]}
           rank == RankIn(D, before)
           P == {i \in D : Cardinality({j \in D : j < i}) < m}
           part == [i \in P |-> rank[i]]
<1>1. StrictOrder(D, before)
  BY Earlier
<1>2. /\ \A i \in D : rank[i] \in 0 .. Cardinality(D) - 1
      /\ \A i, j \in D : rank[i] = rank[j] => i = j
  <2> HIDE DEF before
  <2> QED BY <1>1, RankOnto
<1>3. ASSUME NEW i \in D PROVE rank[i] = Cardinality({j \in D : j < i})
  <2>1. {y \in D : <<y, i>> \in before} = {j \in D : j < i}
    OBVIOUS
  <2> QED BY <2>1 DEF RankIn
<1>4. \A i \in P : i \in D /\ rank[i] \in 0 .. m - 1
  <2> SUFFICES ASSUME NEW i \in P PROVE rank[i] \in 0 .. m - 1
    OBVIOUS
  <2>1. rank[i] \in Nat
    <3>1. Cardinality(D) \in Nat
      BY FS_CardinalityType
    <3> HIDE DEF rank
    <3> QED BY <1>2, <3>1
  <2>2. rank[i] < m
    BY <1>3
  <2> QED BY <2>1, <2>2
<1>5. part \in [P -> 0 .. m - 1] /\ \A i, j \in P : part[i] = part[j] => i = j
  <2> HIDE DEF rank, P
  <2> QED BY <1>2, <1>4
<1>6. part \in Injection(P, 0 .. m - 1)
  <2> HIDE DEF part, P
  <2> QED BY <1>5, Fun_IsInj
<1>7. IsFiniteSet(0 .. m - 1) /\ Cardinality(0 .. m - 1) = m
  BY FS_Interval, SMT
<1>8. Cardinality(P) <= Cardinality(0 .. m - 1)
  <2> HIDE DEF part, P
  <2> QED BY <1>6, <1>7, FS_Injection
<1> QED BY <1>7, <1>8

LEMMA ImageIsFinite ==
  ASSUME NEW S, IsFiniteSet(S), NEW f, S \subseteq DOMAIN f
  PROVE  IsFiniteSet({f[x] : x \in S})
<1> DEFINE T == {f[x] : x \in S}
           g == [x \in S |-> f[x]]
<1>1. g \in [S -> T] /\ \A y \in T : \E x \in S : g[x] = y
  OBVIOUS
<1>2. g \in Surjection(S, T)
  <2> HIDE DEF g, T
  <2> QED BY <1>1, Fun_IsSurj
<1>3. IsFiniteSet(T)
  <2> HIDE DEF g, T
  <2> QED BY <1>2, FS_Surjection
<1> QED BY <1>3

LEMMA ConcatFacts ==
  ASSUME NEW T, NEW s \in Seq(T), NEW t \in Seq(T), NEW G
  PROVE  /\ s \o t \in Seq(T)
         /\ Range(s \o t) = Range(s) \union Range(t)
         /\ Count(s \o t, G) <= Count(s, G) + Count(t, G)
<1> DEFINE n == Len(s)
           m == Len(t)
           both == s \o t
           A == {i \in DOMAIN s : s[i] \in G}
           B == {i \in DOMAIN t : t[i] \in G}
           C == {i \in DOMAIN both : both[i] \in G}
           late == C \ A
           back == [i \in late |-> i - n]
<1>1. n \in Nat /\ m \in Nat /\ DOMAIN s = 1 .. n /\ DOMAIN t = 1 .. m
  OBVIOUS
<1>2. /\ both \in Seq(T) /\ Len(both) = n + m
      /\ \A i \in 1 .. n + m : both[i] = IF i <= n THEN s[i] ELSE t[i - n]
  BY ConcatProperties
<1>3. Range(both) = Range(s) \union Range(t)
  BY RangeConcatenation
<1> HIDE DEF both
<1>4. DOMAIN both = 1 .. n + m
  BY <1>2, LenProperties
<1> HIDE DEF n, m
<1>5. IsFiniteSet(A) /\ IsFiniteSet(B) /\ IsFiniteSet(C)
  BY <1>2, CountIsNumber
<1>6. ASSUME NEW i \in late PROVE i \in Int /\ i - n \in B
  <2>1. i \in 1 .. n + m /\ both[i] \in G /\ i \notin A
    BY <1>4
  <2>2. ~(i <= n)
    <3> SUFFICES ASSUME i <= n PROVE FALSE
      OBVIOUS
    <3>1. i \in 1 .. n /\ both[i] = s[i]
      BY <1>1, <1>2, <2>1
    <3> QED BY <1>1, <2>1, <3>1
  <2>3. both[i] = t[i - n] /\ i - n \in 1 .. m
    BY <1>1, <1>2, <2>1, <2>2
  <2> QED BY <1>1, <2>1, <2>3
<1>7. back \in Injection(late, B)
  <2>1. back \in [late -> B]
    BY <1>6
  <2>2. \A i, j \in late : back[i] = back[j] => i = j
    <3> HIDE DEF late
    <3> QED BY <1>1, <1>6
  <2> HIDE DEF back, late, B
  <2> QED BY <2>1, <2>2, Fun_IsInj
<1>8. IsFiniteSet(late) /\ Cardinality(late) <= Cardinality(B)
  <2> HIDE DEF back, late, B
  <2> QED BY <1>5, <1>7, FS_Injection
<1>9. IsFiniteSet(A \union late)
      /\ Cardinality(A \union late) = Cardinality(A) + Cardinality(late) - Cardinality(A \cap late)
  <2> HIDE DEF A, late
  <2> QED BY <1>5, <1>8, FS_Union
<1>10. IsFiniteSet(A \cap late)
  <2> HIDE DEF A, late
  <2> QED BY <1>5, FS_Intersection
<1>11. Cardinality(C) <= Cardinality(A \union late)
  <2>1. C \subseteq A \union late
    OBVIOUS
  <2> HIDE DEF A, C, late
  <2> QED BY <1>9, <2>1, FS_Subset
<1>12. /\ Cardinality(A) \in Nat /\ Cardinality(B) \in Nat /\ Cardinality(C) \in Nat
       /\ Cardinality(late) \in Nat /\ Cardinality(A \cap late) \in Nat
       /\ Cardinality(A \union late) \in Nat
  <2> HIDE DEF A, B, C, late
  <2> QED BY <1>5, <1>8, <1>9, <1>10, FS_CardinalityType
<1>13. Cardinality(C) <= Cardinality(A) + Cardinality(B)
  <2> HIDE DEF A, B, C, late
  <2> QED BY <1>8, <1>9, <1>11, <1>12
<1>14. Count(s, G) = Cardinality(A) /\ Count(t, G) = Cardinality(B) /\ Count(both, G) = Cardinality(C)
  BY DEF Count, CountAt
<1> HIDE DEF A, B, C
<1>15. Count(both, G) <= Count(s, G) + Count(t, G)
  BY <1>13, <1>14
<1> QED BY <1>2, <1>3, <1>15 DEF both
==============================================================================
