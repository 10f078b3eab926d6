------------------------ MODULE SearchPipelineProofs ------------------------
(***************************************************************************)
(* What TLAPS proves of a search, for every archive, every settings, every *)
(* request and every reply of the models.                                  *)
(***************************************************************************)
EXTENDS SearchPipeline, ListProofs

Pcs == {"start", "plan", "retrieve", "broaden", "gate", "judge", "synthesise",
        "replan", "requery", "finish", "done", "overspent"}
Before == {"start", "plan", "retrieve", "broaden", "gate"}
Hits == [id : Chunks, score : Nat]

IsFilter(f) ==
  /\ f = [who |-> f.who, kind |-> f.kind, tags |-> f.tags, from |-> f.from, to |-> f.to]
  /\ f.from \in Days /\ f.to \in Days

IsSpec(spec) ==
  /\ spec.mode \in {"semantic", "keyword"} /\ spec.text \in Texts \union {None}
  /\ IsFilter(spec.filters)

IsSpecList(list) == list \in Seq(Range(list)) /\ \A i \in DOMAIN list : IsSpec(list[i])

-----------------------------------------------------------------------------
(* The invariant                                                           *)

Typed ==
  /\ setup \in Setups /\ request \in Requests
  /\ pc \in Pcs
  /\ plan \in Seq(PlannedSpecs)
  /\ IsSpecList(specs)
  /\ chunks \in Seq(Hits)
  /\ signal \in [vector : {"none", "close", "far"}, keyword : BOOLEAN]
  /\ DOMAIN scores \subseteq Docs /\ scores \in [DOMAIN scores -> Nat]
  /\ dropped \subseteq Docs
  /\ calls \in Nat /\ refinements \in 0 .. setup.refinements
  /\ outcome \in [kind : {"none", "needs_more", "answered"}, cited : SUBSET Docs]
  /\ outage \in BOOLEAN /\ stored \subseteq Docs
  /\ result.kind \in {"pending", "answered", "clarify", "no_match"}

\* The calls of the first r refinements and of the search they refine.
JudgeCalls == IF setup.judge THEN 1 ELSE 0
CallsOf(r) == 2 + JudgeCalls + r * (2 + JudgeCalls)

\* At every step, what the pass still has to call fits.
BudgetLeft ==
  /\ pc \in {"start", "plan"} => calls = 0
  /\ pc \in Before => calls <= 1 /\ refinements = 0
  /\ pc \in {"judge", "requery"} => calls + JudgeCalls + 1 <= CallsOf(refinements)
  /\ pc = "synthesise" => calls + 1 <= CallsOf(refinements)
  /\ pc = "replan" => calls <= CallsOf(refinements) /\ refinements < setup.refinements
  /\ pc # "overspent"

\* A result is final, and a reply of the synthesiser precedes it.
Settled ==
  /\ pc # "done" => result = Pending
  /\ pc \in Before => outcome = Nothing
  /\ result.kind = "no_match" => outcome.kind = "none"
  /\ pc = "finish" /\ request.tool = "answer" /\ setup.refinements > 0 => outcome.kind = "answered"

Passes == IF pc = "requery" THEN refinements ELSE 1 + refinements
EvidenceFits ==
  /\ Cardinality(DocsOf(chunks)) <= Passes * TopK
  /\ \A d \in Docs : Cardinality({i \in DOMAIN chunks : Owner[chunks[i].id] = d}) <= Passes * MaxPerDoc

Unjudged == DOMAIN scores = {} /\ dropped = {}
EvidenceIsJudged ==
  /\ pc \in Before \/ ~setup.judge => Unjudged
  /\ pc \in {"synthesise", "replan", "finish"} =>
       /\ DocsOf(chunks) \intersect dropped = {}
       /\ DOMAIN scores = {} \/ DocsOf(chunks) \subseteq DOMAIN scores

IInv ==
  /\ Typed /\ BudgetLeft /\ Settled /\ EvidenceFits /\ EvidenceIsJudged
  /\ EndsAnswered /\ JudgedOutIsNotCited /\ RankedOnOneScale
  /\ DatedQuestionIsDated /\ FiltersNeverHideAll

-----------------------------------------------------------------------------
(* A pass over the index                                                   *)

LEMMA HitsAreChunks ==
  ASSUME NEW spec, IsSpec(spec), NEW store, NEW down
  PROVE  VectorHits(spec, store, down) \in Seq(Chunks) /\ KeywordHits(spec, store) \in Seq(Chunks)
<1>1. ASSUME NEW hits \in Seq(Chunks), NEW set PROVE Limit(Kept(hits, set)) \in Seq(Chunks)
  <2>1. Kept(hits, set) \in Seq(Chunks)
    BY KeptFacts
  <2>2. PerSpecK \in Nat
    BY LimitsAssumption
  <2> QED BY <2>1, <2>2, TakeFacts DEF Limit
<1>2. VectorHits(spec, store, down) \in Seq(Chunks)
  <2>1. CASE spec.mode # "semantic" \/ spec.text = None \/ down
    BY <2>1 DEF VectorHits
  <2>2. CASE ~(spec.mode # "semantic" \/ spec.text = None \/ down)
    <3>1. Nearest[spec.text] \in Seq(Chunks)
      BY <2>2, IndexAssumption DEF IsSpec
    <3>2. VectorHits(spec, store, down) = VectorSearch(spec.text, spec.filters, store)
      BY <2>2 DEF VectorHits
    <3> QED BY <1>1, <3>1, <3>2 DEF VectorSearch
  <2> QED BY <2>1, <2>2
<1>3. KeywordHits(spec, store) \in Seq(Chunks)
  <2>1. Bm25 \in Seq(Chunks)
    BY IndexAssumption
  <2>2. KeywordSearch(spec.words, spec.filters, store) \in Seq(Chunks)
    BY <1>1, <2>1 DEF KeywordSearch
  <2> QED BY <2>2 DEF KeywordHits
<1> QED BY <1>2, <1>3

LEMMA ContributionIsNumber ==
  ASSUME NEW rank \in Nat
  PROVE  Contribution(rank) \in Nat
<1>1. Scale \in Nat
  BY DEF Scale
<1>2. \A a, b \in Nat : b > 0 => a \div b \in Nat
  OBVIOUS
<1> HIDE DEF Scale
<1> QED BY <1>1, <1>2 DEF Contribution

LEMMA FusedScoreIsNumber ==
  ASSUME NEW lists \in Seq(Seq(Chunks)), NEW c
  PROVE  FusedScore(lists, c) \in Nat
<1> DEFINE places(i) == {k \in DOMAIN lists[i] : lists[i][k] = c}
           share(i) == IF places(i) = {} THEN 0 ELSE Contribution(Min(places(i)))
<1>1. ASSUME NEW i \in DOMAIN lists PROVE share(i) \in Nat
  <2>1. lists[i] \in Seq(Chunks)
    OBVIOUS
  <2>2. places(i) \in SUBSET Nat
    BY <2>1
  <2>3. places(i) # {} => Min(places(i)) \in Nat
    <3> HIDE DEF places
    <3> QED BY <2>2, MinIsLeast
  <2> HIDE DEF places
  <2> QED BY <2>3, ContributionIsNumber
<1>2. [i \in DOMAIN lists |-> share(i)] \in Seq(Nat)
  <2>1. Len(lists) \in Nat /\ DOMAIN lists = 1 .. Len(lists)
    OBVIOUS
  <2> HIDE DEF share
  <2>2. [i \in DOMAIN lists |-> share(i)] \in [1 .. Len(lists) -> Nat]
    BY <1>1, <2>1
  <2> QED BY <2>1, <2>2, IsASeq
<1>3. Total([i \in DOMAIN lists |-> share(i)]) \in Nat
  <2> HIDE DEF share
  <2> QED BY <1>2, TotalIsNumber
<1> QED BY <1>3 DEF FusedScore

\* The documents of the best chunks: no more than asked for, and some if there
\* is a chunk.
LEMMA TopDocsFacts ==
  ASSUME NEW fused \in Seq(Chunks), NEW score, score \in [Range(fused) -> Nat]
  PROVE  /\ IsFiniteSet(TopDocs(fused, score))
         /\ Cardinality(TopDocs(fused, score)) <= TopK
         /\ TopDocs(fused, score) \subseteq {Owner[c] : c \in Range(fused)}
         /\ fused # <<>> => TopDocs(fused, score) # {}
<1> DEFINE owners == [i \in DOMAIN fused |-> Owner[fused[i]]]
           docs == FirstSeen(owners)
           of(d) == {x \in Range(fused) : Owner[x] = d}
           best == [d \in Range(docs) |-> Max({score[c] : c \in of(d)})]
           sorted == SortedBy(docs, best)
<1>1. Len(fused) \in Nat /\ DOMAIN fused = 1 .. Len(fused) /\ Range(fused) \subseteq Chunks
  BY RangeIsFinite
<1>2. owners \in Seq(Docs) /\ Range(owners) = {Owner[c] : c \in Range(fused)}
  <2>1. owners \in [1 .. Len(fused) -> Docs]
    BY <1>1, IndexAssumption
  <2>2. Range(owners) = {Owner[c] : c \in Range(fused)}
    BY DEF Range
  <2> QED BY <1>1, <2>1, <2>2, IsASeq
<1> HIDE DEF owners
<1>3. docs \in Seq(Docs) /\ Range(docs) = Range(owners)
  BY <1>2, FirstSeenFacts
<1> HIDE DEF docs
<1>4. ASSUME NEW d \in Range(docs) PROVE best[d] \in Nat
  <2>1. of(d) # {} /\ of(d) \subseteq Range(fused)
    BY <1>2, <1>3
  <2>2. IsFiniteSet(of(d))
    BY <2>1, RangeIsFinite, FS_Subset
  <2>3. IsFiniteSet({score[c] : c \in of(d)})
    <3> HIDE DEF of
    <3> QED BY <2>1, <2>2, ImageIsFinite
  <2>4. {score[c] : c \in of(d)} \in SUBSET Nat /\ {score[c] : c \in of(d)} # {}
    BY <2>1
  <2>5. Max({score[c] : c \in of(d)}) \in Nat
    <3> HIDE DEF of
    <3> QED BY <2>3, <2>4, MaxIsGreatest
  <2> QED BY <2>5
<1>5. /\ sorted \in Seq(Docs)
      /\ Len(sorted) = Len(docs)
      /\ Range(sorted) = Range(docs)
  <2>1. \A d \in Range(docs) : best[d] \in Int
    BY <1>4
  <2> HIDE DEF best
  <2> QED BY <1>3, <2>1, SortedFacts
<1>6. TopDocs(fused, score) = Range(Take(sorted, TopK))
  BY DEF TopDocs, docs, owners
<1> HIDE DEF sorted
<1>7. TopK \in Nat /\ TopK > 0
  BY LimitsAssumption
<1>8. /\ Take(sorted, TopK) \in Seq(Docs)
      /\ Len(Take(sorted, TopK)) <= TopK
      /\ Range(Take(sorted, TopK)) \subseteq Range(sorted)
      /\ sorted # <<>> => Take(sorted, TopK) # <<>>
  BY <1>5, <1>7, TakeFacts
<1>9. IsFiniteSet(TopDocs(fused, score)) /\ Cardinality(TopDocs(fused, score)) <= TopK
  <2>1. /\ IsFiniteSet(TopDocs(fused, score)) /\ Cardinality(TopDocs(fused, score)) \in Nat
        /\ Cardinality(TopDocs(fused, score)) <= Len(Take(sorted, TopK))
    BY <1>6, <1>8, RangeIsFinite
  <2>2. Len(Take(sorted, TopK)) \in Nat
    BY <1>8
  <2> QED BY <1>7, <1>8, <2>1, <2>2
<1>10. TopDocs(fused, score) \subseteq {Owner[c] : c \in Range(fused)}
  BY <1>2, <1>3, <1>5, <1>6, <1>8
<1>11. fused # <<>> => TopDocs(fused, score) # {}
  <2> SUFFICES ASSUME fused # <<>> PROVE TopDocs(fused, score) # {}
    OBVIOUS
  <2>1. Range(fused) # {}
    BY EmptyRange
  <2>2. Range(sorted) # {}
    BY <2>1, <1>2, <1>3, <1>5
  <2>3. sorted # <<>>
    BY <2>2, <1>5, EmptyRange
  <2> QED BY <2>3, <1>6, <1>8, EmptyRange
<1> QED BY <1>9, <1>10, <1>11

\* The places of a document in a list of chunks.
PlacesOf(ranked, d) == {i \in DOMAIN ranked : Owner[ranked[i]] = d}

LEMMA CappedFacts ==
  ASSUME NEW ranked \in Seq(Chunks)
  PROVE  /\ Capped(ranked) \in Seq(Chunks)
         /\ Range(Capped(ranked)) \subseteq Range(ranked)
         /\ ranked # <<>> => Capped(ranked) # <<>>
         /\ \A d : Cardinality(PlacesOf(Capped(ranked), d)) <= MaxPerDoc
<1> DEFINE places == {i \in DOMAIN ranked :
               Cardinality({j \in 1..(i - 1) : Owner[ranked[j]] = Owner[ranked[i]]}) < MaxPerDoc}
<1>m. MaxPerDoc \in Nat /\ MaxPerDoc > 0
  BY LimitsAssumption
<1>1. Capped(ranked) = AtPlaces(ranked, places)
  BY DEF Capped
<1>2. Len(ranked) \in Nat /\ DOMAIN ranked = 1 .. Len(ranked)
  OBVIOUS
<1>3. places \in SUBSET DOMAIN ranked
  OBVIOUS
<1>4. /\ Capped(ranked) \in Seq(Chunks)
      /\ Range(Capped(ranked)) = {ranked[i] : i \in places}
      /\ Arranges(Capped(ranked), ranked, places)
  <2> HIDE DEF places
  <2> QED BY <1>1, <1>3, AtPlacesFacts
<1>5. Range(Capped(ranked)) \subseteq Range(ranked)
  BY <1>3, <1>4 DEF Range
<1>6. ranked # <<>> => Capped(ranked) # <<>>
  <2> SUFFICES ASSUME ranked # <<>> PROVE Capped(ranked) # <<>>
    OBVIOUS
  <2>1. 1 \in DOMAIN ranked
    <3>1. Len(ranked) # 0
      BY EmptySeq
    <3> QED BY <1>2, <3>1
  <2>2. {j \in 1..(1 - 1) : Owner[ranked[j]] = Owner[ranked[1]]} = {}
    OBVIOUS
  <2>3. Cardinality({j \in 1..(1 - 1) : Owner[ranked[j]] = Owner[ranked[1]]}) = 0
    BY <2>2, FS_EmptySet
  <2>4. 1 \in places
    BY <2>1, <2>3, <1>m
  <2>5. Range(Capped(ranked)) # {}
    BY <1>4, <2>4
  <2> QED BY <2>5, <1>4, EmptyRange
<1>7. ASSUME NEW d PROVE Cardinality(PlacesOf(Capped(ranked), d)) <= MaxPerDoc
  <2> DEFINE G == {c \in Chunks : Owner[c] = d}
             D == PlacesOf(ranked, d)
             early == {i \in D : Cardinality({j \in D : j < i}) < MaxPerDoc}
  <2>1. PlacesOf(Capped(ranked), d) = {i \in DOMAIN Capped(ranked) : Capped(ranked)[i] \in G}
    BY <1>4 DEF PlacesOf
  <2>2. IsFiniteSet(places)
    <3> HIDE DEF places
    <3> QED BY <1>3, PlacesAreFinite
  <2>3. Count(Capped(ranked), G) = CountAt(ranked, places, G)
    <3> HIDE DEF places, G
    <3> QED BY <1>4, <2>2, ArrangedCount
  <2>4. ASSUME NEW i \in D
        PROVE  {j \in 1..(i - 1) : Owner[ranked[j]] = Owner[ranked[i]]} = {j \in D : j < i}
    BY <1>2 DEF PlacesOf
  <2>5. {i \in places : ranked[i] \in G} = early
    <3>1. ASSUME NEW i \in DOMAIN ranked PROVE ranked[i] \in G <=> i \in D
      BY DEF PlacesOf
    <3>2. ASSUME NEW i \in D PROVE i \in places <=> i \in early
      <4>1. i \in DOMAIN ranked
        BY DEF PlacesOf
      <4> QED BY <2>4, <4>1
    <3>3. D \subseteq DOMAIN ranked
      BY DEF PlacesOf
    <3>4. early \subseteq D
      OBVIOUS
    <3> HIDE DEF G, D, places, early
    <3> QED BY <1>3, <3>1, <3>2, <3>3, <3>4
  <2>6. D \in SUBSET Nat /\ IsFiniteSet(D)
    <3>1. D \in SUBSET DOMAIN ranked
      BY DEF PlacesOf
    <3> QED BY <1>2, <3>1, PlacesAreFinite
  <2>7. Cardinality(early) <= MaxPerDoc
    <3> HIDE DEF D
    <3> QED BY <1>m, <2>6, FewEarly
  <2>8. Cardinality(PlacesOf(Capped(ranked), d)) = Cardinality(early)
    <3> HIDE DEF G, places, early
    <3> QED BY <2>1, <2>3, <2>5 DEF Count, CountAt
  <2> QED BY <2>7, <2>8
<1> QED BY <1>4, <1>5, <1>6, <1>7

\* The lists a pass fuses, and what it makes of them.
ListsOf(list, store, down) ==
  [i \in DOMAIN list |-> VectorHits(list[i], store, down)]
    \o [i \in DOMAIN list |-> KeywordHits(list[i], store)]
FusedOf(lists) == FirstSeen(Chained(lists))
ScoreOf(lists) == [c \in Range(FusedOf(lists)) |-> FusedScore(lists, c)]
RankedOf(lists) ==
  SortedBy(Kept(FusedOf(lists), {c \in Chunks : Owner[c] \in TopDocs(FusedOf(lists), ScoreOf(lists))}),
           ScoreOf(lists))

LEMMA ListsOfFacts ==
  ASSUME NEW list, IsSpecList(list), NEW store, NEW down
  PROVE  /\ ListsOf(list, store, down) \in Seq(Seq(Chunks))
         /\ \A i \in DOMAIN list :
              \A hits \in {VectorHits(list[i], store, down), KeywordHits(list[i], store)} :
                \E k \in DOMAIN ListsOf(list, store, down) : ListsOf(list, store, down)[k] = hits
<1> DEFINE n == Len(list)
           vector == [i \in DOMAIN list |-> VectorHits(list[i], store, down)]
           keyword == [i \in DOMAIN list |-> KeywordHits(list[i], store)]
<1>1. n \in Nat /\ DOMAIN list = 1 .. n
  BY LenProperties DEF IsSpecList
<1>2. \A i \in DOMAIN list : /\ VectorHits(list[i], store, down) \in Seq(Chunks)
                             /\ KeywordHits(list[i], store) \in Seq(Chunks)
  BY HitsAreChunks DEF IsSpecList
<1>3. vector \in [1 .. n -> Seq(Chunks)] /\ keyword \in [1 .. n -> Seq(Chunks)]
  BY <1>1, <1>2
<1>4. /\ \A i \in DOMAIN list : vector[i] = VectorHits(list[i], store, down)
      /\ \A i \in DOMAIN list : keyword[i] = KeywordHits(list[i], store)
  OBVIOUS
<1>5. ListsOf(list, store, down) = vector \o keyword
  BY DEF ListsOf
<1> HIDE DEF vector, keyword, n
<1>6. /\ vector \in Seq(Seq(Chunks)) /\ keyword \in Seq(Seq(Chunks))
      /\ Len(vector) = n /\ Len(keyword) = n
  BY <1>1, <1>3, IsASeq, LenProperties
<1>7. /\ vector \o keyword \in Seq(Seq(Chunks))
      /\ Len(vector \o keyword) = n + n
      /\ \A i \in 1 .. n + n : (vector \o keyword)[i] = IF i <= n THEN vector[i] ELSE keyword[i - n]
  <2> DEFINE S == Seq(Chunks)
  <2>1. vector \in Seq(S) /\ keyword \in Seq(S)
    BY <1>6
  <2> HIDE DEF S
  <2>2. /\ vector \o keyword \in Seq(S)
        /\ Len(vector \o keyword) = Len(vector) + Len(keyword)
        /\ \A i \in 1 .. Len(vector) + Len(keyword) :
             (vector \o keyword)[i] = IF i <= Len(vector) THEN vector[i] ELSE keyword[i - Len(vector)]
    BY <2>1, ConcatProperties
  <2> QED BY <1>6, <2>2 DEF S
<1>8. DOMAIN (vector \o keyword) = 1 .. n + n
  BY <1>7, LenProperties
<1> DEFINE both == vector \o keyword
<1>9. ASSUME NEW i \in DOMAIN list
      PROVE  /\ i \in DOMAIN both /\ n + i \in DOMAIN both
             /\ both[i] = VectorHits(list[i], store, down)
             /\ both[n + i] = KeywordHits(list[i], store)
  <2>1. i \in 1 .. n + n /\ n + i \in 1 .. n + n /\ i <= n /\ ~(n + i <= n) /\ (n + i) - n = i
    BY <1>1
  <2>2. both[i] = vector[i] /\ both[n + i] = keyword[i]
    BY <1>7, <2>1
  <2> HIDE DEF both
  <2> QED BY <1>4, <1>8, <2>1, <2>2 DEF both
<1>10. ListsOf(list, store, down) = both /\ both \in Seq(Seq(Chunks))
  BY <1>5, <1>7
<1> HIDE DEF both
<1> QED BY <1>9, <1>10

LEMMA RankedFacts ==
  ASSUME NEW lists \in Seq(Seq(Chunks))
  PROVE  /\ FusedOf(lists) \in Seq(Chunks)
         /\ ScoreOf(lists) \in [Range(FusedOf(lists)) -> Nat]
         /\ RankedOf(lists) \in Seq(Chunks)
         /\ Range(RankedOf(lists)) \subseteq Range(FusedOf(lists))
         /\ \A c \in Range(RankedOf(lists)) : Owner[c] \in TopDocs(FusedOf(lists), ScoreOf(lists))
         /\ RankedOf(lists) = <<>> => \A i \in DOMAIN lists : lists[i] = <<>>
<1> DEFINE fused == FusedOf(lists)
           score == ScoreOf(lists)
           top == TopDocs(fused, score)
           among == {c \in Chunks : Owner[c] \in top}
           kept == Kept(fused, among)
<1>1. /\ fused \in Seq(Chunks)
      /\ \A x : x \in Range(fused) <=> \E i \in DOMAIN lists : x \in Range(lists[i])
  BY ChainedFacts, FirstSeenFacts DEF FusedOf
<1>2. score \in [Range(fused) -> Nat]
  BY FusedScoreIsNumber DEF ScoreOf
<1> HIDE DEF fused, score
<1>3. /\ top \subseteq {Owner[c] : c \in Range(fused)}
      /\ fused # <<>> => top # {}
  BY <1>1, <1>2, TopDocsFacts
<1> HIDE DEF top
<1>4. kept \in Seq(Chunks) /\ Range(kept) = Range(fused) \cap among
  <2> HIDE DEF among
  <2> QED BY <1>1, KeptFacts
<1>5. \A c \in Range(kept) : score[c] \in Int
  BY <1>2, <1>4
<1>6. Range(fused) \subseteq Chunks
  BY <1>1, RangeIsFinite
<1> HIDE DEF kept
<1>7. RankedOf(lists) = SortedBy(kept, score)
  BY DEF RankedOf, kept, among, top, fused, score
<1>8. RankedOf(lists) \in Seq(Chunks) /\ Range(RankedOf(lists)) = Range(kept)
  BY <1>4, <1>5, <1>7, SortedFacts
<1>9. RankedOf(lists) = <<>> => fused = <<>>
  <2> SUFFICES ASSUME fused # <<>> PROVE Range(kept) # {}
    BY <1>8, EmptyRange
  <2>1. PICK d \in top : TRUE
    BY <1>3
  <2>2. PICK c \in Range(fused) : Owner[c] = d
    BY <1>3
  <2>3. c \in Range(fused) \cap among
    BY <1>6, <2>2
  <2> QED BY <1>4, <2>3
<1>10. fused = <<>> => \A i \in DOMAIN lists : lists[i] = <<>>
  <2> SUFFICES ASSUME fused = <<>>, NEW i \in DOMAIN lists PROVE lists[i] = <<>>
    OBVIOUS
  <2>1. Range(fused) = {}
    BY <1>1, EmptyRange
  <2>2. lists[i] \in Seq(Chunks)
    OBVIOUS
  <2>3. Range(lists[i]) = {}
    BY <1>1, <2>1, Zenon
  <2> QED BY <2>2, <2>3, EmptyRange
<1>11. Range(RankedOf(lists)) \subseteq Range(fused) /\ \A c \in Range(RankedOf(lists)) : Owner[c] \in top
  BY <1>4, <1>8
<1> QED BY <1>1, <1>2, <1>8, <1>9, <1>10, <1>11 DEF fused, score, top

\* The chunks of one document among the evidence.
PerDoc(list, d) == Cardinality({i \in DOMAIN list : Owner[list[i].id] = d})

\* What a pass returns: some evidence of few documents, few chunks of each, and
\* none only when no search found a thing.
LEMMA RetrieveFacts ==
  ASSUME NEW list, IsSpecList(list), NEW store, NEW down,
         NEW found, found = Retrieve(list, store, down)
  PROVE  /\ found.chunks \in Seq(Hits)
         /\ found.signal \in [vector : {"none", "close", "far"}, keyword : BOOLEAN]
         /\ IsFiniteSet(DocsOf(found.chunks)) /\ Cardinality(DocsOf(found.chunks)) <= TopK
         /\ \A d : PerDoc(found.chunks, d) <= MaxPerDoc
         /\ found.chunks = <<>> =>
              \A i \in DOMAIN list : /\ VectorHits(list[i], store, down) = <<>>
                                     /\ KeywordHits(list[i], store) = <<>>
<1> DEFINE lists == ListsOf(list, store, down)
           fused == FusedOf(lists)
           score == ScoreOf(lists)
           top == TopDocs(fused, score)
           ranked == RankedOf(lists)
           kept == Capped(ranked)
           chunks1 == [i \in DOMAIN kept |-> [id |-> kept[i], score |-> score[kept[i]]]]
<1>1. /\ lists \in Seq(Seq(Chunks))
      /\ \A i \in DOMAIN list :
           \A hits \in {VectorHits(list[i], store, down), KeywordHits(list[i], store)} :
             \E k \in DOMAIN lists : lists[k] = hits
  BY ListsOfFacts
<1>2. found.chunks = chunks1
  BY DEF Retrieve, ListsOf, FusedOf, ScoreOf, RankedOf
<1>3. found.signal \in [vector : {"none", "close", "far"}, keyword : BOOLEAN]
  BY DEF Retrieve
<1> HIDE DEF lists
<1>4. /\ fused \in Seq(Chunks)
      /\ score \in [Range(fused) -> Nat]
      /\ ranked \in Seq(Chunks)
      /\ Range(ranked) \subseteq Range(fused)
      /\ \A c \in Range(ranked) : Owner[c] \in top
      /\ ranked = <<>> => \A i \in DOMAIN lists : lists[i] = <<>>
  BY <1>1, RankedFacts
<1> HIDE DEF fused, score, ranked
<1>5. IsFiniteSet(top) /\ Cardinality(top) <= TopK
  BY <1>4, TopDocsFacts
<1> HIDE DEF top
<1>6. /\ kept \in Seq(Chunks)
      /\ Range(kept) \subseteq Range(ranked)
      /\ ranked # <<>> => kept # <<>>
      /\ \A d : Cardinality(PlacesOf(kept, d)) <= MaxPerDoc
  BY <1>4, CappedFacts
<1> HIDE DEF kept
<1>7. Len(kept) \in Nat /\ DOMAIN kept = 1 .. Len(kept)
  BY <1>6
<1>8. \A i \in DOMAIN kept : kept[i] \in Chunks /\ kept[i] \in Range(ranked) /\ score[kept[i]] \in Nat
  <2>1. \A i \in DOMAIN kept : kept[i] \in Chunks /\ kept[i] \in Range(kept)
    BY <1>6 DEF Range
  <2> QED BY <2>1, <1>4, <1>6
<1>9. chunks1 \in [1 .. Len(kept) -> Hits]
  BY <1>7, <1>8 DEF Hits
<1>10. chunks1 \in Seq(Hits) /\ Len(chunks1) = Len(kept)
  <2> HIDE DEF chunks1
  <2> QED BY <1>7, <1>9, IsASeq, LenProperties
<1>11. DOMAIN chunks1 = DOMAIN kept /\ \A i \in DOMAIN kept : chunks1[i].id = kept[i]
  OBVIOUS
<1> HIDE DEF chunks1
<1>12. DocsOf(chunks1) \subseteq top
  BY <1>4, <1>8, <1>11 DEF DocsOf
<1>13. IsFiniteSet(DocsOf(chunks1)) /\ Cardinality(DocsOf(chunks1)) <= TopK
  <2>1. IsFiniteSet(DocsOf(chunks1)) /\ Cardinality(DocsOf(chunks1)) <= Cardinality(top)
    BY <1>5, <1>12, FS_Subset
  <2>2. Cardinality(DocsOf(chunks1)) \in Nat /\ Cardinality(top) \in Nat /\ TopK \in Nat
    BY <1>5, <2>1, FS_CardinalityType, LimitsAssumption
  <2> QED BY <1>5, <2>1, <2>2
<1>14. ASSUME NEW d PROVE PerDoc(chunks1, d) <= MaxPerDoc
  <2>1. {i \in DOMAIN chunks1 : Owner[chunks1[i].id] = d} = PlacesOf(kept, d)
    BY <1>11 DEF PlacesOf
  <2> QED BY <1>6, <2>1 DEF PerDoc
<1>15. chunks1 = <<>> => \A i \in DOMAIN lists : lists[i] = <<>>
  <2> SUFFICES ASSUME chunks1 = <<>> PROVE ranked = <<>>
    BY <1>4
  <2>1. Len(kept) = 0
    BY <1>10, EmptySeq
  <2>2. kept = <<>>
    BY <1>6, <2>1, EmptySeq
  <2> QED BY <1>6, <2>2
<1>16. chunks1 = <<>> =>
         \A i \in DOMAIN list : /\ VectorHits(list[i], store, down) = <<>>
                                /\ KeywordHits(list[i], store) = <<>>
  BY <1>1, <1>15
<1> QED BY <1>2, <1>3, <1>10, <1>13, <1>14, <1>16

-----------------------------------------------------------------------------
(* The evidence                                                            *)

OfDoc(d) == {h \in Hits : Owner[h.id] = d}

LEMMA EvidenceFacts ==
  ASSUME NEW list \in Seq(Hits)
  PROVE  /\ DocsOf(list) = {Owner[h.id] : h \in Range(list)}
         /\ DocsOf(list) \subseteq Docs
         /\ IsFiniteSet(DocsOf(list)) /\ Cardinality(DocsOf(list)) \in Nat
         /\ \A d : PerDoc(list, d) = Count(list, OfDoc(d)) /\ PerDoc(list, d) \in Nat
<1>1. Range(list) \subseteq Hits /\ IsFiniteSet(Range(list))
  BY RangeIsFinite
<1>2. DocsOf(list) = {Owner[h.id] : h \in Range(list)}
  BY DEF DocsOf, Range
<1>3. DocsOf(list) \subseteq Docs
  BY <1>1, <1>2, IndexAssumption DEF Hits
<1>4. IsFiniteSet(DocsOf(list))
  <2> DEFINE f == [h \in Range(list) |-> Owner[h.id]]
  <2>1. DOMAIN f = Range(list)
    OBVIOUS
  <2>2. IsFiniteSet({f[h] : h \in Range(list)})
    <3> HIDE DEF f
    <3> QED BY <1>1, <2>1, ImageIsFinite
  <2>3. {f[h] : h \in Range(list)} = DocsOf(list)
    BY <1>2
  <2> QED BY <2>2, <2>3
<1>5. ASSUME NEW d PROVE PerDoc(list, d) = Count(list, OfDoc(d)) /\ PerDoc(list, d) \in Nat
  <2>1. {i \in DOMAIN list : Owner[list[i].id] = d} = {i \in DOMAIN list : list[i] \in OfDoc(d)}
    BY DEF OfDoc
  <2> QED BY <2>1, CountIsNumber DEF PerDoc, Count, CountAt
<1> QED BY <1>2, <1>3, <1>4, <1>5, FS_CardinalityType

\* A verdict leaves the chunks of the documents it keeps.
LeftOf(list, keep) == Kept(list, {h \in Range(list) : Owner[h.id] \in keep})

LEMMA KeptEvidence ==
  ASSUME NEW list \in Seq(Hits), NEW keep
  PROVE  /\ LeftOf(list, keep) \in Seq(Hits)
         /\ DocsOf(LeftOf(list, keep)) \subseteq DocsOf(list) \intersect keep
         /\ Cardinality(DocsOf(LeftOf(list, keep))) <= Cardinality(DocsOf(list))
         /\ \A d : PerDoc(LeftOf(list, keep), d) <= PerDoc(list, d)
<1> DEFINE set == {h \in Range(list) : Owner[h.id] \in keep}
           left == LeftOf(list, keep)
<1>0. left = Kept(list, set)
  BY DEF LeftOf
<1> HIDE DEF left
<1>1. left \in Seq(Hits) /\ Range(left) = Range(list) \cap set
  <2> HIDE DEF set
  <2> QED BY <1>0, KeptFacts
<1>2. DocsOf(left) \subseteq DocsOf(list) \intersect keep
  <2>1. /\ DocsOf(left) = {Owner[h.id] : h \in Range(left)}
        /\ DocsOf(list) = {Owner[h.id] : h \in Range(list)}
    BY <1>1, EvidenceFacts
  <2>2. \A h \in Range(left) : h \in Range(list) /\ Owner[h.id] \in keep
    BY <1>1
  <2> QED BY <2>1, <2>2
<1>3. Cardinality(DocsOf(left)) <= Cardinality(DocsOf(list))
  BY <1>2, EvidenceFacts, FS_Subset
<1>4. ASSUME NEW d PROVE PerDoc(left, d) <= PerDoc(list, d)
  <2>1. Count(left, OfDoc(d)) = Count(list, set \cap OfDoc(d))
    <3> HIDE DEF set
    <3> QED BY <1>0, KeptCount
  <2>2. Count(list, set \cap OfDoc(d)) <= Count(list, OfDoc(d))
    <3> HIDE DEF set
    <3> QED BY CountGrows, set \cap OfDoc(d) \subseteq OfDoc(d)
  <2> QED BY <1>1, <2>1, <2>2, EvidenceFacts
<1> QED BY <1>1, <1>2, <1>3, <1>4 DEF left

\* Merged evidence is no more than both of its parts.
LEMMA MergedEvidence ==
  ASSUME NEW old \in Seq(Hits), NEW new \in Seq(Hits)
  PROVE  /\ MergeChunks(old, new) \in Seq(Hits)
         /\ Cardinality(DocsOf(MergeChunks(old, new))) <= Cardinality(DocsOf(old)) + Cardinality(DocsOf(new))
         /\ \A d : PerDoc(MergeChunks(old, new), d) <= PerDoc(old, d) + PerDoc(new, d)
<1> DEFINE known == {old[i].id : i \in DOMAIN old}
           set == {c \in Range(new) : c.id \notin known}
           fresh == Kept(new, set)
           both == old \o fresh
           score == [c \in Range(both) |-> c.score]
           merged == MergeChunks(old, new)
<1>1. merged = SortedBy(both, score)
  BY DEF MergeChunks
<1> HIDE DEF known, set, merged
<1>2. fresh \in Seq(Hits) /\ Range(fresh) \subseteq Range(new)
  BY KeptFacts
<1>3. \A G : Count(fresh, G) <= Count(new, G)
  <2> SUFFICES ASSUME NEW G PROVE Count(fresh, G) <= Count(new, G)
    OBVIOUS
  <2>1. Count(fresh, G) = Count(new, set \cap G)
    BY KeptCount
  <2>2. Count(new, set \cap G) <= Count(new, G)
    BY CountGrows, set \cap G \subseteq G
  <2> QED BY <2>1, <2>2
<1> HIDE DEF fresh
<1>4. both \in Seq(Hits) /\ Range(both) = Range(old) \union Range(fresh)
  BY <1>2, ConcatFacts
<1>5. \A G : Count(both, G) <= Count(old, G) + Count(fresh, G)
  BY <1>2, ConcatFacts
<1> HIDE DEF both
<1>6. \A c \in Range(both) : score[c] \in Int
  <2>1. Range(both) \subseteq Hits
    BY <1>4, RangeIsFinite
  <2>2. \A c \in Hits : c.score \in Nat
    BY DEF Hits
  <2> QED BY <2>1, <2>2
<1> HIDE DEF score
<1>7. merged \in Seq(Hits) /\ Range(merged) = Range(both)
  BY <1>1, <1>4, <1>6, SortedFacts
<1>8. \A G : Count(merged, G) = Count(both, G)
  BY <1>1, <1>4, <1>6, SortedCount
<1>9. DocsOf(merged) \subseteq DocsOf(old) \union DocsOf(new)
  BY <1>2, <1>4, <1>7, EvidenceFacts
<1>10. Cardinality(DocsOf(merged)) <= Cardinality(DocsOf(old)) + Cardinality(DocsOf(new))
  <2> DEFINE D == DocsOf(old)
             E == DocsOf(new)
             M == DocsOf(merged)
  <2>1. /\ IsFiniteSet(D) /\ IsFiniteSet(E) /\ Cardinality(D) \in Nat /\ Cardinality(E) \in Nat
        /\ M \subseteq D \union E
    BY <1>9, EvidenceFacts
  <2> HIDE DEF D, E, M
  <2>2. /\ IsFiniteSet(D \union E) /\ IsFiniteSet(D \cap E)
        /\ Cardinality(D \union E) = Cardinality(D) + Cardinality(E) - Cardinality(D \cap E)
    BY <2>1, FS_Union, FS_Intersection
  <2>3. IsFiniteSet(M) /\ Cardinality(M) <= Cardinality(D \union E)
    BY <2>1, <2>2, FS_Subset
  <2>4. /\ Cardinality(D \cap E) \in Nat /\ Cardinality(M) \in Nat /\ Cardinality(D \union E) \in Nat
    BY <2>2, <2>3, FS_CardinalityType
  <2>5. Cardinality(M) <= Cardinality(D) + Cardinality(E)
    BY <2>1, <2>2, <2>3, <2>4
  <2> QED BY <2>5 DEF D, E, M
<1>11. ASSUME NEW d PROVE PerDoc(merged, d) <= PerDoc(old, d) + PerDoc(new, d)
  <2> DEFINE G == OfDoc(d)
  <2>1. /\ Count(old, G) \in Nat /\ Count(new, G) \in Nat
        /\ Count(fresh, G) \in Nat /\ Count(both, G) \in Nat
    BY <1>2, <1>4, CountIsNumber
  <2>2. Count(merged, G) <= Count(old, G) + Count(new, G)
    <3> HIDE DEF G
    <3>1. Count(merged, G) = Count(both, G)
      BY <1>8
    <3>2. Count(both, G) <= Count(old, G) + Count(fresh, G)
      BY <1>5
    <3>3. Count(fresh, G) <= Count(new, G)
      BY <1>3
    <3> QED BY <2>1, <3>1, <3>2, <3>3
  <2> QED BY <1>7, <2>2, EvidenceFacts
<1> QED BY <1>7, <1>10, <1>11 DEF merged

\* The sources of an answer are documents of its evidence.
LEMMA SourcesFacts ==
  ASSUME NEW list \in Seq(Hits), NEW judged, judged \in [DOMAIN judged -> Nat], NEW cited
  PROVE  Range(CitedSources(AssembleSources(list, judged), cited)) \subseteq DocsOf(list)
<1> DEFINE owners == [i \in DOMAIN list |-> Owner[list[i].id]]
           docs == FirstSeen(owners)
           of(d) == {x \in Range(list) : Owner[x.id] = d}
           best == [d \in Range(docs) |-> Max({c.score : c \in of(d)})]
           key == [d \in Range(docs) |-> IF d \in DOMAIN judged THEN judged[d] ELSE best[d]]
           once == SortedBy(docs, best)
           sources == SortedBy(once, key)
<1>1. Range(list) \subseteq Hits /\ IsFiniteSet(Range(list))
  BY RangeIsFinite
<1>2. owners \in Seq(Docs) /\ Range(owners) = DocsOf(list)
  <2>1. Len(list) \in Nat /\ DOMAIN list = 1 .. Len(list)
    OBVIOUS
  <2>2. \A i \in DOMAIN list : owners[i] \in Docs
    <3>1. \A i \in DOMAIN list : list[i] \in Hits
      BY <2>1
    <3>2. \A h \in Hits : Owner[h.id] \in Docs
      BY IndexAssumption DEF Hits
    <3> QED BY <3>1, <3>2
  <2>3. owners \in [1 .. Len(list) -> Docs]
    BY <2>1, <2>2
  <2> QED BY <2>1, <2>3, IsASeq DEF DocsOf, Range
<1>a. DocsOf(list) = {Owner[h.id] : h \in Range(list)}
  BY EvidenceFacts
<1> HIDE DEF owners
<1>3. docs \in Seq(Docs) /\ Range(docs) = DocsOf(list)
  BY <1>2, FirstSeenFacts
<1>b. AssembleSources(list, judged) = sources
  BY DEF AssembleSources, owners
<1> HIDE DEF docs
<1>4. ASSUME NEW d \in Range(docs) PROVE best[d] \in Nat
  <2> DEFINE f == [h \in Range(list) |-> h.score]
  <2>1. of(d) # {} /\ of(d) \subseteq Range(list)
    BY <1>3, <1>a
  <2>2. IsFiniteSet(of(d)) /\ of(d) \subseteq DOMAIN f
    BY <1>1, <2>1, FS_Subset
  <2>3. {f[h] : h \in of(d)} = {h.score : h \in of(d)}
    OBVIOUS
  <2>4. IsFiniteSet({f[h] : h \in of(d)})
    <3> HIDE DEF of, f
    <3> QED BY <2>2, ImageIsFinite
  <2>5. {h.score : h \in of(d)} \in SUBSET Nat /\ {h.score : h \in of(d)} # {}
    BY <1>1, <2>1 DEF Hits
  <2>6. Max({h.score : h \in of(d)}) \in Nat
    <3> HIDE DEF of
    <3> QED BY <2>3, <2>4, <2>5, MaxIsGreatest
  <2> QED BY <2>6
<1>5. \A d \in Range(docs) : best[d] \in Int /\ key[d] \in Int
  <2> HIDE DEF best
  <2> QED BY <1>4
<1> HIDE DEF best, key
<1>6. once \in Seq(Docs) /\ Range(once) = Range(docs)
  BY <1>3, <1>5, SortedFacts
<1> HIDE DEF once
<1>7. sources \in Seq(Docs) /\ Range(sources) = Range(docs)
  BY <1>5, <1>6, SortedFacts
<1>8. Range(CitedSources(sources, cited)) \subseteq Range(sources)
  <2> HIDE DEF sources
  <2>1. Range(Kept(sources, cited)) = Range(sources) \cap cited
    BY <1>7, KeptFacts
  <2> QED BY <2>1 DEF CitedSources
<1> QED BY <1>3, <1>7, <1>8, <1>b

-----------------------------------------------------------------------------
(* Plans                                                                   *)

LEMMA BroadPlanTyped ==
  ASSUME NEW query \in Texts, NEW words \in SUBSET Keywords
  PROVE  BroadPlan(query) \in Seq(PlannedSpecs) /\ RawRagPlan(query, words) \in Seq(PlannedSpecs)
<1>1. NoGuess \in Guesses
  <2>1. <<>> \in Seq(Names)
    OBVIOUS
  <2> QED BY <2>1 DEF NoGuess, Guesses
<1> DEFINE broad == [mode |-> "semantic", text |-> query, words |-> {}, guess |-> NoGuess]
           raw == [mode |-> "keyword", text |-> None, words |-> words, guess |-> NoGuess]
<1>2. broad \in PlannedSpecs /\ raw \in PlannedSpecs
  <2>1. {} \in SUBSET Keywords
    OBVIOUS
  <2> QED BY <1>1, <2>1 DEF PlannedSpecs
<1>3. BroadPlan(query) = << broad >> /\ RawRagPlan(query, words) = << broad >> \o << raw >>
  BY DEF BroadPlan, RawRagPlan
<1> HIDE DEF broad, raw
<1>4. << broad >> \in Seq(PlannedSpecs) /\ << raw >> \in Seq(PlannedSpecs)
  BY <1>2
<1> QED BY <1>3, <1>4, ConcatProperties

LEMMA PlansOfReplyTyped ==
  ASSUME request \in Requests
  PROVE  PlansOfReply \subseteq Seq(PlannedSpecs)
<1>1. request.query \in Texts
  BY RequestsAssumption
<1>2. BroadPlan(request.query) \in Seq(PlannedSpecs)
  BY <1>1, BroadPlanTyped, {} \in SUBSET Keywords
<1>3. ASSUME NEW r \in Replies PROVE BuildPlan(r, request.query) \in Seq(PlannedSpecs)
  <2>1. r \in Seq(PlannedSpecs) /\ MaxSpecs \in Nat
    BY RepliesAssumption, LimitsAssumption
  <2>2. Take(r, MaxSpecs) \in Seq(PlannedSpecs)
    BY <2>1, TakeFacts
  <2> QED BY <1>2, <2>2 DEF BuildPlan
<1> QED BY <1>2, <1>3 DEF PlansOfReply

LEMMA BroadenPlanTyped ==
  ASSUME NEW p \in Seq(PlannedSpecs)
  PROVE  BroadenPlan(p) \in Seq(PlannedSpecs)
<1>1. NoGuess \in Guesses
  <2>1. <<>> \in Seq(Names)
    OBVIOUS
  <2> QED BY <2>1 DEF NoGuess, Guesses
<1>2. Len(p) \in Nat /\ DOMAIN p = 1 .. Len(p) /\ \A i \in DOMAIN p : p[i] \in PlannedSpecs
  OBVIOUS
<1>3. \A spec \in PlannedSpecs : [spec EXCEPT !.guess = NoGuess] \in PlannedSpecs
  BY <1>1 DEF PlannedSpecs
<1>4. BroadenPlan(p) \in [1 .. Len(p) -> PlannedSpecs]
  BY <1>2, <1>3 DEF BroadenPlan
<1> QED BY <1>2, <1>4, IsASeq

\* The narrower of two bounds is a bound when one of them is.
LEMMA NarrowerBound ==
  ASSUME NEW left \in Days, NEW right \in Days
  PROVE  /\ LaterIso(left, right) \in Days /\ EarlierIso(left, right) \in Days
         /\ LaterIso(left, right) = None <=> left = None /\ right = None
         /\ EarlierIso(left, right) = None <=> left = None /\ right = None
<1>1. CASE left = None
  BY <1>1 DEF LaterIso, EarlierIso
<1>2. CASE right = None
  BY <1>2 DEF LaterIso, EarlierIso
<1>3. CASE left # None /\ right # None
  <2>1. left \in Int /\ right \in Int
    BY <1>3 DEF Days
  <2>2. Max({left, right}) \in Int /\ Min({left, right}) \in Int
    <3>1. \E x \in {left, right} : \A y \in {left, right} : x >= y
      BY <2>1
    <3>2. \E x \in {left, right} : \A y \in {left, right} : x <= y
      BY <2>1
    <3>3. Max({left, right}) \in {left, right} /\ Min({left, right}) \in {left, right}
      BY <3>1, <3>2 DEF Max, Min
    <3> QED BY <2>1, <3>3
  <2> QED BY <1>3, <2>2, NoneIsNoValue DEF LaterIso, EarlierIso, Days
<1> QED BY <1>1, <1>2, <1>3

LEMMA IntersectFacts ==
  ASSUME NEW f, IsFilter(f), NEW ui \in Filters \union {None}
  PROVE  IsFilter(Intersect(f, ui)) /\ (HasDate(f) => HasDate(Intersect(f, ui)))
<1>1. CASE ui = None
  BY <1>1 DEF Intersect
<1>2. CASE ui # None
  <2>1. ui.from \in Days /\ ui.to \in Days /\ f.from \in Days /\ f.to \in Days
    BY <1>2 DEF Filters, IsFilter
  <2>2. Intersect(f, ui) =
          [who  |-> IF ui.who # None THEN ui.who ELSE f.who,
           kind |-> IF ui.kind # None THEN ui.kind ELSE f.kind,
           tags |-> f.tags \union ui.tags,
           from |-> LaterIso(f.from, ui.from),
           to   |-> EarlierIso(f.to, ui.to)]
    BY <1>2 DEF Intersect
  <2>3. Intersect(f, ui).from \in Days /\ Intersect(f, ui).to \in Days
    BY <2>1, <2>2, NarrowerBound
  <2>4. IsFilter(Intersect(f, ui))
    BY <2>2, <2>3 DEF IsFilter
  <2> QED BY <2>1, <2>2, <2>4, NarrowerBound DEF HasDate
<1> QED BY <1>1, <1>2

LEMMA ResolveDatesTyped ==
  ASSUME NEW guess \in Guesses
  PROVE  ResolveDates(guess) \in Days \X Days
<1> DEFINE day(text) == IF text = None THEN None ELSE IsoDay[text]
           raw == IF guess.from # None THEN guess.from ELSE guess.to
<1>1. guess.from \in Texts \union {None} /\ guess.to \in Texts \union {None}
  BY DEF Guesses
<1>2. day(guess.from) \in Days /\ day(guess.to) \in Days
  BY <1>1, DatesAssumption DEF Days
<1>3. raw # None => DateRange[raw] \in Days \X Days
  BY <1>1, DatesAssumption
<1>4. None \in Days
  BY DEF Days
<1>5. \/ ResolveDates(guess) = <<day(guess.from), day(guess.to)>>
      \/ raw # None /\ ResolveDates(guess) = DateRange[raw]
      \/ ResolveDates(guess) = <<None, None>>
  BY DEF ResolveDates
<1> QED BY <1>2, <1>3, <1>4, <1>5

LEMMA ResolvedSpecTyped ==
  ASSUME NEW spec \in PlannedSpecs, NEW ui \in Filters \union {None}
  PROVE  IsSpec(ResolveOneSpec(spec, ui))
<1> DEFINE dates == ResolveDates(spec.guess)
           f == [who  |-> Guessed(spec.guess.who, People),
                 kind |-> Guessed(spec.guess.kind, Kinds),
                 tags |-> {Guessed(spec.guess.tags[i], Tags) : i \in DOMAIN spec.guess.tags} \ {None},
                 from |-> dates[1], to |-> dates[2]]
<1>1. dates \in Days \X Days
  BY ResolveDatesTyped DEF PlannedSpecs
<1>2. ResolveOneSpec(spec, ui) = Resolved(spec, Intersect(f, ui))
  BY DEF ResolveOneSpec
<1> HIDE DEF dates
<1>3. IsFilter(f)
  BY <1>1 DEF IsFilter
<1> HIDE DEF f
<1>4. IsFilter(Intersect(f, ui))
  BY <1>3, IntersectFacts
<1>5. spec.mode \in {"semantic", "keyword"} /\ spec.text \in Texts \union {None}
  BY DEF PlannedSpecs
<1> QED BY <1>2, <1>4, <1>5 DEF Resolved, IsSpec

LEMMA BoundsReplaced ==
  ASSUME NEW f, f = [who |-> f.who, kind |-> f.kind, tags |-> f.tags, from |-> f.from, to |-> f.to],
         NEW from, NEW to
  PROVE  [f EXCEPT !.from = from, !.to = to]
           = [who |-> f.who, kind |-> f.kind, tags |-> f.tags, from |-> from, to |-> to]
<1> DEFINE g == [f EXCEPT !.from = from, !.to = to]
           h == [who |-> f.who, kind |-> f.kind, tags |-> f.tags, from |-> from, to |-> to]
           S == {"who", "kind", "tags", "from", "to"}
<1>1. DOMAIN f = S
  OBVIOUS
<1>2. DOMAIN g = S /\ g.who = f.who /\ g.kind = f.kind /\ g.tags = f.tags /\ g.from = from /\ g.to = to
  BY <1>1
<1>3. DOMAIN h = S /\ h.who = f.who /\ h.kind = f.kind /\ h.tags = f.tags /\ h.from = from /\ h.to = to
  OBVIOUS
<1>4. g = [x \in S |-> g[x]] /\ h = [x \in S |-> h[x]]
  BY <1>1
<1> HIDE DEF g, h
<1>5. \A x \in S : g[x] = h[x]
  BY <1>2, <1>3
<1>6. g = h
  BY <1>4, <1>5
<1> QED BY <1>6 DEF g, h

\* A spec of the safety net has a date.
LEMMA SafetyNetFacts ==
  ASSUME NEW list, IsSpecList(list), NEW query \in Texts, NEW ui \in Filters \union {None},
         NEW range \in Days \X Days
  PROVE  LET net == SafetyNetSpec(list, query, range, ui) IN
         IsSpec(net) /\ (range # <<None, None>> => HasDate(net.filters))
<1> DEFINE semantic == {i \in DOMAIN list : list[i].mode = "semantic"}
           base == CASE semantic # {} -> list[Min(semantic)]
                     [] semantic = {} /\ list # <<>> -> list[1]
                     [] OTHER -> Resolved(Semantic(query), NoFilters)
           dated == [base.filters EXCEPT !.from = LaterIso(@, range[1]),
                                         !.to   = EarlierIso(@, range[2])]
           f == Intersect(dated, ui)
<1>1. list \in Seq(Range(list)) /\ \A i \in DOMAIN list : IsSpec(list[i])
  BY DEF IsSpecList
<1>2. IsFilter(NoFilters)
  BY DEF NoFilters, IsFilter, Days
<1>3. IsSpec(base)
  <2>1. DOMAIN list = 1 .. Len(list) /\ Len(list) \in Nat
    BY <1>1
  <2>2. semantic # {} => Min(semantic) \in DOMAIN list
    <3>1. semantic \in SUBSET Nat /\ semantic \subseteq DOMAIN list
      BY <2>1
    <3> HIDE DEF semantic
    <3> QED BY <3>1, MinIsLeast
  <2>3. list # <<>> => 1 \in DOMAIN list
    <3>1. list # <<>> => Len(list) # 0
      BY <1>1, EmptySeq
    <3> QED BY <2>1, <3>1
  <2>4. IsSpec(Resolved(Semantic(query), NoFilters))
    BY <1>2 DEF Resolved, Semantic, IsSpec
  <2>5. \/ semantic # {} /\ base = list[Min(semantic)]
        \/ list # <<>> /\ base = list[1]
        \/ base = Resolved(Semantic(query), NoFilters)
    OBVIOUS
  <2> HIDE DEF semantic, base
  <2> QED BY <1>1, <2>2, <2>3, <2>4, <2>5
<1>4. SafetyNetSpec(list, query, range, ui) = Resolved(base, f)
  BY DEF SafetyNetSpec
<1> HIDE DEF base
<1>5. /\ IsFilter(dated)
      /\ dated.from = LaterIso(base.filters.from, range[1])
      /\ dated.to = EarlierIso(base.filters.to, range[2])
  <2>1. /\ base.filters.from \in Days /\ base.filters.to \in Days
        /\ base.filters = [who |-> base.filters.who, kind |-> base.filters.kind,
                           tags |-> base.filters.tags, from |-> base.filters.from,
                           to |-> base.filters.to]
    BY <1>3 DEF IsSpec, IsFilter
  <2>2. LaterIso(base.filters.from, range[1]) \in Days /\ EarlierIso(base.filters.to, range[2]) \in Days
    BY <2>1, NarrowerBound
  <2>3. dated = [who |-> base.filters.who, kind |-> base.filters.kind, tags |-> base.filters.tags,
                 from |-> LaterIso(base.filters.from, range[1]),
                 to |-> EarlierIso(base.filters.to, range[2])]
    <3> DEFINE g == base.filters
               from == LaterIso(base.filters.from, range[1])
               to == EarlierIso(base.filters.to, range[2])
    <3>1. g = [who |-> g.who, kind |-> g.kind, tags |-> g.tags, from |-> g.from, to |-> g.to]
      BY <2>1
    <3>2. dated = [g EXCEPT !.from = from, !.to = to]
      OBVIOUS
    <3> HIDE DEF g, from, to, dated
    <3>3. dated = [who |-> g.who, kind |-> g.kind, tags |-> g.tags, from |-> from, to |-> to]
      BY <3>1, <3>2, BoundsReplaced
    <3> QED BY <3>3 DEF g, from, to
  <2> QED BY <2>2, <2>3 DEF IsFilter
<1>6. range # <<None, None>> => HasDate(dated)
  <2>1. base.filters.from \in Days /\ base.filters.to \in Days
    BY <1>3 DEF IsSpec, IsFilter
  <2>2. range # <<None, None>> => range[1] # None \/ range[2] # None
    OBVIOUS
  <2> HIDE DEF dated
  <2> QED BY <1>5, <2>1, <2>2, NarrowerBound DEF HasDate
<1> HIDE DEF dated
<1>7. IsFilter(f) /\ (range # <<None, None>> => HasDate(f))
  BY <1>5, <1>6, IntersectFacts
<1> HIDE DEF f
<1>8. IsSpec(Resolved(base, f)) /\ Resolved(base, f).filters = f
  BY <1>3, <1>7 DEF IsSpec, Resolved
<1> QED BY <1>4, <1>7, <1>8

LEMMA IsSpecListTyped ==
  ASSUME NEW n \in Nat, NEW list, list = [i \in 1 .. n |-> list[i]],
         \A i \in 1 .. n : IsSpec(list[i])
  PROVE  IsSpecList(list) /\ Len(list) = n
<1>1. DOMAIN list = 1 .. n
  OBVIOUS
<1>2. list \in [1 .. n -> Range(list)]
  BY <1>1 DEF Range
<1> QED BY <1>1, <1>2, IsASeq, LenProperties DEF IsSpecList

\* A list of specs, in terms of the elements.
LEMMA IsSpecListRange ==
  ASSUME NEW T, NEW list \in Seq(T), \A spec \in Range(list) : IsSpec(spec)
  PROVE  IsSpecList(list)
<1>1. list = [i \in 1 .. Len(list) |-> list[i]] /\ Len(list) \in Nat
  OBVIOUS
<1>2. \A i \in 1 .. Len(list) : IsSpec(list[i])
  BY DEF Range
<1> QED BY <1>1, <1>2, IsSpecListTyped

\* A twin is an unfiltered copy of a spec; the specs themselves stay.
LEMMA TwinsFacts ==
  ASSUME NEW list, IsSpecList(list)
  PROVE  IsSpecList(AppendTwins(list)) /\ Range(list) \subseteq Range(AppendTwins(list))
<1> DEFINE filtered == Kept(list, {spec \in Range(list) : HasFilter(spec.filters)})
           bare == [i \in DOMAIN filtered |-> Resolved(filtered[i], NoFilters)]
           twins == FirstSeen(bare)
           room == Max({0, MaxSpecs - Len(list)})
           fresh == Kept(twins, Range(twins) \ Range(list))
           T == Range(list) \union Range(bare)
<1>1. list \in Seq(Range(list)) /\ \A spec \in Range(list) : IsSpec(spec)
  BY DEF IsSpecList, Range
<1>2. filtered \in Seq(Range(list)) /\ Range(filtered) \subseteq Range(list)
  <2>1. Range(filtered) = Range(list) \cap {spec \in Range(list) : HasFilter(spec.filters)}
    BY <1>1, KeptFacts
  <2> QED BY <1>1, <2>1, KeptFacts
<1>a. AppendTwins(list) = list \o Take(fresh, room)
  BY DEF AppendTwins
<1> HIDE DEF filtered
<1>3. bare \in Seq(Range(bare))
  <2>1. Len(filtered) \in Nat /\ DOMAIN filtered = 1 .. Len(filtered)
    BY <1>2
  <2>2. bare \in [1 .. Len(filtered) -> Range(bare)]
    BY <2>1 DEF Range
  <2> QED BY <2>1, <2>2, IsASeq
<1>4. \A spec \in Range(bare) : IsSpec(spec)
  <2>1. IsFilter(NoFilters)
    BY DEF NoFilters, IsFilter, Days
  <2>2. ASSUME NEW i \in DOMAIN filtered PROVE IsSpec(Resolved(filtered[i], NoFilters))
    <3>1. IsSpec(filtered[i])
      BY <1>1, <1>2 DEF Range
    <3> QED BY <2>1, <3>1 DEF IsSpec, Resolved
  <2> QED BY <2>2 DEF Range
<1> HIDE DEF bare
<1>5. twins \in Seq(Range(bare))
  BY <1>3, FirstSeenFacts
<1> HIDE DEF twins
<1>6. fresh \in Seq(Range(bare))
  BY <1>5, KeptFacts
<1> HIDE DEF fresh
<1>7. room \in Nat
  <2>1. MaxSpecs - Len(list) \in Int
    BY <1>1, LimitsAssumption
  <2>2. \E x \in {0, MaxSpecs - Len(list)} : \A y \in {0, MaxSpecs - Len(list)} : x >= y
    BY <2>1
  <2>3. room \in {0, MaxSpecs - Len(list)} /\ \A y \in {0, MaxSpecs - Len(list)} : room >= y
    BY <2>2 DEF Max
  <2> HIDE DEF room
  <2> QED BY <2>1, <2>3
<1> HIDE DEF room
<1>8. Take(fresh, room) \in Seq(Range(bare))
  BY <1>6, <1>7, TakeFacts
<1>9. list \in Seq(T) /\ Take(fresh, room) \in Seq(T)
  BY <1>1, <1>8, SeqMonotonic
<1>10. /\ list \o Take(fresh, room) \in Seq(T)
       /\ Range(list \o Take(fresh, room)) = Range(list) \union Range(Take(fresh, room))
  <2> HIDE DEF T
  <2> QED BY <1>9, ConcatFacts
<1>11. \A spec \in T : IsSpec(spec)
  BY <1>1, <1>4
<1>12. Range(list \o Take(fresh, room)) \subseteq T
  BY <1>10, RangeIsFinite
<1> QED BY <1>a, <1>10, <1>11, <1>12, IsSpecListRange

\* Resolution makes specs, and a date when the question names a period.
LEMMA ResolveSpecsFacts ==
  ASSUME NEW p \in Seq(PlannedSpecs), NEW ui \in Filters \union {None},
         NEW query \in Texts \union {None}, NEW twins \in BOOLEAN
  PROVE  /\ IsSpecList(ResolveSpecs(p, ui, query, twins))
         /\ query # None /\ DateRange[query] # <<None, None>> =>
              AnyHasDate(ResolveSpecs(p, ui, query, twins))
<1> DEFINE named == [i \in DOMAIN p |-> ResolveOneSpec(p[i], ui)]
           range == IF query = None THEN <<None, None>> ELSE DateRange[query]
           net == SafetyNetSpec(named, query, range, ui)
           netted == IF AnyHasDate(named) \/ range = <<None, None>> THEN named ELSE Append(named, net)
<1>1. Len(p) \in Nat /\ DOMAIN p = 1 .. Len(p) /\ \A i \in DOMAIN p : p[i] \in PlannedSpecs
  OBVIOUS
<1>2. IsSpecList(named)
  <2>1. \A i \in 1 .. Len(p) : IsSpec(named[i])
    BY <1>1, ResolvedSpecTyped
  <2>2. named = [i \in 1 .. Len(p) |-> named[i]]
    BY <1>1
  <2> HIDE DEF named
  <2> QED BY <1>1, <2>1, <2>2, IsSpecListTyped
<1>3. query = None \/ query \in Texts
  OBVIOUS
<1>4. range \in Days \X Days
  BY <1>3, DatesAssumption DEF Days
<1>a. ResolveSpecs(p, ui, query, twins) = IF twins THEN AppendTwins(netted) ELSE netted
  BY DEF ResolveSpecs
<1> HIDE DEF named
<1>5. range # <<None, None>> => query \in Texts /\ IsSpec(net) /\ HasDate(net.filters)
  <2> SUFFICES ASSUME range # <<None, None>>
               PROVE  query \in Texts /\ IsSpec(net) /\ HasDate(net.filters)
    OBVIOUS
  <2>1. query \in Texts
    BY <1>3
  <2> HIDE DEF range
  <2> QED BY <1>2, <1>4, <2>1, SafetyNetFacts
<1> HIDE DEF range, net
<1>6. named \in Seq(Range(named)) /\ \A spec \in Range(named) : IsSpec(spec)
  BY <1>2 DEF IsSpecList, Range
<1>7. ASSUME range # <<None, None>>
      PROVE  /\ IsSpecList(Append(named, net))
             /\ net \in Range(Append(named, net))
  <2> DEFINE T == Range(named) \union {net}
  <2>1. named \in Seq(T) /\ net \in T
    BY <1>6, SeqMonotonic
  <2>2. Append(named, net) \in Seq(T) /\ Len(Append(named, net)) = Len(named) + 1
        /\ Append(named, net)[Len(named) + 1] = net /\ Len(named) \in Nat
    <3> HIDE DEF T
    <3> QED BY <2>1, AppendProperties
  <2>3. \A spec \in T : IsSpec(spec)
    BY <1>5, <1>6, <1>7
  <2>4. Range(Append(named, net)) \subseteq T
    BY <2>2, RangeIsFinite
  <2>5. Len(named) + 1 \in DOMAIN Append(named, net)
    BY <2>2
  <2>6. net \in Range(Append(named, net))
    BY <2>2, <2>5 DEF Range
  <2> QED BY <2>2, <2>3, <2>4, <2>6, IsSpecListRange
<1>8. IsSpecList(netted) /\ (range # <<None, None>> => \E spec \in Range(netted) : HasDate(spec.filters))
  <2>1. CASE AnyHasDate(named)
    BY <1>2, <2>1 DEF AnyHasDate, Range
  <2>2. CASE ~AnyHasDate(named) /\ range = <<None, None>>
    BY <1>2, <2>2
  <2>3. CASE ~AnyHasDate(named) /\ range # <<None, None>>
    BY <1>5, <1>7, <2>3
  <2> QED BY <2>1, <2>2, <2>3
<1> HIDE DEF netted
<1>9. IsSpecList(AppendTwins(netted)) /\ Range(netted) \subseteq Range(AppendTwins(netted))
  BY <1>8, TwinsFacts
<1> DEFINE all == ResolveSpecs(p, ui, query, twins)
<1>10. IsSpecList(all) /\ Range(netted) \subseteq Range(all)
  BY <1>8, <1>9, <1>a
<1> HIDE DEF all
<1>11. range # <<None, None>> => AnyHasDate(all)
  BY <1>8, <1>10 DEF AnyHasDate, Range
<1>12. query # None /\ DateRange[query] # <<None, None>> => range # <<None, None>>
  BY DEF range
<1> QED BY <1>10, <1>11, <1>12 DEF all

\* The broadened plan searches for the same without any filter.
LEMMA BroadenedFacts ==
  ASSUME NEW p \in Seq(PlannedSpecs)
  PROVE  ResolveSpecs(BroadenPlan(p), None, None, FALSE) = [i \in DOMAIN p |-> Resolved(p[i], NoFilters)]
<1> DEFINE free(spec) == [spec EXCEPT !.guess = NoGuess]
<1>1. ASSUME NEW spec \in PlannedSpecs
      PROVE  ResolveOneSpec(free(spec), None) = Resolved(spec, NoFilters)
  <2>1. free(spec).guess = NoGuess /\ free(spec).mode = spec.mode
        /\ free(spec).text = spec.text /\ free(spec).words = spec.words
    BY DEF PlannedSpecs
  <2> HIDE DEF free
  <2>2. ResolveDates(NoGuess) = <<None, None>>
    BY DEF ResolveDates, NoGuess
  <2> DEFINE tags == {Guessed(NoGuess.tags[i], Tags) : i \in DOMAIN NoGuess.tags} \ {None}
             who == Guessed(NoGuess.who, People)
             kind == Guessed(NoGuess.kind, Kinds)
             from == ResolveDates(NoGuess)[1]
             to == ResolveDates(NoGuess)[2]
             f == [who |-> who, kind |-> kind, tags |-> tags, from |-> from, to |-> to]
  <2>3. tags = {}
    <3>1. DOMAIN NoGuess.tags = {}
      BY DEF NoGuess
    <3> QED BY <3>1
  <2>4. who = None /\ kind = None /\ from = None /\ to = None
    BY <2>2 DEF Guessed, NoGuess
  <2>5. Intersect(f, None) = f
    BY DEF Intersect
  <2>a. ResolveOneSpec(free(spec), None) = Resolved(free(spec), Intersect(f, None))
    BY <2>1 DEF ResolveOneSpec
  <2> HIDE DEF tags, who, kind, from, to
  <2>b. f = NoFilters
    BY <2>3, <2>4 DEF NoFilters
  <2>6. ResolveOneSpec(free(spec), None) = Resolved(free(spec), NoFilters)
    BY <2>5, <2>a, <2>b
  <2> QED BY <2>1, <2>6 DEF Resolved
<1>2. DOMAIN BroadenPlan(p) = DOMAIN p /\ \A i \in DOMAIN p : BroadenPlan(p)[i] = free(p[i])
  BY DEF BroadenPlan
<1>3. \A i \in DOMAIN p : p[i] \in PlannedSpecs
  OBVIOUS
<1> DEFINE named == [i \in DOMAIN BroadenPlan(p) |-> ResolveOneSpec(BroadenPlan(p)[i], None)]
<1>4. ResolveSpecs(BroadenPlan(p), None, None, FALSE) = named
  BY DEF ResolveSpecs
<1> HIDE DEF free
<1>5. named = [i \in DOMAIN p |-> Resolved(p[i], NoFilters)]
  BY <1>1, <1>2, <1>3
<1> QED BY <1>4, <1>5

-----------------------------------------------------------------------------
(* Types                                                                   *)

LEMMA SetupFacts ==
  ASSUME Typed
  PROVE  /\ setup.refinements \in Nat /\ setup.judge \in BOOLEAN
         /\ request.tool \in {"answer", "retrieve"} /\ request.query \in Texts
         /\ request.ui \in Filters \union {None} /\ request.words \in SUBSET Keywords
BY SetupsAssumption, RequestsAssumption DEF Typed

LEMMA TypedInit == Init => Typed
<1> SUFFICES ASSUME Init PROVE Typed
  OBVIOUS
<1>1. IsSpecList(<<>>)
  <2>1. <<>> \in Seq({}) /\ Range(<<>>) = {}
    BY DEF Range
  <2> QED BY <2>1 DEF IsSpecList
<1>2. <<>> \in Seq(PlannedSpecs) /\ <<>> \in Seq(Hits) /\ DOMAIN <<>> = {}
  OBVIOUS
<1>3. scores \in [DOMAIN scores -> Nat]
  BY DEF Init
<1>4. setup.refinements \in Nat
  BY SetupsAssumption DEF Init
<1>5. plan \in Seq(PlannedSpecs) /\ chunks \in Seq(Hits) /\ IsSpecList(specs) /\ DOMAIN scores = {}
  BY <1>1, <1>2 DEF Init
<1>6. /\ signal \in [vector : {"none", "close", "far"}, keyword : BOOLEAN]
      /\ outcome \in [kind : {"none", "needs_more", "answered"}, cited : SUBSET Docs]
  BY DEF Init, Nothing
<1>7. setup \in Setups /\ request \in Requests /\ pc \in Pcs /\ dropped \subseteq Docs
      /\ calls \in Nat /\ outage \in BOOLEAN /\ stored \subseteq Docs
      /\ result.kind \in {"pending", "answered", "clarify", "no_match"}
  BY DEF Init, Pcs, Pending
<1>8. refinements \in 0 .. setup.refinements
  BY <1>4 DEF Init
<1> QED BY <1>3, <1>5, <1>6, <1>7, <1>8 DEF Typed

LEMMA RescoredTyped ==
  ASSUME Typed, NEW v \in Verdicts
  PROVE  /\ DOMAIN Rescored(v) = DocsOf(chunks) \union DOMAIN scores
         /\ DOMAIN Rescored(v) \subseteq Docs /\ Rescored(v) \in [DOMAIN Rescored(v) -> Nat]
<1>1. v.score \in [DocsOf(chunks) -> {0, Scale}]
  BY DEF Verdicts
<1>2. Scale \in Nat
  BY DEF Scale
<1>3. DocsOf(chunks) \subseteq Docs
  BY EvidenceFacts DEF Typed
<1> HIDE DEF Scale
<1>4. \A d \in DOMAIN v.score : v.score[d] \in Nat
  BY <1>1, <1>2
<1>5. \A d \in DOMAIN scores : scores[d] \in Nat
  BY DEF Typed
<1>6. DOMAIN Rescored(v) = DocsOf(chunks) \union DOMAIN scores
  BY <1>1 DEF Rescored
<1>7. \A d \in DOMAIN Rescored(v) : Rescored(v)[d] \in Nat
  BY <1>4, <1>5 DEF Rescored
<1>8. Rescored(v) = [d \in DOMAIN Rescored(v) |-> Rescored(v)[d]]
  BY DEF Rescored
<1>9. DOMAIN scores \subseteq Docs
  BY DEF Typed
<1> QED BY <1>3, <1>6, <1>7, <1>8, <1>9

LEMMA TypedPlan ==
  ASSUME Typed, Start \/ PlanWithoutModel \/ Plan \/ PlanClarifies
  PROVE  Typed'
<1> USE SetupFacts
<1>1. CASE Start
  BY <1>1 DEF Start, Typed, Pcs, Clarify, input, evidence
<1>2. CASE PlanWithoutModel
  <2>1. plan' \in Seq(PlannedSpecs)
    BY <1>2, BroadPlanTyped DEF PlanWithoutModel
  <2> QED BY <1>2, <2>1 DEF PlanWithoutModel, Typed, Pcs, input, evidence
<1>3. CASE Plan
  <2>1. plan' \in Seq(PlannedSpecs)
    BY <1>3, PlansOfReplyTyped DEF Plan, Typed
  <2> QED BY <1>3, <2>1 DEF Plan, Typed, Pcs, Record, input, evidence
<1>4. CASE PlanClarifies
  BY <1>4 DEF PlanClarifies, Typed, Pcs, Record, Clarify, input, evidence
<1> QED BY <1>1, <1>2, <1>3, <1>4

LEMMA TypedRetrieve ==
  ASSUME Typed, RetrievePhase \/ Broaden \/ Gate
  PROVE  Typed'
<1> USE SetupFacts
<1>1. CASE RetrievePhase
  <2>1. IsSpecList(specs')
    BY <1>1, ResolveSpecsFacts DEF RetrievePhase, Typed
  <2>2. PICK down \in BOOLEAN :
          /\ chunks' = Retrieve(specs', stored, down).chunks
          /\ signal' = Retrieve(specs', stored, down).signal
          /\ outage' = down
          /\ pc' \in {"broaden", "finish", "gate"}
    BY <1>1 DEF RetrievePhase
  <2>3. chunks' \in Seq(Hits) /\ signal' \in [vector : {"none", "close", "far"}, keyword : BOOLEAN]
    BY <2>1, <2>2, RetrieveFacts
  <2> QED BY <1>1, <2>1, <2>2, <2>3 DEF RetrievePhase, Typed, Pcs, input
<1>2. CASE Broaden
  <2>1. IsSpecList(ResolveSpecs(BroadenPlan(plan), None, None, FALSE))
    BY BroadenPlanTyped, ResolveSpecsFacts DEF Typed
  <2> DEFINE list == ResolveSpecs(BroadenPlan(plan), None, None, FALSE)
  <2>2. PICK down \in BOOLEAN :
          /\ chunks' = Retrieve(list, stored, down).chunks
          /\ signal' = Retrieve(list, stored, down).signal
          /\ outage' = (outage \/ down)
    BY <1>2 DEF Broaden
  <2>3. /\ pc' \in {"finish", "gate", "done"}
        /\ result' = result \/ result'.kind = "no_match"
    <3>1. request.tool = "retrieve" \/ request.tool = "answer"
      OBVIOUS
    <3>2. PICK d \in BOOLEAN :
            \/ pc' = "finish" /\ UNCHANGED result
            \/ pc' = "gate" /\ UNCHANGED result
            \/ pc' = "done" /\ NoMatch("empty_retrieval")
      BY <1>2 DEF Broaden
    <3> QED BY <3>2 DEF NoMatch
  <2> HIDE DEF list
  <2>4. chunks' \in Seq(Hits) /\ signal' \in [vector : {"none", "close", "far"}, keyword : BOOLEAN]
    BY <2>1, <2>2, RetrieveFacts DEF list
  <2>5. outage' \in BOOLEAN
    BY <2>2
  <2> QED BY <1>2, <2>3, <2>4, <2>5 DEF Broaden, Typed, Pcs, input
<1>3. CASE Gate
  BY <1>3 DEF Gate, Typed, Pcs, NoMatch, input, evidence
<1> QED BY <1>1, <1>2, <1>3

LEMMA TypedJudge ==
  ASSUME Typed, SkipJudge \/ JudgeKeeps \/ JudgeBails
  PROVE  Typed'
<1> USE SetupFacts
<1>1. CASE SkipJudge
  BY <1>1 DEF SkipJudge, Typed, Pcs, input, evidence
<1>2. CASE JudgeKeeps
  <2>1. PICK v \in Verdicts :
          /\ scores' = Rescored(v)
          /\ chunks' = LeftOf(chunks, v.keep)
          /\ dropped' = DocsOf(chunks) \ v.keep
    BY <1>2 DEF JudgeKeeps, LeftOf
  <2>2. chunks' \in Seq(Hits)
    BY <2>1, KeptEvidence DEF Typed
  <2>3. DOMAIN scores' \subseteq Docs /\ scores' \in [DOMAIN scores' -> Nat]
    BY <2>1, RescoredTyped
  <2>4. dropped' \subseteq Docs
    BY <2>1, EvidenceFacts DEF Typed
  <2>5. calls' \in Nat /\ pc' \in Pcs
    BY <1>2 DEF JudgeKeeps, Record, Typed, Pcs
  <2> QED BY <1>2, <2>2, <2>3, <2>4, <2>5 DEF JudgeKeeps, Typed, input
<1>3. CASE JudgeBails
  <2>1. PICK v \in Verdicts : scores' = Rescored(v)
    BY <1>3 DEF JudgeBails
  <2>2. DOMAIN scores' \subseteq Docs /\ scores' \in [DOMAIN scores' -> Nat]
    BY <2>1, RescoredTyped
  <2>3. calls' \in Nat /\ pc' \in Pcs
    BY <1>3 DEF JudgeBails, Record, Typed, Pcs
  <2>4. result'.kind \in {"pending", "answered", "clarify", "no_match"}
    BY <1>3 DEF JudgeBails, NoMatch, Typed
  <2> QED BY <1>3, <2>2, <2>3, <2>4 DEF JudgeBails, Typed, input, evidence
<1> QED BY <1>1, <1>2, <1>3

LEMMA TypedAnswer ==
  ASSUME Typed, BudgetLeft, Synthesise \/ Replan \/ ReplanClarifies \/ Requery \/ Finish \/ Prune
  PROVE  Typed'
<1> USE SetupFacts
<1>1. CASE Synthesise
  <2>1. outcome' \in [kind : {"none", "needs_more", "answered"}, cited : SUBSET Docs]
    BY <1>1 DEF Synthesise, SynthesisOutcomes, Answered, NeedsMore
  <2>2. calls' \in Nat /\ pc' \in Pcs
    BY <1>1 DEF Synthesise, Record, Typed, Pcs
  <2> QED BY <1>1, <2>1, <2>2 DEF Synthesise, Typed, input, evidence
<1>2. CASE Replan
  <2>1. refinements' \in 0 .. setup.refinements
    BY <1>2 DEF Replan, Typed, BudgetLeft
  <2>2. PICK new \in PlansOfReply :
          LET resolved == ResolveSpecs(new, request.ui, None, TRUE)
          IN  IF SpecsEqual(resolved, specs)
                THEN Record("synthesise") /\ UNCHANGED specs
                ELSE Record("requery") /\ specs' = resolved
    BY <1>2 DEF Replan
  <2> DEFINE resolved == ResolveSpecs(new, request.ui, None, TRUE)
  <2>3. IsSpecList(resolved)
    BY PlansOfReplyTyped, ResolveSpecsFacts DEF Typed
  <2>a. (Record("synthesise") /\ UNCHANGED specs) \/ (Record("requery") /\ specs' = resolved)
    BY <2>2
  <2> HIDE DEF resolved
  <2>4. IsSpecList(specs')
    BY <2>3, <2>a DEF Typed
  <2>5. calls' \in Nat /\ pc' \in Pcs
    BY <2>a DEF Record, Typed, Pcs
  <2> QED BY <1>2, <2>1, <2>4, <2>5 DEF Replan, Typed, input
<1>3. CASE ReplanClarifies
  <2>1. refinements' \in 0 .. setup.refinements
    BY <1>3 DEF ReplanClarifies, Typed, BudgetLeft
  <2>2. calls' \in Nat /\ pc' \in Pcs
    BY <1>3 DEF ReplanClarifies, Record, Typed, Pcs
  <2> QED BY <1>3, <2>1, <2>2 DEF ReplanClarifies, Typed, input, evidence
<1>4. CASE Requery
  <2>1. PICK down \in BOOLEAN : chunks' = MergeChunks(chunks, Retrieve(specs, stored, down).chunks)
    BY <1>4 DEF Requery
  <2>2. Retrieve(specs, stored, down).chunks \in Seq(Hits)
    BY RetrieveFacts DEF Typed
  <2>3. chunks' \in Seq(Hits)
    BY <2>1, <2>2, MergedEvidence DEF Typed
  <2> QED BY <1>4, <2>3 DEF Requery, Typed, Pcs, input
<1>5. CASE Finish
  BY <1>5 DEF Finish, Result, Typed, Pcs, input, evidence
<1>6. CASE Prune
  BY <1>6 DEF Prune, Typed, input, evidence
<1> QED BY <1>1, <1>2, <1>3, <1>4, <1>5, <1>6

LEMMA TypedStutters == Typed /\ UNCHANGED vars => Typed'
BY DEF Typed, vars

LEMMA TypedNext == Typed /\ BudgetLeft /\ [Next]_vars => Typed'
BY TypedPlan, TypedRetrieve, TypedJudge, TypedAnswer, TypedStutters DEF Next, Done

-----------------------------------------------------------------------------
(* The budget                                                              *)

LEMMA CallsOfFacts ==
  ASSUME Typed
  PROVE  /\ JudgeCalls \in {0, 1} /\ CallsOf(0) = 2 + JudgeCalls
         /\ MaxCalls = CallsOf(setup.refinements) /\ MaxCalls \in Nat
         /\ \A r \in 0 .. setup.refinements : CallsOf(r) \in Nat /\ CallsOf(r) <= MaxCalls
         /\ \A r \in Nat : CallsOf(r + 1) = CallsOf(r) + 2 + JudgeCalls
<1>1. setup.refinements \in Nat
  BY SetupFacts
<1>2. CASE setup.judge
  <2>1. JudgeCalls = 1 /\ (\A r \in Nat : CallsOf(r) = 3 + r * 3) /\ MaxCalls = 3 + setup.refinements * 3
    BY <1>1, <1>2 DEF CallsOf, JudgeCalls, MaxCalls
  <2> QED BY <1>1, <2>1
<1>3. CASE ~setup.judge
  <2>1. JudgeCalls = 0 /\ (\A r \in Nat : CallsOf(r) = 2 + r * 2) /\ MaxCalls = 2 + setup.refinements * 2
    BY <1>1, <1>3 DEF CallsOf, JudgeCalls, MaxCalls
  <2> QED BY <1>1, <2>1
<1> QED BY <1>2, <1>3

LEMMA BudgetInit == Init => BudgetLeft
BY DEF Init, BudgetLeft, Before

LEMMA BudgetNext ==
  ASSUME Typed, BudgetLeft, [Next]_vars
  PROVE  BudgetLeft'
<1> DEFINE J == JudgeCalls
<1>1. /\ J \in {0, 1} /\ CallsOf(0) = 2 + J /\ MaxCalls \in Nat
      /\ CallsOf(refinements) \in Nat /\ CallsOf(refinements) <= MaxCalls
      /\ CallsOf(refinements + 1) = CallsOf(refinements) + 2 + J
      /\ calls \in Nat /\ refinements \in Nat /\ setup.refinements \in Nat
  BY CallsOfFacts, SetupFacts DEF Typed
<1>2. refinements < setup.refinements => CallsOf(refinements + 1) \in Nat /\ CallsOf(refinements + 1) <= MaxCalls
  BY <1>1, CallsOfFacts
<1>3. ASSUME UNCHANGED input, NEW r \in Nat PROVE JudgeCalls' = J /\ CallsOf(r)' = CallsOf(r)
  BY <1>3 DEF input, JudgeCalls, CallsOf
<1>c. ASSUME UNCHANGED input, UNCHANGED refinements
      PROVE  JudgeCalls' = J /\ CallsOf(refinements)' = CallsOf(refinements)
  BY <1>c DEF input, JudgeCalls, CallsOf
<1>r. ASSUME UNCHANGED input, refinements' = refinements + 1
      PROVE  JudgeCalls' = J /\ CallsOf(refinements)' = CallsOf(refinements + 1)
  BY <1>r DEF input, JudgeCalls, CallsOf
<1>4. CASE Start
  BY <1>4 DEF Start, BudgetLeft, Before
<1>5. CASE PlanWithoutModel
  BY <1>5 DEF PlanWithoutModel, BudgetLeft, Before
<1>6. CASE Plan
  <2>1. calls = 0 /\ refinements = 0 /\ MaxCalls >= 2
    BY <1>1, <1>6 DEF Plan, CallsPlanner, BudgetLeft, Before
  <2> QED BY <1>6, <2>1, <1>1 DEF Plan, Record, BudgetLeft, Before
<1>7. CASE PlanClarifies
  <2>1. calls = 0 /\ refinements = 0 /\ MaxCalls >= 2
    BY <1>1, <1>7 DEF PlanClarifies, CallsPlanner, BudgetLeft, Before
  <2> QED BY <1>7, <2>1, <1>1 DEF PlanClarifies, Record, BudgetLeft, Before
<1>8. CASE RetrievePhase
  <2>1. pc' \in {"broaden", "finish", "gate"}
    BY <1>8 DEF RetrievePhase
  <2> QED BY <1>8, <2>1 DEF RetrievePhase, BudgetLeft, Before
<1>9. CASE Broaden
  <2>1. pc' \in {"finish", "gate", "done"}
    BY <1>9 DEF Broaden
  <2> QED BY <1>9, <2>1 DEF Broaden, BudgetLeft, Before
<1>10. CASE Gate
  <2>1. calls <= 1 /\ refinements = 0 /\ UNCHANGED input /\ UNCHANGED <<calls, refinements>>
        /\ pc' \in {"done", "judge"}
    BY <1>10 DEF Gate, BudgetLeft, Before
  <2> QED BY <1>1, <1>c, <2>1 DEF BudgetLeft, Before
<1>11. CASE SkipJudge
  <2>1. /\ UNCHANGED input /\ UNCHANGED <<calls, refinements>> /\ pc' = "synthesise"
        /\ calls + J + 1 <= CallsOf(refinements)
    BY <1>11 DEF SkipJudge, BudgetLeft, Before
  <2> QED BY <1>1, <1>c, <2>1 DEF BudgetLeft, Before
<1>12. CASE JudgeKeeps \/ JudgeBails
  <2>1. J = 1
    BY <1>12 DEF JudgeKeeps, JudgeBails, JudgeCalls
  <2>2. calls + J + 1 <= CallsOf(refinements)
    BY <1>12 DEF JudgeKeeps, JudgeBails, BudgetLeft
  <2>3. ~(calls + 1 > MaxCalls)
    BY <1>1, <2>1, <2>2
  <2>4. /\ UNCHANGED input /\ UNCHANGED refinements /\ calls' = calls + 1
        /\ pc' \in {"synthesise", "done"}
    BY <1>12, <2>3 DEF JudgeKeeps, JudgeBails, Record
  <2> QED BY <1>1, <1>c, <2>1, <2>2, <2>4 DEF BudgetLeft, Before
<1>13. CASE Synthesise
  <2>1. calls + 1 <= CallsOf(refinements)
    BY <1>13 DEF Synthesise, BudgetLeft
  <2>2. ~(calls + 1 > MaxCalls)
    BY <1>1, <2>1
  <2>3. /\ UNCHANGED input /\ UNCHANGED refinements /\ calls' = calls + 1
        /\ pc' = "finish" \/ (pc' = "replan" /\ refinements < setup.refinements)
    BY <1>13, <2>2 DEF Synthesise, Record
  <2> QED BY <1>1, <1>c, <2>1, <2>3 DEF BudgetLeft, Before, input
<1>14. CASE Replan \/ ReplanClarifies
  <2>1. calls <= CallsOf(refinements) /\ refinements < setup.refinements
    BY <1>14 DEF Replan, ReplanClarifies, BudgetLeft
  <2>2. ~(calls + 1 > MaxCalls)
    BY <1>1, <1>2, <2>1
  <2>3. /\ UNCHANGED input /\ refinements' = refinements + 1 /\ calls' = calls + 1
        /\ pc' \in {"synthesise", "requery"}
    BY <1>14, <2>2 DEF Replan, ReplanClarifies, Record
  <2> QED BY <1>1, <1>2, <1>r, <2>1, <2>3 DEF BudgetLeft, Before
<1>15. CASE Requery
  <2>1. /\ UNCHANGED input /\ UNCHANGED <<calls, refinements>> /\ pc' = "judge"
        /\ calls + J + 1 <= CallsOf(refinements)
    BY <1>15 DEF Requery, BudgetLeft
  <2> QED BY <1>1, <1>c, <2>1 DEF BudgetLeft, Before
<1>16. CASE Finish
  BY <1>16 DEF Finish, BudgetLeft, Before
<1>17. CASE Prune \/ UNCHANGED vars
  <2>1. UNCHANGED input /\ UNCHANGED <<pc, calls, refinements>> /\ setup' = setup
    BY <1>17 DEF Prune, vars, input
  <2> QED BY <1>c, <2>1 DEF BudgetLeft, Before
<1> QED BY <1>4, <1>5, <1>6, <1>7, <1>8, <1>9, <1>10, <1>11, <1>12, <1>13, <1>14, <1>15, <1>16, <1>17
     DEF Next, Done

-----------------------------------------------------------------------------
(* The result                                                              *)

LEMMA SettledInit == Init => Settled /\ EndsAnswered
BY DEF Init, Settled, EndsAnswered, Before, Pending, Nothing

LEMMA SettledNext ==
  ASSUME Typed, BudgetLeft, Settled, EndsAnswered, [Next]_vars
  PROVE  Settled' /\ EndsAnswered'
<1> USE DEF Settled, EndsAnswered
<1>t. /\ request.tool \in {"answer", "retrieve"} /\ setup.refinements \in Nat
      /\ refinements \in 0 .. setup.refinements
  BY SetupFacts DEF Typed
<1>1. CASE Start
  BY <1>1 DEF Start, Clarify, Before, Nothing, Pending, input
<1>2. CASE PlanWithoutModel
  BY <1>2 DEF PlanWithoutModel, Before, Nothing, Pending, input
<1>3. CASE Plan
  BY <1>3 DEF Plan, CallsPlanner, Record, Before, Nothing, Pending, input
<1>4. CASE PlanClarifies
  <2>1. pc' = "done"
    BY <1>4, BudgetNext DEF PlanClarifies, Record, BudgetLeft
  <2> QED BY <1>4, <2>1 DEF PlanClarifies, CallsPlanner, Clarify, Before, Nothing, Pending, input
<1>5. CASE RetrievePhase
  <2>1. pc' \in {"broaden", "finish", "gate"} /\ (pc' = "finish" => request.tool = "retrieve")
    BY <1>5 DEF RetrievePhase
  <2> QED BY <1>5, <2>1 DEF RetrievePhase, Before, Nothing, Pending, input
<1>6. CASE Broaden
  <2>1. \/ pc' = "finish" /\ request.tool = "retrieve" /\ UNCHANGED result
        \/ pc' = "gate" /\ UNCHANGED result
        \/ pc' = "done" /\ NoMatch("empty_retrieval")
    BY <1>6, <1>t DEF Broaden
  <2> QED BY <1>6, <2>1 DEF Broaden, NoMatch, Before, Nothing, Pending, input
<1>7. CASE Gate
  BY <1>7 DEF Gate, NoMatch, Before, Nothing, Pending, input
<1>8. CASE SkipJudge
  BY <1>8 DEF SkipJudge, Before, Nothing, Pending, input
<1>9. CASE JudgeKeeps
  <2>1. pc' = "synthesise"
    BY <1>9, BudgetNext DEF JudgeKeeps, Record, BudgetLeft
  <2> QED BY <1>9, <2>1 DEF JudgeKeeps, Before, Nothing, Pending, input
<1>10. CASE JudgeBails
  <2>1. pc' = IF outcome = Nothing THEN "done" ELSE "synthesise"
    BY <1>10, BudgetNext DEF JudgeBails, Record, BudgetLeft
  <2>2. result' = IF outcome = Nothing THEN [kind |-> "no_match", reason |-> "judge_rejected", sources |-> <<>>]
                  ELSE result
    BY <1>10, <2>1 DEF JudgeBails, NoMatch
  <2> QED BY <1>10, <2>1, <2>2 DEF JudgeBails, Before, Nothing, Pending, input
<1>11. CASE Synthesise
  <2>1. pc' = IF outcome' = NeedsMore /\ refinements < setup.refinements THEN "replan" ELSE "finish"
    BY <1>11, BudgetNext DEF Synthesise, Record, BudgetLeft
  <2>2. setup.refinements > 0 /\ pc' = "finish" => outcome'.kind = "answered"
    <3> SUFFICES ASSUME setup.refinements > 0, pc' = "finish" PROVE outcome'.kind = "answered"
      OBVIOUS
    <3>1. outcome' # NeedsMore \/ Final
      BY <1>t, <2>1 DEF Final
    <3>2. outcome' \in {Answered(docs) : docs \in SUBSET Docs} \/ (~Final /\ outcome' = NeedsMore)
      BY <1>11 DEF Synthesise, SynthesisOutcomes
    <3> QED BY <3>1, <3>2 DEF Answered
  <2> QED BY <1>11, <2>1, <2>2 DEF Synthesise, Before, Nothing, Pending, input
<1>12. CASE Replan \/ ReplanClarifies
  <2>1. pc' \in {"synthesise", "requery"}
    <3>1. pc' \in {"synthesise", "requery", "overspent"}
      BY <1>12 DEF Replan, ReplanClarifies, Record
    <3> QED BY <3>1, BudgetNext DEF BudgetLeft
  <2> QED BY <1>12, <2>1 DEF Replan, ReplanClarifies, Before, Nothing, Pending, input
<1>13. CASE Requery
  BY <1>13 DEF Requery, Before, Nothing, Pending, input
<1>14. CASE Finish
  BY <1>14 DEF Finish, Result, Before, Nothing, Pending, input
<1>15. CASE Prune \/ UNCHANGED vars
  BY <1>15 DEF Prune, Before, Nothing, Pending, input, vars
<1> QED BY <1>1, <1>2, <1>3, <1>4, <1>5, <1>6, <1>7, <1>8, <1>9, <1>10, <1>11, <1>12, <1>13, <1>14, <1>15
     DEF Next, Done

-----------------------------------------------------------------------------
(* The size of the evidence                                                *)

LEMMA EvidenceFitsInit == Init => EvidenceFits
<1> SUFFICES ASSUME Init PROVE EvidenceFits
  OBVIOUS
<1>1. DocsOf(chunks) = {} /\ \A d : {i \in DOMAIN chunks : Owner[chunks[i].id] = d} = {}
  BY DEF Init, DocsOf
<1>2. Cardinality({}) = 0
  BY FS_EmptySet
<1>3. Passes = 1
  BY DEF Init, Passes
<1>4. TopK \in Nat /\ MaxPerDoc \in Nat
  BY LimitsAssumption
<1>5. 0 <= Passes * TopK /\ 0 <= Passes * MaxPerDoc
  BY <1>3, <1>4
<1>6. Cardinality(DocsOf(chunks)) = 0
  BY <1>1, <1>2
<1>7. \A d : Cardinality({i \in DOMAIN chunks : Owner[chunks[i].id] = d}) = 0
  BY <1>1, <1>2
<1> QED BY <1>5, <1>6, <1>7 DEF EvidenceFits

LEMMA PassesAreNumber ==
  ASSUME Typed, Typed'
  PROVE  Passes \in Nat /\ Passes' \in Nat
<1>1. refinements \in Nat
  BY SetupFacts DEF Typed
<1>2. setup' \in Setups /\ refinements' \in 0 .. setup'.refinements
  BY DEF Typed
<1>3. refinements' \in Nat
  BY <1>2, SetupsAssumption
<1>4. \A r \in Nat : 1 + r \in Nat
  OBVIOUS
<1> QED BY <1>1, <1>3, <1>4 DEF Passes

\* Fewer chunks, or more passes, still fit.
LEMMA EvidenceShrinks ==
  ASSUME Typed, EvidenceFits, Typed',
         Cardinality(DocsOf(chunks')) <= Cardinality(DocsOf(chunks)),
         \A d : PerDoc(chunks', d) <= PerDoc(chunks, d),
         Passes <= Passes'
  PROVE  EvidenceFits'
<1>1. Passes \in Nat /\ Passes' \in Nat
  BY PassesAreNumber
<1>2. \A p, q, k \in Nat : p <= q => p * k \in Nat /\ q * k \in Nat /\ p * k <= q * k
  OBVIOUS
<1>3. TopK \in Nat /\ MaxPerDoc \in Nat
  BY LimitsAssumption
<1>4. chunks \in Seq(Hits) /\ chunks' \in Seq(Hits)
  BY DEF Typed
<1>5. Passes * TopK \in Nat /\ Passes' * TopK \in Nat /\ Passes * TopK <= Passes' * TopK
  BY <1>1, <1>2, <1>3
<1>6. Passes * MaxPerDoc \in Nat /\ Passes' * MaxPerDoc \in Nat /\ Passes * MaxPerDoc <= Passes' * MaxPerDoc
  BY <1>1, <1>2, <1>3
<1>7. Cardinality(DocsOf(chunks)) \in Nat /\ Cardinality(DocsOf(chunks')) \in Nat
  BY <1>4, EvidenceFacts
<1>8. Cardinality(DocsOf(chunks')) <= Passes' * TopK
  BY <1>5, <1>7 DEF EvidenceFits
<1>9. ASSUME NEW d \in Docs PROVE PerDoc(chunks', d) <= Passes' * MaxPerDoc
  <2>1. PerDoc(chunks, d) \in Nat /\ PerDoc(chunks', d) \in Nat
    BY <1>4, EvidenceFacts
  <2>2. PerDoc(chunks, d) <= Passes * MaxPerDoc
    BY DEF EvidenceFits, PerDoc
  <2>3. PerDoc(chunks', d) <= PerDoc(chunks, d)
    OBVIOUS
  <2> QED BY <1>6, <2>1, <2>2, <2>3
<1> QED BY <1>8, <1>9 DEF EvidenceFits, PerDoc

LEMMA EvidenceFitsNext ==
  ASSUME Typed, BudgetLeft, EvidenceFits, [Next]_vars
  PROVE  EvidenceFits'
<1>t. Typed' /\ BudgetLeft'
  BY TypedNext, BudgetNext
<1>r. /\ refinements \in Nat /\ TopK \in Nat /\ MaxPerDoc \in Nat /\ chunks \in Seq(Hits)
  BY SetupFacts, LimitsAssumption DEF Typed
<1>s. /\ Cardinality(DocsOf(chunks)) <= Cardinality(DocsOf(chunks))
      /\ \A d : PerDoc(chunks, d) <= PerDoc(chunks, d)
  <2>1. Cardinality(DocsOf(chunks)) \in Nat /\ \A d : PerDoc(chunks, d) \in Nat
    BY <1>r, EvidenceFacts
  <2>2. \A n \in Nat : n <= n
    OBVIOUS
  <2> QED BY <2>1, <2>2
<1>1. CASE chunks' = chunks /\ Passes <= Passes'
  BY <1>1, <1>s, <1>t, EvidenceShrinks
<1>2. CASE \/ Start \/ PlanWithoutModel \/ Plan \/ PlanClarifies \/ Gate \/ SkipJudge
           \/ JudgeBails \/ Synthesise \/ Finish \/ Prune \/ UNCHANGED vars
  <2>1. chunks' = chunks /\ refinements' = refinements
    BY <1>2 DEF Start, PlanWithoutModel, Plan, PlanClarifies, Gate, SkipJudge, JudgeBails,
                Synthesise, Finish, Prune, vars, evidence
  <2>2. pc' = "requery" => pc = "requery"
    BY <1>2 DEF Start, PlanWithoutModel, Plan, PlanClarifies, Gate, SkipJudge, JudgeBails,
                Synthesise, Finish, Prune, vars, Record
  <2>3. Passes <= Passes'
    BY <1>r, <2>1, <2>2 DEF Passes
  <2> QED BY <1>1, <2>1, <2>3
<1>3. CASE Replan \/ ReplanClarifies
  <2>1. chunks' = chunks /\ refinements' = refinements + 1 /\ pc = "replan"
    BY <1>3 DEF Replan, ReplanClarifies, evidence
  <2>2. Passes <= Passes'
    BY <1>r, <2>1 DEF Passes
  <2> QED BY <1>1, <2>1, <2>2
<1>4. CASE JudgeKeeps
  <2>1. PICK v \in Verdicts : chunks' = LeftOf(chunks, v.keep)
    BY <1>4 DEF JudgeKeeps, LeftOf
  <2>2. Passes <= Passes'
    <3>1. refinements' = refinements /\ pc # "requery" /\ pc' # "requery"
      BY <1>4 DEF JudgeKeeps, Record
    <3> QED BY <1>r, <3>1 DEF Passes
  <2> QED BY <1>r, <1>t, <2>1, <2>2, KeptEvidence, EvidenceShrinks
<1>5. CASE RetrievePhase \/ Broaden
  <2>1. PICK list : \E down \in BOOLEAN : IsSpecList(list) /\ chunks' = Retrieve(list, stored, down).chunks
    <3>1. CASE RetrievePhase
      <4>1. \E down \in BOOLEAN : chunks' = Retrieve(specs', stored, down).chunks
        BY <3>1 DEF RetrievePhase
      <4>2. IsSpecList(specs')
        BY <1>t DEF Typed
      <4> QED BY <4>1, <4>2
    <3>2. CASE Broaden
      <4> DEFINE list == ResolveSpecs(BroadenPlan(plan), None, None, FALSE)
      <4>1. IsSpecList(list)
        BY BroadenPlanTyped, ResolveSpecsFacts DEF Typed
      <4>2. \E down \in BOOLEAN : chunks' = Retrieve(list, stored, down).chunks
        BY <3>2 DEF Broaden
      <4> HIDE DEF list
      <4> QED BY <4>1, <4>2
    <3> QED BY <1>5, <3>1, <3>2
  <2>2. /\ Cardinality(DocsOf(chunks')) <= TopK
        /\ \A d : PerDoc(chunks', d) <= MaxPerDoc
    <3>1. PICK down \in BOOLEAN : IsSpecList(list) /\ chunks' = Retrieve(list, stored, down).chunks
      BY <2>1
    <3> QED BY <3>1, RetrieveFacts
  <2>3. Passes' = 1
    <3>1. refinements' = 0 /\ pc' # "requery"
      BY <1>5 DEF RetrievePhase, Broaden, BudgetLeft, Before
    <3> QED BY <3>1 DEF Passes
  <2>4. Passes' * TopK = TopK /\ Passes' * MaxPerDoc = MaxPerDoc
    BY <1>r, <2>3
  <2> QED BY <2>2, <2>4 DEF EvidenceFits, PerDoc
<1>6. CASE Requery
  <2>1. PICK down \in BOOLEAN : chunks' = MergeChunks(chunks, Retrieve(specs, stored, down).chunks)
    BY <1>6 DEF Requery
  <2> DEFINE new == Retrieve(specs, stored, down).chunks
  <2>2. /\ new \in Seq(Hits) /\ Cardinality(DocsOf(new)) <= TopK
        /\ \A d : PerDoc(new, d) <= MaxPerDoc
    BY RetrieveFacts DEF Typed
  <2>a. chunks' = MergeChunks(chunks, new)
    BY <2>1
  <2> HIDE DEF new
  <2>3. /\ Cardinality(DocsOf(chunks')) <= Cardinality(DocsOf(chunks)) + Cardinality(DocsOf(new))
        /\ \A d : PerDoc(chunks', d) <= PerDoc(chunks, d) + PerDoc(new, d)
        /\ chunks' \in Seq(Hits)
    BY <1>r, <2>a, <2>2, MergedEvidence
  <2>4. Passes = refinements /\ Passes' = refinements + 1
    <3>1. refinements' = refinements /\ pc = "requery" /\ pc' = "judge"
      BY <1>6 DEF Requery
    <3> QED BY <1>r, <3>1 DEF Passes
  <2>5. \A p, k \in Nat : p * k \in Nat /\ (p + 1) * k = p * k + k
    OBVIOUS
  <2>6. /\ Passes * TopK \in Nat /\ Passes' * TopK = Passes * TopK + TopK
        /\ Passes * MaxPerDoc \in Nat /\ Passes' * MaxPerDoc = Passes * MaxPerDoc + MaxPerDoc
    BY <1>r, <2>4, <2>5
  <2>7. /\ Cardinality(DocsOf(chunks)) \in Nat /\ Cardinality(DocsOf(chunks')) \in Nat
        /\ Cardinality(DocsOf(new)) \in Nat
        /\ \A d : PerDoc(chunks, d) \in Nat /\ PerDoc(chunks', d) \in Nat /\ PerDoc(new, d) \in Nat
    BY <1>r, <2>2, <2>3, EvidenceFacts
  <2>8. Cardinality(DocsOf(chunks')) <= Passes' * TopK
    <3>1. Cardinality(DocsOf(chunks)) <= Passes * TopK
      BY DEF EvidenceFits
    <3> QED BY <1>r, <2>2, <2>3, <2>6, <2>7, <3>1
  <2>9. ASSUME NEW d \in Docs PROVE PerDoc(chunks', d) <= Passes' * MaxPerDoc
    <3>1. PerDoc(chunks, d) <= Passes * MaxPerDoc
      BY DEF EvidenceFits, PerDoc
    <3>2. PerDoc(chunks', d) <= PerDoc(chunks, d) + PerDoc(new, d) /\ PerDoc(new, d) <= MaxPerDoc
      BY <2>2, <2>3
    <3>3. PerDoc(chunks, d) \in Nat /\ PerDoc(chunks', d) \in Nat /\ PerDoc(new, d) \in Nat
      BY <2>7
    <3> QED BY <1>r, <2>6, <3>1, <3>2, <3>3
  <2> QED BY <2>8, <2>9 DEF EvidenceFits, PerDoc
<1> QED BY <1>2, <1>3, <1>4, <1>5, <1>6 DEF Next, Done

-----------------------------------------------------------------------------
(* The verdicts                                                            *)

LEMMA NoSourcesAreSound ==
  /\ result.sources = <<>> => JudgedOutIsNotCited /\ RankedOnOneScale
  /\ result'.sources = <<>> => JudgedOutIsNotCited' /\ RankedOnOneScale'
<1>1. Range(<<>>) = {}
  BY DEF Range
<1> QED BY <1>1 DEF JudgedOutIsNotCited, RankedOnOneScale

LEMMA JudgedInit == Init => EvidenceIsJudged /\ JudgedOutIsNotCited /\ RankedOnOneScale
<1>1. DOMAIN <<>> = {}
  OBVIOUS
<1>2. Init => EvidenceIsJudged
  BY <1>1 DEF Init, EvidenceIsJudged, Unjudged, Before
<1> QED BY <1>2, NoSourcesAreSound DEF Init, Pending

LEMMA JudgedNext ==
  ASSUME Typed, Settled, EvidenceIsJudged, JudgedOutIsNotCited, RankedOnOneScale, [Next]_vars
  PROVE  EvidenceIsJudged' /\ JudgedOutIsNotCited' /\ RankedOnOneScale'
<1>t. setup.judge \in BOOLEAN
  BY SetupFacts
<1>p. pc # "done" => result = Pending
  BY DEF Settled
<1>s. ASSUME UNCHANGED <<dropped, scores, result>>
      PROVE  JudgedOutIsNotCited' /\ RankedOnOneScale'
  BY <1>s DEF JudgedOutIsNotCited, RankedOnOneScale
<1>u. ASSUME UNCHANGED <<input, dropped, scores>>, Unjudged, pc' \notin Before \/ pc \in Before
      PROVE  EvidenceIsJudged'
  BY <1>u DEF EvidenceIsJudged, Unjudged
<1>1. CASE \/ Start \/ PlanWithoutModel \/ Plan \/ PlanClarifies
           \/ RetrievePhase \/ Broaden \/ Gate
  <2>1. UNCHANGED <<input, dropped, scores>> /\ pc \in Before
    BY <1>1 DEF Start, PlanWithoutModel, Plan, PlanClarifies, CallsPlanner, RetrievePhase, Broaden, Gate, Before
  <2>2. result' = result \/ result'.sources = <<>>
    <3>1. CASE Broaden
      <4>1. UNCHANGED result \/ NoMatch("empty_retrieval")
        BY <3>1, SetupFacts DEF Broaden
      <4> QED BY <4>1 DEF NoMatch
    <3>2. CASE Start \/ PlanClarifies \/ Gate
      BY <3>2 DEF Start, PlanClarifies, Gate, Clarify, NoMatch
    <3>3. CASE PlanWithoutModel \/ Plan \/ RetrievePhase
      BY <3>3 DEF PlanWithoutModel, Plan, RetrievePhase
    <3> QED BY <1>1, <3>1, <3>2, <3>3
  <2>3. Unjudged
    BY <2>1 DEF EvidenceIsJudged
  <2>4. EvidenceIsJudged'
    BY <1>u, <2>1, <2>3
  <2>5. JudgedOutIsNotCited' /\ RankedOnOneScale'
    BY <1>s, <2>1, <2>2, NoSourcesAreSound
  <2> QED BY <2>4, <2>5
<1>2. CASE SkipJudge
  <2>1. UNCHANGED <<input, dropped, scores, result>> /\ pc' = "synthesise" /\ ~setup.judge
    BY <1>2 DEF SkipJudge
  <2>2. Unjudged /\ pc' \notin Before
    BY <2>1 DEF EvidenceIsJudged, Before
  <2>3. EvidenceIsJudged'
    BY <1>u, <2>1, <2>2
  <2> QED BY <1>s, <2>1, <2>3
<1>3. CASE JudgeKeeps
  <2>1. PICK v \in Verdicts : /\ scores' = Rescored(v) /\ chunks' = LeftOf(chunks, v.keep)
                              /\ dropped' = DocsOf(chunks) \ v.keep
    BY <1>3 DEF JudgeKeeps, LeftOf
  <2>2. DocsOf(chunks') \subseteq DocsOf(chunks) \intersect v.keep
    BY <2>1, KeptEvidence DEF Typed
  <2>3. DocsOf(chunks) \subseteq DOMAIN scores'
    BY <2>1, RescoredTyped
  <2>4. DocsOf(chunks') \intersect dropped' = {} /\ DocsOf(chunks') \subseteq DOMAIN scores'
    BY <2>1, <2>2, <2>3
  <2>5. setup'.judge /\ pc' \notin Before
    BY <1>3 DEF JudgeKeeps, Record, Before, input
  <2>6. EvidenceIsJudged'
    <3>1. DocsOf(chunks)' = DocsOf(chunks')
      BY DEF DocsOf
    <3> QED BY <2>4, <2>5, <3>1 DEF EvidenceIsJudged
  <2>7. result'.sources = <<>>
    BY <1>3, <1>p DEF JudgeKeeps, Pending
  <2> QED BY <2>6, <2>7, NoSourcesAreSound
<1>4. CASE JudgeBails
  <2>1. PICK v \in Verdicts : scores' = Rescored(v)
    BY <1>4 DEF JudgeBails
  <2>2. DocsOf(chunks) \subseteq DOMAIN scores'
    BY <2>1, RescoredTyped
  <2>3. setup'.judge /\ pc' \notin Before /\ chunks' = chunks /\ dropped' = {}
    BY <1>4 DEF JudgeBails, Record, Before, input, evidence
  <2>4. EvidenceIsJudged'
    <3>1. DocsOf(chunks)' = DocsOf(chunks')
      BY DEF DocsOf
    <3> QED BY <2>2, <2>3, <3>1 DEF EvidenceIsJudged
  <2>5. result'.sources = <<>>
    BY <1>4, <1>p DEF JudgeBails, NoMatch, Pending
  <2> QED BY <2>4, <2>5, NoSourcesAreSound
<1>5. CASE Synthesise \/ Replan \/ ReplanClarifies \/ Requery
  <2>1. UNCHANGED <<input, dropped, scores, result>>
    BY <1>5 DEF Synthesise, Replan, ReplanClarifies, Requery
  <2>2. /\ pc' \notin Before
        /\ pc' \in {"synthesise", "replan", "finish"} =>
             pc \in {"synthesise", "replan", "finish"} /\ chunks' = chunks
    BY <1>5 DEF Synthesise, Replan, ReplanClarifies, Requery, Record, Before, evidence
  <2>3. DocsOf(chunks)' = DocsOf(chunks')
    BY DEF DocsOf
  <2>4. EvidenceIsJudged'
    BY <2>1, <2>2, <2>3 DEF EvidenceIsJudged, Unjudged, input
  <2> QED BY <1>s, <2>1, <2>4
<1>6. CASE Finish
  <2> DEFINE shown == CitedSources(AssembleSources(chunks, scores), outcome.cited)
  <2>1. /\ UNCHANGED <<input, dropped, scores>> /\ pc = "finish" /\ pc' = "done"
        /\ result'.sources = shown
    BY <1>6 DEF Finish, Result
  <2>2. Range(shown) \subseteq DocsOf(chunks)
    BY SourcesFacts DEF Typed
  <2> HIDE DEF shown
  <2>3. /\ DocsOf(chunks) \intersect dropped = {}
        /\ DOMAIN scores = {} \/ DocsOf(chunks) \subseteq DOMAIN scores
    BY <2>1 DEF EvidenceIsJudged
  <2>4. JudgedOutIsNotCited' /\ RankedOnOneScale'
    BY <2>1, <2>2, <2>3 DEF JudgedOutIsNotCited, RankedOnOneScale
  <2>5. EvidenceIsJudged'
    BY <2>1 DEF EvidenceIsJudged, Unjudged, Before, input
  <2> QED BY <2>4, <2>5
<1>7. CASE Prune \/ UNCHANGED vars
  <2>1. UNCHANGED <<input, pc, chunks, dropped, scores, result>>
    BY <1>7 DEF Prune, vars, input, evidence
  <2>2. DocsOf(chunks)' = DocsOf(chunks)
    BY <2>1 DEF DocsOf
  <2>3. EvidenceIsJudged'
    BY <2>1, <2>2 DEF EvidenceIsJudged, Unjudged, input
  <2> QED BY <1>s, <2>1, <2>3
<1> QED BY <1>1, <1>2, <1>3, <1>4, <1>5, <1>6, <1>7 DEF Next, Done

-----------------------------------------------------------------------------
(* The filters of a plan                                                   *)

LEMMA DatedInit == Init => DatedQuestionIsDated /\ FiltersNeverHideAll
<1>1. None # "empty_retrieval"
  BY NoneIsNoReason DEF Reasons
<1> QED BY <1>1 DEF Init, DatedQuestionIsDated, FiltersNeverHideAll, Pending

LEMMA DatedNext ==
  ASSUME Typed, DatedQuestionIsDated, [Next]_vars
  PROVE  DatedQuestionIsDated'
<1>1. CASE RetrievePhase
  <2>1. request.query \in Texts /\ request.query # None
    BY SetupFacts, NoneIsNoValue
  <2>2. DateRange[request.query] # <<None, None>> => AnyHasDate(ResolveSpecs(plan, request.ui, request.query, TRUE))
    BY <2>1, SetupFacts, ResolveSpecsFacts DEF Typed
  <2>3. specs' = ResolveSpecs(plan, request.ui, request.query, TRUE) /\ request' = request
    BY <1>1 DEF RetrievePhase, input
  <2>4. DateRange[request'.query] # <<None, None>> => AnyHasDate(specs')
    BY <2>2, <2>3
  <2> QED BY <2>4 DEF DatedQuestionIsDated, AnyHasDate
<1>2. CASE Broaden \/ Prune \/ UNCHANGED vars
  <2>1. specs' = specs /\ request' = request /\ (pc' \in {"gate", "broaden"} => pc \in {"gate", "broaden"})
    BY <1>2 DEF Broaden, Prune, vars, input, evidence
  <2> QED BY <2>1 DEF DatedQuestionIsDated, AnyHasDate
<1>3. CASE \/ Start \/ PlanWithoutModel \/ Plan \/ PlanClarifies \/ Gate
           \/ SkipJudge \/ JudgeKeeps \/ JudgeBails
           \/ Synthesise \/ Replan \/ ReplanClarifies \/ Requery \/ Finish
  <2>1. pc' \notin {"gate", "broaden"}
    BY <1>3 DEF Start, PlanWithoutModel, Plan, PlanClarifies, Gate, SkipJudge, JudgeKeeps, JudgeBails,
                Synthesise, Replan, ReplanClarifies, Requery, Finish, Record
  <2> QED BY <2>1 DEF DatedQuestionIsDated
<1> QED BY <1>1, <1>2, <1>3 DEF Next, Done

LEMMA FiltersNext ==
  ASSUME Typed, Settled, FiltersNeverHideAll, [Next]_vars
  PROVE  FiltersNeverHideAll'
<1>n. None # "empty_retrieval"
  BY NoneIsNoReason DEF Reasons
<1>p. pc # "done" => result.reason # "empty_retrieval"
  BY <1>n DEF Settled, Pending
<1>o. ASSUME result'.reason # "empty_retrieval" PROVE FiltersNeverHideAll'
  BY <1>o DEF FiltersNeverHideAll
<1>1. CASE Broaden
  <2>1. PICK down \in BOOLEAN :
          LET found == Retrieve(ResolveSpecs(BroadenPlan(plan), None, None, FALSE), stored, down)
          IN  /\ outage' = (outage \/ down)
              /\ CASE request.tool = "retrieve" -> pc' = "finish" /\ UNCHANGED result
                   [] request.tool = "answer" /\ found.chunks # <<>> ->
                        pc' = "gate" /\ UNCHANGED result
                   [] OTHER -> pc' = "done" /\ NoMatch("empty_retrieval")
    BY <1>1 DEF Broaden
  <2> DEFINE list == [i \in DOMAIN plan |-> Resolved(plan[i], NoFilters)]
             found == Retrieve(list, stored, down)
  <2>2. ResolveSpecs(BroadenPlan(plan), None, None, FALSE) = list
    BY BroadenedFacts DEF Typed
  <2>3. IsSpecList(list)
    <3>1. IsSpecList(ResolveSpecs(BroadenPlan(plan), None, None, FALSE))
      BY BroadenPlanTyped, ResolveSpecsFacts DEF Typed
    <3> QED BY <2>2, <3>1
  <2>4. UNCHANGED result \/ found.chunks = <<>>
    <3> HIDE DEF list
    <3> QED BY <2>1, <2>2, SetupFacts
  <2>5. CASE UNCHANGED result
    <3>1. pc # "done"
      BY <1>1 DEF Broaden
    <3> QED BY <1>o, <1>p, <2>5, <3>1
  <2>6. CASE found.chunks = <<>>
    <3>1. \A i \in DOMAIN list : /\ VectorHits(list[i], stored, down) = <<>>
                                 /\ KeywordHits(list[i], stored) = <<>>
      <4> HIDE DEF list
      <4> QED BY <2>3, <2>6, RetrieveFacts
    <3>2. \A i \in DOMAIN plan : /\ VectorHits(Resolved(plan[i], NoFilters), stored, down) = <<>>
                                 /\ KeywordHits(Resolved(plan[i], NoFilters), stored) = <<>>
      BY <3>1
    <3>3. ~outage' => down = FALSE
      BY <2>1
    <3>4. plan' = plan /\ stored' = stored
      BY <1>1 DEF Broaden
    <3> QED BY <3>2, <3>3, <3>4 DEF FiltersNeverHideAll
  <2> QED BY <2>4, <2>5, <2>6
<1>2. CASE \/ PlanWithoutModel \/ Plan \/ RetrievePhase \/ SkipJudge \/ JudgeKeeps
           \/ Synthesise \/ Replan \/ ReplanClarifies \/ Requery \/ Prune
  <2>1. result' = result /\ pc # "done"
    BY <1>2 DEF PlanWithoutModel, Plan, CallsPlanner, RetrievePhase, SkipJudge, JudgeKeeps,
                Synthesise, Replan, ReplanClarifies, Requery, Prune
  <2> QED BY <1>o, <1>p, <2>1
<1>3. CASE Start \/ PlanClarifies
  <2>1. (result' = result /\ pc # "done") \/ Clarify
    BY <1>3 DEF Start, PlanClarifies
  <2> QED BY <1>n, <1>o, <1>p, <2>1 DEF Clarify
<1>4. CASE Gate
  <2>1. (result' = result /\ pc # "done") \/ NoMatch("weak_relevance")
    BY <1>4 DEF Gate
  <2> QED BY <1>o, <1>p, <2>1 DEF NoMatch
<1>5. CASE JudgeBails
  <2>1. (result' = result /\ pc # "done") \/ NoMatch("judge_rejected")
    BY <1>5 DEF JudgeBails
  <2> QED BY <1>o, <1>p, <2>1 DEF NoMatch
<1>6. CASE Finish
  <2>1. result'.reason = None
    BY <1>6 DEF Finish, Result
  <2> QED BY <1>n, <1>o, <2>1
<1>7. CASE UNCHANGED vars
  BY <1>7 DEF vars, FiltersNeverHideAll
<1> QED BY <1>1, <1>2, <1>3, <1>4, <1>5, <1>6, <1>7 DEF Next, Done

-----------------------------------------------------------------------------
(* Theorems                                                                *)

LEMMA IInvInit == Init => IInv
BY TypedInit, BudgetInit, SettledInit, EvidenceFitsInit, JudgedInit, DatedInit DEF IInv

LEMMA IInvNext == IInv /\ [Next]_vars => IInv'
<1> SUFFICES ASSUME IInv, [Next]_vars PROVE IInv'
  OBVIOUS
<1>1. Typed' /\ BudgetLeft'
  BY TypedNext, BudgetNext DEF IInv
<1>2. Settled' /\ EndsAnswered'
  BY SettledNext DEF IInv
<1>3. EvidenceFits'
  BY EvidenceFitsNext DEF IInv
<1>4. EvidenceIsJudged' /\ JudgedOutIsNotCited' /\ RankedOnOneScale'
  BY JudgedNext DEF IInv
<1>5. DatedQuestionIsDated' /\ FiltersNeverHideAll'
  BY DatedNext, FiltersNext DEF IInv
<1> QED BY <1>1, <1>2, <1>3, <1>4, <1>5 DEF IInv

\* The inductive invariant holds in every state of every search.
THEOREM SearchInvariant == Spec => []IInv
BY IInvInit, IInvNext, PTL DEF Spec

\* AnswerIsReached, for every settings and request: the search is never cut off
\* by the call budget, and never ends on a request for more.
THEOREM AnswerIsAlwaysReached == Spec => []AnswerIsReached
<1>1. IInv => AnswerIsReached
  BY DEF IInv, BudgetLeft, AnswerIsReached, BudgetIsEnough
<1> QED BY <1>1, SearchInvariant, PTL

LEMMA TypedIsTypeOK == Typed => TypeOK
<1> SUFFICES ASSUME Typed PROVE TypeOK
  OBVIOUS
<1>1. \A i \in DOMAIN plan : plan[i].mode \in {"semantic", "keyword"}
  <2>1. \A i \in DOMAIN plan : plan[i] \in PlannedSpecs
    BY DEF Typed
  <2> QED BY <2>1 DEF PlannedSpecs
<1>2. \A i \in DOMAIN specs : specs[i].mode \in {"semantic", "keyword"}
  BY DEF Typed, IsSpecList, IsSpec
<1>3. \A i \in DOMAIN chunks : chunks[i].id \in Chunks /\ chunks[i].score \in Nat
  <2>1. \A i \in DOMAIN chunks : chunks[i] \in Hits
    BY DEF Typed
  <2> QED BY <2>1 DEF Hits
<1> QED BY <1>1, <1>2, <1>3 DEF Typed, TypeOK, Pcs

LEMMA EvidenceFitsIsBounded == Typed /\ EvidenceFits => EvidenceIsBounded
<1> SUFFICES ASSUME Typed, EvidenceFits PROVE EvidenceIsBounded
  OBVIOUS
<1>1. refinements \in Nat /\ TopK \in Nat /\ MaxPerDoc \in Nat
  BY SetupFacts, LimitsAssumption DEF Typed
<1>2. Passes \in Nat /\ Passes <= 1 + refinements
  BY <1>1 DEF Passes
<1>3. \A p, q, k, n \in Nat : p <= q /\ n <= p * k => n <= q * k
  <2> SUFFICES ASSUME NEW p \in Nat, NEW q \in Nat, NEW k \in Nat, NEW n \in Nat, p <= q, n <= p * k
               PROVE  n <= q * k
    OBVIOUS
  <2>1. q = p + (q - p) /\ q - p \in Nat
    OBVIOUS
  <2>2. \A a, b \in Nat : (a + b) * k = a * k + b * k /\ b * k \in Nat /\ a * k \in Nat
    OBVIOUS
  <2> QED BY <2>1, <2>2
<1>4. Cardinality(DocsOf(chunks)) \in Nat /\ \A d : PerDoc(chunks, d) \in Nat
  BY EvidenceFacts DEF Typed
<1>5. 1 + refinements \in Nat
  BY <1>1
<1>6. Cardinality(DocsOf(chunks)) <= (1 + refinements) * TopK
  <2>1. Cardinality(DocsOf(chunks)) <= Passes * TopK
    BY DEF EvidenceFits
  <2> QED BY <1>1, <1>2, <1>3, <1>4, <1>5, <2>1
<1>7. ASSUME NEW d \in Docs PROVE PerDoc(chunks, d) <= (1 + refinements) * MaxPerDoc
  <2>1. PerDoc(chunks, d) <= Passes * MaxPerDoc
    BY DEF EvidenceFits, PerDoc
  <2> QED BY <1>1, <1>2, <1>3, <1>4, <1>5, <2>1
<1> QED BY <1>6, <1>7 DEF EvidenceIsBounded, PerDoc

\* SourcesAreSound, for every index and every verdict: the evidence is bounded
\* by the passes, no document the last judge dropped is a source, and the
\* sources are ranked on one scale.
THEOREM SourcesAreAlwaysSound == Spec => []SourcesAreSound
<1>1. IInv => SourcesAreSound
  BY TypedIsTypeOK, EvidenceFitsIsBounded DEF IInv, SourcesAreSound
<1> QED BY <1>1, SearchInvariant, PTL

\* PlansServeTheQuestion, for every reply of the planner: a question that names
\* a period is searched in it, and no filter is the reason why nothing is found.
THEOREM PlansAlwaysServe == Spec => []PlansServeTheQuestion
<1>1. IInv => PlansServeTheQuestion
  BY DEF IInv, PlansServeTheQuestion
<1> QED BY <1>1, SearchInvariant, PTL

\* NeverDowngraded: once the synthesiser has replied, no judge turns the search
\* into one that found nothing.
THEOREM SearchIsNeverDowngraded == Spec => NeverDowngraded
<1>1. IInv /\ [Next]_vars => [outcome.kind # "none" => result'.kind # "no_match"]_vars
  <2> SUFFICES ASSUME IInv, [Next]_vars, outcome.kind # "none", result'.kind = "no_match" PROVE UNCHANGED vars
    OBVIOUS
  <2>1. Settled' /\ Settled
    BY IInvNext DEF IInv
  <2>2. outcome'.kind = "none"
    BY <2>1 DEF Settled
  <2>3. CASE Synthesise
    <3>1. result' = Pending
      BY <2>1, <2>3 DEF Synthesise, Settled
    <3> QED BY <3>1 DEF Pending
  <2>4. CASE Next /\ ~Synthesise
    <3>1. outcome' = outcome
      BY <2>4 DEF Next, Start, PlanWithoutModel, Plan, PlanClarifies, RetrievePhase, Broaden, Gate, SkipJudge,
           JudgeKeeps, JudgeBails, Replan, ReplanClarifies, Requery, Finish, Prune, Done, vars
    <3> QED BY <2>2, <3>1
  <2> QED BY <2>3, <2>4
<1> QED BY <1>1, SearchInvariant, PTL DEF Spec, NeverDowngraded
=====
