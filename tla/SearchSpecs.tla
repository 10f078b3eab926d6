----------------------------- MODULE SearchSpecs -----------------------------
(***************************************************************************)
(* The pure half of the search pipeline: what a plan of the language model *)
(* becomes before the index is asked, and what the answers of the index    *)
(* become before they are judged.                                          *)
(*                                                                         *)
(*   src/src/search/retriever.py     resolution, recall twins, fusion      *)
(*   src/src/search/refinement.py    the plans the code writes itself      *)
(*   src/src/store/reader/           filters and ranked queries            *)
(*   src/src/search/sources.py       ranking of the sources                *)
(*                                                                         *)
(* A text (query, phrase, name) is an opaque value.  What the code computes*)
(* from its characters is a constant function of it: the form that ignores *)
(* case and punctuation (Norm), its content words (Words), the ISO date it *)
(* is (IsoDay), the period it names (DateRange), the chunks nearest to its *)
(* vector (Nearest).  Days are numbers, so that they compare like ISO      *)
(* strings.  A score of rank fusion is scaled to stay a whole number.      *)
(***************************************************************************)
EXTENDS Lists, FiniteSetsExt, Functions

CONSTANTS
  None,          \* Python's None
  Corpus,        \* document -> [who, kind, tags, day], the documents table
  Owner,         \* chunk -> its document, the chunks table
  People,        \* the taxonomy entries [id, name] of each kind, in the
  Kinds,         \*   order list_facets returns them
  Tags,
  Norm,          \* name -> _normalise(name)
  Words,         \* name -> _content_tokens(name)
  IsoDay,        \* text -> normalise_iso_date(text), or None
  DateRange,     \* text -> extract_date_range(text), or <<None, None>>
  Nearest,       \* text -> every chunk, the nearest vector first
  Similar,       \* text -> the chunks whose similarity reaches the relevance gate
  Lexicon,       \* keyword -> the chunks that hold it
  Bm25,          \* every chunk, the best keyword rank first
  TopK,          \* SEARCH_TOP_K
  PerSpecK,      \* SEARCH_PER_SPEC_K
  MaxPerDoc,     \* SEARCH_MAX_CHUNKS_PER_DOC
  MaxSpecs       \* SEARCH_PLANNER_MAX_SPECS

Docs == DOMAIN Corpus
Chunks == DOMAIN Owner
Texts == DOMAIN Nearest
Keywords == DOMAIN Lexicon
Names == DOMAIN Norm
Days == Int \union {None}

\* None is no value of any other kind.
ASSUME NoneIsNoValue == None \notin Int /\ None \notin Texts

\* chunks.document_id is a foreign key; a ranked query lists chunks.
ASSUME IndexAssumption ==
  /\ Owner \in [Chunks -> Docs]
  /\ Nearest \in [Texts -> Seq(Chunks)]
  /\ Bm25 \in Seq(Chunks)

\* Days are comparable.
ASSUME DatesAssumption ==
  /\ IsoDay \in [Texts -> Days]
  /\ DateRange \in [Texts -> Days \X Days]

\* _require_at_least_one: the settings that bound a pass are positive.
ASSUME LimitsAssumption ==
  TopK \in Nat \ {0} /\ PerSpecK \in Nat \ {0} /\ MaxPerDoc \in Nat \ {0} /\ MaxSpecs \in Nat \ {0}

NoGuess == [who |-> None, kind |-> None, tags |-> <<>>, from |-> None, to |-> None]
NoFilters == [who |-> None, kind |-> None, tags |-> {}, from |-> None, to |-> None]

\* FilterCandidates, PlannedSpec and SearchFilters.
Guesses == [who : Names \union {None}, kind : Names \union {None}, tags : Seq(Names),
            from : Texts \union {None}, to : Texts \union {None}]
PlannedSpecs == [mode : {"semantic", "keyword"}, text : Texts \union {None},
                 words : SUBSET Keywords, guess : Guesses]
Filters == [who : Int \union {None}, kind : Int \union {None}, tags : SUBSET Int,
            from : Days, to : Days]

-----------------------------------------------------------------------------
(* Names and dates *)

\* The first entry with one of the names, or None.
FirstWith(entries, names) ==
  LET hits == {i \in DOMAIN entries : entries[i].name \in names}
  IN  IF hits = {} THEN None ELSE entries[Min(hits)].id

\* _match_name: the exact name, else the same name up to case and punctuation,
\* else the only entry made of the same words; never one of several.
MatchName(name, entries) ==
  LET exact == FirstWith(entries, {name})
      same  == FirstWith(entries, {n \in DOMAIN Norm : Norm[n] = Norm[name]})
      loose == {i \in DOMAIN entries : Words[entries[i].name] = Words[name]}
  IN  CASE exact # None -> exact
        [] exact = None /\ same # None -> same
        [] exact = None /\ same = None /\ Words[name] # {} /\ Cardinality(loose) = 1 ->
             entries[CHOOSE i \in loose : TRUE].id
        [] OTHER -> None

Guessed(name, entries) == IF name = None THEN None ELSE MatchName(name, entries)

\* _resolve_dates: ISO bounds are authoritative, a malformed one is dropped;
\* without any, the first guess is read as a period.
ResolveDates(guess) ==
  LET day(text) == IF text = None THEN None ELSE IsoDay[text]
      raw == IF guess.from # None THEN guess.from ELSE guess.to
  IN  CASE day(guess.from) # None \/ day(guess.to) # None ->
             <<day(guess.from), day(guess.to)>>
        [] day(guess.from) = None /\ day(guess.to) = None /\ raw # None -> DateRange[raw]
        [] OTHER -> <<None, None>>

\* _later_iso and _earlier_iso: None is no bound.
LaterIso(left, right) ==
  CASE left = None -> right [] right = None -> left [] OTHER -> Max({left, right})
EarlierIso(left, right) ==
  CASE left = None -> right [] right = None -> left [] OTHER -> Min({left, right})

\* _intersect: the filters of the user narrow those of a spec.
Intersect(f, ui) ==
  IF ui = None THEN f
  ELSE [who  |-> IF ui.who # None THEN ui.who ELSE f.who,
        kind |-> IF ui.kind # None THEN ui.kind ELSE f.kind,
        tags |-> f.tags \union ui.tags,
        from |-> LaterIso(f.from, ui.from),
        to   |-> EarlierIso(f.to, ui.to)]

-----------------------------------------------------------------------------
(* Plans.  A planned spec holds guesses, a resolved one holds filters. *)

Semantic(text) == [mode |-> "semantic", text |-> text, words |-> {}]

\* build_broad_semantic_plan: the plan of a fallback and of a trivial query.
BroadPlan(query) == << [mode |-> "semantic", text |-> query, words |-> {}, guess |-> NoGuess] >>

\* raw_rag_plan: a vector pass and a keyword pass on the words of the query.
RawRagPlan(query, words) ==
  BroadPlan(query)
    \o << [mode |-> "keyword", text |-> None, words |-> words, guess |-> NoGuess] >>

\* Mutant: the guesses survive the broadening.
MutantKeepsGuesses(plan) == plan

\* broaden_plan: every guess is cleared.
BroadenPlan(plan) == [i \in DOMAIN plan |-> [plan[i] EXCEPT !.guess = NoGuess]]

\* _build_retrieval_plan: no more specs than asked for, and never none.
BuildPlan(specs, query) ==
  IF specs = <<>> THEN BroadPlan(query) ELSE Take(specs, MaxSpecs)

Resolved(spec, filters) ==
  [mode |-> spec.mode, text |-> spec.text, words |-> spec.words, filters |-> filters]

\* _resolve_one_spec
ResolveOneSpec(spec, ui) ==
  LET g == spec.guess
      dates == ResolveDates(g)
  IN  Resolved(spec, Intersect(
        [who  |-> Guessed(g.who, People),
         kind |-> Guessed(g.kind, Kinds),
         tags |-> {Guessed(g.tags[i], Tags) : i \in DOMAIN g.tags} \ {None},
         from |-> dates[1], to |-> dates[2]], ui))

HasFilter(f) == f # NoFilters
HasDate(f) == f.from # None \/ f.to # None
AnyHasDate(specs) == \E i \in DOMAIN specs : HasDate(specs[i].filters)

\* _make_safety_net_spec: a dated copy of the first semantic spec, else of the
\* first spec, else of the broad search of the query.
SafetyNetSpec(specs, query, range, ui) ==
  LET semantic == {i \in DOMAIN specs : specs[i].mode = "semantic"}
      base == CASE semantic # {} -> specs[Min(semantic)]
                [] semantic = {} /\ specs # <<>> -> specs[1]
                [] OTHER -> Resolved(Semantic(query), NoFilters)
      dated == [base.filters EXCEPT !.from = LaterIso(@, range[1]),
                                    !.to   = EarlierIso(@, range[2])]
  IN  Resolved(base, Intersect(dated, ui))

\* _append_unfiltered_twins: each filtered spec gets a twin without filters,
\* once, as long as there is room; the specs themselves always stay.
AppendTwins(specs) ==
  LET filtered == Kept(specs, {spec \in Range(specs) : HasFilter(spec.filters)})
      twins == FirstSeen([i \in DOMAIN filtered |-> Resolved(filtered[i], NoFilters)])
      room  == Max({0, MaxSpecs - Len(specs)})
  IN  specs \o Take(Kept(twins, Range(twins) \ Range(specs)), room)

\* resolve_specs.  query = None turns the safety net off, twins is FALSE when
\* the caller gives no max_specs.
ResolveSpecs(plan, ui, query, twins) ==
  LET named == [i \in DOMAIN plan |-> ResolveOneSpec(plan[i], ui)]
      range == IF query = None THEN <<None, None>> ELSE DateRange[query]
      netted == IF AnyHasDate(named) \/ range = <<None, None>> THEN named
                ELSE Append(named, SafetyNetSpec(named, query, range, ui))
  IN  IF twins THEN AppendTwins(netted) ELSE netted

-----------------------------------------------------------------------------
(* The index *)

\* build_filters: the rows of the documents table that the filters admit.  A
\* document without a date is outside every dated search.
Admits(f, d) ==
  LET row == Corpus[d]
  IN  /\ f.who # None => row.who = f.who
      /\ f.kind # None => row.kind = f.kind
      /\ f.tags \subseteq row.tags
      /\ f.from # None => row.day # None /\ row.day >= f.from
      /\ f.to # None => row.day # None /\ row.day < f.to + 1

Limit(hits) == Take(hits, PerSpecK)

\* vector_search and keyword_search: the filters apply before the ranking, the
\* keywords are joined by AND.  stored is the set of documents in the index.
VectorSearch(text, f, stored) ==
  Limit(Kept(Nearest[text], {c \in Chunks : Owner[c] \in stored /\ Admits(f, Owner[c])}))
KeywordSearch(words, f, stored) ==
  IF words = {} THEN <<>>
  ELSE Limit(Kept(Bm25, {c \in Chunks : /\ Owner[c] \in stored
                                         /\ Admits(f, Owner[c])
                                         /\ \A w \in words : c \in Lexicon[w]}))

\* The searches of a pass.  No embedding came back (down) means no vector pass.
VectorHits(spec, stored, down) ==
  IF spec.mode # "semantic" \/ spec.text = None \/ down THEN <<>>
  ELSE VectorSearch(spec.text, spec.filters, stored)
KeywordHits(spec, stored) ==
  IF spec.mode # "keyword" THEN <<>> ELSE KeywordSearch(spec.words, spec.filters, stored)

-----------------------------------------------------------------------------
(* Rank fusion *)

\* 1 / (60 + rank), scaled: exact for the first four ranks.
Scale == 61 * 62 * 63 * 64
Contribution(rank) == Scale \div (60 + rank)

\* _fuse_with_rrf: a chunk scores once in every list that holds it.
FusedScore(lists, c) ==
  Total([i \in DOMAIN lists |->
    LET places == {k \in DOMAIN lists[i] : lists[i][k] = c}
    IN  IF places = {} THEN 0 ELSE Contribution(Min(places))])

\* _top_document_ids: the documents of the best chunks; a tie goes to the
\* document that was seen first.
TopDocs(fused, score) ==
  LET docs == FirstSeen([i \in DOMAIN fused |-> Owner[fused[i]]])
      best == [d \in Range(docs) |-> Max({score[c] : c \in {x \in Range(fused) : Owner[x] = d}})]
  IN  Range(Take(SortedBy(docs, best), TopK))

\* _build_capped_chunks: at most MaxPerDoc chunks of one document.
Capped(ranked) ==
  AtPlaces(ranked, {i \in DOMAIN ranked :
    Cardinality({j \in 1..(i - 1) : Owner[ranked[j]] = Owner[ranked[i]]}) < MaxPerDoc})

\* Retriever.retrieve: the chunks with their scores, best first, and the signal
\* the relevance gate reads.
Retrieve(specs, stored, down) ==
  LET vector  == [i \in DOMAIN specs |-> VectorHits(specs[i], stored, down)]
      keyword == [i \in DOMAIN specs |-> KeywordHits(specs[i], stored)]
      lists   == vector \o keyword
      fused   == FirstSeen(Chained(lists))
      score   == [c \in Range(fused) |-> FusedScore(lists, c)]
      top     == TopDocs(fused, score)
      kept    == Capped(SortedBy(Kept(fused, {c \in Chunks : Owner[c] \in top}), score))
      near    == \E i \in DOMAIN specs : \E c \in Range(vector[i]) : c \in Similar[specs[i].text]
  IN  [chunks |-> [i \in DOMAIN kept |-> [id |-> kept[i], score |-> score[kept[i]]]],
       signal |-> [vector  |-> CASE \A i \in DOMAIN vector : vector[i] = <<>> -> "none"
                                 [] near -> "close"
                                 [] OTHER -> "far",
                   keyword |-> \E i \in DOMAIN keyword : keyword[i] # <<>>]]

\* _is_irrelevant: both signals must be poor; a missing one is no evidence.
IsIrrelevant(signal) == signal.vector = "far" /\ ~signal.keyword

-----------------------------------------------------------------------------
(* Chunk lists and sources *)

DocsOf(chunks) == {Owner[chunks[i].id] : i \in DOMAIN chunks}

\* merge_chunks: the first occurrence of a chunk stays, with its score.
MergeChunks(previous, new) ==
  LET known == {previous[i].id : i \in DOMAIN previous}
      fresh == Kept(new, {c \in Range(new) : c.id \notin known})
      merged == previous \o fresh
  IN  SortedBy(merged, [c \in Range(merged) |-> c.score])

\* _specs_equal: the specs search for the same, whatever their rationale.
SpecsEqual(left, right) == left = right

\* assemble_sources: one source per document, by the score of the judge where
\* there is one and by the fused score among equals.  A document that left the
\* index keeps its place.
AssembleSources(chunks, scores) ==
  LET docs == FirstSeen([i \in DOMAIN chunks |-> Owner[chunks[i].id]])
      best == [d \in Range(docs) |-> Max({c.score : c \in {x \in Range(chunks) : Owner[x.id] = d}})]
      key  == [d \in Range(docs) |-> IF d \in DOMAIN scores THEN scores[d] ELSE best[d]]
  IN  SortedBy(SortedBy(docs, best), key)

\* _cited_sources: the cited ones, or all when none of them was cited.
CitedSources(sources, citations) ==
  LET cited == Kept(sources, citations)
  IN  IF cited = <<>> THEN sources ELSE cited
=============================================================================
