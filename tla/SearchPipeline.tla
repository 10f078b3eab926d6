--------------------------- MODULE SearchPipeline ----------------------------
(***************************************************************************)
(* One search, from the question to the answer: SearchCore.answer without  *)
(* its cache, and SearchCore.retrieve, the search without a language model.*)
(*                                                                         *)
(*   src/src/search/core.py         the bounded loop and its gates         *)
(*   src/src/search/planner.py      the plan, or a request to clarify      *)
(*   src/src/search/judge.py        which documents are relevant           *)
(*   src/src/search/synthesizer.py  the answer, or a request for more      *)
(*                                                                         *)
(* Each call of a model and each pass over the index is a step, because    *)
(* each can come back with anything: a model answers well, badly or not at *)
(* all, the embedding service is down for one pass and up for the next,    *)
(* and the indexer prunes a document between two passes.  The settings and *)
(* the request are chosen at the start.                                    *)
(***************************************************************************)
EXTENDS SearchSpecs

CONSTANTS
  Setups,      \* the settings: [refinements, judge, gate, adequacy, skip]
  Requests,    \* the requests: [tool, query, ui, words]
  TooShort,    \* the queries below SEARCH_MIN_QUERY_CHARS
  Trivial,     \* the queries that is_trivial_query accepts
  Replies,     \* the lists of specs a planner may reply with
  MaxPrunes    \* bound: documents that leave the index during the search

ASSUME SetupsAssumption ==
  Setups \subseteq [refinements : Nat, judge : BOOLEAN, gate : BOOLEAN, adequacy : BOOLEAN, skip : BOOLEAN]

ASSUME RequestsAssumption ==
  Requests \subseteq [tool : {"answer", "retrieve"}, query : Texts, ui : Filters \union {None},
                     words : SUBSET Keywords]

ASSUME RepliesAssumption == Replies \subseteq Seq(PlannedSpecs)

\* NoMatchReason
Reasons == {"empty_retrieval", "weak_relevance", "judge_rejected"}
ASSUME NoneIsNoReason == None \notin Reasons

VARIABLES
  setup, request,
  pc,          \* the step that comes next
  plan,        \* planned specs
  specs,       \* the resolved specs that were tried last
  chunks,      \* the evidence: sequence of [id, score]
  signal,      \* what the relevance gate reads
  scores,      \* judge_scores
  dropped,     \* the documents the last verdict dropped without dropping all
  calls,       \* _LlmBudget.count
  refinements, \* passes of the refinement loop
  outcome,     \* the last reply of the synthesiser
  outage,      \* the embeddings failed in a pass of the first retrieval
  stored,      \* the documents in the index
  result       \* the SearchResult

vars == <<setup, request, pc, plan, specs, chunks, signal, scores, dropped, calls,
          refinements, outcome, outage, stored, result>>
input == <<setup, request>>
evidence == <<specs, chunks, signal>>

Nothing == [kind |-> "none", cited |-> {}]
NeedsMore == [kind |-> "needs_more", cited |-> {}]
Answered(docs) == [kind |-> "answered", cited |-> docs]
Pending == [kind |-> "pending", reason |-> None, sources |-> <<>>]

TypeOK ==
  /\ setup \in Setups /\ request \in Requests
  /\ pc \in {"start", "plan", "retrieve", "broaden", "gate", "judge", "synthesise",
             "replan", "requery", "finish", "done", "overspent"}
  /\ \A i \in DOMAIN plan : plan[i].mode \in {"semantic", "keyword"}
  /\ \A i \in DOMAIN specs : specs[i].mode \in {"semantic", "keyword"}
  /\ \A i \in DOMAIN chunks : chunks[i].id \in Chunks /\ chunks[i].score \in Nat
  /\ signal.vector \in {"none", "close", "far"} /\ signal.keyword \in BOOLEAN
  /\ DOMAIN scores \subseteq Docs /\ dropped \subseteq Docs
  /\ calls \in Nat /\ refinements \in 0..setup.refinements
  /\ outcome.kind \in {"none", "needs_more", "answered"} /\ outcome.cited \subseteq Docs
  /\ outage \in BOOLEAN /\ stored \subseteq Docs
  /\ result.kind \in {"pending", "answered", "clarify", "no_match"}

Init ==
  /\ setup \in Setups /\ request \in Requests
  /\ pc = "start"
  /\ plan = <<>> /\ specs = <<>> /\ chunks = <<>>
  /\ signal = [vector |-> "none", keyword |-> FALSE]
  /\ scores = <<>> /\ dropped = {}
  /\ calls = 0 /\ refinements = 0
  /\ outcome = Nothing
  /\ outage = FALSE
  /\ stored = Docs
  /\ result = Pending

-----------------------------------------------------------------------------
(* The budget *)

\* Mutant: the judge of a refinement is not counted.
MutantForgetsRejudge == 2 + (IF setup.judge THEN 1 ELSE 0) + 2 * setup.refinements

\* _max_llm_calls
MaxCalls ==
  LET j == IF setup.judge THEN 1 ELSE 0 IN 2 + j + setup.refinements * (2 + j)

\* _LlmBudget.record: the call is counted before it is made, and the search
\* fails when the count passes the limit.
Record(next) ==
  /\ calls' = calls + 1
  /\ pc' = IF calls + 1 > MaxCalls THEN "overspent" ELSE next

\* _clarify_result, _no_match_result, _build_result
Clarify == result' = [kind |-> "clarify", reason |-> None, sources |-> <<>>]
NoMatch(reason) == result' = [kind |-> "no_match", reason |-> reason, sources |-> <<>>]
Result(sources) == result' = [kind |-> "answered", reason |-> None, sources |-> sources]

-----------------------------------------------------------------------------
(* Plan *)

\* Layer 0: a degenerate query costs nothing.
Start ==
  /\ pc = "start"
  /\ IF request.query \in TooShort
       THEN pc' = "done" /\ Clarify
       ELSE pc' = "plan" /\ UNCHANGED result
  /\ UNCHANGED <<input, plan, evidence, scores, dropped, calls, refinements, outcome, outage, stored>>

\* The plans that cost no call: the one of the retrieve tool, and the one of a
\* trivial query when its planner is skipped.
PlanWithoutModel ==
  /\ pc = "plan"
  /\ \/ request.tool = "retrieve" /\ plan' = RawRagPlan(request.query, request.words)
     \/ /\ request.tool = "answer" /\ setup.skip /\ request.query \in Trivial
        /\ plan' = BroadPlan(request.query)
  /\ pc' = "retrieve"
  /\ UNCHANGED <<input, evidence, scores, dropped, calls, refinements, outcome, outage, stored, result>>

CallsPlanner == pc = "plan" /\ request.tool = "answer"
                /\ ~(setup.skip /\ request.query \in Trivial)

\* What QueryPlanner makes of a reply: a list of specs becomes a plan, anything
\* that cannot be read becomes the broad plan, never a request to clarify.
PlansOfReply == {BuildPlan(r, request.query) : r \in Replies} \union {BroadPlan(request.query)}

Plan ==
  /\ CallsPlanner
  /\ Record("retrieve")
  /\ plan' \in PlansOfReply
  /\ UNCHANGED <<input, evidence, scores, dropped, refinements, outcome, outage, stored, result>>

\* Layer 1: the planner may ask the user to clarify, if the gate is on.
PlanClarifies ==
  /\ CallsPlanner /\ setup.adequacy
  /\ Record("done")
  /\ Clarify
  /\ UNCHANGED <<input, plan, evidence, scores, dropped, refinements, outcome, outage, stored>>

-----------------------------------------------------------------------------
(* Retrieve *)

\* _retrieve_phase: resolve the plan and search; down is an outage of the
\* embedding service, which leaves the pass without its vector searches.
RetrievePhase ==
  /\ pc = "retrieve"
  /\ specs' = ResolveSpecs(plan, request.ui, request.query, TRUE)
  /\ \E down \in BOOLEAN :
       LET found == Retrieve(specs', stored, down)
       IN  /\ chunks' = found.chunks /\ signal' = found.signal
           /\ outage' = down
           /\ pc' = IF found.chunks = <<>> THEN "broaden"
                    ELSE IF request.tool = "retrieve" THEN "finish" ELSE "gate"
  /\ UNCHANGED <<input, plan, scores, dropped, calls, refinements, outcome, stored, result>>

\* _retrieve_with_broaden: an empty pass is repeated once without any filter,
\* those of the user included.
Broaden ==
  /\ pc = "broaden"
  /\ \E down \in BOOLEAN :
       LET found == Retrieve(ResolveSpecs(BroadenPlan(plan), None, None, FALSE), stored, down)
       IN  /\ chunks' = found.chunks /\ signal' = found.signal
           /\ outage' = (outage \/ down)
           /\ CASE request.tool = "retrieve" -> pc' = "finish" /\ UNCHANGED result
                [] request.tool = "answer" /\ found.chunks # <<>> ->
                     pc' = "gate" /\ UNCHANGED result
                [] OTHER -> pc' = "done" /\ NoMatch("empty_retrieval")
  /\ UNCHANGED <<input, plan, specs, scores, dropped, calls, refinements, outcome, stored>>

\* Layer 2: a weak signal ends the search before the first billed answer.
Gate ==
  /\ pc = "gate"
  /\ IF setup.gate /\ IsIrrelevant(signal)
       THEN pc' = "done" /\ NoMatch("weak_relevance")
       ELSE pc' = "judge" /\ UNCHANGED result
  /\ UNCHANGED <<input, plan, evidence, scores, dropped, calls, refinements, outcome, outage, stored>>

-----------------------------------------------------------------------------
(* Judge *)

SkipJudge ==
  /\ pc = "judge" /\ ~setup.judge
  /\ pc' = "synthesise"
  /\ UNCHANGED <<input, plan, evidence, scores, dropped, calls, refinements, outcome, outage, stored, result>>

\* A verdict has a line for every candidate: one the model left out is kept
\* with score 0, and a reply that cannot be read keeps all with score 1.
Verdicts ==
  LET docs == DocsOf(chunks)
  IN  {[keep |-> k, score |-> s] : k \in SUBSET docs, s \in [docs -> {0, Scale}]}

\* scores are overwritten, never removed.
Rescored(v) ==
  [d \in DOMAIN v.score \union DOMAIN scores |->
     IF d \in DOMAIN v.score THEN v.score[d] ELSE scores[d]]

\* Mutant: the verdict is recorded, the evidence stays.
MutantKeepsDropped ==
  /\ pc = "judge" /\ setup.judge
  /\ Record("synthesise")
  /\ \E v \in Verdicts :
       /\ v.keep # {}
       /\ scores' = Rescored(v)
       /\ dropped' = DocsOf(chunks) \ v.keep
  /\ UNCHANGED <<input, plan, evidence, refinements, outcome, outage, stored, result>>

\* _judge_and_filter: the documents the verdict drops leave the evidence.
JudgeKeeps ==
  /\ pc = "judge" /\ setup.judge
  /\ Record("synthesise")
  /\ \E v \in Verdicts :
       /\ v.keep # {}
       /\ scores' = Rescored(v)
       /\ chunks' = Kept(chunks, {c \in Range(chunks) : Owner[c.id] \in v.keep})
       /\ dropped' = DocsOf(chunks) \ v.keep
  /\ UNCHANGED <<input, plan, specs, signal, refinements, outcome, outage, stored, result>>

\* Mutant: every judge that drops all ends the search.
MutantBailsAlways ==
  /\ pc = "judge" /\ setup.judge
  /\ Record("done")
  /\ \E v \in Verdicts : v.keep = {} /\ scores' = Rescored(v)
  /\ dropped' = {}
  /\ IF pc' = "done" THEN NoMatch("judge_rejected") ELSE UNCHANGED result
  /\ UNCHANGED <<input, plan, evidence, refinements, outcome, outage, stored>>

\* Layer 3: every document dropped.  The first judge ends the search, one in a
\* refinement is overruled: the answer is given from the merged evidence.
JudgeBails ==
  /\ pc = "judge" /\ setup.judge
  /\ Record(IF outcome = Nothing THEN "done" ELSE "synthesise")
  /\ \E v \in Verdicts : v.keep = {} /\ scores' = Rescored(v)
  /\ dropped' = {}
  /\ IF pc' = "done" THEN NoMatch("judge_rejected") ELSE UNCHANGED result
  /\ UNCHANGED <<input, plan, evidence, refinements, outcome, outage, stored>>

-----------------------------------------------------------------------------
(* Synthesise and refine *)

\* The mode of the next synthesis: the first one explores, the one of the last
\* refinement must answer.
Final == refinements >= 1 /\ refinements >= setup.refinements

\* Synthesizer: an answer with the citations it made, right or wrong; a request
\* for more, or a reply that cannot be read, which the final mode turns into an
\* answer without citations.
SynthesisOutcomes ==
  {Answered(docs) : docs \in SUBSET Docs} \union (IF Final THEN {} ELSE {NeedsMore})

Synthesise ==
  /\ pc = "synthesise"
  /\ outcome' \in SynthesisOutcomes
  /\ Record(IF outcome' = NeedsMore /\ refinements < setup.refinements THEN "replan" ELSE "finish")
  /\ UNCHANGED <<input, plan, evidence, scores, dropped, refinements, outage, stored, result>>

\* _refine: plan again for what is missing.  A plan that searches for the same
\* things is a no-op: the evidence stays and only the answer is written again.
Replan ==
  /\ pc = "replan"
  /\ refinements' = refinements + 1
  /\ \E new \in PlansOfReply :
       LET resolved == ResolveSpecs(new, request.ui, None, TRUE)
       IN  IF SpecsEqual(resolved, specs)
             THEN Record("synthesise") /\ UNCHANGED specs
             ELSE Record("requery") /\ specs' = resolved
  /\ UNCHANGED <<input, plan, chunks, signal, scores, dropped, outcome, outage, stored, result>>

\* A request to clarify is ignored here.
ReplanClarifies ==
  /\ pc = "replan" /\ setup.adequacy
  /\ refinements' = refinements + 1
  /\ Record("synthesise")
  /\ UNCHANGED <<input, plan, evidence, scores, dropped, outcome, outage, stored, result>>

\* The new chunks join the evidence and all of it is judged again.
Requery ==
  /\ pc = "requery"
  /\ \E down \in BOOLEAN :
       chunks' = MergeChunks(chunks, Retrieve(specs, stored, down).chunks)
  /\ pc' = "judge"
  /\ UNCHANGED <<input, plan, specs, signal, scores, dropped, calls, refinements, outcome, outage, stored, result>>

\* The sources of the answer: those it cites, the strongest first.
Finish ==
  /\ pc = "finish"
  /\ Result(CitedSources(AssembleSources(chunks, scores), outcome.cited))
  /\ pc' = "done"
  /\ UNCHANGED <<input, plan, evidence, scores, dropped, calls, refinements, outcome, outage, stored>>

\* The indexer removes a document that left the archive.
Prune ==
  /\ pc # "done" /\ Cardinality(Docs \ stored) < MaxPrunes
  /\ \E d \in stored : stored' = stored \ {d}
  /\ UNCHANGED <<input, pc, plan, evidence, scores, dropped, calls, refinements, outcome, outage, result>>

Done == pc \in {"done", "overspent"} /\ UNCHANGED vars

Next ==
  \/ Start \/ PlanWithoutModel \/ Plan \/ PlanClarifies
  \/ RetrievePhase \/ Broaden \/ Gate
  \/ SkipJudge \/ JudgeKeeps \/ JudgeBails
  \/ Synthesise \/ Replan \/ ReplanClarifies \/ Requery \/ Finish
  \/ Prune \/ Done

Spec == Init /\ [][Next]_vars

-----------------------------------------------------------------------------
(* Properties *)

\* No order of refinements, no-op passes and judgements exceeds the number of
\* model calls computed from the settings: the search never fails for the
\* budget (LlmBudgetExceededError "is unreachable by SearchCore's own loop").
BudgetIsEnough == pc # "overspent"

\* A document that the last judge dropped, while it kept others, is never a
\* source of the answer, even when the answer cites it or a later pass found it
\* again.
JudgedOutIsNotCited == Range(result.sources) \intersect dropped = {}

\* With refinements allowed, a search that reaches the synthesiser ends with an
\* answer: the last pass may not ask for more.
EndsAnswered ==
  (result.kind = "answered" /\ request.tool = "answer" /\ setup.refinements > 0)
    => outcome.kind = "answered"

\* The sources of one answer are ranked on one scale: if the judge scored one
\* of them it scored all, whatever pass brought them in.
RankedOnOneScale ==
  LET sources == Range(result.sources)
  IN  sources \intersect DOMAIN scores = {} \/ sources \subseteq DOMAIN scores

\* A question that names a period reaches at least one search bound to a date,
\* even when the planner failed or returned nothing about it.
DatedQuestionIsDated ==
  (pc \in {"gate", "broaden"} /\ DateRange[request.query] # <<None, None>>)
    => AnyHasDate(specs)

\* "Nothing found" is never the fault of a filter: with the embeddings up, no
\* search of the plan finds anything in the index when it carries no filter.
FiltersNeverHideAll ==
  (result.reason = "empty_retrieval" /\ ~outage /\ stored = Docs) =>
    \A i \in DOMAIN plan :
      /\ VectorHits(Resolved(plan[i], NoFilters), stored, FALSE) = <<>>
      /\ KeywordHits(Resolved(plan[i], NoFilters), stored) = <<>>

\* The evidence handed to a model is bounded: every pass adds at most TopK
\* documents and MaxPerDoc chunks of each.
EvidenceIsBounded ==
  LET passes == 1 + refinements
  IN  /\ Cardinality(DocsOf(chunks)) <= passes * TopK
      /\ \A d \in Docs : Cardinality({i \in DOMAIN chunks : Owner[chunks[i].id] = d})
                           <= passes * MaxPerDoc

\* Once evidence was good enough to write an answer from, the search does not
\* fall back to "no match", whatever a later judge says.
NeverDowngraded == [][outcome.kind # "none" => result'.kind # "no_match"]_vars

\* A search comes to an answer: it is never cut off by the budget, and never
\* ends on a request for more.
AnswerIsReached == BudgetIsEnough /\ EndsAnswered

\* The sources of an answer come from bounded evidence, were not judged out, and
\* are ranked on one scale, whatever passes brought them together.
SourcesAreSound == TypeOK /\ EvidenceIsBounded /\ JudgedOutIsNotCited /\ RankedOnOneScale

\* The filters the code puts into a plan serve the question: a period it names
\* becomes one, and a guess that finds nothing is taken back.
PlansServeTheQuestion == DatedQuestionIsDated /\ FiltersNeverHideAll
=============================================================================
