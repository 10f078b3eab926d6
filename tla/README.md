# A specification of paperless-ai

paperless-ai puts three daemons and a search server beside a Paperless-ngx
archive. This directory holds TLA+ models of the parts in which order,
concurrency and failure decide whether the system is correct, the TLC
configurations that check them on small instances, and TLAPS proofs of what
holds for every size of the system. Source paths below are relative to `src/src`.

## 1. Inventory

```
          tags, content                       modified documents
 users --> Paperless <--> OCR daemon           Paperless --> indexer --> index.db
              ^   ^-----> classifier daemon                   ^   ^         |
              |                                  sentinel files   |         v
              +---- requeue, edits ---- search server ------------+    searches
                                           |   app.db: settings, users, keys
```

The processes share no memory. They meet in the tags of a document in Paperless,
in `app.db` (settings, versioned; accounts), in `index.db` (one writer) and in
two sentinel files. Inside a process, worker threads share the state the table
names.

| component | state | operations | what is hard | what makes it correct |
|---|---|---|---|---|
| Tag pipeline (`common/claims.py`, `stale_lock.py`, `tags.py`, `document_iter.py`, both `worker.py`, requeue routes) | the tags of a document; nothing else | list a queue, claim, work, write back, quarantine, release, sweep stale locks, requeue | every write replaces the whole tag set with one computed from an earlier read; answers get lost; a crash leaves a lock | no user tag is lost, every lock has an owner, no open document drops out of sight, queues drain, model calls are not repeated without a reason |
| Polling loop and breaker (`common/daemon_loop.py`, `circuit_breaker.py`, `ocr/daemon.py`, `classifier/daemon.py`) | batch, workers, failure streak, halt | poll, dispatch chunks, report, halt, hot-reload, shut down | workers report in completion order; the breaker trips in the middle of a batch | bounded cost of a systemic failure, a halt that is neither missed nor lifted by accident, queues and halts that end |
| Chat layer (`common/llm.py`, `retry.py`, `concurrency.py`, `model_compat.py`, `library_setup.py`) | permits, rejected parameters, client registry | call, strip, back off, wait for capacity, fall back, replace the clients | threads learn the same rejection at once; the semaphore is replaced under calls in flight; an unlimited wait meets a shutdown | no permit lost, no model given up without a cause, calls end |
| Classifier and taxonomy (`classifier/worker.py`, `taxonomy.py`, `tag_filters.py`, `metadata.py`) | items by normalised name, shared by the threads | refresh, look up, create, recover, patch | the lock is released during the create; replies are lost; the patch is computed before the model call | one item per name, no document rejected for somebody else's failure |
| Reconciler (`indexer/reconciler`, `indexer/worker.py`) | watermark, failure map, rows | page, diff, fetch, index through a pool, retry, move the watermark, sweep | the archive changes between any two requests; a cycle dies anywhere | no save is lost behind the watermark, no changed text is skipped, no live row is swept, the index converges |
| Indexer loop and boot check (`indexer/daemon`, `store/writer.py`, `search/index_sentinel.py`) | live settings, sentinels, identity stamp | hot-load, consume sentinels, rebuild, sync, sweep, wait; touch and commit | two processes, two files and a database without a common transaction | vectors of two configurations never stay mixed; sweeps go on |
| Settings (`common/config`, `appdb/config.py`, `search/settings_service.py`, `settings_routes.py`) | environment, config table and version, cached settings per process | parse, validate, import, save, hot-load | two administrators, processes that start on an empty table, threads that build from overtaken snapshots | what is accepted can be loaded, and arrives; a cached version has its own rows |
| Search server (`search/api.py`, `cache.py`, `offload.py`, `routes.py`, `mcp_server.py`, `spend_quota.py`, `appdb/key_usage.py`) | search core, result cache, permits, token buckets, a queue per stream | resolve, admit, search, store, charge, stream, hang up | a search in flight across a save, a re-index, midnight, the loss of its client | answers for the right asker over the right index, ceiling and quota kept, streams end once |
| Search pipeline (`search/core.py`, `planner.py`, `retriever.py`, `refinement.py`, `judge.py`, `synthesizer.py`, `sources.py`, `store/reader`) | plan, chunks, scores, spent calls of one search | plan, resolve, retrieve, broaden, judge, synthesise, refine | models reply with anything; gates and no-op guards in many orders | the call budget suffices, dropped documents stay out, filters do not empty a search |
| Accounts, sessions, keys, throttle (`search/account_routes.py`, `accounts.py`, `sessions.py`, `api_keys.py`, `login_throttle.py`, `appdb`) | rows of users, sessions, keys; failure counters | set up, log in and out, create, change, suspend, delete, revoke | check and write are apart, requests race | never zero administrators, suspension and revocation last |
| Image conversion, chunker, prompts, wire models | none | pure | – | results as functions of inputs |
| Heartbeats, activity, dashboards, frontend | display only | – | – | – |

`PROJECT.json` lists every component with its status, and the hazards at their
lines with the properties that cover them.

## 2. Modules

| module | what it is | status |
|---|---|---|
| `Reconciler` | one reconcile cycle, request by request | checked, proved (`ReconcilerProofs`) |
| `BatchLoop` | polls, chunks, workers and the breaker | checked, proved (`CommonProofs`) |
| `IndexerLoop` | the loop around the reconciler, the boot check and the settings page | checked, proved (`DaemonProofs`) |
| `TagPipeline` | the tag daemons, request by request | checked, proved (`TagPipelineProofs`) |
| `ChatModels` | the chat layer under the workers and the search | checked, proved (`CommonProofs`) |
| `Classifier` | taxonomy cache, filters and metadata patch | checked, proved (`DaemonProofs`) |
| `Settings` | environment, config table, validation, import, save, hot load | checked, proved (`CommonProofs`) |
| `Lists` | pure operators: comprehension, `dict.fromkeys`, `chain`, stable sort, slice and sum, in closed form | used by `SearchSpecs`, `Classifier` and `LoginThrottle`, lemmas in `ListProofs` |
| `SearchSpecs` | pure operators: what becomes of a plan and of the answers of the index | used by `SearchPipeline` |
| `SearchPipeline` | one search from the question to the answer | checked, proved (`SearchPipelineProofs`) |
| `StreamContract` | abstract: what a stream promises its client | implemented by `SearchServer` |
| `SearchServer` | many searches and the state of the process they share | checked, refines `StreamContract`, proved (`SearchServerProofs`) |
| `LoginThrottle` | pure operators: both failure counters | used by `Access` |
| `Access` | accounts, sessions and API keys under concurrent requests | checked, proved (`AccessProofs`) |

The modules compose by extension where one calls the other in the code
(`SearchPipeline` over `SearchSpecs` over `Lists`, `Classifier` over `Lists`,
`Access` over `LoginThrottle` over `Lists`), by refinement
where one implements the other's promise (`SearchServer` and `StreamContract`), and
otherwise by abstraction. `BatchLoop` treats a job as a worker that calls the
model and is saved or rejected; `TagPipeline` has the requests such a job makes,
`ChatModels` its model call, `Classifier` its metadata. `IndexerLoop` treats a sync as
the set of documents to index; `Reconciler` has its steps. `SearchServer` treats a
search as one read of the index; `SearchPipeline` has its phases. `IndexerLoop`
has the life of the sentinel files that `Settings` only counts. What one module
needs of the other is an outcome, and every outcome is possible in both.

The `MC*` modules hold the values of constants that a `.cfg` cannot write down,
and two of them fix the initial state. No configuration replaces a definition.
Definitions whose name begins with `Mutant` are no part of a specification:
each is a plausible bug, and the property named with it in `PROJECT.json` fails
when it takes the place of the definition behind it.

A property whose name ends in `IsSound`, `AreSound` or `Hold` is a conjunction of
named parts that concern one piece of shared state, each with its own comment;
`TypeOK` (`LoopTypeOK` in `BatchLoop`, `SettingsTypeOK` in `Settings`, `ClassifyTypeOK` in
`Classifier`) is among them. `LoopGoesOn`, `CachedAnswersFit`, `DocumentsAreServed`,
`AnswerIsReached`, `PlansServeTheQuestion` and
`ModelsAreGivenUpForCause` are put together the same way. `TypeOK` of `Reconciler` is
not in a run, as it is proved. The sections below name the part they speak of.

Every property of a passing run that states no liveness is also stated by a theorem.

### How the models correspond to the code

**Reconciler.** A step is one request to Paperless or one store transaction.
`StartCycle` is the head of `run_incremental_sync` (the watermark, the failure
map and the index state are read once); `FetchFullPage`, `FetchLightPage` and
`FetchChanged` page the archive, by position in a result set that is evaluated
per request; `IndexDocument` is `DocumentIndexer.index_document` with its
outcomes (skip or prune, metadata only, upsert, failure) in any order, as the
pool has it; then `RefetchFailed`, `UpdateFailedDocuments` and
`AdvanceWatermark`, and, when due, the sweep. `CycleLost` is both an exception
that the loop catches and a crash: the code keeps the same state after either.
Local variables of the functions are variables of the module; `tried`, `gaveUp` and
`retried` are bookkeeping. `RefetchFailed` is `document_exists` and `get_document` in one
step, with the deletion of the document between the two as an outcome of its own.

**IndexerLoop.** The server's steps are the two `touch` calls and the commit of
`_put_settings`, in its order; the daemon's are those of `_run_one_cycle`. The
store writer keeps the settings of the boot for life (`boot`), the reconciler is
rebuilt from the live ones (`live`): the code does the same, and the difference
matters at a rebuild. The clock is the time since the last sweep. `Stop` is a crash
or a shutdown at any point; at the wipe (`pc = "rebuild"`) it loses a consumed
request and counts against `MaxLosses`, elsewhere against `MaxFaults`.

**TagPipeline.** A job is indexed by daemon and document and records which step
it is at, the tag set its next write is computed from, and what it plans. One
step is one request; a request may be lost, lost with its effect applied, or
refused. `Crash` forgets every job, `Boot` starts with the stale-lock sweep.
`Result` is the tag set of a write: cleaned of pipeline tags, with the tag of the plan,
and, for a save of the classifier, with the tags the model picked (`Picks`), which the
code adds after the cleaning and does not filter. The model picks from `Vocabulary`,
any of Paperless' tags; a document that was given a pipeline tag in this way is
`Misled` (section 4).
Users add and remove their tags, queue documents, and requeue through the server
(`Requeue` reads, `RequeueWrite` writes).

**BatchLoop.** `phase` is where `run_polling_threadpool` is, `pending` the part
of the batch not dispatched, `job` how far each worker is. `Submit` is one pass of
the `for` loop of `_process_batch`; the loop waits for the chunk (`Live = {}`).
`RecordSuccess` and `RecordFailure` are the two reports, each under the
breaker's lock and so one step. `burnt` counts model calls after the trip.

**ChatModels.** A caller is a thread that makes one call after another along
its chain of models. `StartCall` builds the request from the cache of rejected
parameters, `Dial` reads the client, `Enter` the semaphore, and `Acquire` and `Release`
take and give back a permit; each reply of
the API is an action (`Answered`, `NoCapacity`, `BadRequest`, `Malformed`, `Dropped`,
`Refused`). `GiveUpModel` moves to the next model. A settings change is three steps
(`CloseClients`, `InstallClients`, `InitLimiter`), as calls see all three.

**Classifier.** A thread takes a document through `Fetch`, `TakeReply` or
`NoReply`, then every name of the reply through `LookUp`, `Create`, `Recover`,
`Rematch` and `Insert`, and writes the `Patch`. Only `LookUp`, `Insert` and the
matching of a refreshed list hold the cache's lock, so each is one step. Normal
forms of a name are tables; the filters on tags are operators over them.

**Settings.** `Built` and `Valid` are what `Settings.from_environment` computes
and raises, one key for all that share a parser. A hot load is the steps of
`_hot_load`: `Hit`, `Snapshot`, `Pair`, `Load`; the import at a start is `CheckEmpty`,
`Write`, `Seed`; a save is `BeginSave`, which judges the change set under the write
lock, and `Commit`, which touches the sentinels and then writes; a crash between the
two is in `IndexerLoop`.

**SearchSpecs, SearchPipeline.** `SearchSpecs` has the resolution of guessed names
and dates, the date safety net, the recall twins, rank fusion, the cap per
document, and the merging of passes; a text is an opaque value and what the code
computes from its characters is a constant function. `SearchPipeline` steps
through the phases of `SearchCore.answer` and `retrieve`: a model call or a pass
over the index is a step that can come back with anything.

**SearchServer.** A slot is a request in flight. `ReadVersion`, `TakeCore`,
`BuildCore`, `PublishCore` and `DropResults` are the double-checked rebuild of the
core; `SetCeiling`, `AskPermit` and `Enter` the lazy semaphore, whose objects are
replaced when the ceiling changes; `Hit`, `Miss`, `Compute`, `StoreKey` and `Put` the
cached search; `Record` the charge; `Queue`, `Drain` and `CloseStream` the hand-over
from the worker thread to the event loop. The index is the sequence of its
contents so far.

**LoginThrottle, Access.** Each client sends its requests one after the other;
requests of different clients interleave between any two statements. `script` is
what the client will ask, `answers` what it was told and when. A login is
`LoginGate`, `LoginVerify`, then `RecordFailure` or `RecordSuccess` and
`BeginSession`; every other request is admitted (`ResolveCaller`, `Admit`) and then
runs its own statements, for instance `FindUser`, `UpdateUser`, `SweepSessions`.

## 3. What is checked

| run | question | bounds |
|---|---|---|
| `reconciler` | Nothing is lost, skipped wrongly, re-fetched beyond the limit or swept while live, and the index becomes a mirror | two documents, one per page, two texts, two ticks, three failures, a limit of two |
| `loop` | Vectors of two configurations stay mixed only while a wipe is coming; a boot finds a changed model; the index converges; sweeps go on | two documents, two models, two chunkings, two saves, one trigger, one failed step or stop, one lost wipe |
| `loop_race` | finding: a save overtaken by a cycle | one save |
| `tags` | Tags, locks, visibility, finality, calls and draining | one document, one daemon of each kind, one requeue or one save with a picked pipeline tag, one lost and one refused request, one stop |
| `tags_bare` | The same without locks, with a queue of its own for the classifier and with user edits | one of each |
| `batch` | The breaker's bounds, and the progress of queues, halts and shutdowns | three documents, two workers, threshold two, one change, one restart |
| `models` | Permits, patience, fallbacks, what is learned, and the end of every call | two callers of one or two calls, a chain of three places, two parameters that can be stripped, one failure, two dips of capacity, one reload |
| `classify` | One item per name, no healthy document rejected, required tags, user fields, draining | two documents, six cases, three polls, one failed model, two lost replies, one deletion, one edit |
| `settings` | Accepted settings load and arrive; pairs of version and rows; the import; the rebuild request | three environments, eight change sets, two administrators, two saves, one redeployment, one fault |
| `pipeline` | The budget, judged-out documents, ranking, dates, filters and bounds of evidence | three documents of four chunks, five setups, seven requests, four replies, one prune; top 2, 3 specs, 3 per spec, 1 per document |
| `server` | Settings, cache, ceiling and quota under concurrent searches; `StreamContract` | two slots, four scripts of two or three requests, one key and one guest, one document, two contents, two versions of the settings |
| `access` | Setup, sign-in, guessing, suspension, last administrator, revocation | three clients, seven scripts, window 2, lockout 2, limits 2 and 3, 2 tracked, sessions of 1 or 3 ticks |

**Why the bounds are enough.** The interesting cases need few actors. In the
reconciler two documents on two pages are the least that can shift or tie; two
ticks allow a tie and a later save on either side of a watermark with an overlap
of one; two failures reach the dead letter, and the third shows what becomes of it. In the indexer loop two saves allow
a change and a change back, two documents a half-finished rebuild. In the tag
pipeline documents never interact: a step reads and writes one document, so one
document with both kinds of daemon covers every interleaving about it. The vocabulary
of `tags` holds a user tag, both queue tags and a lock, that of `tags_bare` a user tag and
both queues; `OnceAgain` lets one thing send the document back, a request or a picked
tag (`MaxPicks`), and the theorems have neither bound. In the
batch loop three documents make a full and a partial chunk, and a rejected
document may stay queued, so a streak runs over several batches. Two callers
are what a semaphore, a shared cache or a check-then-act needs to go wrong; in
`access` the third client administers while two race. In `models` three places
hold a repeated model, in `classify` two documents ask for one name in two
spellings. In `settings` every pair of providers and every parser occurs in an
environment or a change set, the defaults scaled to small numbers. In `pipeline`
one document more than a pass may return makes the cut matter, and four chunks
in three documents the cap per document. In `server` the limit goes from one to
two and the awareness of the asker away with the one save. All passing runs
finish completely.

**Restrictions.** Three specifications restrict the environment, because the
code is wrong without the restriction (section 4 says how), or because the code
accepts the case by design:

* `QuietSpec` (Reconciler): while a window of *several* pages is read the archive
  stands still, or shrinks so far that the next page is a 404 and the cycle ends
  (`PageMissing`, `PageIsGone`). For windows that fit one page the theorems need no
  restriction.
* `CalmSpec` (IndexerLoop): a save does not overlap the few instructions in which
  a cycle reads the settings and then the sentinels. `loop_race` shows why.
* `CalmSpec` (TagPipeline): users do not edit a document while a daemon holds it,
  and do not queue it twice. Full-set writes lose such edits.

`MCSpec` of the loop starts from one configuration, as they are interchangeable;
`MCSpec` of the tags from documents that carry the user tags. The documents,
accounts and settings that `classify`, `access` and `settings` start from are what
an earlier run of the program leaves behind.

**Fairness.** The daemon loops catch every expected exception and never stop,
and a supervisor restarts them: weak fairness of the daemon's steps. The sweep
falls due over and over, but some cycles fail before it: strong fairness of
`AdvanceWatermarkThenSweep`. In `BatchLoop` each worker runs to its end, as the
`with ThreadPoolExecutor` block waits for it, and a listing succeeds now and
then: strong fairness of `FetchWork`. In `ChatModels` and `Classifier` threads go on,
a request to the API is answered or times out, and a reload once begun is
finished; that capacity comes back is a premise of `EveryCallEnds`, not assumed.
In `SearchServer` the event loop and the worker threads go on with every request,
in `Settings` hot loads and PUT requests do. `Access` and `SearchPipeline` claim
safety only. Users, failures and restarts have no fairness; their number is
bounded, so "once they stop" is the end of every behaviour.

**Deadlock.** The daemons' loops always have a step, and their runs check it.
`access`, `models`, `classify`, `settings` and `server` turn the check off: their
clients have a finite script, and the system rests when all is served.

## 4. Findings

One is a run with a trace from TLC:

1. `loop_race`: the rebuild sentinel is written before the settings are committed. A
   cycle in between consumes it under the old settings, contrary to the comment
   at `search/settings_routes.py:263`.

The others were met while modelling. Most were seen as traces of a stronger
property; the properties in the modules state what does hold.

Daemons and index:

* `indexer/reconciler/_incremental.py:244` trusts `common/paperless.py:682` ("every
  document"). Page numbers are positions in a changing result set: a save
  between two page requests moves the next document to a page already read, and
  the watermark passes it.
* `store/writer.py:513` promises that the next boot check finds a drift that a
  switch of the provider without a restart leaves behind. The check compares one stamp
  with the settings: after a switch, a rebuild cut off at its wipe, and a switch back,
  the two agree while the rows are of the other provider. Two lost wipes do the same
  with one provider. `BootHealsIdentity` has the premise.
* `indexer/reconciler/_failed_documents.py:39` says a dead-lettered document is
  retried only when its content changes; the overlap of the next window attempts the
  same version again, and when it fails there it is back in the failure map for as many
  retries as the first time. The comment at `:37` ("re-embed forever") is therefore wrong
  of the newest documents: while the watermark stands, each cycle lists and attempts
  them, and nothing here bounds that. `RefetchesAreBounded` is what holds, of the
  attempts that no page asked for.
* `classifier/worker.py:444` cleans the pipeline tags off and then adds every tag the model
  picked. The model is shown the tags of the archive, pipeline tags among them; only four
  blacklisted names and the born-digital tag (`:391`) are dropped from its picks. A save can so put the document back in
  a queue, against `docs/classification-pipeline.md:69` ("never silently retried into a
  loop"), or leave a lock tag nobody claimed, against `docs/architecture.md:238`. A model that
  picks its own queue tag again and again is paid for as long as it does. `Misled`
  documents are therefore left out of `LocksHaveOwners`, `CallsAreAccountedFor`,
  `OpenDocumentsAreMarked` and `ClassifiedIsFinal`, and `QueuesDrain` has the end of the
  picks as its premise; `UserTagsAreKept` holds of them too.
* `docs/indexer.md:236` and `:92` and `indexer/daemon/_loop.py:150` promise a sweep that
  a trigger consumed by the wait, a sweep that aborted, or a host with a young
  monotonic clock does not get at once. `SweepsGoOn` is what holds.
* `common/claims.py:71`: a claim whose write was applied and whose answer was lost is
  owned by nobody; the document stays locked and queued until a restart, although
  `docs/ocr-pipeline.md:238` promises a retry. A transient failure of the error mark
  makes its fallback clean the document out of every queue without a mark.
* `ocr/worker.py:260`: a document without pages leaves no mark and is downloaded on
  every poll. `QueuesDrain` exempts it.
* A requeue keeps the error tag, so the worker puts the document out of its queue
  again without trying it. A replica whose batch was listed long ago repeats
  work that was finished since, without the race `docs/resilience.md:158` speaks of.
* A document that a stale lock and a requeue put into both queues can, with locks
  and under an adversarial schedule, be passed between the daemons for ever.
* `ocr/daemon.py:227`: the halt check passed to the loop asks only the breaker, so the
  remaining chunks of a batch are dispatched after a shutdown request, contrary
  to `common/daemon_loop.py:55` and `docs/resilience.md:204`.

Classifier and chat layer:

* `classifier/taxonomy.py:281` and `classifier/daemon.py:169` say every access of the cache
  runs under its lock; the creation does not, and two threads can create one
  name twice. `TwinsNeedARace` says exactly when.
* `_normalise` maps a non-Latin name to the empty string, so such a name matches
  the first non-Latin entry, and a correspondent such as "AS" is a part of unrelated
  names: the matching is documented as never a guess.
* Custom fields are written from the list read before the model call; a user's edit
  in between is lost.
* The client registry raises `RuntimeError` when a hot reload removed a connection;
  it escapes `_complete_with_model_fallback`, whose docstring promises None.
* The cache of rejected parameters says "at most once per process"; concurrent
  callers each pay once. A 400 that names `service_tier` makes a model impatient for
  the life of the process.

Search:

* `search/core.py:324`: the result cache is taken when a search runs, not when its core
  is resolved, and its key has no configuration version. A search that waits for
  its permit during a save puts an answer of the old settings into the new
  cache, the gap `search/api.py:617` means to close.
* `search/cache.py:80`: the index version can return to an earlier value, and a hit then
  cites a document deleted since; renames in the taxonomy do not move it.
* A cache hit charges the stored result's tokens again; a failed search spends and
  is not charged. `docs/search.md:200` lists `semantic_search` as free of the quota,
  the code bills it.
* With `SEARCH_MAX_REFINEMENTS=0` an exploratory "needs more" is answered with an
  empty text, although `search/core.py:491` says the loop ends answered. `EndsAnswered`
  has the premise.
* The recall twins and the broadened plan drop the filter of the user interface
  (`docs/search-pipeline.md:96`: "narrows, never widens"); a date filter of the interface
  disables the date safety net.
* An outage of the embeddings makes an empty retrieval, and its "no match" is cached
  for the whole TTL.
* The no-op guard misses an identical plan when the safety net added a spec.
* The ceiling of the semaphore goes back and forth while requests with the old and
  the new core interleave. `CeilingHolds` speaks of an unchanged ceiling.

Accounts:

* A login that read the account before a suspension, or a sweep cut short by a
  restart, leaves a session row behind, contrary to `docs/search.md:236`; it is refused
  while the account is suspended and good again after an activation.
* `appdb/api_keys.py:156` and `appdb/users.py:153` take every integrity error for the UNIQUE
  constraint; the foreign key raises one too. Freed row ids are used again.

Settings:

* A fully local configuration without an OpenAI key accepts
  `LLM_PROVIDER=openai` thanks to a placeholder for the key, and the next load of every daemon
  fails, contrary to `search/settings_service.py:217`. `AcceptedSavesLoad` names this gap.
* A bad value of the environment is imported before it is validated and fails every
  later start, also after the environment was repaired. The import can replace a
  value saved meanwhile (`appdb/config.py:234`: "can never overwrite"); `ImportIsFirst`
  says when it does not.
* A value saved equal to the environment's is not stored, so a later change of the
  environment changes it; an edit of the chunking in the environment moves the
  chunking without a wipe.
* `EMBEDDING_MODEL=""`, or a local model for the OpenAI provider, is accepted and wipes
  the index into a state no search can use.
* `reindex_required` answers 500 on a stored configuration that is invalid, and its
  docstring ties `EMBEDDING_PROVIDER` to `LLM_PROVIDER`, which the code does not.

## 5. What is proved

TLAPS checks every proof for all values of the constants, under the assumptions
the modules name: `Doc` is finite, page size, overlap, failure limit, number of
workers and threshold are positive, and the values that stand for "none" are not
among the real ones; the sweep interval is positive; slots and documents of the
search server are finite sets, its settings a sequence of records, the cost of a
search a natural number and the bound on contents of the index is positive;
in the search pipeline each chunk has an owner, each text a ranking of chunks and a period,
the limits of a pass are positive, "no value" is neither a number nor a text nor a reason,
and the setups, requests and replies are well typed;
the classifier's names are texts, its cases well typed, and normal forms what
`NamesAssumption` says of them (below);
callers of the model clients are finite and their setups well formed
(`SetupsAreSound`, `CasesAreSound`); the pipeline's tags are apart from those of users,
an unset tag is no tag, the two sets of daemons share no member, no change set holds
the mark of an absent value, and every bound on faults is a natural number. What only a theorem needs is a hypothesis of that
theorem: `Deployment` of the tag pipeline, `Tables`, `WellFormed` and `Fresh` of the
accounts.

**`CommonProofs`, the polling loop.** `LoopTypeCorrect`, `StreakBounded`, `BurnBounded`,
`LongStreakHalted` and the three invariants together, `BreakerSound`; and
`HaltLiftedCleanly`. The two bounds are not inductive: that
`burnt` is small now says nothing about the workers that have passed the check
of the breaker and not yet called. The invariant `LoopInductiveInv` therefore adds them up:
once the breaker has tripped, the calls made plus the workers about to call
(`BurnBudget`), and the streak plus the workers that have not reported
(`StreakBudget`), stay within the bound; the chunk limits the number of workers
(`PoolIsBounded`), and no worker outlives its batch (`NoJobBetweenBatches`), so
a reset finds none. Each worker step moves one job along, which takes one off
the set it leaves (`LosesOne`).

**`ReconcilerProofs`.** `TypeCorrect`, `SweepIsSafe` and `PoisonIsContained` for the
full specification; `NothingIsLost` and `SkippingIsSafe` under `QuietSpec`; and
`NothingIsLostOnOnePage` for the full specification of an archive that fits one
page. The inductive invariant follows a document through the cycle: a
version not yet settled is ahead of the window's next page, among the rows to
fetch, with a worker, in the working copy of the failure map, or still behind a
watermark that has not moved. Rows carry the text of the save they are stamped
with, which makes the light diff safe; a candidate of the sweep was indexed
before the enumeration, ids are never used again, and a confirmation that says
"absent" stays true. A cycle whose next page has gone satisfies only the part of
the invariant that speaks of the store (`Core`, `Stranded`); all it can do is end.
`PoisonIsContained` rests on `RetryInv`: a document of the map has been retried fewer
times than its count says (`Counted`), and a cycle attempts a document no page listed
only out of its copy of the map (`TriesAreDue`, `ToRefetch`), so that each such attempt
is counted.

**`DaemonProofs`, the indexer loop.** `TypeCorrect` for the full specification; `IndexSound`,
`NewSettingsWiped` and `BootHeals` under `CalmSpec`. `Order` says how a save and a
cycle pass each other: a save that will commit has touched the rebuild sentinel
(`SaveIsAnnounced`), so the daemon works under the saved settings or finds the
sentinel (`LiveIsCurrent`), and a consumed request is remembered until its wipe
(`WipeIsNext`). `Vectors` adds the rows. `BootHealsIdentity` survives the loss of a
wipe only because the stamp then still differs from the settings: `StampIsTrue`
says of what the stamp speaks while nothing was lost, `MixIsDue` what is left of it
after one loss.

**`SearchServerProofs`.** `SettingsFollowed`, `AnswersFit`, `LimitsAreKept` and
`StreamsImplementTheContract`, all for the full specification.
* The ceiling: each semaphore counts its free places and the requests that run under
  it (`OneSemaphore`); a request keeps the object it was given, so objects of
  earlier ceilings drain on their own.
* The quota: what is charged, plus the cost of every request past the check and not
  yet charged, stays within the overshoot (`Solvent`); midnight only lowers it.
* The cache: an entry and a request in flight were keyed over a content no later than
  the one they were computed from (`KeysComeFirst`), and contents with one version
  differ in nothing between (`StampsGrow`, `SameVersion`).
* The contract: the frames a client got, the queue, and what the worker has still
  to put form one conversation (`Conversations`, `Arriving`), so each step tells
  the next frame or stutters (`StepRefines`).

**`AccessProofs`.** `AdministrationSound`, `SessionsSound`, `RevokedForGood` and `GuessesBounded` for any
number of clients, accounts and keys. They assume of the tables a run starts from
what an earlier run leaves (`Tables`), and of the requests that their bodies name no
column the routes do not take (`WellFormed`) and that a new key's secret is random
(`Fresh`). A step of one client leaves the handlers of the others where they are
(`Frame`), and it changes an account only with a later date (`AccountStep`); from
these follows that a login which read "active" before a suspension keeps an older
date than the suspended row (`LoginsKept`), even if the id was given to somebody
else meanwhile. An account is changed only by a handler that was admitted as an
admin's, and there is still an admin when it writes (`Administered`); so the users
table is never empty again and no second setup can win (`SetUp`). A session older
than its account's suspension has a sweep to come, or a restart cut it short
(`ToSweep`).

`GuessesBounded` follows one name through the throttle (`Guessing`). What its record
says is what asking, failing and succeeding leave there (`AskedRecords`,
`RegisterRecords`, `ForgetRecords`), and other names do not touch it. The record
counts every recent wrong guess but fewer than there are clients: those that a
lockout forgot with it (`Counted`). Such a guess came from a client that was past the
gate when the name locked, since the gate lets nobody pass while it is locked, and of
the clients past it each adds one at most (`CountGoesOn`). When the lock expires the
record is cleared (`CountClears`): what was counted before the lock began is then out
of the window, because the lock lasts as long as the window. So a window holds at most
the threshold, the overshoot of the lockout it sees, and the overshoot of the one
before. `Roomy` is the property's own hypothesis: a lock no shorter than the window,
which the constants of the code satisfy, and a map that holds every name tried, for
with more names than `_MAX_TRACKED_KEYS` a record may be evicted with its count.

**`DaemonProofs`, the classifier.** `TaxonomyStaysSound` and `DocumentsStayServed`, from
`ClassifyInvariant`, for any number of documents and threads, any names, footers and
replies, and any number of polls, faults and deletions. Of the constants they assume
what `normalisers.py` gives: `Simple` of a name is a name and its own `Simple`
(`normalise_simple` lowers and collapses blanks), and a name of which `normalise_name`
leaves nothing is, in lower case, never what it leaves of another, since that does not
end in a suffix. `Org`, `Part`, the blacklist and the generic types are otherwise
arbitrary; in particular `Part` need not be an order.
* The cache: one entry for a key and for a place, each of an item of that name or of one
  the user deleted (`CacheFits`). What a name finds depends on its key, and what is
  found stays the first find while the cache only grows at its end, so an id handed out is
  what every spelling finds until the next refresh (`GivenHolds`). An entry goes in only
  under a key nothing is found for, which is why the second look of `Insert` matters.
* The items: once the cache was filled, each item is in it, or the thread that created
  it has not come back, or its key is `blind` (`ItemsAreKnown`). So a look-up that
  misses an item of its name either sees the thread that creates it, a rival, or comes after
  a reply and a refresh were both lost; and who is about to create a name is the
  first, or blind (`FirstOfItsName`, `RivalsAreBlind`, `CreatedFits`). `TwinsNeedARace` by
  itself says nothing of a thread before its request.
* The rejections: until an item is deleted, a rejected name is one Paperless has, so the
  refresh that follows finds it (`RejectedForAnItem`) and the document is not given the
  error tag.
* The document: each required tag is among the ids a thread holds or among the names it
  has still to look up, and ids and names together stay within the limit
  (`RequiredComes`); that the plan starts so is a lemma over `AtPlacesFacts`, as no first
  place of a name is lost by `dedupe_tags` and the limit cuts only suggestions. What a
  thread read of the custom fields contains what the user had set (`FieldsWereRead`).

**`CommonProofs`, the chat layer.** `SharedSound` and `GivenUpForCause` for any number of threads, any
chains of models and any number of reloads.
* Permits: of each semaphore, what is free and what callers hold make up its size
  (`Permits`), through reloads that put new semaphores in place of held ones.
* Payments: every call paid for in vain so far, plus those callers that are past the
  look at the shared record may still pay (`May`), stay within one per caller and
  rejected parameter (`Learned`); a strip takes a parameter away that the call still
  had (`Stripped`), so a call cannot strip for ever.
* Chains: the models before the current one are exactly those given up, each for a
  cause of its own (`Chained`). The chain advances by the earliest later model, and
  so a model that appears twice is not tried twice (`LeastLater`).

**`TagPipelineProofs`.** `TypeCorrect` for the full specification. `UserTagsKept` holds
under `CalmSpec` for any number of daemons, replicas included, and with requests that
fail: what a job has seen, and what it or a requeue will write, carries the tags
of the users (`Carries`, `UserPart`). `TagsSound` and `ClassifiedStaysFinal` have the
premise `Deployment`: one daemon of each kind, the sweep on, an error tag, and no tag
with two roles but the one that may lead from the OCR daemon to the classifier.
The invariant behind them (`Good`) holds until a first request is lost: a document is
in one queue at most and only that queue's daemon works on it (`Exclusive`), so what
a job has read is still so when it writes (`Fits`); a document in no queue is in
no job that will write (`AtRest`), which is what lets a requeue in. Until one is
refused, besides, a lock is of a daemon that is down or starting, or of a job that
holds it (`Owns`), and no open document is without a mark (`Marked`). Both leave out the documents that a save gave a pipeline tag the model had picked
(`Misled`): the invariant speaks of the others (`Followed`), as a step concerns one
document, and a pick that misleads takes its own out for good (`PickedAside`); any other
pick adds user tags beside the plan (`BesidePicked`). The premise `Deployment` is
needed: of two replicas, one may claim from an old listing a document that is
finished since, crash, and race a requeue with its sweep, the danger that the
docstring of `common/stale_lock.py` warns of.
`CallsAccountedFor` needs a ledger on top (`Books`). The bound on the calls is not
inductive: a document in a queue has a call to come. So the calls made, the one that is
`Due` (the document is `Owing` one by its tags, its text or a requeue under way, and
no job has made it already, `Past`), and one in `Reserve` for a daemon that will
stop with its batch half done, stay within 1 + requests + refusals + stops (`Paid`).
What a job remembers of the text and of the error tag (`Known`) shows that a
classifier returns only an empty document to be transcribed, and that the OCR daemon
never returns one, which is why the two cannot pass it back and forth. The premise
that no request is lost is needed here too: once an answer to a claim or a write-back
is lost, both daemons can work on one document and undo what the other wrote, and with
more failures than the runs allow TLC finds more calls than there were failures.

**`CommonProofs`, the settings.** `CachesSound` and `SavesSound` for any environments, change sets
and administrators. A hot load works on the rows of one version (`Snapshots`), since
versions only grow and stay what they were (`VersionsStay`); each is a closed save or
an import of a thread that had found the table empty (`Counted`). An open request
holds the write lock, so its plan is still that of the table when it commits
(`Planned`), and what it leaves says the same as the candidate it was judged by, of
every key but a secret that nobody configured (`CandidateIsLeft`, `SameVerdict`). That
the placeholder never hides a missing `PAPERLESS_TOKEN` needs an invariant of its own
(`TokenStays`): the server that takes the save could load one, and neither a save nor
an import that is under way can take it away. For `OPENAI_API_KEY` there is no such
invariant, which is the gap `AcceptedSavesLoad` names.

**`ListProofs`.** Lemmas only. A list operation is given by the places it keeps and an
order on them, and `Nth` takes the one element with k - 1 before it. That there is
exactly one for every k (`RankOnto`) is what makes a filter, a stable sort, a chain of lists
and `dict.fromkeys` lists at all, with the elements, the numbers of occurrences and the
order the code relies on (`AtPlacesFacts`, `SortedFacts`, `ChainedFacts`, `FirstSeenFacts`).
Where the argument is an induction it is done by hand over a set of numbers with a least
element (`LeastNumber`, `TotalIsNumber`), since the library's induction theorems cannot
be used.

**`SearchPipelineProofs`.** `AnswerIsAlwaysReached`, `SourcesAreAlwaysSound`,
`PlansAlwaysServe` and `SearchIsNeverDowngraded`, for any archive, any setup and any
replies of the models.
* The budget: the calls made and those the current pass still has to make stay within what
  the refinements begun so far allow (`BudgetLeft`). The number of calls by itself says
  nothing at a replan that may still be followed by a judge and a synthesiser.
* The evidence: each pass adds at most `TopK` documents and `MaxPerDoc` chunks of each
  (`EvidenceFits`, over `RetrieveFacts` and `MergedEvidence`), and a refinement keeps what it
  had; before the pass is merged its refinement is already counted (`Passes`).
* The judge: before it ran nothing is scored or dropped, and from then on no
  remaining chunk is of a dropped document, and the remaining documents are scored or
  none is (`EvidenceIsJudged`). Hence what is cited was not judged out and is ranked
  on one scale.
* The plan: resolved dates, recall twins and the safety net leave every spec well formed,
  and one of them dated when the question is (`ResolveSpecsFacts`); a search that gives up
  for want of evidence has tried its plan without any filter (`BroadenedFacts`, `FiltersNext`).
* There is no result before the last step, and a search with refinements reaches it with
  a reply of the synthesiser that is an answer (`Settled`).

**Only model-checked.** Liveness under fairness is beyond the prover, as is the
refinement's fairness. Every other property of a passing run is proved. No module
declares a RECURSIVE operator, so all of them are open to proof.

## 6. What is not modelled

The components marked `not_modelled` or `partly` in `PROJECT.json`, each with its
reason. In short: the text of documents and the images of pages, prompts and
model answers (an outcome is a choice), SQL and serialisation (a statement or a
transaction is one step), the embedding client, the browse, facet and document
routes that only read, heartbeats, activity records and logs, and the web
frontend. Time is counted in instants; files and single transactions are atomic.
