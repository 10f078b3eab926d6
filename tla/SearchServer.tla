---------------------------- MODULE SearchServer ----------------------------
(***************************************************************************)
(* Many searches in one server process, and the process-wide state they    *)
(* share:                                                                  *)
(*                                                                         *)
(*   - the core cache and its rebuild lock (api.py, _resolve_search_core), *)
(*     and the configuration version in app.db (appdb/config.py);          *)
(*   - the result cache, a singleton that a rebuild throws away (cache.py, *)
(*     SearchCore.answer);                                                 *)
(*   - the lazy semaphore whose ceiling follows the settings (offload.py); *)
(*   - the token bucket of an API key and day (spend_quota.py,             *)
(*     appdb/key_usage.py);                                                *)
(*   - per stream, the queue between the worker thread and the event loop  *)
(*     (routes.py, _search_stream).                                        *)
(*                                                                         *)
(* A slot is a request in flight: POST /api/search ("plain"), its          *)
(* streaming twin ("stream"), the two billed MCP tools ("deep", which      *)
(* answers, and "semantic", which only retrieves and skips the cache), or  *)
(* one of the free MCP tools ("free").  What one search does between its   *)
(* cache miss and its result is SearchPipeline; here it is Compute, that   *)
(* reads the index at one moment.  Every request asks the same question:   *)
(* only who asks, under which settings and over which index differ.        *)
(*                                                                         *)
(* The index is the sequence of its contents so far, a content being the   *)
(* stamp of every indexed document (0: not indexed).                       *)
(***************************************************************************)
EXTENDS Naturals, FiniteSets, Sequences, SequencesExt, FiniteSetsExt

CONSTANTS
    Slots,       \* requests that can be in flight at once
    Keys,        \* callers that come with an API key: the quota is per key
    Guests,      \* callers that come with a session cookie: never limited
    Docs,        \* documents of the index
    Scripts,     \* the traffic: sequences of requests, pairs of a kind and a caller
    Settings,    \* Settings[v]: limit, quota, caching and asker of version v
    Cost,        \* tokens one search spends
    MaxEpochs    \* bound: contents the index goes through

Callers == Keys \cup Guests
Versions == 1..Len(Settings)
Kinds == {"plain", "stream", "deep", "semantic", "free"}
Billed == Kinds \ {"free"}
Answering == {"plain", "stream", "deep"}
Nobody == "nobody"

ASSUME ScriptsAreRequests == Scripts \subseteq Seq(Kinds \X Callers)
ASSUME SlotsAreFinite == IsFiniteSet(Slots) /\ Slots # {}
ASSUME DocsAreFinite == IsFiniteSet(Docs)
ASSUME SettingsAreTuned ==
    /\ Settings \in Seq([limit : Nat, quota : Nat, caching : BOOLEAN, aware : BOOLEAN])
    /\ Settings # <<>>
ASSUME BoundsAreNumbers == Cost \in Nat /\ MaxEpochs \in Nat \ {0}

VARIABLES
    version,     \* config_version in app.db
    index,       \* the contents of the index so far, the last is live
    coreCache,   \* _CORE_CACHE: the stamp and the version its core was built from
    builder,     \* the slot that holds _CORE_CACHE_LOCK, or Nobody
    caches,      \* every result cache object made so far
    current,     \* the singleton: an index into caches, 0 for None
    sem,         \* the LazySemaphore: its ceiling and the object it made (0: None)
    caps,        \* the capacity of every semaphore object made so far
    usage,       \* tokens of the key's bucket of today
    script,      \* the requests still to arrive
    req,         \* the request of each slot
    out,         \* the queue from a stream's worker to its event loop
    wire, seq,   \* what the client of a stream has been told: see StreamContract
    client       \* the client of a stream still reads

config == <<version, coreCache, builder>>
cacheVars == <<caches, current>>
permits == <<sem, caps>>
stream == <<out, wire, seq, client>>
world == <<index, usage, script>>
vars == <<config, cacheVars, permits, stream, world, req>>

\* A request between two: no field of the last one is kept.
NoResult == [config |-> 0, epoch |-> 0, asker |-> Nobody]
Fresh == [pc |-> "idle", kind |-> "plain", caller |-> Nobody, seen |-> 0, core |-> 0,
          cache |-> 0, key |-> <<>>, permit |-> 0, result |-> NoResult, hit |-> FALSE]

At(s, pc) == req[s].pc = pc
Tuning(s) == Settings[req[s].core]
Asker(s) == IF Tuning(s).aware THEN req[s].caller ELSE Nobody
Limited(s) ==
    /\ Tuning(s).quota > 0
    /\ req[s].caller \in Keys
    /\ req[s].kind \in Billed
Content == Last(index)
Stamps == 0..MaxEpochs
Results == [config : Versions, epoch : 1..MaxEpochs, asker : Callers \cup {Nobody}]

Goto(s, pc) == req' = [req EXCEPT ![s].pc = pc]

\* The same, once core.answer has returned: its locals are gone.
Return(s, pc) == req' = [req EXCEPT ![s] = [Fresh EXCEPT
    !.pc = pc, !.kind = req[s].kind, !.caller = req[s].caller, !.core = req[s].core,
    !.permit = IF req[s].kind = "stream" THEN req[s].permit ELSE 0]]

Init ==
    /\ version = 1
    /\ index = <<[d \in Docs |-> 1]>>
    /\ coreCache = [stamp |-> 1, built |-> 1]
    /\ builder = Nobody
    /\ caches = <<>> /\ current = 0
    /\ sem = [limit |-> Settings[1].limit, object |-> 0]
    /\ caps = <<>>
    /\ usage = [k \in Keys |-> 0]
    /\ script \in Scripts
    /\ req = [s \in Slots |-> Fresh]
    /\ out = [s \in Slots |-> <<>>]
    /\ wire = [s \in Slots |-> "closed"]
    /\ seq = [s \in Slots |-> 0]
    /\ client = [s \in Slots |-> TRUE]

-----------------------------------------------------------------------------
(* The world around the server. *)

\* PUT /api/settings: the values and the version move in one transaction.
SaveSettings ==
    /\ version < Len(Settings)
    /\ version' = version + 1
    /\ UNCHANGED <<coreCache, builder, cacheVars, permits, stream, world, req>>

\* The indexer writes a document under the stamp of the moment, or prunes it.
Reindex(d) ==
    /\ Len(index) < MaxEpochs
    /\ \E stamp \in {0, Len(index) + 1} :
         /\ stamp # Content[d]
         /\ index' = Append(index, [Content EXCEPT ![d] = stamp])
    /\ UNCHANGED <<config, cacheVars, permits, stream, usage, script, req>>

\* utc_today changes: every key starts the day with an empty bucket.
Midnight ==
    /\ usage' = [k \in Keys |-> 0]
    /\ UNCHANGED <<config, cacheVars, permits, stream, index, script, req>>

\* A request comes in, past the authentication (module Access).
Arrive(s) ==
    /\ At(s, "idle")
    /\ script # <<>>
    /\ script' = Tail(script)
    /\ req' = [req EXCEPT ![s] = [Fresh EXCEPT !.pc = "version", !.kind = Head(script)[1],
                                                !.caller = Head(script)[2]]]
    /\ UNCHANGED <<config, cacheVars, permits, stream, index, usage>>

-----------------------------------------------------------------------------
(* _resolve_search_core: the core of the current settings. *)

\* The version is read from app.db, then compared with the cache without a lock.
ReadVersion(s) ==
    /\ At(s, "version")
    /\ req' = [req EXCEPT ![s].pc = "compare", ![s].seen = version]
    /\ UNCHANGED <<config, cacheVars, permits, stream, world>>

\* The cached core is of the version the request saw: seen without the lock, or
\* by the check that is made again under it.
TakeCore(s) ==
    /\ At(s, "compare")
    /\ coreCache.stamp = req[s].seen
    /\ req' = [req EXCEPT ![s].pc = "resolved", ![s].core = coreCache.built]
    /\ UNCHANGED <<config, cacheVars, permits, stream, world>>

\* Mutant: the core is built again from the settings the process holds.
MutantBuildCore(s) ==
    /\ At(s, "compare")
    /\ coreCache.stamp # req[s].seen
    /\ builder = Nobody
    /\ builder' = s
    /\ req' = [req EXCEPT ![s].pc = "built", ![s].core = coreCache.built]
    /\ UNCHANGED <<version, coreCache, cacheVars, permits, stream, world>>

\* Otherwise, under the lock: current_settings_with_version takes version and
\* settings of one snapshot, and the whole component graph is built from them.
BuildCore(s) ==
    /\ At(s, "compare")
    /\ coreCache.stamp # req[s].seen
    /\ builder = Nobody
    /\ builder' = s
    /\ req' = [req EXCEPT ![s].pc = "built", ![s].core = version]
    /\ UNCHANGED <<version, coreCache, cacheVars, permits, stream, world>>

\* The core is visible to the lock-free readers before the results are dropped.
PublishCore(s) ==
    /\ At(s, "built")
    /\ coreCache' = [stamp |-> req[s].core, built |-> req[s].core]
    /\ Goto(s, "published")
    /\ UNCHANGED <<version, builder, cacheVars, permits, stream, world>>

\* An object that no search holds is collected with its entries.
DropResults(s) ==
    /\ At(s, "published")
    /\ caches' = IF current = 0 \/ \E r \in Slots : req[r].cache = current THEN caches
                 ELSE [caches EXCEPT ![current] = <<>>]
    /\ current' = 0
    /\ builder' = Nobody
    /\ Goto(s, "resolved")
    /\ UNCHANGED <<version, coreCache, permits, stream, world>>

-----------------------------------------------------------------------------
(* Admission: the ceiling, the quota and the permit. *)

\* Mutant: every request makes a new semaphore.
MutantCeiling(s) == [limit |-> Tuning(s).limit, object |-> 0]

\* LazySemaphore.set_limit: a new ceiling drops the object, the same keeps it.
Ceiling(s) ==
    IF sem.limit = Tuning(s).limit THEN sem
    ELSE [limit |-> Tuning(s).limit, object |-> 0]

\* The HTTP routes set the ceiling before they look at the quota, ...
SetCeiling(s) ==
    /\ At(s, "resolved")
    /\ req[s].kind \in {"plain", "stream"}
    /\ sem' = Ceiling(s)
    /\ Goto(s, "quota")
    /\ UNCHANGED <<config, cacheVars, caps, stream, world>>

\* check_quota reads the bucket; a caller without a quota reads nothing.
Mayspend(s) == Limited(s) => usage[req[s].caller] < Tuning(s).quota

\* ... the MCP tools look at the quota first.
AtQuota(s) == At(s, "quota") \/ (At(s, "resolved") /\ req[s].kind \notin {"plain", "stream"})

\* HTTP 429, or a tool error.
RefuseQuota(s) ==
    /\ AtQuota(s)
    /\ ~Mayspend(s)
    /\ req' = [req EXCEPT ![s] = Fresh]
    /\ UNCHANGED <<config, cacheVars, permits, stream, world>>

\* Within its quota: LazySemaphore.acquire hands out the object of this moment, no
\* object at all for a ceiling of zero.  The MCP tools set the ceiling in the same
\* breath.  A stream has its headers out by now.
AskPermit(s) ==
    LET ceiling == IF req[s].kind \in {"plain", "stream"} THEN sem ELSE Ceiling(s)
        fresh == ceiling.limit > 0 /\ ceiling.object = 0
        object == IF ceiling.limit = 0 THEN 0
                  ELSE IF fresh THEN Len(caps) + 1 ELSE ceiling.object
    IN
    /\ AtQuota(s)
    /\ Mayspend(s)
    /\ sem' = [ceiling EXCEPT !.object = IF fresh THEN object ELSE @]
    /\ caps' = IF fresh THEN Append(caps, ceiling.limit) ELSE caps
    /\ req' = [req EXCEPT ![s].pc = "waiting", ![s].permit = object]
    /\ wire' = [wire EXCEPT ![s] = IF req[s].kind = "stream" THEN "open" ELSE @]
    /\ UNCHANGED <<config, cacheVars, out, seq, client, world>>

\* The places in which a request holds the permit it waited for.
Inside == {"lookup", "compute", "answered", "charge", "done"}
Holders(object) == {s \in Slots : req[s].permit = object /\ req[s].pc \in Inside}

\* The permit is there.  An answer takes the cache object first: the singleton,
\* which get_search_result_cache makes when there is none.
Enter(s) ==
    /\ At(s, "waiting") /\ client[s]
    /\ \/ req[s].permit = 0
       \/ Cardinality(Holders(req[s].permit)) < caps[req[s].permit]
    /\ IF req[s].kind \in Answering
       THEN /\ IF current = 0
               THEN caches' = Append(caches, <<>>) /\ current' = Len(caches) + 1
               ELSE UNCHANGED cacheVars
            /\ req' = [req EXCEPT ![s].pc = "lookup", ![s].cache = current']
       ELSE Goto(s, "compute") /\ UNCHANGED cacheVars
    /\ UNCHANGED <<config, permits, stream, world>>

-----------------------------------------------------------------------------
(* SearchCore.answer around the pipeline. *)

\* _index_version: the number of documents and the last stamp.
IndexVersion(content) == <<Cardinality({d \in Docs : content[d] > 0}),
                           Max({content[d] : d \in Docs} \cup {0})>>

CacheKey(s) == <<IndexVersion(Content), Asker(s)>>

\* call_soon_threadsafe puts items on the queue of a stream, unless nobody reads it.
Queue(s, items) == out' = [out EXCEPT ![s] = IF client[s] THEN @ \o items ELSE @]

\* on_event: a stream shows the phases, here as one event.
Trace(s) == IF req[s].kind = "stream" THEN Queue(s, <<"event">>) ELSE UNCHANGED out

\* A hit makes no model call; a stream still shows one phase.
Hit(s) ==
    LET entries == caches[req[s].cache] IN
    /\ At(s, "lookup")
    /\ Tuning(s).caching
    /\ CacheKey(s) \in DOMAIN entries
    /\ req' = [req EXCEPT ![s].pc = "answered", ![s].hit = TRUE,
                          ![s].result = entries[CacheKey(s)]]
    /\ Trace(s)
    /\ UNCHANGED <<config, cacheVars, permits, wire, seq, client, world>>

\* No entry, or one past its TTL, which is dropped; or no key at all, for the cache
\* is off or the index version cannot be read.
Miss(s) ==
    LET others == DOMAIN caches[req[s].cache] \ {CacheKey(s)} IN
    /\ At(s, "lookup")
    /\ \/ /\ Tuning(s).caching
          /\ req' = [req EXCEPT ![s].pc = "compute", ![s].key = CacheKey(s)]
          /\ caches' = [caches EXCEPT ![req[s].cache] = [k \in others |-> @[k]]]
       \/ req' = [req EXCEPT ![s].pc = "compute"] /\ UNCHANGED caches
    /\ UNCHANGED <<config, current, permits, stream, world>>

\* The pipeline ran over the index of this moment.
Compute(s) ==
    /\ At(s, "compute")
    /\ req' = [req EXCEPT ![s].pc = "answered",
                          ![s].result = [config |-> req[s].core, epoch |-> Len(index),
                                         asker |-> Asker(s)]]
    /\ Trace(s)
    /\ UNCHANGED <<config, cacheVars, permits, wire, seq, client, world>>

\* Mutant: the sentinel is sent on success only.
MutantFail(s) ==
    /\ At(s, "compute")
    /\ IF req[s].kind = "stream"
       THEN Queue(s, <<"error">>) /\ Goto(s, "done")
       ELSE req' = [req EXCEPT ![s] = Fresh] /\ UNCHANGED out
    /\ UNCHANGED <<config, cacheVars, permits, wire, seq, client, world>>

\* No schema, a spent budget, a fault: an HTTP error, a tool error, or an error
\* frame followed by the sentinel.  Nothing is charged.
Fail(s) ==
    /\ At(s, "compute")
    /\ IF req[s].kind = "stream"
       THEN Queue(s, <<"error", "sentinel">>) /\ Goto(s, "done")
       ELSE req' = [req EXCEPT ![s] = Fresh] /\ UNCHANGED out
    /\ UNCHANGED <<config, cacheVars, permits, wire, seq, client, world>>

\* Mutant: the key is taken again when the result is stored.
MutantStoreKey(s) == CacheKey(s)

\* The key of the lookup, taken before the pipeline read the index.
StoreKey(s) == req[s].key

\* A keyed, fresh and cacheable result goes into the cache object of the lookup,
\* which may be the singleton no more.
Put(s, cacheable) ==
    IF req[s].key # <<>> /\ cacheable
    THEN [caches EXCEPT ![req[s].cache] =
            [k \in DOMAIN @ \cup {StoreKey(s)} |-> IF k = StoreKey(s) THEN req[s].result ELSE @[k]]]
    ELSE caches

\* core.answer returns.  A plain or MCP request releases its permit and records
\* next; the worker of a stream queues the result and records with the permit held.
Answer(s) ==
    /\ At(s, "answered")
    /\ \E cacheable \in BOOLEAN : caches' = Put(s, cacheable)
    /\ IF req[s].kind = "stream"
       THEN Return(s, "charge") /\ Queue(s, <<"result">>)
       ELSE Return(s, "record") /\ UNCHANGED out
    /\ UNCHANGED <<config, current, permits, wire, seq, client, world>>

-----------------------------------------------------------------------------
(* The end of a request: the bill and the stream. *)

\* Mutant: a charge that cannot be written ends the stream with an error frame.
MutantRecord(s) ==
    /\ At(s, "record") \/ At(s, "charge")
    /\ usage' = usage
    /\ IF At(s, "charge")
       THEN /\ Goto(s, "done")
            /\ Queue(s, <<"error", "sentinel">>)
       ELSE /\ req' = [req EXCEPT ![s] = Fresh]
            /\ UNCHANGED out
    /\ UNCHANGED <<config, cacheVars, permits, wire, seq, client, index, script>>

\* record_usage: the tokens of the result, a cached one too, go to the bucket
\* of today; a write that fails is swallowed, whatever the kind.
Record(s) ==
    /\ At(s, "record") \/ At(s, "charge")
    /\ usage' \in {usage} \cup
         (IF Limited(s) THEN {[usage EXCEPT ![req[s].caller] = @ + Cost]} ELSE {})
    /\ IF At(s, "charge")
       THEN /\ Goto(s, "done")
            /\ Queue(s, <<"sentinel">>)
       ELSE /\ req' = [req EXCEPT ![s] = Fresh]
            /\ UNCHANGED out
    /\ UNCHANGED <<config, cacheVars, permits, wire, seq, client, index, script>>

\* frames(): the next item of the queue goes out under the next number.
Drain(s) ==
    /\ wire[s] # "closed" /\ client[s]
    /\ out[s] # <<>> /\ Head(out[s]) # "sentinel"
    /\ out' = [out EXCEPT ![s] = Tail(@)]
    /\ seq' = [seq EXCEPT ![s] = @ + 1]
    /\ wire' = [wire EXCEPT ![s] = IF Head(out[s]) = "event" THEN @ ELSE "told"]
    /\ UNCHANGED <<config, cacheVars, permits, client, world, req>>

\* The client goes: before its permit the body simply ends, after it the
\* generator is closed and waits for the worker.
Hangup(s) ==
    /\ wire[s] # "closed" /\ client[s]
    /\ client' = [client EXCEPT ![s] = FALSE]
    /\ out' = [out EXCEPT ![s] = <<>>]
    /\ UNCHANGED <<config, cacheVars, permits, wire, seq, world, req>>

\* The sentinel was drawn, or the client has gone: either way the worker is awaited.
MayClose(s) ==
    \/ At(s, "done") /\ (out[s] = <<"sentinel">> \/ ~client[s])
    \/ At(s, "waiting") /\ ~client[s]

CloseStream(s) ==
    /\ wire[s] # "closed"
    /\ MayClose(s)
    /\ req' = [req EXCEPT ![s] = Fresh]
    /\ out' = [out EXCEPT ![s] = <<>>]
    /\ wire' = [wire EXCEPT ![s] = "closed"]
    /\ seq' = [seq EXCEPT ![s] = 0]
    /\ client' = [client EXCEPT ![s] = TRUE]
    /\ UNCHANGED <<config, cacheVars, permits, world>>

-----------------------------------------------------------------------------
Resolve(s) == \/ ReadVersion(s) \/ TakeCore(s) \/ BuildCore(s)
               \/ PublishCore(s) \/ DropResults(s)
Admit(s) == SetCeiling(s) \/ RefuseQuota(s) \/ AskPermit(s) \/ Enter(s)
Work(s) == Hit(s) \/ Miss(s) \/ Compute(s) \/ Fail(s) \/ Answer(s)
Finish(s) == Record(s) \/ Drain(s) \/ CloseStream(s)

Environment ==
    \/ SaveSettings
    \/ \E d \in Docs : Reindex(d)
    \/ Midnight

Next ==
    \/ Environment
    \/ \E s \in Slots :
         \/ Arrive(s)
         \/ Resolve(s)
         \/ Admit(s)
         \/ Work(s)
         \/ Finish(s)
         \/ Hangup(s)

Spec == Init /\ [][Next]_vars

\* The event loop and the worker threads go on with every request: nothing is
\* assumed of the callers, of the settings or of the index.
Fairness == \A s \in Slots : WF_vars(Resolve(s) \/ Admit(s) \/ Work(s) \/ Finish(s))

FairSpec == Spec /\ Fairness

-----------------------------------------------------------------------------
Pcs == {"idle", "version", "compare", "built", "published", "resolved",
        "quota", "waiting", "record"} \cup Inside

\* Every variable keeps the type its part of the code gives it.
TypeOK ==
    /\ version \in Versions
    /\ index \in Seq([Docs -> Stamps]) /\ Len(index) \in 1..MaxEpochs
    /\ coreCache \in [stamp : Versions, built : Versions]
    /\ builder \in Slots \cup {Nobody}
    /\ current \in 0..Len(caches)
    /\ \A i \in DOMAIN caches : \A k \in DOMAIN caches[i] :
          k # <<>> /\ caches[i][k] \in Results
    /\ sem.limit \in Nat /\ sem.object \in 0..Len(caps)
    /\ usage \in [Keys -> Nat]
    /\ \E whole \in Scripts : IsSuffix(script, whole)
    /\ \A s \in Slots : /\ req[s].pc \in Pcs /\ req[s].kind \in Kinds
                        /\ req[s].permit \in 0..Len(caps)
                        /\ req[s].cache \in 0..Len(caches)
                        /\ req[s].result \in Results \cup {NoResult}
    /\ out \in [Slots -> Seq({"event", "result", "error", "sentinel"})]

\* A request never runs under settings older than the ones in force when it
\* looked: whatever the order of saves, rebuilds and readers of the core cache.
SettingsAreFollowed ==
    \A s \in Slots : req[s].core # 0 => req[s].core >= req[s].seen

\* A cached answer is never older than the index it is served over: it was
\* computed when the content now live was there already, or later.  It needs
\* the key to be taken before the pipeline reads, and the version to tell an
\* edit in place.
HitIsNotOlder ==
    [][\A s \in Slots : Hit(s) =>
          \E e \in 1..req'[s].result.epoch : index[e] = Content]_vars

\* A cached answer was computed for the caller who gets it (for nobody in
\* particular when the settings in use do not tell callers apart).
HitIsForTheAsker ==
    \A s \in Slots : req[s].hit => req[s].result.asker = Asker(s)

\* While the ceiling has not been changed, no more searches run than it says:
\* over HTTP, as streams whose client has gone, and over MCP taken together.
CeilingHolds ==
    LET limit == Settings[1].limit IN
    (limit > 0 /\ \A v \in 1..version : Settings[v].limit = limit) =>
        Cardinality({s \in Slots : req[s].pc \in Inside}) <= limit

\* The quota is soft, but not softer than this: a key passes its quota at most
\* by what was in flight when it reached it, day after day.
QuotaOvershootIsBounded ==
    LET quotas == {Settings[v].quota : v \in Versions} IN
    0 \notin quotas => \A k \in Keys :
        usage[k] < Max(quotas) + Cost * Cardinality(Slots)

\* Every request ends, the ones nobody reads included: no permit, lock or
\* stream is held for ever.
EveryRequestEnds == \A s \in Slots : ~At(s, "idle") ~> At(s, "idle")

Wire == INSTANCE StreamContract WITH wire <- wire, seq <- seq, client <- client

\* A stream is events, then one terminal frame and nothing after it, and ends
\* only then or when its client has gone: SearchServer implements StreamContract.
StreamsKeepTheContract == Wire!Contract

\* The limits hold however requests, saves and midnight interleave.
LimitsHold == TypeOK /\ CeilingHolds /\ QuotaOvershootIsBounded

\* What the result cache serves fits the request: the index and the asker.
CachedAnswersFit == HitIsNotOlder /\ []HitIsForTheAsker
=============================================================================
