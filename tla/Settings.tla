------------------------------- MODULE Settings -------------------------------
(***************************************************************************)
(* The configuration of a deployment: the environment and the config table *)
(* of app.db (appdb/config.py) are merged, parsed and validated into a     *)
(* Settings (common/config), which every process loads at its start and    *)
(* again whenever config_version has moved; administrators save changes on *)
(* the Settings page (search/settings_service.py, settings_routes.py).     *)
(*                                                                         *)
(* Abstractions.  One key stands for all that share a parser.  Numbers are *)
(* small: the coded defaults 2000/256 of the chunking are 4/1.  A sentinel *)
(* file is a counter of rebuild requests (IndexerLoop has its life); both  *)
(* tag daemons and the indexer load alike, one stands for all.             *)
(***************************************************************************)
EXTENDS Integers

CONSTANTS
    Envs,            \* environments an operator deploys with
    Changes,         \* change sets administrators submit
    Admin,           \* concurrent PUT /api/settings requests
    MaxSaves,        \* bounds: committed saves,
    MaxRedeploys,    \* edits of the environment followed by a restart of all,
    MaxFailures        \* sentinel files that cannot be written

\* Written out as in module TLC, whose definitions the prover does not know.
d :> e == [x \in {d} |-> e]
f @@ g == [x \in DOMAIN f \cup DOMAIN g |-> IF x \in DOMAIN f THEN f[x] ELSE g[x]]

SecretKeys == {"PAPERLESS_TOKEN", "OPENAI_API_KEY"}
StepKeys == {"OCR_PROVIDER", "SEARCH_PLANNER_PROVIDER", "SEARCH_JUDGE_PROVIDER"}
ReindexKeys == {"EMBEDDING_PROVIDER", "EMBEDDING_MODEL", "CHUNK_SIZE", "CHUNK_OVERLAP"}
Key == SecretKeys \cup StepKeys \cup ReindexKeys \cup
       {"LLM_PROVIDER", "OLLAMA_BASE_URL", "POLL_INTERVAL", "PAGE_WORKERS", "ERROR_TAG_ID",
        "STALE_LOCK_RECOVERY", "OCR_MODELS", "LOG_FORMAT", "OCR_REASONING_EFFORT", "SEARCH_RELEVANCE_TIER_GOOD", "SEARCH_RELEVANCE_TIER_STRONG"}

Mask == "********"
Placeholder == "__validation_placeholder__"
NoValue == "unset"
NoOne == "no one"

\* Raw strings that parse as a number; "" is a blank.
Number == [x \in {"-1", "0", "1", "2", "3", "4"} |->
              CASE x = "-1" -> -1 [] x = "0" -> 0 [] x = "1" -> 1
                [] x = "2" -> 2 [] x = "3" -> 3 [] x = "4" -> 4]
Truth == [true |-> TRUE, false |-> FALSE]
Provider == {"openai", "ollama"}

\* No value is the mark of an absent one, and nobody is no administrator.
ASSUME EnvsAreConfigs == \A e \in Envs : DOMAIN e \subseteq Key /\ e \in [DOMAIN e -> STRING]
ASSUME ChangesHaveValues == \A c \in Changes : \A k \in DOMAIN c : c[k] # NoValue
ASSUME NobodyIsNoAdmin == NoOne \notin Admin
ASSUME BudgetsAreNatural == {MaxSaves, MaxRedeploys, MaxFailures} \subseteq Nat

\* The parsers: what each key of the merged configuration s may hold, and what
\* it then means.  An absent key and, for most parsers, a blank one fall back.
Raw(s, k, default) == IF k \in DOMAIN s THEN s[k] ELSE default
Blank(s, k) == Raw(s, k, "") = ""
IsInt(s, k) == Raw(s, k, "") \in DOMAIN Number \cup {""}
IntOf(s, k, default) == IF Blank(s, k) THEN default ELSE Number[s[k]]
AtLeastOne(s, k, default) == IsInt(s, k) /\ IntOf(s, k, default) >= 1
Clamped(s, k, default) == IF IntOf(s, k, default) < 1 THEN 1 ELSE IntOf(s, k, default)
OptionalPositive(s, k, default) == IF IntOf(s, k, default) <= 0 THEN 0 ELSE IntOf(s, k, default)
IsBool(s, k) == Raw(s, k, "") \in DOMAIN Truth \cup {""}
Bool(s, k, default) == IF Blank(s, k) THEN default ELSE Truth[s[k]]
OneOf(s, k, choices, default) == Raw(s, k, default) \in choices
IsProvider(s, k) == Raw(s, k, "") \in Provider \cup {""}
ProviderOf(s, k, default) == IF Blank(s, k) THEN default ELSE s[k]
ModelList(s, k, default) == Raw(s, k, default)
Effort(s, k, default) == IF Raw(s, k, default) = "minimal" THEN "none" ELSE Raw(s, k, default)
Efforts == {"none", "low", "medium", "high", "xhigh"}
OverlapFits(s) ==
    /\ IsInt(s, "CHUNK_OVERLAP")
    /\ IntOf(s, "CHUNK_OVERLAP", 1) \in 0 .. IntOf(s, "CHUNK_SIZE", 4) - 1
\* Similarities on a scale of 4: the defaults 0.66 and 0.70 are 2 and 3.
TiersAreOrdered(s) ==
    /\ IsInt(s, "SEARCH_RELEVANCE_TIER_GOOD") /\ IsInt(s, "SEARCH_RELEVANCE_TIER_STRONG")
    /\ IntOf(s, "SEARCH_RELEVANCE_TIER_STRONG", 3) \in 0 .. 4
    /\ IntOf(s, "SEARCH_RELEVANCE_TIER_GOOD", 2) \in 0 .. IntOf(s, "SEARCH_RELEVANCE_TIER_STRONG", 3)

\* The step providers follow LLM_PROVIDER, the judge its planner; embeddings
\* follow nothing.
Steps(s) ==
    LET llm == Raw(s, "LLM_PROVIDER", "openai")
        planner == ProviderOf(s, "SEARCH_PLANNER_PROVIDER", llm)
    IN [OCR_PROVIDER |-> ProviderOf(s, "OCR_PROVIDER", llm),
        SEARCH_PLANNER_PROVIDER |-> planner,
        SEARCH_JUDGE_PROVIDER |-> ProviderOf(s, "SEARCH_JUDGE_PROVIDER", planner),
        EMBEDDING_PROVIDER |-> ProviderOf(s, "EMBEDDING_PROVIDER", "openai")]

Uses(s, provider) ==
    LET steps == Steps(s) IN \E k \in StepKeys \cup {"EMBEDDING_PROVIDER"} : steps[k] = provider
DefaultModels(provider) == IF provider = "ollama" THEN "gemma3" ELSE "gpt-5.6"

\* _build_settings raises when one of these is false.
Valid(s) ==
    /\ OneOf(s, "LLM_PROVIDER", Provider, "openai")
    /\ \A k \in StepKeys \cup {"EMBEDDING_PROVIDER"} : IsProvider(s, k)
    /\ AtLeastOne(s, "CHUNK_SIZE", 4)
    /\ OverlapFits(s)
    /\ ~Blank(s, "PAPERLESS_TOKEN")
    /\ Uses(s, "openai") => ~Blank(s, "OPENAI_API_KEY")
    /\ "OCR_MODELS" \in DOMAIN s => ~Blank(s, "OCR_MODELS")
    /\ AtLeastOne(s, "POLL_INTERVAL", 1)
    /\ IsInt(s, "PAGE_WORKERS") /\ IsInt(s, "ERROR_TAG_ID")
    /\ IsBool(s, "STALE_LOCK_RECOVERY")
    /\ OneOf(s, "LOG_FORMAT", {"json", "console"}, "console")
    /\ Effort(s, "OCR_REASONING_EFFORT", "none") \in Efforts
    /\ TiersAreOrdered(s)

\* The Settings that _build_settings returns.
Built(s) ==
    LET steps == Steps(s)
    IN [OCR_PROVIDER |-> steps.OCR_PROVIDER,
        SEARCH_PLANNER_PROVIDER |-> steps.SEARCH_PLANNER_PROVIDER,
        SEARCH_JUDGE_PROVIDER |-> steps.SEARCH_JUDGE_PROVIDER,
        EMBEDDING_PROVIDER |-> steps.EMBEDDING_PROVIDER,
        LLM_PROVIDER |-> Raw(s, "LLM_PROVIDER", "openai"),
        PAPERLESS_TOKEN |-> Raw(s, "PAPERLESS_TOKEN", NoValue),
        OPENAI_API_KEY |-> Raw(s, "OPENAI_API_KEY", ""),
        OLLAMA_BASE_URL |-> IF ~Uses(s, "ollama") THEN NoValue
                            ELSE IF Blank(s, "OLLAMA_BASE_URL") THEN "localhost" ELSE s.OLLAMA_BASE_URL,
        OCR_MODELS |-> ModelList(s, "OCR_MODELS", DefaultModels(steps.OCR_PROVIDER)),
        EMBEDDING_MODEL |-> Raw(s, "EMBEDDING_MODEL", "text-embedding-3-small"),
        CHUNK_SIZE |-> IntOf(s, "CHUNK_SIZE", 4),
        CHUNK_OVERLAP |-> IntOf(s, "CHUNK_OVERLAP", 1),
        POLL_INTERVAL |-> IntOf(s, "POLL_INTERVAL", 1),
        PAGE_WORKERS |-> Clamped(s, "PAGE_WORKERS", 4),
        ERROR_TAG_ID |-> OptionalPositive(s, "ERROR_TAG_ID", 2),
        STALE_LOCK_RECOVERY |-> Bool(s, "STALE_LOCK_RECOVERY", TRUE),
        LOG_FORMAT |-> Raw(s, "LOG_FORMAT", "console"),
        OCR_REASONING_EFFORT |-> Effort(s, "OCR_REASONING_EFFORT", "none"),
        SEARCH_RELEVANCE_TIER_GOOD |-> IntOf(s, "SEARCH_RELEVANCE_TIER_GOOD", 2),
        SEARCH_RELEVANCE_TIER_STRONG |-> IntOf(s, "SEARCH_RELEVANCE_TIER_STRONG", 3)]

-------------------------------------------------------------------------------
VARIABLES
    env,             \* the environment all processes were started with
    table, version,  \* app.db: the config table and config_version
    hist,            \* the tables of all versions so far
    lock,            \* the connection inside BEGIN IMMEDIATE, or NoOne
    \* the processes
    cache,           \* _SETTINGS_CACHE of each process; none while it is down
    pc, snap,        \* hot load of each thread, and the snapshot it works on
    \* the Settings page
    plan,            \* what each open request will write
    rebuilds,        \* rebuild requests touched
    saves, redeploys, failures

db == <<table, version, hist>>
page == <<plan, rebuilds, saves>>
settingsVars == <<env, db, lock, cache, pc, snap, page, redeploys, failures>>

Process == {"daemon", "search"}
Thread == {"daemon", "web1", "web2"}
Home(t) == IF t = "daemon" THEN "daemon" ELSE "search"
NoPair == [version |-> -1]
NoSnap == [version |-> -1]
NoPlan == [rebuild |-> FALSE]
Empty == [k \in {} |-> ""]
Up(p) == cache[p] # NoPair

\* _merge_environment: a value in the table wins.
Merge(tab) == tab @@ env
Current == Merge(table)

SettingsTypeOK ==
    /\ DOMAIN env \subseteq Key /\ DOMAIN table \subseteq Key
    /\ version \in 0 .. MaxSaves + 3 /\ DOMAIN hist = 0 .. version
    /\ lock \in Admin \cup {NoOne}
    /\ \A p \in Process : Up(p) => cache[p].version \in 0 .. version /\ cache[p].settings.CHUNK_SIZE >= 1
    /\ pc \in [Thread -> {"idle", "rebuild", "check", "seed", "again"}]
    /\ \A t \in Thread : pc[t] = "idle" <=> snap[t] = NoSnap
    /\ \A a \in Admin : (lock = a) <=> (plan[a] # NoPlan)
    /\ rebuilds \in 0 .. saves /\ saves \in 0 .. MaxSaves
    /\ redeploys \in 0 .. MaxRedeploys /\ failures \in 0 .. MaxFailures

SettingsInit ==
    /\ env \in Envs
    /\ table = Empty /\ version = 0 /\ hist = (0 :> Empty)
    /\ lock = NoOne
    /\ cache = [p \in Process |-> NoPair]
    /\ pc = [t \in Thread |-> "idle"] /\ snap = [t \in Thread |-> NoSnap]
    /\ plan = [a \in Admin |-> NoPlan]
    /\ rebuilds = 0 /\ saves = 0 /\ redeploys = 0 /\ failures = 0

-------------------------------------------------------------------------------
(* Hot load: current_settings, on the way up and then at every check.      *)

Goes(t, to) == pc' = [pc EXCEPT ![t] = to]
GoesIdle(t) == Goes(t, "idle") /\ snap' = [snap EXCEPT ![t] = NoSnap]

\* Mutant: whatever is cached is good.
MutantHit(p, v) == Up(p)
Hit(p, v) == cache[p].version = v

\* The version and the rows are read in one transaction.  The start of a
\* process has one thread only.
Snapshot(t) ==
    /\ pc[t] = "idle"
    /\ t = "web2" => Up("search")
    /\ ~Hit(Home(t), version)
    /\ Goes(t, "rebuild")
    /\ snap' = [snap EXCEPT ![t] = [version |-> version, table |-> table]]
    /\ UNCHANGED <<env, db, lock, cache, page, redeploys, failures>>

\* Mutant: the pair is stamped with the version of the moment.
MutantPair(s) == [version |-> version, settings |-> Built(Merge(s.table))]
Pair(s) == [version |-> s.version, settings |-> Built(Merge(s.table))]

\* An invalid configuration ends a daemon and a start; a request of a running
\* server fails, and its process keeps the pair it has.
Load(t, s) ==
    LET p == Home(t)
    IN cache' = [cache EXCEPT ![p] = IF Valid(Merge(s.table)) THEN Pair(s)
                                     ELSE IF p = "daemon" THEN NoPair ELSE @]

NeedsSeed(tab) == tab = Empty

\* Under _SETTINGS_CACHE_LOCK, which a seeding thread of the process holds.
Rebuild(t) ==
    /\ pc[t] = "rebuild"
    /\ \A u \in Thread : Home(u) = Home(t) => pc[u] \notin {"check", "seed", "again"}
    /\ IF Hit(Home(t), snap[t].version) THEN GoesIdle(t) /\ UNCHANGED cache
       ELSE IF NeedsSeed(snap[t].table) THEN Goes(t, "check") /\ UNCHANGED <<cache, snap>>
       ELSE Load(t, snap[t]) /\ GoesIdle(t)
    /\ UNCHANGED <<env, db, lock, page, redeploys, failures>>

\* seed_from_env looks for a row first, outside of the writing transaction.
CheckEmpty(t) ==
    /\ pc[t] = "check"
    /\ Goes(t, IF NeedsSeed(table) THEN "seed" ELSE "again")
    /\ UNCHANGED <<env, db, lock, cache, snap, page, redeploys, failures>>

\* set_many_in_transaction: the rows and the version in one commit.
Write(values) ==
    /\ table' = values @@ table
    /\ version' = version + 1
    /\ hist' = ((version + 1) :> (values @@ table)) @@ hist

Seed(t) ==
    /\ pc[t] = "seed"
    /\ lock = NoOne
    /\ Goes(t, "again")
    /\ IF env = Empty THEN UNCHANGED db ELSE Write(env)
    /\ UNCHANGED <<env, lock, cache, snap, page, redeploys, failures>>

\* The second snapshot, of the seeded table.
Again(t) ==
    /\ pc[t] = "again"
    /\ Load(t, [version |-> version, table |-> table])
    /\ GoesIdle(t)
    /\ UNCHANGED <<env, db, lock, page, redeploys, failures>>

-------------------------------------------------------------------------------
(* PUT /api/settings, one transaction from the read to the commit.         *)

\* _merged_for_build: a missing secret is no reason to refuse another change.
Candidate(changes, tab) == changes @@ Merge(tab) @@ [k \in SecretKeys |-> Placeholder]

ReindexRequired(changes, tab) ==
    \E k \in ReindexKeys : Built(Candidate(changes, tab))[k] # Built(Candidate(Empty, tab))[k]

IsOpenAIModel(m) == m = "text-embedding-3-small"

\* A step may only select a provider whose connection is configured.
Connected(changes, tab) ==
    LET s == Candidate(changes, tab)
    IN /\ Uses(s, "ollama") => ~Blank(s, "OLLAMA_BASE_URL")
       /\ (\E k \in DOMAIN changes \cap (StepKeys \cup {"EMBEDDING_PROVIDER"}) : changes[k] = "openai")
            => \/ ~Blank(changes, "OPENAI_API_KEY")
               \/ ~Blank(tab, "OPENAI_API_KEY")
               \/ ~Blank(env, "OPENAI_API_KEY")

\* validate_change_set: the keys are known, and the outcome builds.
Acceptable(changes, tab) ==
    /\ DOMAIN changes \subseteq Key
    /\ \A k \in DOMAIN changes \cap SecretKeys : changes[k] # Mask
    /\ LET s == Candidate(changes, tab)
       IN /\ Valid(s)
          /\ Built(s).EMBEDDING_PROVIDER = "ollama" => ~IsOpenAIModel(Built(s).EMBEDDING_MODEL)
    /\ Connected(changes, tab)

Changed(changes, tab) == {k \in DOMAIN changes : changes[k] # Raw(Merge(tab), k, NoValue)}
OnlyChanged(changes, tab) == [k \in Changed(changes, tab) |-> changes[k]]

\* The writes and the rebuild that a change set amounts to; a refused one
\* amounts to none.  reindex_required builds the stored configuration too, and
\* raises when that is invalid.
Plan(changes, tab) ==
    IF Acceptable(changes, tab) /\ Valid(Candidate(Empty, tab))
    THEN [values |-> OnlyChanged(changes, tab), rebuild |-> ReindexRequired(changes, tab)]
    ELSE [values |-> Empty, rebuild |-> FALSE]

\* Mutant: the table is read and judged outside of the transaction.
MutantMayBegin(a) == plan[a] = NoPlan
MayBegin(a) == plan[a] = NoPlan /\ lock = NoOne

\* BEGIN IMMEDIATE, the read and the verdict: no other writer until the end.
BeginSave(a, c) ==
    /\ Up("search")
    /\ saves < MaxSaves
    /\ MayBegin(a)
    /\ lock' = a
    /\ plan' = [plan EXCEPT ![a] = Plan(c, table)]
    /\ saves' = saves + 1
    /\ UNCHANGED <<env, db, cache, pc, snap, rebuilds, redeploys, failures>>

Closed(a) == lock' = NoOne /\ plan' = [plan EXCEPT ![a] = NoPlan]

\* An error, or nothing that differs from the current values.
Refuse(a) ==
    /\ plan[a] # NoPlan /\ plan[a].values = Empty
    /\ Closed(a)
    /\ UNCHANGED <<env, db, cache, pc, snap, rebuilds, saves, redeploys, failures>>

\* The sentinel cannot be touched: 503, and everything is rolled back.
ScheduleFails(a) ==
    /\ failures < MaxFailures
    /\ plan[a] # NoPlan /\ plan[a].values # Empty /\ plan[a].rebuild
    /\ Closed(a)
    /\ failures' = failures + 1
    /\ UNCHANGED <<env, db, cache, pc, snap, rebuilds, saves, redeploys>>

\* The sentinel is touched, and then the transaction commits.  A crash between
\* the two, and a cycle of the indexer, are in module IndexerLoop.
Commit(a) ==
    /\ plan[a] # NoPlan /\ plan[a].values # Empty
    /\ Write(plan[a].values)
    /\ rebuilds' = rebuilds + IF plan[a].rebuild THEN 1 ELSE 0
    /\ Closed(a)
    /\ UNCHANGED <<env, cache, pc, snap, saves, redeploys, failures>>

-------------------------------------------------------------------------------
\* The operator edits the environment and restarts everything.  A transaction
\* that was open is rolled back.
Redeploy(e) ==
    /\ redeploys < MaxRedeploys
    /\ redeploys' = redeploys + 1
    /\ env' = e
    /\ lock' = NoOne
    /\ cache' = [p \in Process |-> NoPair]
    /\ pc' = [t \in Thread |-> "idle"] /\ snap' = [t \in Thread |-> NoSnap]
    /\ plan' = [a \in Admin |-> NoPlan]
    /\ UNCHANGED <<db, rebuilds, saves, failures>>

HotLoad(t) == Snapshot(t) \/ Rebuild(t) \/ CheckEmpty(t) \/ Seed(t) \/ Again(t)
Answer(a) == Refuse(a) \/ ScheduleFails(a) \/ Commit(a)

SettingsNext ==
    \/ \E t \in Thread : Snapshot(t) \/ Rebuild(t) \/ CheckEmpty(t) \/ Seed(t) \/ Again(t)
    \/ \E a \in Admin : \/ \E c \in Changes : BeginSave(a, c)
                        \/ Refuse(a) \/ ScheduleFails(a) \/ Commit(a)
    \/ \E e \in Envs : Redeploy(e)

SettingsSpec == SettingsInit /\ [][SettingsNext]_settingsVars
SettingsFairSpec ==
    /\ SettingsSpec
    /\ \A t \in Thread : WF_settingsVars(HotLoad(t))
    /\ \A a \in Admin : WF_settingsVars(Answer(a))

-------------------------------------------------------------------------------
\* A save that is accepted leaves a configuration every process can load, even
\* when two administrators save at once.  Known gap: the placeholder stands
\* for an OpenAI key nobody has configured.  (validate_change_set, _put_settings.)
SavedBy(a) == plan[a] # NoPlan /\ plan'[a] = NoPlan /\ version' # version
AcceptedSavesLoad ==
    [][\A a \in Admin : SavedBy(a) =>
          Valid(Current') \/ (Uses(Current', "openai") /\ Blank(Current', "OPENAI_API_KEY"))]_settingsVars

\* A rebuild of the index is requested by exactly the saves that move the
\* resolved embedding or chunking, whichever keys were written.
\* (reindex_required.)
RebuildsFollowSettings ==
    [][\A a \in Admin : SavedBy(a) =>
          (rebuilds' # rebuilds <=>
             \E k \in ReindexKeys : Built(Current')[k] # Built(Current)[k])]_settingsVars

\* A process caches a version together with the rows of that version, however
\* saves, imports and the other thread's hot load interleave.  (_hot_load.)
PairsAreOfOneVersion ==
    \A p \in Process : Up(p) => cache[p].settings = Built(Merge(hist[cache[p].version]))

\* What an administrator saved is replaced only by another save, or by an import
\* of the environment that had found the table empty before.  (seed_from_env.)
ImportIsFirst ==
    [][\A k \in DOMAIN table : table'[k] # table[k] =>
          \/ \E a \in Admin : SavedBy(a)
          \/ \E t \in Thread : pc[t] = "seed" /\ snap[t].version = 0]_settingsVars

\* Every saved configuration that can be loaded reaches every process.
\* (current_settings, _reload_if_changed.)
SavedSettingsArrive ==
    \A p \in Process : <>[](Valid(Current) => cache[p] = [version |-> version, settings |-> Built(Current)])

\* What a process caches is what the rows of its version make.
CachesAreSound == SettingsTypeOK /\ PairsAreOfOneVersion

\* A save that is accepted can be loaded, brings the rebuild it needs, and is
\* not replaced by an import that comes later.
SavesAreSound == AcceptedSavesLoad /\ RebuildsFollowSettings /\ ImportIsFirst
===============================================================================
