-------------------------- MODULE SearchServerProofs --------------------------
(***************************************************************************)
(* What TLAPS proves of the searches of one server process, for any number *)
(* of requests, callers, documents, saves and re-indexed documents.        *)
(***************************************************************************)
EXTENDS SearchServer, FiniteSetTheorems, SequenceTheorems, TLAPS

-----------------------------------------------------------------------------
(* Facts about the operators of the model                                  *)

LEMMA Constants ==
    /\ IsFiniteSet(Slots) /\ IsFiniteSet(Docs)
    /\ Settings \in Seq([limit : Nat, quota : Nat, caching : BOOLEAN, aware : BOOLEAN])
    /\ Len(Settings) \in Nat /\ 1 \in Versions
    /\ \A v \in Versions : /\ Settings[v].limit \in Nat /\ Settings[v].quota \in Nat
                           /\ Settings[v].caching \in BOOLEAN /\ Settings[v].aware \in BOOLEAN
    /\ Cost \in Nat /\ MaxEpochs \in Nat \ {0}
<1> DEFINE Tuned == [limit : Nat, quota : Nat, caching : BOOLEAN, aware : BOOLEAN]
<1>1. Settings \in Seq(Tuned) /\ Settings # <<>>
  BY SettingsAreTuned
<1>2. Len(Settings) \in Nat \ {0} /\ \A v \in 1..Len(Settings) : Settings[v] \in Tuned
  <2> HIDE DEF Tuned
  <2> QED BY <1>1, ElementOfSeq, EmptySeq, LenProperties
<1> QED BY <1>1, <1>2, SlotsAreFinite, DocsAreFinite, BoundsAreNumbers DEF Versions

\* A finite set of numbers that is not empty has a greatest element.
LEMMA Greatest ==
  ASSUME NEW S \in SUBSET Nat, IsFiniteSet(S), S # {}
  PROVE  \E m \in S : \A y \in S : m >= y
<1> DEFINE Bad == {T \in SUBSET S : T # {} /\ ~\E m \in T : \A y \in T : m >= y}
<1> SUFFICES ASSUME Bad # {} PROVE FALSE
  OBVIOUS
<1>1. Bad \subseteq FiniteSubsetsOf(S)
  BY FS_Subset DEF FiniteSubsetsOf
<1>2. PICK T \in Bad : \A U \in Bad : <<U, T>> \notin StrictSubsetOrdering(S)
  <2> HIDE DEF Bad
  <2> QED BY <1>1, FS_StrictSubsetOrderingWellFounded, WFMin
<1>3. PICK x \in T : TRUE
  OBVIOUS
<1>4. <<T \ {x}, T>> \in StrictSubsetOrdering(S)
  BY <1>3 DEF StrictSubsetOrdering
<1>5. T \ {x} \notin Bad
  BY <1>2, <1>4
<1>6. CASE T \ {x} = {}
  BY <1>2, <1>3, <1>6
<1>7. CASE T \ {x} # {}
  <2>1. PICK m \in T \ {x} : \A y \in T \ {x} : m >= y
    BY <1>5, <1>7
  <2>2. m \in Nat /\ x \in Nat /\ T \subseteq Nat
    BY <2>1, <1>3
  <2>3. CASE m >= x
    BY <2>1, <2>2, <2>3, <1>2
  <2>4. CASE x > m
    <3>1. \A y \in T : x >= y
      BY <2>1, <2>2, <2>4
    <3> QED BY <3>1, <1>2, <1>3
  <2> QED BY <2>2, <2>3, <2>4
<1> QED BY <1>6, <1>7

LEMMA MaxIsGreatest ==
  ASSUME NEW S \in SUBSET Nat, IsFiniteSet(S), S # {}
  PROVE  Max(S) \in S /\ \A y \in S : Max(S) >= y
  BY Greatest DEF Max
-----------------------------------------------------------------------------
(* Types                                                                   *)

KeyType == (Nat \X Nat) \X (Callers \cup {Nobody})

\* The contents of a cache object: a result for some of the keys.
Entries == UNION {[K -> Results] : K \in SUBSET KeyType}

Request == [pc : Pcs, kind : Kinds, caller : Callers \cup {Nobody},
            seen : 0..Len(Settings), core : 0..Len(Settings),
            cache : Nat, key : KeyType \cup {<<>>}, permit : Nat,
            result : Results \cup {NoResult}, hit : BOOLEAN]

WorldTyped ==
    /\ version \in Versions
    /\ index \in Seq([Docs -> Stamps]) /\ Len(index) \in 1..MaxEpochs
    /\ coreCache \in [stamp : Versions, built : Versions]
    /\ builder \in Slots \cup {Nobody}
    /\ usage \in [Keys -> Nat]
    /\ script \in Seq(Kinds \X Callers)

PermitsTyped ==
    /\ sem \in [limit : Nat, object : Nat] /\ sem.object <= Len(caps)
    /\ caps \in Seq(Nat)

CachesTyped == caches \in Seq(Entries) /\ current \in 0..Len(caches)

\* What a request has at its place in the code, with so many semaphores and cache
\* objects made.
Placed(r, semaphores, objects) ==
    /\ r.permit <= semaphores /\ r.cache <= objects
    /\ r.pc \notin {"idle", "version", "compare"} => r.core # 0
    /\ r.pc # "idle" => r.caller \in Callers
    /\ r.pc = "lookup" \/ r.key # <<>> => r.cache # 0
    /\ r.pc = "answered" => r.result \in Results

RequestsTyped ==
    /\ req \in [Slots -> Request]
    /\ \A s \in Slots : Placed(req[s], Len(caps), Len(caches))

Typed == WorldTyped /\ PermitsTyped /\ CachesTyped /\ RequestsTyped

LEMMA EntryType ==
  ASSUME NEW e \in Entries, NEW k \in DOMAIN e
  PROVE  k \in KeyType /\ e[k] \in Results
  BY DEF Entries

LEMMA EntriesOf ==
  ASSUME NEW K \in SUBSET KeyType, NEW e \in [K -> Results]
  PROVE  e \in Entries
  BY DEF Entries

LEMMA KeyIsNotNone ==
  ASSUME NEW k \in KeyType
  PROVE  k # <<>>
<1>1. PICK a \in Nat \X Nat, b \in Callers \cup {Nobody} : k = <<a, b>>
  BY DEF KeyType
<1>2. Len(<<a, b>>) = 2 /\ Len(<<>>) = 0
  OBVIOUS
<1> QED BY <1>1, <1>2

LEMMA EmptyEntries == <<>> \in Entries
<1>1. <<>> \in [{} -> Results]
  OBVIOUS
<1> QED BY <1>1, EntriesOf

\* The version of a content is a pair of numbers: how many documents are
\* indexed, and the greatest stamp, that one of them has.
LEMMA VersionOf ==
  ASSUME NEW c \in [Docs -> Stamps]
  PROVE  LET live == {d \in Docs : c[d] > 0}
             m == Max({c[d] : d \in Docs} \cup {0})
         IN  /\ IndexVersion(c) = <<Cardinality(live), m>>
             /\ IsFiniteSet(live) /\ Cardinality(live) \in Nat
             /\ m \in Nat /\ \A d \in Docs : c[d] <= m
             /\ m = 0 \/ \E d \in Docs : c[d] = m
<1> DEFINE live == {d \in Docs : c[d] > 0}
           S == {c[d] : d \in Docs} \cup {0}
<1>1. IsFiniteSet(live) /\ Cardinality(live) \in Nat
  BY Constants, FS_Subset, FS_CardinalityType
<1>2. S \subseteq Nat /\ 0 \in S /\ \A x \in S : x <= MaxEpochs
  BY Constants DEF Stamps
<1>3. IsFiniteSet(S)
  BY <1>2, Constants, FS_BoundedSetOfNaturals
<1>4. Max(S) \in S /\ \A y \in S : Max(S) >= y
  BY <1>2, <1>3, MaxIsGreatest
<1>5. Max(S) \in Nat /\ \A d \in Docs : c[d] <= Max(S)
  BY <1>2, <1>4
<1> QED BY <1>1, <1>4, <1>5 DEF IndexVersion

LEMMA VersionType ==
  ASSUME NEW c \in [Docs -> Stamps]
  PROVE  IndexVersion(c) \in Nat \X Nat
<1> DEFINE live == {d \in Docs : c[d] > 0}
           m == Max({c[d] : d \in Docs} \cup {0})
<1>1. IndexVersion(c) = <<Cardinality(live), m>> /\ Cardinality(live) \in Nat /\ m \in Nat
  BY VersionOf
<1> HIDE DEF live, m
<1> QED BY <1>1

LEMMA ContentTyped ==
  ASSUME Typed
  PROVE  Content \in [Docs -> Stamps]
<1>1. index \in Seq([Docs -> Stamps]) /\ Len(index) \in 1..Len(index)
  BY Constants DEF Typed, WorldTyped
<1> QED BY <1>1, ElementOfSeq DEF Content, Last

LEMMA KeyTyped ==
  ASSUME Typed, NEW s \in Slots
  PROVE  req[s].core # 0 => Asker(s) \in Callers \cup {Nobody} /\ CacheKey(s) \in KeyType
<1>1. Content \in [Docs -> Stamps]
  BY ContentTyped
<1>2. Asker(s) \in Callers \cup {Nobody}
  BY DEF Typed, RequestsTyped, Request, Asker
<1>3. IndexVersion(Content) \in Nat \X Nat
  <2> DEFINE c == Content
  <2>1. c \in [Docs -> Stamps]
    BY <1>1
  <2> HIDE DEF c
  <2>2. IndexVersion(c) \in Nat \X Nat
    BY <2>1, VersionType
  <2> QED BY <2>2 DEF c
<1> QED BY <1>1, <1>2, <1>3 DEF CacheKey, KeyType

LEMMA InitTyped ==
  ASSUME Init
  PROVE  Typed
<1>1. WorldTyped
  <2>1. index \in Seq([Docs -> Stamps]) /\ Len(index) = 1
    BY Constants DEF Init, Stamps
  <2>2. script \in Seq(Kinds \X Callers)
    BY ScriptsAreRequests DEF Init
  <2> QED BY <2>1, <2>2, Constants DEF Init, WorldTyped
<1>2. PermitsTyped /\ CachesTyped
  BY Constants DEF Init, PermitsTyped, CachesTyped
<1>3. RequestsTyped
  BY Constants DEF Init, RequestsTyped, Request, Placed, Fresh, NoResult, Pcs, Kinds
<1> QED BY <1>1, <1>2, <1>3 DEF Typed


\* One request goes on, as the record r; the objects made are not taken back.
LEMMA RequestStep ==
  ASSUME RequestsTyped, NEW s \in Slots, NEW r \in Request, req' = [req EXCEPT ![s] = r],
         Placed(r, Len(caps'), Len(caches')),
         Len(caps) \in Nat, Len(caches) \in Nat, Len(caps') \in Nat, Len(caches') \in Nat,
         Len(caps) <= Len(caps'), Len(caches) <= Len(caches')
  PROVE  RequestsTyped'
<1>1. req' \in [Slots -> Request]
  BY DEF RequestsTyped
<1>2. ASSUME NEW t \in Slots, t # s PROVE Placed(req'[t], Len(caps'), Len(caches'))
  BY <1>2 DEF RequestsTyped, Placed, Request
<1>3. Placed(req'[s], Len(caps'), Len(caches'))
  BY DEF RequestsTyped
<1> QED BY <1>1, <1>2, <1>3 DEF RequestsTyped

LEMMA TypedRequest ==
  ASSUME Typed, NEW s \in Slots
  PROVE  /\ req[s] \in Request /\ Placed(req[s], Len(caps), Len(caches))
         /\ Len(caps) \in Nat /\ Len(caches) \in Nat
  BY DEF Typed, RequestsTyped, PermitsTyped, CachesTyped

LEMMA CoreIsAVersion ==
  ASSUME Typed, NEW s \in Slots, req[s].pc \notin {"idle", "version", "compare"}
  PROVE  /\ req[s].core \in Versions
         /\ Tuning(s).limit \in Nat /\ Tuning(s).quota \in Nat
         /\ Tuning(s).caching \in BOOLEAN /\ Tuning(s).aware \in BOOLEAN
<1>1. req[s].core \in 0..Len(Settings) /\ req[s].core # 0
  BY TypedRequest DEF Request, Placed
<1>2. req[s].core \in Versions
  BY <1>1, Constants DEF Versions
<1> QED BY <1>2, Constants DEF Tuning

LEMMA FreshRequest ==
  Fresh \in Request /\ \A n, m \in Nat : Placed(Fresh, n, m)
<1>1. Fresh \in Request
  BY Constants DEF Request, Fresh, NoResult, Pcs, Kinds
<1> QED BY <1>1 DEF Placed, Fresh

\* A step of a request that makes no object.
LEMMA QuietStep ==
  ASSUME Typed, NEW s \in Slots, NEW r \in Request, req' = [req EXCEPT ![s] = r],
         Placed(r, Len(caps), Len(caches)), UNCHANGED <<cacheVars, permits>>
  PROVE  RequestsTyped' /\ PermitsTyped' /\ CachesTyped'
<1>1. UNCHANGED <<caps, sem, caches, current>>
  BY DEF cacheVars, permits
<1>2. Len(caps) \in Nat /\ Len(caps) <= Len(caps) /\ Len(caches) \in Nat /\ Len(caches) <= Len(caches)
  BY TypedRequest
<1>3. RequestsTyped'
  BY <1>1, <1>2, RequestStep, Zenon DEF Typed
<1>4. PermitsTyped' /\ CachesTyped'
  BY <1>1 DEF Typed, PermitsTyped, CachesTyped
<1> QED BY <1>3, <1>4

LEMMA ArriveTyped ==
  ASSUME Typed, NEW s \in Slots, Arrive(s)
  PROVE  Typed'
<1> DEFINE r == [Fresh EXCEPT !.pc = "version", !.kind = Head(script)[1], !.caller = Head(script)[2]]
<1>1. Head(script) \in Kinds \X Callers /\ script' \in Seq(Kinds \X Callers)
  BY DEF Arrive, Typed, WorldTyped
<1>2. req' = [req EXCEPT ![s] = r] /\ UNCHANGED <<cacheVars, permits>>
  BY DEF Arrive
<1>3. r \in Request /\ Placed(r, Len(caps), Len(caches))
  <2>1. r \in Request
    BY <1>1, FreshRequest DEF Request, Fresh, Pcs
  <2>2. Placed(r, Len(caps), Len(caches))
    BY <1>1, TypedRequest DEF Placed, Fresh
  <2> QED BY <2>1, <2>2
<1>4. WorldTyped'
  BY <1>1 DEF Arrive, Typed, WorldTyped, config
<1> HIDE DEF r
<1> QED BY <1>2, <1>3, <1>4, QuietStep DEF Typed

LEMMA ResolveTyped ==
  ASSUME Typed, NEW s \in Slots, Resolve(s)
  PROVE  Typed'
<1> USE TypedRequest
<1>w. /\ version \in 0..Len(Settings) /\ version # 0
      /\ coreCache.built \in 0..Len(Settings) /\ coreCache.built # 0
  BY Constants DEF Typed, WorldTyped, Versions
<1>1. CASE ReadVersion(s)
  <2> DEFINE r == [req[s] EXCEPT !.pc = "compare", !.seen = version]
  <2>1. req' = [req EXCEPT ![s] = r] /\ UNCHANGED <<cacheVars, permits>>
    BY <1>1 DEF ReadVersion
  <2>2. r \in Request
    BY <1>w DEF Request, Pcs
  <2>3. Placed(r, Len(caps), Len(caches))
    BY <1>1 DEF ReadVersion, At, Request, Placed
  <2>4. WorldTyped'
    BY <1>1 DEF ReadVersion, Typed, WorldTyped, config, world
  <2> HIDE DEF r
  <2> QED BY <2>1, <2>2, <2>3, <2>4, QuietStep DEF Typed
<1>2. CASE TakeCore(s)
  <2> DEFINE r == [req[s] EXCEPT !.pc = "resolved", !.core = coreCache.built]
  <2>1. req' = [req EXCEPT ![s] = r] /\ UNCHANGED <<cacheVars, permits>>
    BY <1>2 DEF TakeCore
  <2>2. r \in Request
    BY <1>w DEF Request, Pcs
  <2>3. Placed(r, Len(caps), Len(caches))
    BY <1>2, <1>w DEF TakeCore, At, Request, Placed
  <2>4. WorldTyped'
    BY <1>2 DEF TakeCore, Typed, WorldTyped, config, world
  <2> HIDE DEF r
  <2> QED BY <2>1, <2>2, <2>3, <2>4, QuietStep DEF Typed
<1>3. CASE BuildCore(s)
  <2> DEFINE r == [req[s] EXCEPT !.pc = "built", !.core = version]
  <2>1. req' = [req EXCEPT ![s] = r] /\ UNCHANGED <<cacheVars, permits>>
    BY <1>3 DEF BuildCore
  <2>2. r \in Request
    BY <1>w DEF Request, Pcs
  <2>3. Placed(r, Len(caps), Len(caches))
    BY <1>3, <1>w DEF BuildCore, At, Request, Placed
  <2>4. WorldTyped'
    BY <1>3 DEF BuildCore, Typed, WorldTyped, world
  <2> HIDE DEF r
  <2> QED BY <2>1, <2>2, <2>3, <2>4, QuietStep DEF Typed
<1>4. CASE PublishCore(s)
  <2> DEFINE r == [req[s] EXCEPT !.pc = "published"]
  <2>1. req' = [req EXCEPT ![s] = r] /\ UNCHANGED <<cacheVars, permits>>
    BY <1>4 DEF PublishCore, Goto
  <2>2. r \in Request
    BY DEF Request, Pcs
  <2>c. req[s].core \in Versions
    BY <1>4, CoreIsAVersion DEF PublishCore, At
  <2>3. Placed(r, Len(caps), Len(caches))
    BY <1>4 DEF PublishCore, At, Request, Placed
  <2>4. WorldTyped'
    BY <1>4, <2>c DEF PublishCore, Typed, WorldTyped, world
  <2> HIDE DEF r
  <2> QED BY <2>1, <2>2, <2>3, <2>4, QuietStep DEF Typed
<1>5. CASE DropResults(s)
  <2> DEFINE r == [req[s] EXCEPT !.pc = "resolved"]
  <2>1. req' = [req EXCEPT ![s] = r] /\ UNCHANGED permits
    BY <1>5 DEF DropResults, Goto
  <2>2. r \in Request
    BY DEF Request, Pcs
  <2>3. Placed(r, Len(caps), Len(caches))
    BY <1>5 DEF DropResults, At, Request, Placed
  <2>4. caches' \in Seq(Entries) /\ Len(caches') = Len(caches) /\ current' = 0
    <3>1. <<>> \in Entries
      BY EmptyEntries
    <3> QED BY <1>5, <3>1 DEF DropResults, Typed, CachesTyped
  <2>5. CachesTyped' /\ PermitsTyped' /\ UNCHANGED caps
    BY <2>1, <2>4 DEF Typed, CachesTyped, PermitsTyped, permits
  <2>6. RequestsTyped'
    <3>1. Len(caps') = Len(caps) /\ Len(caps) <= Len(caps) /\ Len(caches) <= Len(caches)
      BY <2>5
    <3> HIDE DEF r
    <3> QED BY <2>1, <2>2, <2>3, <2>4, <3>1, RequestStep DEF Typed
  <2>7. WorldTyped'
    BY <1>5 DEF DropResults, Typed, WorldTyped, world
  <2> QED BY <2>5, <2>6, <2>7 DEF Typed
<1> QED BY <1>1, <1>2, <1>3, <1>4, <1>5 DEF Resolve

LEMMA AdmitTyped ==
  ASSUME Typed, NEW s \in Slots, Admit(s)
  PROVE  Typed'
<1> USE TypedRequest
<1>1. CASE SetCeiling(s)
  <2> DEFINE r == [req[s] EXCEPT !.pc = "quota"]
  <2>1. req' = [req EXCEPT ![s] = r] /\ UNCHANGED <<cacheVars, caps>>
    BY <1>1 DEF SetCeiling, Goto
  <2>2. r \in Request
    BY DEF Request, Pcs
  <2>3. Placed(r, Len(caps), Len(caches))
    BY <1>1 DEF SetCeiling, At, Request, Placed
  <2>4. PermitsTyped' /\ CachesTyped'
    <3>1. Tuning(s).limit \in Nat
      BY <1>1, CoreIsAVersion DEF SetCeiling, At
    <3> QED BY <1>1, <3>1 DEF SetCeiling, Ceiling, Typed, PermitsTyped, CachesTyped, cacheVars
  <2>5. RequestsTyped'
    <3>1. Len(caps) <= Len(caps) /\ Len(caches) <= Len(caches) /\ caches' = caches /\ caps' = caps
      BY <2>1 DEF cacheVars
    <3> HIDE DEF r
    <3> QED BY <2>1, <2>2, <2>3, <3>1, RequestStep, Zenon DEF Typed
  <2>6. WorldTyped'
    BY <1>1 DEF SetCeiling, Typed, WorldTyped, config, world
  <2> QED BY <2>4, <2>5, <2>6 DEF Typed
<1>2. CASE RefuseQuota(s)
  <2>1. req' = [req EXCEPT ![s] = Fresh] /\ UNCHANGED <<cacheVars, permits>>
    BY <1>2 DEF RefuseQuota
  <2>2. Fresh \in Request /\ Placed(Fresh, Len(caps), Len(caches))
    BY FreshRequest
  <2>3. WorldTyped'
    BY <1>2 DEF RefuseQuota, Typed, WorldTyped, config, world
  <2> QED BY <2>1, <2>2, <2>3, QuietStep DEF Typed
<1>3. CASE AskPermit(s)
  <2> DEFINE ceiling == IF req[s].kind \in {"plain", "stream"} THEN sem ELSE Ceiling(s)
             fresh == ceiling.limit > 0 /\ ceiling.object = 0
             object == IF ceiling.limit = 0 THEN 0
                       ELSE IF fresh THEN Len(caps) + 1 ELSE ceiling.object
             r == [req[s] EXCEPT !.pc = "waiting", !.permit = object]
  <2>1. ceiling \in [limit : Nat, object : Nat] /\ ceiling.object <= Len(caps)
    <3>1. Tuning(s).limit \in Nat
      BY <1>3, CoreIsAVersion DEF AskPermit, AtQuota, At
    <3> QED BY <3>1 DEF Ceiling, Typed, PermitsTyped
  <2>2. /\ sem' = [ceiling EXCEPT !.object = IF fresh THEN object ELSE @]
        /\ caps' = IF fresh THEN Append(caps, ceiling.limit) ELSE caps
        /\ req' = [req EXCEPT ![s] = r]
        /\ UNCHANGED cacheVars
    BY <1>3 DEF AskPermit
  <2> HIDE DEF ceiling
  <2>3. /\ caps' \in Seq(Nat) /\ Len(caps') \in Nat /\ Len(caps) <= Len(caps')
        /\ object \in Nat /\ object <= Len(caps')
    BY <2>1, <2>2 DEF Typed, PermitsTyped
  <2>4. PermitsTyped' /\ CachesTyped'
    BY <2>1, <2>2, <2>3 DEF Typed, PermitsTyped, CachesTyped, cacheVars
  <2> HIDE DEF object
  <2>5. r \in Request
    BY <2>3 DEF Request, Pcs
  <2>6. Placed(r, Len(caps'), Len(caches))
    BY <1>3, <2>3 DEF AskPermit, AtQuota, At, Request, Placed
  <2>7. RequestsTyped'
    <3>1. Len(caches) <= Len(caches) /\ caches' = caches
      BY <2>2 DEF cacheVars
    <3> HIDE DEF r
    <3> QED BY <2>2, <2>3, <2>5, <2>6, <3>1, RequestStep, Zenon DEF Typed
  <2>8. WorldTyped'
    BY <1>3 DEF AskPermit, Typed, WorldTyped, config, world
  <2> QED BY <2>4, <2>7, <2>8 DEF Typed
<1>4. CASE Enter(s)
  <2>1. /\ caches' \in Seq(Entries) /\ current' \in 0..Len(caches')
        /\ Len(caches') \in Nat /\ Len(caches) <= Len(caches')
        /\ req[s].kind \in Answering => current' # 0
        /\ UNCHANGED permits
    <3>1. Append(caches, <<>>) \in Seq(Entries) /\ Len(Append(caches, <<>>)) = Len(caches) + 1
      BY EmptyEntries DEF Typed, CachesTyped
    <3> QED BY <1>4, <3>1 DEF Enter, Typed, CachesTyped, cacheVars
  <2> DEFINE r == IF req[s].kind \in Answering THEN [req[s] EXCEPT !.pc = "lookup", !.cache = current']
                  ELSE [req[s] EXCEPT !.pc = "compute"]
  <2>2. req' = [req EXCEPT ![s] = r]
    BY <1>4 DEF Enter, Goto
  <2>3. r \in Request
    <3>1. current' \in Nat
      BY <2>1
    <3> QED BY <3>1 DEF Request, Pcs, Inside
  <2>4. Placed(r, Len(caps), Len(caches'))
    BY <1>4, <2>1 DEF Enter, At, Request, Placed
  <2>5. PermitsTyped' /\ CachesTyped'
    BY <2>1 DEF Typed, PermitsTyped, CachesTyped, permits
  <2>6. RequestsTyped'
    <3>1. Len(caps) <= Len(caps) /\ caps' = caps
      BY <2>1 DEF permits
    <3> HIDE DEF r
    <3> QED BY <2>1, <2>2, <2>3, <2>4, <3>1, RequestStep, Zenon DEF Typed
  <2>7. WorldTyped'
    BY <1>4 DEF Enter, Typed, WorldTyped, config, world
  <2> QED BY <2>5, <2>6, <2>7 DEF Typed
<1> QED BY <1>1, <1>2, <1>3, <1>4 DEF Admit

LEMMA WorkTyped ==
  ASSUME Typed, NEW s \in Slots, Work(s)
  PROVE  Typed'
<1> USE TypedRequest
<1>k. req[s].pc = "lookup" => /\ caches[req[s].cache] \in Entries /\ req[s].cache \in 1..Len(caches)
                              /\ CacheKey(s) \in KeyType /\ CacheKey(s) # <<>>
  <2>1. req[s].pc = "lookup" => CacheKey(s) \in KeyType /\ CacheKey(s) # <<>>
    <3>1. req[s].pc = "lookup" => CacheKey(s) \in KeyType
      BY KeyTyped DEF Placed
    <3>2. \A k \in KeyType : k # <<>>
      BY KeyIsNotNone
    <3> QED BY <3>1, <3>2
  <2>2. req[s].pc = "lookup" => req[s].cache \in 1..Len(caches)
    BY DEF Placed, Request
  <2> QED BY <2>1, <2>2, ElementOfSeq DEF Typed, CachesTyped
<1>1. CASE Hit(s)
  <2> DEFINE result == caches[req[s].cache][CacheKey(s)]
             r == [req[s] EXCEPT !.pc = "answered", !.hit = TRUE, !.result = result]
  <2>1. req' = [req EXCEPT ![s] = r] /\ UNCHANGED <<cacheVars, permits>>
    BY <1>1 DEF Hit
  <2>2. result \in Results
    BY <1>1, <1>k, EntryType DEF Hit, At
  <2> HIDE DEF result
  <2>3. r \in Request
    BY <2>2 DEF Request, Pcs, Inside
  <2>4. Placed(r, Len(caps), Len(caches))
    BY <1>1, <2>2 DEF Hit, At, Request, Placed
  <2>5. WorldTyped'
    BY <1>1 DEF Hit, Typed, WorldTyped, config, world
  <2> HIDE DEF r
  <2> QED BY <2>1, <2>3, <2>4, <2>5, QuietStep DEF Typed
<1>2. CASE Miss(s)
  <2> DEFINE kept == [k \in DOMAIN caches[req[s].cache] \ {CacheKey(s)} |-> caches[req[s].cache][k]]
  <2>1. kept \in Entries
    <3> DEFINE K == DOMAIN caches[req[s].cache] \ {CacheKey(s)}
    <3>1. \A k \in K : k \in KeyType /\ caches[req[s].cache][k] \in Results
      BY <1>2, <1>k, EntryType DEF Miss, At
    <3>2. K \in SUBSET KeyType /\ kept \in [K -> Results]
      BY <3>1
    <3> QED BY <3>2, EntriesOf
  <2>2. \E r \in {[req[s] EXCEPT !.pc = "compute"], [req[s] EXCEPT !.pc = "compute", !.key = CacheKey(s)]} :
           req' = [req EXCEPT ![s] = r]
    BY <1>2 DEF Miss
  <2>3. caches' \in {caches, [caches EXCEPT ![req[s].cache] = kept]} /\ UNCHANGED <<current, permits>>
    BY <1>2 DEF Miss
  <2>4. PICK r : /\ r \in {[req[s] EXCEPT !.pc = "compute"],
                           [req[s] EXCEPT !.pc = "compute", !.key = CacheKey(s)]}
                 /\ req' = [req EXCEPT ![s] = r]
    BY <2>2
  <2> HIDE DEF kept
  <2>5. caches' \in Seq(Entries) /\ Len(caches') = Len(caches)
    BY <2>1, <2>3, <1>k, <1>2 DEF Miss, At, Typed, CachesTyped
  <2>6. r \in Request
    BY <2>4, <1>2, <1>k DEF Miss, At, Request, Pcs, Inside
  <2>7. Placed(r, Len(caps), Len(caches))
    BY <2>4, <1>2 DEF Miss, At, Request, Placed
  <2>8. RequestsTyped'
    <3>1. Len(caps) <= Len(caps) /\ Len(caches) <= Len(caches) /\ caps' = caps
      BY <2>3 DEF permits
    <3> QED BY <2>4, <2>5, <2>6, <2>7, <3>1, RequestStep, Zenon DEF Typed
  <2>9. WorldTyped' /\ PermitsTyped' /\ CachesTyped'
    BY <1>2, <2>3, <2>5 DEF Miss, Typed, WorldTyped, PermitsTyped, CachesTyped, config, world, permits
  <2> QED BY <2>8, <2>9 DEF Typed
<1>3. CASE Compute(s)
  <2> DEFINE result == [config |-> req[s].core, epoch |-> Len(index), asker |-> Asker(s)]
             r == [req[s] EXCEPT !.pc = "answered", !.result = result]
  <2>1. req' = [req EXCEPT ![s] = r] /\ UNCHANGED <<cacheVars, permits>>
    BY <1>3 DEF Compute
  <2>2. result \in Results
    <3>1. req[s].core \in Versions /\ req[s].core # 0
      BY <1>3, CoreIsAVersion DEF Compute, At, Placed
    <3>2. Asker(s) \in Callers \cup {Nobody}
      BY <3>1, KeyTyped
    <3> QED BY <3>1, <3>2 DEF Results, Typed, WorldTyped
  <2> HIDE DEF result
  <2>3. r \in Request
    BY <2>2 DEF Request, Pcs, Inside
  <2>4. Placed(r, Len(caps), Len(caches))
    BY <1>3, <2>2 DEF Compute, At, Request, Placed
  <2>5. WorldTyped'
    BY <1>3 DEF Compute, Typed, WorldTyped, config, world
  <2> HIDE DEF r
  <2> QED BY <2>1, <2>3, <2>4, <2>5, QuietStep DEF Typed
<1>4. CASE Fail(s)
  <2> DEFINE r == IF req[s].kind = "stream" THEN [req[s] EXCEPT !.pc = "done"] ELSE Fresh
  <2>1. req' = [req EXCEPT ![s] = r] /\ UNCHANGED <<cacheVars, permits>>
    BY <1>4 DEF Fail, Goto
  <2>2. r \in Request
    BY FreshRequest DEF Request, Pcs, Inside
  <2>3. Placed(r, Len(caps), Len(caches))
    BY <1>4, FreshRequest DEF Fail, At, Request, Placed
  <2>4. WorldTyped'
    BY <1>4 DEF Fail, Typed, WorldTyped, config, world
  <2> HIDE DEF r
  <2> QED BY <2>1, <2>2, <2>3, <2>4, QuietStep DEF Typed
<1>5. CASE Answer(s)
  <2> DEFINE r == [Fresh EXCEPT !.pc = IF req[s].kind = "stream" THEN "charge" ELSE "record",
                     !.kind = req[s].kind, !.caller = req[s].caller, !.core = req[s].core,
                     !.permit = IF req[s].kind = "stream" THEN req[s].permit ELSE 0]
             old == caches[req[s].cache]
             entries == [k \in DOMAIN old \cup {req[s].key} |-> IF k = req[s].key THEN req[s].result ELSE old[k]]
  <2>1. req' = [req EXCEPT ![s] = r] /\ UNCHANGED <<current, permits>>
    BY <1>5 DEF Answer, Return
  <2>2. r \in Request
    BY FreshRequest DEF Request, Fresh, Pcs, Inside
  <2>3. Placed(r, Len(caps), Len(caches))
    BY <1>5 DEF Answer, At, Request, Placed, Fresh
  <2>4. caches' = caches \/ (req[s].key # <<>> /\ caches' = [caches EXCEPT ![req[s].cache] = entries])
    BY <1>5 DEF Answer, Put, StoreKey
  <2>5. req[s].key # <<>> => req[s].cache \in 1..Len(caches) /\ entries \in Entries
    <3> SUFFICES ASSUME req[s].key # <<>> PROVE req[s].cache \in 1..Len(caches) /\ entries \in Entries
      OBVIOUS
    <3>1. req[s].cache \in 1..Len(caches) /\ req[s].key \in KeyType /\ req[s].result \in Results
      BY <1>5 DEF Answer, At, Placed, Request
    <3>2. caches[req[s].cache] \in Entries
      BY <3>1, ElementOfSeq DEF Typed, CachesTyped
    <3>3. \A k \in DOMAIN old \cup {req[s].key} : k \in KeyType /\ entries[k] \in Results
      BY <3>1, <3>2, EntryType
    <3>4. DOMAIN old \cup {req[s].key} \in SUBSET KeyType
          /\ entries \in [DOMAIN old \cup {req[s].key} -> Results]
      BY <3>3
    <3> HIDE DEF entries
    <3> QED BY <3>1, <3>4, EntriesOf
  <2> HIDE DEF entries
  <2>6. caches' \in Seq(Entries) /\ Len(caches') = Len(caches)
    BY <2>4, <2>5 DEF Typed, CachesTyped
  <2>7. RequestsTyped'
    <3>1. Len(caps) <= Len(caps) /\ Len(caches) <= Len(caches) /\ caps' = caps
      BY <2>1 DEF permits
    <3> HIDE DEF r
    <3> QED BY <2>1, <2>2, <2>3, <2>6, <3>1, RequestStep, Zenon DEF Typed
  <2>8. WorldTyped' /\ PermitsTyped' /\ CachesTyped'
    BY <1>5, <2>1, <2>6 DEF Answer, Typed, WorldTyped, PermitsTyped, CachesTyped, config, world, permits
  <2> QED BY <2>7, <2>8 DEF Typed
<1> QED BY <1>1, <1>2, <1>3, <1>4, <1>5 DEF Work

LEMMA FinishTyped ==
  ASSUME Typed, NEW s \in Slots, Finish(s) \/ Hangup(s)
  PROVE  Typed'
<1> USE TypedRequest
<1>1. CASE Record(s)
  <2> DEFINE r == IF At(s, "charge") THEN [req[s] EXCEPT !.pc = "done"] ELSE Fresh
  <2>1. req' = [req EXCEPT ![s] = r] /\ UNCHANGED <<cacheVars, permits>>
    BY <1>1 DEF Record, Goto
  <2>2. r \in Request
    BY FreshRequest DEF Request, Pcs, Inside
  <2>3. Placed(r, Len(caps), Len(caches))
    BY <1>1, FreshRequest DEF Record, At, Request, Placed
  <2>4. WorldTyped'
    <3>1. usage' \in [Keys -> Nat]
      BY <1>1, Constants DEF Record, Limited, Typed, WorldTyped
    <3> QED BY <1>1, <3>1 DEF Record, Typed, WorldTyped, config
  <2> HIDE DEF r
  <2> QED BY <2>1, <2>2, <2>3, <2>4, QuietStep DEF Typed
<1>2. CASE CloseStream(s)
  <2>1. req' = [req EXCEPT ![s] = Fresh] /\ UNCHANGED <<cacheVars, permits>>
    BY <1>2 DEF CloseStream
  <2>2. Fresh \in Request /\ Placed(Fresh, Len(caps), Len(caches))
    BY FreshRequest
  <2>3. WorldTyped'
    BY <1>2 DEF CloseStream, Typed, WorldTyped, config, world
  <2> QED BY <2>1, <2>2, <2>3, QuietStep DEF Typed
<1>3. CASE Drain(s) \/ Hangup(s)
  BY <1>3 DEF Drain, Hangup, Typed, WorldTyped, PermitsTyped, CachesTyped, RequestsTyped,
              config, cacheVars, permits, world
<1> QED BY <1>1, <1>2, <1>3 DEF Finish

LEMMA EnvironmentTyped ==
  ASSUME Typed, Environment
  PROVE  Typed'
<1>1. CASE SaveSettings
  <2>1. version' \in Versions
    BY <1>1, Constants DEF SaveSettings, Typed, WorldTyped, Versions
  <2> QED BY <1>1, <2>1 DEF SaveSettings, Typed, WorldTyped, PermitsTyped, CachesTyped, RequestsTyped,
                            cacheVars, permits, world
<1>2. ASSUME NEW d \in Docs, Reindex(d) PROVE Typed'
  <2>1. Len(index) \in Nat /\ MaxEpochs \in Nat /\ Content \in [Docs -> Stamps]
    BY Constants, ContentTyped DEF Typed, WorldTyped
  <2>2. PICK stamp \in {0, Len(index) + 1} : index' = Append(index, [Content EXCEPT ![d] = stamp])
    BY <1>2 DEF Reindex
  <2>3. stamp \in Stamps
    BY <1>2, <2>1, <2>2 DEF Reindex, Stamps
  <2>4. [Content EXCEPT ![d] = stamp] \in [Docs -> Stamps]
    BY <2>1, <2>3
  <2>5. index' \in Seq([Docs -> Stamps]) /\ Len(index') = Len(index) + 1
    BY <2>2, <2>4 DEF Typed, WorldTyped
  <2>6. WorldTyped'
    BY <1>2, <2>1, <2>5 DEF Reindex, Typed, WorldTyped, config
  <2> QED BY <1>2, <2>6 DEF Reindex, Typed, PermitsTyped, CachesTyped, RequestsTyped, cacheVars, permits
<1>3. CASE Midnight
  BY <1>3 DEF Midnight, Typed, WorldTyped, PermitsTyped, CachesTyped, RequestsTyped, config, cacheVars, permits
<1> QED BY <1>1, <1>2, <1>3 DEF Environment

LEMMA TypedInductive ==
  ASSUME Typed, [Next]_vars
  PROVE  Typed'
<1>1. CASE Next
  BY <1>1, EnvironmentTyped, ArriveTyped, ResolveTyped, AdmitTyped, WorkTyped, FinishTyped DEF Next
<1>2. CASE UNCHANGED vars
  BY <1>2 DEF vars, config, cacheVars, permits, stream, world,
              Typed, WorldTyped, PermitsTyped, CachesTyped, RequestsTyped
<1> QED BY <1>1, <1>2

-----------------------------------------------------------------------------
(* The inductive invariants, one for each of the stories above              *)

Early == {"idle", "version", "compare"}

\* The core cache and the requests never get ahead of the version in app.db; a
\* request that looked for a core has none of a version older than it saw.
Followed ==
    /\ coreCache.built = coreCache.stamp /\ coreCache.stamp <= version
    /\ \A s \in Slots :
         /\ req[s].seen <= version /\ req[s].core <= version
         /\ req[s].pc \in Early => req[s].core = 0
         /\ req[s].core # 0 => req[s].seen <= req[s].core

\* No save has changed the ceiling of the first settings.
OneCeiling ==
    Settings[1].limit > 0 /\ \A v \in 1..version : Settings[v].limit = Settings[1].limit

Running == {s \in Slots : req[s].pc \in Inside}

\* One semaphore of that capacity, and whoever waits or runs is at its door or has
\* passed it.
Gate ==
    /\ sem.limit = Settings[1].limit /\ sem.object = Len(caps) /\ Len(caps) <= 1
    /\ \A i \in 1..Len(caps) : caps[i] = Settings[1].limit
    /\ \A s \in Slots : req[s].pc \in {"waiting"} \cup Inside => req[s].permit = 1 /\ Len(caps) = 1

OneSemaphore == OneCeiling => Gate /\ Cardinality(Running) <= Settings[1].limit

Quotas == {Settings[v].quota : v \in Versions}

\* The requests of a key that have passed the check of the quota and not yet been charged.
Owed == {"waiting", "lookup", "compute", "answered", "charge", "record"}
Owing(k) == {s \in Slots : req[s].caller = k /\ req[s].kind \in Billed /\ req[s].pc \in Owed}

\* What is spent and what is still owed stay below the bound together.
Solvent ==
    0 \notin Quotas => \A k \in Keys :
        usage[k] + Cost * Cardinality(Owing(k)) < Max(Quotas) + Cost * Cardinality(Slots)

\* A result carries the asker of the key it is stored under.
AskersFit ==
    /\ \A i \in 1..Len(caches) : \A k \in DOMAIN caches[i] : caches[i][k].asker = k[2]
    /\ \A s \in Slots :
         /\ req[s].pc \notin {"compute", "answered", "done"} => req[s].key = <<>>
         /\ req[s].pc # "answered" => ~req[s].hit
         /\ req[s].key # <<>> => req[s].key[2] = Asker(s)
         /\ req[s].key # <<>> /\ req[s].pc = "answered" => req[s].result.asker = req[s].key[2]
         /\ req[s].hit => req[s].result.asker = Asker(s)

\* A document that is in a later content too is either as it was, or was written since.
StampsGrow ==
    \A e \in 1..Len(index), d \in Docs :
        /\ index[e][d] <= e
        /\ \A f \in e..Len(index) : index[f][d] \in {0, index[e][d]} \/ index[f][d] > e

\* The key was taken of one of the first contents, as many as epoch.
TakenBy(k, epoch, contents) == \E t \in 1..epoch : k[1] = IndexVersion(contents[t])

\* A result is of a content at least as new as the one its key was taken of.
KeysComeFirst ==
    /\ \A i \in 1..Len(caches) : \A k \in DOMAIN caches[i] :
          caches[i][k].epoch <= Len(index) /\ TakenBy(k, caches[i][k].epoch, index)
    /\ \A s \in Slots :
         /\ req[s].key # <<>> => TakenBy(req[s].key, Len(index), index)
         /\ req[s].pc = "answered" => req[s].result.epoch <= Len(index)
         /\ req[s].key # <<>> /\ req[s].pc = "answered" =>
               TakenBy(req[s].key, req[s].result.epoch, index)

\* What the client of a stream has been told and what waits in the queue, at each
\* place of the worker.
Said(pc, told, items) ==
    \/ pc \in {"waiting", "lookup", "compute"} /\ told = "open" /\ items = <<>>
    \/ pc = "answered" /\ told = "open" /\ items \in {<<>>, <<"event">>}
    \/ pc = "charge" /\ told = "open" /\ items \in {<<"event", "result">>, <<"result">>}
    \/ pc = "charge" /\ told = "told" /\ items = <<>>
    \/ pc = "done" /\ told = "open" /\ items \in {<<"event", "result", "sentinel">>,
                                                  <<"result", "sentinel">>, <<"error", "sentinel">>}
    \/ pc = "done" /\ told = "told" /\ items = <<"sentinel">>
    \/ pc \notin {"waiting"} \cup Inside /\ told = "closed" /\ items = <<>>

\* A client that has gone empties the queue for good.
Conversation(s) ==
    /\ IF req[s].kind = "stream"
       THEN /\ req[s].pc # "record"
            /\ client[s] => Said(req[s].pc, wire[s], out[s])
            /\ ~client[s] => \/ req[s].pc \in {"waiting"} \cup Inside /\ wire[s] = "open"
                             \/ req[s].pc \in {"charge", "done"} /\ wire[s] = "told"
       ELSE req[s].pc \notin {"charge", "done"} /\ wire[s] = "closed"
    /\ wire[s] = "closed" => out[s] = <<>> /\ client[s]
    /\ ~client[s] => out[s] = <<>>

Conversations ==
    /\ wire \in [Slots -> {"closed", "open", "told"}] /\ out = [s \in Slots |-> out[s]]
    /\ DOMAIN client = Slots /\ DOMAIN seq = Slots
    /\ \A s \in Slots : Conversation(s)

\* The traffic that is still to arrive is the end of a script.
Arriving ==
    \E whole \in Scripts : \E n \in 0..Len(whole) : script = SubSeq(whole, n + 1, Len(whole))

\* The fields of the requests, as the steps below need them.
LEMMA Shape ==
  ASSUME Typed
  PROVE  /\ DOMAIN req = Slots /\ req = [s \in Slots |-> req[s]]
         /\ \A s \in Slots : /\ DOMAIN req[s] = {"pc", "kind", "caller", "seen", "core", "cache",
                                                 "key", "permit", "result", "hit"}
                             /\ req[s] = [f \in DOMAIN req[s] |-> req[s][f]]
                             /\ req[s].seen \in Nat /\ req[s].core \in Nat /\ req[s].permit \in Nat
         /\ version \in Nat /\ coreCache.stamp \in Nat /\ coreCache.built \in Nat
<1>1. /\ req \in [Slots -> Request] /\ version \in Versions
      /\ coreCache \in [stamp : Versions, built : Versions]
  BY DEF Typed, WorldTyped, RequestsTyped
<1>2. \A v \in 0..Len(Settings) : v \in Nat
  BY Constants
<1>3. version \in Nat /\ coreCache.stamp \in Nat /\ coreCache.built \in Nat
  BY <1>1, <1>2, Constants DEF Versions
<1> QED BY <1>1, <1>2, <1>3 DEF Request

\* What a step with two outcomes leaves of its request.
LEMMA EnterStep ==
  ASSUME Typed, NEW s \in Slots, Enter(s)
  PROVE  /\ DOMAIN req' = Slots /\ \A t \in Slots \ {s} : req'[t] = req[t]
         /\ req'[s].pc = IF req[s].kind \in Answering THEN "lookup" ELSE "compute"
         /\ req'[s].cache = IF req[s].kind \in Answering THEN current' ELSE req[s].cache
         /\ req'[s].kind = req[s].kind /\ req'[s].caller = req[s].caller
         /\ req'[s].seen = req[s].seen /\ req'[s].core = req[s].core
         /\ req'[s].key = req[s].key /\ req'[s].permit = req[s].permit
         /\ req'[s].hit = req[s].hit /\ req'[s].result = req[s].result
<1>1. CASE req[s].kind \in Answering
  BY <1>1, Shape DEF Enter
<1>2. CASE req[s].kind \notin Answering
  BY <1>2, Shape DEF Enter, Goto
<1> QED BY <1>1, <1>2

LEMMA FailStep ==
  ASSUME Typed, NEW s \in Slots, Fail(s)
  PROVE  /\ DOMAIN req' = Slots /\ \A t \in Slots \ {s} : req'[t] = req[t]
         /\ req[s].kind # "stream" => req'[s] = Fresh
         /\ req[s].kind = "stream" =>
              /\ req'[s].pc = "done" /\ req'[s].kind = req[s].kind /\ req'[s].caller = req[s].caller
              /\ req'[s].seen = req[s].seen /\ req'[s].core = req[s].core
              /\ req'[s].key = req[s].key /\ req'[s].permit = req[s].permit
              /\ req'[s].hit = req[s].hit /\ req'[s].result = req[s].result
<1>1. CASE req[s].kind = "stream"
  BY <1>1, Shape DEF Fail, Goto
<1>2. CASE req[s].kind # "stream"
  BY <1>2, Shape DEF Fail
<1> QED BY <1>1, <1>2

LEMMA AnswerStep ==
  ASSUME Typed, NEW s \in Slots, Answer(s)
  PROVE  /\ DOMAIN req' = Slots /\ \A t \in Slots \ {s} : req'[t] = req[t]
         /\ req'[s].pc = IF req[s].kind = "stream" THEN "charge" ELSE "record"
         /\ req'[s].permit = IF req[s].kind = "stream" THEN req[s].permit ELSE 0
         /\ req'[s].kind = req[s].kind /\ req'[s].caller = req[s].caller
         /\ req'[s].core = req[s].core /\ req'[s].seen = 0 /\ req'[s].key = <<>> /\ ~req'[s].hit
<1> DEFINE r == [Fresh EXCEPT !.pc = IF req[s].kind = "stream" THEN "charge" ELSE "record",
                   !.kind = req[s].kind, !.caller = req[s].caller, !.core = req[s].core,
                   !.permit = IF req[s].kind = "stream" THEN req[s].permit ELSE 0]
<1>1. req' = [req EXCEPT ![s] = r]
  BY DEF Answer, Return
<1>2. /\ r.pc = IF req[s].kind = "stream" THEN "charge" ELSE "record"
      /\ r.permit = IF req[s].kind = "stream" THEN req[s].permit ELSE 0
      /\ r.kind = req[s].kind /\ r.caller = req[s].caller /\ r.core = req[s].core
      /\ r.seen = 0 /\ r.key = <<>> /\ ~r.hit
  BY DEF Fresh
<1> HIDE DEF r
<1> QED BY <1>1, <1>2, Shape

LEMMA RecordStep ==
  ASSUME Typed, NEW s \in Slots, Record(s)
  PROVE  /\ DOMAIN req' = Slots /\ \A t \in Slots \ {s} : req'[t] = req[t]
         /\ req[s].pc = "record" => req'[s] = Fresh
         /\ req[s].pc = "charge" =>
              /\ req'[s].pc = "done" /\ req'[s].kind = req[s].kind /\ req'[s].caller = req[s].caller
              /\ req'[s].seen = req[s].seen /\ req'[s].core = req[s].core
              /\ req'[s].key = req[s].key /\ req'[s].permit = req[s].permit
              /\ req'[s].hit = req[s].hit /\ req'[s].result = req[s].result
<1>1. CASE At(s, "charge")
  BY <1>1, Shape DEF Record, Goto, At
<1>2. CASE ~At(s, "charge")
  BY <1>2, Shape DEF Record, At
<1> QED BY <1>1, <1>2

\* Time goes one way: the version, the index and the objects made.
LEMMA VersionGrows ==
  ASSUME Typed, [Next]_vars
  PROVE  version' \in Nat /\ version <= version'
<1>1. version \in Nat
  BY Shape
<1>2. version' = version \/ version' = version + 1
  BY DEF Next, vars, config, Environment, SaveSettings, Reindex, Midnight, Arrive, Resolve,
         ReadVersion, TakeCore, BuildCore, PublishCore, DropResults, Admit, SetCeiling,
         RefuseQuota, AskPermit, Enter, Work, Hit, Miss, Compute, Fail, Answer, Finish, Record,
         Drain, Hangup, CloseStream
<1> QED BY <1>1, <1>2

LEMMA FollowedInductive ==
  ASSUME Typed, Followed, [Next]_vars
  PROVE  Followed'
<1> USE Shape DEF Followed, Early
<1>1. CASE Environment
  <2>1. CASE SaveSettings
    BY <2>1 DEF SaveSettings
  <2>2. CASE Midnight \/ \E d \in Docs : Reindex(d)
    BY <2>2 DEF Reindex, Midnight, config
  <2> QED BY <1>1, <2>1, <2>2 DEF Environment
<1>2. ASSUME NEW s \in Slots, Arrive(s) PROVE Followed'
  BY <1>2 DEF Arrive, Fresh, config
<1>3. ASSUME NEW s \in Slots, Resolve(s) PROVE Followed'
  <2>1. CASE ReadVersion(s)
    BY <2>1 DEF ReadVersion, At, config
  <2>2. CASE TakeCore(s)
    BY <2>2 DEF TakeCore, At, config
  <2>3. CASE BuildCore(s)
    BY <2>3 DEF BuildCore, At
  <2>4. CASE PublishCore(s)
    BY <2>4 DEF PublishCore, Goto, At
  <2>5. CASE DropResults(s)
    BY <2>5 DEF DropResults, Goto, At
  <2> QED BY <1>3, <2>1, <2>2, <2>3, <2>4, <2>5 DEF Resolve
<1>4. ASSUME NEW s \in Slots, Admit(s) PROVE Followed'
  <2>1. CASE SetCeiling(s)
    BY <2>1 DEF SetCeiling, Goto, At, config
  <2>2. CASE RefuseQuota(s)
    BY <2>2 DEF RefuseQuota, Fresh, config
  <2>3. CASE AskPermit(s)
    BY <2>3 DEF AskPermit, AtQuota, At, config
  <2>4. CASE Enter(s)
    <3>1. UNCHANGED <<version, coreCache>> /\ req[s].pc = "waiting"
      BY <2>4 DEF Enter, At, config
    <3> QED BY <2>4, <3>1, EnterStep
  <2> QED BY <1>4, <2>1, <2>2, <2>3, <2>4 DEF Admit
<1>5. ASSUME NEW s \in Slots, Work(s) PROVE Followed'
  <2>1. CASE Hit(s)
    BY <2>1 DEF Hit, At, config
  <2>2. CASE Miss(s)
    BY <2>2 DEF Miss, At, config
  <2>3. CASE Compute(s)
    BY <2>3 DEF Compute, At, config
  <2>4. CASE Fail(s)
    BY <2>4 DEF Fail, Goto, Fresh, At, config
  <2>5. CASE Answer(s)
    <3>1. UNCHANGED <<version, coreCache>> /\ req[s].pc = "answered"
      BY <2>5 DEF Answer, At, config
    <3> QED BY <2>5, <3>1, AnswerStep
  <2> QED BY <1>5, <2>1, <2>2, <2>3, <2>4, <2>5 DEF Work
<1>6. ASSUME NEW s \in Slots, Finish(s) \/ Hangup(s) PROVE Followed'
  <2>1. CASE Record(s)
    <3>1. UNCHANGED <<version, coreCache>> /\ req[s].pc \in {"record", "charge"}
      BY <2>1 DEF Record, At, config
    <3> QED BY <2>1, <3>1, RecordStep DEF Fresh
  <2>2. CASE CloseStream(s)
    BY <2>2 DEF CloseStream, Fresh, config
  <2>3. CASE Drain(s) \/ Hangup(s)
    BY <2>3 DEF Drain, Hangup, config
  <2> QED BY <1>6, <2>1, <2>2, <2>3 DEF Finish
<1>7. CASE UNCHANGED vars
  BY <1>7 DEF vars, config
<1> QED BY <1>1, <1>2, <1>3, <1>4, <1>5, <1>6, <1>7 DEF Next

LEMMA SlotSets ==
  ASSUME NEW S \in SUBSET Slots
  PROVE  /\ IsFiniteSet(S) /\ Cardinality(S) \in Nat /\ Cardinality(Slots) \in Nat
         /\ Cardinality(S) <= Cardinality(Slots)
         /\ \A T \in SUBSET S : IsFiniteSet(T) /\ Cardinality(T) \in Nat /\ Cardinality(T) <= Cardinality(S)
         /\ \A s \in Slots \ S : Cardinality(S \cup {s}) = Cardinality(S) + 1
         /\ \A s \in S : Cardinality(S \ {s}) = Cardinality(S) - 1
  BY Constants, FS_Subset, FS_CardinalityType, FS_AddElement, FS_RemoveElement

\* While the ceiling is the first one, every core in use has it.
LEMMA TheCeiling ==
  ASSUME Typed, Followed, OneCeiling
  PROVE  /\ Settings[1].limit \in Nat \ {0}
         /\ \A s \in Slots : req[s].pc \notin Early => Tuning(s).limit = Settings[1].limit
<1>1. \A s \in Slots : req[s].pc \notin Early => req[s].core \in 1..version
  BY CoreIsAVersion, Shape DEF Followed, Early, Versions
<1> QED BY <1>1, Constants DEF OneCeiling, Tuning

LEMMA GateInductive ==
  ASSUME Typed, Followed, OneCeiling, Gate, [Next]_vars
  PROVE  Gate'
<1> USE Shape DEF Gate, Inside
<1>0. Len(caps) \in Nat /\ sem \in [limit : Nat, object : Nat]
  BY DEF Typed, PermitsTyped
<1>1. CASE Environment
  BY <1>1 DEF Environment, SaveSettings, Reindex, Midnight, permits
<1>2. ASSUME NEW s \in Slots, Arrive(s) PROVE Gate'
  BY <1>2 DEF Arrive, Fresh, permits
<1>3. ASSUME NEW s \in Slots, Resolve(s) PROVE Gate'
  <2>1. CASE ReadVersion(s)
    BY <2>1 DEF ReadVersion, permits
  <2>2. CASE TakeCore(s)
    BY <2>2 DEF TakeCore, permits
  <2>3. CASE BuildCore(s)
    BY <2>3 DEF BuildCore, permits
  <2>4. CASE PublishCore(s)
    BY <2>4 DEF PublishCore, Goto, permits
  <2>5. CASE DropResults(s)
    BY <2>5 DEF DropResults, Goto, permits
  <2> QED BY <1>3, <2>1, <2>2, <2>3, <2>4, <2>5 DEF Resolve
<1>4. ASSUME NEW s \in Slots, Admit(s) PROVE Gate'
  <2>1. CASE SetCeiling(s)
    <3>1. Tuning(s).limit = Settings[1].limit
      BY <2>1, TheCeiling DEF SetCeiling, At, Early
    <3> QED BY <2>1, <3>1 DEF SetCeiling, Ceiling, Goto
  <2>2. CASE RefuseQuota(s)
    BY <2>2 DEF RefuseQuota, Fresh, permits
  <2>3. CASE AskPermit(s)
    <3>1. Tuning(s).limit = Settings[1].limit /\ Settings[1].limit \in Nat \ {0}
      BY <2>3, TheCeiling DEF AskPermit, AtQuota, At, Early
    <3>2. Ceiling(s) = sem
      BY <3>1 DEF Ceiling
    <3>3. /\ sem' = [sem EXCEPT !.object = 1] /\ caps' = IF sem.object = 0 THEN Append(caps, sem.limit) ELSE caps
          /\ req' = [req EXCEPT ![s].pc = "waiting", ![s].permit = 1]
      <4> DEFINE ceiling == IF req[s].kind \in {"plain", "stream"} THEN sem ELSE Ceiling(s)
                 fresh == ceiling.limit > 0 /\ ceiling.object = 0
                 object == IF ceiling.limit = 0 THEN 0
                           ELSE IF fresh THEN Len(caps) + 1 ELSE ceiling.object
      <4>1. /\ sem' = [ceiling EXCEPT !.object = IF fresh THEN object ELSE @]
            /\ caps' = IF fresh THEN Append(caps, ceiling.limit) ELSE caps
            /\ req' = [req EXCEPT ![s].pc = "waiting", ![s].permit = object]
        BY <2>3 DEF AskPermit
      <4>2. ceiling = sem
        BY <3>2
      <4>3. object = 1 /\ (fresh <=> sem.object = 0)
        BY <3>1, <4>2, <1>0
      <4>4. sem = [sem EXCEPT !.object = @]
        BY <1>0
      <4> HIDE DEF ceiling, fresh, object
      <4> QED BY <4>1, <4>2, <4>3, <4>4, <1>0
    <3>4. Len(caps') = 1 /\ caps'[1] = Settings[1].limit
      BY <3>3, <1>0 DEF Typed, PermitsTyped
    <3> QED BY <3>3, <3>4, <1>0
  <2>4. CASE Enter(s)
    <3>1. UNCHANGED <<sem, caps>> /\ req[s].pc = "waiting"
      BY <2>4 DEF Enter, At, permits
    <3> QED BY <2>4, <3>1, EnterStep
  <2> QED BY <1>4, <2>1, <2>2, <2>3, <2>4 DEF Admit
<1>5. ASSUME NEW s \in Slots, Work(s) PROVE Gate'
  <2>1. CASE Hit(s)
    BY <2>1 DEF Hit, At, permits
  <2>2. CASE Miss(s)
    BY <2>2 DEF Miss, At, permits
  <2>3. CASE Compute(s)
    BY <2>3 DEF Compute, At, permits
  <2>4. CASE Fail(s)
    <3>1. UNCHANGED <<sem, caps>> /\ req[s].pc = "compute"
      BY <2>4 DEF Fail, At, permits
    <3> QED BY <2>4, <3>1, FailStep DEF Fresh
  <2>5. CASE Answer(s)
    <3>1. UNCHANGED <<sem, caps>> /\ req[s].pc = "answered"
      BY <2>5 DEF Answer, At, permits
    <3> QED BY <2>5, <3>1, AnswerStep
  <2> QED BY <1>5, <2>1, <2>2, <2>3, <2>4, <2>5 DEF Work
<1>6. ASSUME NEW s \in Slots, Finish(s) \/ Hangup(s) PROVE Gate'
  <2>1. CASE Record(s)
    <3>1. UNCHANGED <<sem, caps>> /\ req[s].pc \in {"record", "charge"}
      BY <2>1 DEF Record, At, permits
    <3> QED BY <2>1, <3>1, RecordStep DEF Fresh
  <2>2. CASE CloseStream(s)
    BY <2>2 DEF CloseStream, Fresh, permits
  <2>3. CASE Drain(s) \/ Hangup(s)
    BY <2>3 DEF Drain, Hangup, permits
  <2> QED BY <1>6, <2>1, <2>2, <2>3 DEF Finish
<1>7. CASE UNCHANGED vars
  BY <1>7 DEF vars, permits
<1> QED BY <1>1, <1>2, <1>3, <1>4, <1>5, <1>6, <1>7 DEF Next

\* Only Enter lets a request in, only AskPermit lets it past the quota, and neither
\* its kind nor its caller changes before it is charged.
Stays(t) ==
    /\ req'[t].pc \in Inside => req[t].pc \in Inside \/ Enter(t)
    /\ req'[t].pc \in Owed => /\ req[t].pc \in Owed \/ AskPermit(t)
                              /\ req'[t].kind = req[t].kind /\ req'[t].caller = req[t].caller

LEMMA RequestsStay ==
  ASSUME Typed, [Next]_vars, NEW t \in Slots
  PROVE  Stays(t)
<1> USE Shape DEF Stays, Inside, Owed
<1>1. CASE Environment
  BY <1>1 DEF Environment, SaveSettings, Reindex, Midnight
<1>2. ASSUME NEW s \in Slots, Arrive(s) PROVE Stays(t)
  BY <1>2 DEF Arrive, Fresh
<1>3. ASSUME NEW s \in Slots, Resolve(s) PROVE Stays(t)
  <2>1. CASE ReadVersion(s)
    BY <2>1 DEF ReadVersion
  <2>2. CASE TakeCore(s)
    BY <2>2 DEF TakeCore
  <2>3. CASE BuildCore(s)
    BY <2>3 DEF BuildCore
  <2>4. CASE PublishCore(s) \/ DropResults(s)
    BY <2>4 DEF PublishCore, DropResults, Goto
  <2> QED BY <1>3, <2>1, <2>2, <2>3, <2>4 DEF Resolve
<1>4. ASSUME NEW s \in Slots, Admit(s) PROVE Stays(t)
  <2>1. CASE SetCeiling(s)
    BY <2>1 DEF SetCeiling, Goto
  <2>2. CASE RefuseQuota(s)
    BY <2>2 DEF RefuseQuota, Fresh
  <2>3. CASE AskPermit(s)
    <3>1. \E p : req' = [req EXCEPT ![s].pc = "waiting", ![s].permit = p]
      BY <2>3 DEF AskPermit
    <3> QED BY <2>3, <3>1
  <2>4. CASE Enter(s)
    <3>1. req[s].pc = "waiting"
      BY <2>4 DEF Enter, At
    <3> QED BY <2>4, <3>1, EnterStep
  <2> QED BY <1>4, <2>1, <2>2, <2>3, <2>4 DEF Admit
<1>5. ASSUME NEW s \in Slots, Work(s) PROVE Stays(t)
  <2>1. CASE Hit(s)
    BY <2>1 DEF Hit, At
  <2>2. CASE Miss(s)
    BY <2>2 DEF Miss, At
  <2>3. CASE Compute(s)
    BY <2>3 DEF Compute, At
  <2>4. CASE Fail(s)
    <3>1. req[s].pc = "compute"
      BY <2>4 DEF Fail, At
    <3> QED BY <2>4, <3>1, FailStep DEF Fresh
  <2>5. CASE Answer(s)
    <3>1. req[s].pc = "answered"
      BY <2>5 DEF Answer, At
    <3> QED BY <2>5, <3>1, AnswerStep
  <2> QED BY <1>5, <2>1, <2>2, <2>3, <2>4, <2>5 DEF Work
<1>6. ASSUME NEW s \in Slots, Finish(s) \/ Hangup(s) PROVE Stays(t)
  <2>1. CASE Record(s)
    <3>1. req[s].pc \in {"record", "charge"}
      BY <2>1 DEF Record, At
    <3> QED BY <2>1, <3>1, RecordStep DEF Fresh
  <2>2. CASE CloseStream(s)
    BY <2>2 DEF CloseStream, Fresh
  <2>3. CASE Drain(s) \/ Hangup(s)
    BY <2>3 DEF Drain, Hangup
  <2> QED BY <1>6, <2>1, <2>2, <2>3 DEF Finish
<1>7. CASE UNCHANGED vars
  BY <1>7 DEF vars
<1> QED BY <1>1, <1>2, <1>3, <1>4, <1>5, <1>6, <1>7 DEF Next

LEMMA OneSemaphoreInductive ==
  ASSUME Typed, Followed, OneSemaphore, [Next]_vars
  PROVE  OneSemaphore'
<1> SUFFICES ASSUME OneCeiling' PROVE Gate' /\ (Cardinality(Running) <= Settings[1].limit)'
  BY DEF OneSemaphore
<1>1. OneCeiling
  <2>1. version' \in Nat /\ version <= version' /\ version \in Nat
    BY VersionGrows, Shape
  <2> QED BY <2>1 DEF OneCeiling
<1>2. Gate /\ Cardinality(Running) <= Settings[1].limit /\ Settings[1].limit \in Nat
  BY <1>1, TheCeiling DEF OneSemaphore
<1>3. Gate'
  BY <1>1, <1>2, GateInductive
<1>4. Cardinality(Running') <= Settings[1].limit
  <2>1. ASSUME NEW s \in Slots, Enter(s) PROVE Cardinality(Running') <= Settings[1].limit
    <3>1. req[s].pc = "waiting" /\ req[s].permit = 1 /\ caps[1] = Settings[1].limit
      BY <2>1, <1>2 DEF Enter, At, Gate
    <3>2. Holders(1) = Running
      BY <1>2 DEF Gate, Holders, Running
    <3>3. Cardinality(Running) < Settings[1].limit
      BY <2>1, <3>1, <3>2 DEF Enter
    <3>4. Running' \subseteq Running \cup {s}
      BY <2>1, EnterStep DEF Running
    <3>5. s \in Slots \ Running /\ Running \in SUBSET Slots /\ Running \cup {s} \in SUBSET Slots
      BY <3>1 DEF Running, Inside
    <3>6. Cardinality(Running \cup {s}) = Cardinality(Running) + 1
      BY <3>5, SlotSets
    <3>7. Cardinality(Running') <= Cardinality(Running \cup {s}) /\ Cardinality(Running') \in Nat
      BY <3>4, <3>5, SlotSets
    <3>8. Cardinality(Running) \in Nat
      BY <3>5, SlotSets
    <3> QED BY <3>3, <3>6, <3>7, <3>8, <1>2
  <2>2. CASE ~\E s \in Slots : Enter(s)
    <3>1. Running' \subseteq Running /\ Running \in SUBSET Slots
      BY <2>2, RequestsStay DEF Running, Stays
    <3>2. Cardinality(Running') <= Cardinality(Running) /\ Cardinality(Running') \in Nat /\ Cardinality(Running) \in Nat
      BY <3>1, SlotSets
    <3> QED BY <3>2, <1>2
  <2> QED BY <2>1, <2>2
<1> QED BY <1>3, <1>4

-----------------------------------------------------------------------------
(* The quota                                                               *)

LEMMA Quotients ==
  /\ Quotas \subseteq Nat /\ \A q \in Quotas : Max(Quotas) >= q
  /\ Max(Quotas) \in Quotas
<1>1. Quotas \subseteq Nat /\ Quotas # {}
  BY Constants DEF Quotas
<1>2. IsFiniteSet(Quotas)
  <2>1. IsFiniteSet(Versions)
    BY Constants, FS_Interval DEF Versions
  <2> DEFINE f == [v \in Versions |-> Settings[v].quota]
  <2>2. f \in Surjection(Versions, Quotas)
    BY DEF Surjection, Quotas
  <2> QED BY <2>1, <2>2, FS_Surjection
<1>3. Max(Quotas) \in Quotas /\ \A q \in Quotas : Max(Quotas) >= q
  BY <1>1, <1>2, MaxIsGreatest
<1> QED BY <1>1, <1>3

LEMMA Bills ==
  ASSUME NEW a \in Nat, NEW b \in Nat, a <= b
  PROVE  Cost * a \in Nat /\ Cost * a <= Cost * b
  BY Constants

LEMMA OneBill ==
  ASSUME NEW a \in Nat, NEW b \in Nat, a + 1 <= b
  PROVE  Cost * a + Cost <= Cost * b
<1>1. Cost * (a + 1) = Cost * a + Cost
  BY Constants
<1>2. Cost * (a + 1) <= Cost * b
  BY Constants
<1> QED BY <1>1, <1>2

LEMMA SolventInductive ==
  ASSUME Typed, Solvent, [Next]_vars
  PROVE  Solvent'
<1> SUFFICES ASSUME 0 \notin Quotas, NEW k \in Keys
             PROVE  usage'[k] + Cost * Cardinality(Owing(k)') < Max(Quotas) + Cost * Cardinality(Slots)
  BY DEF Solvent, Quotas, Versions
<1> DEFINE old == Cardinality(Owing(k))
           new == Cardinality(Owing(k)')
           all == Cardinality(Slots)
<1>1. /\ old \in Nat /\ new \in Nat /\ all \in Nat /\ new <= all
      /\ Owing(k)' \subseteq Owing(k) => new <= old
      /\ \A s \in Owing(k) : Owing(k)' \subseteq Owing(k) \ {s} => new + 1 <= old
  <2>1. Owing(k) \in SUBSET Slots /\ Owing(k)' \in SUBSET Slots
    BY DEF Owing
  <2>2. old \in Nat /\ new \in Nat /\ all \in Nat /\ new <= all
    BY <2>1, SlotSets
  <2>3. Owing(k)' \subseteq Owing(k) => new <= old
    BY <2>1, SlotSets
  <2>4. ASSUME NEW s \in Owing(k), Owing(k)' \subseteq Owing(k) \ {s} PROVE new + 1 <= old
    <3>1. Owing(k) \ {s} \in SUBSET Slots /\ Cardinality(Owing(k) \ {s}) = old - 1
      BY <2>1, SlotSets
    <3>2. new <= old - 1
      BY <2>4, <3>1, SlotSets
    <3> QED BY <2>2, <3>2
  <2> QED BY <2>2, <2>3, <2>4
<1>2. usage[k] + Cost * old < Max(Quotas) + Cost * all
  BY DEF Solvent
<1>3. usage[k] \in Nat /\ usage'[k] \in Nat /\ Max(Quotas) \in Nat \ {0}
  <2>1. Typed'
    BY TypedInductive
  <2> QED BY <2>1, Quotients DEF Typed, WorldTyped
<1>4. Cost * old \in Nat /\ Cost * new \in Nat /\ Cost * all \in Nat /\ Cost * new <= Cost * all
      /\ Cost \in Nat
  BY <1>1, Bills, Constants
<1> HIDE DEF old, new, all
<1>5. CASE \E s \in Slots : AskPermit(s) /\ req[s].caller = k /\ req[s].kind \in Billed
  <2>1. PICK s \in Slots : AskPermit(s) /\ req[s].caller = k /\ req[s].kind \in Billed
    BY <1>5
  <2>2. Tuning(s).quota \in Nat /\ Tuning(s).quota <= Max(Quotas) /\ Tuning(s).quota > 0
    <3>1. req[s].core \in Versions
      BY <2>1, CoreIsAVersion DEF AskPermit, AtQuota, At
    <3>2. Tuning(s).quota \in Quotas
      BY <3>1 DEF Tuning, Quotas
    <3>3. Tuning(s).quota \in Nat \ {0} /\ Max(Quotas) \in Nat
      BY <3>2, Quotients
    <3>4. Max(Quotas) >= Tuning(s).quota
      BY <3>2, Quotients
    <3> QED BY <3>3, <3>4
  <2>3. usage[k] < Tuning(s).quota /\ usage' = usage
    BY <2>1, <2>2 DEF AskPermit, Mayspend, Limited, world
  <2> QED BY <2>2, <2>3, <1>3, <1>4 DEF new, all
<1>6. CASE Midnight
  BY <1>6, <1>3, <1>4 DEF Midnight, new, all
<1>7. ASSUME NEW s \in Slots, Record(s)
      PROVE  usage'[k] + Cost * new < Max(Quotas) + Cost * all
  <2>1. req[s].pc \in {"record", "charge"} /\ req'[s].pc \notin Owed
        /\ \A t \in Slots \ {s} : req'[t] = req[t]
    BY <1>7, RecordStep DEF Record, At, Owed, Fresh
  <2>2. Owing(k)' \subseteq Owing(k) \ {s}
    BY <2>1 DEF Owing
  <2>3. CASE s \in Owing(k)
    <3>1. usage'[k] <= usage[k] + Cost
      BY <1>7, <1>3, <1>4 DEF Record, Typed, WorldTyped
    <3>2. Cost * new + Cost <= Cost * old
      BY <2>2, <2>3, <1>1, OneBill
    <3> QED BY <3>1, <3>2, <1>2, <1>3, <1>4
  <2>4. CASE s \notin Owing(k)
    <3>1. usage'[k] = usage[k]
      BY <1>7, <2>1, <2>4 DEF Record, Limited, Owing, Owed, Typed, WorldTyped
    <3>2. Cost * new <= Cost * old
      BY <2>2, <1>1, Bills
    <3> QED BY <3>1, <3>2, <1>2, <1>3, <1>4
  <2> QED BY <2>3, <2>4
<1>8. CASE /\ ~Midnight /\ ~\E s \in Slots : Record(s)
           /\ ~\E s \in Slots : AskPermit(s) /\ req[s].caller = k /\ req[s].kind \in Billed
  <2>1. Owing(k)' \subseteq Owing(k)
    BY <1>8, RequestsStay DEF Owing, Stays
  <2>2. usage' = usage
    BY <1>8 DEF Next, vars, world, Environment, SaveSettings, Reindex, Arrive, Resolve,
         ReadVersion, TakeCore, BuildCore, PublishCore, DropResults, Admit, SetCeiling,
         RefuseQuota, AskPermit, Enter, Work, Hit, Miss, Compute, Fail, Answer, Finish,
         Drain, Hangup, CloseStream
  <2>3. Cost * new <= Cost * old
    BY <2>1, <1>1, Bills
  <2> QED BY <2>2, <2>3, <1>2, <1>3, <1>4 DEF old, new, all
<1> QED BY <1>5, <1>6, <1>7, <1>8 DEF new, all

-----------------------------------------------------------------------------
(* The result cache                                                        *)

\* An entry of a cache object was there before, or is what Answer stores.
LEMMA EntriesMove ==
  ASSUME Typed, [Next]_vars, NEW i \in 1..Len(caches'), NEW k \in DOMAIN caches'[i]
  PROVE  \/ i \in 1..Len(caches) /\ k \in DOMAIN caches[i] /\ caches'[i][k] = caches[i][k]
         \/ \E s \in Slots : /\ Answer(s) /\ req[s].key # <<>>
                             /\ k = req[s].key /\ caches'[i][k] = req[s].result
<1> DEFINE Moved == \/ i \in 1..Len(caches) /\ k \in DOMAIN caches[i] /\ caches'[i][k] = caches[i][k]
                    \/ \E s \in Slots : /\ Answer(s) /\ req[s].key # <<>>
                                        /\ k = req[s].key /\ caches'[i][k] = req[s].result
<1>0. caches \in Seq(Entries) /\ current \in 0..Len(caches)
  BY DEF Typed, CachesTyped
<1>1. CASE caches' = caches
  BY <1>1
<1>2. ASSUME NEW s \in Slots, DropResults(s) PROVE Moved
  <2>1. caches' = caches \/ (current # 0 /\ caches' = [caches EXCEPT ![current] = <<>>])
    BY <1>2 DEF DropResults
  <2> QED BY <2>1, <1>0
<1>3. ASSUME NEW s \in Slots, Enter(s) PROVE Moved
  <2>1. caches' = caches \/ caches' = Append(caches, <<>>)
    BY <1>3 DEF Enter, cacheVars
  <2>2. CASE caches' = Append(caches, <<>>)
    <3>1. Len(caches') = Len(caches) + 1 /\ caches'[Len(caches) + 1] = <<>>
          /\ \A j \in 1..Len(caches) : caches'[j] = caches[j]
      BY <2>2, <1>0
    <3>2. i # Len(caches) + 1
      BY <3>1
    <3> QED BY <3>1, <3>2, <1>0
  <2> QED BY <2>1, <2>2
<1>4. ASSUME NEW s \in Slots, Miss(s) PROVE Moved
  <2> DEFINE kept == [j \in DOMAIN caches[req[s].cache] \ {CacheKey(s)} |-> caches[req[s].cache][j]]
  <2>1. caches' = caches \/ caches' = [caches EXCEPT ![req[s].cache] = kept]
    BY <1>4 DEF Miss
  <2>2. DOMAIN kept \subseteq DOMAIN caches[req[s].cache] /\ \A j \in DOMAIN kept : kept[j] = caches[req[s].cache][j]
    OBVIOUS
  <2> HIDE DEF kept
  <2> QED BY <2>1, <2>2, <1>0
<1>5. ASSUME NEW s \in Slots, Answer(s) PROVE Moved
  <2> DEFINE old == caches[req[s].cache]
             new == [j \in DOMAIN old \cup {req[s].key} |-> IF j = req[s].key THEN req[s].result ELSE old[j]]
  <2>1. caches' = caches \/ (req[s].key # <<>> /\ caches' = [caches EXCEPT ![req[s].cache] = new])
    BY <1>5 DEF Answer, Put, StoreKey
  <2>2. \A j \in DOMAIN new : (j = req[s].key /\ new[j] = req[s].result) \/ (j \in DOMAIN old /\ new[j] = old[j])
    OBVIOUS
  <2> HIDE DEF new
  <2> QED BY <2>1, <2>2, <1>0, <1>5
<1>6. \/ caches' = caches
      \/ \E s \in Slots : DropResults(s) \/ Enter(s) \/ Miss(s) \/ Answer(s)
  BY DEF Next, vars, cacheVars, Environment, SaveSettings, Reindex, Midnight, Arrive, Resolve,
         ReadVersion, TakeCore, BuildCore, PublishCore, Admit, SetCeiling,
         RefuseQuota, AskPermit, Work, Hit, Compute, Fail, Finish, Record,
         Drain, Hangup, CloseStream
<1> QED BY <1>1, <1>2, <1>3, <1>4, <1>5, <1>6

\* What a step does to the key, the result and the asker of a request.
Keeps(t) ==
    \/ req'[t].key = <<>> /\ ~req'[t].hit /\ req'[t].pc # "answered"
    \/ /\ req'[t].core = req[t].core /\ req'[t].caller = req[t].caller
       /\ \/ /\ req'[t].key = req[t].key /\ req'[t].hit = req[t].hit /\ req'[t].result = req[t].result
             /\ req'[t].pc = req[t].pc \/ (req[t].pc = "compute" /\ req'[t].pc = "done")
          \/ /\ Miss(t) /\ req'[t].pc = "compute" /\ req'[t].key = CacheKey(t) /\ ~req'[t].hit
          \/ /\ Compute(t) /\ req'[t].pc = "answered" /\ req'[t].key = req[t].key /\ ~req'[t].hit
             /\ req'[t].result = [config |-> req[t].core, epoch |-> Len(index), asker |-> Asker(t)]
          \/ /\ Hit(t) /\ req'[t].pc = "answered" /\ req'[t].key = <<>>
             /\ req'[t].result = caches[req[t].cache][CacheKey(t)]

LEMMA RequestsKeep ==
  ASSUME Typed, AskersFit, [Next]_vars, NEW t \in Slots
  PROVE  Keeps(t)
<1> USE Shape DEF Keeps
<1>0. /\ req[t].pc \notin {"compute", "answered", "done"} => req[t].key = <<>>
      /\ req[t].pc # "answered" => ~req[t].hit
  BY DEF AskersFit
<1>1. CASE Environment
  BY <1>1 DEF Environment, SaveSettings, Reindex, Midnight
<1>2. ASSUME NEW s \in Slots, Arrive(s) PROVE Keeps(t)
  BY <1>2 DEF Arrive, Fresh
<1>3. ASSUME NEW s \in Slots, Resolve(s) PROVE Keeps(t)
  <2>1. CASE ReadVersion(s)
    BY <2>1, <1>0 DEF ReadVersion, At
  <2>2. CASE TakeCore(s)
    BY <2>2, <1>0 DEF TakeCore, At
  <2>3. CASE BuildCore(s)
    BY <2>3, <1>0 DEF BuildCore, At
  <2>4. CASE PublishCore(s) \/ DropResults(s)
    BY <2>4, <1>0 DEF PublishCore, DropResults, Goto, At
  <2> QED BY <1>3, <2>1, <2>2, <2>3, <2>4 DEF Resolve
<1>4. ASSUME NEW s \in Slots, Admit(s) PROVE Keeps(t)
  <2>1. CASE SetCeiling(s)
    BY <2>1, <1>0 DEF SetCeiling, Goto, At
  <2>2. CASE RefuseQuota(s)
    BY <2>2 DEF RefuseQuota, Fresh
  <2>3. CASE AskPermit(s)
    <3>1. (\E p : req' = [req EXCEPT ![s].pc = "waiting", ![s].permit = p])
          /\ req[s].pc \in {"resolved", "quota"}
      BY <2>3 DEF AskPermit, AtQuota, At
    <3> QED BY <3>1, <1>0
  <2>4. CASE Enter(s)
    <3>1. req[s].pc = "waiting"
      BY <2>4 DEF Enter, At
    <3> QED BY <2>4, <3>1, <1>0, EnterStep
  <2> QED BY <1>4, <2>1, <2>2, <2>3, <2>4 DEF Admit
<1>5. ASSUME NEW s \in Slots, Work(s) PROVE Keeps(t)
  <2>1. CASE Hit(s)
    <3>1. /\ req[s].pc = "lookup"
          /\ req' = [req EXCEPT ![s].pc = "answered", ![s].hit = TRUE,
                                ![s].result = caches[req[s].cache][CacheKey(s)]]
      BY <2>1 DEF Hit, At
    <3> QED BY <2>1, <3>1, <1>0
  <2>2. CASE Miss(s)
    <3>1. /\ req[s].pc = "lookup"
          /\ \/ req' = [req EXCEPT ![s].pc = "compute", ![s].key = CacheKey(s)]
             \/ req' = [req EXCEPT ![s].pc = "compute"]
      BY <2>2 DEF Miss, At
    <3>2. CASE req' = [req EXCEPT ![s].pc = "compute", ![s].key = CacheKey(s)]
      BY <2>2, <3>1, <3>2, <1>0
    <3>3. CASE req' = [req EXCEPT ![s].pc = "compute"]
      BY <3>1, <3>3, <1>0
    <3> QED BY <3>1, <3>2, <3>3
  <2>3. CASE Compute(s)
    <3>1. /\ req[s].pc = "compute"
          /\ req' = [req EXCEPT ![s].pc = "answered",
                       ![s].result = [config |-> req[s].core, epoch |-> Len(index), asker |-> Asker(s)]]
      BY <2>3 DEF Compute, At
    <3> QED BY <2>3, <3>1, <1>0
  <2>4. CASE Fail(s)
    <3>1. req[s].pc = "compute"
      BY <2>4 DEF Fail, At
    <3>2. CASE req[s].kind = "stream"
      BY <2>4, <3>1, <3>2, FailStep
    <3>3. CASE req[s].kind # "stream"
      BY <2>4, <3>3, FailStep DEF Fresh
    <3> QED BY <3>2, <3>3
  <2>5. CASE Answer(s)
    <3>1. req[s].pc = "answered"
      BY <2>5 DEF Answer, At
    <3> QED BY <2>5, <3>1, AnswerStep
  <2> QED BY <1>5, <2>1, <2>2, <2>3, <2>4, <2>5 DEF Work
<1>6. ASSUME NEW s \in Slots, Finish(s) \/ Hangup(s) PROVE Keeps(t)
  <2>1. CASE Record(s)
    <3>1. req[s].pc \in {"record", "charge"}
      BY <2>1 DEF Record, At
    <3>2. CASE req[s].pc = "charge"
      BY <2>1, <3>2, <1>0, RecordStep
    <3>3. CASE req[s].pc = "record"
      BY <2>1, <3>3, RecordStep DEF Fresh
    <3> QED BY <3>1, <3>2, <3>3
  <2>2. CASE CloseStream(s)
    BY <2>2 DEF CloseStream, Fresh
  <2>3. CASE Drain(s) \/ Hangup(s)
    BY <2>3 DEF Drain, Hangup
  <2> QED BY <1>6, <2>1, <2>2, <2>3 DEF Finish
<1>7. CASE UNCHANGED vars
  BY <1>7 DEF vars
<1> QED BY <1>1, <1>2, <1>3, <1>4, <1>5, <1>6, <1>7 DEF Next

\* The entry a hit is served from.
LEMMA HitEntry ==
  ASSUME Typed, NEW s \in Slots, Hit(s)
  PROVE  /\ req[s].pc = "lookup" /\ req[s].cache \in 1..Len(caches)
         /\ CacheKey(s) \in DOMAIN caches[req[s].cache]
         /\ req'[s].result = caches[req[s].cache][CacheKey(s)]
<1>1. req[s].pc = "lookup" /\ CacheKey(s) \in DOMAIN caches[req[s].cache]
      /\ req' = [req EXCEPT ![s].pc = "answered", ![s].hit = TRUE,
                            ![s].result = caches[req[s].cache][CacheKey(s)]]
  BY DEF Hit, At
<1>2. req[s].cache \in 1..Len(caches)
  BY <1>1, TypedRequest DEF Placed, Request
<1> QED BY <1>1, <1>2, Shape

LEMMA AskersFitInductive ==
  ASSUME Typed, AskersFit, [Next]_vars
  PROVE  AskersFit'
<1>1. ASSUME NEW i \in 1..Len(caches'), NEW k \in DOMAIN caches'[i]
      PROVE  caches'[i][k].asker = k[2]
  BY <1>1, EntriesMove DEF AskersFit, Answer, At
<1>2. ASSUME NEW t \in Slots
      PROVE  /\ req'[t].pc \notin {"compute", "answered", "done"} => req'[t].key = <<>>
             /\ req'[t].pc # "answered" => ~req'[t].hit
             /\ req'[t].key # <<>> => req'[t].key[2] = Asker(t)'
             /\ req'[t].key # <<>> /\ req'[t].pc = "answered" => req'[t].result.asker = req'[t].key[2]
             /\ req'[t].hit => req'[t].result.asker = Asker(t)'
  <2>1. Keeps(t)
    BY RequestsKeep
  <2>2. (req'[t].core = req[t].core /\ req'[t].caller = req[t].caller) => Asker(t)' = Asker(t)
    BY DEF Asker, Tuning
  <2>3. CacheKey(t)[2] = Asker(t)
    BY DEF CacheKey
  <2>4. Hit(t) => caches[req[t].cache][CacheKey(t)].asker = Asker(t)
    BY <2>3, HitEntry DEF AskersFit
  <2>5. Miss(t) => req[t].pc = "lookup"
    BY DEF Miss, At
  <2> QED BY <2>1, <2>2, <2>3, <2>4, <2>5 DEF Keeps, AskersFit
<1> QED BY <1>1, <1>2 DEF AskersFit

\* The index only gets longer.
LEMMA IndexGrows ==
  ASSUME Typed, [Next]_vars
  PROVE  \/ index' = index
         \/ \E d \in Docs, stamp \in {0, Len(index) + 1} :
               index' = Append(index, [Content EXCEPT ![d] = stamp])
  BY DEF Next, vars, world, Environment, SaveSettings, Reindex, Midnight, Arrive, Resolve,
         ReadVersion, TakeCore, BuildCore, PublishCore, DropResults, Admit, SetCeiling,
         RefuseQuota, AskPermit, Enter, Work, Hit, Miss, Compute, Fail, Answer, Finish, Record,
         Drain, Hangup, CloseStream

LEMMA IndexTyped ==
  ASSUME Typed
  PROVE  /\ Len(index) \in Nat \ {0} /\ Content = index[Len(index)]
         /\ \A e \in 1..Len(index) : index[e] \in [Docs -> Stamps]
         /\ Stamps \subseteq Nat
<1>1. index \in Seq([Docs -> Stamps]) /\ Len(index) \in Nat \ {0}
  BY Constants DEF Typed, WorldTyped
<1> QED BY <1>1, ElementOfSeq, Constants DEF Content, Last, Stamps

LEMMA Extends ==
  ASSUME Typed, [Next]_vars
  PROVE  /\ Len(index') \in Nat /\ Len(index) <= Len(index')
         /\ \A e \in 1..Len(index) : index'[e] = index[e]
<1>1. index \in Seq([Docs -> Stamps])
  BY DEF Typed, WorldTyped
<1>2. CASE index' = index
  BY <1>1, <1>2
<1>3. ASSUME NEW c, index' = Append(index, c)
      PROVE  /\ Len(index') \in Nat /\ Len(index) <= Len(index')
             /\ \A e \in 1..Len(index) : index'[e] = index[e]
  BY <1>1, <1>3
<1> QED BY <1>2, <1>3, IndexGrows

LEMMA StampsGrowInductive ==
  ASSUME Typed, StampsGrow, [Next]_vars
  PROVE  StampsGrow'
<1>1. CASE index' = index
  BY <1>1 DEF StampsGrow
<1>2. ASSUME NEW d \in Docs, NEW stamp \in {0, Len(index) + 1},
             index' = Append(index, [Content EXCEPT ![d] = stamp])
      PROVE  StampsGrow'
  <2> DEFINE n == Len(index)
  <2>1. n \in Nat \ {0} /\ Content = index[n] /\ Content \in [Docs -> Stamps]
        /\ \A e \in 1..n, x \in Docs : index[e][x] \in Nat
    BY IndexTyped, ContentTyped
  <2>2. /\ Len(index') = n + 1 /\ index'[n + 1] = [Content EXCEPT ![d] = stamp]
        /\ \A e \in 1..n : index'[e] = index[e]
    BY <1>2 DEF Typed, WorldTyped
  <2>3. \A x \in Docs : index'[n + 1][x] = index[n][x] \/ index'[n + 1][x] \in {0, n + 1}
    BY <2>1, <2>2
  <2>4. \A x \in Docs : index'[n + 1][x] \in Nat /\ index'[n + 1][x] <= n + 1
    BY <2>1, <2>3 DEF StampsGrow
  <2>5. ASSUME NEW e \in 1..(n + 1), NEW x \in Docs, NEW f \in e..(n + 1)
        PROVE  index'[f][x] \in {0, index'[e][x]} \/ index'[f][x] > e
    <3>1. CASE f <= n
      BY <3>1, <2>1, <2>2 DEF StampsGrow
    <3>2. CASE f = n + 1 /\ e <= n
      <4>1. index[n][x] \in {0, index[e][x]} \/ index[n][x] > e
        BY <3>2, <2>1 DEF StampsGrow
      <4> QED BY <4>1, <3>2, <2>1, <2>2, <2>3
    <3>3. CASE f = n + 1 /\ e = n + 1
      BY <3>3
    <3> QED BY <3>1, <3>2, <3>3, <2>1
  <2>6. ASSUME NEW e \in 1..(n + 1), NEW x \in Docs PROVE index'[e][x] <= e
    BY <2>1, <2>2, <2>4 DEF StampsGrow
  <2> HIDE DEF n
  <2> QED BY <2>2, <2>5, <2>6 DEF StampsGrow
<1> QED BY <1>1, <1>2, IndexGrows

\* Two contents of the same version are the same, if the later one is reached by
\* writes that stamp what they write: this is why the version tells an edit in place.
LEMMA SameVersion ==
  ASSUME Typed, StampsGrow, NEW t \in 1..Len(index),
         IndexVersion(index[t]) = IndexVersion(Content)
  PROVE  index[t] = Content
<1> DEFINE n == Len(index)
           old == index[t]
           new == index[n]
           liveOld == {d \in Docs : old[d] > 0}
           liveNew == {d \in Docs : new[d] > 0}
           mOld == Max({old[d] : d \in Docs} \cup {0})
           mNew == Max({new[d] : d \in Docs} \cup {0})
<1>1. /\ n \in Nat \ {0} /\ n \in 1..n /\ Content = new /\ t \in Nat /\ t <= n
      /\ old \in [Docs -> Stamps] /\ new \in [Docs -> Stamps] /\ Stamps \subseteq Nat
  BY IndexTyped
<1>2. /\ IndexVersion(old) = <<Cardinality(liveOld), mOld>>
      /\ IsFiniteSet(liveOld) /\ Cardinality(liveOld) \in Nat
      /\ mOld \in Nat /\ (mOld = 0 \/ \E d \in Docs : old[d] = mOld)
  <2> HIDE DEF old
  <2> QED BY <1>1, VersionOf
<1>3. /\ IndexVersion(new) = <<Cardinality(liveNew), mNew>>
      /\ mNew \in Nat /\ \A d \in Docs : new[d] <= mNew
  <2> HIDE DEF new
  <2> QED BY <1>1, VersionOf
<1>4. \A d \in Docs : /\ old[d] <= t
                      /\ new[d] \in {0, old[d]} \/ new[d] > t
  BY <1>1 DEF StampsGrow
<1>5. Cardinality(liveOld) = Cardinality(liveNew) /\ mOld = mNew
  <2>1. IndexVersion(old) = IndexVersion(new)
    BY <1>1
  <2> HIDE DEF old, new, liveOld, liveNew, mOld, mNew
  <2> QED BY <1>2, <1>3, <2>1
<1>6. \A d \in Docs : old[d] \in Nat /\ new[d] \in Nat
  BY <1>1
<1>7. mOld <= t
  <2> HIDE DEF old, mOld
  <2> QED BY <1>1, <1>2, <1>4, <1>6
<1>8. \A d \in Docs : new[d] \in {0, old[d]}
  <2> HIDE DEF old, new, mOld, mNew
  <2> QED BY <1>1, <1>3, <1>4, <1>5, <1>6, <1>7
<1>9. liveNew \subseteq liveOld
  BY <1>8
<1>10. liveNew = liveOld
  <2> HIDE DEF liveOld, liveNew
  <2> QED BY <1>2, <1>5, <1>9, FS_Subset
<1>11. \A d \in Docs : new[d] = old[d]
  BY <1>6, <1>8, <1>10
<1> QED BY <1>1, <1>11

LEMMA StillTaken ==
  ASSUME Typed, [Next]_vars, NEW k, NEW e \in Nat, e <= Len(index), TakenBy(k, e, index)
  PROVE  TakenBy(k, e, index')
  BY Extends, IndexTyped DEF TakenBy

LEMMA KeysComeFirstInductive ==
  ASSUME Typed, AskersFit, KeysComeFirst, [Next]_vars
  PROVE  KeysComeFirst'
<1>0. /\ Len(index) \in Nat \ {0} /\ Len(index') \in Nat /\ Len(index) <= Len(index')
      /\ Content = index[Len(index)]
  BY IndexTyped, Extends
<1>1. ASSUME NEW i \in 1..Len(caches'), NEW k \in DOMAIN caches'[i]
      PROVE  caches'[i][k].epoch <= Len(index') /\ TakenBy(k, caches'[i][k].epoch, index')
  <2> DEFINE e == caches'[i][k].epoch
  <2>1. e \in Nat
    <3>1. caches' \in Seq(Entries)
      BY TypedInductive DEF Typed, CachesTyped
    <3>2. caches'[i][k] \in Results
      BY <3>1, ElementOfSeq, EntryType
    <3> QED BY <3>2, Constants DEF Results
  <2>2. e <= Len(index) /\ TakenBy(k, e, index)
    <3>1. CASE i \in 1..Len(caches) /\ k \in DOMAIN caches[i] /\ caches'[i][k] = caches[i][k]
      BY <3>1 DEF KeysComeFirst
    <3>2. CASE \E s \in Slots : /\ Answer(s) /\ req[s].key # <<>>
                                /\ k = req[s].key /\ caches'[i][k] = req[s].result
      BY <3>2 DEF KeysComeFirst, Answer, At
    <3> QED BY <3>1, <3>2, EntriesMove
  <2> HIDE DEF e
  <2>3. TakenBy(k, e, index')
    BY <2>1, <2>2, StillTaken
  <2> QED BY <2>1, <2>2, <2>3, <1>0 DEF e
<1>2. ASSUME NEW t \in Slots
      PROVE  /\ req'[t].key # <<>> => TakenBy(req'[t].key, Len(index'), index')
             /\ req'[t].pc = "answered" => req'[t].result.epoch <= Len(index')
             /\ req'[t].key # <<>> /\ req'[t].pc = "answered" =>
                   TakenBy(req'[t].key, req'[t].result.epoch, index')
  <2>1. TakenBy(CacheKey(t), Len(index), index)
    BY <1>0 DEF TakenBy, CacheKey
  <2>2. ASSUME NEW k, TakenBy(k, Len(index), index)
        PROVE  TakenBy(k, Len(index), index') /\ TakenBy(k, Len(index'), index')
    <3>1. TakenBy(k, Len(index), index')
      BY <2>2, <1>0, StillTaken
    <3> QED BY <3>1, <1>0 DEF TakenBy
  <2>3. ASSUME req[t].pc = "answered"
        PROVE  /\ req[t].result.epoch \in Nat /\ req[t].result.epoch <= Len(index')
               /\ req[t].key # <<>> => TakenBy(req[t].key, req[t].result.epoch, index')
    <3>1. req[t].result \in Results
      BY <2>3, TypedRequest DEF Placed
    <3>2. req[t].result.epoch \in Nat /\ req[t].result.epoch <= Len(index)
      BY <2>3, <3>1, Constants DEF Results, KeysComeFirst
    <3> QED BY <2>3, <3>2, <1>0, StillTaken DEF KeysComeFirst
  <2>4. Hit(t) => caches[req[t].cache][CacheKey(t)].epoch <= Len(index')
    <3> SUFFICES ASSUME Hit(t) PROVE caches[req[t].cache][CacheKey(t)].epoch <= Len(index')
      OBVIOUS
    <3> DEFINE entry == caches[req[t].cache][CacheKey(t)]
    <3>1. entry \in Results /\ entry.epoch <= Len(index)
      <4>1. req[t].cache \in 1..Len(caches) /\ CacheKey(t) \in DOMAIN caches[req[t].cache]
        BY HitEntry
      <4>2. caches[req[t].cache] \in Entries
        BY <4>1, ElementOfSeq DEF Typed, CachesTyped
      <4> QED BY <4>1, <4>2, EntryType DEF KeysComeFirst
    <3>2. entry.epoch \in Nat
      BY <3>1, Constants DEF Results
    <3> QED BY <3>1, <3>2, <1>0
  <2>5. Keeps(t)
    BY RequestsKeep
  <2>6. CASE req'[t].key = <<>> /\ ~req'[t].hit /\ req'[t].pc # "answered"
    BY <2>6
  <2>7. CASE /\ req'[t].key = req[t].key /\ req'[t].result = req[t].result
             /\ req'[t].pc = req[t].pc \/ (req[t].pc = "compute" /\ req'[t].pc = "done")
    BY <2>7, <2>2, <2>3 DEF KeysComeFirst
  <2>8. CASE req'[t].pc = "compute" /\ req'[t].key = CacheKey(t)
    BY <2>8, <2>1, <2>2
  <2>9. CASE /\ req'[t].pc = "answered" /\ req'[t].key = req[t].key
             /\ req'[t].result = [config |-> req[t].core, epoch |-> Len(index), asker |-> Asker(t)]
    BY <2>9, <2>2, <1>0 DEF KeysComeFirst
  <2>10. CASE /\ Hit(t) /\ req'[t].pc = "answered" /\ req'[t].key = <<>>
              /\ req'[t].result = caches[req[t].cache][CacheKey(t)]
    BY <2>10, <2>4
  <2> QED BY <2>5, <2>6, <2>7, <2>8, <2>9, <2>10 DEF Keeps
<1> QED BY <1>1, <1>2 DEF KeysComeFirst

-----------------------------------------------------------------------------
(* The streams                                                             *)

LEMMA Items ==
  /\ <<>> \o <<"event">> = <<"event">>
  /\ <<>> \o <<"error", "sentinel">> = <<"error", "sentinel">>
  /\ <<>> \o <<"result">> = <<"result">>
  /\ <<"event">> \o <<"result">> = <<"event", "result">>
  /\ <<>> \o <<"sentinel">> = <<"sentinel">>
  /\ <<"result">> \o <<"sentinel">> = <<"result", "sentinel">>
  /\ <<"event", "result">> \o <<"sentinel">> = <<"event", "result", "sentinel">>
<1>1. ASSUME NEW x, NEW y PROVE <<x>> \o <<y>> = <<x, y>>
  <2>1. <<x>> \in Seq({x, y}) /\ <<y>> \in Seq({x, y}) /\ <<x, y>> \in Seq({x, y})
    OBVIOUS
  <2>2. Len(<<x>> \o <<y>>) = 2 /\ (<<x>> \o <<y>>)[1] = x /\ (<<x>> \o <<y>>)[2] = y
        /\ <<x>> \o <<y>> \in Seq({x, y})
    BY <2>1, ConcatProperties
  <2>3. \A i \in 1..2 : (<<x>> \o <<y>>)[i] = <<x, y>>[i]
    BY <2>2
  <2> QED BY <2>1, <2>2, <2>3, SeqEqual
<1>2. ASSUME NEW x, NEW y, NEW z PROVE <<x, y>> \o <<z>> = <<x, y, z>>
  <2>1. <<x, y>> \in Seq({x, y, z}) /\ <<z>> \in Seq({x, y, z}) /\ <<x, y, z>> \in Seq({x, y, z})
    OBVIOUS
  <2>2. Len(<<x, y>> \o <<z>>) = 3 /\ (<<x, y>> \o <<z>>)[1] = x /\ (<<x, y>> \o <<z>>)[2] = y
        /\ (<<x, y>> \o <<z>>)[3] = z /\ <<x, y>> \o <<z>> \in Seq({x, y, z})
    BY <2>1, ConcatProperties
  <2>3. \A i \in 1..3 : (<<x, y>> \o <<z>>)[i] = <<x, y, z>>[i]
    BY <2>2
  <2> QED BY <2>1, <2>2, <2>3, SeqEqual
<1> QED BY <1>1, <1>2

LEMMA Heads ==
  /\ Head(<<"event">>) = "event" /\ Tail(<<"event">>) = <<>>
  /\ Head(<<"result">>) = "result" /\ Tail(<<"result">>) = <<>>
  /\ Head(<<"sentinel">>) = "sentinel"
  /\ Head(<<"event", "result">>) = "event" /\ Tail(<<"event", "result">>) = <<"result">>
  /\ Head(<<"event", "result", "sentinel">>) = "event"
  /\ Tail(<<"event", "result", "sentinel">>) = <<"result", "sentinel">>
  /\ Head(<<"result", "sentinel">>) = "result" /\ Tail(<<"result", "sentinel">>) = <<"sentinel">>
  /\ Head(<<"error", "sentinel">>) = "error" /\ Tail(<<"error", "sentinel">>) = <<"sentinel">>
  OBVIOUS

\* A step that leaves the streams alone leaves a request on the same side of the
\* door, or takes it through it.
LEMMA QuietConversation ==
  ASSUME Conversations, UNCHANGED <<out, wire, seq, client>>, NEW s \in Slots,
         \A t \in Slots \ {s} : req'[t] = req[t],
         \/ /\ req[s].pc \notin {"waiting", "record"} \cup Inside
            /\ req'[s].pc \notin {"waiting", "record"} \cup Inside
         \/ /\ req[s].pc \in {"waiting", "lookup"} /\ req'[s].pc \in {"lookup", "compute"}
            /\ req'[s].kind = req[s].kind
  PROVE  Conversations'
<1>1. ASSUME NEW t \in Slots PROVE Conversation(t)'
  <2>1. CASE t # s
    BY <2>1 DEF Conversations, Conversation
  <2>2. CASE t = s
    BY <2>2 DEF Conversations, Conversation, Said, Inside
  <2> QED BY <2>1, <2>2
<1> QED BY <1>1 DEF Conversations

\* A step that speaks for one stream only.
LEMMA OneConversation ==
  ASSUME Conversations, NEW s \in Slots, \A t \in Slots \ {s} : req'[t] = req[t],
         wire' \in [Slots -> {"closed", "open", "told"}],
         out' = [t \in Slots |-> out'[t]], DOMAIN client' = Slots, DOMAIN seq' = Slots,
         \A t \in Slots \ {s} : wire'[t] = wire[t] /\ out'[t] = out[t] /\ client'[t] = client[t],
         Conversation(s)'
  PROVE  Conversations'
<1>1. ASSUME NEW t \in Slots, t # s PROVE Conversation(t)'
  BY <1>1 DEF Conversations, Conversation
<1> QED BY <1>1 DEF Conversations

LEMMA ConversationsBefore ==
  ASSUME Typed, Conversations, NEW s \in Slots, Arrive(s) \/ Resolve(s) \/ Admit(s) \/ Miss(s)
  PROVE  Conversations'
<1> USE Shape
<1>1. CASE ReadVersion(s) \/ TakeCore(s) \/ BuildCore(s)
  BY <1>1, QuietConversation DEF ReadVersion, TakeCore, BuildCore, At, stream, Inside
<1>2. CASE PublishCore(s) \/ DropResults(s) \/ SetCeiling(s)
  BY <1>2, QuietConversation DEF PublishCore, DropResults, SetCeiling, Goto, At, stream, Inside
<1>3. CASE Arrive(s)
  BY <1>3, QuietConversation DEF Arrive, Fresh, At, stream, Inside
<1>4. CASE RefuseQuota(s)
  BY <1>4, QuietConversation DEF RefuseQuota, AtQuota, Fresh, At, stream, Inside
<1>5. CASE AskPermit(s)
  <2>1. /\ (\E p : req' = [req EXCEPT ![s].pc = "waiting", ![s].permit = p])
        /\ req[s].pc \in {"resolved", "quota"}
        /\ wire' = [wire EXCEPT ![s] = IF req[s].kind = "stream" THEN "open" ELSE @]
        /\ UNCHANGED <<out, seq, client>>
    BY <1>5 DEF AskPermit, AtQuota, At
  <2>2. Conversation(s)'
    BY <2>1 DEF Conversations, Conversation, Said, Inside
  <2>3. wire' \in [Slots -> {"closed", "open", "told"}] /\ \A t \in Slots \ {s} : wire'[t] = wire[t] /\ req'[t] = req[t]
    BY <2>1 DEF Conversations
  <2> QED BY <2>1, <2>2, <2>3, OneConversation DEF Conversations
<1>6. CASE Enter(s)
  <2>1. req[s].pc = "waiting" /\ UNCHANGED <<out, wire, seq, client>>
    BY <1>6 DEF Enter, At, stream
  <2> QED BY <1>6, <2>1, EnterStep, QuietConversation
<1>7. CASE Miss(s)
  <2>1. /\ req[s].pc = "lookup" /\ UNCHANGED <<out, wire, seq, client>>
        /\ \/ req' = [req EXCEPT ![s].pc = "compute", ![s].key = CacheKey(s)]
           \/ req' = [req EXCEPT ![s].pc = "compute"]
    BY <1>7 DEF Miss, At, stream
  <2>2. req'[s].pc = "compute" /\ req'[s].kind = req[s].kind /\ \A t \in Slots \ {s} : req'[t] = req[t]
    BY <2>1
  <2> QED BY <2>1, <2>2, QuietConversation
<1> QED BY <1>1, <1>2, <1>3, <1>4, <1>5, <1>6, <1>7 DEF Resolve, Admit

LEMMA ConversationsAfter ==
  ASSUME Typed, Conversations, NEW s \in Slots, (Work(s) /\ ~Miss(s)) \/ Finish(s) \/ Hangup(s)
  PROVE  Conversations'
<1> USE Shape DEF Inside
<1>0. Conversation(s) /\ out = [t \in Slots |-> out[t]] /\ wire \in [Slots -> {"closed", "open", "told"}]
      /\ DOMAIN client = Slots /\ DOMAIN seq = Slots
  BY DEF Conversations
<1>q. ASSUME NEW items, Queue(s, items)
      PROVE  /\ out' = [t \in Slots |-> out'[t]] /\ \A t \in Slots \ {s} : out'[t] = out[t]
             /\ out'[s] = IF client[s] THEN out[s] \o items ELSE out[s]
  BY <1>q, <1>0 DEF Queue
<1>1. CASE Hit(s) \/ Compute(s)
  <2>1. /\ req[s].pc \in {"lookup", "compute"} /\ req'[s].pc = "answered" /\ req'[s].kind = req[s].kind
        /\ \A t \in Slots \ {s} : req'[t] = req[t]
    BY <1>1 DEF Hit, Compute, At
  <2>2. UNCHANGED <<wire, seq, client>> /\ Trace(s)
    BY <1>1 DEF Hit, Compute
  <2>3. CASE req[s].kind = "stream"
    <3>1. Queue(s, <<"event">>)
      BY <2>2, <2>3 DEF Trace
    <3>2. Conversation(s)'
      <4>1. client[s] => out[s] = <<>> /\ wire[s] = "open"
        BY <2>1, <2>3, <1>0 DEF Conversation, Said
      <4>2. client[s] => out'[s] = <<"event">>
        BY <4>1, <3>1, <1>q, Items
      <4>3. ~client[s] => out'[s] = <<>> /\ wire[s] = "open"
        BY <2>1, <2>3, <3>1, <1>q, <1>0 DEF Conversation
      <4> QED BY <4>1, <4>2, <4>3, <2>1, <2>2, <2>3 DEF Conversation, Said
    <3> QED BY <2>1, <2>2, <3>1, <3>2, <1>q, <1>0, OneConversation
  <2>4. CASE req[s].kind # "stream"
    <3>1. out' = out
      BY <2>2, <2>4 DEF Trace
    <3>2. Conversation(s)'
      BY <2>1, <2>2, <2>4, <3>1, <1>0 DEF Conversation, Said
    <3> QED BY <2>1, <2>2, <3>1, <3>2, <1>0, OneConversation
  <2> QED BY <2>3, <2>4
<1>2. CASE Fail(s)
  <2>1. req[s].pc = "compute" /\ UNCHANGED <<wire, seq, client>>
    BY <1>2 DEF Fail, At
  <2>2. CASE req[s].kind = "stream"
    <3>1. Queue(s, <<"error", "sentinel">>)
      BY <1>2, <2>2 DEF Fail
    <3>2. Conversation(s)'
      <4>1. client[s] => out[s] = <<>> /\ wire[s] = "open"
        BY <2>1, <2>2, <1>0 DEF Conversation, Said
      <4>2. client[s] => out'[s] = <<"error", "sentinel">>
        BY <4>1, <3>1, <1>q, Items
      <4>3. ~client[s] => out'[s] = <<>> /\ wire[s] = "open"
        BY <2>1, <2>2, <3>1, <1>q, <1>0 DEF Conversation
      <4>4. req'[s].pc = "done" /\ req'[s].kind = "stream"
        BY <1>2, <2>2, FailStep
      <4> QED BY <4>1, <4>2, <4>3, <4>4, <2>1 DEF Conversation, Said
    <3> QED BY <1>2, <2>1, <3>1, <3>2, <1>q, <1>0, FailStep, OneConversation
  <2>3. CASE req[s].kind # "stream"
    <3>1. out' = out
      BY <1>2, <2>3 DEF Fail
    <3>2. Conversation(s)'
      BY <1>2, <2>1, <2>3, <3>1, <1>0, FailStep DEF Conversation, Said, Fresh
    <3> QED BY <1>2, <2>1, <3>1, <3>2, <1>0, FailStep, OneConversation
  <2> QED BY <2>2, <2>3
<1>3. CASE Answer(s)
  <2>1. req[s].pc = "answered" /\ UNCHANGED <<wire, seq, client>>
    BY <1>3 DEF Answer, At
  <2>2. CASE req[s].kind = "stream"
    <3>1. Queue(s, <<"result">>)
      BY <1>3, <2>2 DEF Answer
    <3>2. Conversation(s)'
      <4>1. client[s] => out[s] \in {<<>>, <<"event">>} /\ wire[s] = "open"
        BY <2>1, <2>2, <1>0 DEF Conversation, Said
      <4>2. client[s] => out'[s] \in {<<"result">>, <<"event", "result">>}
        BY <4>1, <3>1, <1>q, Items
      <4>3. ~client[s] => out'[s] = <<>> /\ wire[s] = "open"
        BY <2>1, <2>2, <3>1, <1>q, <1>0 DEF Conversation
      <4>4. req'[s].pc = "charge" /\ req'[s].kind = "stream"
        BY <1>3, <2>2, AnswerStep
      <4> QED BY <4>1, <4>2, <4>3, <4>4, <2>1 DEF Conversation, Said
    <3> QED BY <1>3, <2>1, <3>1, <3>2, <1>q, <1>0, AnswerStep, OneConversation
  <2>3. CASE req[s].kind # "stream"
    <3>1. out' = out
      BY <1>3, <2>3 DEF Answer
    <3>2. Conversation(s)'
      BY <1>3, <2>1, <2>3, <3>1, <1>0, AnswerStep DEF Conversation, Said
    <3> QED BY <1>3, <2>1, <3>1, <3>2, <1>0, AnswerStep, OneConversation
  <2> QED BY <2>2, <2>3
<1>4. CASE Record(s)
  <2>1. UNCHANGED <<wire, seq, client>>
    BY <1>4 DEF Record
  <2>2. CASE req[s].pc = "charge"
    <3>1. Queue(s, <<"sentinel">>)
      BY <1>4, <2>2 DEF Record, At
    <3>2. Conversation(s)'
      <4>1. req[s].kind = "stream"
        BY <2>2, <1>0 DEF Conversation
      <4>2. client[s] => \/ out[s] \in {<<"event", "result">>, <<"result">>} /\ wire[s] = "open"
                         \/ out[s] = <<>> /\ wire[s] = "told"
        BY <2>2, <4>1, <1>0 DEF Conversation, Said
      <4>3. client[s] => \/ /\ out'[s] \in {<<"event", "result", "sentinel">>, <<"result", "sentinel">>}
                            /\ wire[s] = "open"
                         \/ out'[s] = <<"sentinel">> /\ wire[s] = "told"
        BY <4>2, <3>1, <1>q, Items
      <4>4. ~client[s] => out'[s] = <<>> /\ wire[s] \in {"open", "told"}
        BY <2>2, <4>1, <3>1, <1>q, <1>0 DEF Conversation
      <4>5. req'[s].pc = "done" /\ req'[s].kind = "stream"
        BY <1>4, <2>2, <4>1, RecordStep
      <4> QED BY <4>3, <4>4, <4>5, <2>1 DEF Conversation, Said
    <3> QED BY <1>4, <2>1, <3>1, <3>2, <1>q, <1>0, RecordStep, OneConversation
  <2>3. CASE req[s].pc = "record"
    <3>1. out' = out
      BY <1>4, <2>3 DEF Record, At
    <3>2. Conversation(s)'
      BY <1>4, <2>1, <2>3, <3>1, <1>0, RecordStep DEF Conversation, Said, Fresh
    <3> QED BY <1>4, <2>1, <3>1, <3>2, <1>0, RecordStep, OneConversation
  <2> QED BY <1>4, <2>2, <2>3 DEF Record, At
<1>5. CASE Drain(s)
  <2>1. /\ wire[s] # "closed" /\ client[s] /\ out[s] # <<>> /\ Head(out[s]) # "sentinel"
        /\ out' = [out EXCEPT ![s] = Tail(out[s])] /\ seq' = [seq EXCEPT ![s] = @ + 1]
        /\ wire' = [wire EXCEPT ![s] = IF Head(out[s]) = "event" THEN @ ELSE "told"]
        /\ UNCHANGED <<client, req>>
    BY <1>5 DEF Drain
  <2>2. Conversation(s)'
    BY <2>1, <1>0, Heads DEF Conversation, Said
  <2> QED BY <2>1, <2>2, <1>0, OneConversation
<1>6. CASE CloseStream(s)
  <2>1. Conversation(s)'
    BY <1>6, <1>0 DEF CloseStream, Conversation, Said, Fresh
  <2> QED BY <1>6, <2>1, <1>0, OneConversation DEF CloseStream
<1>7. CASE Hangup(s)
  <2>1. Conversation(s)'
    BY <1>7, <1>0 DEF Hangup, Conversation, Said
  <2> QED BY <1>7, <2>1, <1>0, OneConversation DEF Hangup
<1> QED BY <1>1, <1>2, <1>3, <1>4, <1>5, <1>6, <1>7 DEF Work, Finish

LEMMA ConversationsInductive ==
  ASSUME Typed, Conversations, [Next]_vars
  PROVE  Conversations'
<1>1. CASE Environment \/ UNCHANGED vars
  BY <1>1 DEF Environment, SaveSettings, Reindex, Midnight, vars, stream, Conversations, Conversation
<1>2. ASSUME NEW s \in Slots, \/ Arrive(s) \/ Resolve(s) \/ Admit(s) \/ Work(s) \/ Finish(s) \/ Hangup(s)
      PROVE  Conversations'
  BY <1>2, ConversationsBefore, ConversationsAfter DEF Work
<1> QED BY <1>1, <1>2 DEF Next

\* Every step of a stream is a step of the contract, or tells its client nothing.
LEMMA StepRefines ==
  ASSUME Typed, Conversations, [Next]_vars
  PROVE  [Wire!ContractNext]_(Wire!contractVars)
<1> USE DEF Wire!contractVars, Wire!ContractNext
<1>0. wire \in [Slots -> {"closed", "open", "told"}] /\ DOMAIN seq = Slots /\ DOMAIN client = Slots
  BY DEF Conversations
<1>1. ASSUME NEW s \in Slots, AskPermit(s)
      PROVE  Wire!Open(s) \/ UNCHANGED <<wire, seq, client>>
  <2>1. /\ wire' = [wire EXCEPT ![s] = IF req[s].kind = "stream" THEN "open" ELSE @]
        /\ UNCHANGED <<seq, client>> /\ req[s].pc \in {"resolved", "quota"}
    BY <1>1 DEF AskPermit, AtQuota, At
  <2>2. wire[s] = "closed"
    BY <2>1 DEF Conversations, Conversation, Said, Inside
  <2>3. CASE req[s].kind = "stream"
    BY <2>1, <2>2, <2>3 DEF Wire!Open
  <2>4. CASE req[s].kind # "stream"
    BY <2>1, <2>4, <1>0
  <2> QED BY <2>3, <2>4
<1>2. ASSUME NEW s \in Slots, Drain(s)
      PROVE  Wire!Tell(s)
  <2>1. /\ wire[s] # "closed" /\ client[s] /\ out[s] # <<>> /\ Head(out[s]) # "sentinel"
        /\ seq' = [seq EXCEPT ![s] = @ + 1] /\ client' = client
        /\ wire' = [wire EXCEPT ![s] = IF Head(out[s]) = "event" THEN @ ELSE "told"]
    BY <1>2 DEF Drain
  <2>2. wire[s] = "open"
    BY <2>1, Heads DEF Conversations, Conversation, Said
  <2>3. wire' \in {wire, [wire EXCEPT ![s] = "told"]}
    BY <2>1, <1>0
  <2> QED BY <2>1, <2>2, <2>3 DEF Wire!Tell
<1>3. ASSUME NEW s \in Slots, Hangup(s)
      PROVE  Wire!Hangup(s)
  BY <1>3 DEF Hangup, Wire!Hangup
<1>4. ASSUME NEW s \in Slots, CloseStream(s)
      PROVE  Wire!Close(s)
  <2>1. wire[s] # "closed" /\ MayClose(s)
    BY <1>4 DEF CloseStream
  <2>2. wire[s] = "told" \/ (wire[s] = "open" /\ ~client[s])
    <3>1. Conversation(s) /\ wire[s] \in {"closed", "open", "told"}
      BY <1>0 DEF Conversations
    <3>2. <<"sentinel">> \notin {<<"event", "result", "sentinel">>, <<"result", "sentinel">>, <<"error", "sentinel">>}
      <4>1. Len(<<"sentinel">>) = 1 /\ Len(<<"event", "result", "sentinel">>) = 3
            /\ Len(<<"result", "sentinel">>) = 2 /\ Len(<<"error", "sentinel">>) = 2
        OBVIOUS
      <4> QED BY <4>1
    <3> QED BY <2>1, <3>1, <3>2 DEF MayClose, At, Conversation, Said
  <2> QED BY <1>4, <2>2 DEF CloseStream, Wire!Close
<1>5. ASSUME NEW s \in Slots, \/ Arrive(s) \/ Resolve(s) \/ SetCeiling(s) \/ RefuseQuota(s) \/ Enter(s) \/ Work(s) \/ Record(s)
      PROVE  UNCHANGED <<wire, seq, client>>
  BY <1>5 DEF Arrive, Resolve, ReadVersion, TakeCore, BuildCore, PublishCore, DropResults, SetCeiling,
         RefuseQuota, Enter, Work, Hit, Miss, Compute, Fail, Answer, Record, stream
<1>6. CASE Environment \/ UNCHANGED vars
  BY <1>6 DEF Environment, SaveSettings, Reindex, Midnight, vars, stream
<1> QED BY <1>1, <1>2, <1>3, <1>4, <1>5, <1>6 DEF Next, Admit, Finish

-----------------------------------------------------------------------------
(* The theorems                                                            *)

LEMMA ReverseIs ==
  ASSUME NEW S, NEW s \in Seq(S)
  PROVE  /\ Reverse(s) \in Seq(S) /\ Len(Reverse(s)) = Len(s) /\ Len(s) \in Nat
         /\ \A i \in 1..Len(s) : Reverse(s)[i] = s[Len(s) - i + 1]
<1>1. Len(s) \in Nat /\ \A i \in 1..Len(s) : s[(Len(s) - i) + 1] \in S
  BY ElementOfSeq
<1> QED BY <1>1 DEF Reverse

LEMMA RestIsSuffix ==
  ASSUME NEW S, NEW whole \in Seq(S), NEW n \in Nat, n <= Len(whole),
         NEW rest, rest = SubSeq(whole, n + 1, Len(whole))
  PROVE  IsSuffix(rest, whole)
<1>1. /\ Reverse(whole) \in Seq(S) /\ Len(Reverse(whole)) = Len(whole) /\ Len(whole) \in Nat
      /\ \A i \in 1..Len(whole) : Reverse(whole)[i] = whole[Len(whole) - i + 1]
  BY ReverseIs
<1>2. rest \in Seq(S) /\ Len(rest) = Len(whole) - n /\ \A i \in 1..Len(rest) : rest[i] = whole[n + i]
  BY <1>1, SubSeqProperties
<1>3. /\ Reverse(rest) \in Seq(S) /\ Len(Reverse(rest)) = Len(rest) /\ Len(rest) \in Nat
      /\ \A i \in 1..Len(rest) : Reverse(rest)[i] = rest[Len(rest) - i + 1]
  BY <1>2, ReverseIs
<1>4. ASSUME NEW i \in 1..Len(rest) PROVE Reverse(rest)[i] = Reverse(whole)[i]
  <2>1. i \in 1..Len(whole) /\ Len(rest) - i + 1 \in 1..Len(rest)
        /\ n + (Len(rest) - i + 1) = Len(whole) - i + 1
    <3>1. \A a, b, c \in Nat : \A j \in 1..b :
             b = a - c => /\ j \in 1..a /\ b - j + 1 \in 1..b
                          /\ c + (b - j + 1) = a - j + 1
      OBVIOUS
    <3>2. Len(rest) \in Nat /\ Len(whole) \in Nat /\ Len(rest) = Len(whole) - n
      BY <1>1, <1>2, <1>3
    <3> QED BY <3>1, <3>2
  <2>2. rest[Len(rest) - i + 1] = whole[Len(whole) - i + 1]
    BY <1>2, <2>1
  <2> QED BY <1>1, <1>3, <2>1, <2>2
<1>5. Len(Reverse(rest)) <= Len(Reverse(whole))
  BY <1>1, <1>2, <1>3
<1>6. SubSeq(Reverse(rest), 1, Len(Reverse(rest))) = SubSeq(Reverse(whole), 1, Len(Reverse(rest)))
  BY <1>1, <1>3, <1>4, <1>5
<1> QED BY <1>5, <1>6 DEF IsSuffix, IsPrefix

LEMMA ArrivingInductive ==
  ASSUME Typed, Arriving, [Next]_vars
  PROVE  Arriving'
<1>1. CASE script' = script
  BY <1>1 DEF Arriving
<1>2. CASE script # <<>> /\ script' = Tail(script)
  <2>0. PICK whole \in Scripts : \E n \in 0..Len(whole) : script = SubSeq(whole, n + 1, Len(whole))
    BY DEF Arriving
  <2>1. PICK n \in 0..Len(whole) : script = SubSeq(whole, n + 1, Len(whole))
    BY <2>0
  <2>2. whole \in Seq(Kinds \X Callers) /\ Len(whole) \in Nat
    BY ScriptsAreRequests, LenProperties
  <2>3. n < Len(whole)
    BY <1>2, <2>1, <2>2, SubSeqEmpty
  <2>4. Tail(script) = SubSeq(whole, n + 1 + 1, Len(whole))
    BY <2>1, <2>2, <2>3, HeadTailOfSubSeq
  <2>5. n + 1 \in 0..Len(whole) /\ script' = SubSeq(whole, (n + 1) + 1, Len(whole))
    BY <1>2, <2>2, <2>3, <2>4
  <2> QED BY <2>5 DEF Arriving
<1>3. script' = script \/ (script # <<>> /\ script' = Tail(script))
  BY DEF Next, vars, world, Environment, SaveSettings, Reindex, Midnight, Arrive, Resolve,
         ReadVersion, TakeCore, BuildCore, PublishCore, DropResults, Admit, SetCeiling,
         RefuseQuota, AskPermit, Enter, Work, Hit, Miss, Compute, Fail, Answer, Finish, Record,
         Drain, Hangup, CloseStream
<1> QED BY <1>1, <1>2, <1>3

IInv == /\ Typed /\ Followed /\ OneSemaphore /\ Solvent /\ AskersFit
        /\ StampsGrow /\ KeysComeFirst /\ Conversations /\ Arriving

LEMMA Initially ==
  ASSUME Init
  PROVE  IInv
<1> USE Constants
<1>1. Typed
  BY InitTyped
<1>2. Followed
  BY <1>1, Shape DEF Init, Followed, Fresh, Early
<1>3. OneSemaphore
  <2>1. Running = {} /\ Cardinality({}) = 0
    BY FS_EmptySet DEF Init, Running, Fresh, Inside
  <2>2. OneCeiling => Settings[1].limit \in Nat /\ Settings[1].limit > 0
    BY DEF OneCeiling
  <2>3. Gate
    BY DEF Init, Gate, Fresh, Inside
  <2> QED BY <2>1, <2>2, <2>3 DEF OneSemaphore
<1>4. Solvent
  <2> SUFFICES ASSUME 0 \notin Quotas, NEW k \in Keys
               PROVE  usage[k] + Cost * Cardinality(Owing(k)) < Max(Quotas) + Cost * Cardinality(Slots)
    BY DEF Solvent
  <2>1. Owing(k) = {} /\ Cardinality({}) = 0 /\ usage[k] = 0
    BY FS_EmptySet DEF Init, Owing, Owed, Fresh
  <2>2. Max(Quotas) \in Nat \ {0}
    BY Quotients
  <2>3. Cardinality(Slots) \in Nat
    BY SlotSets
  <2>4. Cost * 0 = 0 /\ Cost * Cardinality(Slots) \in Nat
    BY <2>3, Bills
  <2> QED BY <2>1, <2>2, <2>4
<1>5. AskersFit
  BY DEF Init, AskersFit, Fresh
<1>6. StampsGrow
  BY DEF Init, StampsGrow
<1>7. KeysComeFirst
  BY DEF Init, KeysComeFirst, Fresh
<1>8. Conversations
  BY DEF Init, Conversations, Conversation, Said, Fresh, Inside
<1>9. Arriving
  <2>1. script \in Scripts /\ script \in Seq(Kinds \X Callers)
    BY ScriptsAreRequests DEF Init
  <2>2. script = SubSeq(script, 0 + 1, Len(script)) /\ Len(script) \in Nat
    BY <2>1, SubSeqFull, LenProperties
  <2> QED BY <2>1, <2>2 DEF Arriving
<1> QED BY <1>1, <1>2, <1>3, <1>4, <1>5, <1>6, <1>7, <1>8, <1>9 DEF IInv

LEMMA Invariance == Spec => []IInv
<1>1. Init => IInv
  BY Initially
<1>2. IInv /\ [Next]_vars => IInv'
  BY TypedInductive, FollowedInductive, OneSemaphoreInductive, SolventInductive, AskersFitInductive,
     StampsGrowInductive, KeysComeFirstInductive, ConversationsInductive, ArrivingInductive DEF IInv
<1> QED BY <1>1, <1>2, PTL DEF Spec

LEMMA TypesHold ==
  ASSUME IInv
  PROVE  TypeOK
<1> USE DEF IInv
<1>1. /\ version \in Versions
      /\ index \in Seq([Docs -> Stamps]) /\ Len(index) \in 1..MaxEpochs
      /\ coreCache \in [stamp : Versions, built : Versions]
      /\ builder \in Slots \cup {Nobody} /\ usage \in [Keys -> Nat]
      /\ current \in 0..Len(caches) /\ sem.limit \in Nat /\ sem.object \in 0..Len(caps)
  BY DEF Typed, WorldTyped, PermitsTyped, CachesTyped
<1>2. \A i \in DOMAIN caches : \A k \in DOMAIN caches[i] : k # <<>> /\ caches[i][k] \in Results
  <2>1. ASSUME NEW i \in DOMAIN caches, NEW k \in DOMAIN caches[i]
        PROVE  k # <<>> /\ caches[i][k] \in Results
    <3>1. caches[i] \in Entries
      BY ElementOfSeq, LenProperties DEF Typed, CachesTyped
    <3> QED BY <3>1, EntryType, KeyIsNotNone
  <2> QED BY <2>1
<1>3. \E whole \in Scripts : IsSuffix(script, whole)
  <2>1. PICK whole \in Scripts : \E n \in 0..Len(whole) : script = SubSeq(whole, n + 1, Len(whole))
    BY DEF Arriving
  <2>2. PICK n \in 0..Len(whole) : script = SubSeq(whole, n + 1, Len(whole))
    BY <2>1
  <2>3. whole \in Seq(Kinds \X Callers)
    BY ScriptsAreRequests
  <2>4. n \in Nat /\ n <= Len(whole)
    BY <2>3, LenProperties
  <2>5. IsSuffix(script, whole)
    BY <2>2, <2>3, <2>4, RestIsSuffix, Zenon
  <2> QED BY <2>5
<1>4. \A s \in Slots : /\ req[s].pc \in Pcs /\ req[s].kind \in Kinds
                       /\ req[s].permit \in 0..Len(caps)
                       /\ req[s].cache \in 0..Len(caches)
                       /\ req[s].result \in Results \cup {NoResult}
  BY TypedRequest DEF Request, Placed
<1>5. out \in [Slots -> Seq({"event", "result", "error", "sentinel"})]
  <2>1. ASSUME NEW s \in Slots PROVE out[s] \in Seq({"event", "result", "error", "sentinel"})
    <3>1. out[s] \in {<<>>, <<"event">>, <<"result">>, <<"sentinel">>, <<"event", "result">>,
                      <<"event", "result", "sentinel">>, <<"result", "sentinel">>, <<"error", "sentinel">>}
      BY DEF Conversations, Conversation, Said
    <3> DEFINE I == {"event", "result", "error", "sentinel"}
    <3>2. <<>> \in Seq(I) /\ <<"event">> \in Seq(I) /\ <<"result">> \in Seq(I) /\ <<"sentinel">> \in Seq(I)
      OBVIOUS
    <3>3. <<"event", "result">> \in Seq(I) /\ <<"event", "result", "sentinel">> \in Seq(I)
      OBVIOUS
    <3>4. <<"result", "sentinel">> \in Seq(I) /\ <<"error", "sentinel">> \in Seq(I)
      OBVIOUS
    <3> HIDE DEF I
    <3>5. out[s] \in Seq(I)
      BY <3>1, <3>2, <3>3, <3>4
    <3> QED BY <3>5 DEF I
  <2>2. out = [s \in Slots |-> out[s]]
    BY DEF Conversations
  <2> QED BY <2>1, <2>2
<1> QED BY <1>1, <1>2, <1>3, <1>4, <1>5 DEF TypeOK

\* LazySemaphore and the quota: while no save changes the ceiling, no more searches run
\* than it says, and a key passes its quota at most by what was in flight.
THEOREM LimitsAreKept == Spec => []LimitsHold
<1>1. IInv => TypeOK
  BY TypesHold
<1>2. IInv => CeilingHolds
  BY DEF IInv, OneSemaphore, OneCeiling, Running, CeilingHolds
<1>3. IInv => QuotaOvershootIsBounded
  <2> SUFFICES ASSUME IInv, 0 \notin Quotas, NEW k \in Keys
               PROVE  usage[k] < Max(Quotas) + Cost * Cardinality(Slots)
    BY DEF QuotaOvershootIsBounded, Quotas
  <2>1. usage[k] + Cost * Cardinality(Owing(k)) < Max(Quotas) + Cost * Cardinality(Slots)
    BY DEF IInv, Solvent
  <2>2. Owing(k) \in SUBSET Slots
    BY DEF Owing
  <2>3. Cardinality(Owing(k)) \in Nat /\ Cardinality(Slots) \in Nat
    BY <2>2, SlotSets
  <2>4. Cost * Cardinality(Owing(k)) \in Nat /\ Cost * Cardinality(Slots) \in Nat
    BY <2>3, Bills
  <2>5. usage[k] \in Nat /\ Max(Quotas) \in Nat
    BY Quotients DEF IInv, Typed, WorldTyped
  <2> QED BY <2>1, <2>4, <2>5
<1> QED BY <1>1, <1>2, <1>3, Invariance, PTL DEF LimitsHold

\* _resolve_search_core: whatever the order of saves, rebuilds under the lock and
\* readers without it, a request never runs under settings older than those it saw.
THEOREM SettingsFollowed == Spec => []SettingsAreFollowed
<1>1. IInv => SettingsAreFollowed
  BY Shape DEF IInv, Followed, SettingsAreFollowed
<1> QED BY <1>1, Invariance, PTL

\* SearchCore.answer: a cached answer was computed over the content that is live when
\* it is served, or a later one, and for the caller that gets it.
THEOREM AnswersFit == Spec => CachedAnswersFit
<1>1. IInv => HitIsForTheAsker
  BY DEF IInv, AskersFit, HitIsForTheAsker
<1>2. ASSUME IInv, NEW s \in Slots, Hit(s)
      PROVE  \E e \in 1..req'[s].result.epoch : index[e] = Content
  <2> USE DEF IInv
  <2> DEFINE entry == caches[req[s].cache][CacheKey(s)]
  <2>1. /\ req[s].cache \in 1..Len(caches) /\ CacheKey(s) \in DOMAIN caches[req[s].cache]
        /\ req'[s].result = entry
    BY <1>2, HitEntry
  <2>2. entry.epoch <= Len(index) /\ TakenBy(CacheKey(s), entry.epoch, index) /\ entry.epoch \in Nat
    <3>1. caches[req[s].cache] \in Entries
      BY <1>2, <2>1, ElementOfSeq DEF Typed, CachesTyped
    <3>2. entry \in Results
      BY <2>1, <3>1, EntryType
    <3>3. entry.epoch \in Nat
      BY <3>2, Constants DEF Results
    <3> QED BY <1>2, <2>1, <3>3 DEF KeysComeFirst
  <2> HIDE DEF entry
  <2>3. PICK t \in 1..entry.epoch : CacheKey(s)[1] = IndexVersion(index[t])
    BY <2>2 DEF TakenBy
  <2>4. IndexVersion(index[t]) = IndexVersion(Content)
    BY <2>3 DEF CacheKey
  <2>5. t \in 1..Len(index)
    BY <1>2, <2>2, IndexTyped
  <2>6. index[t] = Content
    BY <1>2, <2>4, <2>5, SameVersion
  <2> QED BY <2>1, <2>6
<1>3. IInv /\ [Next]_vars => [\A s \in Slots : Hit(s) => \E e \in 1..req'[s].result.epoch : index[e] = Content]_vars
  BY <1>2
<1> QED BY <1>1, <1>3, Invariance, PTL DEF Spec, CachedAnswersFit, HitIsNotOlder

\* _search_stream: the worker, the queue and the frames generator together keep the
\* promise of StreamContract: numbered frames, one terminal frame and nothing after it.
THEOREM StreamsImplementTheContract == Spec => StreamsKeepTheContract
<1>1. Init => Wire!ContractInit
  BY DEF Init, Wire!ContractInit
<1>2. IInv /\ [Next]_vars => [Wire!ContractNext]_(Wire!contractVars)
  BY StepRefines DEF IInv
<1> QED BY <1>1, <1>2, Invariance, PTL DEF Spec, StreamsKeepTheContract, Wire!Contract
===============================================================================
