-------------------------- MODULE ReconcilerProofs --------------------------
(***************************************************************************)
(* What TLAPS proves of the reconciler, for every set of documents, page   *)
(* size, overlap and failure limit.                                        *)
(***************************************************************************)
EXTENDS Reconciler, FiniteSetTheorems, TLAPS

ConstantAssumptions ==
    /\ Doc \subseteq Nat /\ IsFiniteSet(Doc)
    /\ Blank \notin Text
    /\ NoRow \notin Row
    /\ Never \notin Int
    /\ PageSize \in Nat \ {0}
    /\ Overlap \in Nat \ {0}
    /\ MaxFailures \in Nat \ {0}
    /\ MaxClock \in Nat /\ MaxFaults \in Nat

LEMMA Constants == ConstantAssumptions
  BY IdsAreNumbers, BlankIsNoText, NoRowIsNoRow, NeverIsNoTime, PageSizeIsPositive,
     OverlapIsPositive, MaxFailuresIsPositive, BoundsAreNatural
     DEF ConstantAssumptions, Row

-----------------------------------------------------------------------------
(* Type correctness.  The watermark is a number because a cycle that has   *)
(* seen a document has seen a newest one.                                  *)

Typed == TypeOK /\ (pageIds # {} => latest # Never)

LEMMA TypedInit == Init => Typed
  BY Constants DEF ConstantAssumptions, Init, Typed, TypeOK, Body, Phase, Outcome, NothingToFetch

LEMMA FetchedIsAJob ==
  ASSUME Typed, NEW d \in Doc
  PROVE  Fetched(d) \in Job
  BY DEF Typed, TypeOK, Fetched, Job, Body

LEMMA FoldModifiedTyped ==
  ASSUME Typed, NEW ids \in SUBSET Doc, FoldModified(ids)
  PROVE  latest' \in Nat \cup {Never} /\ (ids # {} => latest' # Never) /\ (latest # Never => latest' # Never)
  BY Constants DEF ConstantAssumptions, Typed, TypeOK, FoldModified

LEMMA PagesAreDocuments ==
  ASSUME Typed, NEW n
  PROVE  /\ PageOf(live, n) \subseteq live
         /\ \A t : PageOf(ModifiedSince(t), n) \subseteq live
         /\ live \subseteq Doc
  BY DEF Typed, TypeOK, PageOf, ModifiedSince

LEMMA TypedUsers == ASSUME Typed, Users PROVE Typed'
<1>1. ASSUME Tick PROVE Typed'
  BY <1>1 DEF Typed, TypeOK, Tick, store, sync, sweep, ghosts
<1>2. ASSUME NEW d \in Doc, Delete(d) PROVE Typed'
  BY <1>2 DEF Typed, TypeOK, Delete, Body, store, sync, sweep, ghosts
<1>3. ASSUME NEW d \in Doc, NEW t \in Body, Create(d, t) PROVE Typed'
  BY <1>3 DEF Typed, TypeOK, Create, store, sync, sweep, ghosts
<1>4. ASSUME NEW d \in Doc, NEW t \in Body, Edit(d, t) PROVE Typed'
  BY <1>4 DEF Typed, TypeOK, Edit, store, sync, sweep, ghosts
<1> QED BY <1>1, <1>2, <1>3, <1>4 DEF Users

LEMMA ForgottenTyped ==
  ASSUME Typed, ForgetLocals
  PROVE  /\ since' \in Int \cup {Never}
         /\ snapshot' \in [Doc -> Row \cup {NoRow}]
         /\ pageIds' = {}
         /\ latest' \in Nat \cup {Never}
         /\ toFetch' \in [Doc -> Nat]
         /\ jobs' \subseteq Job
         /\ outcome' \in [Doc -> Outcome]
         /\ failedMap' \in [Doc -> Nat]
         /\ retryIds' \subseteq Doc
         /\ seen' \subseteq Doc
         /\ candidates' \subseteq Doc
         /\ pruneIds' \subseteq Doc
         /\ tried' \in [Doc -> Nat]
  BY DEF ForgetLocals, NothingToFetch, Outcome

LEMMA NewWatermarkTyped == ASSUME Typed PROVE NewWatermark \in Int \cup {Never}
  BY Constants DEF ConstantAssumptions, Typed, TypeOK, NewWatermark

LEMMA TypedRequests == ASSUME Typed, Requests PROVE Typed'
<1> USE Constants DEF ConstantAssumptions
<1>1. ASSUME FetchFullPage PROVE Typed'
  <2> DEFINE ids == PageOf(live, page)
  <2>1. ids \subseteq Doc
    BY PagesAreDocuments
  <2>2. jobs' \subseteq Job
    BY <1>1, <2>1, FetchedIsAJob DEF FetchFullPage
  <2>3. latest' \in Nat \cup {Never} /\ (ids # {} => latest' # Never) /\ (latest # Never => latest' # Never)
    BY <1>1, <2>1, FoldModifiedTyped DEF FetchFullPage
  <2>4. tried' \in [Doc -> Nat]
    BY <1>1, <2>1 DEF FetchFullPage, Typed, TypeOK
  <2>5. pageIds' = pageIds \cup ids /\ page' \in Nat /\ pc' \in Phase
    BY <1>1 DEF FetchFullPage, Typed, TypeOK, Phase
  <2> QED BY <1>1, <2>1, <2>2, <2>3, <2>4, <2>5 DEF FetchFullPage, Typed, TypeOK, paperless, store, sweep
<1>2. ASSUME FetchLightPage PROVE Typed'
  <2> DEFINE ids == PageOf(ModifiedSince(since), page)
  <2>1. ids \subseteq Doc
    BY PagesAreDocuments
  <2>3. latest' \in Nat \cup {Never} /\ (ids # {} => latest' # Never) /\ (latest # Never => latest' # Never)
    BY <1>2, <2>1, FoldModifiedTyped DEF FetchLightPage
  <2>4. tried' \in [Doc -> Nat] /\ toFetch' \in [Doc -> Nat]
    BY <1>2, <2>1 DEF FetchLightPage, Typed, TypeOK
  <2>5. pageIds' = pageIds \cup ids /\ page' \in Nat /\ pc' \in Phase
    BY <1>2 DEF FetchLightPage, Typed, TypeOK, Phase
  <2> QED BY <1>2, <2>1, <2>3, <2>4, <2>5 DEF FetchLightPage, Typed, TypeOK, paperless, store, sweep
<1>3. ASSUME EnumeratePage PROVE Typed'
  <2>1. PageOf(live, page) \subseteq Doc
    BY PagesAreDocuments
  <2>2. seen' \subseteq Doc
    BY <1>3, <2>1 DEF EnumeratePage, Typed, TypeOK
  <2>4. page' \in Nat
    BY <1>3, <2>1 DEF EnumeratePage, Typed, TypeOK
  <2>5. pc' \in Phase
    BY <1>3, <2>1 DEF EnumeratePage, Typed, TypeOK, Phase
  <2>3. candidates' \subseteq Doc
    BY <1>3 DEF EnumeratePage, Typed, TypeOK
  <2> QED BY <1>3, <2>2, <2>3, <2>4, <2>5 DEF EnumeratePage, Typed, TypeOK, paperless, store, ghosts
<1>4. ASSUME NEW d \in Doc, FetchChanged(d) PROVE Typed'
  BY <1>4, FetchedIsAJob DEF FetchChanged, Typed, TypeOK, Outcome, paperless, store, sweep
<1>5. ASSUME NEW d \in Doc, RefetchFailed(d) PROVE Typed'
  BY <1>5, FetchedIsAJob DEF RefetchFailed, Typed, TypeOK, paperless, store, sweep
<1>6. ASSUME NEW d \in Doc, ConfirmAbsent(d) PROVE Typed'
  <2>1. candidates' \subseteq Doc
    BY <1>6 DEF ConfirmAbsent, Typed, TypeOK
  <2>2. pruneIds' \subseteq Doc
    BY <1>6 DEF ConfirmAbsent, Typed, TypeOK
  <2>3. faults' \in Nat
    BY <1>6 DEF ConfirmAbsent, Typed, TypeOK
  <2> QED BY <1>6, <2>1, <2>2, <2>3 DEF ConfirmAbsent, Typed, TypeOK, paperless, store, sync
<1> QED BY <1>1, <1>2, <1>3, <1>4, <1>5, <1>6 DEF Requests

LEMMA TypedIndexing == ASSUME Typed, NEW j \in jobs, IndexDocument(j) PROVE Typed'
<1> USE Constants DEF ConstantAssumptions
<1>1. j \in Job
  BY DEF Typed, TypeOK
<1>2. ASSUME NEW r \in {"ok", "failed"}, Finish(j, r) PROVE jobs' \subseteq Job
  BY <1>1, <1>2 DEF Finish, Typed, TypeOK, Job
<1>3. ASSUME SkipOrPrune(j)
      PROVE  jobs' \subseteq Job /\ row' \in [Doc -> Row \cup {NoRow}] /\ faults' \in Nat
  BY <1>1, <1>2, <1>3 DEF SkipOrPrune, Typed, TypeOK
<1>4. ASSUME UpdateMetadata(j)
      PROVE  jobs' \subseteq Job /\ row' \in [Doc -> Row \cup {NoRow}] /\ faults' \in Nat
  BY <1>1, <1>2, <1>4 DEF UpdateMetadata, Typed, TypeOK, Job, Row
<1>5. ASSUME Upsert(j)
      PROVE  jobs' \subseteq Job /\ row' \in [Doc -> Row \cup {NoRow}] /\ faults' \in Nat
  <2>1. j.text \in Text /\ j.stamp \in Nat /\ j.id \in Doc
    BY <1>1, <1>5 DEF Upsert, Job, Body
  <2> QED BY <1>2, <1>5, <2>1 DEF Upsert, Typed, TypeOK, Row
<1>6. ASSUME IndexFails(j)
      PROVE  jobs' \subseteq Job /\ row' \in [Doc -> Row \cup {NoRow}] /\ faults' \in Nat
  BY <1>2, <1>6 DEF IndexFails, Typed, TypeOK
<1> QED BY <1>3, <1>4, <1>5, <1>6 DEF IndexDocument, Typed, TypeOK, paperless, sweep

LEMMA TypedDaemon == ASSUME Typed, Daemon PROVE Typed'
<1> USE Constants DEF ConstantAssumptions
<1>1. ASSUME StartCycle PROVE Typed'
  BY <1>1 DEF StartCycle, Typed, TypeOK, Phase, paperless, store, sweep, ghosts
<1>2. ASSUME FetchEnds \/ RefetchEnds PROVE Typed'
  BY <1>2 DEF FetchEnds, RefetchEnds, Typed, TypeOK, Phase, paperless, store, sync, sweep, ghosts
<1>3. ASSUME JoinPool PROVE Typed'
  <2>1. outcome' \in [Doc -> Outcome]
    BY <1>3 DEF JoinPool, Result, Typed, TypeOK, Outcome
  <2>2. failedMap' \in [Doc -> Nat] /\ retryIds' \subseteq Doc /\ pc' \in Phase
    BY <1>3 DEF JoinPool, RetryIds, Typed, TypeOK, Phase
  <2> QED BY <1>3, <2>1, <2>2 DEF JoinPool, Typed, TypeOK, paperless, store, sweep, ghosts
<1>4. ASSUME UpdateFailedDocuments PROVE Typed'
  <2>1. failed' \in [Doc -> Nat] /\ gaveUp' \in [Doc -> Nat] /\ retried' \in [Doc -> Nat]
    BY <1>4 DEF UpdateFailedDocuments, RetriesAfter, Typed, TypeOK
  <2> QED BY <1>4, <2>1 DEF UpdateFailedDocuments, Typed, TypeOK, Phase, paperless, sync, sweep
<1>5. ASSUME AdvanceWatermark \/ AdvanceWatermarkThenSweep PROVE Typed'
  <2>1. ForgetLocals
    BY <1>5 DEF AdvanceWatermark, AdvanceWatermarkThenSweep, CycleEnds
  <2>2. watermark' \in Int \cup {Never} /\ pc' \in Phase /\ page' \in Nat
    BY <1>5, NewWatermarkTyped DEF AdvanceWatermark, AdvanceWatermarkThenSweep, CycleEnds, Phase
  <2>3. UNCHANGED <<paperless, row, failed, gaveUp, retried, faults>>
    BY <1>5 DEF AdvanceWatermark, AdvanceWatermarkThenSweep
  <2> QED BY <2>1, <2>2, <2>3, ForgottenTyped DEF Typed, TypeOK, paperless
<1>6. ASSUME Prune \/ PageIsGone \/ EnumerationFails PROVE Typed'
  <2>1. ForgetLocals /\ page' = 0 /\ pc' = "idle"
    BY <1>6 DEF Prune, PageIsGone, EnumerationFails, CycleEnds
  <2>2. row' \in [Doc -> Row \cup {NoRow}] /\ faults' \in Nat
    BY <1>6 DEF Prune, PageIsGone, EnumerationFails, Typed, TypeOK, store
  <2>3. UNCHANGED <<paperless, watermark, failed, gaveUp, retried>>
    BY <1>6 DEF Prune, PageIsGone, EnumerationFails, store
  <2> QED BY <2>1, <2>2, <2>3, ForgottenTyped DEF Typed, TypeOK, Phase, paperless
<1> QED BY <1>1, <1>2, <1>3, <1>4, <1>5, <1>6, TypedRequests, TypedIndexing DEF Daemon

LEMMA TypedNext == ASSUME Typed, [Next]_vars PROVE Typed'
<1>1. ASSUME CycleLost PROVE Typed'
  BY <1>1, ForgottenTyped DEF CycleLost, CycleEnds, Typed, TypeOK, Phase, paperless, store
<1>2. ASSUME Rebuild PROVE Typed'
  BY <1>2 DEF Rebuild, Typed, TypeOK, paperless, sync, sweep
<1>3. ASSUME UNCHANGED vars PROVE Typed'
  BY <1>3 DEF Typed, TypeOK, vars, paperless, store, sync, sweep, ghosts
<1> QED BY <1>1, <1>2, <1>3, TypedUsers, TypedDaemon DEF Next

\* Every variable keeps its type, whatever the archive, the requests and the
\* crashes do.
THEOREM TypeCorrect == Spec => []TypeOK
<1>1. Typed /\ [Next]_vars => Typed'
  BY TypedNext
<1>2. Typed => TypeOK
  BY DEF Typed
<1> QED BY TypedInit, <1>1, <1>2, PTL DEF Spec

-----------------------------------------------------------------------------
(* The inductive invariant behind NoDocumentIsLost.  Between two pages of  *)
(* one window the archive stands still, or loses the page to come          *)
(* (QuietSpec); everything else moves freely.                              *)

Syncing == {"page", "fetch", "pool", "retry", "retryPool", "map", "mark"}
Window == ModifiedSince(since)

NewerThan(d, w) == w = Never \/ modified[d] > w

\* Every later cycle pages d again: its last save is ahead of the watermark,
\* the one in the meta table and the one this cycle will write.
Newer(d) == NewerThan(d, watermark) /\ NewerThan(d, NewWatermark)

Retained(d) == failed[d] > 0 \/ gaveUp[d] = modified[d]

Attempted(d) == outcome[d] # "none" \/ \E j \in jobs : j.id = d /\ j.state # "queued"

\* Where the claim of document d on this cycle stands.
Accounted(d) ==
    \/ page > 0 /\ d \in Window \ pageIds
    \/ page = 0 /\ Newer(d)
    \/ toFetch[d] > 0
    \/ \E j \in jobs : j.id = d
    \/ outcome[d] = "ok" /\ Settled(d)
    \/ outcome[d] = "failed" /\ tried[d] = modified[d]
    \/ outcome[d] = "none" /\ (Settled(d) \/ Retained(d))

\* Paperless does not reuse an id.
Ids ==
    /\ live \cap unborn = {}
    /\ \A d \in unborn : row[d] = NoRow /\ failed[d] = 0 /\ outcome[d] = "none"
    /\ unborn \cap (pageIds \cup retryIds \cup candidates \cup pruneIds) = {}
    /\ \A j \in jobs : j.id \notin unborn
    /\ pruneIds \cap live = {}

Times ==
    /\ watermark # Never => watermark < clock
    /\ latest # Never => latest <= clock
    /\ \A d \in Doc : modified[d] <= clock

Phases ==
    /\ pc \in Syncing => since = watermark
    /\ pc \in {"fetch", "retry", "retryPool", "map", "mark"} => page = 0
    /\ pc = "page" => page > 0
    /\ pc = "pool" => page # 1
    /\ pc \notin {"fetch", "pool", "retry", "retryPool"} => jobs = {}
    /\ pc \notin {"page", "fetch"} => \A d \in Doc : toFetch[d] = 0
    /\ since = Never => \A d \in Doc : toFetch[d] = 0
    /\ pc # "retry" => retryIds = {}
    /\ pc \notin Syncing \/ (pc = "page" /\ page = 1) =>
        /\ pageIds = {}
        /\ \A d \in Doc : outcome[d] = "none" /\ toFetch[d] = 0

Once ==
    /\ \A d \in Doc : toFetch[d] <= 1
    /\ \A d \in Doc : toFetch[d] > 0 => outcome[d] = "none"
    /\ \A j, k \in jobs : j.id = k.id => j = k
    /\ \A j \in jobs : outcome[j.id] = "none" /\ toFetch[j.id] = 0 /\ j.id \notin retryIds
    /\ \A d \in Doc : toFetch[d] > 0 => d \in pageIds
    /\ pc \in {"page", "fetch", "pool", "retry", "retryPool"} =>
        \A d \in Doc : outcome[d] # "none" => d \in pageIds
    /\ \A j \in jobs : (pc \in {"fetch", "pool"}) <=> (j.id \in pageIds)
    /\ retryIds \cap pageIds = {}
    /\ \A d \in retryIds : failed[d] > 0

Rows ==
    /\ \A d \in Doc : row[d] # NoRow => row[d].hash = row[d].body
    /\ \A d \in live : row[d] # NoRow => row[d].stamp <= modified[d]
    /\ pc \in Syncing => \A d \in Doc : Attempted(d) \/ row[d] = snapshot[d]

JobsAreCurrent ==
    \A j \in jobs :
        /\ tried[j.id] = j.stamp
        /\ j.id \in live =>
            /\ j.stamp <= modified[j.id]
            /\ IF j.stamp = modified[j.id]
               THEN j.text = text[j.id] /\ (j.state = "ok" => Settled(j.id))
               ELSE page = 0 /\ Newer(j.id)

FetchesAreCurrent ==
    \A d \in live : toFetch[d] > 0 => tried[d] = modified[d] \/ (page = 0 /\ Newer(d))

MapIsCurrent ==
    pc \in {"retry", "retryPool", "map"} => \A d \in live \cup unborn : failedMap[d] = failed[d]

PagesAreWhole ==
    pc \in {"page", "pool"} /\ page > 0 =>
        pageIds = {d \in Window : Rank(d, Window) < (page - 1) * PageSize}

AllAccounted ==
    pc \in Syncing \ {"mark"} => \A d \in live : Accounted(d)

Marked ==
    pc = "mark" => \A d \in live : Settled(d) \/ NewerThan(d, NewWatermark) \/ Retained(d)

\* What the archive's moves leave intact, even between two pages.
Core == /\ Typed /\ Ids /\ Times /\ Phases /\ Once /\ Rows /\ MapIsCurrent /\ Marked
        /\ SkipIsSafe /\ NoDocumentIsLost

IInv == Core /\ JobsAreCurrent /\ FetchesAreCurrent /\ PagesAreWhole /\ AllAccounted

\* The cycle that will not find its next page is past saving anything.
Stranded == Core /\ PageMissing

LEMMA IInvInit == Init => IInv
<1> SUFFICES ASSUME Init PROVE IInv
  OBVIOUS
<1> USE DEF Init
<1>1. Typed
  BY TypedInit
<1>2. Ids /\ Times
  BY Constants DEF ConstantAssumptions, Ids, Times
<1>3. Phases /\ Once
  BY DEF Phases, Once, Syncing, NothingToFetch
<1>4. Rows /\ JobsAreCurrent /\ FetchesAreCurrent /\ MapIsCurrent
  BY DEF Rows, JobsAreCurrent, FetchesAreCurrent, MapIsCurrent, Syncing
<1>5. PagesAreWhole /\ AllAccounted /\ Marked /\ SkipIsSafe /\ NoDocumentIsLost
  BY DEF PagesAreWhole, AllAccounted, Marked, SkipIsSafe, NoDocumentIsLost, Syncing
<1> QED BY <1>1, <1>2, <1>3, <1>4, <1>5 DEF Core, IInv

LEMMA NewWatermarkInThePast ==
  ASSUME Typed, Times
  PROVE  NewWatermark # Never => NewWatermark \in Int /\ NewWatermark < clock
  BY Constants DEF ConstantAssumptions, Typed, TypeOK, Times, NewWatermark

\* A cycle that ends, in whatever way, leaves only what the store holds.
LEMMA EndOfCycle ==
  ASSUME Core, Typed', ForgetLocals, pc' \in {"idle", "enumerate"},
         UNCHANGED <<paperless, failed>>,
         \A d \in live \cup unborn : row'[d] = row[d],
         \A d \in Doc : row'[d] \in {row[d], NoRow},
         watermark' \in {watermark, NewWatermark},
         NoDocumentIsLost'
  PROVE  IInv'
<1> USE DEF Core, IInv
<1>1. Ids'
  BY DEF Ids, ForgetLocals, paperless, Typed, TypeOK
<1>2. Times'
  BY NewWatermarkInThePast, Constants DEF ConstantAssumptions, Times, ForgetLocals, paperless
<1>3. Phases'
  BY DEF Phases, Syncing, ForgetLocals, NothingToFetch
<1>4. Once'
  BY DEF Once, ForgetLocals, NothingToFetch
<1>5. Rows'
  BY DEF Rows, Syncing, paperless, Typed, TypeOK
<1>6. JobsAreCurrent' /\ FetchesAreCurrent'
  BY DEF JobsAreCurrent, FetchesAreCurrent, ForgetLocals, NothingToFetch, Typed, TypeOK, paperless
<1>7. MapIsCurrent' /\ PagesAreWhole' /\ AllAccounted' /\ Marked'
  BY DEF MapIsCurrent, PagesAreWhole, AllAccounted, Marked, Syncing
<1>8. SkipIsSafe'
  BY DEF SkipIsSafe, paperless
<1> QED BY <1>1, <1>2, <1>3, <1>4, <1>5, <1>6, <1>7, <1>8

LEMMA CycleIsLost ==
  ASSUME Core, Typed', PageIsGone \/ EnumerationFails \/ CycleLost
  PROVE  IInv'
<1>1. /\ ForgetLocals /\ pc' = "idle" /\ UNCHANGED <<paperless, store, gaveUp>>
  BY DEF PageIsGone, EnumerationFails, CycleLost, CycleEnds
<1>2. NoDocumentIsLost'
  BY <1>1 DEF Core, IInv, NoDocumentIsLost, Settled, paperless, store
<1> QED BY <1>1, <1>2, EndOfCycle DEF store

LEMMA CycleIsMarked ==
  ASSUME IInv, Typed', AdvanceWatermark \/ AdvanceWatermarkThenSweep
  PROVE  IInv'
<1>1. /\ pc = "mark" /\ ForgetLocals /\ pc' \in {"idle", "enumerate"}
      /\ watermark' = NewWatermark
      /\ UNCHANGED <<paperless, row, failed, gaveUp>>
  BY DEF AdvanceWatermark, AdvanceWatermarkThenSweep, CycleEnds
<1>2. NoDocumentIsLost'
  BY <1>1 DEF Core, IInv, NoDocumentIsLost, Marked, Settled, NewerThan, Retained, paperless
<1> QED BY <1>1, <1>2, EndOfCycle DEF IInv

LEMMA RowsArePruned == ASSUME IInv, Typed', Prune PROVE IInv'
<1>1. /\ ForgetLocals /\ pc' = "idle" /\ UNCHANGED <<paperless, watermark, failed, gaveUp>>
      /\ row' = [d \in Doc |-> IF d \in pruneIds THEN NoRow ELSE row[d]]
  BY DEF Prune, CycleEnds
<1>2. \A d \in live \cup unborn : row'[d] = row[d]
  BY <1>1 DEF Core, IInv, Ids, Typed, TypeOK
<1>3. NoDocumentIsLost'
  BY <1>1, <1>2 DEF Core, IInv, NoDocumentIsLost, Settled, paperless
<1> QED BY <1>1, <1>2, <1>3, EndOfCycle DEF IInv

LEMMA IndexIsRebuilt == ASSUME IInv, Typed', Rebuild PROVE IInv'
<1> USE DEF Core, IInv, Rebuild
<1>1. Ids' /\ Times'
  BY DEF Ids, Times, paperless, sync, sweep, Typed, TypeOK
<1>2. Phases' /\ Once'
  BY DEF Phases, Once, paperless, sync, Syncing
<1>3. Rows' /\ SkipIsSafe'
  BY DEF Rows, SkipIsSafe, Syncing, Typed, TypeOK, paperless
<1>4. JobsAreCurrent'
  BY DEF JobsAreCurrent, Phases, sync
<1>5. FetchesAreCurrent'
  BY DEF FetchesAreCurrent, Phases, sync, paperless, Typed, TypeOK
<1>6. MapIsCurrent' /\ PagesAreWhole' /\ AllAccounted' /\ Marked'
  BY DEF MapIsCurrent, PagesAreWhole, AllAccounted, Marked, Syncing
<1>7. NoDocumentIsLost'
  BY DEF NoDocumentIsLost
<1> QED BY <1>1, <1>2, <1>3, <1>4, <1>5, <1>6, <1>7

LEMMA SweepGoesOn ==
  ASSUME IInv, Typed', EnumeratePage \/ \E d \in Doc : ConfirmAbsent(d)
  PROVE  IInv'
<1>1. /\ pc \in {"enumerate", "confirm"} /\ pc' \in {"enumerate", "confirm"}
      /\ UNCHANGED <<paperless, store, since, snapshot, pageIds, latest, toFetch, jobs,
                     outcome, failedMap, retryIds, tried, gaveUp>>
  BY DEF EnumeratePage, ConfirmAbsent, sync, ghosts
<1>2. \A d \in unborn : d \notin candidates' /\ d \notin pruneIds'
  <2>1. CASE EnumeratePage
    BY <2>1 DEF Core, IInv, Ids, EnumeratePage
  <2>2. CASE \E d \in Doc : ConfirmAbsent(d)
    BY <2>2 DEF Core, IInv, Ids, ConfirmAbsent
  <2> QED BY <2>1, <2>2
<1>3. pruneIds' \cap live = {}
  <2>1. CASE EnumeratePage
    BY <2>1 DEF Core, IInv, Ids, EnumeratePage
  <2>2. CASE \E d \in Doc : ConfirmAbsent(d)
    BY <2>2 DEF Core, IInv, Ids, ConfirmAbsent
  <2> QED BY <2>1, <2>2
<1>4. Ids'
  BY <1>1, <1>2, <1>3 DEF Core, IInv, Ids, paperless, store
<1>5. Times' /\ NoDocumentIsLost' /\ SkipIsSafe'
  BY <1>1 DEF Core, IInv, Times, NoDocumentIsLost, SkipIsSafe, Settled, paperless, store
<1>6. Phases' /\ Once' /\ Rows'
  BY <1>1 DEF Core, IInv, Phases, Once, Rows, Syncing, paperless, store
<1>7. JobsAreCurrent' /\ FetchesAreCurrent'
  BY <1>1 DEF Core, IInv, Phases, JobsAreCurrent, FetchesAreCurrent, paperless, Typed, TypeOK
<1>8. MapIsCurrent' /\ PagesAreWhole' /\ AllAccounted' /\ Marked'
  BY <1>1 DEF MapIsCurrent, PagesAreWhole, AllAccounted, Marked, Syncing
<1> QED BY <1>4, <1>5, <1>6, <1>7, <1>8 DEF Core, IInv

\* Positions in a page are counted among finitely many documents.
LEMMA PartIsSmaller ==
  ASSUME NEW W \in SUBSET Doc, NEW V \in SUBSET W
  PROVE  /\ Cardinality(V) \in Nat /\ Cardinality(W) \in Nat
         /\ Cardinality(V) <= Cardinality(W)
         /\ V # W => Cardinality(V) < Cardinality(W)
<1>1. IsFiniteSet(W)
  BY Constants, FS_Subset DEF ConstantAssumptions
<1>2. IsFiniteSet(V)
  BY <1>1, FS_Subset
<1>3. Cardinality(V) \in Nat /\ Cardinality(W) \in Nat
  BY <1>1, <1>2, FS_CardinalityType
<1>4. Cardinality(V) <= Cardinality(W) /\ (Cardinality(W) = Cardinality(V) => W = V)
  BY <1>1, FS_Subset
<1> QED BY <1>3, <1>4

LEMMA RankIsLow ==
  ASSUME Typed, NEW W \in SUBSET Doc, NEW d \in W
  PROVE  Rank(d, W) \in Nat /\ Cardinality(W) \in Nat /\ Rank(d, W) < Cardinality(W)
<1> DEFINE earlier == {e \in W : Before(e, d)}
<1>1. d \notin earlier
  BY Constants DEF ConstantAssumptions, Before, Typed, TypeOK
<1>2. earlier \in SUBSET W /\ earlier # W
  BY <1>1
<1> QED BY <1>2, PartIsSmaller DEF Rank

LEMMA SyncStarts == ASSUME IInv, Typed', StartCycle PROVE IInv'
<1> USE DEF Core, IInv, StartCycle
<1>1. Ids' /\ Times' /\ SkipIsSafe' /\ NoDocumentIsLost'
  BY DEF Ids, Times, SkipIsSafe, NoDocumentIsLost, Settled, paperless, store, sweep, ghosts
<1>2. Phases' /\ Once'
  BY DEF Phases, Once, Syncing, store
<1>3. Rows'
  BY DEF Rows, paperless, store
<1>4. JobsAreCurrent' /\ FetchesAreCurrent'
  BY DEF Phases, JobsAreCurrent, FetchesAreCurrent, Syncing, paperless, ghosts, Typed, TypeOK
<1>5. MapIsCurrent' /\ Marked'
  BY DEF MapIsCurrent, Marked
<1>6. PagesAreWhole'
  <2>1. Window' \in SUBSET Doc
    BY DEF Window, ModifiedSince, Typed, TypeOK, paperless
  <2>2. ASSUME NEW d \in Doc PROVE Rank(d, Window)' \in Nat
    <3>1. {e \in Window' : Before(e, d)'} \in SUBSET Window'
      OBVIOUS
    <3> QED BY <2>1, <3>1, PartIsSmaller DEF Rank
  <2>3. page' = 1 /\ pageIds' = {} /\ (page' - 1) * PageSize = 0
    BY Constants DEF ConstantAssumptions, Phases, Syncing
  <2>4. \A d \in Window' : ~(Rank(d, Window)' < 0)
    BY <2>1, <2>2
  <2> HIDE DEF StartCycle, IInv, Core
  <2> QED BY <2>3, <2>4 DEF PagesAreWhole
<1>7. AllAccounted'
  <2> SUFFICES ASSUME NEW d \in live PROVE Accounted(d)'
    BY DEF AllAccounted, paperless
  <2>1. d \in Doc /\ outcome[d] = "none" /\ pageIds = {}
    BY DEF Phases, Syncing, Typed, TypeOK
  <2>2. Settled(d)' <=> Settled(d)
    BY DEF Settled, paperless, store
  <2>3. NewerThan(d, watermark) => d \in Window'
    BY DEF NewerThan, Window, ModifiedSince, paperless
  <2> QED BY <2>1, <2>2, <2>3 DEF NoDocumentIsLost, NewerThan, Accounted, Retained, paperless, store, ghosts
<1> QED BY <1>1, <1>2, <1>3, <1>4, <1>5, <1>6, <1>7

LEMMA NothingHappens == ASSUME IInv, UNCHANGED vars PROVE IInv'
<1> USE DEF Core, IInv, vars, paperless, store, sync, sweep, ghosts
<1>1. Typed' /\ Ids' /\ Times' /\ SkipIsSafe' /\ NoDocumentIsLost'
  BY DEF Typed, TypeOK, Ids, Times, SkipIsSafe, NoDocumentIsLost, Settled
<1>2. Phases' /\ Once' /\ Rows'
  BY DEF Phases, Once, Rows, Attempted
<1>3. NewWatermark' = NewWatermark
  BY DEF NewWatermark
<1>4. \A d : Newer(d)' = Newer(d) /\ Settled(d)' = Settled(d) /\ Retained(d)' = Retained(d)
  BY <1>3 DEF Newer, NewerThan, Settled, Retained
<1>5. Window' = Window /\ \A d, W : Rank(d, W)' = Rank(d, W)
  BY DEF Window, ModifiedSince, Rank, Before
<1>6. JobsAreCurrent' /\ FetchesAreCurrent'
  BY <1>4 DEF JobsAreCurrent, FetchesAreCurrent
<1>7. MapIsCurrent' /\ PagesAreWhole'
  BY <1>5 DEF MapIsCurrent, PagesAreWhole
<1>8. AllAccounted' /\ Marked'
  BY <1>3, <1>4, <1>5 DEF AllAccounted, Accounted, Marked, NewerThan
<1> QED BY <1>1, <1>2, <1>6, <1>7, <1>8

\* What a user does to the archive, in one formula: a document is as it was, or
\* it has just been saved, under an id that was live or never used.
Same(d) == d \in live /\ modified'[d] = modified[d] /\ text'[d] = text[d]
Saved(d) == /\ d \in live \cup unborn
            /\ d \in live => modified[d] < clock
            /\ modified'[d] = clock
            /\ clock' = clock

ArchiveStep ==
    /\ UNCHANGED <<store, pc, sync, sweep, ghosts>>
    /\ clock' >= clock
    /\ \A d \in live' : Same(d) \/ Saved(d)
    /\ unborn' \subseteq unborn
    /\ live' \cap unborn' = {}
    /\ live' \subseteq live \cup unborn
    /\ \A d \in Doc : modified'[d] <= clock'

LEMMA UsersStep == ASSUME Typed, Ids, Times, Users PROVE ArchiveStep
<1>1. CASE Tick
  BY <1>1 DEF Tick, ArchiveStep, Same, Typed, TypeOK, Ids, Times, store, sync, sweep, ghosts
<1>2. ASSUME NEW d \in Doc, Delete(d) PROVE ArchiveStep
  BY <1>2 DEF Delete, ArchiveStep, Same, Typed, TypeOK, Ids, Times, store, sync, sweep, ghosts
<1>3. ASSUME NEW d \in Doc, NEW t \in Body, Create(d, t) PROVE ArchiveStep
  BY <1>3 DEF Create, ArchiveStep, Same, Saved, Typed, TypeOK, Ids, Times, store, sync, sweep, ghosts
<1>4. ASSUME NEW d \in Doc, NEW t \in Body, Edit(d, t) PROVE ArchiveStep
  BY <1>4 DEF Edit, ArchiveStep, Same, Saved, Typed, TypeOK, Ids, Times, store, sync, sweep, ghosts
<1> QED BY <1>1, <1>2, <1>3, <1>4 DEF Users

LEMMA CoreStands ==
  ASSUME Core, Typed', Users
  PROVE  /\ ArchiveStep
         /\ Core'
         /\ \A d \in live' : Saved(d) => Newer(d)'
         /\ \A d \in live' : Same(d) => /\ Newer(d)' = Newer(d)
                                        /\ Settled(d)' = Settled(d)
                                        /\ Retained(d)' = Retained(d)
<1> USE DEF Core
<1>1. ArchiveStep
  BY UsersStep
<1>2. UNCHANGED <<row, watermark, failed, pc, since, snapshot, page, pageIds, latest, toFetch,
                  jobs, outcome, failedMap, retryIds, seen, candidates, pruneIds, tried, gaveUp>>
  BY <1>1 DEF ArchiveStep, store, sync, sweep, ghosts
<1>3. \A d \in live' : d \in Doc
  BY DEF Typed, TypeOK
<1>4. \A d \in live' : Saved(d) => (row[d] # NoRow => row[d].stamp < clock)
  BY <1>3 DEF Saved, Ids, Rows, Times, Typed, TypeOK, Row
<1>5. NewWatermark' = NewWatermark
  BY <1>2 DEF NewWatermark
<1>6. \A d \in live' : Saved(d) => Newer(d)'
  BY <1>2, <1>5, NewWatermarkInThePast DEF Saved, Newer, NewerThan, Times
<1>7. \A d \in live' : Same(d) => /\ Newer(d)' = Newer(d)
                                  /\ Settled(d)' = Settled(d)
                                  /\ Retained(d)' = Retained(d)
                                  /\ NewerThan(d, NewWatermark)' = NewerThan(d, NewWatermark)
  BY <1>2, <1>5 DEF Same, Newer, NewerThan, Settled, Retained
<1>8. Ids'
  BY <1>1, <1>2 DEF Ids, ArchiveStep
<1>9. Times'
  BY <1>1, <1>2 DEF Times, ArchiveStep, Typed, TypeOK
<1>10. Phases' /\ Once'
  BY <1>2 DEF Phases, Once
<1>11. Rows'
  <2>1. \A d \in live' : row'[d] # NoRow => row'[d].stamp <= modified'[d]
    BY <1>1, <1>2, <1>3, <1>4 DEF Rows, ArchiveStep, Same, Saved, Typed, TypeOK, Row
  <2>2. \A d : Attempted(d)' = Attempted(d)
    BY <1>2 DEF Attempted
  <2> QED BY <1>2, <2>1, <2>2 DEF Rows
<1>12. SkipIsSafe'
  BY <1>1, <1>2, <1>3, <1>4 DEF SkipIsSafe, ArchiveStep, Same, Saved, Typed, TypeOK
<1>13. NoDocumentIsLost'
  BY <1>1, <1>2, <1>6, <1>7 DEF NoDocumentIsLost, ArchiveStep, Newer, NewerThan, Retained, Same
<1>14. MapIsCurrent'
  BY <1>1, <1>2 DEF MapIsCurrent, ArchiveStep, Same, Saved
<1>15. Marked'
  <2> SUFFICES ASSUME pc = "mark", NEW d \in live'
               PROVE  Settled(d)' \/ NewerThan(d, NewWatermark)' \/ Retained(d)'
    BY <1>2 DEF Marked
  <2>1. CASE Saved(d)
    BY <1>6, <2>1 DEF Newer
  <2>2. CASE Same(d)
    BY <1>7, <2>2 DEF Same, Marked
  <2> QED BY <1>1, <2>1, <2>2 DEF ArchiveStep
<1> QED BY <1>1, <1>6, <1>7, <1>8, <1>9, <1>10, <1>11, <1>12, <1>13, <1>14, <1>15

LEMMA ArchiveMoves ==
  ASSUME IInv, Typed', Users, ~(pc \in {"page", "pool"} /\ page > 1)
  PROVE  IInv'
<1> USE DEF Core, IInv
<1>1. /\ ArchiveStep
      /\ Core'
      /\ \A d \in live' : Saved(d) => Newer(d)'
      /\ \A d \in live' : Same(d) => /\ Newer(d)' = Newer(d)
                                     /\ Settled(d)' = Settled(d)
                                     /\ Retained(d)' = Retained(d)
  BY CoreStands DEF Core
<1>2. UNCHANGED <<row, watermark, failed, pc, since, snapshot, page, pageIds, latest, toFetch,
                  jobs, outcome, failedMap, retryIds, seen, candidates, pruneIds, tried, gaveUp>>
  BY <1>1 DEF ArchiveStep, store, sync, sweep, ghosts
<1>3. \A d \in live' : d \in Doc
  BY DEF Typed, TypeOK
<1>4. page = 0 \/ pc \notin Syncing \/ (pc = "page" /\ page = 1)
  BY DEF Phases, Syncing, Typed, TypeOK
<1>5. JobsAreCurrent'
  <2> SUFFICES ASSUME NEW j \in jobs, j.id \in live'
               PROVE  /\ j.stamp <= modified'[j.id]
                      /\ IF j.stamp = modified'[j.id]
                         THEN j.text = text'[j.id] /\ (j.state = "ok" => Settled(j.id)')
                         ELSE page = 0 /\ Newer(j.id)'
    BY <1>2 DEF JobsAreCurrent
  <2>1. j \in Job
    BY DEF Typed, TypeOK
  <2>2. CASE Same(j.id)
    BY <1>1, <2>2 DEF Same, JobsAreCurrent
  <2>3. CASE Saved(j.id)
    <3>1. j.id \in live /\ page = 0
      BY <1>4, <2>3 DEF Saved, Ids, Phases, Syncing
    <3>2. j.stamp <= modified[j.id] /\ modified[j.id] < clock /\ modified'[j.id] = clock
      BY <2>3, <3>1 DEF Saved, JobsAreCurrent
    <3>3. j.stamp < modified'[j.id]
      BY <2>1, <3>1, <3>2 DEF Typed, TypeOK, Job
    <3> QED BY <1>1, <2>1, <2>3, <3>1, <3>3 DEF Typed, TypeOK, Job
  <2> QED BY <1>1, <2>2, <2>3 DEF ArchiveStep
<1>6. FetchesAreCurrent'
  <2> SUFFICES ASSUME NEW d \in live', toFetch[d] > 0
               PROVE  tried[d] = modified'[d] \/ (page = 0 /\ Newer(d)')
    BY <1>2 DEF FetchesAreCurrent
  <2>1. page = 0
    BY <1>3, <1>4 DEF Phases, Syncing
  <2> QED BY <1>1, <2>1 DEF ArchiveStep, Same, FetchesAreCurrent
<1>7. PagesAreWhole'
  <2> SUFFICES ASSUME pc = "page" /\ page = 1
               PROVE  PagesAreWhole'
    BY <1>2, <1>4 DEF PagesAreWhole, Syncing
  <2>1. Window' \in SUBSET Doc
    BY <1>3 DEF Window, ModifiedSince
  <2>2. ASSUME NEW d \in Doc PROVE Rank(d, Window)' \in Nat
    <3>1. {e \in Window' : Before(e, d)'} \in SUBSET Window'
      OBVIOUS
    <3> QED BY <2>1, <3>1, PartIsSmaller DEF Rank
  <2>3. page' = 1 /\ pageIds' = {} /\ (page' - 1) * PageSize = 0
    BY <1>2, Constants DEF ConstantAssumptions, Phases
  <2>4. \A d \in Window' : ~(Rank(d, Window)' < 0)
    BY <2>1, <2>2
  <2> HIDE DEF IInv, Core
  <2> QED BY <2>3, <2>4 DEF PagesAreWhole
<1>8. AllAccounted'
  <2> SUFFICES ASSUME pc \in Syncing \ {"mark"}, NEW d \in live'
               PROVE  Accounted(d)'
    BY <1>2 DEF AllAccounted
  <2>1. CASE page = 0
    BY <1>1, <1>2, <1>3, <2>1 DEF AllAccounted, Accounted, ArchiveStep, Same, Typed, TypeOK
  <2>2. CASE pc = "page" /\ page = 1
    <3>1. pageIds' = {} /\ outcome'[d] = "none" /\ toFetch'[d] = 0 /\ jobs' = {} /\ page' = 1
      BY <1>2, <1>3, <2>2 DEF Phases
    <3>2. CASE Saved(d)
      <4>1. d \in Window'
        BY <1>1, <1>2, <2>2, <3>2 DEF Newer, NewerThan, Window, ModifiedSince, Phases, Syncing
      <4> QED BY <3>1, <4>1 DEF Accounted
    <3>3. CASE Same(d)
      <4>1. d \in Window <=> d \in Window'
        BY <1>2, <3>3 DEF Same, Window, ModifiedSince
      <4> QED BY <1>1, <1>2, <2>2, <3>1, <3>3, <4>1 DEF AllAccounted, Accounted, Same
    <3> QED BY <1>1, <3>2, <3>3 DEF ArchiveStep
  <2> QED BY <1>4, <2>1, <2>2 DEF Syncing
<1> QED BY <1>1, <1>5, <1>6, <1>7, <1>8 DEF Core

\* Whatever path a job takes through index_document, it leaves the row its
\* document deserves, or fails and leaves the row alone.
Written(j) == IF j.text = Blank THEN NoRow
              ELSE [stamp |-> j.stamp, hash |-> j.text, body |-> j.text]

LEMMA JobWritesItsRow ==
  ASSUME IInv, NEW j \in jobs, IndexDocument(j)
  PROVE  \E r \in {"ok", "failed"} :
            /\ Finish(j, r)
            /\ \A d \in Doc \ {j.id} : row'[d] = row[d]
            /\ row'[j.id] = IF r = "ok" THEN Written(j) ELSE row[j.id]
<1> USE DEF Core, IInv
<1>1. j \in Job /\ j.state = "queued" /\ pc \in Syncing
  BY DEF IndexDocument, Typed, TypeOK, Syncing
<1>2. row[j.id] = snapshot[j.id]
  BY <1>1 DEF Rows, Once, Attempted, Job
<1>3. CASE SkipOrPrune(j)
  BY <1>1, <1>2, <1>3 DEF SkipOrPrune, Written, Typed, TypeOK, Job
<1>4. CASE UpdateMetadata(j)
  <2>1. row[j.id] # NoRow /\ row[j.id] \in Row /\ row[j.id].hash = j.text /\ row[j.id].body = j.text
    BY <1>1, <1>2, <1>4 DEF UpdateMetadata, HashUnchanged, Rows, Typed, TypeOK, Job
  <2>2. Finish(j, "ok") /\ row' = [row EXCEPT ![j.id].stamp = j.stamp] /\ j.text # Blank
    BY <1>4, <2>1 DEF UpdateMetadata
  <2>3. row'[j.id] = [row[j.id] EXCEPT !.stamp = j.stamp]
    BY <1>1, <2>2 DEF Typed, TypeOK, Job
  <2>4. row'[j.id] = Written(j)
    BY <2>1, <2>2, <2>3 DEF Written, Row
  <2> QED BY <1>1, <2>2, <2>4 DEF Typed, TypeOK, Job
<1>5. CASE Upsert(j)
  BY <1>1, <1>5 DEF Upsert, Written, Typed, TypeOK, Job
<1>6. CASE IndexFails(j)
  BY <1>6 DEF IndexFails
<1> QED BY <1>3, <1>4, <1>5, <1>6 DEF IndexDocument

LEMMA JobIsIndexed ==
  ASSUME IInv, Typed', NEW j \in jobs, IndexDocument(j)
  PROVE  IInv'
<1> USE DEF Core, IInv
<1>1. PICK r \in {"ok", "failed"} :
            /\ Finish(j, r)
            /\ \A d \in Doc \ {j.id} : row'[d] = row[d]
            /\ row'[j.id] = IF r = "ok" THEN Written(j) ELSE row[j.id]
  BY JobWritesItsRow
<1> DEFINE done == [j EXCEPT !.state = r]
<1>2. /\ j \in Job /\ j.state = "queued" /\ pc \in {"pool", "retryPool"}
      /\ UNCHANGED <<clock, unborn, live, modified, text, watermark, failed, pc, since, snapshot,
                     page, pageIds, latest, toFetch, outcome, failedMap, retryIds, seen,
                     candidates, pruneIds, tried, gaveUp>>
  BY DEF IndexDocument, Typed, TypeOK, paperless, sweep
<1>3. /\ done \in Job /\ done.id = j.id /\ done.stamp = j.stamp /\ done.text = j.text
      /\ done.state = r
  BY <1>2 DEF Job
<1>4. jobs' = (jobs \ {j}) \cup {done}
  BY <1>1 DEF Finish
<1>5. \A k \in jobs : k # j => k.id # j.id
  BY DEF Once
<1>6. NewWatermark' = NewWatermark /\ Window' = Window /\ \A d, W : Rank(d, W)' = Rank(d, W)
  BY <1>2 DEF NewWatermark, Window, ModifiedSince, Rank, Before
<1>7. \A d : Newer(d)' = Newer(d) /\ Retained(d)' = Retained(d) /\ NewerThan(d, watermark)' = NewerThan(d, watermark)
  BY <1>2, <1>6 DEF Newer, NewerThan, Retained
<1>8. \A d \in Doc \ {j.id} : Settled(d)' = Settled(d)
  BY <1>1, <1>2 DEF Settled
<1>9. j.id \in live /\ j.stamp = modified[j.id] /\ r = "ok" => Settled(j.id)'
  BY <1>1, <1>2, Constants DEF ConstantAssumptions, Settled, Written, JobsAreCurrent, Row, Job, Body
<1>10. Ids'
  BY <1>1, <1>2, <1>3, <1>4 DEF Ids, Typed, TypeOK
<1>11. Times' /\ MapIsCurrent' /\ PagesAreWhole'
  BY <1>2, <1>6 DEF Times, MapIsCurrent, PagesAreWhole
<1>12. Phases'
  BY <1>2 DEF Phases, Syncing
<1>13. Once'
  <2>1. \A k, l \in jobs' : k.id = l.id => k = l
    BY <1>3, <1>4, <1>5 DEF Once
  <2>2. \A k \in jobs' : \E l \in jobs : k.id = l.id
    BY <1>3, <1>4
  <2> QED BY <1>2, <2>1, <2>2 DEF Once
<1>14. Rows'
  <2>1. row'[j.id] # NoRow => row'[j.id].hash = row'[j.id].body
    BY <1>1, <1>2 DEF Rows, Written, Job
  <2>2. j.id \in live /\ row'[j.id] # NoRow => row'[j.id].stamp <= modified[j.id]
    BY <1>1, <1>2 DEF Rows, Written, JobsAreCurrent, Job
  <2>3. Attempted(j.id)'
    BY <1>3, <1>4 DEF Attempted
  <2>4. \A d \in Doc \ {j.id} : Attempted(d) => Attempted(d)'
    BY <1>2, <1>4 DEF Attempted
  <2> QED BY <1>1, <1>2, <2>1, <2>2, <2>3, <2>4 DEF Rows, Typed, TypeOK, Syncing
<1>15. SkipIsSafe'
  BY <1>1, <1>2 DEF SkipIsSafe, Written, JobsAreCurrent, Typed, TypeOK
<1>16. JobsAreCurrent'
  <2> SUFFICES ASSUME NEW k \in jobs'
               PROVE  /\ tried[k.id] = k.stamp
                      /\ k.id \in live =>
                          /\ k.stamp <= modified[k.id]
                          /\ IF k.stamp = modified[k.id]
                             THEN k.text = text[k.id] /\ (k.state = "ok" => Settled(k.id)')
                             ELSE page = 0 /\ Newer(k.id)
    BY <1>2, <1>7 DEF JobsAreCurrent
  <2>1. CASE k = done
    BY <1>3, <1>9, <2>1 DEF JobsAreCurrent
  <2>2. CASE k \in jobs /\ k # j
    <3>1. k.id \in Doc \ {j.id}
      BY <1>5, <2>2 DEF Typed, TypeOK, Job
    <3> QED BY <1>8, <2>2, <3>1 DEF JobsAreCurrent
  <2> QED BY <1>4, <2>1, <2>2
<1>17. FetchesAreCurrent'
  BY <1>2, <1>7 DEF FetchesAreCurrent
<1>18. AllAccounted'
  <2> SUFFICES ASSUME NEW d \in live PROVE Accounted(d)'
    BY <1>2 DEF AllAccounted
  <2>1. Accounted(d) /\ d \in Doc
    BY <1>2 DEF AllAccounted, Typed, TypeOK, Syncing
  <2>2. CASE d = j.id
    BY <1>3, <1>4, <2>2 DEF Accounted
  <2>3. CASE d # j.id
    BY <1>2, <1>4, <1>6, <1>7, <1>8, <2>1, <2>3 DEF Accounted
  <2> QED BY <2>2, <2>3
<1>19. Marked'
  BY <1>2 DEF Marked
<1>20. NoDocumentIsLost'
  <2> SUFFICES ASSUME NEW d \in live
               PROVE  Settled(d)' \/ NewerThan(d, watermark) \/ Retained(d)
    BY <1>2, <1>7 DEF NoDocumentIsLost, NewerThan, Retained
  <2>1. d \in Doc /\ (Settled(d) \/ NewerThan(d, watermark) \/ Retained(d))
    BY DEF NoDocumentIsLost, NewerThan, Retained, Typed, TypeOK
  <2>2. CASE d = j.id /\ r = "ok"
    BY <1>9, <2>2 DEF JobsAreCurrent, Newer
  <2>3. CASE d # j.id \/ r = "failed"
    BY <1>1, <1>2, <2>1, <2>3 DEF Settled
  <2> QED BY <2>2, <2>3
<1> QED BY <1>10, <1>11, <1>12, <1>13, <1>14, <1>15, <1>16, <1>17, <1>18, <1>19, <1>20

\* A document fetched in full becomes a job for its last save.
LEMMA FetchedIsCurrent ==
  ASSUME Typed, NEW d \in live
  PROVE  /\ Fetched(d) \in Job /\ Fetched(d).id = d /\ Fetched(d).stamp = modified[d]
         /\ Fetched(d).text = text[d] /\ Fetched(d).state = "queued"
  BY FetchedIsAJob DEF Fetched, Typed, TypeOK

LEMMA ChangedIsFetched ==
  ASSUME IInv, Typed', NEW d \in Doc, FetchChanged(d)
  PROVE  IInv'
<1> USE DEF Core, IInv
<1>1. /\ pc = "fetch" /\ page = 0 /\ toFetch[d] > 0 /\ toFetch[d] = 1 /\ outcome[d] = "none"
      /\ d \in pageIds /\ d \notin unborn
      /\ toFetch' = [toFetch EXCEPT ![d] = 0]
      /\ UNCHANGED <<clock, unborn, live, modified, text, row, watermark, failed, pc, since, snapshot,
                     page, pageIds, latest, failedMap, retryIds, seen, candidates, pruneIds, gaveUp>>
  <2>1. pc = "fetch" /\ toFetch[d] > 0 /\ toFetch' = [toFetch EXCEPT ![d] = @ - 1]
    BY DEF FetchChanged
  <2>2. page = 0 /\ toFetch[d] = 1 /\ outcome[d] = "none" /\ d \in pageIds /\ d \notin unborn
    BY <2>1 DEF Phases, Once, Ids, Typed, TypeOK
  <2>3. toFetch' = [toFetch EXCEPT ![d] = 0]
    BY <2>1, <2>2
  <2> QED BY <2>1, <2>2, <2>3 DEF FetchChanged, paperless, store, sweep
<1>2. \A j \in jobs : j.id # d
  BY <1>1 DEF Once
<1>3. \/ /\ d \in live /\ jobs' = jobs \cup {Fetched(d)} /\ UNCHANGED outcome
         /\ tried' = [tried EXCEPT ![d] = modified[d]]
      \/ /\ outcome' = [outcome EXCEPT ![d] = "failed"] /\ UNCHANGED <<jobs, tried>>
  BY DEF FetchChanged
<1>4. /\ NewWatermark' = NewWatermark /\ Window' = Window
      /\ \A e : /\ Newer(e)' = Newer(e) /\ Retained(e)' = Retained(e) /\ Settled(e)' = Settled(e)
  BY <1>1 DEF NewWatermark, Window, ModifiedSince, Newer, NewerThan, Retained, Settled
<1>5. \A e \in Doc \ {d} : toFetch'[e] = toFetch[e] /\ outcome'[e] = outcome[e] /\ tried'[e] = tried[e]
  BY <1>1, <1>3 DEF Typed, TypeOK
<1>6. toFetch'[d] = 0 /\ outcome'[d] \in {"none", "failed"} /\ tried'[d] \in {tried[d], modified[d]}
  BY <1>1, <1>3 DEF Typed, TypeOK
<1>7. \A j \in jobs' : j \in jobs \/ (d \in live /\ j = Fetched(d) /\ outcome'[d] = "none" /\ tried'[d] = modified[d])
  BY <1>1, <1>3 DEF Typed, TypeOK
<1>8. Ids'
  <2>1. \A j \in jobs' : j.id \notin unborn
    BY <1>1, <1>7, FetchedIsCurrent DEF Ids
  <2>2. \A e \in unborn : outcome'[e] = "none"
    BY <1>1, <1>5 DEF Ids, Typed, TypeOK
  <2> QED BY <1>1, <2>1, <2>2 DEF Ids
<1>9. Times' /\ MapIsCurrent' /\ PagesAreWhole' /\ Marked'
  BY <1>1 DEF Times, MapIsCurrent, PagesAreWhole, Marked
<1>10. Phases'
  BY <1>1 DEF Phases, Syncing
<1>11. Once'
  <2>1. \A j, k \in jobs' : j.id = k.id => j = k
    BY <1>2, <1>7, FetchedIsCurrent DEF Once
  <2>2. \A j \in jobs' : outcome'[j.id] = "none" /\ toFetch'[j.id] = 0 /\ j.id \in pageIds
    BY <1>1, <1>2, <1>5, <1>6, <1>7, FetchedIsCurrent DEF Once, Typed, TypeOK, Job
  <2>3. \A e \in Doc : /\ toFetch'[e] <= 1 /\ (toFetch'[e] > 0 => outcome'[e] = "none")
                        /\ (toFetch'[e] > 0 \/ outcome'[e] # "none" => e \in pageIds)
    BY <1>1, <1>5, <1>6 DEF Once
  <2>4. retryIds = {}
    BY <1>1 DEF Phases
  <2> QED BY <1>1, <2>1, <2>2, <2>3, <2>4 DEF Once
<1>12. Rows'
  <2>1. \A e \in Doc : Attempted(e) => Attempted(e)'
    BY <1>1, <1>3, <1>5 DEF Attempted
  <2> QED BY <1>1, <2>1 DEF Rows, Syncing
<1>13. SkipIsSafe' /\ NoDocumentIsLost'
  BY <1>1 DEF SkipIsSafe, NoDocumentIsLost, Settled
<1>14. JobsAreCurrent'
  <2> SUFFICES ASSUME NEW j \in jobs'
               PROVE  /\ tried'[j.id] = j.stamp
                      /\ j.id \in live =>
                          /\ j.stamp <= modified[j.id]
                          /\ IF j.stamp = modified[j.id]
                             THEN j.text = text[j.id] /\ (j.state = "ok" => Settled(j.id))
                             ELSE page = 0 /\ Newer(j.id)
    BY <1>1, <1>4 DEF JobsAreCurrent
  <2>1. CASE j \in jobs
    BY <1>2, <1>5, <2>1 DEF JobsAreCurrent, Typed, TypeOK, Job
  <2>2. CASE j \notin jobs
    BY <1>7, <2>2, FetchedIsCurrent DEF Typed, TypeOK
  <2> QED BY <2>1, <2>2
<1>15. FetchesAreCurrent'
  BY <1>1, <1>4, <1>5, <1>6 DEF FetchesAreCurrent, Typed, TypeOK
<1>16. AllAccounted'
  <2> SUFFICES ASSUME NEW e \in live PROVE Accounted(e)'
    BY <1>1 DEF AllAccounted
  <2>1. Accounted(e) /\ e \in Doc
    BY <1>1 DEF AllAccounted, Typed, TypeOK, Syncing
  <2>2. CASE e # d
    BY <1>1, <1>3, <1>4, <1>5, <2>1, <2>2 DEF Accounted
  <2>3. CASE e = d /\ Fetched(d) \in jobs'
    BY <2>3, FetchedIsCurrent DEF Accounted
  <2>4. CASE e = d /\ outcome'[d] = "failed" /\ tried' = tried
    BY <1>1, <1>4, <2>4 DEF Accounted, FetchesAreCurrent
  <2> QED BY <1>1, <1>3, <2>2, <2>3, <2>4 DEF Typed, TypeOK
<1> QED BY <1>8, <1>9, <1>10, <1>11, <1>12, <1>13, <1>14, <1>15, <1>16

LEMMA FailedIsRefetched ==
  ASSUME IInv, Typed', NEW d \in Doc, RefetchFailed(d)
  PROVE  IInv'
<1> USE DEF Core, IInv
<1>1. /\ pc = "retry" /\ page = 0 /\ d \in retryIds /\ failed[d] > 0
      /\ d \notin pageIds /\ d \notin unborn /\ outcome[d] = "none" /\ toFetch[d] = 0
      /\ retryIds' = retryIds \ {d}
      /\ UNCHANGED <<clock, unborn, live, modified, text, row, watermark, failed, pc, since, snapshot,
                     page, pageIds, latest, toFetch, outcome, seen, candidates, pruneIds, gaveUp>>
  BY DEF RefetchFailed, Phases, Once, Ids, paperless, store, sweep
<1>2. \A j \in jobs : j.id # d
  BY <1>1 DEF Once
<1>3. \/ /\ d \in live /\ jobs' = jobs \cup {Fetched(d)} /\ UNCHANGED failedMap
         /\ tried' = [tried EXCEPT ![d] = modified[d]]
      \/ /\ UNCHANGED <<jobs, tried>>
         /\ failedMap' = failedMap \/ (d \notin live /\ failedMap' = [failedMap EXCEPT ![d] = 0])
  BY DEF RefetchFailed
<1>4. /\ NewWatermark' = NewWatermark /\ Window' = Window
      /\ \A e : /\ Newer(e)' = Newer(e) /\ Retained(e)' = Retained(e) /\ Settled(e)' = Settled(e)
  BY <1>1 DEF NewWatermark, Window, ModifiedSince, Newer, NewerThan, Retained, Settled
<1>5. \A e \in Doc \ {d} : tried'[e] = tried[e] /\ failedMap'[e] = failedMap[e]
  BY <1>3 DEF Typed, TypeOK
<1>6. \A j \in jobs' : j \in jobs \/ (d \in live /\ j = Fetched(d) /\ tried'[d] = modified[d])
  BY <1>3 DEF Typed, TypeOK
<1>7. Ids'
  BY <1>1, <1>6, FetchedIsCurrent DEF Ids
<1>8. Times' /\ PagesAreWhole' /\ Marked'
  BY <1>1 DEF Times, PagesAreWhole, Marked
<1>9. MapIsCurrent'
  BY <1>1, <1>3, <1>5 DEF MapIsCurrent, Typed, TypeOK
<1>10. Phases'
  BY <1>1 DEF Phases, Syncing
<1>11. Once'
  <2>1. \A j, k \in jobs' : j.id = k.id => j = k
    BY <1>2, <1>6, FetchedIsCurrent DEF Once
  <2>2. \A j \in jobs' : /\ outcome[j.id] = "none" /\ toFetch[j.id] = 0
                          /\ j.id \notin pageIds /\ j.id \notin retryIds'
    BY <1>1, <1>2, <1>6, FetchedIsCurrent DEF Once
  <2> QED BY <1>1, <2>1, <2>2 DEF Once
<1>12. Rows'
  <2>1. \A e \in Doc : Attempted(e) => Attempted(e)'
    BY <1>1, <1>3 DEF Attempted
  <2> QED BY <1>1, <2>1 DEF Rows, Syncing
<1>13. SkipIsSafe' /\ NoDocumentIsLost'
  BY <1>1 DEF SkipIsSafe, NoDocumentIsLost, Settled
<1>14. JobsAreCurrent'
  <2> SUFFICES ASSUME NEW j \in jobs'
               PROVE  /\ tried'[j.id] = j.stamp
                      /\ j.id \in live =>
                          /\ j.stamp <= modified[j.id]
                          /\ IF j.stamp = modified[j.id]
                             THEN j.text = text[j.id] /\ (j.state = "ok" => Settled(j.id))
                             ELSE page = 0 /\ Newer(j.id)
    BY <1>1, <1>4 DEF JobsAreCurrent
  <2>1. CASE j \in jobs
    BY <1>2, <1>5, <2>1 DEF JobsAreCurrent, Typed, TypeOK, Job
  <2>2. CASE j \notin jobs
    BY <1>6, <2>2, FetchedIsCurrent DEF Typed, TypeOK
  <2> QED BY <2>1, <2>2
<1>15. FetchesAreCurrent'
  BY <1>1, <1>4, <1>5 DEF FetchesAreCurrent, Typed, TypeOK
<1>16. AllAccounted'
  <2> SUFFICES ASSUME NEW e \in live PROVE Accounted(e)'
    BY <1>1 DEF AllAccounted
  <2>1. Accounted(e) /\ e \in Doc
    BY <1>1 DEF AllAccounted, Typed, TypeOK, Syncing
  <2>2. CASE e # d
    BY <1>1, <1>3, <1>4, <1>5, <2>1, <2>2 DEF Accounted
  <2>3. CASE e = d
    BY <1>1, <1>4, <2>3 DEF Accounted, Retained
  <2> QED BY <2>2, <2>3
<1> QED BY <1>7, <1>8, <1>9, <1>10, <1>11, <1>12, <1>13, <1>14, <1>15, <1>16

LEMMA FetchingEnds ==
  ASSUME IInv, Typed', FetchEnds \/ RefetchEnds
  PROVE  IInv'
<1> USE DEF Core, IInv
<1>1. /\ \/ pc = "fetch" /\ pc' = "pool" /\ toFetch = NothingToFetch
         \/ pc = "retry" /\ pc' = "retryPool" /\ retryIds = {}
      /\ UNCHANGED <<clock, unborn, live, modified, text, row, watermark, failed, since, snapshot,
                     page, pageIds, latest, toFetch, jobs, outcome, failedMap, retryIds, seen,
                     candidates, pruneIds, tried, gaveUp>>
  BY DEF FetchEnds, RefetchEnds, paperless, store, sync, sweep, ghosts
<1>2. /\ NewWatermark' = NewWatermark /\ Window' = Window /\ page = 0
      /\ \A e : /\ Newer(e)' = Newer(e) /\ Retained(e)' = Retained(e) /\ Settled(e)' = Settled(e)
                /\ Attempted(e)' = Attempted(e)
  BY <1>1 DEF NewWatermark, Window, ModifiedSince, Newer, NewerThan, Retained, Settled, Attempted, Phases
<1>3. Ids' /\ Times' /\ SkipIsSafe' /\ NoDocumentIsLost'
  BY <1>1 DEF Ids, Times, SkipIsSafe, NoDocumentIsLost, Settled
<1>4. Phases'
  BY <1>1, <1>2 DEF Phases, Syncing, NothingToFetch
<1>5. Once'
  BY <1>1 DEF Once
<1>6. Rows' /\ JobsAreCurrent' /\ FetchesAreCurrent' /\ MapIsCurrent'
  BY <1>1, <1>2 DEF Rows, JobsAreCurrent, FetchesAreCurrent, MapIsCurrent, Syncing
<1>7. PagesAreWhole' /\ Marked'
  BY <1>1, <1>2 DEF PagesAreWhole, Marked
<1>8. AllAccounted'
  BY <1>1, <1>2 DEF AllAccounted, Accounted, Syncing
<1> QED BY <1>3, <1>4, <1>5, <1>6, <1>7, <1>8

LEMMA MapIsWritten == ASSUME IInv, Typed', UpdateFailedDocuments PROVE IInv'
<1> USE DEF Core, IInv
<1>1. /\ pc = "map" /\ pc' = "mark" /\ page = 0 /\ jobs = {} /\ \A d \in Doc : toFetch[d] = 0
      /\ UNCHANGED <<clock, unborn, live, modified, text, row, watermark, since, snapshot,
                     page, pageIds, latest, toFetch, jobs, outcome, failedMap, retryIds, seen,
                     candidates, pruneIds, tried>>
  BY DEF UpdateFailedDocuments, Phases, paperless, sync, sweep
<1>2. \A d \in Doc : /\ outcome[d] = "none" => /\ failed'[d] = failedMap[d]
                                               /\ failed'[d] > 0 \/ gaveUp'[d] = gaveUp[d]
                     /\ outcome[d] = "ok" => failed'[d] = 0 /\ gaveUp'[d] = gaveUp[d]
                     /\ outcome[d] = "failed" => failed'[d] > 0 \/ gaveUp'[d] = tried[d]
  BY DEF UpdateFailedDocuments, GivesUp, Typed, TypeOK
<1>3. /\ NewWatermark' = NewWatermark
      /\ \A e : /\ NewerThan(e, NewWatermark)' = NewerThan(e, NewWatermark)
                /\ NewerThan(e, watermark)' = NewerThan(e, watermark)
                /\ Settled(e)' = Settled(e) /\ Attempted(e)' = Attempted(e)
  BY <1>1 DEF NewWatermark, NewerThan, Settled, Attempted
<1>4. ASSUME NEW d \in live PROVE Settled(d) \/ Newer(d) \/ Retained(d)'
  <2>1. Accounted(d) /\ d \in Doc /\ failedMap[d] = failed[d] /\ outcome[d] \in Outcome
    BY <1>1 DEF AllAccounted, MapIsCurrent, Typed, TypeOK, Syncing
  <2>2. CASE outcome[d] = "none"
    <3>1. failed'[d] = failed[d] /\ (failed'[d] > 0 \/ gaveUp'[d] = gaveUp[d])
      BY <1>2, <2>1, <2>2
    <3> QED BY <1>1, <2>1, <2>2, <3>1 DEF Accounted, Retained
  <2> QED BY <1>1, <1>2, <2>1, <2>2 DEF Accounted, Retained, Outcome
<1>5. Ids'
  <2>1. ASSUME NEW d \in unborn PROVE failed'[d] = 0
    <3>1. d \in Doc /\ outcome[d] = "none" /\ failedMap[d] = failed[d] /\ failed[d] = 0
      BY <1>1 DEF Ids, MapIsCurrent, Typed, TypeOK
    <3> QED BY <1>2, <3>1
  <2> QED BY <1>1, <2>1 DEF Ids
<1>6. Times' /\ SkipIsSafe'
  BY <1>1 DEF Times, SkipIsSafe
<1>7. Phases' /\ Once' /\ Rows'
  BY <1>1, <1>3 DEF Phases, Once, Rows, Syncing
<1>8. JobsAreCurrent' /\ FetchesAreCurrent' /\ MapIsCurrent' /\ PagesAreWhole' /\ AllAccounted'
  BY <1>1 DEF JobsAreCurrent, FetchesAreCurrent, MapIsCurrent, PagesAreWhole, AllAccounted, Typed, TypeOK
<1>9. Marked'
  BY <1>1, <1>3, <1>4 DEF Marked, Newer
<1>10. NoDocumentIsLost'
  BY <1>1, <1>3, <1>4 DEF NoDocumentIsLost, Newer, NewerThan, Retained
<1> QED BY <1>5, <1>6, <1>7, <1>8, <1>9, <1>10

LEMMA PoolIsJoined == ASSUME IInv, Typed', JoinPool PROVE IInv'
<1> USE DEF Core, IInv
<1>1. /\ pc \in {"pool", "retryPool"} /\ \A j \in jobs : j.state # "queued"
      /\ jobs' = {} /\ outcome' = [d \in Doc |-> Result(d)]
      /\ UNCHANGED <<clock, unborn, live, modified, text, row, watermark, failed, since, snapshot,
                     page, pageIds, latest, toFetch, seen, candidates, pruneIds, tried, gaveUp>>
  BY DEF JoinPool, paperless, store, sweep, ghosts
<1>2. \/ pc = "pool" /\ page # 0 /\ pc' = "page" /\ UNCHANGED <<failedMap, retryIds>>
      \/ /\ pc = "pool" /\ page = 0 /\ pc' = "retry"
         /\ failedMap' = failed /\ retryIds' = RetryIds
      \/ pc = "retryPool" /\ page = 0 /\ pc' = "map" /\ UNCHANGED <<failedMap, retryIds>>
  BY DEF JoinPool, Phases
<1>3. \A d \in Doc : toFetch[d] = 0
  BY <1>1 DEF Phases
<1>4. ASSUME NEW j \in jobs
      PROVE  j.id \in Doc /\ j.state \in {"ok", "failed"} /\ outcome'[j.id] = j.state
  <2>1. j \in Job
    BY DEF Typed, TypeOK
  <2>2. {k \in jobs : k.id = j.id} = {j}
    BY DEF Once
  <2>3. Result(j.id) = j.state
    BY <1>1, <2>1, <2>2 DEF Result, Job
  <2> QED BY <1>1, <2>1, <2>3 DEF Job
<1>5. ASSUME NEW d \in Doc, \A j \in jobs : j.id # d
      PROVE  outcome'[d] = outcome[d]
  <2>1. {k \in jobs : k.id = d} = {}
    BY <1>5
  <2> QED BY <1>1, <2>1 DEF Result
<1>6. /\ NewWatermark' = NewWatermark /\ Window' = Window
      /\ \A e : /\ Newer(e)' = Newer(e) /\ Retained(e)' = Retained(e) /\ Settled(e)' = Settled(e)
      /\ \A e, W : Rank(e, W)' = Rank(e, W)
  BY <1>1 DEF NewWatermark, Window, ModifiedSince, Newer, NewerThan, Retained, Settled, Rank, Before
<1>7. Ids'
  <2>1. \A d \in unborn : outcome'[d] = "none"
    BY <1>5 DEF Ids, Typed, TypeOK
  <2>2. unborn \cap retryIds' = {}
    BY <1>2 DEF Ids, RetryIds
  <2> QED BY <1>1, <2>1, <2>2 DEF Ids
<1>8. Times' /\ SkipIsSafe' /\ NoDocumentIsLost'
  BY <1>1 DEF Times, SkipIsSafe, NoDocumentIsLost, Settled
<1>9. Phases'
  BY <1>1, <1>2, <1>3 DEF Phases, Syncing, Typed, TypeOK
<1>10. Once'
  <2>1. pc' # "map" => \A d \in Doc : outcome'[d] # "none" => d \in pageIds
    BY <1>1, <1>2, <1>4, <1>5 DEF Once
  <2>2. retryIds' \cap pageIds = {} /\ \A d \in retryIds' : failed[d] > 0
    BY <1>2 DEF RetryIds, Once
  <2> QED BY <1>1, <1>2, <1>3, <2>1, <2>2 DEF Once
<1>11. Rows'
  <2>1. ASSUME NEW d \in Doc, Attempted(d) PROVE outcome'[d] # "none"
    BY <1>1, <1>4, <1>5, <2>1 DEF Attempted
  <2> QED BY <1>1, <2>1 DEF Rows, Syncing, Attempted
<1>12. JobsAreCurrent' /\ FetchesAreCurrent' /\ Marked'
  BY <1>1, <1>2, <1>3 DEF JobsAreCurrent, FetchesAreCurrent, Marked, Typed, TypeOK
<1>13. MapIsCurrent'
  BY <1>1, <1>2 DEF MapIsCurrent
<1>14. PagesAreWhole'
  BY <1>1, <1>2, <1>6 DEF PagesAreWhole
<1>15. AllAccounted'
  <2> SUFFICES ASSUME NEW d \in live PROVE Accounted(d)'
    BY <1>1 DEF AllAccounted
  <2>1. Accounted(d) /\ d \in Doc
    BY <1>1 DEF AllAccounted, Typed, TypeOK, Syncing
  <2>2. CASE \E j \in jobs : j.id = d
    <3>1. PICK j \in jobs : j.id = d
      BY <2>2
    <3>2. CASE j.stamp = modified[d]
      BY <1>1, <1>4, <1>6, <3>1, <3>2 DEF Accounted, JobsAreCurrent
    <3>3. CASE j.stamp # modified[d]
      BY <1>1, <1>6, <3>1, <3>3 DEF Accounted, JobsAreCurrent
    <3> QED BY <3>2, <3>3
  <2>3. CASE ~\E j \in jobs : j.id = d
    BY <1>1, <1>5, <1>6, <2>1, <2>3 DEF Accounted
  <2> QED BY <2>2, <2>3
<1> QED BY <1>7, <1>8, <1>9, <1>10, <1>11, <1>12, <1>13, <1>14, <1>15

\* A page adds to the pages before it exactly the next PageSize documents, and
\* the last page leaves none behind.
LEMMA PageIsRead ==
  ASSUME IInv, pc = "page"
  PROVE  LET ids == PageOf(Window, page) IN
            /\ Window \in SUBSET Doc /\ Window \subseteq live
            /\ ids \subseteq Window
            /\ ids \cap pageIds = {}
            /\ pageIds \cup ids = {d \in Window : Rank(d, Window) < page * PageSize}
            /\ ~HasNext(Window, page) => Window \subseteq pageIds \cup ids
<1> DEFINE ids == PageOf(Window, page)
<1>1. Window \in SUBSET Doc /\ Window \subseteq live
  BY DEF Core, IInv, Typed, TypeOK, Window, ModifiedSince
<1>2. ids = {d \in Window : (page - 1) * PageSize <= Rank(d, Window) /\ Rank(d, Window) < page * PageSize}
  BY DEF PageOf
<1>3. page \in Nat /\ page > 0
  BY DEF Core, IInv, Typed, TypeOK, Phases
<1>4. pageIds = {d \in Window : Rank(d, Window) < (page - 1) * PageSize}
  BY <1>3 DEF Core, IInv, PagesAreWhole
<1>5. \A d \in Window : /\ Rank(d, Window) \in Nat /\ Cardinality(Window) \in Nat
                        /\ Rank(d, Window) < Cardinality(Window)
  BY <1>1, RankIsLow DEF Core, IInv
<1>6. PageSize \in Nat /\ page * PageSize \in Nat /\ (page - 1) * PageSize = page * PageSize - PageSize
  BY <1>3, Constants DEF ConstantAssumptions
<1>7. ASSUME NEW a \in Int, NEW b \in Int, a <= b, a = (page - 1) * PageSize, b = page * PageSize
      PROVE  /\ ids \cap pageIds = {}
             /\ pageIds \cup ids = {d \in Window : Rank(d, Window) < page * PageSize}
  BY <1>2, <1>4, <1>5, <1>7
<1>8. ids \cap pageIds = {} /\ pageIds \cup ids = {d \in Window : Rank(d, Window) < page * PageSize}
  BY <1>6, <1>7
<1>9. ASSUME ~HasNext(Window, page), NEW d \in Window PROVE d \in pageIds \cup ids
  BY <1>5, <1>6, <1>8, <1>9 DEF HasNext
<1> QED BY <1>1, <1>2, <1>8, <1>9

\* What the two kinds of page have in common.
LEMMA PageMoves ==
  ASSUME IInv, Typed', pc = "page",
         FoldModified(PageOf(Window, page)),
         pageIds' = pageIds \cup PageOf(Window, page),
         page' = IF HasNext(Window, page) THEN page + 1 ELSE 0,
         UNCHANGED <<clock, unborn, live, modified, text, row, watermark, failed, since, snapshot,
                     outcome, failedMap, retryIds, seen, candidates, pruneIds, gaveUp>>
  PROVE  /\ Times' /\ SkipIsSafe' /\ NoDocumentIsLost'
         /\ unborn \cap pageIds' = {}
         /\ page' # 1
         /\ page' > 0 => pageIds' = {d \in Window : Rank(d, Window) < (page' - 1) * PageSize}
         /\ Window' = Window /\ \A d, W : Rank(d, W)' = Rank(d, W)
         /\ \A d : Settled(d)' = Settled(d) /\ Retained(d)' = Retained(d)
<1> USE DEF Core, IInv
<1>1. latest' # Never => latest' <= clock
  BY DEF FoldModified, Times, PageOf, Window, ModifiedSince, Typed, TypeOK
<1>2. Times' /\ SkipIsSafe' /\ NoDocumentIsLost'
  BY <1>1 DEF Times, SkipIsSafe, NoDocumentIsLost, Settled
<1>3. unborn \cap pageIds' = {}
  BY PageIsRead DEF Ids
<1>4. page > 0 /\ page \in Nat
  BY DEF Phases, Typed, TypeOK
<1>5. page' > 0 => page' = page + 1 /\ page' - 1 = page
  BY <1>4
<1>6. page' > 0 => pageIds' = {d \in Window : Rank(d, Window) < (page' - 1) * PageSize}
  BY <1>5, PageIsRead
<1>7. Window' = Window /\ \A d, W : Rank(d, W)' = Rank(d, W)
  BY DEF Window, ModifiedSince, Rank, Before
<1>8. \A d : Settled(d)' = Settled(d) /\ Retained(d)' = Retained(d)
  BY DEF Settled, Retained
<1> QED BY <1>2, <1>3, <1>4, <1>5, <1>6, <1>7, <1>8

LEMMA FullPageIsFetched == ASSUME IInv, Typed', FetchFullPage PROVE IInv'
<1> USE DEF Core, IInv
<1> DEFINE ids == PageOf(Window, page)
<1>1. pc = "page" /\ since = Never /\ Window = live
  BY DEF FetchFullPage, Window, ModifiedSince
<1>2. /\ pc' = "pool" /\ jobs' = {Fetched(d) : d \in ids}
      /\ tried' = [d \in Doc |-> IF d \in ids THEN modified[d] ELSE tried[d]]
      /\ pageIds' = pageIds \cup ids /\ FoldModified(ids)
      /\ page' = IF HasNext(Window, page) THEN page + 1 ELSE 0
      /\ UNCHANGED <<clock, unborn, live, modified, text, row, watermark, failed, since, snapshot,
                     toFetch, outcome, failedMap, retryIds, seen, candidates, pruneIds, gaveUp>>
  BY <1>1 DEF FetchFullPage, paperless, store, sweep
<1> HIDE DEF ids
<1>3. /\ ids \subseteq live /\ live \subseteq Doc /\ ids \cap pageIds = {}
      /\ page' = 0 => live \subseteq pageIds'
  <2>1. page' = 0 => ~HasNext(Window, page)
    BY <1>1, <1>2 DEF Phases, Typed, TypeOK
  <2> QED BY <1>1, <1>2, <2>1, PageIsRead DEF ids, Typed, TypeOK
<1>4. /\ Times' /\ SkipIsSafe' /\ NoDocumentIsLost' /\ unborn \cap pageIds' = {} /\ page' # 1
      /\ page' > 0 => pageIds' = {d \in Window : Rank(d, Window) < (page' - 1) * PageSize}
      /\ Window' = Window /\ \A d, W : Rank(d, W)' = Rank(d, W)
      /\ \A d : Settled(d)' = Settled(d) /\ Retained(d)' = Retained(d)
  BY <1>1, <1>2, PageMoves DEF ids
<1>5. jobs = {} /\ \A d \in Doc : toFetch[d] <= 1
  BY <1>1 DEF Phases, Once
<1>6. \A j \in jobs' : /\ j.id \in ids /\ j.stamp = modified[j.id] /\ j.text = text[j.id]
                       /\ j.state = "queued" /\ tried'[j.id] = modified[j.id]
                       /\ j = Fetched(j.id)
  BY <1>2, <1>3, FetchedIsCurrent
<1>7. Ids'
  BY <1>2, <1>3, <1>4, <1>6 DEF Ids
<1>8. \A d \in Doc : toFetch[d] = 0
  BY <1>1 DEF Phases
<1>9. Phases'
  BY <1>1, <1>2, <1>4 DEF Phases, Syncing
<1>10. Once'
  BY <1>1, <1>2, <1>3, <1>5, <1>6 DEF Once, Phases
<1>11. Rows'
  <2>1. \A d \in Doc : Attempted(d) => Attempted(d)'
    BY <1>2, <1>5 DEF Attempted
  <2> QED BY <1>1, <1>2, <2>1 DEF Rows, Syncing
<1>12. JobsAreCurrent'
  BY <1>2, <1>3, <1>6 DEF JobsAreCurrent, Typed, TypeOK
<1>13. FetchesAreCurrent' /\ MapIsCurrent' /\ Marked'
  BY <1>2, <1>8 DEF FetchesAreCurrent, MapIsCurrent, Marked, Typed, TypeOK
<1>14. PagesAreWhole'
  BY <1>4 DEF PagesAreWhole
<1>15. AllAccounted'
  <2> SUFFICES ASSUME NEW d \in live PROVE Accounted(d)'
    BY <1>2 DEF AllAccounted
  <2>1. CASE d \in ids
    BY <1>2, <1>3, <2>1, FetchedIsCurrent DEF Accounted
  <2>2. CASE d \notin ids /\ d \in pageIds
    <3>1. Accounted(d) /\ page > 0 /\ d \in Doc
      BY <1>1, <1>3 DEF AllAccounted, Phases, Syncing
    <3> QED BY <1>2, <1>3, <1>4, <1>5, <1>8, <2>2, <3>1 DEF Accounted
  <2>3. CASE d \notin ids /\ d \notin pageIds
    <3>1. d \notin pageIds' /\ page' > 0
      BY <1>2, <1>3, <2>3 DEF Typed, TypeOK
    <3> QED BY <1>1, <1>4, <3>1 DEF Accounted
  <2> QED BY <2>1, <2>2, <2>3
<1> QED BY <1>4, <1>7, <1>9, <1>10, <1>11, <1>12, <1>13, <1>14, <1>15

LEMMA LightPageIsDiffed == ASSUME IInv, Typed', FetchLightPage PROVE IInv'
<1> USE DEF Core, IInv
<1> DEFINE ids == PageOf(Window, page)
           changed == {d \in ids : ~IsUnchanged(d)}
<1>1. /\ pc = "page" /\ since # Never /\ jobs = {} /\ page > 0 /\ since = watermark /\ retryIds = {}
  BY DEF FetchLightPage, Phases, Syncing
<1>2. /\ pc' = IF HasNext(Window, page) THEN "page" ELSE "fetch"
      /\ toFetch' = [d \in Doc |-> IF d \in changed THEN toFetch[d] + 1 ELSE toFetch[d]]
      /\ tried' = [d \in Doc |-> IF d \in changed THEN modified[d] ELSE tried[d]]
      /\ pageIds' = pageIds \cup ids /\ FoldModified(ids)
      /\ page' = IF HasNext(Window, page) THEN page + 1 ELSE 0
      /\ UNCHANGED <<clock, unborn, live, modified, text, row, watermark, failed, since, snapshot,
                     jobs, outcome, failedMap, retryIds, seen, candidates, pruneIds, gaveUp>>
  BY DEF FetchLightPage, Window, paperless, store, sweep
<1> HIDE DEF changed
<1>3. /\ ids \subseteq Window /\ Window \subseteq live /\ live \subseteq Doc /\ ids \cap pageIds = {}
      /\ page' = 0 => Window \subseteq pageIds'
  <2>1. page' = 0 => ~HasNext(Window, page)
    BY <1>1, <1>2 DEF Typed, TypeOK
  <2> QED BY <1>1, <1>2, <2>1, PageIsRead DEF Typed, TypeOK
<1>4. /\ Times' /\ SkipIsSafe' /\ NoDocumentIsLost' /\ unborn \cap pageIds' = {} /\ page' # 1
      /\ page' > 0 => pageIds' = {d \in Window : Rank(d, Window) < (page' - 1) * PageSize}
      /\ Window' = Window /\ \A d, W : Rank(d, W)' = Rank(d, W)
      /\ \A d : Settled(d)' = Settled(d) /\ Retained(d)' = Retained(d)
  BY <1>1, <1>2, PageMoves
<1> HIDE DEF ids
<1>5. changed \subseteq ids /\ \A d \in ids : d \notin changed => IsUnchanged(d)
  BY DEF changed
<1>6. \A d \in Doc : IF d \in changed
                     THEN toFetch'[d] = toFetch[d] + 1 /\ tried'[d] = modified[d]
                     ELSE toFetch'[d] = toFetch[d] /\ tried'[d] = tried[d]
  BY <1>2
<1>7. \A d \in ids : toFetch[d] = 0 /\ outcome[d] = "none" /\ d \in Doc
  BY <1>1, <1>3 DEF Once, Typed, TypeOK
<1>8. Ids'
  BY <1>2, <1>4 DEF Ids
<1>9. Phases'
  BY <1>1, <1>2, <1>4 DEF Phases, Syncing, Typed, TypeOK
<1>10. Once'
  BY <1>1, <1>2, <1>5, <1>6, <1>7 DEF Once, Typed, TypeOK
<1>11. Rows'
  BY <1>1, <1>2 DEF Rows, Syncing, Attempted
<1>12. JobsAreCurrent' /\ MapIsCurrent' /\ Marked'
  BY <1>1, <1>2 DEF JobsAreCurrent, MapIsCurrent, Marked
<1>13. FetchesAreCurrent'
  BY <1>1, <1>2, <1>3, <1>6 DEF FetchesAreCurrent
<1>14. PagesAreWhole'
  BY <1>4 DEF PagesAreWhole
<1>15. AllAccounted'
  <2> SUFFICES ASSUME NEW d \in live PROVE Accounted(d)'
    BY <1>2 DEF AllAccounted
  <2>1. d \in Doc /\ Accounted(d)
    BY <1>1, <1>3 DEF AllAccounted, Syncing
  <2>2. CASE d \in changed
    BY <1>5, <1>6, <1>7, <2>2 DEF Accounted
  <2>3. CASE d \in ids /\ d \notin changed
    <3>1. row[d] = snapshot[d]
      BY <1>1, <1>7, <2>1, <2>3 DEF Rows, Attempted, Syncing
    <3>2. row[d] # NoRow /\ row[d] \in Row /\ row[d].stamp = modified[d]
      BY <1>5, <2>1, <2>3, <3>1 DEF IsUnchanged, Typed, TypeOK
    <3>3. text[d] # Blank
      BY <3>2, Constants DEF ConstantAssumptions, SkipIsSafe, Row
    <3>4. Settled(d)
      BY <3>2, <3>3 DEF Settled
    <3> QED BY <1>2, <1>4, <1>7, <2>3, <3>4 DEF Accounted
  <2>4. CASE d \notin ids /\ (d \in pageIds \/ d \notin Window)
    BY <1>1, <1>2, <1>4, <1>5, <1>6, <2>1, <2>4 DEF Accounted
  <2>5. CASE d \notin ids /\ d \in Window \ pageIds
    <3>1. d \notin pageIds' /\ page' > 0
      BY <1>2, <1>3, <2>5 DEF Typed, TypeOK
    <3> QED BY <1>4, <2>5, <3>1 DEF Accounted
  <2> QED BY <2>2, <2>3, <2>4, <2>5
<1> QED BY <1>4, <1>8, <1>9, <1>10, <1>11, <1>12, <1>13, <1>14, <1>15

LEMMA QuietNextIsNext == [QuietNext]_vars => [Next]_vars
BY DEF QuietNext, Next

LEMMA IInvNext ==
  ASSUME IInv, [QuietNext]_vars
  PROVE  IInv' \/ Stranded'
<1>1. Typed'
  BY TypedNext, QuietNextIsNext DEF IInv, Core
<1>2. CASE UNCHANGED vars
  BY <1>2, NothingHappens
<1>3. CASE Users /\ QuietWhilePaging
  <2>1. CASE ~(pc \in {"page", "pool"} /\ page > 1)
    BY <1>1, <1>3, <2>1, ArchiveMoves
  <2>2. CASE PageMissing'
    BY <1>1, <1>3, <2>2, CoreStands DEF IInv, Stranded
  <2>3. CASE UNCHANGED paperless
    <3>1. UNCHANGED vars
      BY <1>3, <2>3, UsersStep DEF IInv, Core, ArchiveStep, vars
    <3> QED BY <3>1, NothingHappens
  <2> QED BY <1>3, <2>1, <2>2, <2>3 DEF QuietWhilePaging
<1>4. CASE Daemon
  BY <1>1, <1>4, SyncStarts, FullPageIsFetched, LightPageIsDiffed, SweepGoesOn, ChangedIsFetched,
     FailedIsRefetched, FetchingEnds, JobIsIndexed, PoolIsJoined, MapIsWritten, CycleIsMarked,
     RowsArePruned, CycleIsLost
     DEF Daemon, Requests, IInv
<1>5. CASE CycleLost \/ Rebuild
  BY <1>1, <1>5, CycleIsLost, IndexIsRebuilt DEF IInv
<1> QED BY <1>2, <1>3, <1>4, <1>5 DEF QuietNext

\* A stranded cycle asks for the missing page and ends, or is lost before.
LEMMA StrandedNext ==
  ASSUME Stranded, [QuietNext]_vars
  PROVE  IInv' \/ Stranded'
<1> USE DEF Stranded
<1>1. Typed' /\ pc = "page" /\ ~PageExists(ModifiedSince(since), page)
  BY TypedNext, QuietNextIsNext DEF Core, PageMissing
<1>2. page > 1
  BY <1>1 DEF Core, Typed, TypeOK, Phases, PageExists
<1>3. since = Never => ModifiedSince(since) = live
  BY DEF ModifiedSince
<1>4. CASE UNCHANGED vars
  <2>1. UNCHANGED PageMissing
    BY <1>4 DEF vars, paperless, sync, PageMissing, PageExists, HasNext, ModifiedSince
  <2>2. Core'
    <3> USE <1>4 DEF vars, paperless, store, sync, sweep, ghosts
    <3>1. Ids' /\ Times' /\ SkipIsSafe' /\ NoDocumentIsLost'
      BY DEF Core, Ids, Times, SkipIsSafe, NoDocumentIsLost, Settled
    <3>2. Phases' /\ Once' /\ Rows' /\ MapIsCurrent'
      BY DEF Core, Phases, Once, Rows, Attempted, MapIsCurrent
    <3>3. Marked'
      BY <1>1 DEF Marked
    <3> QED BY <1>1, <3>1, <3>2, <3>3 DEF Core
  <2> QED BY <2>1, <2>2
<1>5. CASE Users /\ QuietWhilePaging
  <2>1. Core' /\ ArchiveStep
    BY <1>1, <1>5, CoreStands
  <2>2. CASE UNCHANGED paperless
    <3>1. UNCHANGED PageMissing
      BY <2>1, <2>2 DEF ArchiveStep, paperless, sync, PageMissing, PageExists, HasNext, ModifiedSince
    <3> QED BY <2>1, <3>1
  <2> QED BY <1>1, <1>2, <1>5, <2>1, <2>2 DEF QuietWhilePaging
<1>6. CASE PageIsGone \/ CycleLost
  BY <1>1, <1>6, CycleIsLost
<1>7. ~Rebuild /\ (Daemon => PageIsGone)
  <2>1. \A j \in jobs : ~IndexDocument(j)
    BY <1>1 DEF IndexDocument
  <2>2. \A d : ~FetchChanged(d) /\ ~RefetchFailed(d) /\ ~ConfirmAbsent(d)
    BY <1>1 DEF FetchChanged, RefetchFailed, ConfirmAbsent
  <2>3. ~FetchFullPage /\ ~FetchLightPage /\ ~EnumeratePage
    BY <1>1, <1>3 DEF FetchFullPage, FetchLightPage, EnumeratePage
  <2>4. /\ ~StartCycle /\ ~FetchEnds /\ ~JoinPool /\ ~RefetchEnds /\ ~UpdateFailedDocuments
        /\ ~AdvanceWatermark /\ ~AdvanceWatermarkThenSweep /\ ~Prune /\ ~EnumerationFails /\ ~Rebuild
    BY <1>1 DEF StartCycle, FetchEnds, JoinPool, RefetchEnds, UpdateFailedDocuments,
                AdvanceWatermark, AdvanceWatermarkThenSweep, Prune, EnumerationFails, Rebuild
  <2> QED BY <2>1, <2>2, <2>3, <2>4 DEF Daemon, Requests
<1> QED BY <1>4, <1>5, <1>6, <1>7 DEF QuietNext

LEMMA QuietStep == (IInv \/ Stranded) /\ [QuietNext]_vars => (IInv \/ Stranded)'
BY IInvNext, StrandedNext

\* While no page of a window shifts under the one that reads it, no save is
\* lost behind the watermark: whatever fails, crashes or is rebuilt, whatever
\* the page size, and however many documents are saved in one instant.
THEOREM NothingIsLost == QuietSpec => []NoDocumentIsLost
<1>1. IInv \/ Stranded => NoDocumentIsLost
  BY DEF IInv, Core, Stranded
<1> QED BY IInvInit, QuietStep, <1>1, PTL DEF QuietSpec

\* Under the same condition the light diff never skips a changed document.
THEOREM SkippingIsSafe == QuietSpec => []SkipIsSafe
<1>1. IInv \/ Stranded => SkipIsSafe
  BY DEF IInv, Core, Stranded
<1> QED BY IInvInit, QuietStep, <1>1, PTL DEF QuietSpec

-----------------------------------------------------------------------------
(* A window that always fits one page needs no quiet archive. *)

ArchiveFitsOnePage == PageSize >= Cardinality(Doc)
OnOnePage == pc \in {"page", "pool"} => page <= 1

LEMMA OnOnePageNext ==
  ASSUME ArchiveFitsOnePage, IInv, OnOnePage, [Next]_vars
  PROVE  OnOnePage'
<1>1. ASSUME NEW W \in SUBSET Doc PROVE ~HasNext(W, 1)
  <2>1. Cardinality(W) \in Nat /\ Cardinality(Doc) \in Nat /\ Cardinality(W) <= Cardinality(Doc)
    BY PartIsSmaller
  <2> QED BY <2>1, Constants DEF ConstantAssumptions, ArchiveFitsOnePage, HasNext
<1>2. live \in SUBSET Doc /\ \A t : ModifiedSince(t) \in SUBSET Doc
  BY DEF ModifiedSince, Core, IInv, Typed, TypeOK
<1>3. pc = "page" => page = 1
  BY DEF OnOnePage, Core, IInv, Phases, Typed, TypeOK
<1>4. CASE FetchFullPage \/ FetchLightPage
  <2>1. page' = 0
    BY <1>1, <1>2, <1>3, <1>4 DEF FetchFullPage, FetchLightPage
  <2> QED BY <2>1 DEF OnOnePage
<1>5. CASE StartCycle \/ FetchEnds \/ JoinPool
  BY <1>5 DEF StartCycle, FetchEnds, JoinPool, OnOnePage, Core, IInv, Phases, sync
<1>6. CASE RefetchEnds \/ UpdateFailedDocuments \/ AdvanceWatermark \/ AdvanceWatermarkThenSweep
  BY <1>6 DEF RefetchEnds, UpdateFailedDocuments, AdvanceWatermark, AdvanceWatermarkThenSweep,
              CycleEnds, OnOnePage
<1>7. CASE Prune \/ PageIsGone \/ EnumerationFails \/ CycleLost \/ Rebuild
  BY <1>7 DEF Prune, PageIsGone, EnumerationFails, CycleLost, Rebuild, CycleEnds, OnOnePage
<1>8. CASE EnumeratePage
  BY <1>8 DEF EnumeratePage, OnOnePage
<1>9. ASSUME NEW d \in Doc, FetchChanged(d) \/ RefetchFailed(d) \/ ConfirmAbsent(d)
      PROVE  OnOnePage'
  BY <1>9 DEF FetchChanged, RefetchFailed, ConfirmAbsent, OnOnePage, sync
<1>10. ASSUME NEW j \in jobs, IndexDocument(j) PROVE OnOnePage'
  BY <1>10 DEF IndexDocument, OnOnePage
<1>11. CASE Users \/ UNCHANGED vars
  BY <1>11, UsersStep DEF ArchiveStep, OnOnePage, Core, IInv, vars, sync
<1> QED BY <1>4, <1>5, <1>6, <1>7, <1>8, <1>9, <1>10, <1>11 DEF Next, Daemon, Requests

\* While the whole archive fits one page, no save is lost behind the watermark
\* even though the archive moves at any time.
THEOREM NothingIsLostOnOnePage == ArchiveFitsOnePage => (Spec => []NoDocumentIsLost)
<1> SUFFICES ASSUME ArchiveFitsOnePage PROVE Spec => []NoDocumentIsLost
  OBVIOUS
<1>1. Init => IInv /\ OnOnePage
  BY IInvInit DEF Init, OnOnePage
<1>2. IInv /\ OnOnePage /\ [Next]_vars => (IInv /\ OnOnePage)'
  <2> SUFFICES ASSUME IInv, OnOnePage, [Next]_vars PROVE (IInv /\ OnOnePage)'
    OBVIOUS
  <2>1. OnOnePage'
    BY OnOnePageNext
  <2>2. QuietWhilePaging
    BY DEF OnOnePage, QuietWhilePaging, IInv, Core, Typed, TypeOK
  <2>3. CASE Stranded'
    BY <2>1, <2>3 DEF Stranded, Core, PageMissing, PageExists, OnOnePage, Phases, Typed, TypeOK
  <2>4. [QuietNext]_vars
    BY <2>2 DEF Next, QuietNext
  <2> QED BY <2>1, <2>3, <2>4, IInvNext
<1>3. IInv => NoDocumentIsLost
  BY DEF Core, IInv
<1> QED BY <1>1, <1>2, <1>3, PTL DEF Spec

-----------------------------------------------------------------------------
(* The deletion sweep, in an archive that moves at any time *)

\* An id the sweep is about to prune was confirmed absent, and no document will
\* ever have it: nothing in the index belongs to an id yet to be given.
SweepInv ==
    /\ live \cap unborn = {}
    /\ \A d \in unborn : row[d] = NoRow
    /\ \A j \in jobs : j.id \notin unborn
    /\ unborn \cap (candidates \cup pruneIds) = {}
    /\ pruneIds \cap live = {}

LEMMA SweepInvNext ==
  ASSUME Typed, SweepInv, [Next]_vars
  PROVE  SweepInv'
<1> USE DEF SweepInv
<1>1. CASE Tick \/ UNCHANGED vars
  BY <1>1 DEF Tick, vars, paperless, store, sync, sweep
<1>2. ASSUME NEW d \in Doc, NEW t \in Body, Create(d, t) \/ Edit(d, t) \/ Delete(d)
      PROVE  SweepInv'
  BY <1>2 DEF Create, Edit, Delete, store, sync, sweep
<1>3. CASE StartCycle \/ FetchEnds \/ RefetchEnds \/ UpdateFailedDocuments \/ Rebuild
  BY <1>3 DEF StartCycle, FetchEnds, RefetchEnds, UpdateFailedDocuments, Rebuild,
              paperless, store, sync, sweep, Typed, TypeOK
<1>4. ASSUME ForgetLocals, UNCHANGED paperless, \A d \in unborn : row'[d] = NoRow PROVE SweepInv'
  BY <1>4 DEF ForgetLocals, paperless
<1>5. CASE \/ AdvanceWatermark \/ AdvanceWatermarkThenSweep \/ PageIsGone \/ EnumerationFails
           \/ CycleLost
  BY <1>4, <1>5 DEF AdvanceWatermark, AdvanceWatermarkThenSweep, PageIsGone, EnumerationFails,
                    CycleLost, CycleEnds, store
<1>6. CASE Prune
  BY <1>4, <1>6 DEF Prune, CycleEnds, Typed, TypeOK
<1>7. CASE JoinPool
  BY <1>7 DEF JoinPool, paperless, store, sweep
<1>8. CASE FetchFullPage
  <2>1. \A j \in jobs' : j.id \in live
    BY <1>8, PagesAreDocuments, FetchedIsCurrent DEF FetchFullPage
  <2> QED BY <1>8, <2>1 DEF FetchFullPage, paperless, store, sweep
<1>9. CASE FetchLightPage
  BY <1>9 DEF FetchLightPage, paperless, store, sweep
<1>10. ASSUME NEW d \in Doc, FetchChanged(d) \/ RefetchFailed(d) PROVE SweepInv'
  <2>1. \A j \in jobs' : j \in jobs \/ j.id \in live
    BY <1>10, FetchedIsCurrent DEF FetchChanged, RefetchFailed
  <2> QED BY <1>10, <2>1 DEF FetchChanged, RefetchFailed, paperless, store, sweep
<1>11. CASE EnumeratePage
  BY <1>11 DEF EnumeratePage, paperless, store
<1>12. ASSUME NEW d \in Doc, ConfirmAbsent(d) PROVE SweepInv'
  BY <1>12 DEF ConfirmAbsent, paperless, store, sync
<1>13. ASSUME NEW j \in jobs, IndexDocument(j) PROVE SweepInv'
  <2>1. j \in Job
    BY DEF Typed, TypeOK
  <2>2. \A d \in Doc \ {j.id} : row'[d] = row[d]
    BY <1>13, <2>1 DEF IndexDocument, SkipOrPrune, UpdateMetadata, Upsert, IndexFails, Typed, TypeOK, Job
  <2>3. \A k \in jobs' : k.id = j.id \/ k \in jobs
    BY <1>13, <2>1 DEF IndexDocument, SkipOrPrune, UpdateMetadata, Upsert, IndexFails, Finish, Job
  <2> QED BY <1>13, <2>2, <2>3 DEF IndexDocument, paperless, sweep, Typed, TypeOK
<1> QED BY <1>1, <1>2, <1>3, <1>5, <1>6, <1>7, <1>8, <1>9, <1>10, <1>11, <1>12, <1>13
     DEF Next, Users, Daemon, Requests, Body

\* No sweep prunes a document Paperless holds, in an archive of any size read
\* in pages of any size while it moves.
THEOREM SweepIsSafe == Spec => SweepKeepsLiveDocuments
<1>1. Init => SweepInv
  BY DEF Init, SweepInv
<1>2. Typed /\ SweepInv /\ [Next]_vars => SweepInv'
  BY SweepInvNext
<1>3. Typed /\ SweepInv /\ [Next]_vars
        => [pc = "confirm" => \A d \in live : row'[d] = row[d]]_vars
  <2> SUFFICES ASSUME Typed, SweepInv, Next, pc = "confirm", NEW d \in live
               PROVE  row'[d] = row[d]
    OBVIOUS
  <2>1. CASE Prune
    BY <2>1 DEF Prune, SweepInv, Typed, TypeOK
  <2>2. CASE ~Prune
    <3>1. UNCHANGED row
      BY <2>2 DEF Next, Users, Daemon, Requests, Tick, Create, Edit, Delete, StartCycle, FetchFullPage,
                  FetchLightPage, EnumeratePage, FetchChanged, RefetchFailed, ConfirmAbsent, FetchEnds,
                  IndexDocument, JoinPool, RefetchEnds, UpdateFailedDocuments, AdvanceWatermark,
                  AdvanceWatermarkThenSweep, PageIsGone, EnumerationFails, CycleLost, Rebuild, store
    <3> QED BY <3>1
  <2> QED BY <2>1, <2>2
<1>4. Typed /\ [Next]_vars => Typed'
  BY TypedNext
<1> QED BY TypedInit, <1>1, <1>2, <1>3, <1>4, PTL DEF Spec, SweepKeepsLiveDocuments

-----------------------------------------------------------------------------
(* The failure map: bounded retries, in an archive that moves at any time  *)

Retrying == {"retry", "retryPool", "map"}

Tries(d) == toFetch[d] > 0 \/ outcome[d] # "none" \/ \E j \in jobs : j.id = d

\* A document of the map has been retried out of band fewer times than its count says.
Counted == \A d \in Doc : /\ failed[d] < MaxFailures
                          /\ retried[d] < MaxFailures
                          /\ failed[d] > 0 => retried[d] < failed[d]

\* A cycle attempts what its pages listed, and then what its copy of the map holds.
TriesAreDue == pc # "mark" => \A d \in Doc :
                Tries(d) => d \in pageIds \/ (pc \in Retrying /\ failedMap[d] > 0)

CopyOfTheMap == pc \in Retrying => \A d \in Doc : failedMap[d] = 0 \/ failedMap[d] = failed[d]

ToRefetch == /\ pc # "retry" => retryIds = {}
             /\ \A d \in retryIds : failedMap[d] > 0 /\ d \notin pageIds /\ ~Tries(d)

RetryInv == Counted /\ TriesAreDue /\ CopyOfTheMap /\ ToRefetch

\* Steps that count nothing, end no phase of the map, and attempt nothing new.
LEMMA RetryInvKept ==
  ASSUME RetryInv, UNCHANGED <<failed, retried, failedMap, retryIds>>, pageIds \subseteq pageIds',
         retryIds = {} \/ pageIds' = pageIds,
         pc \in Retrying <=> pc' \in Retrying, pc # "mark", pc' = pc \/ retryIds = {},
         \A d \in Doc : Tries(d)' => Tries(d) \/ (d \in pageIds' /\ retryIds = {}),
         Typed
  PROVE  RetryInv'
<1>1. retryIds \subseteq Doc
  BY DEF Typed, TypeOK
<1>2. Counted'
  BY DEF RetryInv, Counted
<1>3. TriesAreDue'
  BY DEF RetryInv, TriesAreDue
<1>4. CopyOfTheMap'
  BY DEF RetryInv, CopyOfTheMap
<1>5. ToRefetch'
  BY <1>1 DEF RetryInv, ToRefetch, Retrying
<1> QED BY <1>2, <1>3, <1>4, <1>5 DEF RetryInv

LEMMA RetryInvForgotten ==
  ASSUME RetryInv, ForgetLocals, pc' \in {"idle", "enumerate"}, UNCHANGED <<failed, retried>>
  PROVE  RetryInv'
<1>1. \A d \in Doc : ~Tries(d)'
  BY DEF ForgetLocals, Tries, NothingToFetch
<1> QED BY <1>1 DEF RetryInv, Counted, TriesAreDue, CopyOfTheMap, ToRefetch, Retrying, ForgetLocals

LEMMA RetryInvUpdate ==
  ASSUME Typed, RetryInv, UpdateFailedDocuments
  PROVE  RetryInv'
<1>1. ASSUME NEW d \in Doc
      PROVE  failed'[d] < MaxFailures /\ retried'[d] < MaxFailures
             /\ (failed'[d] > 0 => retried'[d] < failed'[d])
  <2>1. /\ failedMap[d] \in Nat /\ failed[d] \in Nat /\ retried[d] \in Nat
        /\ MaxFailures \in Nat \ {0} /\ outcome[d] \in {"none", "ok", "failed"}
    BY Constants DEF ConstantAssumptions, Typed, TypeOK, Outcome
  <2>2. /\ failed[d] < MaxFailures /\ retried[d] < MaxFailures
        /\ failed[d] > 0 => retried[d] < failed[d]
        /\ failedMap[d] = 0 \/ failedMap[d] = failed[d]
    BY DEF RetryInv, Counted, CopyOfTheMap, Retrying, UpdateFailedDocuments
  <2>3. outcome[d] # "none" => d \in pageIds \/ failedMap[d] > 0
    BY DEF RetryInv, TriesAreDue, Tries, UpdateFailedDocuments
  <2>4. failed'[d] = IF outcome[d] = "none" THEN failedMap[d]
                     ELSE IF outcome[d] = "ok" \/ GivesUp(d) THEN 0
                     ELSE failedMap[d] + 1
    BY DEF UpdateFailedDocuments
  <2>5. retried'[d] = IF d \in pageIds THEN 0
                      ELSE IF outcome[d] # "none" THEN retried[d] + 1 ELSE retried[d]
    BY DEF UpdateFailedDocuments, RetriesAfter
  <2>6. CASE outcome[d] = "none"
    BY <2>1, <2>2, <2>4, <2>5, <2>6
  <2>7. CASE outcome[d] # "none" /\ (outcome[d] = "ok" \/ GivesUp(d))
    BY <2>1, <2>2, <2>3, <2>4, <2>5, <2>7
  <2>8. CASE outcome[d] # "none" /\ ~(outcome[d] = "ok" \/ GivesUp(d))
    <3>1. failed'[d] = failedMap[d] + 1 /\ failedMap[d] + 1 < MaxFailures
      BY <2>1, <2>4, <2>8 DEF GivesUp
    <3> QED BY <2>1, <2>2, <2>3, <2>5, <2>8, <3>1
  <2> QED BY <2>6, <2>7, <2>8
<1>2. Counted'
  BY <1>1 DEF Counted
<1> QED BY <1>2 DEF RetryInv, TriesAreDue, CopyOfTheMap, ToRefetch, Retrying, UpdateFailedDocuments, sync

LEMMA RetryInvJoin ==
  ASSUME Typed, RetryInv, JoinPool
  PROVE  RetryInv'
<1>1. \A d \in Doc : Tries(d)' => Tries(d)
  BY DEF JoinPool, Tries, Result
<1>2. UNCHANGED <<failed, retried, pageIds>> /\ pc \in {"pool", "retryPool"}
  BY DEF JoinPool, store, ghosts
<1>3. CASE pc' \in {"page", "map"}
  <2>1. UNCHANGED <<failedMap, retryIds>> /\ (pc \in Retrying <=> pc' \in Retrying) /\ retryIds = {}
    BY <1>3 DEF JoinPool, Retrying, RetryInv, ToRefetch
  <2> QED BY <1>1, <1>2, <2>1, RetryInvKept
<1>4. CASE pc' = "retry"
  <2>1. failedMap' = failed /\ retryIds' = RetryIds /\ pc = "pool"
    BY <1>4 DEF JoinPool
  <2>2. Counted'
    BY <1>2 DEF RetryInv, Counted
  <2>3. TriesAreDue'
    BY <1>1, <1>2, <1>4, <2>1 DEF RetryInv, TriesAreDue, Retrying
  <2>4. CopyOfTheMap'
    BY <1>2, <2>1 DEF CopyOfTheMap
  <2>5. ToRefetch'
    BY <1>1, <1>2, <1>4, <2>1 DEF RetryInv, ToRefetch, TriesAreDue, RetryIds, Retrying
  <2> QED BY <2>2, <2>3, <2>4, <2>5 DEF RetryInv
<1> QED BY <1>3, <1>4 DEF JoinPool

LEMMA RetryInvRefetch ==
  ASSUME Typed, RetryInv, NEW d \in Doc, RefetchFailed(d)
  PROVE  RetryInv'
<1>1. /\ pc = "retry" /\ UNCHANGED <<pc, failed, retried, pageIds, toFetch, outcome>>
      /\ retryIds' = retryIds \ {d} /\ d \in retryIds
  BY DEF RefetchFailed, store
<1>2. failedMap[d] > 0 /\ d \notin pageIds /\ ~Tries(d)
  BY <1>1 DEF RetryInv, ToRefetch
<1>3. \A e \in Doc \ {d} : (Tries(e)' <=> Tries(e)) /\ failedMap'[e] = failedMap[e]
  <2>1. \A j \in jobs' : j \in jobs \/ j.id = d
    BY DEF RefetchFailed, Fetched
  <2>2. jobs \subseteq jobs'
    BY DEF RefetchFailed
  <2>3. \A e \in Doc \ {d} : failedMap'[e] = failedMap[e]
    BY DEF RefetchFailed, Typed, TypeOK
  <2> QED BY <1>1, <2>1, <2>2, <2>3 DEF Tries
<1>4. \/ failedMap' = failedMap
      \/ failedMap'[d] = 0 /\ jobs' = jobs
  BY DEF RefetchFailed, Typed, TypeOK
<1>5. Counted'
  BY <1>1 DEF RetryInv, Counted
<1>6. TriesAreDue'
  <2>1. Tries(d)' => failedMap'[d] > 0
    BY <1>1, <1>2, <1>4 DEF Tries
  <2> QED BY <1>1, <1>3, <2>1 DEF RetryInv, TriesAreDue, Retrying
<1>7. CopyOfTheMap'
  BY <1>1, <1>3, <1>4 DEF RetryInv, CopyOfTheMap, Retrying
<1>8. ToRefetch'
  BY <1>1, <1>3 DEF RetryInv, ToRefetch, Typed, TypeOK
<1> QED BY <1>5, <1>6, <1>7, <1>8 DEF RetryInv

LEMMA RetryInvNext ==
  ASSUME Typed, RetryInv, [Next]_vars
  PROVE  RetryInv'
<1>1. CASE UNCHANGED <<pc, sync, failed, retried>>
  BY <1>1 DEF sync, RetryInv, Counted, TriesAreDue, CopyOfTheMap, ToRefetch, Tries
<1>2. CASE UNCHANGED vars \/ Tick \/ Rebuild
  BY <1>1, <1>2 DEF vars, Tick, Rebuild, store, ghosts
<1>3. ASSUME NEW d \in Doc, NEW t \in Body, Create(d, t) \/ Edit(d, t) \/ Delete(d)
      PROVE  RetryInv'
  BY <1>1, <1>3 DEF Create, Edit, Delete, store, ghosts
<1>4. ASSUME NEW d \in Doc, ConfirmAbsent(d) PROVE RetryInv'
  BY <1>1, <1>4 DEF ConfirmAbsent, store
<1>5. CASE StartCycle \/ FetchEnds \/ RefetchEnds
  BY <1>5 DEF StartCycle, FetchEnds, RefetchEnds, store, sync, ghosts, RetryInv, Counted,
              TriesAreDue, CopyOfTheMap, ToRefetch, Tries, Retrying
<1>6. CASE \/ AdvanceWatermark \/ AdvanceWatermarkThenSweep \/ Prune \/ PageIsGone
           \/ EnumerationFails \/ CycleLost
  BY <1>6, RetryInvForgotten DEF AdvanceWatermark, Prune, AdvanceWatermarkThenSweep, PageIsGone,
     EnumerationFails, CycleLost, CycleEnds, store
<1>7. CASE FetchFullPage \/ FetchLightPage
  <2>1. /\ UNCHANGED <<failed, retried, failedMap, retryIds, outcome>>
        /\ pageIds \subseteq pageIds' /\ pc = "page" /\ pc' \in {"page", "pool", "fetch"}
    BY <1>7 DEF FetchFullPage, FetchLightPage, store
  <2>2. retryIds = {} /\ (pc \in Retrying <=> pc' \in Retrying)
    BY <2>1 DEF RetryInv, ToRefetch, Retrying
  <2>3. \A d \in Doc : Tries(d)' => Tries(d) \/ d \in pageIds'
    <3>1. CASE FetchFullPage
      BY <3>1 DEF FetchFullPage, Tries, Fetched
    <3>2. CASE FetchLightPage
      BY <3>2 DEF FetchLightPage, Tries, Typed, TypeOK
    <3> QED BY <1>7, <3>1, <3>2
  <2> QED BY <2>1, <2>2, <2>3, RetryInvKept
<1>8. ASSUME NEW d \in Doc, FetchChanged(d) PROVE RetryInv'
  <2>1. /\ UNCHANGED <<pc, failed, retried, failedMap, retryIds, pageIds>> /\ pc = "fetch"
        /\ toFetch[d] > 0
    BY <1>8 DEF FetchChanged, store
  <2>2. \A e \in Doc \ {d} : Tries(e)' => Tries(e)
    BY <1>8 DEF FetchChanged, Tries, Fetched, Typed, TypeOK
  <2>3. Tries(d)
    BY <2>1 DEF Tries
  <2> QED BY <2>1, <2>2, <2>3, RetryInvKept
<1>9. ASSUME NEW j \in jobs, IndexDocument(j) PROVE RetryInv'
  <2>1. /\ UNCHANGED <<pc, failed, retried, failedMap, retryIds, pageIds, toFetch, outcome>>
        /\ pc # "mark"
    BY <1>9 DEF IndexDocument
  <2>2. j \in Job
    BY DEF Typed, TypeOK
  <2>3. \A k \in jobs' : k \in jobs \/ k.id = j.id
    BY <1>9, <2>2 DEF IndexDocument, SkipOrPrune, UpdateMetadata, Upsert, IndexFails, Finish, Job
  <2>4. \A d \in Doc : Tries(d)' => Tries(d)
    BY <2>1, <2>3 DEF Tries
  <2> QED BY <2>1, <2>4, RetryInvKept
<1>10. CASE EnumeratePage
  BY <1>10 DEF EnumeratePage, store, sync, ghosts, RetryInv, Counted, TriesAreDue, CopyOfTheMap,
               ToRefetch, Tries, Retrying
<1> QED BY <1>2, <1>3, <1>4, <1>5, <1>6, <1>7, <1>8, <1>9, <1>10, RetryInvUpdate, RetryInvJoin, RetryInvRefetch
     DEF Next, Users, Daemon, Requests, Body

\* fetch_retry_documents and update_failed_documents: since a page last listed it, a
\* document is attempted out of band less often than the limit, however the archive moves
\* and whatever cycles are lost.
THEOREM PoisonIsContained == Spec => []RefetchesAreBounded
<1>1. Init => RetryInv
  BY Constants DEF ConstantAssumptions, Init, RetryInv, Counted, TriesAreDue, CopyOfTheMap, ToRefetch,
                   Tries, NothingToFetch, Retrying
<1>2. Typed /\ RetryInv /\ [Next]_vars => RetryInv'
  BY RetryInvNext
<1>3. RetryInv => RefetchesAreBounded
  BY DEF RetryInv, Counted, RefetchesAreBounded
<1>4. Typed /\ [Next]_vars => Typed'
  BY TypedNext
<1> QED BY TypedInit, <1>1, <1>2, <1>3, <1>4, PTL DEF Spec

=============================================================================
