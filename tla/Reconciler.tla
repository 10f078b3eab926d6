----------------------------- MODULE Reconciler -----------------------------
(***************************************************************************)
(* The indexer's reconciliation engine (src/src/indexer/reconciler): one   *)
(* sequential daemon that copies a changing Paperless archive into the     *)
(* search index.  A cycle pages Paperless for everything modified since    *)
(* the persisted watermark, indexes it through a pool of workers, retries  *)
(* the documents of the persisted failure map, writes that map, moves the  *)
(* watermark and, when due, sweeps the rows of deleted documents.          *)
(*                                                                         *)
(* One step is one request to Paperless or one transaction of the store;   *)
(* the archive may change between any two of them, and the cycle may be    *)
(* lost at any of them (an exception caught by the loop, or a crash and a  *)
(* restart: what survives is the same).                                    *)
(*                                                                         *)
(* Abstractions.  A document body is a member of Text, or Blank for every  *)
(* document the worker will not index (no text, or the error tag).  The    *)
(* SHA-256 of a body is the body.  Time is a counter; two documents may be *)
(* saved in one instant, one document may not.                             *)
(***************************************************************************)
EXTENDS Integers, FiniteSets

CONSTANTS
    Doc,          \* document ids
    Text,         \* bodies the worker can index
    Blank,        \* a body it cannot
    NoRow,        \* "the index holds no row for this id"
    Never,        \* "no watermark in the meta table"
    PageSize,     \* rows of one Paperless page, and of one indexing batch
    Overlap,      \* OVERLAP_MARGIN
    MaxFailures,  \* MAX_CONSECUTIVE_DOCUMENT_FAILURES
    MaxClock,     \* bound: the last instant at which a document is saved
    MaxFaults     \* bound: how many requests, writes or cycles may fail

ASSUME IdsAreNumbers == Doc \subseteq Nat /\ IsFiniteSet(Doc)
ASSUME BlankIsNoText == Blank \notin Text
ASSUME NoRowIsNoRow == NoRow \notin [stamp : Nat, hash : Text, body : Text]
ASSUME NeverIsNoTime == Never \notin Int
ASSUME PageSizeIsPositive == PageSize \in Nat \ {0}
ASSUME OverlapIsPositive == Overlap \in Nat \ {0}
ASSUME MaxFailuresIsPositive == MaxFailures \in Nat \ {0}
ASSUME BoundsAreNatural == MaxClock \in Nat /\ MaxFaults \in Nat

VARIABLES
    \* Paperless
    clock,        \* the server's time
    unborn,       \* ids no document has had yet
    live,         \* ids of the documents in the archive
    modified,     \* the last save of each live document, 0 without one
    text,         \* its body, Blank without one
    \* the index database: what survives a crash
    row,          \* documents table, with the body its chunks were cut from
    watermark,    \* meta.modified_watermark
    failed,       \* meta.failed_documents: consecutive failures, 0 = not in it
    \* one cycle: local variables of run_incremental_sync, run_deletion_sweep
    pc,
    since,        \* the watermark as read at the start
    snapshot,     \* get_index_state() as read at the start
    page,         \* the next page to request, 0 after the last
    pageIds,
    latest,       \* newest modified seen, Never before the first
    toFetch,      \* light rows still to be fetched in full, with multiplicity
    jobs,         \* documents handed to the worker pool
    outcome,      \* "none", "ok" or "failed", per document
    failedMap,    \* the cycle's working copy of the failure map
    retryIds,     \* failed ids still to be re-fetched
    seen,         \* ids the sweep's enumeration has returned
    candidates,   \* indexed ids it has not returned, still to be confirmed
    pruneIds,     \* ids confirmed absent
    \* bookkeeping of the specification
    tried,        \* the version of a document the cycle attempts
    gaveUp,       \* the version dead-lettered, until a window brings it back, 0 = none
    retried,      \* cycles that attempted it out of band, since a page last listed it
    faults        \* failures so far

paperless == <<clock, unborn, live, modified, text>>
store == <<row, watermark, failed>>
sync == <<since, snapshot, page, pageIds, latest, toFetch, jobs, outcome,
          failedMap, retryIds>>
sweep == <<seen, candidates, pruneIds>>
ghosts == <<tried, gaveUp, retried, faults>>
vars == <<paperless, store, pc, sync, sweep, ghosts>>

-----------------------------------------------------------------------------
(* Types *)

Body == Text \cup {Blank}
Row == [stamp : Nat, hash : Text, body : Text]
Job == [id : Doc, stamp : Nat, text : Body, state : {"queued", "ok", "failed"}]
Outcome == {"none", "ok", "failed"}
Phase == {"idle", "page", "fetch", "pool", "retry", "retryPool", "map", "mark",
          "enumerate", "confirm", "prune"}

TypeOK ==
    /\ clock \in Nat
    /\ unborn \subseteq Doc
    /\ live \subseteq Doc
    /\ modified \in [Doc -> Nat]
    /\ text \in [Doc -> Body]
    /\ row \in [Doc -> Row \cup {NoRow}]
    /\ watermark \in Int \cup {Never}
    /\ failed \in [Doc -> Nat]
    /\ pc \in Phase
    /\ since \in Int \cup {Never}
    /\ snapshot \in [Doc -> Row \cup {NoRow}]
    /\ page \in Nat
    /\ pageIds \subseteq Doc
    /\ latest \in Nat \cup {Never}
    /\ toFetch \in [Doc -> Nat]
    /\ jobs \subseteq Job
    /\ outcome \in [Doc -> Outcome]
    /\ failedMap \in [Doc -> Nat]
    /\ retryIds \subseteq Doc
    /\ seen \subseteq Doc
    /\ candidates \subseteq Doc
    /\ pruneIds \subseteq Doc
    /\ tried \in [Doc -> Nat]
    /\ gaveUp \in [Doc -> Nat]
    /\ retried \in [Doc -> Nat]
    /\ faults \in Nat

-----------------------------------------------------------------------------
(* Paging: GET /api/documents/?ordering=modified returns slices of the     *)
(* current result set, by page number.  An id breaks a tie.                *)

Before(d, e) == \/ modified[d] < modified[e]
                \/ modified[d] = modified[e] /\ d < e

Rank(d, set) == Cardinality({e \in set : Before(e, d)})

PageOf(set, n) == {d \in set : /\ (n - 1) * PageSize <= Rank(d, set)
                               /\ Rank(d, set) < n * PageSize}

HasNext(set, n) == n * PageSize < Cardinality(set)

\* A page after the last one is answered with a 404.
PageExists(set, n) == n = 1 \/ HasNext(set, n - 1)

ModifiedSince(t) == {d \in live : t = Never \/ modified[d] > t}

\* _fold_modified over one page: the running maximum.
FoldModified(ids) ==
    \/ ids = {} /\ UNCHANGED latest
    \/ \E d \in ids :
        /\ \A e \in ids : modified[e] <= modified[d]
        /\ latest' = IF latest = Never \/ latest < modified[d] THEN modified[d] ELSE latest

\* The full document as Paperless returns it now.
Fetched(d) == [id |-> d, stamp |-> modified[d], text |-> text[d], state |-> "queued"]

\* The light diff: the row was indexed from exactly this save.
IsUnchanged(d) == snapshot[d] # NoRow /\ snapshot[d].stamp = modified[d]

NothingToFetch == [d \in Doc |-> 0]

-----------------------------------------------------------------------------
Init ==
    /\ clock = 1
    /\ unborn = Doc
    /\ live = {}
    /\ modified = [d \in Doc |-> 0]
    /\ text = [d \in Doc |-> Blank]
    /\ row = [d \in Doc |-> NoRow]
    /\ watermark = Never
    /\ failed = [d \in Doc |-> 0]
    /\ pc = "idle"
    /\ since = Never
    /\ snapshot = [d \in Doc |-> NoRow]
    /\ page = 0
    /\ pageIds = {}
    /\ latest = Never
    /\ toFetch = NothingToFetch
    /\ jobs = {}
    /\ outcome = [d \in Doc |-> "none"]
    /\ failedMap = [d \in Doc |-> 0]
    /\ retryIds = {}
    /\ seen = {}
    /\ candidates = {}
    /\ pruneIds = {}
    /\ tried = [d \in Doc |-> 0]
    /\ gaveUp = [d \in Doc |-> 0]
    /\ retried = [d \in Doc |-> 0]
    /\ faults = 0

-----------------------------------------------------------------------------
(* The archive: users and the tagging daemons edit it at any time *)

Tick ==
    /\ clock < MaxClock
    /\ clock' = clock + 1
    /\ UNCHANGED <<unborn, live, modified, text, store, pc, sync, sweep, ghosts>>

Create(d, t) ==
    /\ d \in unborn
    /\ unborn' = unborn \ {d}
    /\ live' = live \cup {d}
    /\ modified' = [modified EXCEPT ![d] = clock]
    /\ text' = [text EXCEPT ![d] = t]
    /\ UNCHANGED <<clock, store, pc, sync, sweep, ghosts>>

Edit(d, t) ==
    /\ d \in live
    /\ modified[d] < clock
    /\ modified' = [modified EXCEPT ![d] = clock]
    /\ text' = [text EXCEPT ![d] = t]
    /\ UNCHANGED <<clock, unborn, live, store, pc, sync, sweep, ghosts>>

Delete(d) ==
    /\ d \in live
    /\ live' = live \ {d}
    /\ modified' = [modified EXCEPT ![d] = 0]
    /\ text' = [text EXCEPT ![d] = Blank]
    /\ UNCHANGED <<clock, unborn, store, pc, sync, sweep, ghosts>>

-----------------------------------------------------------------------------
(* The incremental sync *)

\* The locals of one run_incremental_sync or run_deletion_sweep go out of scope.
ForgetLocals ==
    /\ since' = Never
    /\ snapshot' = [d \in Doc |-> NoRow]
    /\ pageIds' = {}
    /\ latest' = Never
    /\ toFetch' = NothingToFetch
    /\ jobs' = {}
    /\ outcome' = [d \in Doc |-> "none"]
    /\ failedMap' = [d \in Doc |-> 0]
    /\ retryIds' = {}
    /\ seen' = {}
    /\ candidates' = {}
    /\ pruneIds' = {}
    /\ tried' = [d \in Doc |-> 0]

CycleEnds == pc' = "idle" /\ page' = 0 /\ ForgetLocals

StartCycle ==
    /\ pc = "idle"
    /\ pc' = "page"
    /\ since' = watermark
    /\ snapshot' = row
    /\ page' = 1
    /\ UNCHANGED <<paperless, store, pageIds, latest, toFetch, jobs, outcome,
                   failedMap, retryIds, sweep, ghosts>>

\* First run: a page of full documents, indexed as one batch before the next.
FetchFullPage ==
    /\ pc = "page"
    /\ since = Never
    /\ PageExists(live, page)
    /\ LET ids == PageOf(live, page) IN
        /\ jobs' = {Fetched(d) : d \in ids}
        /\ pageIds' = pageIds \cup ids
        /\ FoldModified(ids)
        /\ tried' = [d \in Doc |-> IF d \in ids THEN modified[d] ELSE tried[d]]
    /\ page' = IF HasNext(live, page) THEN page + 1 ELSE 0
    /\ pc' = "pool"
    /\ UNCHANGED <<paperless, store, since, snapshot, toFetch, outcome, failedMap,
                   retryIds, sweep, gaveUp, retried, faults>>

\* Steady state: a page of {id, modified} rows, diffed against the snapshot.
FetchLightPage ==
    /\ pc = "page"
    /\ since # Never
    /\ PageExists(ModifiedSince(since), page)
    /\ LET window == ModifiedSince(since)
           ids == PageOf(window, page)
           changed == {d \in ids : ~IsUnchanged(d)}
       IN
        /\ pageIds' = pageIds \cup ids
        /\ FoldModified(ids)
        /\ toFetch' = [d \in Doc |-> IF d \in changed THEN toFetch[d] + 1 ELSE toFetch[d]]
        /\ tried' = [d \in Doc |-> IF d \in changed THEN modified[d] ELSE tried[d]]
        /\ page' = IF HasNext(window, page) THEN page + 1 ELSE 0
        /\ pc' = IF HasNext(window, page) THEN "page" ELSE "fetch"
    /\ UNCHANGED <<paperless, store, since, snapshot, jobs, outcome, failedMap,
                   retryIds, sweep, gaveUp, retried, faults>>

\* get_document for one changed row; a failure counts as the document's.
FetchChanged(d) ==
    /\ pc = "fetch"
    /\ toFetch[d] > 0
    /\ toFetch' = [toFetch EXCEPT ![d] = @ - 1]
    /\ \/ /\ d \in live
          /\ jobs' = jobs \cup {Fetched(d)}
          /\ tried' = [tried EXCEPT ![d] = modified[d]]
          /\ UNCHANGED <<outcome, faults>>
       \/ /\ \/ d \notin live /\ UNCHANGED faults
             \/ d \in live /\ faults < MaxFaults /\ faults' = faults + 1
          /\ outcome' = [outcome EXCEPT ![d] = "failed"]
          /\ UNCHANGED <<jobs, tried>>
    /\ UNCHANGED <<paperless, store, pc, since, snapshot, page, pageIds, latest,
                   failedMap, retryIds, sweep, gaveUp, retried>>

FetchEnds ==
    /\ pc = "fetch"
    /\ toFetch = NothingToFetch
    /\ pc' = "pool"
    /\ UNCHANGED <<paperless, store, sync, sweep, ghosts>>

-----------------------------------------------------------------------------
(* DocumentIndexer.index_document: one job of the pool *)

Finish(j, result) == jobs' = (jobs \ {j}) \cup {[j EXCEPT !.state = result]}

\* The gate: nothing to index, and a stale row is pruned.
SkipOrPrune(j) ==
    /\ j.text = Blank
    /\ row' = IF snapshot[j.id] # NoRow THEN [row EXCEPT ![j.id] = NoRow] ELSE row
    /\ Finish(j, "ok")
    /\ UNCHANGED faults

MutantHashIgnored(j) == snapshot[j.id] # NoRow

HashUnchanged(j) == snapshot[j.id] # NoRow /\ snapshot[j.id].hash = j.text

\* The hash gate: metadata only.  No row to update is a StoreError.
UpdateMetadata(j) ==
    /\ j.text # Blank
    /\ HashUnchanged(j)
    /\ IF row[j.id] # NoRow
       THEN /\ row' = [row EXCEPT ![j.id].stamp = j.stamp]
            /\ Finish(j, "ok")
       ELSE /\ UNCHANGED row
            /\ Finish(j, "failed")
    /\ UNCHANGED faults

\* Chunk, embed and replace the document in one transaction.
Upsert(j) ==
    /\ j.text # Blank
    /\ ~HashUnchanged(j)
    /\ row' = [row EXCEPT ![j.id] = [stamp |-> j.stamp, hash |-> j.text, body |-> j.text]]
    /\ Finish(j, "ok")
    /\ UNCHANGED faults

\* The embedding call or the transaction raises: isolated by _index_one.
IndexFails(j) ==
    /\ faults < MaxFaults
    /\ faults' = faults + 1
    /\ Finish(j, "failed")
    /\ UNCHANGED row

IndexDocument(j) ==
    /\ pc \in {"pool", "retryPool"}
    /\ j \in jobs
    /\ j.state = "queued"
    /\ SkipOrPrune(j) \/ UpdateMetadata(j) \/ Upsert(j) \/ IndexFails(j)
    /\ UNCHANGED <<paperless, watermark, failed, pc, since, snapshot, page, pageIds,
                   latest, toFetch, outcome, failedMap, retryIds, sweep, tried, gaveUp, retried>>

\* dict(pool.map(...)): of two jobs of one document the later fetch decides.
Result(d) ==
    LET ofDoc == {j \in jobs : j.id = d}
        last == {j \in ofDoc : \A k \in ofDoc : k.stamp <= j.stamp}
    IN  IF ofDoc = {} THEN outcome[d]
        ELSE IF \E j \in last : j.state = "ok" THEN "ok" ELSE "failed"

MutantNoRetries == {}

\* The failure map's documents that no page of this cycle has returned.
RetryIds == {d \in Doc : failed[d] > 0} \ pageIds

JoinPool ==
    /\ pc \in {"pool", "retryPool"}
    /\ \A j \in jobs : j.state # "queued"
    /\ outcome' = [d \in Doc |-> Result(d)]
    /\ jobs' = {}
    /\ \/ /\ pc = "pool"
          /\ page # 0
          /\ pc' = "page"
          /\ UNCHANGED <<failedMap, retryIds>>
       \/ /\ pc = "pool"
          /\ page = 0
          /\ pc' = "retry"
          /\ failedMap' = failed
          /\ retryIds' = RetryIds
       \/ /\ pc = "retryPool"
          /\ pc' = "map"
          /\ UNCHANGED <<failedMap, retryIds>>
    /\ UNCHANGED <<paperless, store, since, snapshot, page, pageIds, latest, toFetch,
                   sweep, ghosts>>

-----------------------------------------------------------------------------
(* Out-of-band retries and the persisted outcome of the cycle *)

RefetchFailed(d) ==
    /\ pc = "retry"
    /\ d \in retryIds
    /\ \A e \in retryIds : d <= e
    /\ retryIds' = retryIds \ {d}
    /\ \/ /\ d \notin live
          /\ failedMap' = [failedMap EXCEPT ![d] = 0]
          /\ UNCHANGED <<jobs, tried, faults>>
       \/ /\ d \in live
          /\ jobs' = jobs \cup {Fetched(d)}
          /\ tried' = [tried EXCEPT ![d] = modified[d]]
          /\ UNCHANGED <<failedMap, faults>>
       \/ /\ d \notin live   \* deleted between document_exists and get_document
          /\ UNCHANGED <<jobs, tried, failedMap, faults>>
       \/ /\ faults < MaxFaults
          /\ faults' = faults + 1
          /\ UNCHANGED <<jobs, tried, failedMap>>
    /\ UNCHANGED <<paperless, store, pc, since, snapshot, page, pageIds, latest,
                   toFetch, outcome, sweep, gaveUp, retried>>

RefetchEnds ==
    /\ pc = "retry"
    /\ retryIds = {}
    /\ pc' = "retryPool"
    /\ UNCHANGED <<paperless, store, sync, sweep, ghosts>>

GivesUp(d) == outcome[d] = "failed" /\ failedMap[d] + 1 >= MaxFailures

\* Listed by a page of this cycle, attempted without being listed, or left alone.
RetriesAfter(d) == IF d \in pageIds THEN 0
                   ELSE IF outcome[d] # "none" THEN retried[d] + 1
                   ELSE retried[d]

MutantNeverPopped ==
    /\ pc = "map"
    /\ failed' = [d \in Doc |->
                    IF outcome[d] = "none" THEN failedMap[d]
                    ELSE IF outcome[d] = "ok" THEN 0
                    ELSE failedMap[d] + 1]
    /\ gaveUp' = [d \in Doc |-> IF GivesUp(d) THEN tried[d]
                                ELSE IF failed'[d] > 0 THEN 0 ELSE gaveUp[d]]
    /\ retried' = [d \in Doc |-> RetriesAfter(d)]
    /\ pc' = "mark"
    /\ UNCHANGED <<paperless, row, watermark, sync, sweep, tried, faults>>

UpdateFailedDocuments ==
    /\ pc = "map"
    /\ failed' = [d \in Doc |->
                    IF outcome[d] = "none" THEN failedMap[d]
                    ELSE IF outcome[d] = "ok" \/ GivesUp(d) THEN 0
                    ELSE failedMap[d] + 1]
    /\ gaveUp' = [d \in Doc |-> IF GivesUp(d) THEN tried[d]
                                ELSE IF failed'[d] > 0 THEN 0 ELSE gaveUp[d]]
    /\ retried' = [d \in Doc |-> RetriesAfter(d)]
    /\ pc' = "mark"
    /\ UNCHANGED <<paperless, row, watermark, sync, sweep, tried, faults>>

MutantNoOverlap == IF pageIds = {} THEN watermark ELSE latest

NewWatermark == IF pageIds = {} THEN watermark ELSE latest - Overlap

\* The cycle ends here unless a deletion sweep is due.
AdvanceWatermark ==
    /\ pc = "mark"
    /\ watermark' = NewWatermark
    /\ CycleEnds
    /\ UNCHANGED <<paperless, row, failed, gaveUp, retried, faults>>

AdvanceWatermarkThenSweep ==
    /\ pc = "mark"
    /\ watermark' = NewWatermark
    /\ pc' = "enumerate"
    /\ page' = 1
    /\ ForgetLocals
    /\ UNCHANGED <<paperless, row, failed, gaveUp, retried, faults>>

-----------------------------------------------------------------------------
(* The deletion sweep *)

EnumeratePage ==
    /\ pc = "enumerate"
    /\ PageExists(live, page)
    /\ seen' = seen \cup PageOf(live, page)
    /\ IF HasNext(live, page)
       THEN /\ page' = page + 1
            /\ UNCHANGED <<pc, candidates>>
       ELSE /\ page' = 0
            /\ pc' = "confirm"
            /\ candidates' = {d \in Doc : row[d] # NoRow} \ seen'
    /\ UNCHANGED <<paperless, store, since, snapshot, pageIds, latest, toFetch, jobs,
                   outcome, failedMap, retryIds, pruneIds, ghosts>>

\* A failed enumeration prunes nothing: the sweep aborts.
EnumerationFails ==
    /\ pc = "enumerate"
    /\ \/ ~PageExists(live, page) /\ UNCHANGED faults
       \/ faults < MaxFaults /\ faults' = faults + 1
    /\ CycleEnds
    /\ UNCHANGED <<paperless, store, gaveUp, retried>>

MutantErrorMeansGone(d) ==
    /\ pc = "confirm"
    /\ d \in candidates
    /\ candidates' = candidates \ {d}
    /\ \/ /\ d \notin live
          /\ pruneIds' = pruneIds \cup {d}
          /\ UNCHANGED faults
       \/ /\ d \in live
          /\ UNCHANGED <<pruneIds, faults>>
       \/ /\ faults < MaxFaults
          /\ faults' = faults + 1
          /\ pruneIds' = pruneIds \cup {d}
    /\ UNCHANGED <<paperless, store, pc, sync, seen, tried, gaveUp, retried>>

\* document_exists for one candidate; an error keeps the document.
ConfirmAbsent(d) ==
    /\ pc = "confirm"
    /\ d \in candidates
    /\ candidates' = candidates \ {d}
    /\ \/ /\ d \notin live
          /\ pruneIds' = pruneIds \cup {d}
          /\ UNCHANGED faults
       \/ /\ d \in live
          /\ UNCHANGED <<pruneIds, faults>>
       \/ /\ faults < MaxFaults
          /\ faults' = faults + 1
          /\ UNCHANGED pruneIds
    /\ UNCHANGED <<paperless, store, pc, sync, seen, tried, gaveUp, retried>>

Prune ==
    /\ pc = "confirm"
    /\ candidates = {}
    /\ row' = [d \in Doc |-> IF d \in pruneIds THEN NoRow ELSE row[d]]
    /\ CycleEnds
    /\ UNCHANGED <<paperless, watermark, failed, gaveUp, retried, faults>>

-----------------------------------------------------------------------------
\* The window shrank, and the page to be requested lies behind its end.
PageMissing == pc = "page" /\ ~PageExists(ModifiedSince(since), page)

\* The 404 raises out of the cycle.
PageIsGone ==
    /\ PageMissing
    /\ CycleEnds
    /\ UNCHANGED <<paperless, store, gaveUp, retried, faults>>

\* Any other exception, or a crash and a restart.
CycleLost ==
    /\ pc # "idle"
    /\ faults < MaxFaults
    /\ faults' = faults + 1
    /\ CycleEnds
    /\ UNCHANGED <<paperless, store, gaveUp, retried>>

\* A requested rebuild, or a changed embedding model at boot.
Rebuild ==
    /\ pc = "idle"
    /\ faults < MaxFaults
    /\ faults' = faults + 1
    /\ row' = [d \in Doc |-> NoRow]
    /\ watermark' = Never
    /\ gaveUp' = [d \in Doc |-> 0]
    /\ UNCHANGED <<paperless, failed, pc, sync, sweep, tried, retried>>

-----------------------------------------------------------------------------
Users ==
    \/ Tick
    \/ \E d \in Doc :
        \/ Delete(d)
        \/ \E t \in Body : Create(d, t) \/ Edit(d, t)

Requests ==
    \/ FetchFullPage
    \/ FetchLightPage
    \/ EnumeratePage
    \/ \E d \in Doc : FetchChanged(d) \/ RefetchFailed(d) \/ ConfirmAbsent(d)

Daemon ==
    \/ StartCycle
    \/ Requests
    \/ FetchEnds
    \/ \E j \in jobs : IndexDocument(j)
    \/ JoinPool
    \/ RefetchEnds
    \/ UpdateFailedDocuments
    \/ AdvanceWatermark
    \/ AdvanceWatermarkThenSweep
    \/ Prune
    \/ PageIsGone
    \/ EnumerationFails

Next == Users \/ Daemon \/ CycleLost \/ Rebuild

Spec == Init /\ [][Next]_vars

\* A window of several pages is read while the archive stands still, or so much
\* of it goes that the next request fails.  Page numbers are positions in a
\* result set: any other save or deletion between two requests may shift the
\* documents of the pages still to come.
QuietWhilePaging ==
    pc \in {"page", "pool"} /\ page > 1 => UNCHANGED paperless \/ PageMissing'
QuietNext == (Users /\ QuietWhilePaging) \/ Daemon \/ CycleLost \/ Rebuild
QuietSpec == Init /\ [][QuietNext]_vars

\* The daemon's loop never stops, and a sweep falls due again and again.
FairSpec == QuietSpec /\ WF_vars(Daemon) /\ SF_vars(AdvanceWatermarkThenSweep)

-----------------------------------------------------------------------------
(* Properties *)

\* The index answers for the last save of the document: its row was written
\* from that save, or the save has nothing to index and there is no row.
Settled(d) ==
    IF text[d] = Blank THEN row[d] = NoRow
    ELSE row[d] # NoRow /\ row[d].stamp = modified[d]

\* No save slips behind the watermark: a live document is settled, or a later
\* cycle will page it, or the failure map will retry it, or it was given up.
\* (run_incremental_sync: the order of paging, map write and watermark write,
\* and OVERLAP_MARGIN against two documents saved in one instant.)
NoDocumentIsLost ==
    \A d \in live : \/ Settled(d)
                    \/ watermark = Never
                    \/ modified[d] > watermark
                    \/ failed[d] > 0
                    \/ gaveUp[d] = modified[d]

\* The light diff never skips a document whose text changed: a row stamped with
\* the last save holds the text of that save.  (_is_unchanged, index_document.)
SkipIsSafe ==
    \A d \in live : row[d] # NoRow /\ row[d].stamp = modified[d] => row[d].body = text[d]

\* Out of band, a poison document costs fewer than MaxFailures attempts, however
\* the counts are read, edited by the re-fetches, lost with a cycle and written
\* again: then only a page of the window brings it back.  The bound is on what
\* the map retries, not on what a window lists: a version still inside the
\* overlap is listed, and attempted, by every cycle, given up or not.
\* (fetch_retry_documents, update_failed_documents.)
RefetchesAreBounded == \A d \in Doc : retried[d] < MaxFailures

\* A sweep never removes the row of a document Paperless holds, whatever the
\* archive does between the pages and the confirmations.  (_confirm_absent.)
SweepKeepsLiveDocuments ==
    [][pc = "confirm" => \A d \in live : row'[d] = row[d]]_vars

\* Once the users and the faults stop, the index becomes and stays a mirror of
\* the archive, but for the versions that were given up.
IsMirror ==
    \A d \in Doc : IF d \in live THEN (Settled(d) \/ gaveUp[d] = modified[d])
                  ELSE row[d] = NoRow
Converges == <>[]IsMirror
=============================================================================
