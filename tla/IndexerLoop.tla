----------------------------- MODULE IndexerLoop -----------------------------
(***************************************************************************)
(* The indexer daemon (src/src/indexer/daemon) and the Settings page of    *)
(* the search server, which meet in three places: the config table of      *)
(* app.db, and two sentinel files beside index.db.  The server touches     *)
(* rebuild.request and reconcile.request; the loop consumes them.  What is *)
(* at stake is which configuration the stored vectors were made with, and  *)
(* when a deletion sweep runs.                                             *)
(*                                                                         *)
(* Abstractions.  The sync is the set of documents still to index: the     *)
(* module Reconciler has its detail.  The monotonic clock is the time      *)
(* since the last sweep, capped at the interval: nothing else is read from *)
(* it, and a daemon starts with any value (the uptime of its host).        *)
(***************************************************************************)
EXTENDS Integers

CONSTANTS
    Doc,
    Provider, Model, Chunking,  \* values of the re-index settings
    NoConfig, NoRow,
    SweepInterval,              \* DELETION_SWEEP_INTERVAL
    MaxSaves, MaxRequests, MaxChanges,   \* bounds on the environment,
    MaxFaults,                  \* on failures and crashes that lose nothing,
    MaxLosses                   \* and on those that lose a consumed rebuild request

\* The settings of REINDEX_KEYS.
Config == [provider : Provider, model : Model, chunking : Chunking]

ASSUME NoConfigIsNone == NoConfig \notin Config
ASSUME NoRowIsNone == NoRow \notin Config
ASSUME SweepIntervalIsPositive == SweepInterval \in Nat \ {0}
ASSUME BudgetsAreNatural == {MaxSaves, MaxRequests, MaxChanges, MaxFaults, MaxLosses} \subseteq Nat

VARIABLES
    \* app.db and the search server
    saved,          \* the committed configuration
    server,         \* "idle", "touchRebuild", "touchReconcile" or "commit"
    pending,        \* the configuration being saved
    \* files beside index.db
    rebuildFile, reconcileFile,
    \* the daemon
    pc,
    live,           \* the configuration of the reconciler in use
    boot,           \* the configuration of the store writer: never replaced
    manual, needsRebuild, runSweep,
    sinceSweep,     \* clock() - last_sweep_at
    todo,           \* documents this sync has still to index
    \* index.db
    stamp,          \* embedding identity in the meta table
    row,            \* the configuration a document was chunked and embedded with
    \* Paperless
    changed,        \* documents whose text differs from their row's
    \* bookkeeping of the specification
    saves, requests, changes, faults, losses

files == <<rebuildFile, reconcileFile>>
web == <<saved, server, pending>>
loop == <<live, boot, manual, needsRebuild, runSweep, sinceSweep, todo>>
index == <<stamp, row>>
budgets == <<saves, requests, changes, faults, losses>>
vars == <<web, files, pc, loop, index, changed, budgets>>

-----------------------------------------------------------------------------
Identity(c) == [provider |-> c.provider, model |-> c.model]
NoStamp == [provider |-> NoConfig, model |-> NoConfig]

Phase == {"down", "boot", "top", "reconcileTrigger", "rebuildTrigger", "rebuild",
          "startSync", "sync", "sweep", "checkpoint", "wait"}

TypeOK ==
    /\ saved \in Config
    /\ server \in {"idle", "touchRebuild", "touchReconcile", "commit"}
    /\ pending \in Config \cup {NoConfig}
    /\ rebuildFile \in BOOLEAN /\ reconcileFile \in BOOLEAN
    /\ pc \in Phase
    /\ live \in Config /\ boot \in Config
    /\ manual \in BOOLEAN /\ needsRebuild \in BOOLEAN /\ runSweep \in BOOLEAN
    /\ sinceSweep \in 0..SweepInterval
    /\ todo \subseteq Doc
    /\ stamp \in {Identity(c) : c \in Config} \cup {NoStamp}
    /\ row \in [Doc -> Config \cup {NoRow}]
    /\ changed \subseteq Doc
    /\ saves \in 0..MaxSaves /\ requests \in 0..MaxRequests
    /\ changes \in 0..MaxChanges
    /\ faults \in 0..MaxFaults /\ losses \in 0..MaxLosses

Init ==
    /\ saved \in Config
    /\ server = "idle"
    /\ pending = NoConfig
    /\ rebuildFile = FALSE /\ reconcileFile = FALSE
    /\ pc = "down"
    /\ live = saved /\ boot = saved
    /\ manual = FALSE /\ needsRebuild = FALSE /\ runSweep = FALSE
    /\ sinceSweep \in 0..SweepInterval
    /\ todo = {}
    /\ stamp = NoStamp
    /\ row = [d \in Doc |-> NoRow]
    /\ changed = {}
    /\ saves = 0 /\ requests = 0 /\ changes = 0 /\ faults = 0 /\ losses = 0

Fault == faults < MaxFaults /\ faults' = faults + 1 /\ UNCHANGED losses
Loss == losses < MaxLosses /\ losses' = losses + 1 /\ UNCHANGED faults
NoFault == UNCHANGED <<faults, losses>>

-----------------------------------------------------------------------------
(* The archive and the clock *)

Change(d) ==
    /\ changes < MaxChanges
    /\ changes' = changes + 1
    /\ changed' = changed \cup {d}
    /\ UNCHANGED <<web, files, pc, loop, index, saves, requests, faults, losses>>

Tick ==
    /\ sinceSweep < SweepInterval
    /\ sinceSweep' = sinceSweep + 1
    /\ UNCHANGED <<web, files, pc, live, boot, manual, needsRebuild, runSweep, todo, index,
                   changed, budgets>>

-----------------------------------------------------------------------------
(* The search server *)

MutantCommitFirst(c) ==
    /\ server = "idle"
    /\ saves < MaxSaves
    /\ c # saved
    /\ saves' = saves + 1
    /\ pending' = c
    /\ saved' = c
    /\ server' = "touchRebuild"
    /\ UNCHANGED <<files, pc, loop, index, changed, requests, changes, faults, losses>>

\* PUT /api/settings, a change of a re-index key: inside one transaction the
\* two sentinels are touched, then the change is committed.
BeginSave(c) ==
    /\ server = "idle"
    /\ saves < MaxSaves
    /\ c # saved
    /\ saves' = saves + 1
    /\ pending' = c
    /\ server' = "touchRebuild"
    /\ UNCHANGED <<saved, files, pc, loop, index, changed, requests, changes,
                   faults, losses>>

\* POST /api/index/rebuild.
BeginRebuild ==
    /\ server = "idle"
    /\ requests < MaxRequests
    /\ requests' = requests + 1
    /\ server' = "touchRebuild"
    /\ UNCHANGED <<saved, pending, files, pc, loop, index, changed, saves, changes,
                   faults, losses>>

TouchRebuild ==
    /\ server = "touchRebuild"
    /\ rebuildFile' = TRUE
    /\ server' = "touchReconcile"
    /\ UNCHANGED <<saved, pending, reconcileFile, pc, loop, index, changed, budgets>>

TouchReconcile ==
    /\ server = "touchReconcile"
    /\ reconcileFile' = TRUE
    /\ server' = IF pending = NoConfig THEN "idle" ELSE "commit"
    /\ UNCHANGED <<saved, pending, rebuildFile, pc, loop, index, changed, budgets>>

CommitSave ==
    /\ server = "commit"
    /\ saved' = pending
    /\ pending' = NoConfig
    /\ server' = "idle"
    /\ UNCHANGED <<files, pc, loop, index, changed, budgets>>

\* A failed touch, a failed commit or a crash of the server: the transaction
\* rolls back, and a file already touched stays.
SaveFails ==
    /\ server # "idle"
    /\ Fault
    /\ pending' = NoConfig
    /\ server' = "idle"
    /\ UNCHANGED <<saved, files, pc, loop, index, changed, saves, requests, changes>>

\* POST /api/reconcile.
RequestReconcile ==
    /\ requests < MaxRequests
    /\ requests' = requests + 1
    /\ reconcileFile' = TRUE
    /\ UNCHANGED <<web, rebuildFile, pc, loop, index, changed, saves, changes,
                   faults, losses>>

-----------------------------------------------------------------------------
(* The daemon: boot *)

MutantWipeKeepsRows(identity) == stamp' = identity /\ UNCHANGED row
\* _wipe_and_stamp_model: one transaction.
Wipe(identity) ==
    /\ row' = [d \in Doc |-> NoRow]
    /\ stamp' = identity

BootLoad ==
    /\ pc = "down"
    /\ pc' = "boot"
    /\ live' = saved
    /\ boot' = saved
    /\ UNCHANGED <<web, files, manual, needsRebuild, runSweep, sinceSweep, todo, index, changed, budgets>>

MutantNoIdentityCheck ==
    /\ pc = "boot"
    /\ pc' = "top"
    /\ IF stamp # NoStamp THEN UNCHANGED index ELSE Wipe(Identity(boot))
    /\ UNCHANGED <<web, files, loop, changed, budgets>>

\* check_embedding_model, after the preflight.
CheckEmbeddingModel ==
    /\ pc = "boot"
    /\ pc' = "top"
    /\ IF stamp = Identity(boot) THEN UNCHANGED index ELSE Wipe(Identity(boot))
    /\ UNCHANGED <<web, files, loop, changed, budgets>>

-----------------------------------------------------------------------------
(* The daemon: one cycle *)

LoadSettings ==
    /\ pc = "top"
    /\ pc' = "reconcileTrigger"
    /\ live' = saved
    /\ UNCHANGED <<web, files, boot, manual, needsRebuild, runSweep, sinceSweep, todo, index, changed, budgets>>

ConsumeReconcile ==
    /\ pc = "reconcileTrigger"
    /\ pc' = "rebuildTrigger"
    /\ manual' = reconcileFile
    /\ reconcileFile' = FALSE
    /\ UNCHANGED <<web, rebuildFile, live, boot, needsRebuild, runSweep, sinceSweep, todo, index,
                   changed, budgets>>

SweepIsDue == manual \/ sinceSweep >= SweepInterval

ConsumeRebuild ==
    /\ pc = "rebuildTrigger"
    /\ needsRebuild' = rebuildFile
    /\ rebuildFile' = FALSE
    /\ runSweep' = SweepIsDue
    /\ pc' = IF rebuildFile THEN "rebuild" ELSE "startSync"
    /\ UNCHANGED <<web, reconcileFile, live, boot, manual, sinceSweep, todo, index, changed, budgets>>

\* _run_rebuild: the live model, the writer's provider.  A StoreError is
\* logged, and the cycle goes on.
RunRebuild ==
    /\ pc = "rebuild"
    /\ pc' = "startSync"
    /\ needsRebuild' = FALSE
    /\ \/ Wipe([provider |-> boot.provider, model |-> live.model]) /\ NoFault
       \/ Loss /\ UNCHANGED index
    /\ UNCHANGED <<web, files, live, boot, manual, runSweep, sinceSweep, todo, changed, saves, requests, changes>>

MutantOnlyChanged ==
    /\ pc = "startSync"
    /\ pc' = "sync"
    /\ todo' = changed
    /\ UNCHANGED <<web, files, live, boot, manual, needsRebuild, runSweep, sinceSweep, index, changed, budgets>>

\* A document without a row is in every window after a wipe; one whose text
\* changed is in the next.
StartSync ==
    /\ pc = "startSync"
    /\ pc' = "sync"
    /\ todo' = {d \in Doc : row[d] = NoRow} \cup changed
    /\ UNCHANGED <<web, files, live, boot, manual, needsRebuild, runSweep, sinceSweep, index, changed, budgets>>

IndexDocument(d) ==
    /\ pc = "sync"
    /\ d \in todo
    /\ todo' = todo \ {d}
    /\ \/ /\ row' = [row EXCEPT ![d] = live]
          /\ changed' = changed \ {d}
          /\ NoFault
       \/ Fault /\ UNCHANGED <<row, changed>>
    /\ UNCHANGED <<web, files, pc, live, boot, manual, needsRebuild, runSweep, sinceSweep, stamp, saves, requests, changes>>

SyncEnds ==
    /\ pc = "sync"
    /\ todo = {}
    /\ pc' = IF runSweep THEN "sweep" ELSE "checkpoint"
    /\ UNCHANGED <<web, files, loop, index, changed, budgets>>

\* deletion_sweep returns a report also when it aborted.
Sweep ==
    /\ pc = "sweep"
    /\ pc' = "checkpoint"
    /\ sinceSweep' = 0
    /\ NoFault \/ Fault
    /\ UNCHANGED <<web, files, live, boot, manual, needsRebuild, runSweep, todo, index, changed, saves, requests, changes>>

CycleReturns ==
    /\ pc' = "wait"
    /\ todo' = {}
    /\ manual' = FALSE
    /\ needsRebuild' = FALSE
    /\ runSweep' = FALSE
    /\ UNCHANGED <<web, files, live, boot, sinceSweep, index, changed>>

Checkpoint ==
    /\ pc = "checkpoint"
    /\ CycleReturns
    /\ UNCHANGED budgets

\* Any exception inside the cycle: caught, logged, and the loop waits.
CycleFails ==
    /\ \/ pc \in {"startSync", "sync", "sweep", "checkpoint"} /\ Fault
       \/ pc = "rebuild" /\ Loss
    /\ CycleReturns
    /\ UNCHANGED <<saves, requests, changes>>

\* _interruptible_wait: its return value is dropped by the loop.
WaitEnds ==
    /\ pc = "wait"
    /\ pc' = "top"
    /\ UNCHANGED <<web, files, loop, index, changed, budgets>>

WakeBySentinel ==
    /\ pc = "wait"
    /\ reconcileFile
    /\ reconcileFile' = FALSE
    /\ pc' = "top"
    /\ UNCHANGED <<web, rebuildFile, loop, index, changed, budgets>>

\* A crash, or a shutdown, and a later restart.  The rebuild request is lost
\* between its consumption and the wipe.
Stop ==
    /\ pc # "down"
    /\ IF pc = "rebuild" THEN Loss ELSE Fault
    /\ pc' = "down"
    /\ manual' = FALSE
    /\ needsRebuild' = FALSE
    /\ runSweep' = FALSE
    /\ todo' = {}
    /\ sinceSweep' \in 0..SweepInterval
    /\ UNCHANGED <<web, files, live, boot, index, changed, saves, requests, changes>>

-----------------------------------------------------------------------------
Server == TouchRebuild \/ TouchReconcile \/ CommitSave

AfterLoading ==
    \/ BootLoad \/ CheckEmbeddingModel
    \/ ConsumeReconcile \/ ConsumeRebuild \/ RunRebuild
    \/ StartSync
    \/ \E d \in Doc : IndexDocument(d)
    \/ SyncEnds \/ Sweep \/ Checkpoint
    \/ WaitEnds \/ WakeBySentinel

Daemon == LoadSettings \/ AfterLoading

Save == \E c \in Config : BeginSave(c)

Environment ==
    \/ \E d \in Doc : Change(d)
    \/ BeginRebuild \/ RequestReconcile
    \/ SaveFails \/ CycleFails \/ Stop

Next == Tick \/ Server \/ Daemon \/ Save \/ Environment

Spec == Init /\ [][Next]_vars

\* A save does not overlap the few instructions of a cycle that read the
\* settings and then the sentinels.
ReadingTriggers == pc \in {"reconcileTrigger", "rebuildTrigger"}
CalmDaemon == (LoadSettings /\ pending = NoConfig) \/ AfterLoading
CalmNext ==
    \/ Tick \/ Server \/ Environment
    \/ CalmDaemon
    \/ Save /\ ~ReadingTriggers
CalmSpec == Init /\ [][CalmNext]_vars

Fairness == WF_vars(CalmDaemon) /\ WF_vars(Server) /\ WF_vars(Tick)
FairSpec == CalmSpec /\ Fairness

-----------------------------------------------------------------------------
(* Properties *)

\* What the comment in _put_settings promises: new re-index settings never
\* hot-load without their wipe scheduled.  When the daemon takes over another
\* configuration the rebuild sentinel is there, or no vector is of the old one.
NewSettingsHaveTheirWipe ==
    [][pc = "top" /\ live' # live => rebuildFile \/ \A d \in Doc : row[d] \in {NoRow, live'}]_vars

\* Old and new vectors coexist only as long as a wipe is on its way, wherever
\* the daemon is killed, unless a rebuild failed or was cut off at its wipe.
\* (_put_settings, _run_one_cycle, _wipe_and_stamp_model.)
RowsFollowSettings ==
    \/ losses > 0
    \/ rebuildFile \/ needsRebuild \/ \A d \in Doc : row[d] \in {NoRow, saved}

\* Every vector is of the saved configuration, or its wipe is on its way.
IndexIsSound == TypeOK /\ RowsFollowSettings

OneProvider == \A p, q \in Provider : p = q

\* What the docstring of rebuild_index promises: the check at boot finds a
\* drift of the embedding identity.  After it no vector is of another identity
\* than the settings', unless a rebuild is already requested.  Known gap: it
\* compares one stamp, so when two wipes were lost, or one after a switch of the
\* provider, a return to the stamped settings hides the drift.
BootHealsIdentity ==
    [][pc = "boot" /\ pc' = "top" /\ losses <= (IF OneProvider THEN 1 ELSE 0) =>
        rebuildFile \/ \A d \in Doc : row'[d] = NoRow \/ Identity(row'[d]) = Identity(boot)]_vars

\* The settings and the archive both reach the index: from some time on every
\* document is indexed with the saved configuration, unless a consumed rebuild
\* request was lost on the way.
IndexConverges == <>[](losses > 0 \/ (changed = {} /\ \A d \in Doc : row[d] = saved))

\* Sweeps never stop, whatever triggers, saves and failed cycles come between.
SweepsGoOn == []<>(pc = "sweep")

\* The loop makes progress: whatever users, saves and failures do, it brings the
\* settings and the archive to the index, and never stops sweeping.
LoopGoesOn == IndexConverges /\ SweepsGoOn
=============================================================================
