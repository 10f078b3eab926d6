---------------------------- MODULE DaemonProofs ----------------------------
(***************************************************************************)
(* What TLAPS proves of the indexer daemon with the Settings page, and of  *)
(* the classification worker with its taxonomy cache: for every archive,   *)
(* every set of settings, names and documents, any number of saves,        *)
(* threads, failures and restarts.                                         *)
(***************************************************************************)
EXTENDS IndexerLoop, Classifier, ListProofs

(***************************************************************************)
(* The indexer daemon and the Settings page                                *)
(***************************************************************************)

LEMMA Constants ==
    /\ NoConfig \notin Config /\ NoRow \notin Config
    /\ SweepInterval \in Nat \ {0}
    /\ MaxSaves \in Nat /\ MaxRequests \in Nat /\ MaxChanges \in Nat
    /\ MaxFaults \in Nat /\ MaxLosses \in Nat
  BY NoConfigIsNone, NoRowIsNone, SweepIntervalIsPositive, BudgetsAreNatural

-----------------------------------------------------------------------------
(* The inductive invariant.                                                *)

\* Only a save of settings comes to the commit.
CommitHasSettings == server = "commit" => pending # NoConfig

Typed == TypeOK /\ CommitHasSettings

\* A save stays clear of the cycle's reads of the settings and the sentinels,
\* and has touched the rebuild sentinel before it commits.
SaveIsAnnounced ==
    /\ pending # NoConfig => server # "idle" /\ ~ReadingTriggers
    /\ pending # NoConfig /\ server # "touchRebuild" => rebuildFile

\* The daemon works under the saved settings, or their rebuild is requested;
\* between the two reads of a cycle, under the saved ones.
LiveIsCurrent ==
    /\ live = saved \/ rebuildFile
    /\ ReadingTriggers => live = saved
    /\ pc = "boot" => boot = live

\* A consumed rebuild request is remembered exactly until its wipe.
WipeIsNext == needsRebuild <=> pc = "rebuild"

Current(d) == row[d] = NoRow \/ Identity(row[d]) = stamp

\* With one provider and no request lost, the stamp speaks for the rows, and for
\* the settings in use unless a wipe is due.
StampIsTrue ==
    losses = 0 /\ OneProvider =>
        /\ \A d \in Doc : Current(d)
        /\ pc \notin {"down", "boot", "rebuild"} /\ ~ReadingTriggers => stamp = Identity(live)
        /\ ReadingTriggers => stamp = Identity(live) \/ rebuildFile

\* After one lost request the stamp may be wrong of some rows, but then it differs
\* from the saved settings, or a wipe is due.
MixIsDue ==
    losses <= 1 /\ OneProvider =>
        \/ \A d \in Doc : Current(d)
        \/ rebuildFile \/ needsRebuild \/ Identity(saved) # stamp

Order == SaveIsAnnounced /\ LiveIsCurrent /\ WipeIsNext
Vectors == RowsFollowSettings /\ StampIsTrue /\ MixIsDue

IInv == Typed /\ Order /\ Vectors
-----------------------------------------------------------------------------
(* Type correctness *)

LEMMA TypedInit == Init => Typed
<1> SUFFICES ASSUME Init PROVE Typed
  OBVIOUS
<1>1. /\ rebuildFile \in BOOLEAN /\ reconcileFile \in BOOLEAN
      /\ manual \in BOOLEAN /\ needsRebuild \in BOOLEAN /\ runSweep \in BOOLEAN
  BY ZenonT(30) DEF Init
<1>2. /\ saved \in Config /\ live \in Config /\ boot \in Config
      /\ server \in {"idle", "touchRebuild", "touchReconcile", "commit"}
      /\ pending \in Config \cup {NoConfig} /\ pc \in Phase
      /\ sinceSweep \in 0..SweepInterval
      /\ todo \subseteq Doc /\ changed \subseteq Doc
      /\ stamp \in {Identity(c) : c \in Config} \cup {NoStamp}
      /\ row \in [Doc -> Config \cup {NoRow}]
  BY DEF Init, Phase
<1>3. /\ saves \in 0..MaxSaves /\ requests \in 0..MaxRequests /\ changes \in 0..MaxChanges
      /\ faults \in 0..MaxFaults /\ losses \in 0..MaxLosses
  BY Constants DEF Init
<1> QED BY <1>1, <1>2, <1>3 DEF Init, Typed, TypeOK, CommitHasSettings

LEMMA TypedServer ==
  ASSUME Typed, Server \/ Save \/ BeginRebuild \/ SaveFails \/ RequestReconcile
  PROVE  Typed'
<1>1. CASE TouchRebuild
  BY <1>1 DEF Typed, TypeOK, CommitHasSettings, TouchRebuild, loop, index, budgets
<1>2. CASE TouchReconcile
  BY <1>2 DEF Typed, TypeOK, CommitHasSettings, TouchReconcile, loop, index, budgets
<1>3. CASE CommitSave
  BY <1>3 DEF Typed, TypeOK, CommitHasSettings, CommitSave, loop, index, budgets, files
<1>4. CASE Save
  BY <1>4, Constants DEF Typed, TypeOK, CommitHasSettings, Save, BeginSave, loop, index, files
<1>5. CASE BeginRebuild
  BY <1>5, Constants DEF Typed, TypeOK, CommitHasSettings, BeginRebuild, loop, index, files
<1>6. CASE SaveFails
  BY <1>6, Constants DEF Typed, TypeOK, CommitHasSettings, SaveFails, Fault, loop, index, files
<1>7. CASE RequestReconcile
  BY <1>7, Constants DEF Typed, TypeOK, CommitHasSettings, RequestReconcile, loop, index, files, web
<1> QED BY <1>1, <1>2, <1>3, <1>4, <1>5, <1>6, <1>7 DEF Server

LEMMA TypedDaemon ==
  ASSUME Typed, Daemon
  PROVE  Typed'
<1>1. CASE LoadSettings
  BY <1>1 DEF Typed, TypeOK, CommitHasSettings, LoadSettings, Phase, web, files, index, budgets
<1>2. CASE BootLoad
  BY <1>2 DEF Typed, TypeOK, CommitHasSettings, BootLoad, Phase, web, files, index, budgets
<1>3. CASE CheckEmbeddingModel
  BY <1>3 DEF Typed, TypeOK, CommitHasSettings, CheckEmbeddingModel, Wipe, Phase, web, files, loop, index, budgets
<1>4. CASE ConsumeReconcile
  BY <1>4 DEF Typed, TypeOK, CommitHasSettings, ConsumeReconcile, Phase, web, index, budgets
<1>5. CASE ConsumeRebuild
  BY <1>5 DEF Typed, TypeOK, CommitHasSettings, ConsumeRebuild, SweepIsDue, Phase, web, index, budgets
<1>6. CASE RunRebuild
  <2>1. stamp' \in {Identity(c) : c \in Config} \cup {NoStamp}
    <3>1. CASE stamp' = [provider |-> boot.provider, model |-> live.model]
      <4>1. PICK c \in Config : c = [boot EXCEPT !.model = live.model]
        BY DEF Typed, TypeOK, Config
      <4>2. Identity(c) = stamp'
        BY <3>1, <4>1 DEF Identity, Typed, TypeOK, Config
      <4> QED BY <4>1, <4>2
    <3> QED BY <1>6, <3>1 DEF RunRebuild, Wipe, index, Typed, TypeOK
  <2>2. row' \in [Doc -> Config \cup {NoRow}]
    BY <1>6 DEF RunRebuild, Wipe, index, Typed, TypeOK
  <2>3. losses' \in 0..MaxLosses /\ faults' \in 0..MaxFaults
    BY <1>6, Constants DEF RunRebuild, Loss, NoFault, Typed, TypeOK
  <2>4. needsRebuild' \in BOOLEAN
    BY <1>6, ZenonT(30) DEF RunRebuild
  <2> QED BY <1>6, <2>1, <2>2, <2>3, <2>4
          DEF Typed, TypeOK, CommitHasSettings, RunRebuild, Phase, web, files
<1>7. CASE StartSync
  BY <1>7 DEF Typed, TypeOK, CommitHasSettings, StartSync, Phase, web, files, index, budgets
<1>8. ASSUME NEW d \in Doc, IndexDocument(d) PROVE Typed'
  <2>1. row' \in [Doc -> Config \cup {NoRow}] /\ changed' \subseteq Doc
    BY <1>8 DEF IndexDocument, Typed, TypeOK
  <2>2. losses' \in 0..MaxLosses /\ faults' \in 0..MaxFaults
    BY <1>8, Constants DEF IndexDocument, Fault, NoFault, Typed, TypeOK
  <2> QED BY <1>8, <2>1, <2>2 DEF Typed, TypeOK, CommitHasSettings, IndexDocument, web, files
<1>9. CASE SyncEnds
  BY <1>9 DEF Typed, TypeOK, CommitHasSettings, SyncEnds, Phase, web, files, loop, index, budgets
<1>10. CASE Sweep
  BY <1>10, Constants DEF Typed, TypeOK, CommitHasSettings, Sweep, Fault, NoFault, Phase, web, files, index
<1>11. CASE Checkpoint
  BY <1>11 DEF Typed, TypeOK, CommitHasSettings, Checkpoint, CycleReturns, Phase, web, files, index, budgets
<1>12. CASE WaitEnds
  BY <1>12 DEF Typed, TypeOK, CommitHasSettings, WaitEnds, Phase, web, files, loop, index, budgets
<1>13. CASE WakeBySentinel
  BY <1>13 DEF Typed, TypeOK, CommitHasSettings, WakeBySentinel, Phase, web, loop, index, budgets
<1> QED BY <1>1, <1>2, <1>3, <1>4, <1>5, <1>6, <1>7, <1>8, <1>9, <1>10, <1>11, <1>12, <1>13
        DEF Daemon, AfterLoading

LEMMA TypedNext == Typed /\ [Next]_vars => Typed'
<1> SUFFICES ASSUME Typed, [Next]_vars PROVE Typed'
  OBVIOUS
<1>1. CASE UNCHANGED vars
  BY <1>1 DEF Typed, TypeOK, CommitHasSettings, vars, web, files, loop, index, budgets
<1>2. CASE Tick
  BY <1>2, Constants DEF Typed, TypeOK, CommitHasSettings, Tick, web, files, index, budgets
<1>3. ASSUME NEW d \in Doc, Change(d) PROVE Typed'
  BY <1>3, Constants DEF Typed, TypeOK, CommitHasSettings, Change, web, files, loop, index
<1>4. CASE CycleFails
  <2>1. /\ losses' \in 0..MaxLosses /\ faults' \in 0..MaxFaults
        /\ todo' \subseteq Doc /\ sinceSweep' \in 0..SweepInterval /\ pc' \in Phase
    BY <1>4, Constants DEF CycleFails, CycleReturns, Fault, Loss, Phase, Typed, TypeOK
  <2>2. manual' \in BOOLEAN /\ needsRebuild' \in BOOLEAN /\ runSweep' \in BOOLEAN
    BY <1>4, ZenonT(30) DEF CycleFails, CycleReturns
  <2> QED BY <1>4, <2>1, <2>2 DEF Typed, TypeOK, CommitHasSettings, CycleFails, CycleReturns, web, files, index
<1>5. CASE Stop
  <2>1. /\ losses' \in 0..MaxLosses /\ faults' \in 0..MaxFaults
        /\ todo' \subseteq Doc /\ sinceSweep' \in 0..SweepInterval /\ pc' \in Phase
    BY <1>5, Constants DEF Stop, Fault, Loss, Phase, Typed, TypeOK
  <2>2. manual' \in BOOLEAN /\ needsRebuild' \in BOOLEAN /\ runSweep' \in BOOLEAN
    BY <1>5, ZenonT(30) DEF Stop
  <2> QED BY <1>5, <2>1, <2>2 DEF Typed, TypeOK, CommitHasSettings, Stop, web, files, index
<1> QED BY <1>1, <1>2, <1>3, <1>4, <1>5, TypedServer, TypedDaemon DEF Next, Environment

\* The type invariant of module IndexerLoop holds in every behaviour, also where
\* saves and cycles overlap.
THEOREM TypeCorrect == Spec => []TypeOK
<1>1. Spec => []Typed
  BY TypedInit, TypedNext, PTL DEF Spec
<1> QED BY <1>1, PTL DEF Typed
-----------------------------------------------------------------------------
(* The invariant is inductive *)

LEMMA OrderInit == Init => Order
  BY DEF Init, Order, SaveIsAnnounced, LiveIsCurrent, WipeIsNext, ReadingTriggers

\* No step of a save, of a cycle or of a failure disturbs the order in which the
\* settings and the sentinels change.
LEMMA OrderStep ==
  ASSUME Typed, Order, CalmNext
  PROVE  Order'
<1> USE DEF Order, SaveIsAnnounced, LiveIsCurrent, WipeIsNext, ReadingTriggers
<1>1. CASE Tick
  BY <1>1 DEF Tick, web, files
<1>2. CASE Server
  BY <1>2 DEF Server, TouchRebuild, TouchReconcile, CommitSave, Typed, CommitHasSettings, loop, files
<1>3. CASE Save /\ ~ReadingTriggers
  BY <1>3 DEF Save, BeginSave, loop, files
<1>4. ASSUME NEW d \in Doc, Change(d) PROVE Order'
  BY <1>4 DEF Change, web, files, loop
<1>5. CASE BeginRebuild \/ RequestReconcile \/ SaveFails
  BY <1>5 DEF BeginRebuild, RequestReconcile, SaveFails, web, files, loop
<1>6. CASE CycleFails \/ Stop
  BY <1>6 DEF CycleFails, CycleReturns, Stop, web, files
<1>7. CASE CalmDaemon
  <2>1. CASE BootLoad \/ (LoadSettings /\ pending = NoConfig)
    BY <2>1 DEF BootLoad, LoadSettings, web, files
  <2>2. CASE CheckEmbeddingModel \/ StartSync \/ SyncEnds
    BY <2>2 DEF CheckEmbeddingModel, StartSync, SyncEnds, web, files, loop
  <2>3. CASE ConsumeReconcile
    BY <2>3 DEF ConsumeReconcile, web
  <2>4. CASE ConsumeRebuild
    BY <2>4 DEF ConsumeRebuild, web
  <2>5. CASE RunRebuild
    BY <2>5 DEF RunRebuild, web, files
  <2>6. ASSUME NEW d \in Doc, IndexDocument(d) PROVE Order'
    BY <2>6 DEF IndexDocument, web, files
  <2>7. CASE Sweep \/ Checkpoint \/ WaitEnds \/ WakeBySentinel
    BY <2>7 DEF Sweep, Checkpoint, CycleReturns, WaitEnds, WakeBySentinel, web, files, loop
  <2> QED BY <1>7, <2>1, <2>2, <2>3, <2>4, <2>5, <2>6, <2>7 DEF CalmDaemon, AfterLoading
<1> QED BY <1>1, <1>2, <1>3, <1>4, <1>5, <1>6, <1>7 DEF CalmNext, Environment

LEMMA VectorsInit == Init => Vectors
  BY DEF Init, Vectors, RowsFollowSettings, StampIsTrue, MixIsDue, Current, ReadingTriggers

\* Under one provider the stamp of a wipe is the identity of the settings in use.
LEMMA OneStamp ==
  ASSUME Typed, OneProvider
  PROVE  [provider |-> boot.provider, model |-> live.model] = Identity(live)
  BY DEF Typed, TypeOK, Config, OneProvider, Identity

\* What the budgets say of the failures of a step.
LEMMA Counting ==
  ASSUME Typed
  PROVE  /\ losses \in Nat
         /\ Loss => losses' = losses + 1
         /\ Fault \/ NoFault => losses' = losses
  BY Constants DEF Typed, TypeOK, Loss, Fault, NoFault

LEMMA VectorsStep ==
  ASSUME Typed, Order, Vectors, CalmNext
  PROVE  Vectors'
<1> USE DEF Vectors, RowsFollowSettings, StampIsTrue, MixIsDue, Current, ReadingTriggers
<1>1. CASE Tick
  BY <1>1 DEF Tick, web, files, index, budgets
<1>2. CASE Server
  BY <1>2 DEF Server, TouchRebuild, TouchReconcile, CommitSave, Order, SaveIsAnnounced, Typed,
     CommitHasSettings, loop, files, index, budgets
<1>3. CASE Save
  BY <1>3 DEF Save, BeginSave, loop, files, index
<1>4. ASSUME NEW d \in Doc, Change(d) PROVE Vectors'
  BY <1>4 DEF Change, web, files, loop, index
<1>5. CASE BeginRebuild \/ RequestReconcile \/ SaveFails
  BY <1>5, Counting DEF BeginRebuild, RequestReconcile, SaveFails, web, files, loop, index
<1>6. CASE CycleFails \/ Stop
  BY <1>6, Counting DEF CycleFails, CycleReturns, Stop, Order, WipeIsNext, web, files, index
<1>7. CASE CalmDaemon
  <2>1. CASE BootLoad \/ LoadSettings
    BY <2>1 DEF BootLoad, LoadSettings, Order, LiveIsCurrent, web, files, index, budgets
  <2>2. CASE CheckEmbeddingModel
    BY <2>2 DEF CheckEmbeddingModel, Wipe, Order, LiveIsCurrent, web, files, loop, index, budgets
  <2>3. CASE StartSync \/ SyncEnds
    BY <2>3 DEF StartSync, SyncEnds, web, files, loop, index, budgets
  <2>4. CASE ConsumeReconcile
    BY <2>4 DEF ConsumeReconcile, web, index, budgets
  <2>5. CASE ConsumeRebuild
    BY <2>5 DEF ConsumeRebuild, Order, WipeIsNext, web, index, budgets
  <2>6. CASE RunRebuild
    BY <2>6, OneStamp, Counting DEF RunRebuild, Wipe, Order, WipeIsNext, web, files, index
  <2>7. ASSUME NEW d \in Doc, IndexDocument(d) PROVE Vectors'
    BY <2>7, Counting DEF IndexDocument, Order, WipeIsNext, LiveIsCurrent, Typed, TypeOK, web, files
  <2>8. CASE Sweep \/ Checkpoint \/ WaitEnds \/ WakeBySentinel
    BY <2>8, Counting DEF Sweep, Checkpoint, CycleReturns, WaitEnds, WakeBySentinel, Order,
       WipeIsNext, web, files, loop, index, budgets
  <2> QED BY <1>7, <2>1, <2>2, <2>3, <2>4, <2>5, <2>6, <2>7, <2>8 DEF CalmDaemon, AfterLoading
<1> QED BY <1>1, <1>2, <1>3, <1>4, <1>5, <1>6, <1>7 DEF CalmNext, Environment

LEMMA CalmIsNext == CalmNext => Next
  BY DEF CalmNext, Next, CalmDaemon, Daemon, AfterLoading

LEMMA Inductive == CalmSpec => []IInv
<1>1. Init => IInv
  BY TypedInit, OrderInit, VectorsInit DEF IInv
<1>2. IInv /\ UNCHANGED vars => IInv'
  BY DEF IInv, Typed, TypeOK, CommitHasSettings, Order, SaveIsAnnounced, LiveIsCurrent, WipeIsNext,
     ReadingTriggers, Vectors, RowsFollowSettings, StampIsTrue, MixIsDue, Current,
     vars, web, files, loop, index, budgets
<1>3. IInv /\ CalmNext => IInv'
  BY TypedNext, OrderStep, VectorsStep, CalmIsNext DEF IInv
<1> QED BY <1>1, <1>2, <1>3, PTL DEF CalmSpec

-----------------------------------------------------------------------------
(* What the daemon promises *)

\* Every vector is of the saved settings or its wipe is on its way, wherever
\* saves, failures and crashes fall, for every archive and all settings, as
\* long as no consumed rebuild request is lost (_put_settings, _run_one_cycle).
THEOREM IndexSound == CalmSpec => []IndexIsSound
<1>1. IInv => IndexIsSound
  BY DEF IInv, Typed, Vectors, IndexIsSound
<1> QED BY <1>1, Inductive, PTL

\* New settings are hot-loaded only together with the request for their wipe,
\* whatever requests were lost before (_put_settings).
THEOREM NewSettingsWiped == CalmSpec => NewSettingsHaveTheirWipe
<1>1. IInv /\ [CalmNext]_vars =>
        (pc = "top" /\ live' # live => rebuildFile \/ \A d \in Doc : row[d] \in {NoRow, live'})
  <2> SUFFICES ASSUME IInv, CalmNext, pc = "top", live' # live
               PROVE  rebuildFile
    BY DEF vars, loop
  <2>1. live' = saved
    BY DEF CalmNext, Environment, Tick, Server, TouchRebuild, TouchReconcile, CommitSave,
       Save, BeginSave, Change, BeginRebuild, RequestReconcile, SaveFails, CycleFails, CycleReturns,
       Stop, CalmDaemon, AfterLoading, LoadSettings, BootLoad, CheckEmbeddingModel,
       ConsumeReconcile, ConsumeRebuild, RunRebuild, StartSync, IndexDocument, SyncEnds, Sweep,
       Checkpoint, WaitEnds, WakeBySentinel, loop
  <2> QED BY <2>1 DEF IInv, Order, LiveIsCurrent
<1> QED BY <1>1, Inductive, PTL DEF CalmSpec, NewSettingsHaveTheirWipe

\* The check at boot heals a drift of the embedding identity, for every archive
\* and all settings, after one lost wipe if there is one provider, after none
\* if there are several (check_embedding_model, rebuild_index).
THEOREM BootHeals == CalmSpec => BootHealsIdentity
<1>1. IInv /\ [CalmNext]_vars =>
        (pc = "boot" /\ pc' = "top" /\ losses <= (IF OneProvider THEN 1 ELSE 0) =>
           rebuildFile \/ \A d \in Doc : row'[d] = NoRow \/ Identity(row'[d]) = Identity(boot))
  <2> SUFFICES ASSUME IInv, CalmNext, pc = "boot", pc' = "top", ~rebuildFile,
                      losses <= (IF OneProvider THEN 1 ELSE 0), NEW d \in Doc, row'[d] # NoRow
               PROVE  Identity(row'[d]) = Identity(boot)
    BY DEF vars
  <2>1. CheckEmbeddingModel
    BY DEF CalmNext, Environment, Tick, Server, TouchRebuild, TouchReconcile, CommitSave,
       Save, BeginSave, Change, BeginRebuild, RequestReconcile, SaveFails, CycleFails, CycleReturns,
       Stop, CalmDaemon, AfterLoading, LoadSettings, BootLoad,
       ConsumeReconcile, ConsumeRebuild, RunRebuild, StartSync, IndexDocument, SyncEnds, Sweep,
       Checkpoint, WaitEnds, WakeBySentinel
  <2>2. row' = row /\ stamp = Identity(boot)
    BY <2>1 DEF CheckEmbeddingModel, Wipe, index
  <2>3. ~needsRebuild /\ boot = saved /\ losses \in Nat
    BY Counting DEF IInv, Order, LiveIsCurrent, WipeIsNext
  <2>4. CASE OneProvider
    BY <2>2, <2>3, <2>4 DEF IInv, Vectors, MixIsDue, Current
  <2>5. CASE ~OneProvider
    <3>1. losses = 0
      BY <2>3, <2>5
    <3> QED BY <2>2, <2>3, <3>1 DEF IInv, Vectors, RowsFollowSettings
  <2> QED BY <2>4, <2>5
<1> QED BY <1>1, Inductive, PTL DEF CalmSpec, BootHealsIdentity

(***************************************************************************)
(* The classification worker                                               *)
(***************************************************************************)

-----------------------------------------------------------------------------
(* The classifier: the invariant                                           *)

Item == [kind : Kinds, name : Names]
Ids == Kinds \X DOMAIN items
Asks == {"look", "create", "insert", "recover", "rejected", "rematch", "rematch_rejected"}
Entries == [key : STRING, name : Names, id : DOMAIN items, place : Nat \ {0}]

Papers == [state : {"queued", "saved", "error", "ocr"}, ids : SUBSET Ids, fields : SUBSET STRING]
Works == [at : Steps, todo : Seq(Kinds \X Names), ids : SUBSET Ids, fields : SUBSET STRING, created : Nat]

ClassifyTyped ==
  /\ case \in Cases
  /\ items \in Seq(Item \cup {Gone}) /\ Len(case.items) <= Len(items)
  /\ paper \in [Docs -> Papers] /\ work \in [Docs -> Works]
  /\ cache \in [Kinds -> SUBSET Entries] /\ \A kind \in Kinds : IsFiniteSet(cache[kind])
  /\ polls \in 0 .. case.polls /\ stop \in BOOLEAN /\ llmFaults \in Nat /\ netFaults \in Nat /\ deleted \in Nat
  /\ mine \in [Docs -> SUBSET STRING]
  /\ \A d \in Docs : (work[d].at \in Asks) => work[d].todo # <<>>

\* What the cache holds of a kind: one entry for a key and for a place, each of
\* an item of that name, unless the user deleted it.
CacheFits ==
  \A kind \in Kinds :
    /\ \A e, f \in cache[kind] : e.key = f.key \/ e.place = f.place => e = f
    /\ \A e \in cache[kind] : items[e.id] # Gone =>
         items[e.id].kind = kind /\ Key(kind, items[e.id].name) = e.key

\* An item that was created is what was asked for.
CreatedFits ==
  \A d \in Docs : At(d, "insert") =>
    /\ work[d].created \in DOMAIN items
    /\ items[work[d].created] \in {Gone, [kind |-> Wanted(d)[1], name |-> Wanted(d)[2]]}

\* An id that was handed out is what the cache says of every spelling.
GivenHolds ==
  \A x \in given :
    /\ x[1] \in Kinds /\ \E n \in Names : Key(x[1], n) = x[2]
    /\ \A n \in Names : Key(x[1], n) = x[2] => x[3] # NoItem /\ Match(x[1], n) = x[3]

Known(kind, key) == \A n \in Names : Key(kind, n) = key => Matches(kind, n) # {}
Wants(d, kind, key) == Wanted(d)[1] = kind /\ KeyWanted(d) = key

\* Of two threads that create a name at once, the later knew of the first.
RivalsAreBlind == \A d, e \in Docs : Creating(d) /\ e \in Rivals(d) => <<Wanted(d)[1], KeyWanted(d)>> \in blind

\* Once the cache was filled, it misses an item only while the thread that
\* creates it has not come back.
Owes(d) == At(d, "insert") \/ At(d, "recover")
IsKnown(kind, key) == \/ Known(kind, key) \/ <<kind, key>> \in blind
                      \/ \E d \in Docs : Owes(d) /\ Wants(d, kind, key)

ItemsAreKnown ==
  polls > 0 =>
    \A i \in DOMAIN items : items[i] # Gone => IsKnown(items[i].kind, Key(items[i].kind, items[i].name))

\* Who is about to create a name is the first.
FirstOfItsName ==
  \A d \in Docs : At(d, "create") =>
    \A i \in DOMAIN items :
      items[i] # Gone /\ Wants(d, items[i].kind, Key(items[i].kind, items[i].name))
        => <<Wanted(d)[1], KeyWanted(d)>> \in blind

\* No thread works before the first poll.
WorkFollowsAPoll == polls = 0 => \A d \in Docs : At(d, "done")

OneTaxonomy == CacheFits /\ CreatedFits /\ GivenHolds /\ RivalsAreBlind /\ ItemsAreKnown /\ FirstOfItsName /\ TwinsNeedARace

\* A rejection is for an item that is there, unless one was deleted.
RejectedForAnItem ==
  deleted = 0 =>
    /\ \A i \in DOMAIN items : items[i] # Gone
    /\ \A d \in Docs : /\ At(d, "rejected") \/ At(d, "rematch_rejected") => Taken(d)
                       /\ At(d, "rematch_rejected") => Hit(d) # NoItem

TagsOf(ids) == {x \in ids : x[1] = "tag"}
TagsAt(s) == {k \in DOMAIN s : s[k][1] = "tag"}
Bears(id, tag) == items[id] # Gone => Key("tag", items[id].name) = tag

\* Every required tag has its item or is still to be looked up.
ToCome(d, tag) == \E k \in DOMAIN work[d].todo : work[d].todo[k] = <<"tag", tag>>
HasCome(ids, tag) == \E x \in TagsOf(ids) : Bears(x[2], tag)
Fair(d) ==
  /\ \A i \in DOMAIN Required(d) :
       ToCome(d, Simple(Required(d)[i])) \/ HasCome(work[d].ids, Simple(Required(d)[i]))
  /\ Cardinality(TagsOf(work[d].ids)) + Cardinality(TagsAt(work[d].todo)) <= Len(Required(d)) + case.limit

RequiredComes ==
  \A d \in Docs : /\ work[d].at \in Asks \cup {"patch"} => Fair(d)
                  /\ At(d, "patch") => work[d].todo = <<>>
                  /\ At(d, "fetch") \/ At(d, "ask") => work[d].ids = {}

\* What a thread read of the fields is what the user wrote before.
FieldsWereRead == \A d \in Docs : ~At(d, "done") /\ ~At(d, "fetch") => mine[d] \subseteq work[d].fields

ServedFairly ==
  /\ RejectedForAnItem /\ RequiredComes /\ FieldsWereRead
  /\ HealthyDocumentsAreKept /\ RequiredTagsArrive /\ UserFieldsAreKept

ClassifyInv == ClassifyTyped /\ WorkFollowsAPoll /\ OneTaxonomy /\ ServedFairly
-----------------------------------------------------------------------------
(* Names and plans                                                         *)

LEMMA KeyFacts ==
  ASSUME NEW kind \in Kinds, NEW n \in Names
  PROVE  /\ Key(kind, n) \in STRING
         /\ Simple(n) \in Names /\ Simple(n) \in STRING /\ Org(n) \in STRING
         /\ Key("tag", n) = Simple(n)
         /\ kind # "correspondent" => Key(kind, n) = Simple(n)
<1>1. Simple(n) \in Names /\ Org(n) \in STRING /\ Simple(n) \in STRING
  BY NamesAssumption
<1> QED BY <1>1 DEF Key, Norm

LEMMA CaseFacts ==
  ASSUME case \in Cases, NEW d \in Docs
  PROVE  /\ Reply(d).tags \in Seq(Names)
         /\ Reply(d).correspondent \in Names \cup {NoName} /\ Reply(d).type \in Names \cup {NoName}
         /\ DocOf(d).fields \subseteq STRING
         /\ DocOf(d).footers \in Seq(Names) /\ DocOf(d).year \in Names /\ case.country \in Seq(Names)
         /\ case.limit \in Nat /\ case.polls \in Nat
         /\ case.items \in Seq(Item)
         /\ case.edits[d] \in STRING
<1>1. /\ case.docs \in [Docs -> Texts]
      /\ case.items \in Seq(Item) /\ case.country \in Seq(Names)
      /\ case.edits \in [Docs -> STRING] /\ case.limit \in Nat /\ case.polls \in Nat
  BY CasesAssumption DEF Item
<1>2. DocOf(d) \in Texts
  BY <1>1 DEF DocOf
<1>3. Reply(d) \in Replies
  BY <1>2 DEF Texts, Reply
<1> QED BY <1>1, <1>2, <1>3 DEF Texts, Replies

LEMMA RequiredFacts ==
  ASSUME case \in Cases, NEW d \in Docs
  PROVE  Required(d) \in Seq(Names) /\ Required(d) # <<>> /\ Len(Required(d)) \in Nat
<1>1. DocOf(d).footers \in Seq(Names) /\ DocOf(d).year \in Names /\ case.country \in Seq(Names)
  BY CaseFacts
<1>2. <<DocOf(d).year>> \in Seq(Names) /\ Len(<<DocOf(d).year>>) = 1
  BY <1>1
<1>3. ASSUME NEW x \in Seq(Names), NEW y \in Seq(Names), NEW z \in Seq(Names), Len(y) = 1
      PROVE  (x \o y) \o z \in Seq(Names) /\ (x \o y) \o z # <<>>
  <2>1. x \o y \in Seq(Names) /\ Len(x \o y) = Len(x) + 1
    BY <1>3, ConcatProperties
  <2>2. (x \o y) \o z \in Seq(Names) /\ Len((x \o y) \o z) = (Len(x) + 1) + Len(z)
    BY <2>1, ConcatProperties
  <2>3. Len(x) \in Nat /\ Len(z) \in Nat
    BY LenProperties
  <2> QED BY <2>2, <2>3, Len(<<>>) = 0
<1>4. Required(d) \in Seq(Names) /\ Required(d) # <<>>
  BY <1>1, <1>2, <1>3 DEF Required
<1> QED BY <1>4, LenProperties

LEMMA LowercaseFacts ==
  ASSUME NEW tags \in Seq(Names)
  PROVE  /\ Lowercase(tags) \in Seq(Names) /\ Len(Lowercase(tags)) = Len(tags)
         /\ DOMAIN Lowercase(tags) = DOMAIN tags
         /\ \A i \in DOMAIN tags : Lowercase(tags)[i] = Simple(tags[i])
         /\ Firsts(tags) \in SUBSET DOMAIN Lowercase(tags)
         /\ \A i \in DOMAIN tags : \E j \in Firsts(tags) : Simple(tags[i]) = Lowercase(tags)[j]
<1> DEFINE low == Lowercase(tags)
<1>1. Len(tags) \in Nat /\ DOMAIN tags = 1 .. Len(tags)
  BY LenProperties
<1>2. low = [i \in 1 .. Len(tags) |-> Simple(tags[i])]
  BY <1>1 DEF Lowercase
<1>3. \A i \in 1 .. Len(tags) : tags[i] \in Names /\ Simple(tags[i]) \in Names
  <2>1. \A i \in 1 .. Len(tags) : tags[i] \in Names
    BY ElementOfSeq
  <2>2. \A n \in Names : Simple(n) \in Names
    BY NamesAssumption
  <2> QED BY <2>1, <2>2
<1>4. low \in [1 .. Len(tags) -> Names]
  BY <1>2, <1>3
<1>5. low \in Seq(Names) /\ Len(low) = Len(tags) /\ DOMAIN low = DOMAIN tags
  BY <1>1, <1>4, IsASeq, LenProperties
<1>6. Firsts(tags) \in SUBSET DOMAIN low
  BY DEF Firsts, FirstPlaces
<1>7. ASSUME NEW i \in DOMAIN tags PROVE \E j \in Firsts(tags) : low[i] = low[j]
  <2>1. low[i] \in Range(low)
    BY <1>5 DEF Range
  <2>2. Range(FirstSeen(low)) = Range(low) /\ Range(AtPlaces(low, FirstPlaces(low))) = {low[j] : j \in FirstPlaces(low)}
    BY <1>5, <1>6, FirstSeenFacts, AtPlacesFacts DEF Firsts
  <2> QED BY <2>1, <2>2 DEF FirstSeen, Firsts
<1> QED BY <1>1, <1>2, <1>5, <1>6, <1>7

LEMMA TagNamesFacts ==
  ASSUME case \in Cases, NEW d \in Docs
  PROVE  /\ TagNames(d) \in Seq(Names) /\ TagNames(d) # <<>>
         /\ Len(TagNames(d)) <= Len(Required(d)) + case.limit
         /\ \A i \in DOMAIN Required(d) : \E k \in DOMAIN TagNames(d) : TagNames(d)[k] = Simple(Required(d)[i])
<1> DEFINE low == Lowercase(Required(d))
           first == AtPlaces(low, Firsts(Required(d)))
           tags == Lowercase(Reply(d).tags)
           passed == AtPlaces(tags, Optional(d))
           rest == Take(passed, case.limit)
<1>1. /\ Required(d) \in Seq(Names) /\ Required(d) # <<>> /\ Len(Required(d)) \in Nat
      /\ Reply(d).tags \in Seq(Names) /\ case.limit \in Nat
  BY CaseFacts, RequiredFacts
<1>2. /\ low \in Seq(Names) /\ Len(low) = Len(Required(d)) /\ DOMAIN low = DOMAIN Required(d)
      /\ Firsts(Required(d)) \in SUBSET DOMAIN low
      /\ \A i \in DOMAIN Required(d) : \E j \in Firsts(Required(d)) : Simple(Required(d)[i]) = low[j]
  BY <1>1, LowercaseFacts
<1>3. /\ first \in Seq(Names) /\ Len(first) = Cardinality(Firsts(Required(d)))
      /\ Range(first) = {low[j] : j \in Firsts(Required(d))}
  BY <1>2, AtPlacesFacts
<1>4. Len(first) <= Len(Required(d))
  <2>1. DOMAIN low = 1 .. Len(Required(d))
    BY <1>2
  <2>2. IsFiniteSet(1 .. Len(Required(d))) /\ Cardinality(1 .. Len(Required(d))) = Len(Required(d))
    BY <1>1, FS_Interval, SMT
  <2> QED BY <1>2, <1>3, <2>1, <2>2, FS_Subset
<1>5. tags \in Seq(Names) /\ Optional(d) \in SUBSET DOMAIN tags
  BY <1>1, LowercaseFacts DEF Optional
<1>6. passed \in Seq(Names)
  BY <1>5, AtPlacesFacts
<1>7. rest \in Seq(Names) /\ Len(rest) <= case.limit
  BY <1>1, <1>6, TakeFacts
<1>8. TagNames(d) = first \o rest
  BY DEF TagNames
<1> HIDE DEF low, first, tags, passed, rest
<1>9. /\ first \o rest \in Seq(Names) /\ Len(first \o rest) = Len(first) + Len(rest)
      /\ \A k \in 1 .. Len(first) : (first \o rest)[k] = first[k]
  <2>1. Len(first) \in Nat /\ Len(rest) \in Nat
    BY <1>3, <1>7, LenProperties
  <2>2. /\ first \o rest \in Seq(Names) /\ Len(first \o rest) = Len(first) + Len(rest)
        /\ \A k \in 1 .. Len(first) + Len(rest) :
             (first \o rest)[k] = IF k <= Len(first) THEN first[k] ELSE rest[k - Len(first)]
    BY <1>3, <1>7, ConcatProperties
  <2> QED BY <2>1, <2>2
<1>10. Len(first) \in Nat /\ Len(rest) \in Nat /\ DOMAIN first = 1 .. Len(first)
       /\ DOMAIN (first \o rest) = 1 .. Len(first \o rest)
  BY <1>3, <1>7, <1>9, LenProperties
<1>11. ASSUME NEW i \in DOMAIN Required(d)
       PROVE  \E k \in DOMAIN (first \o rest) : (first \o rest)[k] = Simple(Required(d)[i])
  <2>1. Simple(Required(d)[i]) \in Range(first)
    BY <1>2, <1>3
  <2>2. PICK k \in 1 .. Len(first) : first[k] = Simple(Required(d)[i])
    BY <2>1, <1>10 DEF Range
  <2> QED BY <2>2, <1>9, <1>10
<1>12. 1 \in DOMAIN Required(d)
  BY <1>1, EmptySeq, LenProperties
<1>13. first \o rest # <<>>
  <2>1. DOMAIN (first \o rest) # {}
    BY <1>11, <1>12
  <2> QED BY <2>1
<1> QED BY <1>1, <1>4, <1>7, <1>8, <1>9, <1>10, <1>11, <1>13

LEMMA ShortLists ==
  ASSUME NEW T
  PROVE  /\ <<>> \in Seq(T) /\ Len(<<>>) = 0
         /\ \A x \in T : <<x>> \in Seq(T) /\ Len(<<x>>) = 1 /\ <<x>>[1] = x
OBVIOUS

LEMMA OneOrNone ==
  ASSUME NEW kind \in Kinds \ {"tag"}, NEW name \in Names \cup {NoName}
  PROVE  LET one == IF name = NoName THEN <<>> ELSE <<<<kind, name>>>> IN
         /\ one \in Seq(Kinds \X Names) /\ Len(one) \in Nat
         /\ \A k \in 1 .. Len(one) : one[k][1] # "tag"
<1> DEFINE one == IF name = NoName THEN <<>> ELSE <<<<kind, name>>>>
<1>1. one \in Seq(Kinds \X Names) /\ Len(one) \in Nat /\ \A k \in 1 .. Len(one) : one[k][1] # "tag"
  <2>1. CASE name = NoName
    <3>1. one = <<>>
      BY <2>1
    <3> HIDE DEF one
    <3>2. one \in Seq(Kinds \X Names) /\ Len(one) = 0
      BY <3>1, ShortLists
    <3>3. 1 .. 0 = {} /\ 0 \in Nat
      OBVIOUS
    <3> QED BY <3>2, <3>3, Zenon
  <2>2. CASE name # NoName
    <3>1. one = <<<<kind, name>>>>
      BY <2>2
    <3> HIDE DEF one
    <3>2. <<kind, name>> \in Kinds \X Names /\ <<kind, name>>[1] # "tag"
      BY <2>2
    <3>3. one \in Seq(Kinds \X Names) /\ Len(one) = 1 /\ one[1] = <<kind, name>>
      BY <3>1, <3>2, ShortLists
    <3>4. 1 .. 1 = {1} /\ 1 \in Nat
      OBVIOUS
    <3> QED BY <3>2, <3>3, <3>4, Zenon
  <2> QED BY <2>1, <2>2
<1> QED BY <1>1

LEMMA PlanFacts ==
  ASSUME case \in Cases, NEW d \in Docs
  PROVE  /\ Plan(d) \in Seq(Kinds \X Names) /\ Plan(d) # <<>>
         /\ \A i \in DOMAIN Required(d) : \E k \in DOMAIN Plan(d) : Plan(d)[k] = <<"tag", Simple(Required(d)[i])>>
         /\ IsFiniteSet({k \in DOMAIN Plan(d) : Plan(d)[k][1] = "tag"})
         /\ Cardinality({k \in DOMAIN Plan(d) : Plan(d)[k][1] = "tag"}) <= Len(Required(d)) + case.limit
<1> DEFINE tags == TagNames(d)
           One(kind, name) == IF name = NoName THEN <<>> ELSE <<<<kind, name>>>>
           first == [i \in DOMAIN tags |-> <<"tag", tags[i]>>]
           second == One("correspondent", Reply(d).correspondent)
           third == One("type", Reply(d).type)
           n == Len(tags)
           plan == (first \o second) \o third
           places == {k \in DOMAIN plan : plan[k][1] = "tag"}
<1>1. /\ tags \in Seq(Names) /\ tags # <<>> /\ n <= Len(Required(d)) + case.limit
      /\ \A i \in DOMAIN Required(d) : \E k \in DOMAIN tags : tags[k] = Simple(Required(d)[i])
      /\ Len(Required(d)) \in Nat /\ case.limit \in Nat
      /\ Reply(d).correspondent \in Names \cup {NoName} /\ Reply(d).type \in Names \cup {NoName}
  BY TagNamesFacts, CaseFacts, RequiredFacts
<1>2. n \in Nat /\ n # 0 /\ DOMAIN tags = 1 .. n
  BY <1>1, LenProperties, EmptySeq
<1>3. "tag" \in Kinds /\ "correspondent" \in Kinds /\ "type" \in Kinds
  BY DEF Kinds
<1>4. /\ first \in Seq(Kinds \X Names) /\ Len(first) = n
      /\ \A k \in 1 .. n : first[k] = <<"tag", tags[k]>>
  <2>1. \A k \in 1 .. n : tags[k] \in Names
    BY <1>1, ElementOfSeq
  <2>2. first \in [1 .. n -> Kinds \X Names]
    BY <1>2, <1>3, <2>1
  <2> QED BY <1>2, <2>2, IsASeq, LenProperties
<1>5. ASSUME NEW kind \in Kinds \ {"tag"}, NEW name \in Names \cup {NoName}
      PROVE  /\ One(kind, name) \in Seq(Kinds \X Names) /\ Len(One(kind, name)) \in Nat
             /\ \A k \in 1 .. Len(One(kind, name)) : One(kind, name)[k][1] # "tag"
  BY OneOrNone
<1>6. /\ second \in Seq(Kinds \X Names) /\ Len(second) \in Nat /\ \A k \in 1 .. Len(second) : second[k][1] # "tag"
      /\ third \in Seq(Kinds \X Names) /\ Len(third) \in Nat /\ \A k \in 1 .. Len(third) : third[k][1] # "tag"
  <2>1. "correspondent" \in Kinds \ {"tag"} /\ "type" \in Kinds \ {"tag"}
    BY <1>3
  <2> HIDE DEF One
  <2> QED BY <1>1, <1>5, <2>1
<1>7. Plan(d) = plan
  BY DEF Plan
<1> HIDE DEF first, second, third, tags
<1> HIDE DEF One
<1>8. /\ first \o second \in Seq(Kinds \X Names) /\ Len(first \o second) = n + Len(second)
      /\ \A k \in 1 .. n + Len(second) : (first \o second)[k] = IF k <= n THEN first[k] ELSE second[k - n]
  <2>1. Len(first) = n
    BY <1>4
  <2> HIDE DEF n
  <2> QED BY <1>4, <1>6, <2>1, ConcatProperties
<1>9. /\ plan \in Seq(Kinds \X Names) /\ Len(plan) = (n + Len(second)) + Len(third)
      /\ \A k \in 1 .. (n + Len(second)) + Len(third) :
           plan[k] = IF k <= n + Len(second) THEN (first \o second)[k] ELSE third[k - (n + Len(second))]
  <2> DEFINE front == first \o second
  <2>1. front \in Seq(Kinds \X Names) /\ Len(front) = n + Len(second)
    BY <1>8
  <2> HIDE DEF front, n
  <2>2. /\ front \o third \in Seq(Kinds \X Names)
        /\ Len(front \o third) = (n + Len(second)) + Len(third)
        /\ \A k \in 1 .. (n + Len(second)) + Len(third) :
             (front \o third)[k] = IF k <= n + Len(second) THEN front[k] ELSE third[k - (n + Len(second))]
    <3>1. front \in Seq(Kinds \X Names) /\ third \in Seq(Kinds \X Names)
      BY <1>6, <2>1
    <3>2. /\ front \o third \in Seq(Kinds \X Names)
          /\ Len(front \o third) = Len(front) + Len(third)
          /\ \A k \in 1 .. Len(front) + Len(third) :
               (front \o third)[k] = IF k <= Len(front) THEN front[k] ELSE third[k - Len(front)]
      BY <3>1, ConcatProperties
    <3> QED BY <2>1, <3>2, Zenon
  <2> QED BY <2>2 DEF front
<1>10. DOMAIN plan = 1 .. (n + Len(second)) + Len(third)
  BY <1>9, LenProperties
<1> HIDE DEF plan, n
<1>11. \A k \in 1 .. n : k \in DOMAIN plan /\ plan[k] = <<"tag", tags[k]>>
  BY <1>2, <1>4, <1>6, <1>8, <1>9, <1>10
<1>12. ASSUME NEW k \in DOMAIN plan, k \notin 1 .. n PROVE plan[k][1] # "tag"
  <2>1. CASE k <= n + Len(second)
    <3>1. plan[k] = second[k - n] /\ k - n \in 1 .. Len(second)
      BY <1>2, <1>6, <1>8, <1>9, <1>10, <1>12, <2>1
    <3> QED BY <3>1, <1>6
  <2>2. CASE ~(k <= n + Len(second))
    <3>1. plan[k] = third[k - (n + Len(second))] /\ k - (n + Len(second)) \in 1 .. Len(third)
      BY <1>2, <1>6, <1>8, <1>9, <1>10, <1>12, <2>2
    <3> QED BY <3>1, <1>6
  <2> QED BY <2>1, <2>2
<1>13. IsFiniteSet(places) /\ Cardinality(places) <= n
  <2>1. IsFiniteSet(1 .. n) /\ Cardinality(1 .. n) = n
    BY <1>2, FS_Interval, SMT
  <2>2. places \in SUBSET (1 .. n)
    BY <1>12
  <2> QED BY <2>1, <2>2, FS_Subset
<1>14. ASSUME NEW i \in DOMAIN Required(d) PROVE \E k \in DOMAIN plan : plan[k] = <<"tag", Simple(Required(d)[i])>>
  <2>1. PICK k \in 1 .. n : tags[k] = Simple(Required(d)[i])
    BY <1>1, <1>2
  <2> QED BY <1>11, <2>1
<1>15. plan # <<>>
  <2>1. 1 \in DOMAIN plan
    BY <1>2, <1>11
  <2> QED BY <2>1
<1>16. Cardinality(places) <= Len(Required(d)) + case.limit
  <2>1. Cardinality(places) \in Nat
    BY <1>13, FS_CardinalityType
  <2>2. n <= Len(Required(d)) + case.limit
    BY <1>1 DEF n, tags
  <2> HIDE DEF places
  <2>3. \A a, b, c \in Nat : c <= n /\ n <= a + b => c <= a + b
    BY <1>2
  <2> QED BY <1>1, <1>13, <2>1, <2>2, <2>3
<1> QED BY <1>7, <1>9, <1>13, <1>14, <1>15, <1>16

-----------------------------------------------------------------------------
(* The cache                                                               *)

\* What a name finds depends on its key only.
LEMMA MatchesByKey ==
  ASSUME NEW kind \in Kinds, NEW n \in Names, NEW m \in Names, Key(kind, n) = Key(kind, m)
  PROVE  Matches(kind, n) = Matches(kind, m)
<1>1. CASE kind # "correspondent"
  BY <1>1 DEF Matches
<1>2. CASE kind = "correspondent" /\ (Org(n) = NoName) = (Org(m) = NoName)
  <2>1. Org(n) # NoName => Org(n) = Org(m)
    BY <1>2 DEF Key, Norm
  <2>2. CASE Org(n) = NoName
    BY <1>2, <2>2 DEF Matches
  <2>3. CASE Org(n) # NoName
    BY <1>2, <2>1, <2>3 DEF Matches
  <2> QED BY <2>2, <2>3
<1>3. CASE kind = "correspondent" /\ (Org(n) = NoName) # (Org(m) = NoName)
  <2>1. \A x, y \in Names : Org(x) = NoName => Org(y) # Simple(x)
    BY NamesAssumption
  <2> QED BY <1>3, <2>1 DEF Key, Norm
<1> QED BY <1>1, <1>2, <1>3

\* Match finds the first of what there is.
LEMMA MatchFacts ==
  ASSUME ClassifyTyped, CacheFits, NEW kind \in Kinds, NEW n
  PROVE  /\ Matches(kind, n) = {} => Match(kind, n) = NoItem
         /\ Matches(kind, n) # {} =>
              \E e \in Matches(kind, n) : /\ Match(kind, n) = e.id /\ e \in cache[kind]
                                          /\ \A f \in Matches(kind, n) : e.place <= f.place
         /\ Match(kind, n) # NoItem <=> Matches(kind, n) # {}
         /\ Match(kind, n) # NoItem => Match(kind, n) \in DOMAIN items
<1> DEFINE found == Matches(kind, n)
           First(e) == \A f \in found : e.place <= f.place
<1>1. found \subseteq cache[kind]
  BY DEF Matches
<1>2. cache[kind] \subseteq Entries /\ items \in Seq(Item \cup {Gone})
  BY DEF ClassifyTyped
<1>3. \A e \in found : e.id \in DOMAIN items /\ e.place \in Nat
  BY <1>1, <1>2 DEF Entries
<1>4. DOMAIN items = 1 .. Len(items) /\ Len(items) \in Nat
  BY <1>2, LenProperties
<1>5. CASE found = {}
  BY <1>5 DEF Match
<1>6. CASE found # {}
  <2>1. {e.place : e \in found} \in SUBSET Nat /\ {e.place : e \in found} # {}
    BY <1>3, <1>6
  <2>2. PICK p \in {e.place : e \in found} : \A q \in {e.place : e \in found} : p <= q
    BY <2>1, LeastNumber
  <2>3. \E e \in found : First(e)
    BY <2>2
  <2>4. (CHOOSE e \in found : First(e)) \in found /\ First(CHOOSE e \in found : First(e))
    <3> HIDE DEF First, found
    <3> QED BY <2>3, Zenon
  <2>5. Match(kind, n) = (CHOOSE e \in found : First(e)).id
    BY <1>6 DEF Match
  <2>6. PICK e \in found : Match(kind, n) = e.id /\ First(e)
    <3> HIDE DEF First, found
    <3> QED BY <2>4, <2>5
  <2>7. e.id \in DOMAIN items /\ e.id # NoItem
    BY <1>3, <1>4 DEF NoItem
  <2> QED BY <1>1, <1>6, <2>6, <2>7
<1> QED BY <1>5, <1>6

LEMMA GoneFacts ==
  ASSUME NEW item \in Item \cup {Gone}
  PROVE  /\ item # Gone => item \in Item /\ item.kind \in Kinds /\ item.name \in Names
         /\ item.kind \in Kinds => item # Gone
BY DEF Item, Gone, Kinds

LEMMA ItemFacts ==
  ASSUME ClassifyTyped, NEW i \in DOMAIN items
  PROVE  /\ items[i] \in Item \cup {Gone}
         /\ items[i] # Gone => items[i] \in Item /\ items[i].kind \in Kinds /\ items[i].name \in Names
         /\ items[i].kind \in Kinds => items[i] # Gone
         /\ i \in Nat /\ i # NoItem
<1>1. items \in Seq(Item \cup {Gone})
  BY DEF ClassifyTyped
<1>2. items[i] \in Item \cup {Gone} /\ i \in Nat /\ i # 0
  BY <1>1, ElementOfSeq, LenProperties
<1> QED BY <1>2, GoneFacts DEF NoItem

LEMMA IdsOfFacts ==
  ASSUME ClassifyTyped, NEW kind, NEW key, IdsOf(kind, key) # {}
  PROVE  /\ Min(IdsOf(kind, key)) \in IdsOf(kind, key) /\ Max(IdsOf(kind, key)) \in IdsOf(kind, key)
         /\ IdsOf(kind, key) \in SUBSET Nat
<1>1. items \in Seq(Item \cup {Gone})
  BY DEF ClassifyTyped
<1>2. DOMAIN items = 1 .. Len(items) /\ Len(items) \in Nat
  BY <1>1, LenProperties
<1>3. IdsOf(kind, key) \in SUBSET (1 .. Len(items))
  BY <1>2 DEF IdsOf
<1>4. IsFiniteSet(1 .. Len(items)) /\ 1 .. Len(items) \in SUBSET Nat
  BY <1>2, FS_Interval, SMT
<1>5. IsFiniteSet(IdsOf(kind, key)) /\ IdsOf(kind, key) \in SUBSET Nat
  BY <1>3, <1>4, FS_Subset
<1> QED BY <1>5, MinIsLeast, MaxIsGreatest

LEMMA IndexedFacts ==
  ASSUME ClassifyTyped, NEW kind \in Kinds
  PROVE  /\ Indexed(kind) \in SUBSET Entries /\ IsFiniteSet(Indexed(kind))
         /\ \A e, f \in Indexed(kind) : e.key = f.key \/ e.place = f.place => e = f
         /\ \A e \in Indexed(kind) : items[e.id].kind = kind /\ Key(kind, items[e.id].name) = e.key
         /\ \A i \in DOMAIN items : items[i].kind = kind =>
              \E e \in Indexed(kind) : e.key = Key(kind, items[i].name)
<1> DEFINE key(i) == Key(kind, items[i].name)
           last == {j \in DOMAIN items : items[j].kind = kind /\ j = Max(IdsOf(kind, key(j)))}
           entry(i) == [key |-> key(i), name |-> items[i].name, id |-> i, place |-> Min(IdsOf(kind, key(i)))]
<1>1. Indexed(kind) = {entry(i) : i \in last}
  BY DEF Indexed
<1>2. ASSUME NEW i \in DOMAIN items, items[i].kind = kind
      PROVE  /\ items[i].name \in Names /\ key(i) \in STRING
             /\ i \in IdsOf(kind, key(i))
             /\ Min(IdsOf(kind, key(i))) \in IdsOf(kind, key(i))
             /\ Max(IdsOf(kind, key(i))) \in IdsOf(kind, key(i))
             /\ IdsOf(kind, key(i)) \in SUBSET Nat
  <2>1. items[i].name \in Names
    BY <1>2, ItemFacts
  <2>2. i \in IdsOf(kind, key(i))
    BY <1>2 DEF IdsOf
  <2> QED BY <2>1, <2>2, IdsOfFacts, KeyFacts
<1>3. ASSUME NEW i \in DOMAIN items, items[i].kind = kind, NEW j \in IdsOf(kind, key(i))
      PROVE  j \in DOMAIN items /\ items[j].kind = kind /\ key(j) = key(i)
  BY <1>3 DEF IdsOf
<1>4. ASSUME NEW i \in last PROVE entry(i) \in Entries
  <2>1. Min(IdsOf(kind, key(i))) \in DOMAIN items
    BY <1>2, <1>3
  <2>2. Min(IdsOf(kind, key(i))) \in Nat \ {0}
    BY <2>1, ItemFacts DEF NoItem
  <2>3. items[i].name \in Names /\ key(i) \in STRING /\ i \in DOMAIN items
    BY <1>2
  <2> HIDE DEF key
  <2> QED BY <2>2, <2>3 DEF Entries
<1>5. ASSUME NEW i \in last, NEW j \in last, key(i) = key(j) PROVE i = j
  <2>1. i = Max(IdsOf(kind, key(i))) /\ j = Max(IdsOf(kind, key(j)))
    OBVIOUS
  <2> QED BY <2>1, <1>5
<1>6. ASSUME NEW i \in last, NEW j \in last, Min(IdsOf(kind, key(i))) = Min(IdsOf(kind, key(j))) PROVE i = j
  <2>1. key(Min(IdsOf(kind, key(i)))) = key(i) /\ key(Min(IdsOf(kind, key(j)))) = key(j)
    BY <1>2, <1>3
  <2> QED BY <2>1, <1>5, <1>6
<1>7. IsFiniteSet(last)
  <2>1. items \in Seq(Item \cup {Gone})
    BY DEF ClassifyTyped
  <2>2. last \in SUBSET DOMAIN items
    OBVIOUS
  <2> QED BY <2>1, <2>2, PlacesAreFinite
<1>8. IsFiniteSet(Indexed(kind))
  <2> DEFINE f == [i \in last |-> entry(i)]
  <2>1. Indexed(kind) = {f[i] : i \in last} /\ last \subseteq DOMAIN f
    BY <1>1
  <2> HIDE DEF last, entry, f
  <2> QED BY <1>7, <2>1, ImageIsFinite
<1>9. ASSUME NEW e \in Indexed(kind), NEW f \in Indexed(kind), e.key = f.key \/ e.place = f.place PROVE e = f
  <2>1. PICK i \in last : e = entry(i)
    BY <1>1
  <2>2. PICK j \in last : f = entry(j)
    BY <1>1
  <2>3. e.key = key(i) /\ f.key = key(j) /\ e.place = Min(IdsOf(kind, key(i))) /\ f.place = Min(IdsOf(kind, key(j)))
    BY <2>1, <2>2
  <2>4. i = j
    BY <1>5, <1>6, <1>9, <2>3
  <2> QED BY <2>1, <2>2, <2>4
<1>10. ASSUME NEW e \in Indexed(kind) PROVE items[e.id].kind = kind /\ Key(kind, items[e.id].name) = e.key
  BY <1>1
<1>11. ASSUME NEW i \in DOMAIN items, items[i].kind = kind PROVE \E e \in Indexed(kind) : e.key = key(i)
  <2> DEFINE m == Max(IdsOf(kind, key(i)))
  <2>1. m \in DOMAIN items /\ items[m].kind = kind /\ key(m) = key(i)
    BY <1>2, <1>3, <1>11
  <2>2. m \in last
    BY <2>1
  <2>3. entry(m) \in Indexed(kind) /\ entry(m).key = key(i)
    BY <1>1, <2>1, <2>2
  <2> QED BY <2>3
<1>12. Indexed(kind) \in SUBSET Entries
  BY <1>1, <1>4
<1> QED BY <1>8, <1>9, <1>10, <1>11, <1>12

-----------------------------------------------------------------------------
(* Types                                                                   *)

LEMMA ItemsGrow ==
  ASSUME ClassifyTyped, NEW item \in Item \cup {Gone}, items' = Append(items, item)
  PROVE  /\ items' \in Seq(Item \cup {Gone})
         /\ Len(items') = Len(items) + 1 /\ Len(items) \in Nat
         /\ DOMAIN items' = DOMAIN items \cup {Len(items) + 1}
         /\ \A i \in DOMAIN items : items'[i] = items[i]
         /\ items'[Len(items) + 1] = item
<1>1. items \in Seq(Item \cup {Gone})
  BY DEF ClassifyTyped
<1>2. /\ items' \in Seq(Item \cup {Gone})
      /\ Len(items') = Len(items) + 1
      /\ \A i \in 1 .. Len(items) : items'[i] = items[i]
      /\ items'[Len(items) + 1] = item
  BY <1>1, AppendProperties
<1>3. Len(items) \in Nat /\ DOMAIN items = 1 .. Len(items) /\ DOMAIN items' = 1 .. Len(items')
  BY <1>1, <1>2, LenProperties
<1> QED BY <1>2, <1>3

LEMMA ItemDeleted ==
  ASSUME ClassifyTyped, NEW i \in DOMAIN items, items' = [items EXCEPT ![i] = Gone]
  PROVE  /\ items' \in Seq(Item \cup {Gone}) /\ Len(items') = Len(items)
         /\ DOMAIN items' = DOMAIN items
         /\ \A j \in DOMAIN items : items'[j] \in {items[j], Gone}
         /\ items'[i] = Gone
<1>1. items \in Seq(Item \cup {Gone})
  BY DEF ClassifyTyped
<1>2. /\ items' \in Seq(Item \cup {Gone}) /\ Len(items') = Len(items)
      /\ \A j \in 1 .. Len(items) : items'[j] = IF i = j THEN Gone ELSE items[j]
  BY <1>1, ExceptSeq
<1>3. Len(items) \in Nat /\ DOMAIN items = 1 .. Len(items) /\ DOMAIN items' = 1 .. Len(items')
  BY <1>1, <1>2, LenProperties
<1> QED BY <1>2, <1>3

LEMMA WantedFacts ==
  ASSUME ClassifyTyped, NEW d \in Docs, work[d].at \in Asks
  PROVE  /\ Wanted(d) \in Kinds \X Names /\ Wanted(d)[1] \in Kinds /\ Wanted(d)[2] \in Names
         /\ KeyWanted(d) \in STRING
         /\ [kind |-> Wanted(d)[1], name |-> Wanted(d)[2]] \in Item
         /\ Tail(work[d].todo) \in Seq(Kinds \X Names)
         /\ Len(work[d].todo) # 1 => Tail(work[d].todo) # <<>>
         /\ Len(work[d].todo) = 1 => Tail(work[d].todo) = <<>>
<1>1. work[d].todo \in Seq(Kinds \X Names) /\ work[d].todo # <<>>
  BY DEF ClassifyTyped, Works
<1>2. ASSUME NEW s \in Seq(Kinds \X Names), s # <<>>
      PROVE  Head(s) \in Kinds \X Names /\ Tail(s) \in Seq(Kinds \X Names) /\ Len(Tail(s)) = Len(s) - 1
             /\ Len(s) \in Nat
  BY <1>2, HeadTailProperties, LenProperties
<1>3. /\ Wanted(d) \in Kinds \X Names /\ Tail(work[d].todo) \in Seq(Kinds \X Names)
      /\ Len(Tail(work[d].todo)) = Len(work[d].todo) - 1 /\ Len(work[d].todo) \in Nat
  BY <1>1, <1>2 DEF Wanted
<1>4. Wanted(d)[1] \in Kinds /\ Wanted(d)[2] \in Names
  BY <1>3
<1>5. Len(work[d].todo) # 1 => Tail(work[d].todo) # <<>>
  <2>1. Len(work[d].todo) # 1 => Len(Tail(work[d].todo)) # 0
    BY <1>3
  <2> QED BY <1>3, <2>1, EmptySeq
<1>6. Len(work[d].todo) = 1 => Tail(work[d].todo) = <<>>
  <2>1. Len(work[d].todo) = 1 => Len(Tail(work[d].todo)) = 0
    BY <1>3
  <2> QED BY <1>3, <2>1, EmptySeq
<1> QED BY <1>3, <1>4, <1>5, <1>6, KeyFacts DEF KeyWanted, Item

LEMMA EntryFacts ==
  ASSUME ClassifyTyped, NEW d \in Docs, At(d, "insert"), work[d].created \in DOMAIN items
  PROVE  /\ Entry(d) \in Entries
         /\ \A e \in cache[Wanted(d)[1]] : e.place < Entry(d).place
         /\ Entry(d).key = KeyWanted(d) /\ Entry(d).id = work[d].created
<1> DEFINE kind == Wanted(d)[1]
           places == {e.place : e \in cache[kind]}
<1>1. kind \in Kinds /\ Wanted(d)[2] \in Names /\ KeyWanted(d) \in STRING
  BY WantedFacts DEF At, Asks
<1>2. cache[kind] \subseteq Entries /\ IsFiniteSet(cache[kind])
  BY <1>1 DEF ClassifyTyped
<1>3. IsFiniteSet(places) /\ places \in SUBSET Nat
  <2> DEFINE f == [e \in cache[kind] |-> e.place]
  <2>1. places = {f[e] : e \in cache[kind]} /\ cache[kind] \subseteq DOMAIN f
    OBVIOUS
  <2>2. places \in SUBSET Nat
    BY <1>2 DEF Entries
  <2> HIDE DEF places, f
  <2> QED BY <1>2, <2>1, <2>2, ImageIsFinite
<1>4. /\ {0} \cup places \in SUBSET Nat /\ IsFiniteSet({0} \cup places) /\ {0} \cup places # {}
  <2>1. IsFiniteSet(places \cup {0})
    BY <1>3, FS_AddElement
  <2>2. places \cup {0} = {0} \cup places
    OBVIOUS
  <2> HIDE DEF places
  <2> QED BY <1>3, <2>1, <2>2
<1>5. Max({0} \cup places) \in Nat /\ \A p \in {0} \cup places : Max({0} \cup places) >= p
  <2> HIDE DEF places
  <2> QED BY <1>4, MaxIsGreatest
<1>6. Entry(d) = [key |-> KeyWanted(d), name |-> Wanted(d)[2], id |-> work[d].created,
                  place |-> 1 + Max({0} \cup places)]
  BY DEF Entry
<1>7. ASSUME NEW e \in cache[kind] PROVE e.place \in places /\ e.place \in Nat
  BY <1>2 DEF Entries
<1> HIDE DEF places
<1>8. \A m, p \in Nat : m >= p => p < 1 + m
  OBVIOUS
<1>9. \A m \in Nat : 1 + m \in Nat \ {0}
  OBVIOUS
<1>10. Entry(d).key = KeyWanted(d) /\ Entry(d).id = work[d].created /\ Entry(d).place = 1 + Max({0} \cup places)
  BY <1>6
<1>11. Entry(d) \in Entries
  BY <1>1, <1>5, <1>6, <1>9 DEF Entries
<1>12. ASSUME NEW e \in cache[kind] PROVE e.place < Entry(d).place
  <2>1. e.place < 1 + Max({0} \cup places)
    BY <1>5, <1>7, <1>8
  <2> QED BY <1>10, <2>1
<1> QED BY <1>10, <1>11, <1>12

LEMMA CaseKept == [ClassifyNext]_classifyVars => case' = case
BY Zenon DEF ClassifyNext, classifyVars, StartPoll, Fetch, TakeReply, NoReply, LookUp, Create, Recover, Rematch,
   Insert, Patch, EditField, DeleteItem, RequestShutdown

LEMMA ClassifyTypedInit == ClassifyInit => ClassifyTyped /\ polls = 0
<1> SUFFICES ASSUME ClassifyInit PROVE ClassifyTyped /\ polls = 0
  OBVIOUS
<1>1. case \in Cases /\ items = case.items
  BY DEF ClassifyInit
<1>2. \A d \in Docs : DocOf(d).fields \in SUBSET STRING
  BY <1>1, CaseFacts
<1>3. items \in Seq(Item \cup {Gone}) /\ Len(case.items) <= Len(items)
  <2>1. case.items \in Seq(Item)
    BY <1>1, CasesAssumption DEF Item
  <2>2. case.items \in [1 .. Len(case.items) -> Item \cup {Gone}] /\ Len(case.items) \in Nat
    BY <2>1, LenProperties, ElementOfSeq
  <2> QED BY <1>1, <2>2, IsASeq
<1>4. paper \in [Docs -> Papers]
  <2>1. paper = [d \in Docs |-> [state |-> "queued", ids |-> {}, fields |-> DocOf(d).fields]]
    BY DEF ClassifyInit
  <2> QED BY <1>2, <2>1 DEF Papers
<1>5. NoWork \in Works
  <2>1. <<>> \in Seq(Kinds \X Names)
    BY ShortLists
  <2> QED BY <2>1 DEF NoWork, Works, Steps, NoItem
<1>6. work \in [Docs -> Works] /\ \A d \in Docs : work[d].at \notin Asks
  BY <1>5 DEF ClassifyInit, NoWork, Asks
<1>7. cache \in [Kinds -> SUBSET Entries] /\ \A kind \in Kinds : IsFiniteSet(cache[kind])
  <2>1. cache = [kind \in Kinds |-> {}]
    BY DEF ClassifyInit
  <2>2. IsFiniteSet({})
    BY FS_EmptySet
  <2> QED BY <2>1, <2>2
<1>8. case.polls \in Nat
  BY <1>1, CasesAssumption
<1>9. /\ polls = 0 /\ polls \in 0 .. case.polls /\ stop \in BOOLEAN
      /\ llmFaults \in Nat /\ netFaults \in Nat /\ deleted \in Nat
  <2>1. polls = 0 /\ stop = FALSE /\ llmFaults = 0 /\ netFaults = 0 /\ deleted = 0
    BY DEF ClassifyInit
  <2>2. stop \in BOOLEAN
    BY <2>1, Zenon
  <2>3. \A n \in Nat : 0 \in 0 .. n /\ 0 \in Nat
    OBVIOUS
  <2> QED BY <1>8, <2>1, <2>2, <2>3
<1>10. mine \in [Docs -> SUBSET STRING]
  BY <1>2 DEF ClassifyInit
<1> QED BY <1>1, <1>3, <1>4, <1>6, <1>7, <1>9, <1>10 DEF ClassifyTyped

Others(d) == \A e \in Docs \ {d} : work'[e] = work[e]

LEMMA GotoFacts ==
  ASSUME ClassifyTyped, NEW d \in Docs, NEW step \in Steps, Goto(d, step)
  PROVE  /\ work' \in [Docs -> Works] /\ Others(d)
         /\ work'[d].at = step /\ work'[d].todo = work[d].todo /\ work'[d].ids = work[d].ids
         /\ work'[d].fields = work[d].fields /\ work'[d].created = work[d].created
<1>1. work \in [Docs -> Works]
  BY DEF ClassifyTyped
<1> QED BY <1>1 DEF Goto, Works, Others

LEMMA DoneFacts ==
  ASSUME ClassifyTyped, NEW d \in Docs, Done(d)
  PROVE  /\ work' \in [Docs -> Works] /\ Others(d)
         /\ work'[d] = NoWork /\ work'[d].at = "done"
<1>1. work \in [Docs -> Works]
  BY DEF ClassifyTyped
<1>2. NoWork \in Works
  <2>1. <<>> \in Seq(Kinds \X Names)
    BY ShortLists
  <2> QED BY <2>1 DEF NoWork, Works, Steps, NoItem
<1>3. work' = [work EXCEPT ![d] = NoWork]
  BY DEF Done
<1>4. NoWork.at = "done"
  BY DEF NoWork
<1> QED BY <1>1, <1>2, <1>3, <1>4 DEF Others

LEMMA ResolveFacts ==
  ASSUME ClassifyTyped, NEW d \in Docs, work[d].at \in Asks, NEW id \in DOMAIN items, Resolve(d, id)
  PROVE  /\ work' \in [Docs -> Works] /\ Others(d)
         /\ work'[d].at = IF Len(work[d].todo) = 1 THEN "patch" ELSE "look"
         /\ work'[d].todo = Tail(work[d].todo)
         /\ work'[d].ids = work[d].ids \cup {<<Wanted(d)[1], id>>}
         /\ work'[d].fields = work[d].fields
         /\ work'[d].at = "look" => work'[d].todo # <<>>
         /\ work'[d].at = "patch" => work'[d].todo = <<>>
<1> DEFINE step == IF Len(work[d].todo) = 1 THEN "patch" ELSE "look"
           more == work[d].ids \cup {<<Wanted(d)[1], id>>}
           w == [work[d] EXCEPT !.at = step, !.todo = Tail(@), !.ids = more, !.created = NoItem]
<1>1. work \in [Docs -> Works]
  BY DEF ClassifyTyped
<1>2. work' = [work EXCEPT ![d] = w]
  BY <1>1 DEF Resolve, Works
<1>3. more \in SUBSET Ids
  <2>1. <<Wanted(d)[1], id>> \in Ids
    BY WantedFacts DEF Ids
  <2> QED BY <1>1, <2>1 DEF Works
<1>4. step \in Steps /\ Tail(work[d].todo) \in Seq(Kinds \X Names) /\ NoItem \in Nat
  BY WantedFacts DEF Steps, NoItem
<1>5. work[d] \in Works
  BY <1>1
<1> HIDE DEF more, step
<1>6. /\ w \in Works /\ w.at = step /\ w.todo = Tail(work[d].todo) /\ w.ids = more
      /\ w.fields = work[d].fields
  BY <1>3, <1>4, <1>5 DEF Works
<1>7. work'[d] = w /\ work' \in [Docs -> Works] /\ Others(d)
  <2> HIDE DEF w
  <2> QED BY <1>1, <1>2, <1>6 DEF Others
<1>8. step = "look" => Tail(work[d].todo) # <<>>
  BY WantedFacts DEF step
<1>9. step = "patch" => Tail(work[d].todo) = <<>>
  BY WantedFacts DEF step
<1> HIDE DEF w
<1> QED BY <1>6, <1>7, <1>8, <1>9 DEF step, more

\* A hit is an item.
LEMMA HitFacts ==
  ASSUME ClassifyTyped, CacheFits, NEW d \in Docs, work[d].at \in Asks, Hit(d) # NoItem
  PROVE  Hit(d) \in DOMAIN items
BY WantedFacts, MatchFacts DEF Hit

\* The rest of the types once the papers, the work and the cache have theirs.
LEMMA TypedStill ==
  ASSUME ClassifyTyped, UNCHANGED <<case, items>>,
         paper' \in [Docs -> Papers], work' \in [Docs -> Works],
         cache' \in [Kinds -> SUBSET Entries], \A kind \in Kinds : IsFiniteSet(cache'[kind]),
         polls' \in 0 .. case.polls, stop' \in BOOLEAN,
         llmFaults' \in Nat, netFaults' \in Nat, deleted' \in Nat, mine' \in [Docs -> SUBSET STRING],
         \A d \in Docs : work'[d].at \in Asks => work'[d].todo # <<>>
  PROVE  ClassifyTyped'
<1>1. Papers' = Papers /\ Works' = Works /\ Entries' = Entries
  BY DEF Papers, Works, Entries, Ids
<1> QED BY <1>1 DEF ClassifyTyped

LEMMA PollTyped == ClassifyTyped /\ StartPoll => ClassifyTyped'
<1> SUFFICES ASSUME ClassifyTyped, StartPoll PROVE ClassifyTyped'
  OBVIOUS
<1>1. /\ UNCHANGED <<case, paper, items, stop, llmFaults, netFaults, deleted, mine>>
      /\ polls < case.polls /\ polls' = polls + 1
      /\ cache' = [kind \in Kinds |-> Indexed(kind)]
      /\ work' = [d \in Docs |-> IF paper[d].state = "queued" THEN [NoWork EXCEPT !.at = "fetch"] ELSE NoWork]
  BY DEF StartPoll, Refreshed, paperless
<1>2. cache' \in [Kinds -> SUBSET Entries] /\ \A kind \in Kinds : IsFiniteSet(cache'[kind])
  BY <1>1, IndexedFacts
<1>3. NoWork \in Works /\ [NoWork EXCEPT !.at = "fetch"] \in Works
      /\ NoWork.at \notin Asks /\ [NoWork EXCEPT !.at = "fetch"].at \notin Asks
  <2>1. <<>> \in Seq(Kinds \X Names)
    BY ShortLists
  <2> QED BY <2>1 DEF NoWork, Works, Steps, NoItem, Asks
<1>4. work' \in [Docs -> Works] /\ \A d \in Docs : work'[d].at \notin Asks
  <2> DEFINE w == [NoWork EXCEPT !.at = "fetch"]
  <2>1. work' = [d \in Docs |-> IF paper[d].state = "queued" THEN w ELSE NoWork]
    BY <1>1
  <2>2. w \in Works /\ NoWork \in Works /\ NoWork.at \notin Asks /\ w.at \notin Asks
    BY <1>3
  <2> HIDE DEF w
  <2> QED BY <2>1, <2>2
<1>5. polls' \in 0 .. case.polls
  <2>1. polls \in 0 .. case.polls /\ case.polls \in Nat
    BY CasesAssumption DEF ClassifyTyped
  <2>2. \A n \in Nat : \A k \in 0 .. n : k < n => k + 1 \in 0 .. n
    OBVIOUS
  <2> QED BY <1>1, <2>1, <2>2
<1>6. /\ paper' \in [Docs -> Papers] /\ stop' \in BOOLEAN /\ llmFaults' \in Nat /\ netFaults' \in Nat
      /\ deleted' \in Nat /\ mine' \in [Docs -> SUBSET STRING]
  BY <1>1 DEF ClassifyTyped
<1> QED BY <1>1, <1>2, <1>4, <1>5, <1>6, TypedStill

LEMMA FetchTyped ==
  ASSUME NEW d \in Docs
  PROVE  ClassifyTyped /\ Fetch(d) => ClassifyTyped'
<1> SUFFICES ASSUME ClassifyTyped, Fetch(d) PROVE ClassifyTyped'
  OBVIOUS
<1>1. UNCHANGED <<case, items, cache, polls, stop, llmFaults, netFaults, deleted, mine>>
  BY DEF Fetch, budget, history
<1>2. paper \in [Docs -> Papers] /\ work \in [Docs -> Works]
  BY DEF ClassifyTyped
<1>3. CASE /\ work' = [work EXCEPT ![d].at = "ask", ![d].fields = paper[d].fields]
           /\ UNCHANGED paper
  <2>1. "ask" \in Steps /\ paper[d].fields \in SUBSET STRING /\ "ask" \notin Asks
    BY <1>2 DEF Steps, Papers, Asks
  <2>2. work' \in [Docs -> Works] /\ work'[d].at = "ask" /\ Others(d)
    BY <1>2, <1>3, <2>1 DEF Works, Others
  <2>3. \A e \in Docs : work'[e].at \in Asks => work'[e].todo # <<>>
    BY <2>1, <2>2 DEF ClassifyTyped, Others
  <2> QED BY <1>1, <1>2, <1>3, <2>2, <2>3, TypedStill DEF ClassifyTyped
<1>4. ASSUME NEW state \in {"ocr", "error"}, Becomes(d, state), Done(d) PROVE ClassifyTyped'
  <2>1. paper' \in [Docs -> Papers]
    BY <1>2, <1>4 DEF Becomes, Papers
  <2>2. work' \in [Docs -> Works] /\ work'[d].at = "done" /\ Others(d)
    BY <1>4, DoneFacts
  <2>3. \A e \in Docs : work'[e].at \in Asks => work'[e].todo # <<>>
    BY <2>2 DEF ClassifyTyped, Others, Asks
  <2> QED BY <1>1, <2>1, <2>2, <2>3, TypedStill DEF ClassifyTyped
<1> QED BY <1>3, <1>4 DEF Fetch

\* A thread's step that leaves the cache and the items alone.
LEMMA ThreadTyped ==
  ASSUME ClassifyTyped, NEW d \in Docs, UNCHANGED <<case, items, polls, stop, deleted, mine>>,
         paper' \in [Docs -> Papers], work' \in [Docs -> Works], Others(d),
         work'[d].at \in Asks => work'[d].todo # <<>>,
         cache' \in [Kinds -> SUBSET Entries], \A kind \in Kinds : IsFiniteSet(cache'[kind]),
         llmFaults' \in Nat, netFaults' \in Nat
  PROVE  ClassifyTyped'
<1>1. \A e \in Docs : work'[e].at \in Asks => work'[e].todo # <<>>
  BY DEF ClassifyTyped, Others
<1>2. polls' \in 0 .. case.polls /\ stop' \in BOOLEAN /\ deleted' \in Nat /\ mine' \in [Docs -> SUBSET STRING]
  BY DEF ClassifyTyped
<1> QED BY <1>1, <1>2, TypedStill

LEMMA TypesAre ==
  ASSUME ClassifyTyped
  PROVE  /\ paper \in [Docs -> Papers] /\ work \in [Docs -> Works]
         /\ cache \in [Kinds -> SUBSET Entries] /\ \A kind \in Kinds : IsFiniteSet(cache[kind])
         /\ llmFaults \in Nat /\ netFaults \in Nat /\ deleted \in Nat
         /\ llmFaults + 1 \in Nat /\ netFaults + 1 \in Nat /\ deleted + 1 \in Nat
<1>1. \A n \in Nat : n + 1 \in Nat
  OBVIOUS
<1> QED BY <1>1 DEF ClassifyTyped

LEMMA BecomesFacts ==
  ASSUME ClassifyTyped, NEW d \in Docs, NEW state \in {"queued", "saved", "error", "ocr"}, Becomes(d, state)
  PROVE  /\ paper' \in [Docs -> Papers]
         /\ \A e \in Docs : /\ paper'[e].ids = paper[e].ids /\ paper'[e].fields = paper[e].fields
                            /\ e # d => paper'[e] = paper[e]
         /\ paper'[d].state = state
<1>1. paper \in [Docs -> Papers]
  BY TypesAre
<1> QED BY <1>1 DEF Becomes, Papers

LEMMA UnusableFacts ==
  ASSUME ClassifyTyped, NEW d \in Docs, Unusable(d)
  PROVE  /\ Done(d)
         /\ paper' \in [Docs -> Papers]
         /\ paper' = paper \/ (~stop /\ Becomes(d, "error"))
<1>1. CASE stop
  BY <1>1, TypesAre DEF Unusable
<1>2. CASE ~stop
  BY <1>2, BecomesFacts DEF Unusable
<1> QED BY <1>1, <1>2

LEMMA ReplyTyped ==
  ASSUME NEW d \in Docs
  PROVE  ClassifyTyped /\ (TakeReply(d) \/ NoReply(d)) => ClassifyTyped'
<1> SUFFICES ASSUME ClassifyTyped, TakeReply(d) \/ NoReply(d) PROVE ClassifyTyped'
  OBVIOUS
<1>1. /\ UNCHANGED <<case, items, cache, polls, stop, deleted, mine, netFaults>>
      /\ llmFaults' \in {llmFaults, llmFaults + 1}
  BY DEF TakeReply, NoReply, budget, history
<1>2. llmFaults' \in Nat /\ netFaults' \in Nat
  BY <1>1, TypesAre
<1>3. ASSUME Done(d), paper' \in [Docs -> Papers] PROVE ClassifyTyped'
  <2>1. work' \in [Docs -> Works] /\ Others(d) /\ work'[d].at \notin Asks
    BY <1>3, DoneFacts DEF Asks
  <2> QED BY <1>1, <1>2, <1>3, <2>1, ThreadTyped, TypesAre
<1>4. CASE Unusable(d)
  BY <1>3, <1>4, UnusableFacts
<1>5. CASE Becomes(d, "error") /\ Done(d)
  BY <1>3, <1>5, BecomesFacts
<1>6. CASE /\ work' = [work EXCEPT ![d].at = "look", ![d].todo = Plan(d)]
           /\ UNCHANGED paper
  <2>1. case \in Cases
    BY DEF ClassifyTyped
  <2>2. Plan(d) \in Seq(Kinds \X Names) /\ Plan(d) # <<>> /\ "look" \in Steps
    BY <2>1, PlanFacts DEF Steps
  <2>3. work' \in [Docs -> Works] /\ Others(d) /\ work'[d].todo = Plan(d)
    BY <1>6, <2>2, TypesAre DEF Works, Others
  <2> QED BY <1>1, <1>2, <1>6, <2>2, <2>3, ThreadTyped, TypesAre
<1> QED BY <1>4, <1>5, <1>6 DEF TakeReply, NoReply

LEMMA LookUpTyped ==
  ASSUME NEW d \in Docs
  PROVE  ClassifyTyped /\ CacheFits /\ (LookUp(d) \/ Rematch(d)) => ClassifyTyped'
<1> SUFFICES ASSUME ClassifyTyped, CacheFits, LookUp(d) \/ Rematch(d) PROVE ClassifyTyped'
  OBVIOUS
<1>1. UNCHANGED <<case, items, cache, polls, stop, llmFaults, netFaults, deleted, mine>>
  BY DEF LookUp, Rematch, paperless, budget
<1>2. work[d].at \in Asks
  BY DEF LookUp, Rematch, At, Asks
<1>3. work[d].todo # <<>>
  BY <1>2 DEF ClassifyTyped
<1>4. CASE Hit(d) # NoItem
  <2>1. Resolve(d, Hit(d)) /\ paper' = paper
    BY <1>4 DEF LookUp, Rematch, paperless
  <2>2. /\ work' \in [Docs -> Works] /\ Others(d)
        /\ work'[d].at \in {"look", "patch"} /\ (work'[d].at = "look" => work'[d].todo # <<>>)
    BY <1>2, <1>4, <2>1, HitFacts, ResolveFacts
  <2>3. work'[d].at \in Asks => work'[d].todo # <<>>
    BY <2>2 DEF Asks
  <2> QED BY <1>1, <2>1, <2>2, <2>3, ThreadTyped, TypesAre
<1>5. CASE Hit(d) = NoItem /\ LookUp(d)
  <2>1. Goto(d, "create") /\ "create" \in Steps /\ paper' = paper
    BY <1>5 DEF LookUp, Steps, paperless
  <2>2. work' \in [Docs -> Works] /\ Others(d) /\ work'[d].todo # <<>>
    BY <1>3, <2>1, GotoFacts
  <2> QED BY <1>1, <2>1, <2>2, ThreadTyped, TypesAre
<1>6. CASE Hit(d) = NoItem /\ Rematch(d)
  <2>1. Done(d) /\ paper' \in [Docs -> Papers]
    BY <1>6, BecomesFacts, TypesAre DEF Rematch
  <2>2. work' \in [Docs -> Works] /\ Others(d) /\ work'[d].at \notin Asks
    BY <2>1, DoneFacts DEF Asks
  <2> QED BY <1>1, <2>1, <2>2, ThreadTyped, TypesAre
<1> QED BY <1>4, <1>5, <1>6

LEMMA GrowTyped ==
  ASSUME ClassifyTyped, UNCHANGED <<case, paper, cache, polls, stop, llmFaults, mine>>,
         items' \in Seq(Item \cup {Gone}), Len(items) <= Len(items'), DOMAIN items \subseteq DOMAIN items',
         work' \in [Docs -> Works] \/ work' \in [Docs -> Works'], netFaults' \in Nat, deleted' \in Nat,
         \A d \in Docs : work'[d].at \in Asks => work'[d].todo # <<>>
  PROVE  ClassifyTyped'
<1>1. Ids \subseteq Ids' /\ Entries \subseteq Entries'
  BY DEF Ids, Entries
<1>2. Papers \subseteq Papers' /\ Works \subseteq Works'
  BY <1>1 DEF Papers, Works
<1>3. /\ paper' \in [Docs -> Papers'] /\ work' \in [Docs -> Works']
      /\ cache' \in [Kinds -> SUBSET Entries'] /\ \A kind \in Kinds : IsFiniteSet(cache'[kind])
  BY <1>1, <1>2, TypesAre
<1>4. Len(case'.items) <= Len(items')
  <2>1. Len(case.items) <= Len(items) /\ case.items \in Seq(Item) /\ items \in Seq(Item \cup {Gone})
    BY CasesAssumption DEF ClassifyTyped, Item
  <2>2. Len(case.items) \in Nat /\ Len(items) \in Nat /\ Len(items') \in Nat
    BY <2>1, LenProperties
  <2> QED BY <2>1, <2>2
<1>5. /\ case' \in Cases /\ polls' \in 0 .. case'.polls /\ stop' \in BOOLEAN /\ llmFaults' \in Nat
      /\ mine' \in [Docs -> SUBSET STRING]
  BY DEF ClassifyTyped
<1> QED BY <1>3, <1>4, <1>5 DEF ClassifyTyped

LEMMA CreateTyped ==
  ASSUME NEW d \in Docs
  PROVE  ClassifyTyped /\ Create(d) => ClassifyTyped'
<1> SUFFICES ASSUME ClassifyTyped, Create(d) PROVE ClassifyTyped'
  OBVIOUS
<1>1. /\ UNCHANGED <<case, paper, cache, polls, stop, llmFaults, deleted, mine>>
      /\ netFaults' \in {netFaults, netFaults + 1}
  BY DEF Create, NetFault, history
<1>2. netFaults' \in Nat /\ deleted' \in Nat
  BY <1>1, TypesAre
<1>3. work[d].at \in Asks /\ work[d].todo # <<>>
  BY DEF Create, At, Asks, ClassifyTyped
<1>4. ASSUME NEW step \in {"recover", "rejected"}, Goto(d, step)
      PROVE  work' \in [Docs -> Works] /\ \A e \in Docs : work'[e].at \in Asks => work'[e].todo # <<>>
  <2>1. step \in Steps
    BY DEF Steps
  <2>2. work' \in [Docs -> Works] /\ Others(d) /\ work'[d].todo # <<>>
    BY <1>3, <1>4, <2>1, GotoFacts
  <2> QED BY <2>2 DEF ClassifyTyped, Others
<1>5. CASE NewItem(d)
  <2> DEFINE item == [kind |-> Wanted(d)[1], name |-> Wanted(d)[2]]
  <2>1. item \in Item \cup {Gone}
    BY <1>3, WantedFacts
  <2>2. items' = Append(items, item)
    BY <1>5 DEF NewItem
  <2> HIDE DEF item
  <2>3. /\ items' \in Seq(Item \cup {Gone}) /\ Len(items') = Len(items) + 1 /\ Len(items) \in Nat
        /\ DOMAIN items' = DOMAIN items \cup {Len(items) + 1}
    BY <2>1, <2>2, ItemsGrow
  <2>4. Len(items) <= Len(items') /\ DOMAIN items \subseteq DOMAIN items' /\ Len(items) + 1 \in Nat
    BY <2>3
  <2>5. CASE work' = [work EXCEPT ![d].at = "insert", ![d].created = Len(items) + 1]
    <3>1. work' \in [Docs -> Works] /\ Others(d) /\ work'[d].todo = work[d].todo
      BY <2>4, <2>5, TypesAre DEF Works, Others, Steps
    <3>2. \A e \in Docs : work'[e].at \in Asks => work'[e].todo # <<>>
      BY <1>3, <3>1 DEF ClassifyTyped, Others
    <3> QED BY <1>1, <1>2, <2>3, <2>4, <3>1, <3>2, GrowTyped
  <2>6. CASE Goto(d, "recover")
    BY <1>1, <1>2, <1>4, <2>3, <2>4, <2>6, GrowTyped
  <2>7. CASE Goto(d, "rejected")
    BY <1>1, <1>2, <1>4, <2>3, <2>4, <2>7, GrowTyped
  <2> QED BY <2>5, <2>6, <2>7 DEF Create
<1>6. CASE items' = items /\ \E step \in {"recover", "rejected"} : Goto(d, step)
  <2>1. work' \in [Docs -> Works] /\ \A e \in Docs : work'[e].at \in Asks => work'[e].todo # <<>>
    BY <1>4, <1>6
  <2>2. polls' \in 0 .. case.polls /\ stop' \in BOOLEAN /\ mine' \in [Docs -> SUBSET STRING]
    BY <1>1 DEF ClassifyTyped
  <2> QED BY <1>1, <1>2, <1>6, <2>1, <2>2, TypedStill, TypesAre
<1> QED BY <1>5, <1>6 DEF Create

LEMMA RecoverTyped ==
  ASSUME NEW d \in Docs
  PROVE  ClassifyTyped /\ Recover(d) => ClassifyTyped'
<1> SUFFICES ASSUME ClassifyTyped, Recover(d) PROVE ClassifyTyped'
  OBVIOUS
<1>1. /\ UNCHANGED <<case, paper, items, polls, stop, llmFaults, deleted, mine>>
      /\ netFaults' \in {netFaults, netFaults + 1}
  BY DEF Recover, NetFault, history, paperless
<1>2. netFaults' \in Nat /\ llmFaults' \in Nat
  BY <1>1, TypesAre
<1>3. work[d].at \in Asks /\ work[d].todo # <<>>
  BY DEF Recover, At, Asks, ClassifyTyped
<1>4. CASE Refreshed /\ \E step \in {"rematch", "rematch_rejected"} : Goto(d, step)
  <2>1. cache' = [kind \in Kinds |-> Indexed(kind)]
    BY <1>4 DEF Refreshed
  <2>2. cache' \in [Kinds -> SUBSET Entries] /\ \A kind \in Kinds : IsFiniteSet(cache'[kind])
    BY <2>1, IndexedFacts
  <2>3. PICK step \in {"rematch", "rematch_rejected"} : Goto(d, step)
    BY <1>4
  <2>4. step \in Steps
    BY DEF Steps
  <2>5. work' \in [Docs -> Works] /\ Others(d) /\ work'[d].todo # <<>>
    BY <1>3, <2>3, <2>4, GotoFacts
  <2> QED BY <1>1, <1>2, <2>2, <2>5, ThreadTyped, TypesAre
<1>5. CASE Done(d) /\ UNCHANGED cache
  <2>1. work' \in [Docs -> Works] /\ Others(d) /\ work'[d].at \notin Asks
    BY <1>5, DoneFacts DEF Asks
  <2> QED BY <1>1, <1>2, <1>5, <2>1, ThreadTyped, TypesAre
<1> QED BY <1>4, <1>5 DEF Recover

LEMMA InsertTyped ==
  ASSUME NEW d \in Docs
  PROVE  ClassifyTyped /\ CacheFits /\ CreatedFits /\ Insert(d) => ClassifyTyped'
<1> SUFFICES ASSUME ClassifyTyped, CacheFits, CreatedFits, Insert(d) PROVE ClassifyTyped'
  OBVIOUS
<1>1. UNCHANGED <<case, paper, items, polls, stop, llmFaults, netFaults, deleted, mine>>
  BY DEF Insert, budget, paperless
<1>2. At(d, "insert") /\ work[d].at \in Asks /\ work[d].created \in DOMAIN items
  BY DEF Insert, At, Asks, CreatedFits
<1>3. \E id \in DOMAIN items : Resolve(d, id)
  BY <1>2, HitFacts DEF Insert
<1>4. work' \in [Docs -> Works] /\ Others(d) /\ (work'[d].at \in Asks => work'[d].todo # <<>>)
  <2>1. /\ work' \in [Docs -> Works] /\ Others(d) /\ work'[d].at \in {"look", "patch"}
        /\ (work'[d].at = "look" => work'[d].todo # <<>>)
    BY <1>2, <1>3, ResolveFacts
  <2> QED BY <2>1 DEF Asks
<1>5. cache' \in [Kinds -> SUBSET Entries] /\ \A kind \in Kinds : IsFiniteSet(cache'[kind])
  <2>1. CASE UNCHANGED cache
    BY <2>1, TypesAre
  <2>2. CASE cache' = [cache EXCEPT ![Wanted(d)[1]] = @ \cup {Entry(d)}]
    <3>1. Entry(d) \in Entries /\ Wanted(d)[1] \in Kinds
      BY <1>2, EntryFacts, WantedFacts
    <3>2. IsFiniteSet(cache[Wanted(d)[1]] \cup {Entry(d)})
      BY <3>1, TypesAre, FS_AddElement
    <3>3. cache' \in [Kinds -> SUBSET Entries]
      BY <2>2, <3>1, TypesAre
    <3>4. ASSUME NEW kind \in Kinds PROVE IsFiniteSet(cache'[kind])
      BY <2>2, <3>1, <3>2, TypesAre
    <3> QED BY <3>3, <3>4
  <2> QED BY <2>1, <2>2 DEF Insert
<1> QED BY <1>1, <1>4, <1>5, ThreadTyped, TypesAre

LEMMA PatchTyped ==
  ASSUME NEW d \in Docs
  PROVE  ClassifyTyped /\ Patch(d) => ClassifyTyped'
<1> SUFFICES ASSUME ClassifyTyped, Patch(d) PROVE ClassifyTyped'
  OBVIOUS
<1>1. /\ UNCHANGED <<case, items, cache, polls, stop, llmFaults, deleted, mine>>
      /\ netFaults' \in {netFaults, netFaults + 1} /\ Done(d)
  BY DEF Patch, NetFault, history
<1>2. netFaults' \in Nat /\ llmFaults' \in Nat
  BY <1>1, TypesAre
<1>3. work' \in [Docs -> Works] /\ Others(d) /\ work'[d].at \notin Asks
  BY <1>1, DoneFacts DEF Asks
<1>4. paper' \in [Docs -> Papers]
  <2>1. CASE paper' = [paper EXCEPT ![d] =
               [state |-> "saved", ids |-> work[d].ids,
                fields |-> IF Reply(d).person = NoName THEN @.fields ELSE UpdateFields(d)]]
    <3>1. PersonField \in STRING
      BY FieldAssumption
    <3>2. work[d].ids \in SUBSET Ids /\ work[d].fields \in SUBSET STRING /\ paper[d].fields \in SUBSET STRING
      BY TypesAre DEF Works, Papers
    <3>3. UpdateFields(d) \in SUBSET STRING
      BY <3>1, <3>2 DEF UpdateFields
    <3>4. paper' = [paper EXCEPT ![d] =
               [state |-> "saved", ids |-> work[d].ids,
                fields |-> IF Reply(d).person = NoName THEN paper[d].fields ELSE UpdateFields(d)]]
      BY <2>1, TypesAre
    <3>5. [state |-> "saved", ids |-> work[d].ids,
           fields |-> IF Reply(d).person = NoName THEN paper[d].fields ELSE UpdateFields(d)] \in Papers
      BY <3>2, <3>3 DEF Papers
    <3> QED BY <3>4, <3>5, TypesAre
  <2>2. CASE Becomes(d, "error")
    BY <2>2, BecomesFacts
  <2>3. CASE UNCHANGED paper
    BY <2>3, TypesAre
  <2> QED BY <2>1, <2>2, <2>3 DEF Patch
<1> QED BY <1>1, <1>2, <1>3, <1>4, ThreadTyped, TypesAre

LEMMA UserTyped == ClassifyTyped /\ ((\E d \in Docs : EditField(d)) \/ DeleteItem \/ RequestShutdown) => ClassifyTyped'
<1> SUFFICES ASSUME ClassifyTyped, (\E d \in Docs : EditField(d)) \/ DeleteItem \/ RequestShutdown
             PROVE  ClassifyTyped'
  OBVIOUS
<1>1. \A d \in Docs : work[d].at \in Asks => work[d].todo # <<>>
  BY DEF ClassifyTyped
<1>2. ASSUME NEW d \in Docs, EditField(d) PROVE ClassifyTyped'
  <2>1. UNCHANGED <<case, items, cache, work, polls, stop, llmFaults, netFaults, deleted>>
    BY <1>2 DEF EditField, budget
  <2>2. case.edits[d] \in STRING
    BY CaseFacts DEF ClassifyTyped
  <2>3. paper' \in [Docs -> Papers]
    BY <1>2, <2>2, TypesAre DEF EditField, Papers
  <2>4. mine' \in [Docs -> SUBSET STRING]
    <3>1. mine \in [Docs -> SUBSET STRING]
      BY DEF ClassifyTyped
    <3> QED BY <1>2, <2>2, <3>1 DEF EditField
  <2>5. polls' \in 0 .. case.polls /\ stop' \in BOOLEAN
    BY <2>1 DEF ClassifyTyped
  <2> QED BY <1>1, <2>1, <2>3, <2>4, <2>5, TypedStill, TypesAre
<1>3. CASE DeleteItem
  <2>1. PICK i \in DOMAIN items : items' = [items EXCEPT ![i] = Gone]
    BY <1>3 DEF DeleteItem
  <2>2. items' \in Seq(Item \cup {Gone}) /\ Len(items') = Len(items) /\ DOMAIN items' = DOMAIN items
    BY <2>1, ItemDeleted
  <2>3. Len(items) <= Len(items')
    <3>1. Len(items) \in Nat
      BY LenProperties DEF ClassifyTyped
    <3> QED BY <2>2, <3>1
  <2>4. UNCHANGED <<case, paper, cache, work, polls, stop, llmFaults, netFaults, mine>> /\ deleted' = deleted + 1
    BY <1>3 DEF DeleteItem, history
  <2>5. work' \in [Docs -> Works] /\ netFaults' \in Nat /\ deleted' \in Nat
    BY <2>4, TypesAre
  <2> QED BY <1>1, <2>2, <2>3, <2>4, <2>5, GrowTyped
<1>4. CASE RequestShutdown
  <2>1. UNCHANGED <<case, paper, items, cache, work, polls, llmFaults, netFaults, deleted, mine>> /\ stop' = TRUE
    BY <1>4 DEF RequestShutdown, paperless, history
  <2>2. polls' \in 0 .. case.polls /\ mine' \in [Docs -> SUBSET STRING]
    BY <2>1 DEF ClassifyTyped
  <2>3. stop' \in BOOLEAN
    BY <2>1, Zenon
  <2> QED BY <1>1, <2>1, <2>2, <2>3, TypedStill, TypesAre
<1> QED BY <1>2, <1>3, <1>4

LEMMA ClassifyTypedNext == ClassifyTyped /\ CacheFits /\ CreatedFits /\ [ClassifyNext]_classifyVars => ClassifyTyped'
<1> SUFFICES ASSUME ClassifyTyped, CacheFits, CreatedFits, [ClassifyNext]_classifyVars PROVE ClassifyTyped'
  OBVIOUS
<1>1. CASE UNCHANGED classifyVars
  <2>1. UNCHANGED <<case, paper, items, cache, work, polls, stop, llmFaults, netFaults, deleted, mine>>
    BY <1>1 DEF classifyVars, paperless, budget, history
  <2>2. /\ polls' \in 0 .. case.polls /\ mine' \in [Docs -> SUBSET STRING] /\ stop' \in BOOLEAN
        /\ \A d \in Docs : work'[d].at \in Asks => work'[d].todo # <<>>
    BY <2>1 DEF ClassifyTyped
  <2> QED BY <2>1, <2>2, TypedStill, TypesAre
<1>2. CASE StartPoll
  BY <1>2, PollTyped
<1>3. ASSUME NEW d \in Docs,
             \/ Fetch(d) \/ TakeReply(d) \/ NoReply(d) \/ LookUp(d) \/ Create(d)
             \/ Recover(d) \/ Rematch(d) \/ Insert(d) \/ Patch(d)
      PROVE  ClassifyTyped'
  BY <1>3, FetchTyped, ReplyTyped, LookUpTyped, CreateTyped, RecoverTyped, InsertTyped, PatchTyped
<1>4. CASE (\E d \in Docs : EditField(d)) \/ DeleteItem \/ RequestShutdown
  BY <1>4, UserTyped
<1> QED BY <1>1, <1>2, <1>3, <1>4, Zenon DEF ClassifyNext

LEMMA WorkFollowsNext == ClassifyTyped /\ WorkFollowsAPoll /\ [ClassifyNext]_classifyVars => WorkFollowsAPoll'
<1> SUFFICES ASSUME ClassifyTyped, WorkFollowsAPoll, [ClassifyNext]_classifyVars, polls' = 0
             PROVE  \A d \in Docs : At(d, "done")'
  BY DEF WorkFollowsAPoll
<1>1. polls \in Nat
  <2>1. case.polls \in Nat /\ polls \in 0 .. case.polls
    BY CasesAssumption DEF ClassifyTyped
  <2> QED BY <2>1
<1>2. CASE StartPoll
  <2>1. polls' = polls + 1
    BY <1>2 DEF StartPoll
  <2> QED BY <1>1, <2>1
<1>3. CASE ~StartPoll
  <2>1. polls' = polls
    BY <1>3 DEF ClassifyNext, classifyVars, budget, Fetch, TakeReply, NoReply, LookUp, Create, Recover, Rematch,
       Insert, Patch, EditField, DeleteItem, RequestShutdown
  <2>2. \A d \in Docs : work[d].at = "done"
    BY <2>1 DEF WorkFollowsAPoll, At
  <2>3. work' = work
    BY <1>3, <2>2, Zenon DEF At, ClassifyNext, classifyVars, Fetch, TakeReply, NoReply, LookUp, Create, Recover, Rematch,
       Insert, Patch, EditField, DeleteItem, RequestShutdown
  <2> QED BY <2>2, <2>3 DEF At
<1> QED BY <1>2, <1>3

-----------------------------------------------------------------------------
(* One taxonomy                                                            *)

LEMMA MatchKept ==
  ASSUME cache' = cache, NEW kind, NEW n
  PROVE  Matches(kind, n)' = Matches(kind, n) /\ Match(kind, n)' = Match(kind, n)
<1>1. Matches(kind, n)' = Matches(kind, n)
  BY DEF Matches
<1> QED BY <1>1 DEF Match

LEMMA KnownKept ==
  ASSUME cache' = cache, NEW kind, NEW key
  PROVE  Known(kind, key)' <=> Known(kind, key)
<1>1. \A n \in Names : Matches(kind, n)' = Matches(kind, n)
  BY MatchKept
<1> QED BY <1>1 DEF Known

\* A hit for one spelling is a hit for all.
LEMMA HitIsKnown ==
  ASSUME ClassifyTyped, CacheFits, NEW d \in Docs, work[d].at \in Asks, Hit(d) # NoItem
  PROVE  Known(Wanted(d)[1], KeyWanted(d))
<1>1. Wanted(d)[1] \in Kinds /\ Wanted(d)[2] \in Names
  BY WantedFacts
<1>2. Matches(Wanted(d)[1], Wanted(d)[2]) # {}
  BY <1>1, MatchFacts DEF Hit
<1> QED BY <1>1, <1>2, MatchesByKey DEF Known, KeyWanted

LEMMA WantedKept ==
  ASSUME NEW d, work'[d].todo = work[d].todo
  PROVE  /\ Wanted(d)' = Wanted(d) /\ KeyWanted(d)' = KeyWanted(d)
         /\ \A kind, key : Wants(d, kind, key)' <=> Wants(d, kind, key)
BY DEF Wanted, KeyWanted, Wants

\* The items are what they were, or the user deleted them.
ItemsStay == \A i \in DOMAIN items : i \in DOMAIN items' /\ items'[i] \in {items[i], Gone}

LEMMA CacheStillFits == ClassifyTyped /\ CacheFits /\ cache' = cache /\ ItemsStay => CacheFits'
<1> SUFFICES ASSUME ClassifyTyped, CacheFits, cache' = cache, ItemsStay PROVE CacheFits'
  OBVIOUS
<1>1. \A kind \in Kinds : \A e \in cache[kind] : e.id \in DOMAIN items
  BY DEF ClassifyTyped, Entries
<1> QED BY <1>1 DEF CacheFits, ItemsStay

\* Rivals stay rivals only while both create what they did.
LEMMA RivalsStill ==
  ASSUME RivalsAreBlind, blind \subseteq blind',
         \A d \in Docs : Creating(d)' => Creating(d) /\ work'[d].todo = work[d].todo
  PROVE  RivalsAreBlind'
<1> SUFFICES ASSUME NEW d \in Docs, NEW e \in Docs, Creating(d)', (e \in Rivals(d))'
             PROVE  (<<Wanted(d)[1], KeyWanted(d)>> \in blind)'
  BY DEF RivalsAreBlind
<1>1. /\ e \in Docs \ {d} /\ Creating(e)'
      /\ Wanted(e)'[1] = Wanted(d)'[1] /\ KeyWanted(e)' = KeyWanted(d)'
  BY DEF Rivals
<1>2. /\ Wanted(e)' = Wanted(e) /\ Wanted(d)' = Wanted(d)
      /\ KeyWanted(e)' = KeyWanted(e) /\ KeyWanted(d)' = KeyWanted(d)
  BY <1>1, WantedKept
<1>3. Creating(d) /\ e \in Rivals(d)
  BY <1>1, <1>2 DEF Rivals
<1>4. <<Wanted(d)[1], KeyWanted(d)>> \in blind'
  BY <1>3 DEF RivalsAreBlind
<1> QED BY <1>2, <1>4

\* A step that adds nothing to the cache and nothing to the taxonomy.
LEMMA CalmKeeps ==
  ASSUME ClassifyTyped, OneTaxonomy, UNCHANGED <<case, items, cache, polls>>, blind \subseteq blind', GivenHolds',
         \A d \in Docs : Creating(d)' => work'[d] = work[d],
         \A d \in Docs : Owes(d) => \/ work'[d] = work[d] \/ Known(Wanted(d)[1], KeyWanted(d))
                                    \/ <<Wanted(d)[1], KeyWanted(d)>> \in blind'
  PROVE  OneTaxonomy'
<1> USE DEF OneTaxonomy
<1>1. CacheFits'
  BY CacheStillFits DEF ItemsStay
<1>2. \A d \in Docs : Creating(d)' => Creating(d) /\ Wanted(d)' = Wanted(d) /\ KeyWanted(d)' = KeyWanted(d)
  BY DEF Creating, Wanted, KeyWanted
<1>3. CreatedFits'
  <2> SUFFICES ASSUME NEW d \in Docs, At(d, "insert")'
               PROVE  (/\ work[d].created \in DOMAIN items
                       /\ items[work[d].created] \in {Gone, [kind |-> Wanted(d)[1], name |-> Wanted(d)[2]]})'
    BY DEF CreatedFits
  <2>1. Creating(d)' /\ work'[d] = work[d] /\ At(d, "insert")
    BY DEF At, Creating
  <2> QED BY <1>2, <2>1 DEF CreatedFits
<1>4. RivalsAreBlind'
  BY <1>2, RivalsStill
<1>5. ItemsAreKnown'
  <2> SUFFICES ASSUME polls > 0, NEW i \in DOMAIN items, items[i] # Gone
               PROVE  IsKnown(items[i].kind, Key(items[i].kind, items[i].name))'
    BY DEF ItemsAreKnown
  <2> DEFINE kind == items[i].kind
             key == Key(kind, items[i].name)
  <2>1. IsKnown(kind, key)
    BY DEF ItemsAreKnown
  <2>2. CASE Known(kind, key)
    BY <2>2, KnownKept DEF IsKnown
  <2>3. CASE <<kind, key>> \in blind
    BY <2>3 DEF IsKnown
  <2>4. ASSUME NEW d \in Docs, Owes(d), Wants(d, kind, key) PROVE IsKnown(kind, key)'
    <3>1. CASE work'[d] = work[d]
      <4>1. Owes(d)' /\ Wants(d, kind, key)'
        BY <2>4, <3>1, WantedKept DEF Owes, At
      <4> HIDE DEF kind, key
      <4> QED BY <4>1 DEF IsKnown
    <3>2. CASE Known(Wanted(d)[1], KeyWanted(d))
      <4>1. Known(kind, key)
        BY <2>4, <3>2 DEF Wants
      <4> QED BY <4>1, KnownKept DEF IsKnown
    <3>3. CASE <<Wanted(d)[1], KeyWanted(d)>> \in blind'
      BY <2>4, <3>3 DEF Wants, IsKnown
    <3> QED BY <2>4, <3>1, <3>2, <3>3
  <2>5. Known(kind, key) \/ <<kind, key>> \in blind \/ \E d \in Docs : Owes(d) /\ Wants(d, kind, key)
    BY <2>1 DEF IsKnown
  <2> QED BY <2>2, <2>3, <2>4, <2>5
<1>6. FirstOfItsName'
  <2> SUFFICES ASSUME NEW d \in Docs, At(d, "create")', NEW i \in DOMAIN items,
                      items[i] # Gone, Wants(d, items[i].kind, Key(items[i].kind, items[i].name))'
               PROVE  (<<Wanted(d)[1], KeyWanted(d)>> \in blind)'
    BY DEF FirstOfItsName
  <2>1. At(d, "create") /\ work'[d] = work[d]
    BY DEF At, Creating
  <2>2. /\ Wants(d, items[i].kind, Key(items[i].kind, items[i].name))
        /\ Wanted(d)' = Wanted(d) /\ KeyWanted(d)' = KeyWanted(d)
    BY <2>1, WantedKept DEF Wants
  <2>3. <<Wanted(d)[1], KeyWanted(d)>> \in blind
    BY <2>1, <2>2 DEF FirstOfItsName
  <2> QED BY <2>2, <2>3
<1>7. TwinsNeedARace'
  BY DEF TwinsNeedARace
<1> QED BY <1>1, <1>3, <1>4, <1>5, <1>6, <1>7

\* A refresh makes every item known.
LEMMA RefreshKeeps ==
  ASSUME ClassifyTyped, OneTaxonomy, Refreshed, UNCHANGED <<case, items, blind>>,
         \A d \in Docs : Creating(d)' => Creating(d) /\ work'[d].todo = work[d].todo,
         \A d \in Docs : At(d, "create")' \/ At(d, "insert")' => work'[d] = work[d]
  PROVE  OneTaxonomy'
<1> USE DEF OneTaxonomy
<1>1. cache' = [kind \in Kinds |-> Indexed(kind)] /\ given' = {}
  BY DEF Refreshed
<1>2. CacheFits'
  BY <1>1, IndexedFacts DEF CacheFits
<1>3. CreatedFits'
  <2> SUFFICES ASSUME NEW d \in Docs, At(d, "insert")'
               PROVE  (/\ work[d].created \in DOMAIN items
                       /\ items[work[d].created] \in {Gone, [kind |-> Wanted(d)[1], name |-> Wanted(d)[2]]})'
    BY DEF CreatedFits
  <2>1. work'[d] = work[d] /\ At(d, "insert")
    BY DEF At
  <2>2. Wanted(d)' = Wanted(d)
    BY <2>1, WantedKept
  <2> QED BY <2>1, <2>2 DEF CreatedFits
<1>4. GivenHolds'
  BY <1>1 DEF GivenHolds
<1>5. RivalsAreBlind'
  BY RivalsStill
<1>6. ASSUME NEW i \in DOMAIN items, items[i] # Gone
      PROVE  Known(items[i].kind, Key(items[i].kind, items[i].name))'
  <2>1. items[i].kind \in Kinds
    BY <1>6, ItemFacts
  <2>2. PICK e \in Indexed(items[i].kind) : e.key = Key(items[i].kind, items[i].name)
    BY <2>1, IndexedFacts
  <2>3. e \in cache'[items[i].kind]
    BY <1>1, <2>1, <2>2
  <2>4. ASSUME NEW n \in Names, Key(items[i].kind, n) = Key(items[i].kind, items[i].name)
        PROVE  Matches(items[i].kind, n)' # {}
    BY <2>2, <2>3, <2>4 DEF Matches
  <2> QED BY <2>4 DEF Known
<1>7. ItemsAreKnown'
  BY <1>6 DEF ItemsAreKnown, IsKnown
<1>8. FirstOfItsName'
  <2> SUFFICES ASSUME NEW d \in Docs, At(d, "create")', NEW i \in DOMAIN items,
                      items[i] # Gone, Wants(d, items[i].kind, Key(items[i].kind, items[i].name))'
               PROVE  (<<Wanted(d)[1], KeyWanted(d)>> \in blind)'
    BY DEF FirstOfItsName
  <2>1. At(d, "create") /\ work'[d] = work[d]
    BY DEF At
  <2>2. /\ Wants(d, items[i].kind, Key(items[i].kind, items[i].name))
        /\ Wanted(d)' = Wanted(d) /\ KeyWanted(d)' = KeyWanted(d)
    BY <2>1, WantedKept DEF Wants
  <2>3. <<Wanted(d)[1], KeyWanted(d)>> \in blind
    BY <2>1, <2>2 DEF FirstOfItsName
  <2> QED BY <2>2, <2>3
<1>9. TwinsNeedARace'
  BY DEF TwinsNeedARace
<1> QED BY <1>2, <1>3, <1>4, <1>5, <1>7, <1>8, <1>9

LEMMA MatchByKey ==
  ASSUME NEW kind \in Kinds, NEW n \in Names, NEW m \in Names, Key(kind, n) = Key(kind, m)
  PROVE  Match(kind, n) = Match(kind, m)
<1>1. Matches(kind, n) = Matches(kind, m)
  BY MatchesByKey
<1> QED BY <1>1 DEF Match

LEMMA GivenKept == GivenHolds /\ UNCHANGED <<cache, given>> => GivenHolds'
<1> SUFFICES ASSUME GivenHolds, UNCHANGED <<cache, given>> PROVE GivenHolds'
  OBVIOUS
<1>1. \A kind, n : Match(kind, n)' = Match(kind, n)
  BY MatchKept
<1> QED BY <1>1 DEF GivenHolds

LEMMA GivenByHit ==
  ASSUME ClassifyTyped, CacheFits, GivenHolds, cache' = cache, NEW d \in Docs, work[d].at \in Asks, Hit(d) # NoItem,
         given' = given \cup {<<Wanted(d)[1], KeyWanted(d), Hit(d)>>}
  PROVE  GivenHolds'
<1>1. Wanted(d)[1] \in Kinds /\ Wanted(d)[2] \in Names /\ KeyWanted(d) = Key(Wanted(d)[1], Wanted(d)[2])
  BY WantedFacts DEF KeyWanted
<1>2. \A kind, n : Match(kind, n)' = Match(kind, n)
  BY MatchKept
<1>3. ASSUME NEW n \in Names, Key(Wanted(d)[1], n) = KeyWanted(d)
      PROVE  Match(Wanted(d)[1], n) = Hit(d)
  BY <1>1, <1>3, MatchByKey DEF Hit
<1>4. ASSUME NEW x \in given'
      PROVE  /\ x[1] \in Kinds /\ \E n \in Names : Key(x[1], n) = x[2]
             /\ \A n \in Names : Key(x[1], n) = x[2] => x[3] # NoItem /\ Match(x[1], n) = x[3]
  <2>1. CASE x \in given
    BY <2>1 DEF GivenHolds
  <2>2. CASE x \notin given
    <3>1. x = <<Wanted(d)[1], KeyWanted(d), Hit(d)>>
      BY <1>4, <2>2
    <3>2. x[1] = Wanted(d)[1] /\ x[2] = KeyWanted(d) /\ x[3] = Hit(d)
      BY <3>1
    <3> QED BY <1>1, <1>3, <3>2
  <2> QED BY <2>1, <2>2
<1> QED BY <1>2, <1>4 DEF GivenHolds

\* The first of a set whose places differ.
LEMMA FirstChosen ==
  ASSUME NEW S, NEW e \in S, \A f \in S : e.place <= f.place /\ (f.place <= e.place => f = e)
  PROVE  (CHOOSE c \in S : \A f \in S : c.place <= f.place) = e
<1> DEFINE First(c) == \A f \in S : c.place <= f.place
<1>1. First(e)
  OBVIOUS
<1>2. \E c \in S : First(c)
  BY <1>1
<1>3. (CHOOSE c \in S : First(c)) \in S /\ First(CHOOSE c \in S : First(c))
  <2> HIDE DEF First
  <2> QED BY <1>2, Zenon
<1>4. \A c \in S : First(c) => c.place <= e.place
  OBVIOUS
<1>5. (CHOOSE c \in S : First(c)) = e
  <2> HIDE DEF First
  <2> QED BY <1>3, <1>4, Zenon
<1> QED BY <1>5

\* What a name finds when an entry was added for a key nothing was found for.
LEMMA EntryAdded ==
  ASSUME ClassifyTyped, CacheFits, NEW d \in Docs, At(d, "insert"), work[d].created \in DOMAIN items, Hit(d) = NoItem,
         cache' = [cache EXCEPT ![Wanted(d)[1]] = @ \cup {Entry(d)}],
         NEW kind \in Kinds, NEW n \in Names
  PROVE  /\ Matches(kind, n) # {} => Matches(kind, n)' # {} /\ Match(kind, n)' = Match(kind, n)
         /\ kind = Wanted(d)[1] /\ Key(kind, n) = KeyWanted(d) =>
              Matches(kind, n) = {} /\ Matches(kind, n)' # {} /\ Match(kind, n)' = work[d].created
<1> DEFINE new == Entry(d)
           exact == {e \in cache[kind] : e.key = Key(kind, n)}
           exact2 == {e \in cache'[kind] : e.key = Key(kind, n)}
<1>1. /\ Wanted(d)[1] \in Kinds /\ Wanted(d)[2] \in Names /\ KeyWanted(d) = Key(Wanted(d)[1], Wanted(d)[2])
      /\ work[d].at \in Asks
  BY WantedFacts DEF KeyWanted, At, Asks
<1>2. Matches(Wanted(d)[1], Wanted(d)[2]) = {}
  BY <1>1, MatchFacts DEF Hit
<1>3. /\ new.key = KeyWanted(d) /\ new.id = work[d].created /\ new.place \in Nat
      /\ \A e \in cache[Wanted(d)[1]] : e.place < new.place
  BY EntryFacts DEF Entries
<1>4. cache'[kind] = IF kind = Wanted(d)[1] THEN cache[kind] \cup {new} ELSE cache[kind]
  BY TypesAre
<1>5. \A e \in cache[kind] : e.place \in Nat
  BY TypesAre DEF Entries
<1> HIDE DEF new
<1>6. CASE kind = Wanted(d)[1] /\ Key(kind, n) = KeyWanted(d)
  <2>1. Matches(kind, n) = {}
    BY <1>1, <1>2, <1>6, MatchesByKey
  <2>2. exact = {}
    BY <2>1 DEF Matches
  <2>3. exact2 = {new}
    BY <1>3, <1>4, <1>6, <2>2
  <2>4. Matches(kind, n)' = {new}
    BY <2>3 DEF Matches
  <2>5. Match(kind, n)' = new.id
    <3>1. (CHOOSE c \in {new} : \A f \in {new} : c.place <= f.place) = new
      <4>1. \A f \in {new} : new.place <= f.place /\ (f.place <= new.place => f = new)
        BY <1>3
      <4> QED BY <4>1, FirstChosen
    <3> QED BY <2>4, <3>1 DEF Match
  <2> QED BY <1>3, <2>1, <2>4, <2>5
<1>7. CASE ~(kind = Wanted(d)[1] /\ Key(kind, n) = KeyWanted(d))
  <2> SUFFICES ASSUME Matches(kind, n) # {} PROVE Matches(kind, n)' # {} /\ Match(kind, n)' = Match(kind, n)
    BY <1>7
  <2>1. exact2 = exact
    BY <1>3, <1>4, <1>7
  <2>2. Matches(kind, n) \subseteq cache[kind]
    BY DEF Matches
  <2>3. PICK e \in Matches(kind, n) : Match(kind, n) = e.id /\ \A f \in Matches(kind, n) : e.place <= f.place
    BY MatchFacts
  <2>4. \/ Matches(kind, n)' = Matches(kind, n)
        \/ Matches(kind, n)' = Matches(kind, n) \cup {new} /\ kind = Wanted(d)[1]
    <3>1. CASE exact # {} \/ kind # "correspondent" \/ Org(n) = NoName
      <4>1. Matches(kind, n) = exact
        BY <3>1 DEF Matches
      <4>2. Matches(kind, n)' = exact2
        BY <2>1, <3>1 DEF Matches
      <4> HIDE DEF exact, exact2
      <4> QED BY <2>1, <4>1, <4>2
    <3>2. CASE ~(exact # {} \/ kind # "correspondent" \/ Org(n) = NoName)
      <4>1. Matches(kind, n) = {f \in cache[kind] : Part(Org(n), f.key) \/ Part(f.key, Org(n))}
        BY <3>2 DEF Matches
      <4>2. Matches(kind, n)' = {f \in cache'[kind] : Part(Org(n), f.key) \/ Part(f.key, Org(n))}
        BY <2>1, <3>2 DEF Matches
      <4> HIDE DEF exact, exact2
      <4>3. CASE kind # Wanted(d)[1]
        <5>1. cache'[kind] = cache[kind]
          BY <1>4, <4>3
        <5> QED BY <4>1, <4>2, <5>1
      <4>4. CASE kind = Wanted(d)[1]
        <5>1. cache'[kind] = cache[kind] \cup {new}
          BY <1>4, <4>4
        <5> QED BY <4>1, <4>2, <4>4, <5>1
      <4> QED BY <4>3, <4>4
    <3> QED BY <3>1, <3>2
  <2>5. ASSUME NEW f \in Matches(kind, n)' PROVE e.place <= f.place /\ (f.place <= e.place => f = e)
    <3>1. CASE f \in Matches(kind, n)
      <4>1. e.place \in Nat /\ f.place \in Nat /\ e.place <= f.place /\ e \in cache[kind] /\ f \in cache[kind]
        BY <1>5, <2>2, <2>3, <3>1
      <4>2. f.place <= e.place => f.place = e.place
        BY <4>1
      <4> QED BY <4>1, <4>2 DEF CacheFits
    <3>2. CASE f \notin Matches(kind, n)
      <4>1. f = new /\ e.place < new.place /\ e.place \in Nat
        BY <1>3, <1>5, <2>2, <2>3, <2>4, <2>5, <3>2
      <4>2. e.place <= new.place /\ ~(new.place <= e.place)
        BY <1>3, <4>1
      <4> QED BY <4>1, <4>2
    <3> QED BY <3>1, <3>2
  <2>6. e \in Matches(kind, n)'
    BY <2>4
  <2>7. (CHOOSE c \in Matches(kind, n)' : \A f \in Matches(kind, n)' : c.place <= f.place) = e
    BY <2>5, <2>6, FirstChosen
  <2>8. Match(kind, n)' = e.id
    BY <2>6, <2>7 DEF Match
  <2> QED BY <2>3, <2>6, <2>8
<1> QED BY <1>6, <1>7

\* What the steps of the taxonomy do to the threads.
LEMMA ResolveLeaves ==
  ASSUME ClassifyTyped, NEW d \in Docs, work[d].at \in Asks, NEW id \in DOMAIN items, Resolve(d, id)
  PROVE  /\ Others(d) /\ ~Creating(d)' /\ ~Owes(d)'
         /\ given' = given \cup {<<Wanted(d)[1], KeyWanted(d), id>>}
         /\ \A e \in Docs : Creating(e)' => e # d /\ work'[e] = work[e] /\ Creating(e)
<1>1. Others(d) /\ work'[d].at \in {"look", "patch"}
  BY ResolveFacts
<1>2. ~Creating(d)' /\ ~Owes(d)'
  BY <1>1 DEF Creating, Owes, At
<1>3. given' = given \cup {<<Wanted(d)[1], KeyWanted(d), id>>}
  BY DEF Resolve
<1>4. ASSUME NEW e \in Docs, Creating(e)' PROVE e # d /\ work'[e] = work[e] /\ Creating(e)
  <2>1. e # d
    BY <1>2, <1>4
  <2> QED BY <1>1, <1>4, <2>1 DEF Others, Creating
<1> QED BY <1>1, <1>2, <1>3, <1>4

LEMMA InsertMissKeeps ==
  ASSUME ClassifyTyped, OneTaxonomy, NEW d \in Docs, Insert(d), Hit(d) = NoItem
  PROVE  OneTaxonomy'
<1> USE DEF OneTaxonomy
<1> DEFINE kind == Wanted(d)[1]
           key == KeyWanted(d)
           new == Entry(d)
<1>1. /\ At(d, "insert") /\ work[d].at \in Asks /\ work[d].created \in DOMAIN items
      /\ items[work[d].created] \in {Gone, [kind |-> Wanted(d)[1], name |-> Wanted(d)[2]]}
      /\ kind \in Kinds /\ Wanted(d)[2] \in Names /\ key = Key(kind, Wanted(d)[2])
  <2>1. At(d, "insert")
    BY DEF Insert
  <2> QED BY <2>1, WantedFacts DEF CreatedFits, At, Asks, KeyWanted
<1>2. /\ UNCHANGED <<case, items, polls, blind>> /\ Resolve(d, work[d].created)
      /\ cache' = [cache EXCEPT ![Wanted(d)[1]] = @ \cup {Entry(d)}]
  BY DEF Insert, paperless, budget
<1>3. /\ Others(d) /\ ~Creating(d)' /\ ~Owes(d)'
      /\ given' = given \cup {<<kind, key, work[d].created>>}
      /\ \A e \in Docs : Creating(e)' => e # d /\ work'[e] = work[e] /\ Creating(e)
  BY <1>1, <1>2, ResolveLeaves
<1>4. /\ new.key = key /\ new.id = work[d].created /\ new.place \in Nat
      /\ \A e \in cache[kind] : e.place < new.place
  BY <1>1, EntryFacts DEF Entries
<1>5. ASSUME NEW k \in Kinds, NEW n \in Names
      PROVE  /\ Matches(k, n) # {} => Matches(k, n)' # {} /\ Match(k, n)' = Match(k, n)
             /\ k = kind /\ Key(k, n) = key =>
                  Matches(k, n) = {} /\ Matches(k, n)' # {} /\ Match(k, n)' = work[d].created
  BY <1>1, <1>2, EntryAdded
<1>6. \A k \in Kinds : cache'[k] = IF k = kind THEN cache[k] \cup {new} ELSE cache[k]
  BY <1>2, TypesAre
<1>7. CacheFits'
  <2>1. \A e \in cache[kind] : e.key # key
    <3>1. Matches(kind, Wanted(d)[2]) = {}
      BY <1>1, <1>5
    <3> QED BY <1>1, <3>1 DEF Matches
  <2>2. ASSUME NEW e \in cache[kind] PROVE e.key # new.key /\ e.place # new.place
    <3>1. e.place < new.place /\ e.place \in Nat
      BY <1>1, <1>4, TypesAre DEF Entries
    <3> QED BY <1>4, <2>1, <3>1
  <2>3. items[new.id] # Gone => items[new.id].kind = kind /\ Key(kind, items[new.id].name) = new.key
    BY <1>1, <1>4
  <2> HIDE DEF kind, key, new
  <2>4. ASSUME NEW k \in Kinds, NEW e \in cache'[k], NEW f \in cache'[k], e.key = f.key \/ e.place = f.place PROVE e = f
    <3>1. CASE e \in cache[k] /\ f \in cache[k]
      BY <2>4, <3>1 DEF CacheFits
    <3>2. CASE k = kind /\ e = new
      BY <1>6, <2>2, <2>4, <3>2
    <3>3. CASE k = kind /\ f = new
      BY <1>6, <2>2, <2>4, <3>3
    <3>4. \/ e \in cache[k] /\ f \in cache[k]
          \/ k = kind /\ e = new
          \/ k = kind /\ f = new
      BY <1>6, <2>4
    <3> QED BY <3>1, <3>2, <3>3, <3>4
  <2>5. ASSUME NEW k \in Kinds, NEW e \in cache'[k], items[e.id] # Gone
        PROVE  items[e.id].kind = k /\ Key(k, items[e.id].name) = e.key
    <3>1. CASE e \in cache[k]
      BY <2>5, <3>1 DEF CacheFits
    <3>2. CASE e \notin cache[k]
      <4>1. e = new /\ k = kind
        BY <1>6, <2>5, <3>2
      <4> QED BY <2>3, <2>5, <4>1
    <3> QED BY <3>1, <3>2
  <2> QED BY <1>2, <2>4, <2>5 DEF CacheFits
<1>8. CreatedFits'
  <2> SUFFICES ASSUME NEW e \in Docs, At(e, "insert")'
               PROVE  (/\ work[e].created \in DOMAIN items
                       /\ items[work[e].created] \in {Gone, [kind |-> Wanted(e)[1], name |-> Wanted(e)[2]]})'
    BY DEF CreatedFits
  <2>1. Creating(e)'
    BY DEF At, Creating
  <2>2. work'[e] = work[e] /\ At(e, "insert")
    BY <1>3, <2>1 DEF At
  <2>3. Wanted(e)' = Wanted(e)
    BY <2>2, WantedKept
  <2> QED BY <1>2, <2>2, <2>3 DEF CreatedFits
<1>9. GivenHolds'
  <2>1. ASSUME NEW x \in given'
        PROVE  /\ x[1] \in Kinds /\ \E n \in Names : Key(x[1], n) = x[2]
               /\ \A n \in Names : Key(x[1], n) = x[2] => x[3] # NoItem /\ Match(x[1], n)' = x[3]
    <3>1. CASE x \in given
      <4>1. /\ x[1] \in Kinds /\ \E n \in Names : Key(x[1], n) = x[2]
            /\ \A n \in Names : Key(x[1], n) = x[2] => x[3] # NoItem /\ Match(x[1], n) = x[3]
        BY <3>1 DEF GivenHolds
      <4>2. ASSUME NEW n \in Names, Key(x[1], n) = x[2] PROVE Match(x[1], n)' = Match(x[1], n)
        <5>1. Matches(x[1], n) # {}
          BY <4>1, <4>2, MatchFacts
        <5> QED BY <1>5, <4>1, <5>1
      <4> QED BY <4>1, <4>2
    <3>2. CASE x \notin given
      <4>1. x = <<kind, key, work[d].created>>
        BY <1>3, <2>1, <3>2
      <4>2. x[1] = kind /\ x[2] = key /\ x[3] = work[d].created
        BY <4>1
      <4>3. work[d].created # NoItem
        BY <1>1, ItemFacts
      <4> HIDE DEF kind, key
      <4> QED BY <1>1, <1>5, <4>2, <4>3
    <3> QED BY <3>1, <3>2
  <2> QED BY <2>1 DEF GivenHolds
<1>10. RivalsAreBlind'
  <2>1. \A e \in Docs : Creating(e)' => Creating(e) /\ work'[e].todo = work[e].todo
    BY <1>3
  <2> QED BY <1>2, <2>1, RivalsStill
<1>11. ASSUME NEW k \in Kinds, NEW its, IsKnown(k, its) PROVE IsKnown(k, its)'
  <2>1. CASE Known(k, its)
    <3>1. ASSUME NEW n \in Names, Key(k, n) = its PROVE Matches(k, n)' # {}
      <4>1. Matches(k, n) # {}
        BY <2>1, <3>1 DEF Known
      <4> QED BY <1>5, <4>1
    <3> QED BY <3>1 DEF Known, IsKnown
  <2>2. CASE <<k, its>> \in blind
    BY <1>2, <2>2 DEF IsKnown
  <2>3. ASSUME NEW e \in Docs, Owes(e), Wants(e, k, its) PROVE IsKnown(k, its)'
    <3>1. CASE e = d
      <4>1. k = kind /\ its = key
        BY <2>3, <3>1 DEF Wants
      <4>2. ASSUME NEW n \in Names, Key(k, n) = its PROVE Matches(k, n)' # {}
        <5> HIDE DEF kind, key
        <5> QED BY <1>5, <4>1, <4>2
      <4> QED BY <4>2 DEF Known, IsKnown
    <3>2. CASE e # d
      <4>1. work'[e] = work[e]
        BY <1>3, <3>2 DEF Others
      <4>2. Owes(e)' /\ Wants(e, k, its)'
        BY <2>3, <4>1, WantedKept DEF Owes, At
      <4> QED BY <4>2 DEF IsKnown
    <3> QED BY <3>1, <3>2
  <2>4. Known(k, its) \/ <<k, its>> \in blind \/ \E e \in Docs : Owes(e) /\ Wants(e, k, its)
    BY <1>11 DEF IsKnown
  <2> QED BY <2>1, <2>2, <2>3, <2>4
<1>14. ItemsAreKnown'
  <2> SUFFICES ASSUME polls > 0, NEW i \in DOMAIN items, items[i] # Gone
               PROVE  IsKnown(items[i].kind, Key(items[i].kind, items[i].name))'
    BY <1>2 DEF ItemsAreKnown
  <2>1. IsKnown(items[i].kind, Key(items[i].kind, items[i].name)) /\ items[i].kind \in Kinds
    BY ItemFacts DEF ItemsAreKnown
  <2> QED BY <1>2, <1>11, <2>1
<1>12. FirstOfItsName'
  <2> SUFFICES ASSUME NEW e \in Docs, At(e, "create")', NEW i \in DOMAIN items,
                      items[i] # Gone, Wants(e, items[i].kind, Key(items[i].kind, items[i].name))'
               PROVE  (<<Wanted(e)[1], KeyWanted(e)>> \in blind)'
    BY <1>2 DEF FirstOfItsName
  <2>1. Creating(e)'
    BY DEF At, Creating
  <2>2. At(e, "create") /\ work'[e] = work[e]
    BY <1>3, <2>1 DEF At
  <2>3. /\ Wants(e, items[i].kind, Key(items[i].kind, items[i].name))
        /\ Wanted(e)' = Wanted(e) /\ KeyWanted(e)' = KeyWanted(e)
    BY <1>2, <2>2, WantedKept DEF Wants
  <2>4. <<Wanted(e)[1], KeyWanted(e)>> \in blind
    BY <2>2, <2>3 DEF FirstOfItsName
  <2> QED BY <1>2, <2>3, <2>4
<1>13. TwinsNeedARace'
  BY <1>2 DEF TwinsNeedARace
<1> QED BY <1>7, <1>8, <1>9, <1>10, <1>12, <1>13, <1>14

\* A name nobody knows: whoever else is creating it is a rival.
LEMMA LookUpMissKeeps ==
  ASSUME ClassifyTyped, WorkFollowsAPoll, OneTaxonomy, NEW d \in Docs, LookUp(d), Hit(d) = NoItem
  PROVE  OneTaxonomy'
<1> USE DEF OneTaxonomy
<1> DEFINE wanted == <<Wanted(d)[1], KeyWanted(d)>>
<1>1. /\ UNCHANGED <<case, items, cache, polls, given>> /\ Goto(d, "create")
      /\ blind' = IF Rivals(d) = {} THEN blind ELSE blind \cup {<<Wanted(d)[1], KeyWanted(d)>>}
      /\ At(d, "look")
  BY DEF LookUp, paperless, budget
<1>2. work[d].at \in Asks /\ ~Creating(d) /\ ~Owes(d) /\ polls > 0
  <2>1. polls # 0
    BY <1>1 DEF WorkFollowsAPoll, At
  <2>2. case.polls \in Nat /\ polls \in 0 .. case.polls
    BY CasesAssumption DEF ClassifyTyped
  <2>3. polls > 0
    BY <2>1, <2>2
  <2> QED BY <1>1, <2>3 DEF At, Asks, Creating, Owes
<1>3. Others(d) /\ work'[d].at = "create" /\ work'[d].todo = work[d].todo
  <2>1. "create" \in Steps
    BY DEF Steps
  <2> QED BY <1>1, <2>1, GotoFacts
<1>4. /\ \A e \in Docs : Wanted(e)' = Wanted(e) /\ KeyWanted(e)' = KeyWanted(e)
      /\ \A e \in Docs : e # d => (Creating(e)' <=> Creating(e)) /\ (Owes(e)' <=> Owes(e)) /\ work'[e] = work[e]
  <2>1. \A e \in Docs : work'[e].todo = work[e].todo
    BY <1>3 DEF Others
  <2>2. ASSUME NEW e \in Docs, e # d
        PROVE  (Creating(e)' <=> Creating(e)) /\ (Owes(e)' <=> Owes(e)) /\ work'[e] = work[e]
    BY <1>3, <2>2 DEF Others, Creating, Owes, At
  <2> QED BY <2>1, <2>2, WantedKept
<1>5. CacheFits'
  BY <1>1, CacheStillFits DEF ItemsStay
<1>6. CreatedFits'
  <2> SUFFICES ASSUME NEW e \in Docs, At(e, "insert")'
               PROVE  (/\ work[e].created \in DOMAIN items
                       /\ items[work[e].created] \in {Gone, [kind |-> Wanted(e)[1], name |-> Wanted(e)[2]]})'
    BY DEF CreatedFits
  <2>1. e # d
    BY <1>3 DEF At
  <2>2. At(e, "insert") /\ work'[e] = work[e] /\ Wanted(e)' = Wanted(e)
    BY <1>4, <2>1 DEF At
  <2> QED BY <1>1, <2>2 DEF CreatedFits
<1>7. GivenHolds'
  BY <1>1, GivenKept
<1>8. blind \subseteq blind' /\ (Rivals(d) # {} => wanted \in blind')
  BY <1>1
<1>9. RivalsAreBlind'
  <2> SUFFICES ASSUME NEW e \in Docs, NEW f \in Docs, Creating(e)', (f \in Rivals(e))'
               PROVE  (<<Wanted(e)[1], KeyWanted(e)>> \in blind)'
    BY DEF RivalsAreBlind
  <2>1. f \in Docs \ {e} /\ Creating(f)' /\ Wanted(f)[1] = Wanted(e)[1] /\ KeyWanted(f) = KeyWanted(e)
    BY <1>4 DEF Rivals
  <2>2. CASE e = d
    <3>1. f \in Rivals(d)
      BY <1>4, <2>1, <2>2 DEF Rivals
    <3> QED BY <1>4, <1>8, <2>2, <3>1
  <2>3. CASE f = d
    <3>1. e \in Rivals(d)
      BY <1>4, <2>1, <2>3 DEF Rivals
    <3>2. wanted = <<Wanted(e)[1], KeyWanted(e)>>
      BY <2>1, <2>3
    <3>3. <<Wanted(e)[1], KeyWanted(e)>> \in blind'
      BY <1>8, <3>1, <3>2
    <3> QED BY <1>4, <3>3
  <2>4. CASE e # d /\ f # d
    <3>1. Creating(e) /\ f \in Rivals(e)
      BY <1>4, <2>1, <2>4 DEF Rivals
    <3>2. <<Wanted(e)[1], KeyWanted(e)>> \in blind'
      BY <1>8, <3>1 DEF RivalsAreBlind
    <3> QED BY <1>4, <3>2
  <2> QED BY <2>2, <2>3, <2>4
<1>10. ASSUME NEW kind, NEW key, IsKnown(kind, key) PROVE IsKnown(kind, key)'
  <2>1. Known(kind, key) \/ <<kind, key>> \in blind \/ \E e \in Docs : Owes(e) /\ Wants(e, kind, key)
    BY <1>10 DEF IsKnown
  <2>2. \A e \in Docs : Owes(e) /\ Wants(e, kind, key) => Owes(e)' /\ Wants(e, kind, key)'
    BY <1>2, <1>4 DEF Wants
  <2>3. Known(kind, key)' <=> Known(kind, key)
    BY <1>1, KnownKept
  <2> QED BY <1>8, <2>1, <2>2, <2>3 DEF IsKnown
<1>11. ItemsAreKnown'
  <2> SUFFICES ASSUME NEW i \in DOMAIN items, items[i] # Gone
               PROVE  IsKnown(items[i].kind, Key(items[i].kind, items[i].name))'
    BY <1>1 DEF ItemsAreKnown
  <2>1. IsKnown(items[i].kind, Key(items[i].kind, items[i].name))
    BY <1>2 DEF ItemsAreKnown
  <2> QED BY <1>1, <1>10, <2>1
<1>12. FirstOfItsName'
  <2> SUFFICES ASSUME NEW e \in Docs, At(e, "create")', NEW i \in DOMAIN items,
                      items[i] # Gone, Wants(e, items[i].kind, Key(items[i].kind, items[i].name))'
               PROVE  (<<Wanted(e)[1], KeyWanted(e)>> \in blind)'
    BY <1>1 DEF FirstOfItsName
  <2>1. Wants(e, items[i].kind, Key(items[i].kind, items[i].name))
    BY <1>1, <1>4 DEF Wants
  <2>2. CASE e # d
    <3>1. At(e, "create")
      BY <1>4, <2>2 DEF At
    <3>2. <<Wanted(e)[1], KeyWanted(e)>> \in blind
      BY <2>1, <3>1 DEF FirstOfItsName
    <3> QED BY <1>4, <1>8, <3>2
  <2>3. CASE e = d
    <3>1. IsKnown(Wanted(d)[1], KeyWanted(d))
      <4>1. IsKnown(items[i].kind, Key(items[i].kind, items[i].name))
        BY <1>2 DEF ItemsAreKnown
      <4>2. items[i].kind = Wanted(d)[1] /\ Key(items[i].kind, items[i].name) = KeyWanted(d)
        BY <2>1, <2>3 DEF Wants
      <4> QED BY <4>1, <4>2
    <3>2. ~Known(Wanted(d)[1], KeyWanted(d))
      <4>1. Matches(Wanted(d)[1], Wanted(d)[2]) = {} /\ Wanted(d)[2] \in Names
        BY <1>2, MatchFacts, WantedFacts DEF Hit
      <4> QED BY <4>1 DEF Known, KeyWanted
    <3>3. wanted \in blind \/ \E f \in Docs : Owes(f) /\ Wants(f, Wanted(d)[1], KeyWanted(d))
      BY <3>1, <3>2 DEF IsKnown
    <3>4. ASSUME NEW f \in Docs, Owes(f), Wants(f, Wanted(d)[1], KeyWanted(d)) PROVE f \in Rivals(d)
      BY <1>2, <3>4 DEF Rivals, Wants, Owes, Creating, At
    <3>5. wanted \in blind'
      BY <1>8, <3>3, <3>4
    <3> QED BY <1>4, <2>3, <3>5
  <2> QED BY <2>2, <2>3
<1>13. TwinsNeedARace'
  BY <1>1, <1>8 DEF TwinsNeedARace
<1> QED BY <1>5, <1>6, <1>7, <1>9, <1>11, <1>12, <1>13

LEMMA ItemsStayNext == ClassifyTyped /\ [ClassifyNext]_classifyVars => ItemsStay
<1> SUFFICES ASSUME ClassifyTyped, [ClassifyNext]_classifyVars PROVE ItemsStay
  OBVIOUS
<1>1. ASSUME NEW d \in Docs, Create(d), NewItem(d) PROVE ItemsStay
  <2>1. work[d].at \in Asks
    BY <1>1 DEF Create, At, Asks
  <2> DEFINE item == [kind |-> Wanted(d)[1], name |-> Wanted(d)[2]]
  <2>2. items' = Append(items, item) /\ item \in Item \cup {Gone}
    BY <1>1, <2>1, WantedFacts DEF NewItem
  <2> HIDE DEF item
  <2> QED BY <2>2, ItemsGrow DEF ItemsStay
<1>2. CASE DeleteItem
  <2>1. PICK i \in DOMAIN items : items' = [items EXCEPT ![i] = Gone]
    BY <1>2 DEF DeleteItem
  <2> QED BY <2>1, ItemDeleted DEF ItemsStay
<1>3. CASE items' = items
  BY <1>3 DEF ItemsStay
<1>4. items' = items \/ DeleteItem \/ \E d \in Docs : Create(d) /\ NewItem(d)
  BY Zenon DEF ClassifyNext, classifyVars, paperless, StartPoll, Fetch, TakeReply, NoReply, LookUp, Create, Recover, Rematch,
     Insert, Patch, EditField, RequestShutdown
<1> QED BY <1>1, <1>2, <1>3, <1>4

\* A creation that leaves the items alone.
LEMMA CreateFails ==
  ASSUME ClassifyTyped, OneTaxonomy, NEW d \in Docs, Create(d), items' = items
  PROVE  OneTaxonomy'
<1> USE DEF OneTaxonomy
<1>1. UNCHANGED <<case, items, cache, polls, given, blind>> /\ At(d, "create")
  BY DEF Create, history
<1>2. \E step \in {"recover", "rejected"} : Goto(d, step)
  <2>1. ~NewItem(d)
    <3>1. ASSUME NewItem(d) PROVE FALSE
      <4> DEFINE item == [kind |-> Wanted(d)[1], name |-> Wanted(d)[2]]
      <4>1. items' = Append(items, item) /\ item \in Item \cup {Gone}
        BY <1>1, <3>1, WantedFacts DEF NewItem, At, Asks
      <4> HIDE DEF item
      <4>2. Len(items') = Len(items) + 1 /\ Len(items) \in Nat
        BY <4>1, ItemsGrow
      <4> QED BY <4>2
    <3> QED BY <3>1
  <2> QED BY <2>1 DEF Create
<1>3. Others(d) /\ work'[d].at \in {"recover", "rejected"} /\ work'[d].todo = work[d].todo
  <2>1. "recover" \in Steps /\ "rejected" \in Steps
    BY DEF Steps
  <2> QED BY <1>2, <2>1, GotoFacts
<1>4. Creating(d) /\ ~Owes(d)
  BY <1>1 DEF At, Creating, Owes
<1>5. \A e \in Docs : e # d => work'[e] = work[e]
  BY <1>3 DEF Others
<1>6. \A e \in Docs : /\ work'[e].todo = work[e].todo /\ Wanted(e)' = Wanted(e) /\ KeyWanted(e)' = KeyWanted(e)
                      /\ At(e, "create")' \/ At(e, "insert")' => work'[e] = work[e]
                      /\ Creating(e)' => Creating(e)
                      /\ Owes(e) => Owes(e)'
  <2>1. \A e \in Docs : work'[e].todo = work[e].todo
    BY <1>3, <1>5
  <2>2. \A e \in Docs : Wanted(e)' = Wanted(e) /\ KeyWanted(e)' = KeyWanted(e)
    BY <2>1, WantedKept
  <2>3. ASSUME NEW e \in Docs
        PROVE  /\ At(e, "create")' \/ At(e, "insert")' => work'[e] = work[e]
               /\ Creating(e)' => Creating(e)
               /\ Owes(e) => Owes(e)'
    <3>1. CASE e = d
      BY <1>3, <1>4, <3>1 DEF At
    <3>2. CASE e # d
      BY <1>5, <3>2 DEF At, Creating, Owes
    <3> QED BY <3>1, <3>2
  <2> QED BY <2>1, <2>2, <2>3
<1>7. CacheFits' /\ GivenHolds' /\ TwinsNeedARace'
  BY <1>1, CacheStillFits, GivenKept DEF ItemsStay, TwinsNeedARace
<1>8. CreatedFits'
  <2> SUFFICES ASSUME NEW e \in Docs, At(e, "insert")'
               PROVE  (/\ work[e].created \in DOMAIN items
                       /\ items[work[e].created] \in {Gone, [kind |-> Wanted(e)[1], name |-> Wanted(e)[2]]})'
    BY DEF CreatedFits
  <2>1. At(e, "insert") /\ work'[e] = work[e] /\ Wanted(e)' = Wanted(e)
    BY <1>6 DEF At
  <2> QED BY <1>1, <2>1 DEF CreatedFits
<1>9. RivalsAreBlind'
  BY <1>1, <1>6, RivalsStill
<1>10. ASSUME NEW kind, NEW key, IsKnown(kind, key) PROVE IsKnown(kind, key)'
  <2>1. Known(kind, key) \/ <<kind, key>> \in blind \/ \E e \in Docs : Owes(e) /\ Wants(e, kind, key)
    BY <1>10 DEF IsKnown
  <2>2. \A e \in Docs : Owes(e) /\ Wants(e, kind, key) => Owes(e)' /\ Wants(e, kind, key)'
    BY <1>6 DEF Wants
  <2>3. Known(kind, key)' <=> Known(kind, key)
    BY <1>1, KnownKept
  <2> QED BY <1>1, <2>1, <2>2, <2>3 DEF IsKnown
<1>11. ItemsAreKnown'
  <2> SUFFICES ASSUME polls > 0, NEW i \in DOMAIN items, items[i] # Gone
               PROVE  IsKnown(items[i].kind, Key(items[i].kind, items[i].name))'
    BY <1>1 DEF ItemsAreKnown
  <2>1. IsKnown(items[i].kind, Key(items[i].kind, items[i].name))
    BY DEF ItemsAreKnown
  <2> QED BY <1>1, <1>10, <2>1
<1>12. FirstOfItsName'
  <2> SUFFICES ASSUME NEW e \in Docs, At(e, "create")', NEW i \in DOMAIN items,
                      items[i] # Gone, Wants(e, items[i].kind, Key(items[i].kind, items[i].name))'
               PROVE  (<<Wanted(e)[1], KeyWanted(e)>> \in blind)'
    BY <1>1 DEF FirstOfItsName
  <2>1. At(e, "create") /\ Wants(e, items[i].kind, Key(items[i].kind, items[i].name))
    BY <1>1, <1>6 DEF Wants, At
  <2>2. <<Wanted(e)[1], KeyWanted(e)>> \in blind
    BY <2>1 DEF FirstOfItsName
  <2> QED BY <1>1, <1>6, <2>2
<1> QED BY <1>7, <1>8, <1>9, <1>11, <1>12

\* An item comes into being: whoever creates one of its name is a rival.
LEMMA CreateGrows ==
  ASSUME ClassifyTyped, OneTaxonomy, NEW d \in Docs, Create(d), NewItem(d)
  PROVE  OneTaxonomy'
<1> USE DEF OneTaxonomy
<1> DEFINE item == [kind |-> Wanted(d)[1], name |-> Wanted(d)[2]]
           last == Len(items) + 1
           wanted == <<Wanted(d)[1], KeyWanted(d)>>
<1>1. UNCHANGED <<case, cache, polls, given, blind>> /\ At(d, "create") /\ work[d].at \in Asks
  BY DEF Create, history, At, Asks
<1>2. /\ item \in Item /\ items' = Append(items, item) /\ Key(item.kind, item.name) = KeyWanted(d)
      /\ item.kind = Wanted(d)[1] /\ item # Gone
  <2>1. item \in Item /\ items' = Append(items, item)
    BY <1>1, WantedFacts DEF NewItem
  <2> QED BY <2>1, GoneFacts DEF KeyWanted, Item
<1>3. /\ DOMAIN items' = DOMAIN items \cup {last} /\ \A i \in DOMAIN items : items'[i] = items[i]
      /\ items'[last] = item /\ DOMAIN items = 1 .. Len(items) /\ Len(items) \in Nat
  <2>1. items \in Seq(Item \cup {Gone})
    BY DEF ClassifyTyped
  <2> HIDE DEF item
  <2> QED BY <1>2, <2>1, ItemsGrow, LenProperties
<1>4. /\ Others(d) /\ work'[d].todo = work[d].todo
      /\ \/ work'[d].at = "insert" /\ work'[d].created = last
         \/ work'[d].at = "recover"
  <2>1. CASE Goto(d, "recover")
    <3>1. "recover" \in Steps
      BY DEF Steps
    <3> QED BY <2>1, <3>1, GotoFacts
  <2>2. CASE work' = [work EXCEPT ![d].at = "insert", ![d].created = Len(items) + 1]
    BY <2>2, TypesAre DEF Works, Others
  <2>3. items' # items
    <3>1. last \notin 1 .. Len(items)
      BY <1>3
    <3>2. last \notin DOMAIN items /\ last \in DOMAIN items'
      BY <1>3, <3>1
    <3> QED BY <3>2
  <2> QED BY <2>1, <2>2, <2>3 DEF Create
<1> HIDE DEF item
<1>5. Creating(d) /\ Creating(d)' /\ Owes(d)' /\ ~Owes(d)
  BY <1>1, <1>4 DEF At, Creating, Owes
<1>6. \A e \in Docs : e # d => work'[e] = work[e]
  BY <1>4 DEF Others
<1>7. \A e \in Docs : /\ work'[e].todo = work[e].todo /\ Wanted(e)' = Wanted(e) /\ KeyWanted(e)' = KeyWanted(e)
                      /\ Creating(e)' => Creating(e)
                      /\ Owes(e) => Owes(e)'
                      /\ At(e, "create")' => At(e, "create") /\ e # d
  <2>1. \A e \in Docs : work'[e].todo = work[e].todo
    BY <1>4, <1>6
  <2>2. \A e \in Docs : Wanted(e)' = Wanted(e) /\ KeyWanted(e)' = KeyWanted(e)
    BY <2>1, WantedKept
  <2>3. ASSUME NEW e \in Docs
        PROVE  /\ Creating(e)' => Creating(e)
               /\ Owes(e) => Owes(e)'
               /\ At(e, "create")' => At(e, "create") /\ e # d
    <3>1. CASE e = d
      BY <1>4, <1>5, <3>1 DEF At
    <3>2. CASE e # d
      BY <1>6, <3>2 DEF At, Creating, Owes
    <3> QED BY <3>1, <3>2
  <2> QED BY <2>1, <2>2, <2>3
<1>8. CacheFits' /\ GivenHolds'
  BY <1>1, <1>3, CacheStillFits, GivenKept DEF ItemsStay
<1>9. CreatedFits'
  <2> SUFFICES ASSUME NEW e \in Docs, At(e, "insert")'
               PROVE  (/\ work[e].created \in DOMAIN items
                       /\ items[work[e].created] \in {Gone, [kind |-> Wanted(e)[1], name |-> Wanted(e)[2]]})'
    BY DEF CreatedFits
  <2>1. CASE e = d
    <3>1. work'[d].created = last
      BY <1>4, <2>1 DEF At
    <3> QED BY <1>3, <1>7, <2>1, <3>1 DEF item
  <2>2. CASE e # d
    <3>1. At(e, "insert") /\ work'[e] = work[e] /\ Wanted(e)' = Wanted(e)
      BY <1>6, <1>7, <2>2 DEF At
    <3>2. /\ work[e].created \in DOMAIN items
          /\ items[work[e].created] \in {Gone, [kind |-> Wanted(e)[1], name |-> Wanted(e)[2]]}
      BY <3>1 DEF CreatedFits
    <3>3. work[e].created \in DOMAIN items' /\ items'[work[e].created] = items[work[e].created]
      BY <1>3, <3>2
    <3> QED BY <3>1, <3>2, <3>3
  <2> QED BY <2>1, <2>2
<1>10. RivalsAreBlind'
  BY <1>1, <1>7, RivalsStill
<1>11. ASSUME NEW kind, NEW key, IsKnown(kind, key) PROVE IsKnown(kind, key)'
  <2>1. Known(kind, key) \/ <<kind, key>> \in blind \/ \E e \in Docs : Owes(e) /\ Wants(e, kind, key)
    BY <1>11 DEF IsKnown
  <2>2. \A e \in Docs : Owes(e) /\ Wants(e, kind, key) => Owes(e)' /\ Wants(e, kind, key)'
    BY <1>7 DEF Wants
  <2>3. Known(kind, key)' <=> Known(kind, key)
    BY <1>1, KnownKept
  <2> QED BY <1>1, <2>1, <2>2, <2>3 DEF IsKnown
<1>12. ItemsAreKnown'
  <2> SUFFICES ASSUME polls > 0, NEW i \in DOMAIN items', items'[i] # Gone
               PROVE  IsKnown(items[i].kind, Key(items[i].kind, items[i].name))'
    BY <1>1 DEF ItemsAreKnown
  <2>1. CASE i \in DOMAIN items
    <3>1. IsKnown(items[i].kind, Key(items[i].kind, items[i].name)) /\ items'[i] = items[i]
      BY <1>3, <2>1 DEF ItemsAreKnown
    <3> QED BY <1>11, <3>1
  <2>2. CASE i = last
    <3>1. items'[i].kind = Wanted(d)[1] /\ Key(items'[i].kind, items'[i].name) = KeyWanted(d)
      BY <1>2, <1>3, <2>2
    <3>2. Wants(d, items[i].kind, Key(items[i].kind, items[i].name))'
      BY <1>7, <3>1 DEF Wants
    <3> QED BY <1>5, <3>2 DEF IsKnown
  <2> QED BY <1>3, <2>1, <2>2
<1>13. FirstOfItsName'
  <2> SUFFICES ASSUME NEW e \in Docs, At(e, "create")', NEW i \in DOMAIN items',
                      items'[i] # Gone, Wants(e, items[i].kind, Key(items[i].kind, items[i].name))'
               PROVE  (<<Wanted(e)[1], KeyWanted(e)>> \in blind)'
    BY DEF FirstOfItsName
  <2>1. At(e, "create") /\ e # d
    BY <1>7
  <2>2. Wanted(e)[1] = items'[i].kind /\ KeyWanted(e) = Key(items'[i].kind, items'[i].name)
    BY <1>7 DEF Wants
  <2>3. CASE i \in DOMAIN items
    <3>1. items[i] # Gone /\ Wants(e, items[i].kind, Key(items[i].kind, items[i].name))
      BY <1>3, <2>2, <2>3 DEF Wants
    <3>2. <<Wanted(e)[1], KeyWanted(e)>> \in blind
      BY <2>1, <2>3, <3>1 DEF FirstOfItsName
    <3> QED BY <1>1, <1>7, <3>2
  <2>4. CASE i = last
    <3>1. Wanted(e)[1] = Wanted(d)[1] /\ KeyWanted(e) = KeyWanted(d)
      BY <1>2, <1>3, <2>2, <2>4
    <3>2. Creating(e) /\ d \in Rivals(e)
      BY <1>5, <2>1, <3>1 DEF Rivals, Creating, At
    <3>3. <<Wanted(e)[1], KeyWanted(e)>> \in blind
      BY <3>2 DEF RivalsAreBlind
    <3> QED BY <1>1, <1>7, <3>3
  <2> QED BY <1>3, <2>3, <2>4
<1>14. TwinsNeedARace'
  <2> SUFFICES ASSUME NEW kind \in Kinds, NEW i \in DOMAIN items', NEW j \in DOMAIN items',
                      items'[i].kind = kind, items'[j].kind = kind, i < j,
                      Key(kind, items'[i].name) = Key(kind, items'[j].name), j > Len(case.items)
               PROVE  <<kind, Key(kind, items'[i].name)>> \in blind
    BY <1>1 DEF TwinsNeedARace
  <2>1. CASE j \in DOMAIN items
    <3>1. i \in DOMAIN items
      BY <1>3, <2>1
    <3>2. items'[i] = items[i] /\ items'[j] = items[j]
      BY <1>3, <2>1, <3>1
    <3> QED BY <2>1, <3>1, <3>2 DEF TwinsNeedARace
  <2>2. CASE j = last
    <3>1. i \in DOMAIN items /\ items'[i] = items[i]
      BY <1>3, <2>2
    <3>2. items[i] # Gone
      BY <3>1, ItemFacts
    <3>3. kind = Wanted(d)[1] /\ Key(kind, items[i].name) = KeyWanted(d) /\ items[i].kind = kind
      BY <1>2, <1>3, <2>2, <3>1
    <3>4. Wants(d, items[i].kind, Key(items[i].kind, items[i].name))
      BY <3>3 DEF Wants
    <3>5. wanted \in blind
      BY <1>1, <3>1, <3>2, <3>4 DEF FirstOfItsName
    <3> QED BY <3>1, <3>3, <3>5
  <2> QED BY <1>3, <2>1, <2>2
<1> QED BY <1>8, <1>9, <1>10, <1>12, <1>13, <1>14

LEMMA DeleteKeeps == ClassifyTyped /\ OneTaxonomy /\ DeleteItem => OneTaxonomy'
<1> SUFFICES ASSUME ClassifyTyped, OneTaxonomy, DeleteItem PROVE OneTaxonomy'
  OBVIOUS
<1> USE DEF OneTaxonomy
<1>1. UNCHANGED <<case, cache, work, polls, given, blind>>
  BY DEF DeleteItem, history
<1>2. PICK gone \in DOMAIN items : items' = [items EXCEPT ![gone] = Gone]
  BY DEF DeleteItem
<1>3. DOMAIN items' = DOMAIN items /\ \A i \in DOMAIN items : items'[i] \in {items[i], Gone}
  BY <1>2, ItemDeleted
<1>4. \A e \in Docs : Wanted(e)' = Wanted(e) /\ KeyWanted(e)' = KeyWanted(e)
  BY <1>1, WantedKept
<1>5. CacheFits' /\ GivenHolds'
  BY <1>1, <1>3, CacheStillFits, GivenKept DEF ItemsStay
<1>6. CreatedFits'
  <2> SUFFICES ASSUME NEW e \in Docs, At(e, "insert")'
               PROVE  (/\ work[e].created \in DOMAIN items
                       /\ items[work[e].created] \in {Gone, [kind |-> Wanted(e)[1], name |-> Wanted(e)[2]]})'
    BY DEF CreatedFits
  <2>1. At(e, "insert")
    BY <1>1 DEF At
  <2>2. /\ work[e].created \in DOMAIN items
        /\ items[work[e].created] \in {Gone, [kind |-> Wanted(e)[1], name |-> Wanted(e)[2]]}
    BY <2>1 DEF CreatedFits
  <2> QED BY <1>1, <1>3, <1>4, <2>2
<1>7. RivalsAreBlind'
  BY <1>1, RivalsStill DEF Creating
<1>8. ASSUME NEW kind, NEW key, IsKnown(kind, key) PROVE IsKnown(kind, key)'
  <2>1. Known(kind, key) \/ <<kind, key>> \in blind \/ \E e \in Docs : Owes(e) /\ Wants(e, kind, key)
    BY <1>8 DEF IsKnown
  <2>2. \A e \in Docs : Owes(e) /\ Wants(e, kind, key) => Owes(e)' /\ Wants(e, kind, key)'
    BY <1>1, <1>4 DEF Wants, Owes, At
  <2>3. Known(kind, key)' <=> Known(kind, key)
    BY <1>1, KnownKept
  <2> QED BY <1>1, <2>1, <2>2, <2>3 DEF IsKnown
<1>9. ItemsAreKnown'
  <2> SUFFICES ASSUME polls > 0, NEW i \in DOMAIN items, items'[i] # Gone
               PROVE  IsKnown(items[i].kind, Key(items[i].kind, items[i].name))'
    BY <1>1, <1>3 DEF ItemsAreKnown
  <2>1. items'[i] = items[i]
    BY <1>3
  <2>2. IsKnown(items[i].kind, Key(items[i].kind, items[i].name))
    BY <2>1 DEF ItemsAreKnown
  <2> QED BY <1>8, <2>1, <2>2
<1>10. FirstOfItsName'
  <2> SUFFICES ASSUME NEW e \in Docs, At(e, "create")', NEW i \in DOMAIN items,
                      items'[i] # Gone, Wants(e, items[i].kind, Key(items[i].kind, items[i].name))'
               PROVE  (<<Wanted(e)[1], KeyWanted(e)>> \in blind)'
    BY <1>3 DEF FirstOfItsName
  <2>1. items'[i] = items[i]
    BY <1>3
  <2>2. At(e, "create") /\ Wants(e, items[i].kind, Key(items[i].kind, items[i].name))
    BY <1>1, <1>4, <2>1 DEF Wants, At
  <2>3. <<Wanted(e)[1], KeyWanted(e)>> \in blind
    BY <2>1, <2>2 DEF FirstOfItsName
  <2> QED BY <1>1, <1>4, <2>3
<1>11. TwinsNeedARace'
  <2>1. ASSUME NEW i \in DOMAIN items, NEW kind \in Kinds, items'[i].kind = kind PROVE items'[i] = items[i]
    <3>1. items'[i] # Gone
      BY <2>1 DEF Gone, Kinds
    <3> QED BY <1>3, <3>1
  <2> QED BY <1>1, <1>3, <2>1 DEF TwinsNeedARace
<1> QED BY <1>5, <1>6, <1>7, <1>9, <1>10, <1>11

\* A step of a thread that creates nothing, before and after.
LEMMA QuietKeeps ==
  ASSUME ClassifyTyped, OneTaxonomy, UNCHANGED <<case, items, cache, polls, given, blind>>, NEW d \in Docs,
         Others(d), ~Creating(d), ~Creating(d)'
  PROVE  OneTaxonomy'
<1>1. GivenHolds'
  BY GivenKept DEF OneTaxonomy
<1>2. \A e \in Docs : Creating(e)' => work'[e] = work[e]
  BY DEF Others
<1>3. \A e \in Docs : Owes(e) => work'[e] = work[e]
  BY DEF Others, Owes, Creating, At
<1> QED BY <1>1, <1>2, <1>3, CalmKeeps

LEMMA ResolveKeeps ==
  ASSUME ClassifyTyped, OneTaxonomy, UNCHANGED <<case, items, cache, polls, blind>>, NEW d \in Docs,
         work[d].at \in Asks, Hit(d) # NoItem, Resolve(d, Hit(d))
  PROVE  OneTaxonomy'
<1>1. CacheFits /\ GivenHolds
  BY DEF OneTaxonomy
<1>2. Hit(d) \in DOMAIN items
  BY <1>1, HitFacts
<1>3. /\ Others(d) /\ given' = given \cup {<<Wanted(d)[1], KeyWanted(d), Hit(d)>>}
      /\ \A e \in Docs : Creating(e)' => e # d /\ work'[e] = work[e] /\ Creating(e)
  BY <1>2, ResolveLeaves
<1>4. GivenHolds'
  BY <1>1, <1>3, GivenByHit
<1>5. Known(Wanted(d)[1], KeyWanted(d))
  BY <1>1, HitIsKnown
<1>6. \A e \in Docs : Owes(e) => work'[e] = work[e] \/ Known(Wanted(e)[1], KeyWanted(e))
  BY <1>3, <1>5 DEF Others
<1> QED BY <1>3, <1>4, <1>6, CalmKeeps

LEMMA RecoverKeeps ==
  ASSUME ClassifyTyped, OneTaxonomy, NEW d \in Docs, Recover(d)
  PROVE  OneTaxonomy'
<1>1. UNCHANGED <<case, items, polls>> /\ (At(d, "recover") \/ At(d, "rejected"))
  BY DEF Recover, paperless
<1>2. Creating(d)
  BY <1>1 DEF Creating, At
<1>3. CASE /\ Refreshed /\ UNCHANGED blind
           /\ Goto(d, IF At(d, "recover") THEN "rematch" ELSE "rematch_rejected")
  <2>1. PICK step \in {"rematch", "rematch_rejected"} : Goto(d, step)
    BY <1>3
  <2>2. step \in Steps
    BY DEF Steps
  <2>3. Others(d) /\ work'[d].at = step /\ work'[d].todo = work[d].todo
    BY <2>1, <2>2, GotoFacts
  <2>4. \A e \in Docs : Creating(e)' => Creating(e) /\ work'[e].todo = work[e].todo
    BY <1>2, <2>3 DEF Others, Creating
  <2>5. \A e \in Docs : At(e, "create")' \/ At(e, "insert")' => work'[e] = work[e]
    BY <2>3 DEF Others, At
  <2> QED BY <1>1, <1>3, <2>4, <2>5, RefreshKeeps
<1>4. CASE /\ Done(d) /\ UNCHANGED <<cache, given>>
           /\ blind' = blind \cup {<<Wanted(d)[1], KeyWanted(d)>>}
  <2>1. Others(d) /\ work'[d].at = "done"
    BY <1>4, DoneFacts
  <2>2. GivenHolds'
    BY <1>4, GivenKept DEF OneTaxonomy
  <2>3. \A e \in Docs : Creating(e)' => work'[e] = work[e]
    BY <2>1 DEF Others, Creating
  <2>4. \A e \in Docs : Owes(e) => work'[e] = work[e] \/ <<Wanted(e)[1], KeyWanted(e)>> \in blind'
    BY <1>4, <2>1 DEF Others
  <2> QED BY <1>1, <1>4, <2>2, <2>3, <2>4, CalmKeeps
<1> QED BY <1>3, <1>4 DEF Recover

LEMMA QuietSteps ==
  ASSUME ClassifyTyped, NEW d \in Docs, Fetch(d) \/ TakeReply(d) \/ NoReply(d) \/ Patch(d)
  PROVE  /\ UNCHANGED <<case, items, cache, polls, given, blind, deleted>>
         /\ Others(d) /\ work[d].at \in {"fetch", "ask", "patch"}
         /\ \/ Done(d)
            \/ /\ Fetch(d) /\ paper' = paper
               /\ work'[d] = [work[d] EXCEPT !.at = "ask", !.fields = paper[d].fields]
            \/ /\ TakeReply(d) /\ paper' = paper
               /\ work'[d] = [work[d] EXCEPT !.at = "look", !.todo = Plan(d)]
<1>1. /\ UNCHANGED <<case, items, cache, polls, given, blind, deleted>>
      /\ work[d].at \in {"fetch", "ask", "patch"}
  BY DEF Fetch, TakeReply, NoReply, Patch, budget, history, At
<1>2. work \in [Docs -> Works]
  BY TypesAre
<1>3. CASE Done(d)
  BY <1>1, <1>3, DoneFacts
<1>4. CASE Fetch(d) /\ paper' = paper /\ work' = [work EXCEPT ![d].at = "ask", ![d].fields = paper[d].fields]
  BY <1>1, <1>2, <1>4 DEF Others, Works
<1>5. CASE TakeReply(d) /\ paper' = paper /\ work' = [work EXCEPT ![d].at = "look", ![d].todo = Plan(d)]
  BY <1>1, <1>2, <1>5 DEF Others, Works
<1> QED BY <1>3, <1>4, <1>5 DEF Fetch, TakeReply, NoReply, Patch, Unusable

LEMMA OneTaxonomyNext ==
  ClassifyTyped /\ WorkFollowsAPoll /\ OneTaxonomy /\ [ClassifyNext]_classifyVars => OneTaxonomy'
<1> SUFFICES ASSUME ClassifyTyped, WorkFollowsAPoll, OneTaxonomy, [ClassifyNext]_classifyVars PROVE OneTaxonomy'
  OBVIOUS
<1>1. CASE UNCHANGED classifyVars \/ RequestShutdown \/ \E d \in Docs : EditField(d)
  <2>1. UNCHANGED <<case, items, cache, work, polls, given, blind>>
    BY <1>1, Zenon DEF classifyVars, paperless, budget, history, RequestShutdown, EditField
  <2>2. GivenHolds'
    BY <2>1, GivenKept DEF OneTaxonomy
  <2> QED BY <2>1, <2>2, CalmKeeps
<1>2. CASE StartPoll
  <2>1. Refreshed /\ UNCHANGED <<case, items, blind>>
    BY <1>2 DEF StartPoll, paperless
  <2>2. \A e \in Docs : ~Creating(e)'
    <3>1. \A e \in Docs : work'[e].at \in {"fetch", "done"}
      BY <1>2 DEF StartPoll, NoWork
    <3> QED BY <3>1 DEF Creating
  <2>3. \A e \in Docs : Creating(e)' => Creating(e) /\ work'[e].todo = work[e].todo
    BY <2>2
  <2>4. \A e \in Docs : At(e, "create")' \/ At(e, "insert")' => work'[e] = work[e]
    BY <2>2 DEF At, Creating
  <2> QED BY <2>1, <2>3, <2>4, RefreshKeeps
<1>3. ASSUME NEW d \in Docs, Fetch(d) \/ TakeReply(d) \/ NoReply(d) \/ Patch(d) PROVE OneTaxonomy'
  <2>1. /\ UNCHANGED <<case, items, cache, polls, given, blind>> /\ Others(d)
        /\ work[d].at \in {"fetch", "ask", "patch"}
    BY <1>3, QuietSteps
  <2>2. work'[d].at \in {"done", "ask", "look"}
    <3>1. work[d] \in Works
      BY TypesAre
    <3>2. CASE Done(d)
      BY <3>2, DoneFacts
    <3>3. CASE work'[d] = [work[d] EXCEPT !.at = "ask", !.fields = paper[d].fields]
      BY <3>1, <3>3 DEF Works
    <3>4. CASE work'[d] = [work[d] EXCEPT !.at = "look", !.todo = Plan(d)]
      BY <3>1, <3>4 DEF Works
    <3> QED BY <1>3, <3>2, <3>3, <3>4, QuietSteps
  <2>3. ~Creating(d) /\ ~Creating(d)'
    BY <2>1, <2>2 DEF Creating
  <2> QED BY <2>1, <2>3, QuietKeeps
<1>4. ASSUME NEW d \in Docs, LookUp(d) \/ Rematch(d) \/ Insert(d), Hit(d) # NoItem PROVE OneTaxonomy'
  <2>1. UNCHANGED <<case, items, cache, polls, blind>> /\ Resolve(d, Hit(d)) /\ work[d].at \in Asks
    BY <1>4 DEF LookUp, Rematch, Insert, paperless, budget, At, Asks
  <2> QED BY <1>4, <2>1, ResolveKeeps
<1>5. ASSUME NEW d \in Docs, LookUp(d), Hit(d) = NoItem PROVE OneTaxonomy'
  BY <1>5, LookUpMissKeeps
<1>6. ASSUME NEW d \in Docs, Insert(d), Hit(d) = NoItem PROVE OneTaxonomy'
  BY <1>6, InsertMissKeeps
<1>7. ASSUME NEW d \in Docs, Rematch(d), Hit(d) = NoItem PROVE OneTaxonomy'
  <2>1. /\ UNCHANGED <<case, items, cache, polls, given, blind>> /\ Done(d)
        /\ (At(d, "rematch") \/ At(d, "rematch_rejected"))
    BY <1>7 DEF Rematch, budget
  <2>2. Others(d) /\ work'[d].at = "done"
    BY <2>1, DoneFacts
  <2>3. GivenHolds'
    BY <2>1, GivenKept DEF OneTaxonomy
  <2>4. \A e \in Docs : Creating(e)' => work'[e] = work[e]
    BY <2>2 DEF Others, Creating
  <2>5. \A e \in Docs : Owes(e) => work'[e] = work[e]
    BY <2>1, <2>2 DEF Others, Owes, At
  <2> QED BY <2>1, <2>3, <2>4, <2>5, CalmKeeps
<1>8. ASSUME NEW d \in Docs, Create(d) PROVE OneTaxonomy'
  <2>1. NewItem(d) \/ items' = items
    BY <1>8 DEF Create
  <2> QED BY <1>8, <2>1, CreateGrows, CreateFails
<1>9. ASSUME NEW d \in Docs, Recover(d) PROVE OneTaxonomy'
  BY <1>9, RecoverKeeps
<1>10. CASE DeleteItem
  BY <1>10, DeleteKeeps
<1> QED BY <1>1, <1>2, <1>3, <1>4, <1>5, <1>6, <1>7, <1>8, <1>9, <1>10, Zenon DEF ClassifyNext

LEMMA OneTaxonomyInit == ClassifyInit => WorkFollowsAPoll /\ OneTaxonomy
<1> SUFFICES ASSUME ClassifyInit PROVE WorkFollowsAPoll /\ OneTaxonomy
  OBVIOUS
<1>1. /\ case \in Cases /\ items = case.items /\ cache = [kind \in Kinds |-> {}] /\ polls = 0 /\ given = {}
      /\ work = [d \in Docs |-> NoWork]
  BY DEF ClassifyInit
<1>2. \A d \in Docs : work[d].at = "done"
  BY <1>1 DEF NoWork
<1>3. WorkFollowsAPoll
  BY <1>2 DEF WorkFollowsAPoll, At
<1>4. CacheFits /\ GivenHolds /\ ItemsAreKnown
  BY <1>1 DEF CacheFits, GivenHolds, ItemsAreKnown
<1>5. CreatedFits /\ RivalsAreBlind /\ FirstOfItsName
  BY <1>2 DEF CreatedFits, RivalsAreBlind, FirstOfItsName, Creating, At
<1>6. TwinsNeedARace
  <2>1. case.items \in Seq(Item)
    BY <1>1, CasesAssumption DEF Item
  <2>2. DOMAIN items = 1 .. Len(case.items) /\ Len(case.items) \in Nat
    BY <1>1, <2>1, LenProperties
  <2>3. \A j \in DOMAIN items : ~(j > Len(case.items))
    BY <2>2
  <2> QED BY <2>3 DEF TwinsNeedARace
<1> QED BY <1>3, <1>4, <1>5, <1>6 DEF OneTaxonomy

-----------------------------------------------------------------------------
(* Documents are served                                                    *)

\* What a step does to a thread.
Rests(d) == work'[d].at \in {"done", "fetch"} /\ work'[d].ids = {}
Reads(d) == At(d, "fetch") /\ work'[d] = [work[d] EXCEPT !.at = "ask", !.fields = paper[d].fields]
Plans(d) == At(d, "ask") /\ work'[d] = [work[d] EXCEPT !.at = "look", !.todo = Plan(d)]
GoesOn(d) ==
  /\ work[d].at \in Asks /\ work'[d].at \in Asks
  /\ work'[d].todo = work[d].todo /\ work'[d].ids = work[d].ids /\ work'[d].fields = work[d].fields
GetsItem(d) ==
  \E id \in DOMAIN items :
    /\ work[d].at \in Asks /\ work'[d].at \in {"look", "patch"}
    /\ work'[d].todo = Tail(work[d].todo) /\ work'[d].ids = work[d].ids \cup {<<Wanted(d)[1], id>>}
    /\ work'[d].fields = work[d].fields
    /\ work'[d].at = "patch" => work'[d].todo = <<>>
    /\ Wanted(d)[1] = "tag" => Bears(id, KeyWanted(d))

LEMMA HitBears ==
  ASSUME ClassifyTyped, CacheFits, NEW d \in Docs, work[d].at \in Asks, Hit(d) # NoItem, Wanted(d)[1] = "tag"
  PROVE  Bears(Hit(d), KeyWanted(d))
<1>1. Wanted(d)[1] \in Kinds /\ Wanted(d)[2] \in Names /\ Matches("tag", Wanted(d)[2]) # {}
  BY WantedFacts, MatchFacts DEF Hit
<1>2. PICK e \in Matches("tag", Wanted(d)[2]) : Hit(d) = e.id /\ e \in cache["tag"]
  BY <1>1, MatchFacts DEF Hit
<1>3. e.key = KeyWanted(d)
  BY <1>2 DEF Matches, KeyWanted
<1> QED BY <1>1, <1>2, <1>3 DEF CacheFits, Bears

LEMMA ResolveGets ==
  ASSUME ClassifyTyped, NEW d \in Docs, work[d].at \in Asks, NEW id \in DOMAIN items, Resolve(d, id),
         Wanted(d)[1] = "tag" => Bears(id, KeyWanted(d))
  PROVE  GetsItem(d) /\ Others(d)
<1>1. /\ Others(d) /\ work'[d].at \in {"look", "patch"}
      /\ work'[d].todo = Tail(work[d].todo) /\ work'[d].ids = work[d].ids \cup {<<Wanted(d)[1], id>>}
      /\ work'[d].fields = work[d].fields
      /\ work'[d].at = "patch" => work'[d].todo = <<>>
  BY ResolveFacts
<1> QED BY <1>1 DEF GetsItem

LEMMA WorkNext ==
  ASSUME ClassifyTyped, CacheFits, CreatedFits, [ClassifyNext]_classifyVars, NEW d \in Docs
  PROVE  work'[d] = work[d] \/ Rests(d) \/ Reads(d) \/ Plans(d) \/ GoesOn(d) \/ GetsItem(d)
<1> DEFINE Claim(e) == work'[e] = work[e] \/ Rests(e) \/ Reads(e) \/ Plans(e) \/ GoesOn(e) \/ GetsItem(e)
<1> SUFFICES Claim(d)
  OBVIOUS
<1>1. CASE UNCHANGED work
  BY <1>1
<1>2. CASE StartPoll
  <2>1. work'[d].at \in {"done", "fetch"} /\ work'[d].ids = {}
    BY <1>2 DEF StartPoll, NoWork
  <2> QED BY <2>1 DEF Rests
<1>3. ASSUME NEW e \in Docs, Others(e), Claim(e) PROVE Claim(d)
  <2>1. CASE d = e
    BY <1>3, <2>1
  <2>2. CASE d # e
    BY <1>3, <2>2 DEF Others
  <2> QED BY <2>1, <2>2
<1>4. ASSUME NEW e \in Docs, Done(e) PROVE Claim(d)
  <2>1. Others(e) /\ Rests(e)
    BY <1>4, DoneFacts DEF Rests, NoWork
  <2> QED BY <1>3, <2>1
<1>5. ASSUME NEW e \in Docs, Fetch(e) \/ TakeReply(e) \/ NoReply(e) \/ Patch(e) PROVE Claim(d)
  <2>1. Done(e) \/ (Others(e) /\ (Reads(e) \/ Plans(e)))
    <3>1. Fetch(e) => At(e, "fetch")
      BY DEF Fetch
    <3>2. TakeReply(e) => At(e, "ask")
      BY DEF TakeReply
    <3> QED BY <1>5, <3>1, <3>2, QuietSteps DEF Reads, Plans
  <2> QED BY <1>3, <1>4, <2>1
<1>6. ASSUME NEW e \in Docs, LookUp(e) \/ Rematch(e) \/ Insert(e), Hit(e) # NoItem PROVE Claim(d)
  <2>1. Resolve(e, Hit(e)) /\ work[e].at \in Asks
    BY <1>6 DEF LookUp, Rematch, Insert, At, Asks
  <2>2. Hit(e) \in DOMAIN items /\ (Wanted(e)[1] = "tag" => Bears(Hit(e), KeyWanted(e)))
    BY <1>6, <2>1, HitFacts, HitBears
  <2>3. GetsItem(e) /\ Others(e)
    BY <2>1, <2>2, ResolveGets
  <2> QED BY <1>3, <2>3
<1>7. ASSUME NEW e \in Docs, Insert(e), Hit(e) = NoItem PROVE Claim(d)
  <2>1. Resolve(e, work[e].created) /\ At(e, "insert") /\ work[e].at \in Asks
    BY <1>7 DEF Insert, At, Asks
  <2>2. /\ work[e].created \in DOMAIN items
        /\ items[work[e].created] \in {Gone, [kind |-> Wanted(e)[1], name |-> Wanted(e)[2]]}
    BY <2>1 DEF CreatedFits
  <2>3. Wanted(e)[1] = "tag" => Bears(work[e].created, KeyWanted(e))
    BY <2>2 DEF Bears, KeyWanted
  <2>4. GetsItem(e) /\ Others(e)
    BY <2>1, <2>2, <2>3, ResolveGets
  <2> QED BY <1>3, <2>4
<1>8. ASSUME NEW e \in Docs, NEW step \in Asks, Goto(e, step), work[e].at \in Asks PROVE Claim(d)
  <2>1. step \in Steps
    BY DEF Steps, Asks
  <2>2. GoesOn(e) /\ Others(e)
    BY <1>8, <2>1, GotoFacts DEF GoesOn
  <2> QED BY <1>3, <2>2
<1>9. ASSUME NEW e \in Docs, ((LookUp(e) \/ Rematch(e)) /\ Hit(e) = NoItem) \/ Recover(e) PROVE Claim(d)
  <2>1. Done(e) \/ \E step \in Asks : Goto(e, step)
    BY <1>9 DEF LookUp, Rematch, Recover, Asks
  <2>2. work[e].at \in Asks
    BY <1>9 DEF LookUp, Rematch, Recover, Asks, At
  <2> QED BY <1>4, <1>8, <2>1, <2>2
<1>10. ASSUME NEW e \in Docs, Create(e) PROVE Claim(d)
  <2>1. work[e].at \in Asks
    BY <1>10 DEF Create, Asks, At
  <2>2. CASE \E step \in Asks : Goto(e, step)
    BY <1>8, <2>1, <2>2
  <2>3. CASE work' = [work EXCEPT ![e].at = "insert", ![e].created = Len(items) + 1]
    <3>1. GoesOn(e) /\ Others(e)
      BY <2>1, <2>3, TypesAre DEF GoesOn, Others, Works, Asks
    <3> QED BY <1>3, <3>1
  <2> QED BY <1>10, <2>2, <2>3 DEF Create, Asks
<1>11. CASE (\E e \in Docs : EditField(e)) \/ DeleteItem \/ RequestShutdown \/ UNCHANGED classifyVars
  <2>1. UNCHANGED work
    BY <1>11, Zenon DEF EditField, DeleteItem, RequestShutdown, classifyVars
  <2> QED BY <1>1, <2>1
<1> HIDE DEF Claim
<1> QED BY <1>2, <1>5, <1>6, <1>7, <1>9, <1>10, <1>11, Zenon DEF ClassifyNext

LEMMA TailFacts ==
  ASSUME NEW tasks \in Seq(Kinds \X Names), tasks # <<>>
  PROVE  /\ tasks[1] = Head(tasks) /\ Len(tasks) \in Nat \ {0} /\ DOMAIN tasks = 1 .. Len(tasks)
         /\ DOMAIN Tail(tasks) = 1 .. Len(tasks) - 1
         /\ \A k \in 1 .. Len(tasks) - 1 : Tail(tasks)[k] = tasks[k + 1]
<1>1. Len(tasks) \in Nat /\ DOMAIN tasks = 1 .. Len(tasks) /\ Len(tasks) # 0
  BY LenProperties, EmptySeq
<1>2. /\ Head(tasks) \in Kinds \X Names /\ Tail(tasks) \in Seq(Kinds \X Names)
      /\ tasks[1] = Head(tasks) /\ Len(Tail(tasks)) = Len(tasks) - 1
      /\ \A k \in 1 .. Len(Tail(tasks)) : Tail(tasks)[k] = tasks[k + 1]
  BY HeadTailProperties
<1>3. DOMAIN Tail(tasks) = 1 .. Len(Tail(tasks))
  BY <1>2, LenProperties
<1> QED BY <1>1, <1>2, <1>3

\* What is left to do loses its head.
LEMMA TagsLeft ==
  ASSUME NEW tasks \in Seq(Kinds \X Names), tasks # <<>>
  PROVE  /\ IsFiniteSet(TagsAt(tasks)) /\ IsFiniteSet(TagsAt(Tail(tasks)))
         /\ Cardinality(TagsAt(tasks)) \in Nat /\ Cardinality(TagsAt(Tail(tasks))) \in Nat
         /\ Cardinality(TagsAt(Tail(tasks))) <= Cardinality(TagsAt(tasks))
         /\ Head(tasks)[1] = "tag" => Cardinality(TagsAt(Tail(tasks))) + 1 <= Cardinality(TagsAt(tasks))
<1> DEFINE rest == TagsAt(tasks) \ {1}
           left == TagsAt(Tail(tasks))
<1>1. /\ tasks[1] = Head(tasks) /\ Len(tasks) \in Nat \ {0} /\ DOMAIN tasks = 1 .. Len(tasks)
      /\ DOMAIN Tail(tasks) = 1 .. Len(tasks) - 1
      /\ \A k \in 1 .. Len(tasks) - 1 : Tail(tasks)[k] = tasks[k + 1]
  BY TailFacts
<1>2. IsFiniteSet(TagsAt(tasks)) /\ TagsAt(tasks) \in SUBSET DOMAIN tasks
  <2>1. TagsAt(tasks) \in SUBSET DOMAIN tasks
    BY DEF TagsAt
  <2> QED BY <2>1, PlacesAreFinite
<1>3. /\ IsFiniteSet(rest)
      /\ Cardinality(rest) = IF 1 \in TagsAt(tasks) THEN Cardinality(TagsAt(tasks)) - 1 ELSE Cardinality(TagsAt(tasks))
  BY <1>2, FS_RemoveElement
<1>4. [k \in left |-> k + 1] \in Injection(left, rest)
  <2>1. ASSUME NEW k \in left PROVE k + 1 \in rest /\ k \in Nat
    <3>1. k \in 1 .. Len(tasks) - 1 /\ Tail(tasks)[k][1] = "tag"
      BY <1>1 DEF TagsAt
    <3>2. k + 1 \in 1 .. Len(tasks) /\ k + 1 # 1 /\ k \in Nat
      BY <1>1, <3>1
    <3> QED BY <1>1, <3>1, <3>2 DEF TagsAt
  <2>2. ASSUME NEW a \in left, NEW b \in left, a + 1 = b + 1 PROVE a = b
    BY <2>1, <2>2
  <2> HIDE DEF left, rest
  <2>3. [k \in left |-> k + 1] \in [left -> rest]
    BY <2>1
  <2> QED BY <2>2, <2>3, Fun_IsInj
<1>5. IsFiniteSet(left) /\ Cardinality(left) <= Cardinality(rest)
  <2> HIDE DEF left, rest
  <2> QED BY <1>3, <1>4, FS_Injection
<1>6. Cardinality(TagsAt(tasks)) \in Nat /\ Cardinality(rest) \in Nat /\ Cardinality(left) \in Nat
  BY <1>2, <1>3, <1>5, FS_CardinalityType
<1>7. Head(tasks)[1] = "tag" => 1 \in TagsAt(tasks)
  BY <1>1 DEF TagsAt
<1> HIDE DEF left, rest
<1> QED BY <1>2, <1>3, <1>5, <1>6, <1>7 DEF left

LEMMA IdsAreFinite ==
  ASSUME ClassifyTyped, NEW ids \in SUBSET Ids
  PROVE  IsFiniteSet(TagsOf(ids)) /\ Cardinality(TagsOf(ids)) \in Nat
<1>1. IsFiniteSet(Kinds)
  <2>1. IsFiniteSet({"tag"} \cup {"correspondent"}) /\ IsFiniteSet({"type"})
    BY FS_Singleton, FS_Union
  <2>2. IsFiniteSet(({"tag"} \cup {"correspondent"}) \cup {"type"})
    BY <2>1, FS_Union
  <2>3. ({"tag"} \cup {"correspondent"}) \cup {"type"} = Kinds
    BY DEF Kinds
  <2> QED BY <2>2, <2>3
<1>2. IsFiniteSet(DOMAIN items)
  <2>1. items \in Seq(Item \cup {Gone}) /\ DOMAIN items \in SUBSET DOMAIN items
    BY DEF ClassifyTyped
  <2> QED BY <2>1, PlacesAreFinite
<1>3. IsFiniteSet(Ids)
  BY <1>1, <1>2, FS_Product DEF Ids
<1>4. TagsOf(ids) \in SUBSET Ids
  BY DEF TagsOf
<1> QED BY <1>3, <1>4, FS_Subset, FS_CardinalityType

LEMMA BearsStill ==
  ASSUME ItemsStay, NEW id \in DOMAIN items, NEW tag, Bears(id, tag)
  PROVE  Bears(id, tag)'
BY DEF ItemsStay, Bears

LEMMA HasComeStill ==
  ASSUME ItemsStay, NEW ids \in SUBSET Ids, NEW tag, HasCome(ids, tag)
  PROVE  HasCome(ids, tag)'
<1>1. PICK x \in TagsOf(ids) : Bears(x[2], tag)
  BY DEF HasCome
<1>2. x[2] \in DOMAIN items
  BY DEF TagsOf, Ids
<1>3. Bears(x[2], tag)'
  BY <1>1, <1>2, BearsStill
<1> QED BY <1>3 DEF HasCome


\* A name that gets its item is one less to come.
LEMMA FairByItem ==
  ASSUME ClassifyTyped, ItemsStay, UNCHANGED case, NEW d \in Docs, GetsItem(d), Fair(d)
  PROVE  Fair(d)'
<1>1. PICK id \in DOMAIN items :
        /\ work[d].at \in Asks
        /\ work'[d].todo = Tail(work[d].todo) /\ work'[d].ids = work[d].ids \cup {<<Wanted(d)[1], id>>}
        /\ Wanted(d)[1] = "tag" => Bears(id, KeyWanted(d))
  BY DEF GetsItem
<1>2. work[d].todo \in Seq(Kinds \X Names) /\ work[d].todo # <<>> /\ work[d].ids \in SUBSET Ids /\ case \in Cases
  BY <1>1, TypesAre DEF ClassifyTyped, Works
<1> DEFINE tasks == work[d].todo
           ids == work[d].ids
           more == ids \cup {<<Wanted(d)[1], id>>}
<1>3. /\ tasks[1] = Wanted(d) /\ Len(tasks) \in Nat \ {0} /\ DOMAIN tasks = 1 .. Len(tasks)
      /\ DOMAIN Tail(tasks) = 1 .. Len(tasks) - 1
      /\ \A k \in 1 .. Len(tasks) - 1 : Tail(tasks)[k] = tasks[k + 1]
  BY <1>2, TailFacts DEF Wanted
<1>4. Wanted(d)[1] \in Kinds /\ Wanted(d)[2] \in Names /\ more \in SUBSET Ids
  <2>1. Wanted(d)[1] \in Kinds /\ Wanted(d)[2] \in Names
    BY <1>1, WantedFacts
  <2>2. <<Wanted(d)[1], id>> \in Ids
    BY <2>1 DEF Ids
  <2> QED BY <1>2, <2>1, <2>2
<1>5. Required(d)' = Required(d) /\ Required(d) \in Seq(Names) /\ Len(Required(d)) \in Nat /\ case.limit \in Nat
  BY <1>2, RequiredFacts, CaseFacts DEF Required, DocOf
<1>6. ASSUME NEW t \in Names, Simple(t) = t, ToCome(d, t) \/ HasCome(work[d].ids, t)
      PROVE  ToCome(d, t)' \/ HasCome(work[d].ids, t)'
  <2>1. CASE HasCome(ids, t)
    <3>1. PICK x \in TagsOf(ids) : Bears(x[2], t)
      BY <2>1 DEF HasCome
    <3>2. x[2] \in DOMAIN items /\ x \in TagsOf(work'[d].ids)
      BY <1>1, <1>2, <3>1 DEF TagsOf, Ids
    <3>3. Bears(x[2], t)'
      BY <3>1, <3>2, BearsStill
    <3> QED BY <3>2, <3>3 DEF HasCome
  <2>2. ASSUME NEW k \in DOMAIN tasks, tasks[k] = <<"tag", t>> PROVE ToCome(d, t)' \/ HasCome(work[d].ids, t)'
    <3>1. CASE k = 1
      <4>1. Wanted(d) = <<"tag", t>>
        BY <1>3, <2>2, <3>1
      <4>2. Wanted(d)[1] = "tag" /\ Wanted(d)[2] = t
        BY <4>1
      <4>3. KeyWanted(d) = t /\ Bears(id, t)
        BY <1>1, <1>4, <1>6, <4>2, KeyFacts DEF KeyWanted
      <4>4. Bears(id, t)'
        BY <4>3, BearsStill
      <4>5. <<"tag", id>> \in TagsOf(work'[d].ids)
        BY <1>1, <4>2 DEF TagsOf
      <4> QED BY <4>4, <4>5 DEF HasCome
    <3>2. CASE k # 1
      <4>1. k - 1 \in 1 .. Len(tasks) - 1 /\ (k - 1) + 1 = k
        BY <1>3, <3>2
      <4>2. Tail(tasks)[k - 1] = <<"tag", t>> /\ k - 1 \in DOMAIN Tail(tasks)
        BY <1>3, <2>2, <4>1
      <4> QED BY <1>1, <4>2 DEF ToCome
    <3> QED BY <3>1, <3>2
  <2> QED BY <1>6, <2>1, <2>2 DEF ToCome
<1>7. ASSUME NEW i \in DOMAIN Required(d)
      PROVE  ToCome(d, Simple(Required(d)[i]))' \/ HasCome(work[d].ids, Simple(Required(d)[i]))'
  <2>1. Simple(Required(d)[i]) \in Names /\ Simple(Simple(Required(d)[i])) = Simple(Required(d)[i])
    <3>1. Required(d)[i] \in Names
      BY <1>5, ElementOfSeq, LenProperties
    <3> QED BY <3>1, NamesAssumption
  <2>2. ToCome(d, Simple(Required(d)[i])) \/ HasCome(work[d].ids, Simple(Required(d)[i]))
    BY DEF Fair
  <2>3. PICK t \in Names : t = Simple(Required(d)[i])
    BY <2>1
  <2>4. ToCome(d, t)' \/ HasCome(work[d].ids, t)'
    BY <1>6, <2>1, <2>2, <2>3
  <2> QED BY <1>5, <2>3, <2>4
<1>8. Cardinality(TagsOf(more)) + Cardinality(TagsAt(Tail(tasks))) <= Len(Required(d)) + case.limit
  <2>1. /\ IsFiniteSet(TagsOf(ids)) /\ Cardinality(TagsOf(ids)) \in Nat /\ Cardinality(TagsOf(more)) \in Nat
    BY <1>2, <1>4, IdsAreFinite
  <2>2. /\ Cardinality(TagsAt(tasks)) \in Nat /\ Cardinality(TagsAt(Tail(tasks))) \in Nat
        /\ Cardinality(TagsAt(Tail(tasks))) <= Cardinality(TagsAt(tasks))
        /\ Wanted(d)[1] = "tag" => Cardinality(TagsAt(Tail(tasks))) + 1 <= Cardinality(TagsAt(tasks))
    BY <1>2, TagsLeft DEF Wanted
  <2>3. Cardinality(TagsOf(ids)) + Cardinality(TagsAt(tasks)) <= Len(Required(d)) + case.limit
    BY DEF Fair
  <2>4. CASE Wanted(d)[1] = "tag"
    <3>1. TagsOf(more) = TagsOf(ids) \cup {<<Wanted(d)[1], id>>}
      BY <2>4 DEF TagsOf
    <3>2. Cardinality(TagsOf(more)) <= Cardinality(TagsOf(ids)) + 1
      <4> HIDE DEF ids, more
      <4>1. Cardinality(TagsOf(more)) = IF <<Wanted(d)[1], id>> \in TagsOf(ids) THEN Cardinality(TagsOf(ids))
                                                                              ELSE Cardinality(TagsOf(ids)) + 1
        BY <2>1, <3>1, FS_AddElement
      <4> QED BY <2>1, <4>1
    <3> HIDE DEF ids, more, tasks
    <3> QED BY <1>5, <2>1, <2>2, <2>3, <2>4, <3>2
  <2>5. CASE Wanted(d)[1] # "tag"
    <3>1. TagsOf(more) = TagsOf(ids)
      BY <2>5 DEF TagsOf
    <3> HIDE DEF ids, more, tasks
    <3> QED BY <1>5, <2>1, <2>2, <2>3, <3>1
  <2> QED BY <2>4, <2>5
<1> QED BY <1>1, <1>5, <1>7, <1>8 DEF Fair

\* A plan has what is required.
LEMMA FairByPlan ==
  ASSUME ClassifyTyped, UNCHANGED case, NEW d \in Docs, work[d].ids = {}, Plans(d)
  PROVE  Fair(d)'
<1>1. case \in Cases /\ work[d] \in Works
  BY TypesAre DEF ClassifyTyped
<1>2. work'[d].todo = Plan(d) /\ work'[d].ids = {}
  BY <1>1 DEF Plans, Works
<1>3. /\ \A i \in DOMAIN Required(d) : \E k \in DOMAIN Plan(d) : Plan(d)[k] = <<"tag", Simple(Required(d)[i])>>
      /\ IsFiniteSet(TagsAt(Plan(d))) /\ Cardinality(TagsAt(Plan(d))) <= Len(Required(d)) + case.limit
  BY <1>1, PlanFacts DEF TagsAt
<1>4. Required(d)' = Required(d)
  BY DEF Required, DocOf
<1>5. TagsOf({}) = {} /\ Cardinality({}) = 0
  BY FS_EmptySet DEF TagsOf
<1>6. Cardinality(TagsOf({})) + Cardinality(TagsAt(Plan(d))) <= Len(Required(d)) + case.limit
  <2>1. Cardinality(TagsAt(Plan(d))) \in Nat /\ Len(Required(d)) \in Nat /\ case.limit \in Nat
    BY <1>1, <1>3, FS_CardinalityType, RequiredFacts, CaseFacts
  <2>2. Cardinality(TagsOf({})) = 0
    BY <1>5
  <2>3. \A c \in Nat : 0 + c = c
    OBVIOUS
  <2> QED BY <1>3, <2>1, <2>2, <2>3
<1>7. \A i \in DOMAIN Required(d) : ToCome(d, Simple(Required(d)[i]))'
  BY <1>2, <1>3, <1>4 DEF ToCome
<1> QED BY <1>2, <1>4, <1>6, <1>7 DEF Fair

LEMMA RequiredComesNext ==
  ClassifyTyped /\ CacheFits /\ CreatedFits /\ RequiredComes /\ [ClassifyNext]_classifyVars => RequiredComes'
<1> SUFFICES ASSUME ClassifyTyped, CacheFits, CreatedFits, RequiredComes, [ClassifyNext]_classifyVars, NEW d \in Docs
             PROVE  (/\ work[d].at \in Asks \cup {"patch"} => Fair(d)
                     /\ At(d, "patch") => work[d].todo = <<>>
                     /\ At(d, "fetch") \/ At(d, "ask") => work[d].ids = {})'
  BY DEF RequiredComes
<1>1. ItemsStay /\ UNCHANGED case
  BY ItemsStayNext, CaseKept
<1>2. Required(d)' = Required(d) /\ work[d] \in Works
  BY <1>1, TypesAre DEF Required, DocOf
<1>3. /\ work[d].at \in Asks \cup {"patch"} => Fair(d)
      /\ At(d, "patch") => work[d].todo = <<>>
      /\ At(d, "fetch") \/ At(d, "ask") => work[d].ids = {}
  BY DEF RequiredComes
<1>4. ASSUME Fair(d), work'[d].todo = work[d].todo, work'[d].ids = work[d].ids PROVE Fair(d)'
  <2>1. ASSUME NEW t, ToCome(d, t) \/ HasCome(work[d].ids, t) PROVE ToCome(d, t)' \/ HasCome(work[d].ids, t)'
    <3>1. CASE ToCome(d, t)
      BY <1>4, <3>1 DEF ToCome
    <3>2. CASE HasCome(work[d].ids, t)
      <4>1. PICK ids \in SUBSET Ids : ids = work[d].ids
        BY <1>2 DEF Works
      <4>2. HasCome(ids, t)'
        BY <1>1, <3>2, <4>1, HasComeStill
      <4> QED BY <1>4, <4>1, <4>2
    <3> QED BY <2>1, <3>1, <3>2
  <2> QED BY <1>1, <1>2, <1>4, <2>1 DEF Fair
<1>5. CASE work'[d] = work[d]
  BY <1>3, <1>4, <1>5 DEF At
<1>6. CASE Rests(d)
  BY <1>6 DEF Rests, Asks, At
<1>7. CASE Reads(d)
  <2>1. work'[d].at = "ask" /\ work'[d].ids = {}
    BY <1>2, <1>3, <1>7 DEF Reads, Works
  <2> QED BY <2>1 DEF Asks, At
<1>8. CASE Plans(d)
  <2>1. work'[d].at = "look" /\ work[d].ids = {}
    BY <1>2, <1>3, <1>8 DEF Plans, Works
  <2> QED BY <1>1, <1>8, <2>1, FairByPlan DEF At
<1>9. CASE GoesOn(d)
  <2>1. /\ work[d].at \in Asks /\ work'[d].at \in Asks
        /\ work'[d].todo = work[d].todo /\ work'[d].ids = work[d].ids
    BY <1>9 DEF GoesOn
  <2> QED BY <1>3, <1>4, <2>1 DEF Asks, At
<1>10. CASE GetsItem(d)
  <2>1. /\ work[d].at \in Asks /\ work'[d].at \in {"look", "patch"}
        /\ work'[d].at = "patch" => work'[d].todo = <<>>
    BY <1>10 DEF GetsItem
  <2> QED BY <1>1, <1>3, <1>10, <2>1, FairByItem DEF At
<1> QED BY <1>5, <1>6, <1>7, <1>8, <1>9, <1>10, WorkNext

\* What a step does to a document.
Excused(d) ==
  \/ DocOf(d).content = "refusal" \/ IsEmpty(Reply(d)) \/ IsGeneric(Reply(d)) \/ d \in failed'
  \/ At(d, "rematch_rejected") /\ Hit(d) = NoItem
  \/ At(d, "patch") /\ ~Exists(work[d].ids)
Stays(d) ==
  paper'[d].state = paper[d].state /\ paper'[d].ids = paper[d].ids /\ paper[d].fields \subseteq paper'[d].fields
IsMarked(d) ==
  /\ paper'[d].state \in {"ocr", "error"} /\ paper'[d].ids = paper[d].ids /\ paper'[d].fields = paper[d].fields
  /\ paper'[d].state = "error" => Excused(d)
IsSaved(d) ==
  /\ At(d, "patch") /\ paper'[d].state = "saved" /\ paper'[d].ids = work[d].ids
  /\ paper'[d].fields \in {paper[d].fields, UpdateFields(d)}

LEMMA MarkedFacts ==
  ASSUME ClassifyTyped, NEW e \in Docs, NEW state \in {"ocr", "error"}, Becomes(e, state),
         state = "error" => Excused(e), NEW d \in Docs
  PROVE  Stays(d) \/ IsMarked(d)
<1>1. /\ paper'[d].ids = paper[d].ids /\ paper'[d].fields = paper[d].fields
      /\ d # e => paper'[d] = paper[d]
      /\ paper'[e].state = state
  BY BecomesFacts
<1>2. CASE d = e
  BY <1>1, <1>2 DEF IsMarked
<1>3. CASE d # e
  BY <1>1, <1>3 DEF Stays
<1> QED BY <1>2, <1>3

LEMMA PaperNext ==
  ASSUME ClassifyTyped, [ClassifyNext]_classifyVars, NEW d \in Docs
  PROVE  Stays(d) \/ IsMarked(d) \/ IsSaved(d)
<1>1. CASE UNCHANGED paper
  BY <1>1 DEF Stays
<1>2. ASSUME NEW e \in Docs, Fetch(e) PROVE Stays(d) \/ IsMarked(d) \/ IsSaved(d)
  <2>1. CASE Becomes(e, "ocr")
    BY <2>1, MarkedFacts
  <2>2. CASE Becomes(e, "error") /\ DocOf(e).content = "refusal"
    BY <2>2, MarkedFacts DEF Excused
  <2> QED BY <1>1, <1>2, <2>1, <2>2 DEF Fetch
<1>3. ASSUME NEW e \in Docs, TakeReply(e) \/ NoReply(e) PROVE Stays(d) \/ IsMarked(d) \/ IsSaved(d)
  <2>1. CASE Becomes(e, "error") /\ Excused(e)
    BY <2>1, MarkedFacts
  <2>2. CASE TakeReply(e)
    <3>1. UNCHANGED paper \/ (Becomes(e, "error") /\ (IsEmpty(Reply(e)) \/ IsGeneric(Reply(e))))
      BY <2>2, Zenon DEF TakeReply, Unusable
    <3>2. CASE UNCHANGED paper
      BY <1>1, <3>2
    <3>3. CASE Becomes(e, "error") /\ (IsEmpty(Reply(e)) \/ IsGeneric(Reply(e)))
      BY <2>1, <3>3, Zenon DEF Excused
    <3> QED BY <3>1, <3>2, <3>3
  <2>3. CASE NoReply(e)
    <3>1. Unusable(e) /\ (stop \/ failed' = failed \cup {e})
      BY <2>3 DEF NoReply
    <3>2. CASE stop
      BY <1>1, <3>1, <3>2 DEF Unusable
    <3>3. CASE ~stop
      <4>1. e \in failed' /\ Becomes(e, "error")
        BY <3>1, <3>3 DEF Unusable
      <4> QED BY <2>1, <4>1 DEF Excused
    <3> QED BY <3>2, <3>3
  <2> QED BY <1>3, <2>2, <2>3
<1>4. ASSUME NEW e \in Docs, Rematch(e) PROVE Stays(d) \/ IsMarked(d) \/ IsSaved(d)
  <2>1. CASE Becomes(e, "error") /\ At(e, "rematch_rejected") /\ Hit(e) = NoItem
    BY <2>1, MarkedFacts DEF Excused
  <2> QED BY <1>1, <1>4, <2>1 DEF Rematch
<1>5. ASSUME NEW e \in Docs, Patch(e) PROVE Stays(d) \/ IsMarked(d) \/ IsSaved(d)
  <2>1. At(e, "patch")
    BY <1>5 DEF Patch
  <2>2. CASE Becomes(e, "error") /\ ~Exists(work[e].ids)
    BY <2>1, <2>2, MarkedFacts DEF Excused
  <2>3. CASE paper' = [paper EXCEPT ![e] =
               [state |-> "saved", ids |-> work[e].ids,
                fields |-> IF Reply(e).person = NoName THEN @.fields ELSE UpdateFields(e)]]
    <3>1. paper' = [paper EXCEPT ![e] =
               [state |-> "saved", ids |-> work[e].ids,
                fields |-> IF Reply(e).person = NoName THEN paper[e].fields ELSE UpdateFields(e)]]
      BY <2>3, TypesAre
    <3>2. CASE d = e
      BY <2>1, <3>1, <3>2, TypesAre DEF IsSaved
    <3>3. CASE d # e
      BY <3>1, <3>3, TypesAre DEF Stays
    <3> QED BY <3>2, <3>3
  <2> QED BY <1>1, <1>5, <2>2, <2>3 DEF Patch
<1>6. ASSUME NEW e \in Docs, EditField(e) PROVE Stays(d)
  <2>1. paper' = [paper EXCEPT ![e].fields = paper[e].fields \cup {case.edits[e]}]
    BY <1>6, TypesAre DEF EditField
  <2> QED BY <2>1, TypesAre DEF Stays, Papers
<1>7. \/ UNCHANGED paper
      \/ \E e \in Docs : Fetch(e) \/ TakeReply(e) \/ NoReply(e) \/ Rematch(e) \/ Patch(e) \/ EditField(e)
  BY Zenon DEF ClassifyNext, classifyVars, paperless, StartPoll, LookUp, Create, Recover, Insert, DeleteItem, RequestShutdown
<1> QED BY <1>1, <1>2, <1>3, <1>4, <1>5, <1>6, <1>7

LEMMA RequiredArriveNext ==
  ClassifyTyped /\ RequiredComes /\ RequiredTagsArrive /\ [ClassifyNext]_classifyVars => RequiredTagsArrive'
<1> DEFINE Arrived(d, ids) ==
             /\ \A i \in DOMAIN Required(d) : HasCome(ids, Simple(Required(d)[i]))
             /\ Cardinality(TagsOf(ids)) <= Len(Required(d)) + case.limit
<1>1. RequiredTagsArrive <=> \A d \in Docs : paper[d].state = "saved" => Arrived(d, paper[d].ids)
  BY DEF RequiredTagsArrive, HasCome, Bears, TagsOf
<1>2. RequiredTagsArrive' <=> \A d \in Docs : paper'[d].state = "saved" => Arrived(d, paper[d].ids)'
  BY DEF RequiredTagsArrive, HasCome, Bears, TagsOf
<1> SUFFICES ASSUME ClassifyTyped, RequiredComes, RequiredTagsArrive, [ClassifyNext]_classifyVars,
                    NEW d \in Docs, paper'[d].state = "saved"
             PROVE  Arrived(d, paper[d].ids)'
  BY <1>2
<1>3. ItemsStay /\ UNCHANGED case
  BY ItemsStayNext, CaseKept
<1>4. Required(d)' = Required(d)
  BY <1>3 DEF Required, DocOf
<1>5. ASSUME NEW ids \in SUBSET Ids, Arrived(d, ids), paper'[d].ids = ids PROVE Arrived(d, paper[d].ids)'
  <2>1. \A i \in DOMAIN Required(d) : HasCome(ids, Simple(Required(d)[i]))'
    <3>1. ASSUME NEW i \in DOMAIN Required(d), NEW t, t = Simple(Required(d)[i])
          PROVE  HasCome(ids, t)'
      BY <1>3, <1>5, <3>1, HasComeStill
    <3> QED BY <1>4, <3>1
  <2> QED BY <1>3, <1>4, <1>5, <2>1
<1>6. CASE Stays(d)
  <2>1. Arrived(d, paper[d].ids) /\ paper'[d].ids = paper[d].ids /\ paper[d].ids \in SUBSET Ids
    BY <1>1, <1>6, TypesAre DEF Stays, Papers
  <2>2. PICK ids \in SUBSET Ids : ids = paper[d].ids
    BY <2>1
  <2> QED BY <1>5, <2>1, <2>2
<1>7. CASE IsMarked(d)
  BY <1>7 DEF IsMarked
<1>8. CASE IsSaved(d)
  <2>1. At(d, "patch") /\ paper'[d].ids = work[d].ids /\ work[d].ids \in SUBSET Ids
    BY <1>8, TypesAre DEF IsSaved, Works
  <2>2. Fair(d) /\ work[d].todo = <<>>
    BY <2>1 DEF RequiredComes, At
  <2>3. TagsAt(<<>>) = {} /\ Cardinality({}) = 0
    BY FS_EmptySet DEF TagsAt
  <2>4. Arrived(d, work[d].ids)
    <3>1. \A t : ~ToCome(d, t)
      BY <2>2 DEF ToCome
    <3>2. Cardinality(TagsOf(work[d].ids)) + 0 <= Len(Required(d)) + case.limit
      BY <2>2, <2>3 DEF Fair
    <3>3. Cardinality(TagsOf(work[d].ids)) \in Nat
      BY <2>1, IdsAreFinite
    <3>4. Cardinality(TagsOf(work[d].ids)) <= Len(Required(d)) + case.limit
      <4>1. \A c \in Nat : c + 0 = c
        OBVIOUS
      <4> QED BY <3>2, <3>3, <4>1
    <3> QED BY <2>2, <3>1, <3>4 DEF Fair
  <2>5. PICK ids \in SUBSET Ids : ids = work[d].ids
    BY <2>1
  <2> QED BY <1>5, <2>1, <2>4, <2>5
<1> QED BY <1>6, <1>7, <1>8, PaperNext

LEMMA BudgetNext ==
  ClassifyTyped /\ [ClassifyNext]_classifyVars =>
    /\ failed \subseteq failed' /\ deleted' >= deleted
    /\ deleted' = deleted \/ (deleted' > 0 /\ DeleteItem)
<1> SUFFICES ASSUME ClassifyTyped, [ClassifyNext]_classifyVars
             PROVE  /\ failed \subseteq failed' /\ deleted' >= deleted
                    /\ deleted' = deleted \/ (deleted' > 0 /\ DeleteItem)
  OBVIOUS
<1>1. deleted \in Nat
  BY TypesAre
<1>2. CASE DeleteItem
  <2>1. deleted' = deleted + 1 /\ failed' = failed
    BY <1>2 DEF DeleteItem, history
  <2>2. deleted + 1 >= deleted /\ deleted + 1 > 0
    BY <1>1
  <2> QED BY <1>2, <2>1, <2>2
<1>3. CASE ~DeleteItem
  <2>1. deleted' = deleted /\ (failed' = failed \/ \E d \in Docs : failed' = failed \cup {d})
    BY <1>3, Zenon DEF ClassifyNext, classifyVars, budget, history, StartPoll, Fetch, TakeReply, NoReply, LookUp,
       Create, Recover, Rematch, Insert, Patch, EditField, RequestShutdown
  <2>2. deleted >= deleted
    BY <1>1
  <2>3. failed \subseteq failed'
    BY <2>1
  <2> QED BY <2>1, <2>2, <2>3
<1> QED BY <1>2, <1>3

LEMMA HealthyNext ==
  ClassifyTyped /\ RejectedForAnItem /\ HealthyDocumentsAreKept /\ [ClassifyNext]_classifyVars
    => HealthyDocumentsAreKept'
<1> SUFFICES ASSUME ClassifyTyped, RejectedForAnItem, HealthyDocumentsAreKept, [ClassifyNext]_classifyVars,
                    NEW d \in Docs, paper'[d].state = "error"
             PROVE  (\/ DocOf(d).content = "refusal"
                     \/ IsEmpty(Reply(d)) \/ IsGeneric(Reply(d))
                     \/ d \in failed \/ deleted > 0)'
  BY DEF HealthyDocumentsAreKept
<1>1. failed \subseteq failed' /\ deleted' >= deleted /\ deleted \in Nat /\ deleted' \in Nat
  <2>1. deleted' \in {deleted, deleted + 1}
    BY Zenon DEF ClassifyNext, classifyVars, budget, StartPoll, Fetch, TakeReply, NoReply, LookUp, Create,
       Recover, Rematch, Insert, Patch, EditField, DeleteItem, RequestShutdown
  <2> QED BY <2>1, BudgetNext, TypesAre
<1>2. DocOf(d)' = DocOf(d) /\ Reply(d)' = Reply(d)
  BY CaseKept DEF DocOf, Reply
<1>3. IsEmpty(Reply(d))' = IsEmpty(Reply(d)) /\ IsGeneric(Reply(d))' = IsGeneric(Reply(d))
  BY <1>2 DEF IsEmpty, IsGeneric
<1>4. deleted > 0 => deleted' > 0
  BY <1>1
<1>5. CASE Stays(d)
  <2>1. \/ DocOf(d).content = "refusal"
        \/ IsEmpty(Reply(d)) \/ IsGeneric(Reply(d))
        \/ d \in failed \/ deleted > 0
    BY <1>5 DEF Stays, HealthyDocumentsAreKept
  <2> QED BY <1>1, <1>2, <1>3, <1>4, <2>1
<1>6. CASE IsMarked(d)
  <2>1. Excused(d)
    BY <1>6 DEF IsMarked
  <2>2. ASSUME At(d, "rematch_rejected") /\ Hit(d) = NoItem PROVE deleted > 0
    <3>1. deleted # 0
      BY <2>2 DEF RejectedForAnItem
    <3> QED BY <1>1, <3>1
  <2>3. ASSUME ~Exists(work[d].ids) PROVE deleted > 0
    <3>1. PICK x \in work[d].ids : items[x[2]] = Gone
      BY <2>3 DEF Exists
    <3>2. x[2] \in DOMAIN items
      BY <3>1, TypesAre DEF Works, Ids
    <3>3. deleted # 0
      BY <3>1, <3>2 DEF RejectedForAnItem
    <3> QED BY <1>1, <3>3
  <2> QED BY <1>1, <1>2, <1>3, <1>4, <2>1, <2>2, <2>3 DEF Excused
<1>7. CASE IsSaved(d)
  BY <1>7 DEF IsSaved
<1> QED BY <1>5, <1>6, <1>7, PaperNext

LEMMA FieldsNext ==
  ClassifyTyped /\ CacheFits /\ CreatedFits /\ FieldsWereRead /\ UserFieldsAreKept /\ [ClassifyNext]_classifyVars
    => FieldsWereRead' /\ UserFieldsAreKept'
<1> SUFFICES ASSUME ClassifyTyped, CacheFits, CreatedFits, FieldsWereRead, UserFieldsAreKept,
                    [ClassifyNext]_classifyVars, NEW d \in Docs
             PROVE  /\ ~At(d, "done")' /\ ~At(d, "fetch")' => mine'[d] \subseteq work'[d].fields
                    /\ mine'[d] \subseteq paper'[d].fields
  BY DEF FieldsWereRead, UserFieldsAreKept
<1>1. mine[d] \subseteq paper[d].fields /\ (~At(d, "done") /\ ~At(d, "fetch") => mine[d] \subseteq work[d].fields)
  BY DEF FieldsWereRead, UserFieldsAreKept
<1>2. ASSUME NEW e \in Docs, EditField(e)
      PROVE  /\ ~At(d, "done")' /\ ~At(d, "fetch")' => mine'[d] \subseteq work'[d].fields
             /\ mine'[d] \subseteq paper'[d].fields
  <2>1. work' = work
    BY <1>2 DEF EditField
  <2>2. paper'[d].fields = IF d = e THEN paper[d].fields \cup {case.edits[d]} ELSE paper[d].fields
    BY <1>2, TypesAre DEF EditField, Papers
  <2>3. mine'[d] = mine[d] \/ (d = e /\ (At(d, "done") \/ At(d, "fetch")) /\ mine'[d] = mine[d] \cup {case.edits[d]})
    <3>1. mine \in [Docs -> SUBSET STRING]
      BY DEF ClassifyTyped
    <3> QED BY <1>2, <3>1 DEF EditField
  <2> QED BY <1>1, <2>1, <2>2, <2>3 DEF At
<1>3. CASE ~\E e \in Docs : EditField(e)
  <2>1. mine' = mine
    BY <1>3, Zenon DEF ClassifyNext, classifyVars, history, StartPoll, Fetch, TakeReply, NoReply, LookUp, Create,
       Recover, Rematch, Insert, Patch, DeleteItem, RequestShutdown
  <2>2. mine[d] \subseteq paper'[d].fields
    <3>1. IsSaved(d) => mine[d] \subseteq work[d].fields
      BY <1>1 DEF IsSaved, At
    <3>2. UpdateFields(d) = work[d].fields \cup {PersonField}
      BY DEF UpdateFields
    <3> QED BY <1>1, <3>1, <3>2, PaperNext DEF Stays, IsMarked, IsSaved
  <2>3. ~At(d, "done")' /\ ~At(d, "fetch")' => mine[d] \subseteq work'[d].fields
    <3>1. work[d] \in Works
      BY TypesAre
    <3>2. CASE work'[d] = work[d]
      BY <1>1, <3>2 DEF At
    <3>3. CASE Rests(d)
      BY <3>3 DEF Rests, At
    <3>4. CASE Reads(d)
      <4>1. work'[d].fields = paper[d].fields
        BY <3>1, <3>4 DEF Reads, Works
      <4> QED BY <1>1, <4>1
    <3>5. CASE Plans(d)
      <4>1. work'[d].fields = work[d].fields /\ work[d].at = "ask"
        BY <3>1, <3>5 DEF Plans, Works, At
      <4> QED BY <1>1, <4>1 DEF At
    <3>6. CASE GoesOn(d) \/ GetsItem(d)
      <4>1. work'[d].fields = work[d].fields /\ work[d].at \in Asks
        BY <3>6 DEF GoesOn, GetsItem
      <4> QED BY <1>1, <4>1 DEF At, Asks
    <3> QED BY <3>2, <3>3, <3>4, <3>5, <3>6, WorkNext
  <2> QED BY <2>1, <2>2, <2>3
<1> QED BY <1>2, <1>3

\* What a refresh finds of an item that is there.
LEMMA RefreshHits ==
  ASSUME ClassifyTyped, Refreshed, NEW kind \in Kinds, NEW n \in Names,
         NEW i \in DOMAIN items, items[i] = [kind |-> kind, name |-> n]
  PROVE  Match(kind, n)' # NoItem
<1>1. cache'[kind] = Indexed(kind)
  BY DEF Refreshed
<1>2. PICK e \in Indexed(kind) : e.key = Key(kind, n)
  BY IndexedFacts
<1>3. \A f \in Indexed(kind) : f.key = e.key => f = e
  BY IndexedFacts
<1>4. {f \in cache'[kind] : f.key = Key(kind, n)} = {e}
  BY <1>1, <1>2, <1>3
<1>5. Matches(kind, n)' = {e}
  BY <1>4 DEF Matches
<1>6. e.id # NoItem /\ e.place \in Nat
  <2>1. e \in Entries
    BY IndexedFacts
  <2> QED BY <2>1, ItemFacts DEF Entries
<1>7. (CHOOSE c \in {e} : \A f \in {e} : c.place <= f.place) = e
  <2>1. \A f \in {e} : e.place <= f.place /\ (f.place <= e.place => f = e)
    BY <1>6
  <2> QED BY <2>1, FirstChosen
<1>8. Match(kind, n)' = e.id
  BY <1>5, <1>7 DEF Match
<1> QED BY <1>6, <1>8

LEMMA MatchStays ==
  ASSUME ClassifyTyped, CacheFits, CreatedFits, [ClassifyNext]_classifyVars,
         NEW kind \in Kinds, NEW n \in Names, Match(kind, n) # NoItem
  PROVE  Refreshed \/ Match(kind, n)' # NoItem
<1>1. cache' = cache \/ Refreshed \/ \E e \in Docs : Insert(e) /\ Hit(e) = NoItem
  BY Zenon DEF ClassifyNext, classifyVars, StartPoll, Fetch, TakeReply, NoReply, LookUp, Create, Recover, Rematch,
     Insert, Patch, EditField, DeleteItem, RequestShutdown
<1>2. CASE cache' = cache
  BY <1>2, MatchKept
<1>3. ASSUME NEW e \in Docs, Insert(e), Hit(e) = NoItem PROVE Match(kind, n)' # NoItem
  <2>1. /\ At(e, "insert") /\ work[e].created \in DOMAIN items
        /\ cache' = [cache EXCEPT ![Wanted(e)[1]] = @ \cup {Entry(e)}]
    BY <1>3 DEF Insert, CreatedFits
  <2>2. Matches(kind, n) # {}
    BY MatchFacts
  <2> QED BY <1>3, <2>1, <2>2, EntryAdded
<1> QED BY <1>1, <1>2, <1>3

LEMMA RejectedNext ==
  ClassifyTyped /\ CacheFits /\ CreatedFits /\ RejectedForAnItem /\ [ClassifyNext]_classifyVars => RejectedForAnItem'
<1> SUFFICES ASSUME ClassifyTyped, CacheFits, CreatedFits, RejectedForAnItem, [ClassifyNext]_classifyVars, deleted' = 0
             PROVE  /\ \A i \in DOMAIN items' : items'[i] # Gone
                    /\ \A d \in Docs : /\ At(d, "rejected")' \/ At(d, "rematch_rejected")' => Taken(d)'
                                       /\ At(d, "rematch_rejected")' => Hit(d)' # NoItem
  BY DEF RejectedForAnItem
<1>1. deleted = 0 /\ ~DeleteItem
  <2>1. deleted' = deleted \/ deleted' > 0
    BY BudgetNext
  <2>2. DeleteItem => deleted' = deleted + 1
    BY DEF DeleteItem
  <2> QED BY <2>1, <2>2
<1>2. /\ \A i \in DOMAIN items : items[i] # Gone
      /\ \A d \in Docs : /\ At(d, "rejected") \/ At(d, "rematch_rejected") => Taken(d)
                         /\ At(d, "rematch_rejected") => Hit(d) # NoItem
  BY <1>1 DEF RejectedForAnItem
<1>3. /\ \A i \in DOMAIN items : i \in DOMAIN items' /\ items'[i] = items[i]
      /\ \A i \in DOMAIN items' : items'[i] # Gone
  <2>1. ASSUME NEW d \in Docs, Create(d), NewItem(d)
        PROVE  /\ \A i \in DOMAIN items : i \in DOMAIN items' /\ items'[i] = items[i]
               /\ \A i \in DOMAIN items' : items'[i] # Gone
    <3> DEFINE item == [kind |-> Wanted(d)[1], name |-> Wanted(d)[2]]
    <3>1. work[d].at \in Asks
      BY <2>1 DEF Create, At, Asks
    <3>2. items' = Append(items, item) /\ item \in Item /\ item.kind \in Kinds
      BY <2>1, <3>1, WantedFacts DEF NewItem
    <3>3. item # Gone
      BY <3>2, GoneFacts
    <3> HIDE DEF item
    <3> QED BY <1>2, <3>2, <3>3, ItemsGrow
  <2>2. items' = items \/ \E d \in Docs : Create(d) /\ NewItem(d)
    BY <1>1, Zenon DEF ClassifyNext, classifyVars, paperless, StartPoll, Fetch, TakeReply, NoReply, LookUp, Create,
       Recover, Rematch, Insert, Patch, EditField, RequestShutdown
  <2> QED BY <1>2, <2>1, <2>2
<1>4. ASSUME NEW d \in Docs, Taken(d), work'[d].todo = work[d].todo PROVE Taken(d)'
  <2>1. Wanted(d)' = Wanted(d)
    BY <1>4, WantedKept
  <2> QED BY <1>3, <1>4, <2>1 DEF Taken
\* The thread that was rejected, and the one whose refresh came.
<1>5. ASSUME NEW d \in Docs, Taken(d), work[d].at \in Asks, work'[d].todo = work[d].todo, Refreshed \/ Hit(d) # NoItem
      PROVE  Taken(d)' /\ Hit(d)' # NoItem
  <2>1. Wanted(d)' = Wanted(d) /\ Wanted(d)[1] \in Kinds /\ Wanted(d)[2] \in Names
    BY <1>5, WantedKept, WantedFacts
  <2>2. PICK kind \in Kinds, n \in Names : kind = Wanted(d)[1] /\ n = Wanted(d)[2]
    BY <2>1
  <2>3. Match(kind, n)' # NoItem
    <3>1. CASE Refreshed
      <4>1. PICK i \in DOMAIN items : items[i] = [kind |-> kind, name |-> n]
        BY <1>5, <2>2 DEF Taken
      <4> QED BY <3>1, <4>1, RefreshHits
    <3>2. CASE ~Refreshed
      BY <1>5, <2>2, <3>2, MatchStays DEF Hit
    <3> QED BY <3>1, <3>2
  <2>4. Hit(d)' = Match(kind, n)'
    BY <2>1, <2>2 DEF Hit
  <2> QED BY <1>4, <1>5, <2>3, <2>4
<1>6. ASSUME NEW d \in Docs, At(d, "rejected")' \/ At(d, "rematch_rejected")'
      PROVE  Taken(d)' /\ (At(d, "rematch_rejected")' => Hit(d)' # NoItem)
  <2>1. CASE work'[d] = work[d]
    <3>1. Taken(d) /\ work[d].at \in Asks /\ (At(d, "rematch_rejected")' => Hit(d) # NoItem)
      BY <1>2, <1>6, <2>1 DEF At, Asks
    <3> QED BY <1>4, <1>5, <2>1, <3>1
  <2>2. ASSUME NEW e \in Docs, Others(e), e # d \/ work'[e].at \notin {"rejected", "rematch_rejected"}
        PROVE  work'[d] = work[d]
    BY <1>6, <2>2 DEF Others, At
  <2>3. ASSUME NEW e \in Docs, Goto(e, "rejected"), Taken(e), UNCHANGED items, work[e].at \in Asks
        PROVE  Taken(d)' /\ (At(d, "rematch_rejected")' => Hit(d)' # NoItem)
    <3>1. "rejected" \in Steps
      BY DEF Steps
    <3>2. Others(e) /\ work'[e].at = "rejected" /\ work'[e].todo = work[e].todo
      BY <2>3, <3>1, GotoFacts
    <3>3. CASE e = d
      BY <1>4, <2>3, <3>2, <3>3 DEF At
    <3> QED BY <2>1, <2>2, <3>2, <3>3
  <2>4. ASSUME NEW e \in Docs, Goto(e, "rematch_rejected"), At(e, "rejected"), Refreshed
        PROVE  Taken(d)' /\ (At(d, "rematch_rejected")' => Hit(d)' # NoItem)
    <3>1. "rematch_rejected" \in Steps
      BY DEF Steps
    <3>2. Others(e) /\ work'[e].at = "rematch_rejected" /\ work'[e].todo = work[e].todo
      BY <2>4, <3>1, GotoFacts
    <3>3. CASE e = d
      <4>1. Taken(d) /\ work[d].at \in Asks
        BY <1>2, <2>4, <3>3 DEF At, Asks
      <4> QED BY <1>5, <2>4, <3>2, <3>3, <4>1
    <3> QED BY <2>1, <2>2, <3>2, <3>3
  <2>5. ASSUME NEW e \in Docs, NEW step \in Steps \ {"rejected", "rematch_rejected"}, Goto(e, step)
        PROVE  work'[d] = work[d]
    <3>1. Others(e) /\ work'[e].at = step
      BY <2>5, GotoFacts
    <3> QED BY <2>2, <2>5, <3>1
  <2>6. ASSUME NEW e \in Docs, Done(e) PROVE work'[d] = work[d]
    BY <2>2, <2>6, DoneFacts
  <2>7. CASE StartPoll
    <3>1. work'[d].at \in {"done", "fetch"}
      BY <2>7 DEF StartPoll, NoWork
    <3> QED BY <1>6, <3>1 DEF At
  <2>8. ASSUME NEW e \in Docs, Fetch(e) \/ TakeReply(e) \/ NoReply(e) \/ Patch(e) PROVE work'[d] = work[d]
    <3>1. work[e] \in Works
      BY TypesAre
    <3>2. Done(e) \/ (Others(e) /\ work'[e].at \in {"ask", "look"})
      BY <2>8, <3>1, QuietSteps DEF Works
    <3> QED BY <2>2, <2>6, <3>2
  <2>9. ASSUME NEW e \in Docs, NEW id \in DOMAIN items, Resolve(e, id), work[e].at \in Asks PROVE work'[d] = work[d]
    <3>1. Others(e) /\ work'[e].at \in {"look", "patch"}
      BY <2>9, ResolveFacts
    <3> QED BY <2>2, <3>1
  <2>10. ASSUME NEW e \in Docs, LookUp(e) \/ Rematch(e) \/ Insert(e) PROVE work'[d] = work[d]
    <3>1. work[e].at \in Asks
      BY <2>10 DEF LookUp, Rematch, Insert, At, Asks
    <3>2. CASE Done(e) \/ Goto(e, "create")
      <4>1. "create" \in Steps \ {"rejected", "rematch_rejected"}
        BY DEF Steps
      <4> QED BY <2>5, <2>6, <3>2, <4>1
    <3>3. CASE Hit(e) # NoItem /\ Resolve(e, Hit(e))
      BY <2>9, <3>1, <3>3, HitFacts
    <3>4. CASE Insert(e) /\ Resolve(e, work[e].created)
      <4>1. work[e].created \in DOMAIN items
        BY <3>4 DEF Insert, CreatedFits
      <4> QED BY <2>9, <3>1, <3>4, <4>1
    <3> QED BY <2>10, <3>2, <3>3, <3>4 DEF LookUp, Rematch, Insert
  <2>11. ASSUME NEW e \in Docs, Create(e)
         PROVE  Taken(d)' /\ (At(d, "rematch_rejected")' => Hit(d)' # NoItem)
    <3>1. work[e].at \in Asks /\ "recover" \in Steps \ {"rejected", "rematch_rejected"}
      BY <2>11 DEF Create, At, Asks, Steps
    <3>2. CASE Taken(e) /\ Goto(e, "rejected") /\ UNCHANGED items
      BY <2>3, <3>1, <3>2
    <3>3. CASE Goto(e, "recover")
      BY <2>1, <2>5, <3>1, <3>3
    <3>4. CASE work' = [work EXCEPT ![e].at = "insert", ![e].created = Len(items) + 1]
      <4>1. Others(e) /\ work'[e].at = "insert"
        BY <3>4, TypesAre DEF Others, Works
      <4> QED BY <2>1, <2>2, <4>1
    <3> QED BY <2>11, <3>2, <3>3, <3>4 DEF Create
  <2>12. ASSUME NEW e \in Docs, Recover(e)
         PROVE  Taken(d)' /\ (At(d, "rematch_rejected")' => Hit(d)' # NoItem)
    <3>1. "rematch" \in Steps \ {"rejected", "rematch_rejected"}
      BY DEF Steps
    <3>2. CASE Done(e)
      BY <2>1, <2>6, <3>2
    <3>3. CASE Refreshed /\ At(e, "recover") /\ Goto(e, "rematch")
      BY <2>1, <2>5, <3>1, <3>3
    <3>4. CASE Refreshed /\ At(e, "rejected") /\ Goto(e, "rematch_rejected")
      BY <2>4, <3>4
    <3>5. At(e, "rejected") => ~At(e, "recover")
      BY DEF At
    <3> QED BY <2>12, <3>2, <3>3, <3>4, <3>5 DEF Recover
  <2>13. CASE (\E e \in Docs : EditField(e)) \/ RequestShutdown \/ UNCHANGED classifyVars
    <3>1. UNCHANGED work
      BY <2>13, Zenon DEF EditField, RequestShutdown, classifyVars
    <3> QED BY <2>1, <3>1
  <2> QED BY <1>1, <2>1, <2>7, <2>8, <2>10, <2>11, <2>12, <2>13, Zenon DEF ClassifyNext
<1> QED BY <1>3, <1>6

LEMMA ServedInit == ClassifyInit => ServedFairly
<1> SUFFICES ASSUME ClassifyInit PROVE ServedFairly
  OBVIOUS
<1>1. /\ case \in Cases /\ items = case.items /\ work = [d \in Docs |-> NoWork]
      /\ paper = [d \in Docs |-> [state |-> "queued", ids |-> {}, fields |-> DocOf(d).fields]]
      /\ mine = [d \in Docs |-> DocOf(d).fields]
  BY DEF ClassifyInit
<1>2. \A d \in Docs : work[d].at = "done" /\ paper[d].state = "queued" /\ mine[d] = paper[d].fields
  BY <1>1 DEF NoWork
<1>3. RequiredComes /\ FieldsWereRead /\ HealthyDocumentsAreKept /\ RequiredTagsArrive /\ UserFieldsAreKept
  BY <1>2 DEF RequiredComes, FieldsWereRead, HealthyDocumentsAreKept, RequiredTagsArrive, UserFieldsAreKept, At, Asks
<1>4. RejectedForAnItem
  <2>1. case.items \in Seq(Item)
    BY <1>1, CasesAssumption DEF Item
  <2>2. \A i \in DOMAIN items : items[i] \in Item
    BY <1>1, <2>1, ElementOfSeq, LenProperties
  <2>3. \A i \in DOMAIN items : items[i] # Gone
    BY <2>2 DEF Item, Gone, Kinds
  <2> QED BY <1>2, <2>3 DEF RejectedForAnItem, At
<1> QED BY <1>3, <1>4 DEF ServedFairly

LEMMA ServedNext ==
  ClassifyTyped /\ CacheFits /\ CreatedFits /\ ServedFairly /\ [ClassifyNext]_classifyVars => ServedFairly'
BY RejectedNext, RequiredComesNext, FieldsNext, HealthyNext, RequiredArriveNext DEF ServedFairly

\* The classifier's threads agree on one taxonomy and serve each document
\* fairly: whatever the names, the normal forms, the documents and the
\* interleaving, this is what holds of the cache, the threads and Paperless.
THEOREM ClassifyInvariant == ClassifySpec => []ClassifyInv
<1>1. ClassifyInit => ClassifyInv
  BY ClassifyTypedInit, OneTaxonomyInit, ServedInit DEF ClassifyInv
<1>2. ClassifyInv /\ [ClassifyNext]_classifyVars => ClassifyInv'
  BY ClassifyTypedNext, WorkFollowsNext, OneTaxonomyNext, ServedNext DEF ClassifyInv, OneTaxonomy
<1> QED BY <1>1, <1>2, PTL DEF ClassifySpec

\* However the threads interleave, names that count as the same get the same
\* item until the next refresh, the cache keeps one entry for a name, and
\* Paperless has a name twice only after a race or a lost reply that no refresh
\* followed.
THEOREM TaxonomyStaysSound == ClassifySpec => []TaxonomyIsSound
<1>1. ClassifyInv => TaxonomyIsSound
  <2> SUFFICES ASSUME ClassifyTyped, CacheFits, GivenHolds, TwinsNeedARace PROVE TaxonomyIsSound
    BY DEF ClassifyInv, OneTaxonomy
  <2>1. ClassifyTypeOK
    <3>1. \A d \in Docs : paper[d] \in Papers /\ work[d] \in Works
      BY TypesAre
    <3>2. \A d \in Docs : /\ paper[d].state \in {"queued", "saved", "error", "ocr"} /\ work[d].at \in Steps
                          /\ work[d].ids \cup paper[d].ids \subseteq Kinds \X DOMAIN items
      BY <3>1 DEF Papers, Works, Ids
    <3>3. \A i \in DOMAIN items : items[i] = Gone \/ items[i].kind \in Kinds
      BY ItemFacts
    <3> QED BY <3>2, <3>3 DEF ClassifyTypeOK, ClassifyTyped, CacheFits
  <2>2. SameNameSameItem
    <3> SUFFICES ASSUME NEW x \in given, NEW y \in given, x[1] = y[1], x[2] = y[2] PROVE x[3] = y[3]
      BY DEF SameNameSameItem
    <3>1. PICK n \in Names : Key(x[1], n) = x[2]
      BY DEF GivenHolds
    <3> QED BY <3>1 DEF GivenHolds
  <2> QED BY <2>1, <2>2 DEF TaxonomyIsSound
<1> QED BY <1>1, ClassifyInvariant, PTL

\* A document gets what is its own: the error tag for no failure of another
\* thread, of the network or of a shutdown, an item for every required tag with
\* no more suggestions than the limit, and the fields its user set before the
\* thread read them.
THEOREM DocumentsStayServed == ClassifySpec => []DocumentsAreServed
<1>1. ClassifyInv => DocumentsAreServed
  BY DEF ClassifyInv, ServedFairly, DocumentsAreServed
<1> QED BY <1>1, ClassifyInvariant, PTL
=============================================================================
