---------------------------- MODULE CommonProofs ----------------------------
(***************************************************************************)
(* What TLAPS proves of the parts that every daemon shares, the code under *)
(* src/src/common: the polling loop and its breaker (BatchLoop), the chat  *)
(* layer (ChatModels) and the configuration (Settings).  Each is proved    *)
(* from its own specification, and the three share no name.                *)
(***************************************************************************)
EXTENDS BatchLoop, ChatModels, Settings, FiniteSetTheorems, TLAPS

-----------------------------------------------------------------------------
(* The polling loop: for every queue, number of workers and threshold      *)

LEMMA LoopConstants ==
    /\ IsFiniteSet(Doc)
    /\ MaxWorkers \in Nat \ {0} /\ Threshold \in Nat \ {0}
    /\ MaxChanges \in Nat /\ MaxBoots \in Nat
  BY DocIsFinite, WorkersArePositive, ThresholdIsPositive, BoundsAreNatural

-----------------------------------------------------------------------------
(* Type correctness *)

LEMMA TypedLoopStep == ASSUME LoopTypeOK, LoopStep PROVE LoopTypeOK'
<1>1. CASE Exit
  BY <1>1 DEF LoopTypeOK, Exit, Phase, breaker
<1>2. CASE BeforePoll
  <2>1. phase' \in Phase /\ changed' \in BOOLEAN /\ tripped' \in BOOLEAN
    BY <1>2, ZenonT(30) DEF LoopTypeOK, BeforePoll, Phase, breaker
  <2>2. streak' \in Nat /\ burnt' \in Nat
    BY <1>2 DEF LoopTypeOK, BeforePoll, breaker
  <2> QED BY <1>2, <2>1, <2>2 DEF LoopTypeOK, BeforePoll
<1>3. CASE InvalidConfig
  BY <1>3 DEF LoopTypeOK, InvalidConfig, Phase, breaker
<1>4. CASE NoWork
  BY <1>4 DEF LoopTypeOK, NoWork, Phase, breaker
<1>5. CASE FetchWork
  BY <1>5 DEF LoopTypeOK, FetchWork, Phase, breaker
<1>6. CASE DispatchChunk
  BY <1>6 DEF LoopTypeOK, DispatchChunk, Submit, Stage, breaker
<1>7. CASE EndBatch
  BY <1>7 DEF LoopTypeOK, EndBatch, Phase, Stage, breaker
<1>8. CASE Wake
  BY <1>8 DEF LoopTypeOK, Wake, Phase, breaker
<1> QED BY <1>1, <1>2, <1>3, <1>4, <1>5, <1>6, <1>7, <1>8 DEF LoopStep

LEMMA TypedWorkerStep ==
  ASSUME LoopTypeOK, NEW d \in Doc, WorkerStep(d)
  PROVE  LoopTypeOK'
<1>1. /\ queue' \subseteq Doc
      /\ job' \in [Doc -> Stage]
      /\ streak' \in Nat /\ tripped' \in BOOLEAN
      /\ burnt' \in Nat
  <2>1. CASE Start(d) \/ SkipHalted(d)
    BY <2>1 DEF LoopTypeOK, Start, SkipHalted, Moves, Stage, Quiet, breaker
  <2>2. CASE CallModel(d)
    BY <2>2 DEF LoopTypeOK, CallModel, Moves, Stage, breaker
  <2>3. CASE PassOver(d) \/ SkipRejected(d)
    BY <2>3 DEF LoopTypeOK, PassOver, SkipRejected, Moves, Stage, Dequeue, Quiet, breaker
  <2>4. CASE Save(d) \/ Reject(d) \/ NoResult(d)
    BY <2>4 DEF LoopTypeOK, Save, Reject, NoResult, Moves, Stage, Dequeue, Quiet, breaker
  <2>5. CASE RecordSuccess(d) \/ RecordFailure(d)
    <3>1. tripped' \in BOOLEAN
      BY <2>5, ZenonT(30) DEF LoopTypeOK, RecordSuccess, RecordFailure
    <3>2. queue' \subseteq Doc /\ streak' \in Nat /\ burnt' \in Nat
      BY <2>5 DEF LoopTypeOK, RecordSuccess, RecordFailure
    <3>3. job' \in [Doc -> Stage]
      BY <2>5 DEF LoopTypeOK, RecordSuccess, RecordFailure, Moves, Stage
    <3> QED BY <3>1, <3>2, <3>3
  <2> QED BY <2>1, <2>2, <2>3, <2>4, <2>5 DEF WorkerStep
<1>2. Worker
  BY DEF WorkerStep, Start, SkipHalted, CallModel, PassOver, SkipRejected, Save, Reject,
         NoResult, RecordSuccess, RecordFailure
<1> QED BY <1>1, <1>2 DEF LoopTypeOK, Worker, loop

LEMMA TypedNext == LoopTypeOK /\ [LoopNext]_loopVars => LoopTypeOK'
<1> SUFFICES ASSUME LoopTypeOK, [LoopNext]_loopVars PROVE LoopTypeOK'
  OBVIOUS
<1>1. CASE UNCHANGED loopVars
  BY <1>1 DEF LoopTypeOK, loopVars, loop, breaker
<1>2. ASSUME NEW d \in Doc, Arrive(d) PROVE LoopTypeOK'
  BY <1>2 DEF LoopTypeOK, Arrive, loop, breaker
<1>3. CASE ChangeConfig
  BY <1>3, LoopConstants DEF LoopTypeOK, ChangeConfig, breaker
<1>4. CASE Stop
  BY <1>4 DEF LoopTypeOK, Stop, breaker
<1>5. CASE Boot
  <2>1. phase' \in Phase /\ changed' \in BOOLEAN /\ stopping' \in BOOLEAN /\ tripped' \in BOOLEAN
    BY <1>5, ZenonT(30) DEF Boot, Phase
  <2>2. streak' \in Nat /\ burnt' \in Nat /\ boots' \in 0..MaxBoots
    BY <1>5, LoopConstants DEF LoopTypeOK, Boot
  <2> QED BY <1>5, <2>1, <2>2 DEF LoopTypeOK, Boot
<1> QED BY <1>1, <1>2, <1>3, <1>4, <1>5, TypedLoopStep, TypedWorkerStep DEF LoopNext

LEMMA TypedInit == LoopInit => LoopTypeOK
<1> SUFFICES ASSUME LoopInit PROVE LoopTypeOK
  OBVIOUS
<1>1. phase \in Phase /\ changed \in BOOLEAN /\ stopping \in BOOLEAN /\ tripped \in BOOLEAN
  BY ZenonT(30) DEF LoopInit, Phase
<1>2. /\ queue \subseteq Doc /\ pending \subseteq Doc
      /\ job \in [Doc -> Stage]
      /\ streak \in Nat /\ burnt \in Nat
      /\ changes \in 0..MaxChanges /\ boots \in 0..MaxBoots
  BY LoopConstants DEF LoopInit, Stage
<1> QED BY <1>1, <1>2 DEF LoopTypeOK

\* The type invariant of module BatchLoop holds in every behaviour: the counters
\* of the breaker are numbers, and every job is at a stage of its worker.
THEOREM LoopTypeCorrect == LoopSpec => []LoopTypeOK
<1> QED BY TypedInit, TypedNext, PTL DEF LoopSpec

-----------------------------------------------------------------------------
(* The inductive invariant.  The bounds on the streak and on the calls     *)
(* count, beside what has happened, what the workers that have passed the  *)
(* check of the breaker can still do; the chunk bounds their number.       *)

PoolIsBounded == Cardinality(Live) <= MaxWorkers
NoJobBetweenBatches == phase # "batch" => Live = {}
Armed == ~tripped => streak < Threshold /\ burnt = 0
StreakBudget == tripped => streak + Cardinality(Going) <= Threshold + MaxWorkers - 1
BurnBudget == tripped => burnt + Cardinality(Started) <= MaxWorkers - 1

LoopInductiveInv ==
    /\ LoopTypeOK
    /\ PoolIsBounded /\ NoJobBetweenBatches
    /\ Armed /\ StreakBudget /\ BurnBudget

\* The three sets of jobs are finite, and each contains the next.
LEMMA JobSets ==
    /\ Live \subseteq Doc /\ Going \subseteq Live /\ Started \subseteq Going
    /\ IsFiniteSet(Live) /\ IsFiniteSet(Going) /\ IsFiniteSet(Started)
    /\ Cardinality(Live) \in Nat /\ Cardinality(Going) \in Nat /\ Cardinality(Started) \in Nat
<1>1. Live \subseteq Doc /\ Going \subseteq Live /\ Started \subseteq Going
  BY DEF Live, Going, Started
<1>2. IsFiniteSet(Live)
  BY <1>1, LoopConstants, FS_Subset
<1>3. IsFiniteSet(Going)
  BY <1>1, <1>2, FS_Subset
<1>4. IsFiniteSet(Started)
  BY <1>1, <1>3, FS_Subset
<1> QED BY <1>1, <1>2, <1>3, <1>4, FS_CardinalityType

\* The same of the sets after a step.
LEMMA JobSetsNext ==
    /\ Live' \subseteq Doc /\ Going' \subseteq Live' /\ Started' \subseteq Going'
    /\ IsFiniteSet(Live') /\ IsFiniteSet(Going') /\ IsFiniteSet(Started')
    /\ Cardinality(Live') \in Nat /\ Cardinality(Going') \in Nat /\ Cardinality(Started') \in Nat
<1>1. Live' \subseteq Doc /\ Going' \subseteq Live' /\ Started' \subseteq Going'
  BY DEF Live, Going, Started
<1>2. IsFiniteSet(Live')
  BY <1>1, LoopConstants, FS_Subset
<1>3. IsFiniteSet(Going')
  BY <1>1, <1>2, FS_Subset
<1>4. IsFiniteSet(Started')
  BY <1>1, <1>3, FS_Subset
<1> QED BY <1>1, <1>2, <1>3, <1>4, FS_CardinalityType

LEMMA SmallerSet ==
  ASSUME NEW S, NEW T, IsFiniteSet(S), T \subseteq S
  PROVE  Cardinality(T) <= Cardinality(S)
  BY FS_Subset

LEMMA LosesOne ==
  ASSUME NEW S, NEW T, NEW x \in S, IsFiniteSet(S), T \subseteq S \ {x}
  PROVE  Cardinality(T) <= Cardinality(S) - 1
<1>1. IsFiniteSet(S \ {x}) /\ Cardinality(S \ {x}) = Cardinality(S) - 1
  BY FS_RemoveElement
<1> QED BY <1>1, FS_Subset

LEMMA LoopInitInv == LoopInit => LoopInductiveInv
<1> SUFFICES ASSUME LoopInit PROVE LoopInductiveInv
  OBVIOUS
<1>1. Live = {}
  BY DEF LoopInit, Live
<1>2. Cardinality(Live) = 0
  BY <1>1, FS_EmptySet
<1>3. PoolIsBounded /\ NoJobBetweenBatches
  BY <1>1, <1>2, LoopConstants DEF PoolIsBounded, NoJobBetweenBatches
<1>4. Armed /\ StreakBudget /\ BurnBudget
  BY LoopConstants DEF LoopInit, Armed, StreakBudget, BurnBudget
<1> QED BY <1>3, <1>4, TypedInit DEF LoopInductiveInv

\* Steps that leave the jobs and the breaker alone.
LEMMA QuietStep ==
  ASSUME LoopInductiveInv, LoopTypeOK', UNCHANGED <<job, streak, tripped, burnt>>,
         phase' # "batch" => Live = {}
  PROVE  LoopInductiveInv'
<1>1. Live' = Live /\ Going' = Going /\ Started' = Started
  BY DEF Live, Going, Started
<1>2. PoolIsBounded' /\ NoJobBetweenBatches'
  BY <1>1 DEF LoopInductiveInv, PoolIsBounded, NoJobBetweenBatches
<1>3. Armed' /\ StreakBudget' /\ BurnBudget'
  BY <1>1 DEF LoopInductiveInv, Armed, StreakBudget, BurnBudget
<1> QED BY <1>2, <1>3 DEF LoopInductiveInv

\* A reset of the breaker, which only happens when no job is live.
LEMMA Reset ==
  ASSUME LoopInductiveInv, LoopTypeOK', UNCHANGED job, Live = {},
         streak' = 0, tripped' = FALSE, burnt' = 0
  PROVE  LoopInductiveInv'
<1>1. Live' = {}
  BY DEF Live
<1>2. Cardinality(Live') = 0
  BY <1>1, FS_EmptySet
<1>3. PoolIsBounded' /\ NoJobBetweenBatches'
  BY <1>1, <1>2, LoopConstants DEF PoolIsBounded, NoJobBetweenBatches
<1>4. Armed' /\ StreakBudget' /\ BurnBudget'
  BY LoopConstants DEF Armed, StreakBudget, BurnBudget
<1> QED BY <1>3, <1>4 DEF LoopInductiveInv

LEMMA LoopInv == ASSUME LoopInductiveInv, LoopStep PROVE LoopInductiveInv'
<1> USE DEF LoopInductiveInv
<1>0. LoopTypeOK'
  BY TypedLoopStep
<1>1. CASE Exit
  BY <1>0, <1>1, QuietStep DEF Exit, breaker, NoJobBetweenBatches
<1>2. CASE BeforePoll
  <2>1. Live = {} /\ UNCHANGED job
    BY <1>2 DEF BeforePoll, NoJobBetweenBatches
  <2>2. CASE changed
    BY <1>0, <1>2, <2>1, <2>2, Reset DEF BeforePoll
  <2>3. CASE ~changed
    BY <1>0, <1>2, <2>1, <2>3, QuietStep DEF BeforePoll, breaker
  <2> QED BY <2>2, <2>3
<1>3. CASE InvalidConfig
  BY <1>0, <1>3, QuietStep DEF InvalidConfig, breaker, NoJobBetweenBatches
<1>4. CASE NoWork
  BY <1>0, <1>4, QuietStep DEF NoWork, breaker, NoJobBetweenBatches
<1>5. CASE FetchWork
  BY <1>0, <1>5, QuietStep DEF FetchWork, breaker, NoJobBetweenBatches
<1>6. CASE DispatchChunk
  <2>1. PICK chunk \in SUBSET pending : Cardinality(chunk) <= MaxWorkers /\ Submit(chunk)
    BY <1>6 DEF DispatchChunk
  <2>2. ~tripped /\ UNCHANGED <<phase, streak, tripped, burnt>> /\ phase = "batch"
    BY <1>6, <2>1 DEF DispatchChunk, Submit, breaker
  <2>3. Live' \subseteq chunk
    BY <2>1 DEF Submit, Live
  <2>4. IsFiniteSet(chunk) /\ Cardinality(chunk) \in Nat
    BY LoopConstants, FS_Subset, FS_CardinalityType DEF LoopTypeOK
  <2>5. PoolIsBounded'
    BY <2>1, <2>3, <2>4, SmallerSet, JobSetsNext, LoopConstants DEF PoolIsBounded
  <2>6. NoJobBetweenBatches' /\ Armed' /\ StreakBudget' /\ BurnBudget'
    BY <2>2 DEF NoJobBetweenBatches, Armed, StreakBudget, BurnBudget
  <2> QED BY <1>0, <2>5, <2>6
<1>7. CASE EndBatch
  <2>1. Live = {} /\ Live' = {}
    BY <1>7 DEF EndBatch, Live
  <2>2. Cardinality(Live') = 0
    BY <2>1, FS_EmptySet
  <2>3. PoolIsBounded' /\ NoJobBetweenBatches'
    BY <2>1, <2>2, LoopConstants DEF PoolIsBounded, NoJobBetweenBatches
  <2>4. Going' = Going /\ Started' = Started
    BY <2>1, JobSets, JobSetsNext
  <2>5. Armed' /\ StreakBudget' /\ BurnBudget'
    BY <1>7, <2>4 DEF EndBatch, breaker, Armed, StreakBudget, BurnBudget
  <2> QED BY <1>0, <2>3, <2>5
<1>8. CASE Wake
  BY <1>0, <1>8, QuietStep DEF Wake, breaker, NoJobBetweenBatches
<1> QED BY <1>1, <1>2, <1>3, <1>4, <1>5, <1>6, <1>7, <1>8 DEF LoopStep

-----------------------------------------------------------------------------
(* The workers: no step of one adds a live job. *)

LEMMA WorkersLeaveThePool ==
  ASSUME LoopInductiveInv, NEW d \in Doc, WorkerStep(d)
  PROVE  PoolIsBounded' /\ NoJobBetweenBatches' /\ Live' \subseteq Live
<1>1. job[d] \in {"submitted", "started", "called", "saved", "rejected"}
  BY DEF WorkerStep, Start, SkipHalted, CallModel, PassOver, SkipRejected, Save, Reject,
         NoResult, RecordSuccess, RecordFailure, Moves
<1>2. \E to \in Stage : job' = [job EXCEPT ![d] = to]
  BY DEF WorkerStep, Start, SkipHalted, CallModel, PassOver, SkipRejected, Save, Reject,
         NoResult, RecordSuccess, RecordFailure, Moves, Stage
<1>3. Live' \subseteq Live
  BY <1>1, <1>2 DEF LoopInductiveInv, LoopTypeOK, Live
<1>4. phase' = phase
  BY DEF WorkerStep, Start, SkipHalted, CallModel, PassOver, SkipRejected, Save, Reject,
         NoResult, RecordSuccess, RecordFailure, Worker, loop
<1>5. Cardinality(Live') <= Cardinality(Live)
  BY <1>3, JobSets, SmallerSet
<1> QED BY <1>3, <1>4, <1>5, JobSets, JobSetsNext, LoopConstants
        DEF LoopInductiveInv, PoolIsBounded, NoJobBetweenBatches

\* A step that does not report to the breaker: while it is tripped nobody passes
\* its check, and a call is made by a job that had not called.
LEMMA WorkInv ==
  ASSUME LoopInductiveInv, NEW d \in Doc, WorkerStep(d), ~RecordSuccess(d), ~RecordFailure(d)
  PROVE  Armed' /\ StreakBudget' /\ BurnBudget'
<1> USE DEF LoopInductiveInv
<1>1. UNCHANGED <<streak, tripped>>
  BY DEF WorkerStep, Start, SkipHalted, CallModel, PassOver, SkipRejected, Save, Reject,
         NoResult, Quiet, breaker
<1>2. tripped => Going' \subseteq Going /\ Started' \subseteq Started
  BY DEF WorkerStep, Start, SkipHalted, CallModel, PassOver, SkipRejected, Save, Reject,
         NoResult, Moves, LoopTypeOK, Going, Started
<1>3. tripped => Cardinality(Going') <= Cardinality(Going) /\ Cardinality(Started') <= Cardinality(Started)
  BY <1>2, JobSets, SmallerSet
<1>4. StreakBudget'
  BY <1>1, <1>3, JobSets, JobSetsNext, LoopConstants DEF StreakBudget, LoopTypeOK
<1>5. CASE CallModel(d)
  <2>1. d \in Started /\ Started' \subseteq Started \ {d}
    BY <1>5 DEF CallModel, Moves, Started, LoopTypeOK
  <2>2. Cardinality(Started') <= Cardinality(Started) - 1
    BY <2>1, JobSets, LosesOne
  <2>3. burnt' = IF tripped THEN burnt + 1 ELSE burnt
    BY <1>5 DEF CallModel
  <2>4. BurnBudget'
    BY <1>1, <2>2, <2>3, JobSets, JobSetsNext, LoopConstants DEF BurnBudget, LoopTypeOK
  <2>5. Armed'
    BY <1>1, <2>3 DEF Armed
  <2> QED BY <1>4, <2>4, <2>5
<1>6. CASE ~CallModel(d)
  <2>1. burnt' = burnt
    BY <1>6 DEF WorkerStep, Start, SkipHalted, PassOver, SkipRejected, Save, Reject,
           NoResult, Quiet
  <2>2. BurnBudget'
    BY <1>1, <1>3, <2>1, JobSets, JobSetsNext, LoopConstants DEF BurnBudget, LoopTypeOK
  <2> QED BY <1>1, <1>4, <2>1, <2>2 DEF Armed
<1> QED BY <1>5, <1>6

LEMMA SuccessInv ==
  ASSUME LoopInductiveInv, NEW d \in Doc, RecordSuccess(d)
  PROVE  Armed' /\ StreakBudget' /\ BurnBudget'
<1> USE DEF LoopInductiveInv
<1>1. streak' = 0 /\ UNCHANGED <<tripped, burnt>>
  BY DEF RecordSuccess
<1>2. Going' \subseteq Going /\ Started' = Started
  BY DEF RecordSuccess, Moves, LoopTypeOK, Going, Started
<1>3. Cardinality(Going') <= Cardinality(Going)
  BY <1>2, JobSets, SmallerSet
<1>4. StreakBudget'
  BY <1>1, <1>3, JobSets, JobSetsNext, LoopConstants DEF StreakBudget, LoopTypeOK
<1>5. BurnBudget' /\ Armed'
  BY <1>1, <1>2, LoopConstants DEF BurnBudget, Armed
<1> QED BY <1>4, <1>5

LEMMA FailureInv ==
  ASSUME LoopInductiveInv, NEW d \in Doc, RecordFailure(d)
  PROVE  Armed' /\ StreakBudget' /\ BurnBudget'
<1> USE DEF LoopInductiveInv
<1>1. streak' = streak + 1 /\ burnt' = burnt
  BY DEF RecordFailure
<1>2. d \in Going /\ Going' \subseteq Going \ {d}
  BY DEF RecordFailure, Moves, LoopTypeOK, Going
<1>3. d \in Live /\ d \notin Started /\ Started' = Started
  BY DEF RecordFailure, Moves, LoopTypeOK, Started, Live
<1>4. Cardinality(Going') <= Cardinality(Going) - 1
  BY <1>2, JobSets, LosesOne
<1>5. Cardinality(Started) <= Cardinality(Live) - 1
  BY <1>3, JobSets, LosesOne
<1>6. Cardinality(Going) <= Cardinality(Live)
  BY JobSets, SmallerSet
<1>7. CASE tripped
  <2>1. tripped'
    BY <1>7 DEF RecordFailure
  <2>2. StreakBudget'
    BY <1>1, <1>4, <1>7, JobSets, JobSetsNext, LoopConstants DEF StreakBudget, LoopTypeOK
  <2>3. BurnBudget'
    BY <1>1, <1>3, <1>7 DEF BurnBudget
  <2> QED BY <2>1, <2>2, <2>3 DEF Armed
<1>8. CASE ~tripped
  <2>1. streak < Threshold /\ burnt = 0
    BY <1>8 DEF Armed
  <2>2. tripped' <=> streak' >= Threshold
    BY <1>8 DEF RecordFailure
  <2>3. Armed'
    BY <1>1, <2>1, <2>2, LoopConstants DEF Armed, LoopTypeOK
  <2>4. StreakBudget'
    BY <1>1, <1>4, <1>6, <2>1, JobSets, JobSetsNext, LoopConstants
       DEF StreakBudget, PoolIsBounded, LoopTypeOK
  <2>5. BurnBudget'
    BY <1>1, <1>3, <1>5, <2>1, JobSets, JobSetsNext, LoopConstants
       DEF BurnBudget, PoolIsBounded, LoopTypeOK
  <2> QED BY <2>3, <2>4, <2>5
<1> QED BY <1>7, <1>8

LEMMA WorkerInv == ASSUME LoopInductiveInv, NEW d \in Doc, WorkerStep(d) PROVE LoopInductiveInv'
<1>1. LoopTypeOK'
  BY TypedWorkerStep DEF LoopInductiveInv
<1>2. Armed' /\ StreakBudget' /\ BurnBudget'
  BY WorkInv, SuccessInv, FailureInv
<1> QED BY <1>1, <1>2, WorkersLeaveThePool DEF LoopInductiveInv

LEMMA NextInv == LoopInductiveInv /\ [LoopNext]_loopVars => LoopInductiveInv'
<1> SUFFICES ASSUME LoopInductiveInv, [LoopNext]_loopVars PROVE LoopInductiveInv'
  OBVIOUS
<1>0. LoopTypeOK'
  BY TypedNext DEF LoopInductiveInv
<1>1. CASE UNCHANGED loopVars
  BY <1>0, <1>1, QuietStep DEF LoopInductiveInv, loopVars, loop, breaker, NoJobBetweenBatches
<1>2. ASSUME NEW d \in Doc, Arrive(d) PROVE LoopInductiveInv'
  BY <1>0, <1>2, QuietStep DEF LoopInductiveInv, Arrive, loop, breaker, NoJobBetweenBatches
<1>3. CASE ChangeConfig
  BY <1>0, <1>3, QuietStep DEF LoopInductiveInv, ChangeConfig, breaker, NoJobBetweenBatches
<1>4. CASE Stop
  BY <1>0, <1>4, QuietStep DEF LoopInductiveInv, Stop, breaker, NoJobBetweenBatches
<1>5. CASE Boot
  BY <1>0, <1>5, Reset DEF LoopInductiveInv, Boot, NoJobBetweenBatches
<1> QED BY <1>1, <1>2, <1>3, <1>4, <1>5, LoopInv, WorkerInv DEF LoopNext

LEMMA Inductive == LoopSpec => []LoopInductiveInv
<1> QED BY LoopInitInv, NextInv, PTL DEF LoopSpec

-----------------------------------------------------------------------------
(* The promises of the breaker *)

\* The failures in a row exceed the threshold by no more than the other workers
\* of one chunk, however deep the queue is (_process_batch).
THEOREM StreakBounded == LoopSpec => []StreakIsBounded
<1>1. LoopInductiveInv => StreakIsBounded
  BY JobSets, LoopConstants DEF LoopInductiveInv, LoopTypeOK, Armed, StreakBudget, StreakIsBounded
<1> QED BY <1>1, Inductive, PTL

\* After the breaker has tripped, at most the other workers of one chunk still
\* call the model (_process_batch).
THEOREM BurnBounded == LoopSpec => []BurnIsBounded
<1>1. LoopInductiveInv => BurnIsBounded
  BY JobSets, LoopConstants DEF LoopInductiveInv, LoopTypeOK, Armed, BurnBudget, BurnIsBounded
<1> QED BY <1>1, Inductive, PTL

\* A streak of the length of the threshold always finds the breaker tripped
\* (WriteBackCircuitBreaker.record_failure).
THEOREM LongStreakHalted == LoopSpec => []LongStreakHalts
<1>1. LoopInductiveInv => LongStreakHalts
  BY LoopConstants DEF LoopInductiveInv, LoopTypeOK, Armed, LongStreakHalts
<1> QED BY <1>1, Inductive, PTL

\* All promises of the breaker together, for every queue, number of workers and
\* threshold (daemon_loop.run_polling_threadpool, WriteBackCircuitBreaker).
THEOREM BreakerSound == LoopSpec => []BreakerIsSound
BY LoopTypeCorrect, StreakBounded, BurnBounded, LongStreakHalted, PTL DEF BreakerIsSound

\* Only a changed configuration or a new process lifts the halt, and no worker
\* of the time before is left when it does (_reload_if_changed, reset).
THEOREM HaltLiftedCleanly == LoopSpec => HaltIsLiftedCleanly
<1>1. LoopInductiveInv /\ [LoopNext]_loopVars => (tripped /\ ~tripped' => (changed \/ phase = "off") /\ Live = {})
  <2> SUFFICES ASSUME LoopInductiveInv, LoopNext, tripped, ~tripped'
               PROVE  (changed \/ phase = "off") /\ Live = {}
    BY DEF loopVars, breaker
  <2>1. CASE Boot
    BY <2>1 DEF Boot, LoopInductiveInv, NoJobBetweenBatches
  <2>2. CASE LoopStep
    BY <2>2 DEF LoopStep, Exit, BeforePoll, InvalidConfig, NoWork, FetchWork, DispatchChunk,
       Submit, EndBatch, Wake, breaker, LoopInductiveInv, NoJobBetweenBatches
  <2>3. ASSUME NEW d \in Doc, Arrive(d) \/ WorkerStep(d) PROVE FALSE
    BY <2>3 DEF Arrive, WorkerStep, Start, SkipHalted, CallModel, PassOver, SkipRejected,
       Save, Reject, NoResult, RecordSuccess, RecordFailure, Quiet, breaker
  <2>4. CASE ChangeConfig \/ Stop
    BY <2>4 DEF ChangeConfig, Stop, breaker
  <2> QED BY <2>1, <2>2, <2>3, <2>4 DEF LoopNext
<1> QED BY <1>1, Inductive, PTL DEF LoopSpec, HaltIsLiftedCleanly

-----------------------------------------------------------------------------
(* The chat layer: for any threads, chains of models and reloads           *)

-----------------------------------------------------------------------------
(* The inductive invariant, in its parts                                   *)

CallType == [at : Ats, turn : 0 .. Len(setup.chain), params : SUBSET setup.asked,
             client : 0 .. Len(setup.configs), guard : 0 .. Len(setup.configs),
             live : BOOLEAN, tries : 0 .. MaxRetries - 1,
             strips : 0 .. Cardinality(setup.asked)]

\* The two waits of a call under a permit know their semaphore, and a reload
\* has a configuration to go to.
CallsTyped ==
  /\ TypeOK /\ DOMAIN lost = Callers
  /\ wasted \in [Models -> Nat]
  /\ \A c \in Callers : calls[c].at \in {"queue", "call"} => calls[c].guard \in DOMAIN setup.configs
  /\ reload # "idle" => inForce < Len(setup.configs)

Holders(g) == {c \in Callers : InFlight(c) /\ calls[c].guard = g}
Permits == \A g \in DOMAIN setup.configs :
  Bounded(g) => free[g] + Cardinality(Holders(g)) = Limit(g)

\* Every strip takes one of the parameters away.
Stripped(c) == calls[c].strips + Cardinality(calls[c].params) <= Cardinality(setup.asked)

Given(c) == {l[1] : l \in lost[c]}

\* The models before the current one are those given up, each for one cause.
Chained(c) ==
  /\ calls[c].at # "idle" => /\ calls[c].turn \in FirstUses /\ out[c] = "" /\ made[c] < setup.calls
                             /\ Given(c) = {i \in FirstUses : i < calls[c].turn}
  /\ out[c] = "none" => Given(c) = FirstUses
  /\ \A k, l \in lost[c] : k[1] = l[1] => k = l
  /\ \A l \in lost[c] : l[2] = "capacity" => stop

\* The requests that may still be paid for in vain at model x: a caller and a
\* parameter that is not yet known to be rejected, or known but already in the
\* caller's request.
Known(x) == setup.rejects[x] \cap setup.asked
May(x) == {a \in Callers \X Known(x) :
             \/ a[2] \notin rejected[x]
             \/ calls[a[1]].at # "idle" /\ ModelOf(a[1]) = x /\ a[2] \in calls[a[1]].params}
Learned == \A x \in Models :
  wasted[x] + Cardinality(May(x)) <= Cardinality(Callers) * Cardinality(Known(x))

CallInv == /\ CallsTyped /\ Permits /\ Learned
        /\ \A c \in Callers : Stripped(c) /\ Chained(c)

-----------------------------------------------------------------------------
(* Facts about setups, chains and finite sets                              *)

LEMMA SetupFacts ==
  ASSUME setup \in Setups
  PROVE  /\ Len(setup.chain) \in Nat \ {0} /\ DOMAIN setup.chain = 1 .. Len(setup.chain)
         /\ Len(setup.configs) \in Nat \ {0} /\ DOMAIN setup.configs = 1 .. Len(setup.configs)
         /\ \A g \in DOMAIN setup.configs : Limit(g) \in Nat
         /\ IsFiniteSet(setup.asked) /\ Cardinality(setup.asked) \in Nat
         /\ Cardinality(setup.asked) <= RegistryRows
         /\ setup.calls \in Nat /\ MaxRetries \in Nat \ {0} /\ RegistryRows \in Nat
BY SetupsAreSound, RetriesAssumption, FS_CardinalityType DEF Limit, Config

LEMMA PartOfAsked ==
  ASSUME setup \in Setups, NEW P \in SUBSET setup.asked
  PROVE  /\ IsFiniteSet(P) /\ Cardinality(P) \in Nat /\ Cardinality(P) <= Cardinality(setup.asked)
         /\ \A p \in P : Cardinality(P \ {p}) = Cardinality(P) - 1
BY SetupFacts, FS_Subset, FS_CardinalityType, FS_RemoveElement

LEMMA FirstUsesStart ==
  ASSUME setup \in Setups
  PROVE  1 \in FirstUses /\ FirstUses \subseteq 1 .. Len(setup.chain)
BY SetupFacts DEF FirstUses

\* A finite set of numbers that is not empty has a least element.
LEMMA Least ==
  ASSUME NEW S \in SUBSET Nat, IsFiniteSet(S), S # {}
  PROVE  \E m \in S : \A y \in S : m <= y
<1> DEFINE Bad == {T \in SUBSET S : T # {} /\ ~\E m \in T : \A y \in T : m <= y}
<1> SUFFICES ASSUME Bad # {} PROVE FALSE
  OBVIOUS
<1>1. Bad \subseteq FiniteSubsetsOf(S)
  BY FS_Subset DEF FiniteSubsetsOf
<1>2. PICK T \in Bad : \A U \in Bad : <<U, T>> \notin StrictSubsetOrdering(S)
  <2> HIDE DEF Bad
  <2> QED BY <1>1, FS_StrictSubsetOrderingWellFounded, WFMin
<1>3. PICK x \in T : TRUE
  OBVIOUS
<1>4. <<T \ {x}, T>> \in StrictSubsetOrdering(S)
  BY <1>3 DEF StrictSubsetOrdering
<1>5. T \ {x} \notin Bad
  BY <1>2, <1>4
<1>6. CASE T \ {x} = {}
  BY <1>2, <1>3, <1>6
<1>7. CASE T \ {x} # {}
  <2>1. PICK m \in T \ {x} : \A y \in T \ {x} : m <= y
    BY <1>5, <1>7
  <2>2. m \in Nat /\ x \in Nat /\ T \subseteq Nat
    BY <2>1, <1>3
  <2>3. CASE m <= x
    BY <2>1, <2>2, <2>3, <1>2
  <2>4. CASE m > x
    <3>1. \A y \in T : x <= y
      BY <2>1, <2>2, <2>4
    <3> QED BY <3>1, <1>2, <1>3
  <2> QED BY <2>2, <2>3, <2>4
<1> QED BY <1>6, <1>7

\* The next model of a chain: the least place after this one.
LEMMA LeastLater ==
  ASSUME setup \in Setups, NEW t \in Nat, {i \in FirstUses : i > t} # {}
  PROVE  LET m == Min({i \in FirstUses : i > t}) IN
         m \in FirstUses /\ m > t /\ \A i \in FirstUses : i > t => m <= i
<1> DEFINE S == {i \in FirstUses : i > t}
<1>1. IsFiniteSet(S) /\ S \in SUBSET Nat
  <2>1. IsFiniteSet(1 .. Len(setup.chain)) /\ S \in SUBSET (1 .. Len(setup.chain))
    <3>1. Len(setup.chain) \in Int /\ 1 \in Int
      BY SetupFacts
    <3>2. IsFiniteSet(1 .. Len(setup.chain))
      BY <3>1, FS_Interval
    <3> QED BY <3>2, FirstUsesStart
  <2>2. IsFiniteSet(S)
    BY <2>1, FS_Subset
  <2> QED BY <2>1, <2>2, SetupFacts
<1> HIDE DEF S
<1>2. S # {}
  BY DEF S
<1>3. Min(S) \in S /\ \A y \in S : Min(S) =< y
  BY <1>1, <1>2, Least DEF Min
<1> QED BY <1>3 DEF S

-----------------------------------------------------------------------------
(* What a step of one call does                                            *)

\* The call c alone goes on, within its type and its chain.  Its request keeps
\* its model and gains no parameter, or is a new one without what the cache
\* holds against its model.
Advance(c) ==
  /\ \A d \in Callers \ {c} : /\ calls'[d] = calls[d] /\ out'[d] = out[d]
                              /\ made'[d] = made[d] /\ lost'[d] = lost[d]
  /\ calls' \in [Callers -> CallType]
  /\ out' \in [Callers -> {"", "good", "bad", "none", "crash"}]
  /\ made' \in [Callers -> 0 .. setup.calls] /\ DOMAIN lost' = Callers
  /\ Stripped(c)' /\ Chained(c)'
  /\ calls'[c].at # "idle" =>
       \/ /\ calls[c].at # "idle" /\ calls'[c].turn = calls[c].turn
          /\ calls'[c].params \subseteq calls[c].params
       \/ calls'[c].params \cap rejected[setup.chain[calls'[c].turn]] = {}

\* Where the call stands as to permits.
Leaves(c) == calls'[c].at \notin {"queue", "call"}

LEMMA TypedCalls ==
  ASSUME CallsTyped
  PROVE  /\ calls \in [Callers -> CallType] /\ setup \in Setups
         /\ \A c \in Callers : /\ calls[c] \in CallType /\ calls[c].at \in Ats
                               /\ calls[c].params \in SUBSET setup.asked
                               /\ calls[c].strips \in Nat /\ calls[c].tries \in Nat
                               /\ calls[c].turn \in Nat
<1>1. calls \in [Callers -> CallType] /\ setup \in Setups
  BY DEF CallsTyped, TypeOK, CallType
<1> SUFFICES ASSUME NEW c \in Callers
             PROVE  /\ calls[c] \in CallType /\ calls[c].at \in Ats
                    /\ calls[c].params \in SUBSET setup.asked
                    /\ calls[c].strips \in Nat /\ calls[c].tries \in Nat
                    /\ calls[c].turn \in Nat
  BY <1>1
<1>3. calls[c] \in CallType
  BY <1>1
<1>4. /\ calls[c].at \in Ats /\ calls[c].params \in SUBSET setup.asked
      /\ calls[c].strips \in 0 .. Cardinality(setup.asked) /\ calls[c].tries \in 0 .. MaxRetries - 1
      /\ calls[c].turn \in 0 .. Len(setup.chain)
  BY <1>3 DEF CallType
<1> QED BY <1>1, <1>3, <1>4, SetupFacts

\* The current call goes on with the same model.
LEMMA GoesOn ==
  ASSUME CallInv, NEW c \in Callers, calls[c].at # "idle", NEW q \in CallType,
         calls' = [calls EXCEPT ![c] = q], q.at # "idle", q.turn = calls[c].turn,
         q.params \subseteq calls[c].params,
         q.strips + Cardinality(q.params) <= Cardinality(setup.asked),
         UNCHANGED <<setup, out, made, lost, stop>>
  PROVE  Advance(c)
<1> USE DEF CallInv
<1>1. calls \in [Callers -> CallType] /\ setup \in Setups
  BY TypedCalls
<1>2. calls' \in [Callers -> CallType] /\ calls'[c] = q
  BY <1>1
<1>3. Chained(c)'
  <2>1. Chained(c) /\ FirstUses' = FirstUses /\ Given(c)' = Given(c)
    BY DEF FirstUses, Given
  <2> QED BY <1>2, <2>1 DEF Chained
<1>4. Stripped(c)'
  BY <1>2 DEF Stripped
<1>5. \A d \in Callers \ {c} : calls'[d] = calls[d]
  BY <1>1
<1> QED BY <1>2, <1>3, <1>4, <1>5 DEF Advance, CallsTyped, TypeOK

LEMMA NoCallType ==
  ASSUME setup \in Setups
  PROVE  /\ NoCall \in CallType /\ NoCall.at = "idle"
         /\ NoCall.strips + Cardinality(NoCall.params) <= Cardinality(setup.asked)
<1>1. NoCall \in CallType /\ NoCall.at = "idle" /\ NoCall.strips = 0 /\ NoCall.params = {}
  BY SetupFacts DEF NoCall, CallType, Ats, NoClient
<1>2. Cardinality({}) = 0 /\ Cardinality(setup.asked) \in Nat
  BY FS_EmptySet, SetupFacts
<1> QED BY <1>1, <1>2

\* A new request asks for what the cache leaves.
LEMMA TryType ==
  ASSUME setup \in Setups, NEW i \in FirstUses
  PROVE  /\ Try(i) \in CallType /\ Try(i).at = "dial" /\ Try(i).turn = i /\ Try(i).strips = 0
         /\ Try(i).params = setup.asked \ rejected[setup.chain[i]]
         /\ Try(i).strips + Cardinality(Try(i).params) <= Cardinality(setup.asked)
<1> DEFINE P == setup.asked \ rejected[setup.chain[i]]
<1>1. i \in 0 .. Len(setup.chain) /\ P \in SUBSET setup.asked
  BY FirstUsesStart, SetupFacts
<1>2. Try(i) = [NoCall EXCEPT !.at = "dial", !.turn = i, !.params = P]
  BY DEF Try, PreStripped
<1> HIDE DEF P
<1>3. Try(i) = [at |-> "dial", turn |-> i, params |-> P, client |-> 0, guard |-> 0,
                live |-> FALSE, tries |-> 0, strips |-> 0]
  BY <1>2 DEF NoCall, NoClient
<1>5. Try(i) \in CallType
  BY <1>1, <1>3, SetupFacts DEF CallType, Ats
<1>4. Cardinality(P) \in Nat /\ Cardinality(P) <= Cardinality(setup.asked)
  BY <1>1, PartOfAsked
<1> QED BY <1>3, <1>4, <1>5 DEF P

\* A call that runs is not among those the caller has finished.
LEMMA FinishedOnce ==
  ASSUME CallInv, NEW c \in Callers, calls[c].at # "idle"
  PROVE  [made EXCEPT ![c] = @ + 1] \in [Callers -> 0 .. setup.calls]
<1>1. made \in [Callers -> 0 .. setup.calls] /\ made[c] < setup.calls /\ setup \in Setups
  BY DEF CallInv, CallsTyped, TypeOK, Chained
<1>2. made[c] + 1 \in 0 .. setup.calls
  BY <1>1, SetupFacts
<1> QED BY <1>1, <1>2

LEMMA CallEnds ==
  ASSUME CallInv, NEW c \in Callers, calls[c].at # "idle", NEW result \in {"good", "bad", "crash"},
         Ends(c, result), UNCHANGED <<setup, lost, stop>>
  PROVE  Advance(c) /\ Leaves(c)
<1> USE DEF CallInv
<1>1. calls \in [Callers -> CallType] /\ setup \in Setups
  BY TypedCalls
<1>2. calls' \in [Callers -> CallType] /\ calls'[c] = NoCall /\ NoCall.at = "idle"
  BY <1>1, NoCallType DEF Ends
<1>3. \A d \in Callers \ {c} : calls'[d] = calls[d] /\ out'[d] = out[d] /\ made'[d] = made[d]
  BY <1>1 DEF Ends, CallsTyped, TypeOK
<1>4. /\ out' \in [Callers -> {"", "good", "bad", "none", "crash"}] /\ out'[c] = result
      /\ made' \in [Callers -> 0 .. setup.calls]
  BY <1>1, FinishedOnce DEF Ends, CallsTyped, TypeOK
<1>5. Chained(c)'
  <2>1. Chained(c) /\ FirstUses' = FirstUses /\ Given(c)' = Given(c)
    BY DEF FirstUses, Given
  <2> QED BY <1>2, <1>4, <2>1 DEF Chained
<1>6. Stripped(c)'
  BY <1>1, <1>2, NoCallType DEF Stripped
<1> QED BY <1>2, <1>3, <1>4, <1>5, <1>6 DEF Advance, Leaves, CallsTyped

\* A model is given up; a lack of capacity is a cause only at a shutdown.
LEMMA GivesUp ==
  ASSUME CallInv, NEW c \in Callers, calls[c].at # "idle", NEW cause, cause = "capacity" => stop,
         GiveUpModel(c, cause), UNCHANGED <<setup, stop>>
  PROVE  Advance(c) /\ Leaves(c)
<1> USE DEF CallInv
<1> DEFINE t == calls[c].turn
           later == {i \in FirstUses : i > t}
<1>1. /\ calls \in [Callers -> CallType] /\ setup \in Setups /\ t \in Nat
      /\ FirstUses \subseteq Nat /\ FirstUses' = FirstUses
  BY TypedCalls, FirstUsesStart, SetupFacts DEF FirstUses
<1>2. /\ lost' = [lost EXCEPT ![c] = @ \cup {<<t, cause>>}] /\ DOMAIN lost = Callers
      /\ lost'[c] = lost[c] \cup {<<t, cause>>}
  BY DEF GiveUpModel, CallsTyped
<1>3. t \in FirstUses /\ out[c] = "" /\ Given(c) = {i \in FirstUses : i < t}
  BY DEF Chained
<1> DEFINE pair == <<t, cause>>
<1>p. pair[1] = t /\ pair[2] = cause /\ lost'[c] = lost[c] \cup {pair}
  BY <1>2
<1> HIDE DEF t, pair
<1>4. Given(c)' = {i \in FirstUses : i <= t}
  <2>1. Given(c)' = Given(c) \cup {t}
    BY <1>p DEF Given
  <2> SUFFICES ASSUME NEW i \in FirstUses PROVE i <= t <=> i < t \/ i = t
    BY <1>3, <2>1
  <2> QED BY <1>1
<1>5. \A k, l \in lost'[c] : k[1] = l[1] => k = l
  <2>1. \A k \in lost[c] : k[1] \in Given(c)
    BY DEF Given
  <2>2. \A k \in lost[c] : k[1] # t
    <3>1. \A i \in Given(c) : i < t
      BY <1>3
    <3>2. \A i \in Given(c) : i \in FirstUses
      BY <1>3
    <3>3. \A i \in FirstUses : i < t => i # t
      BY <1>1
    <3> QED BY <2>1, <3>1, <3>2, <3>3
  <2>3. \A k, l \in lost[c] : k[1] = l[1] => k = l
    BY DEF Chained
  <2> QED BY <1>p, <2>2, <2>3
<1>6. \A l \in lost'[c] : l[2] = "capacity" => stop'
  <2>1. \A l \in lost[c] : l[2] = "capacity" => stop
    BY DEF Chained
  <2> QED BY <1>p, <2>1
<1>7. \A d \in Callers \ {c} : lost'[d] = lost[d]
  BY <1>2
<1>8. CASE later = {}
  <2>1. Ends(c, "none")
    BY <1>8 DEF GiveUpModel, t
  <2>2. calls' \in [Callers -> CallType] /\ calls'[c] = NoCall /\ NoCall.at = "idle"
    BY <1>1, <2>1, NoCallType DEF Ends
  <2>3. \A d \in Callers \ {c} : calls'[d] = calls[d] /\ out'[d] = out[d] /\ made'[d] = made[d]
    BY <1>1, <2>1 DEF Ends, CallsTyped, TypeOK
  <2>4. /\ out' \in [Callers -> {"", "good", "bad", "none", "crash"}] /\ out'[c] = "none"
        /\ made' \in [Callers -> 0 .. setup.calls]
    BY <1>1, <2>1, FinishedOnce DEF Ends, CallsTyped, TypeOK
  <2>5. Given(c)' = FirstUses
    <3>1. \A i \in FirstUses : i <= t
      BY <1>1, <1>8
    <3> QED BY <1>4, <3>1
  <2>6. Chained(c)'
    BY <1>1, <1>5, <1>6, <2>2, <2>4, <2>5 DEF Chained
  <2>7. Stripped(c)'
    BY <1>1, <2>2, NoCallType DEF Stripped
  <2> QED BY <1>2, <1>7, <2>2, <2>3, <2>4, <2>6, <2>7 DEF Advance, Leaves
<1>9. CASE later # {}
  <2> DEFINE m == Min(later)
  <2>1. m \in FirstUses /\ m > t /\ \A i \in FirstUses : i > t => m <= i
    BY <1>1, <1>9, LeastLater
  <2>2. calls' = [calls EXCEPT ![c] = Try(m)] /\ out' = out /\ made' = made
    BY <1>9 DEF GiveUpModel, t
  <2> HIDE DEF m, later
  <2>3. /\ Try(m) \in CallType /\ Try(m).at = "dial" /\ Try(m).turn = m
        /\ Try(m).params = setup.asked \ rejected[setup.chain[m]]
        /\ Try(m).strips + Cardinality(Try(m).params) <= Cardinality(setup.asked)
    BY <1>1, <2>1, TryType
  <2>4. /\ calls' \in [Callers -> CallType] /\ calls'[c] = Try(m)
        /\ \A d \in Callers \ {c} : calls'[d] = calls[d]
    BY <1>1, <2>2, <2>3
  <2>5. Given(c)' = {i \in FirstUses : i < m}
    <3> SUFFICES ASSUME NEW i \in FirstUses PROVE i <= t <=> i < m
      BY <1>4
    <3> QED BY <1>1, <2>1
  <2>6. Chained(c)'
    BY <1>1, <1>3, <1>5, <1>6, <2>1, <2>2, <2>3, <2>4, <2>5 DEF Chained
  <2>7. Stripped(c)'
    BY <2>3, <2>4 DEF Stripped
  <2>8. calls'[c].params \cap rejected[setup.chain[calls'[c].turn]] = {}
    BY <2>3, <2>4
  <2> QED BY <1>2, <1>7, <2>2, <2>3, <2>4, <2>6, <2>7, <2>8 DEF Advance, Leaves, CallsTyped, TypeOK
<1> QED BY <1>8, <1>9

LEMMA BacksOff ==
  ASSUME CallInv, NEW c \in Callers, calls[c].at # "idle", calls[c].tries + 1 < MaxRetries,
         calls' = [calls EXCEPT ![c].at = "backoff", ![c].tries = @ + 1],
         UNCHANGED <<setup, out, made, lost, stop>>
  PROVE  Advance(c) /\ Leaves(c)
<1> DEFINE q == [calls[c] EXCEPT !.at = "backoff", !.tries = @ + 1]
<1>1. calls \in [Callers -> CallType] /\ setup \in Setups /\ calls[c] \in CallType
      /\ calls[c].tries \in Nat /\ calls[c].tries + 1 \in 0 .. MaxRetries - 1
  BY TypedCalls, SetupFacts DEF CallInv
<1>2. q \in CallType /\ q.at = "backoff" /\ q.turn = calls[c].turn
      /\ q.params = calls[c].params /\ q.strips = calls[c].strips
  BY <1>1 DEF CallType, Ats
<1>3. calls' = [calls EXCEPT ![c] = q]
  BY <1>1 DEF CallType
<1> HIDE DEF q
<1>4. Advance(c)
  BY <1>2, <1>3, GoesOn DEF CallInv, Stripped
<1>5. Leaves(c)
  BY <1>1, <1>2, <1>3 DEF Leaves
<1> QED BY <1>4, <1>5

\* The call moves without touching its request.
LEMMA CallMoves ==
  ASSUME CallInv, NEW c \in Callers, calls[c].at # "idle", NEW to \in Ats \ {"idle"},
         NEW n \in {calls[c].tries, 0}, calls' = [calls EXCEPT ![c].at = to, ![c].tries = n],
         UNCHANGED <<setup, out, made, lost, stop>>
  PROVE  Advance(c) /\ calls'[c].at = to
<1> DEFINE q == [calls[c] EXCEPT !.at = to, !.tries = n]
<1>1. calls \in [Callers -> CallType] /\ setup \in Setups /\ calls[c] \in CallType
      /\ calls[c].tries \in 0 .. MaxRetries - 1 /\ n \in 0 .. MaxRetries - 1
  BY TypedCalls, SetupFacts DEF CallInv, CallType
<1>2. q \in CallType /\ q.at = to /\ q.turn = calls[c].turn
      /\ q.params = calls[c].params /\ q.strips = calls[c].strips
  BY <1>1 DEF CallType
<1>3. calls' = [calls EXCEPT ![c] = q]
  BY <1>1 DEF CallType
<1> HIDE DEF q
<1>4. Advance(c)
  BY <1>2, <1>3, GoesOn DEF CallInv, Stripped
<1>5. calls'[c].at = to
  BY <1>1, <1>2, <1>3
<1> QED BY <1>4, <1>5

LEMMA RetryableAdvances ==
  ASSUME CallInv, NEW c \in Callers, calls[c].at # "idle", NEW cause, Retryable(c, cause),
         cause = "capacity" => FlexTier(calls[c]), UNCHANGED <<setup, stop>>
  PROVE  Advance(c) /\ Leaves(c)
<1>1. CASE calls[c].tries + 1 < MaxRetries
  <2>1. /\ calls' = [calls EXCEPT ![c].at = "backoff", ![c].tries = @ + 1]
        /\ UNCHANGED <<out, made, lost>>
    BY <1>1 DEF Retryable
  <2> QED BY <1>1, <2>1, BacksOff
<1>2. CASE ~(calls[c].tries + 1 < MaxRetries) /\ cause = "capacity"
  <2>1. Move(c, "wait") /\ UNCHANGED <<out, made, lost>>
    BY <1>2 DEF Retryable, RunsOut
  <2>2. calls' = [calls EXCEPT ![c].at = "wait", ![c].tries = calls[c].tries]
    BY <2>1, TypedCalls DEF Move, CallInv, CallType
  <2>3. Advance(c) /\ calls'[c].at = "wait"
    BY <2>1, <2>2, CallMoves DEF Ats
  <2> QED BY <2>3 DEF Leaves
<1>3. CASE ~(calls[c].tries + 1 < MaxRetries) /\ cause # "capacity"
  BY <1>3, GivesUp DEF Retryable, RunsOut
<1> QED BY <1>1, <1>2, <1>3

LEMMA StripAdvances ==
  ASSUME CallInv, NEW c \in Callers, calls[c].at # "idle", NEW p \in calls[c].params, Strip(c, p),
         UNCHANGED <<setup, stop>>
  PROVE  /\ Advance(c) /\ Leaves(c)
         /\ calls'[c].turn = calls[c].turn /\ calls'[c].params = calls[c].params \ {p}
<1> DEFINE P == calls[c].params \ {p}
           n == calls[c].strips + 1
           q == [calls[c] EXCEPT !.at = "dial", !.tries = 0, !.strips = n, !.params = P]
<1>1. calls \in [Callers -> CallType] /\ setup \in Setups /\ calls[c] \in CallType
      /\ calls[c].params \in SUBSET setup.asked /\ P \in SUBSET setup.asked
  BY TypedCalls DEF CallInv
<1>2. n + Cardinality(P) <= Cardinality(setup.asked) /\ n \in 0 .. Cardinality(setup.asked)
  <2>1. /\ calls[c].strips \in Nat /\ Cardinality(P) = Cardinality(calls[c].params) - 1
        /\ Cardinality(P) \in Nat /\ Cardinality(calls[c].params) \in Nat
        /\ Cardinality(setup.asked) \in Nat
    BY <1>1, PartOfAsked, TypedCalls, SetupFacts DEF CallInv
  <2>2. calls[c].strips + Cardinality(calls[c].params) <= Cardinality(setup.asked)
    BY DEF CallInv, Stripped
  <2> HIDE DEF P
  <2> QED BY <2>1, <2>2
<1>3. calls' = [calls EXCEPT ![c] = q] /\ UNCHANGED <<out, made, lost>>
  BY <1>1 DEF Strip, CallType
<1> HIDE DEF P, n
<1>4. q \in CallType /\ q.at = "dial" /\ q.turn = calls[c].turn /\ q.params = P /\ q.strips = n
  <2>1. 0 \in 0 .. MaxRetries - 1 /\ "dial" \in Ats
    BY <1>1, SetupFacts DEF Ats
  <2> QED BY <1>1, <1>2, <2>1 DEF CallType
<1> HIDE DEF q
<1>5. P \subseteq calls[c].params
  BY DEF P
<1>6. Advance(c)
  BY <1>2, <1>3, <1>4, <1>5, GoesOn
<1>7. calls'[c] = q
  BY <1>1, <1>3
<1> QED BY <1>4, <1>6, <1>7 DEF Leaves, P

LEMMA StartAdvances ==
  ASSUME CallInv, NEW c \in Callers, StartCall(c)
  PROVE  Advance(c) /\ Leaves(c)
<1> USE DEF CallInv
<1>1. /\ calls \in [Callers -> CallType] /\ setup \in Setups /\ 1 \in FirstUses
      /\ UNCHANGED <<setup, made, rejected, stop>> /\ calls' = [calls EXCEPT ![c] = Try(1)]
      /\ made[c] < setup.calls /\ FirstUses' = FirstUses /\ FirstUses \subseteq 1 .. Len(setup.chain)
  BY TypedCalls, FirstUsesStart DEF StartCall, apiVars, FirstUses
<1>2. /\ out' = [out EXCEPT ![c] = ""] /\ lost' = [lost EXCEPT ![c] = {}] /\ DOMAIN lost = Callers
  BY DEF StartCall, CallsTyped
<1>3. /\ Try(1) \in CallType /\ Try(1).at = "dial" /\ Try(1).turn = 1
      /\ Try(1).params = setup.asked \ rejected[setup.chain[1]]
      /\ Try(1).strips + Cardinality(Try(1).params) <= Cardinality(setup.asked)
  BY <1>1, TryType
<1>4. /\ calls' \in [Callers -> CallType] /\ calls'[c] = Try(1) /\ lost'[c] = {}
      /\ out' \in [Callers -> {"", "good", "bad", "none", "crash"}] /\ out'[c] = ""
  BY <1>1, <1>2, <1>3 DEF CallsTyped, TypeOK
<1>5. \A d \in Callers \ {c} : /\ calls'[d] = calls[d] /\ out'[d] = out[d]
                               /\ made'[d] = made[d] /\ lost'[d] = lost[d]
  BY <1>1, <1>2 DEF CallsTyped, TypeOK
<1>6. Chained(c)'
  <2>1. Given(c)' = {}
    BY <1>4 DEF Given
  <2>2. {i \in FirstUses : i < 1} = {}
    <3> SUFFICES ASSUME NEW i \in FirstUses, i < 1 PROVE FALSE
      OBVIOUS
    <3>1. Len(setup.chain) \in Nat /\ i \in 1 .. Len(setup.chain)
      BY <1>1, SetupFacts
    <3> QED BY <3>1
  <2> QED BY <1>1, <1>3, <1>4, <2>1, <2>2 DEF Chained
<1>7. Stripped(c)'
  BY <1>1, <1>3, <1>4 DEF Stripped
<1>8. calls'[c].params \cap rejected[setup.chain[calls'[c].turn]] = {}
  BY <1>3, <1>4
<1> QED BY <1>1, <1>2, <1>3, <1>4, <1>5, <1>6, <1>7, <1>8 DEF Advance, Leaves, CallsTyped, TypeOK

-----------------------------------------------------------------------------
(* What an advance of one call leaves true                                 *)

LEMMA Framed ==
  ASSUME CallInv, NEW c \in Callers, Advance(c), UNCHANGED <<setup, stop>>
  PROVE  \A d \in Callers : Stripped(d)' /\ Chained(d)'
<1> SUFFICES ASSUME NEW d \in Callers \ {c} PROVE Stripped(d)' /\ Chained(d)'
  BY DEF Advance
<1>1. calls'[d] = calls[d] /\ out'[d] = out[d] /\ made'[d] = made[d] /\ lost'[d] = lost[d]
  BY DEF Advance
<1>2. Stripped(d) /\ Chained(d) /\ FirstUses' = FirstUses /\ Given(d)' = Given(d)
  BY <1>1 DEF CallInv, FirstUses, Given
<1> QED BY <1>1, <1>2 DEF Stripped, Chained

LEMMA TypedKept ==
  ASSUME CallInv, NEW c \in Callers, Advance(c), UNCHANGED <<setup, clientVars, room, stop>>,
         rejected' \in [Models -> SUBSET setup.asked], wasted' \in [Models -> Nat],
         free' \in [DOMAIN setup.configs -> Nat],
         calls'[c].at \in {"queue", "call"} => calls'[c].guard \in DOMAIN setup.configs
  PROVE  CallsTyped'
<1>1. calls' \in [Callers -> CallType]'
  BY DEF Advance, CallType
<1>2. \A d \in Callers : calls'[d].at \in {"queue", "call"} => calls'[d].guard \in DOMAIN setup.configs
  BY DEF Advance, CallInv, CallsTyped
<1>3. rejected' \in [Models' -> SUBSET setup'.asked] /\ wasted' \in [Models' -> Nat]
  BY DEF Models
<1> QED BY <1>1, <1>2, <1>3 DEF CallInv, CallsTyped, TypeOK, Advance, clientVars, CallType

(* The permits *)

LEMMA HoldersFinite ==
  ASSUME NEW g
  PROVE  /\ IsFiniteSet(Holders(g)) /\ Cardinality(Holders(g)) \in Nat
         /\ \A c \in Holders(g) : Cardinality(Holders(g) \ {c}) = Cardinality(Holders(g)) - 1
         /\ \A c \in Callers \ Holders(g) : Cardinality(Holders(g) \cup {c}) = Cardinality(Holders(g)) + 1
<1>1. Holders(g) \in SUBSET Callers
  BY DEF Holders
<1>2. IsFiniteSet(Holders(g)) /\ Cardinality(Holders(g)) \in Nat
  BY <1>1, CallersAreFinite, FS_Subset, FS_CardinalityType
<1> QED BY <1>1, <1>2, FS_AddElement, FS_RemoveElement

LEMMA PermitsKept ==
  ASSUME CallInv, NEW c \in Callers, Advance(c), UNCHANGED <<setup, free>>,
         calls[c].at # "call", calls'[c].at # "call"
  PROVE  Permits' /\ free' \in [DOMAIN setup.configs -> Nat]
<1>1. \A d \in Callers : calls'[d].at = "call" <=> calls[d].at = "call"
  BY DEF Advance
<1>2. \A d \in Callers : calls[d].at = "call" => calls'[d] = calls[d]
  BY DEF Advance
<1>3. ASSUME NEW g PROVE Holders(g)' = Holders(g)
  BY <1>1, <1>2 DEF Holders, InFlight
<1> QED BY <1>3 DEF CallInv, Permits, Bounded, Limit, Config, CallsTyped, TypeOK

LEMMA PermitsReleased ==
  ASSUME CallInv, NEW c \in Callers, Advance(c), UNCHANGED setup, InFlight(c), Release(c), Leaves(c)
  PROVE  Permits' /\ free' \in [DOMAIN setup.configs -> Nat]
<1> DEFINE h == calls[c].guard
<1>1. /\ free \in [DOMAIN setup.configs -> Nat] /\ h \in DOMAIN setup.configs
      /\ free' = IF Bounded(h) THEN [free EXCEPT ![h] = @ + 1] ELSE free
  BY DEF CallInv, CallsTyped, TypeOK, InFlight, Release
<1>2. free' \in [DOMAIN setup.configs -> Nat]
  BY <1>1
<1>3. ASSUME NEW g PROVE Holders(g)' = Holders(g) \ {c}
  BY DEF Holders, InFlight, Advance, Leaves
<1>4. c \in Holders(h) /\ \A g : g # h => c \notin Holders(g)
  BY DEF Holders
<1> SUFFICES ASSUME NEW g \in DOMAIN setup.configs, Bounded(g)
             PROVE  free'[g] + Cardinality(Holders(g)') = Limit(g)
  BY <1>2 DEF Permits, Bounded, Limit, Config
<1>5. free[g] + Cardinality(Holders(g)) = Limit(g)
  BY DEF CallInv, Permits
<1>6. CASE g = h
  <2>1. Cardinality(Holders(g)') = Cardinality(Holders(g)) - 1 /\ Cardinality(Holders(g)) \in Nat
    BY <1>3, <1>4, <1>6, HoldersFinite
  <2>2. free'[g] = free[g] + 1 /\ free[g] \in Nat
    BY <1>1, <1>6
  <2> QED BY <1>5, <2>1, <2>2
<1>7. CASE g # h
  <2>1. Holders(g)' = Holders(g) /\ free'[g] = free[g]
    BY <1>1, <1>3, <1>4, <1>7
  <2> QED BY <1>5, <2>1
<1> QED BY <1>6, <1>7

LEMMA PermitsAcquired ==
  ASSUME CallInv, NEW c \in Callers, Advance(c), UNCHANGED setup, calls[c].at = "queue",
         calls'[c].at = "call", calls'[c].guard = calls[c].guard,
         Bounded(calls[c].guard) => free[calls[c].guard] > 0,
         free' = IF Bounded(calls[c].guard) THEN [free EXCEPT ![calls[c].guard] = @ - 1] ELSE free
  PROVE  Permits' /\ free' \in [DOMAIN setup.configs -> Nat]
<1> DEFINE h == calls[c].guard
<1>1. /\ free \in [DOMAIN setup.configs -> Nat] /\ h \in DOMAIN setup.configs
      /\ Bounded(h) => free[h] > 0
      /\ free' = IF Bounded(h) THEN [free EXCEPT ![h] = @ - 1] ELSE free
  BY DEF CallInv, CallsTyped, TypeOK
<1>2. free' \in [DOMAIN setup.configs -> Nat]
  BY <1>1
<1>3. ASSUME NEW g PROVE Holders(g)' = IF g = h THEN Holders(g) \cup {c} ELSE Holders(g)
  <2>1. /\ \A d \in Callers \ {c} : calls'[d] = calls[d]
    BY DEF Advance
  <2> QED BY <2>1 DEF Holders, InFlight
<1>4. \A g : c \notin Holders(g)
  BY DEF Holders, InFlight
<1> SUFFICES ASSUME NEW g \in DOMAIN setup.configs, Bounded(g)
             PROVE  free'[g] + Cardinality(Holders(g)') = Limit(g)
  BY <1>2 DEF Permits, Bounded, Limit, Config
<1>5. free[g] + Cardinality(Holders(g)) = Limit(g)
  BY DEF CallInv, Permits
<1>6. CASE g = h
  <2>1. Cardinality(Holders(g)') = Cardinality(Holders(g)) + 1 /\ Cardinality(Holders(g)) \in Nat
    BY <1>3, <1>4, <1>6, HoldersFinite
  <2>2. free'[g] = free[g] - 1 /\ free[g] \in Nat
    BY <1>1, <1>6
  <2> QED BY <1>5, <2>1, <2>2
<1>7. CASE g # h
  <2>1. Holders(g)' = Holders(g) /\ free'[g] = free[g]
    BY <1>1, <1>3, <1>7
  <2> QED BY <1>5, <2>1
<1> QED BY <1>6, <1>7

(* What the API taught the cache *)

LEMMA MayFinite ==
  ASSUME setup \in Setups, NEW x
  PROVE  /\ IsFiniteSet(Callers \X Known(x))
         /\ Cardinality(Callers \X Known(x)) = Cardinality(Callers) * Cardinality(Known(x))
         /\ Cardinality(Callers) \in Nat /\ Cardinality(Known(x)) \in Nat
         /\ \A M \in SUBSET (Callers \X Known(x)) :
              /\ IsFiniteSet(M) /\ Cardinality(M) \in Nat
              /\ Cardinality(M) <= Cardinality(Callers \X Known(x))
              /\ \A N \in SUBSET M : Cardinality(N) <= Cardinality(M)
              /\ \A a \in M : Cardinality(M \ {a}) = Cardinality(M) - 1
<1>1. IsFiniteSet(Known(x)) /\ IsFiniteSet(Callers)
  BY SetupFacts, CallersAreFinite, FS_Subset DEF Known
<1>2. /\ IsFiniteSet(Callers \X Known(x))
      /\ Cardinality(Callers \X Known(x)) = Cardinality(Callers) * Cardinality(Known(x))
  BY <1>1, FS_Product
<1> QED BY <1>1, <1>2, FS_Subset, FS_CardinalityType, FS_RemoveElement

LEMMA MayShrinks ==
  ASSUME CallInv, NEW c \in Callers, Advance(c), UNCHANGED setup,
         \A x \in Models : rejected[x] \subseteq rejected'[x], NEW x \in Models
  PROVE  May(x)' \subseteq May(x) /\ Known(x)' = Known(x)
<1>1. Known(x)' = Known(x)
  BY DEF Known
<1> SUFFICES ASSUME NEW a \in May(x)' PROVE a \in May(x)
  BY <1>1
<1>2. a \in Callers \X Known(x) /\ a[1] \in Callers
  BY <1>1 DEF May
<1>3. CASE a[2] \notin rejected'[x]
  BY <1>2, <1>3 DEF May
<1>4. CASE calls'[a[1]].at # "idle" /\ ModelOf(a[1])' = x /\ a[2] \in calls'[a[1]].params
  <2>1. CASE a[1] # c
    <3>1. calls'[a[1]] = calls[a[1]] /\ ModelOf(a[1])' = ModelOf(a[1])
      BY <1>2, <2>1 DEF Advance, ModelOf
    <3> QED BY <1>2, <1>4, <3>1 DEF May
  <2>2. CASE a[1] = c
    <3>1. CASE /\ calls[c].at # "idle" /\ calls'[c].turn = calls[c].turn
               /\ calls'[c].params \subseteq calls[c].params
      BY <1>2, <1>4, <2>2, <3>1 DEF May, ModelOf
    <3>2. CASE calls'[c].params \cap rejected[setup.chain[calls'[c].turn]] = {}
      <4>1. setup.chain[calls'[c].turn] = x
        BY <1>4, <2>2 DEF ModelOf
      <4> QED BY <1>2, <1>4, <2>2, <3>2, <4>1 DEF May
    <3> QED BY <1>4, <2>2, <3>1, <3>2 DEF Advance
  <2> QED BY <2>1, <2>2
<1> QED BY <1>3, <1>4 DEF May

LEMMA LearnedKept ==
  ASSUME CallInv, NEW c \in Callers, Advance(c), UNCHANGED <<setup, wasted>>,
         \A x \in Models : rejected[x] \subseteq rejected'[x]
  PROVE  Learned'
<1> SUFFICES ASSUME NEW x \in Models
             PROVE  wasted'[x] + Cardinality(May(x)') <= Cardinality(Callers) * Cardinality(Known(x)')
  BY DEF Learned, Models
<1>1. May(x)' \subseteq May(x) /\ Known(x)' = Known(x) /\ wasted'[x] = wasted[x]
  BY MayShrinks
<1>2. May(x) \in SUBSET (Callers \X Known(x)) /\ setup \in Setups /\ wasted[x] \in Nat
  BY DEF May, CallInv, CallsTyped, TypeOK
<1>3. wasted[x] + Cardinality(May(x)) <= Cardinality(Callers) * Cardinality(Known(x))
  BY DEF CallInv, Learned
<1> DEFINE N == May(x)'
           bound == Cardinality(Callers) * Cardinality(Known(x))
<1>4. Cardinality(N) <= Cardinality(May(x)) /\ Cardinality(N) \in Nat /\ Cardinality(May(x)) \in Nat
  <2>1. N \in SUBSET May(x) /\ N \in SUBSET (Callers \X Known(x))
    BY <1>1, <1>2
  <2> HIDE DEF N
  <2> QED BY <1>2, <2>1, MayFinite
<1>5. bound = Cardinality(Callers \X Known(x)) /\ bound \in Nat
  BY <1>2, MayFinite
<1> SUFFICES wasted[x] + Cardinality(N) <= bound
  BY <1>1
<1> HIDE DEF N, bound
<1> QED BY <1>2, <1>3, <1>4, <1>5 DEF bound

\* A request paid for in vain is one the model will not be paid for again.
LEMMA LearnedByStrip ==
  ASSUME CallInv, NEW c \in Callers, Advance(c), UNCHANGED setup, calls[c].at # "idle",
         NEW y \in Models, ModelOf(c) = y, NEW p \in calls[c].params \cap setup.rejects[y],
         calls'[c].turn = calls[c].turn, calls'[c].params = calls[c].params \ {p},
         rejected' = [rejected EXCEPT ![y] = @ \cup {p}], wasted' = [wasted EXCEPT ![y] = @ + 1]
  PROVE  Learned'
<1>1. /\ rejected \in [Models -> SUBSET setup.asked] /\ wasted \in [Models -> Nat]
      /\ setup \in Setups /\ calls[c].params \in SUBSET setup.asked
  BY TypedCalls DEF CallInv, CallsTyped, TypeOK
<1>2. \A x \in Models : rejected[x] \subseteq rejected'[x]
  BY <1>1
<1>3. <<c, p>> \in May(y)
  <2>1. <<c, p>> \in Callers \X Known(y)
    BY <1>1 DEF Known
  <2> QED BY <2>1 DEF May
<1>4. <<c, p>> \notin May(y)'
  <2>1. p \in rejected'[y] /\ p \notin calls'[c].params
    BY <1>1
  <2> QED BY <2>1 DEF May
<1> SUFFICES ASSUME NEW x \in Models
             PROVE  wasted'[x] + Cardinality(May(x)') <= Cardinality(Callers) * Cardinality(Known(x)')
  BY DEF Learned, Models
<1>5. May(x)' \subseteq May(x) /\ Known(x)' = Known(x)
  BY <1>2, MayShrinks
<1>6. May(x) \in SUBSET (Callers \X Known(x)) /\ wasted[x] \in Nat
  BY <1>1 DEF May
<1>7. wasted[x] + Cardinality(May(x)) <= Cardinality(Callers) * Cardinality(Known(x))
  BY DEF CallInv, Learned
<1> DEFINE N == May(x)'
           bound == Cardinality(Callers) * Cardinality(Known(x))
<1>8. bound = Cardinality(Callers \X Known(x)) /\ bound \in Nat
  BY <1>1, MayFinite
<1>9. /\ Cardinality(May(x)) \in Nat /\ Cardinality(N) \in Nat
      /\ IF x = y THEN wasted'[x] = wasted[x] + 1 /\ Cardinality(N) <= Cardinality(May(x)) - 1
                  ELSE wasted'[x] = wasted[x] /\ Cardinality(N) <= Cardinality(May(x))
  <2>1. N \in SUBSET May(x) /\ N \in SUBSET (Callers \X Known(x)) /\ Cardinality(N) \in Nat
        /\ Cardinality(May(x)) \in Nat
    <3>1. N \in SUBSET May(x) /\ N \in SUBSET (Callers \X Known(x))
      BY <1>5, <1>6
    <3> HIDE DEF N
    <3> QED BY <1>1, <1>6, <3>1, MayFinite
  <2>2. CASE x = y
    <3> DEFINE M == May(x) \ {<<c, p>>}
    <3>1. N \in SUBSET M /\ M \in SUBSET (Callers \X Known(x))
      BY <1>4, <1>5, <1>6, <2>2
    <3>2. Cardinality(M) = Cardinality(May(x)) - 1
      BY <1>1, <1>3, <1>6, <2>2, MayFinite
    <3>3. Cardinality(N) <= Cardinality(M)
      <4> HIDE DEF N, M
      <4> QED BY <1>1, <3>1, MayFinite
    <3>4. wasted'[x] = wasted[x] + 1
      BY <1>1, <2>2
    <3> HIDE DEF N, M
    <3> QED BY <2>1, <2>2, <3>2, <3>3, <3>4
  <2>3. CASE x # y
    <3>1. wasted'[x] = wasted[x]
      BY <1>1, <2>3
    <3>2. Cardinality(N) <= Cardinality(May(x))
      <4> HIDE DEF N
      <4> QED BY <1>1, <1>6, <2>1, MayFinite
    <3> HIDE DEF N
    <3> QED BY <2>1, <2>3, <3>1, <3>2
  <2> QED BY <2>2, <2>3
<1> SUFFICES wasted'[x] + Cardinality(N) <= bound
  BY <1>5
<1>10. wasted[x] + Cardinality(May(x)) <= bound
  BY <1>7
<1> HIDE DEF N, bound
<1> QED BY <1>6, <1>8, <1>9, <1>10

-----------------------------------------------------------------------------
(* Every step keeps the invariant                                          *)

\* A step outside the limiter and the cache.
LEMMA CallsAreQuiet ==
  ASSUME CallInv, NEW c \in Callers, Advance(c),
         UNCHANGED <<setup, rejected, clientVars, free, apiVars>>,
         calls[c].at # "call", calls'[c].at # "call",
         calls'[c].at = "queue" => calls'[c].guard \in DOMAIN setup.configs
  PROVE  CallInv'
<1>1. UNCHANGED <<setup, free>> /\ UNCHANGED <<setup, stop>> /\ UNCHANGED <<setup, wasted>>
      /\ UNCHANGED <<setup, clientVars, room, stop>>
  BY DEF apiVars
<1>2. /\ rejected' \in [Models -> SUBSET setup.asked] /\ wasted' \in [Models -> Nat]
      /\ \A x \in Models : rejected[x] \subseteq rejected'[x]
  BY <1>1 DEF CallInv, CallsTyped, TypeOK
<1>3. Permits' /\ free' \in [DOMAIN setup.configs -> Nat]
  BY <1>1, PermitsKept
<1>4. Learned'
  BY <1>1, <1>2, LearnedKept
<1>5. CallsTyped'
  BY <1>1, <1>2, <1>3, TypedKept
<1>6. \A d \in Callers : Stripped(d)' /\ Chained(d)'
  BY <1>1, Framed
<1> QED BY <1>3, <1>4, <1>5, <1>6 DEF CallInv

\* A step that ends a request and costs nothing in vain.
LEMMA Replied ==
  ASSUME CallInv, NEW c \in Callers, Advance(c), Leaves(c), InFlight(c), Release(c),
         UNCHANGED <<setup, clientVars, room, stop, wasted>>,
         rejected' \in [Models -> SUBSET setup.asked],
         \A x \in Models : rejected[x] \subseteq rejected'[x]
  PROVE  CallInv'
<1>1. UNCHANGED setup /\ UNCHANGED <<setup, stop>> /\ UNCHANGED <<setup, wasted>>
      /\ UNCHANGED <<setup, clientVars, room, stop>> /\ wasted' \in [Models -> Nat]
  BY DEF CallInv, CallsTyped
<1>2. Permits' /\ free' \in [DOMAIN setup.configs -> Nat]
  BY <1>1, PermitsReleased
<1>3. Learned'
  BY <1>1, LearnedKept
<1>4. CallsTyped'
  BY <1>1, <1>2, TypedKept DEF Leaves
<1>5. \A d \in Callers : Stripped(d)' /\ Chained(d)'
  BY <1>1, Framed
<1> QED BY <1>2, <1>3, <1>4, <1>5 DEF CallInv

LEMMA CacheAsItWas ==
  ASSUME CallInv, UNCHANGED rejected
  PROVE  /\ rejected' \in [Models -> SUBSET setup.asked]
         /\ \A x \in Models : rejected[x] \subseteq rejected'[x]
BY DEF CallInv, CallsTyped, TypeOK

LEMMA ModelInChain ==
  ASSUME CallInv, NEW c \in Callers, calls[c].at # "idle"
  PROVE  ModelOf(c) \in Models
<1>1. setup \in Setups /\ calls[c].turn \in FirstUses
  BY DEF CallInv, CallsTyped, TypeOK, Chained
<1> QED BY <1>1, FirstUsesStart, SetupFacts DEF ModelOf, Models

\* A call in flight can strip every parameter its request carries.
LEMMA StripsLeft ==
  ASSUME CallInv, NEW c \in Callers, NEW p \in calls[c].params
  PROVE  calls[c].strips < RegistryRows
<1>1. /\ setup \in Setups /\ calls[c].params \in SUBSET setup.asked /\ calls[c].strips \in Nat
      /\ calls[c].strips + Cardinality(calls[c].params) <= Cardinality(setup.asked)
  BY TypedCalls DEF CallInv, Stripped
<1>2. /\ Cardinality(calls[c].params) \in Nat /\ Cardinality(calls[c].params \ {p}) \in Nat
      /\ Cardinality(calls[c].params \ {p}) = Cardinality(calls[c].params) - 1
  <2>1. calls[c].params \ {p} \in SUBSET setup.asked
    BY <1>1
  <2> QED BY <1>1, <2>1, PartOfAsked
<1>3. Cardinality(setup.asked) \in Nat /\ Cardinality(setup.asked) <= RegistryRows /\ RegistryRows \in Nat
  BY <1>1, SetupFacts
<1> QED BY <1>1, <1>2, <1>3

LEMMA RunningStepsKeep ==
  ASSUME CallInv, NEW c \in Callers,
         StartCall(c) \/ Dial(c) \/ Enter(c) \/ Acquire(c) \/ WakeUp(c) \/ FlexRetry(c) \/ FlexAbort(c)
  PROVE  CallInv'
<1>0. calls \in [Callers -> CallType] /\ calls[c] \in CallType /\ setup \in Setups
  BY TypedCalls DEF CallInv
<1>1. CASE StartCall(c)
  BY <1>1, StartAdvances, CallsAreQuiet DEF StartCall, Leaves
<1>2. CASE Dial(c)
  <2>1. calls[c].at = "dial" /\ UNCHANGED <<setup, lost, rejected, clientVars, free, apiVars>>
    BY <1>2 DEF Dial
  <2>2. UNCHANGED <<setup, lost, stop>>
    BY <2>1 DEF apiVars
  <2>3. CASE slot = NoClient
    <3>1. Ends(c, "crash")
      BY <1>2, <2>3 DEF Dial
    <3> QED BY <2>1, <2>2, <3>1, CallEnds, CallsAreQuiet DEF Leaves
  <2>4. CASE slot # NoClient
    <3> DEFINE q == [calls[c] EXCEPT !.at = "dialled", !.client = slot]
    <3>1. /\ calls' = [calls EXCEPT ![c].at = "dialled", ![c].client = slot]
          /\ UNCHANGED <<setup, out, made, lost, stop>>
      BY <1>2, <2>2, <2>4 DEF Dial
    <3>2. calls' = [calls EXCEPT ![c] = q]
      BY <1>0, <3>1 DEF CallType
    <3>3. slot \in 0 .. Len(setup.configs)
      BY DEF CallInv, CallsTyped, TypeOK
    <3>4. q \in CallType /\ q.at = "dialled" /\ q.turn = calls[c].turn
          /\ q.params = calls[c].params /\ q.strips = calls[c].strips
      BY <1>0, <3>3 DEF CallType, Ats
    <3> HIDE DEF q
    <3>5. Advance(c)
      BY <2>1, <3>1, <3>2, <3>4, GoesOn DEF CallInv, Stripped
    <3>6. calls'[c] = q
      BY <1>0, <3>2
    <3> QED BY <2>1, <3>4, <3>5, <3>6, CallsAreQuiet
  <2> QED BY <2>3, <2>4
<1>3. CASE Acquire(c)
  <2> DEFINE l == calls[c].client \notin closed
             q == [calls[c] EXCEPT !.at = "call", !.live = l]
  <2>1. /\ calls[c].at = "queue" /\ UNCHANGED <<setup, out, made, lost, rejected, clientVars, apiVars>>
        /\ calls' = [calls EXCEPT ![c].at = "call", ![c].live = l]
        /\ Bounded(calls[c].guard) => free[calls[c].guard] > 0
        /\ free' = IF Bounded(calls[c].guard) THEN [free EXCEPT ![calls[c].guard] = @ - 1] ELSE free
    BY <1>3 DEF Acquire
  <2>2. UNCHANGED <<setup, out, made, lost, stop>> /\ UNCHANGED <<setup, stop>> /\ UNCHANGED setup
        /\ UNCHANGED <<setup, wasted>> /\ UNCHANGED <<setup, clientVars, room, stop>> /\ UNCHANGED rejected
    BY <2>1 DEF apiVars
  <2>b. l \in BOOLEAN
    OBVIOUS
  <2> HIDE DEF l
  <2>3. calls' = [calls EXCEPT ![c] = q]
    BY <1>0, <2>1 DEF CallType
  <2>4. q \in CallType /\ q.at = "call" /\ q.turn = calls[c].turn /\ q.guard = calls[c].guard
        /\ q.params = calls[c].params /\ q.strips = calls[c].strips
    BY <1>0, <2>b DEF CallType, Ats
  <2> HIDE DEF q
  <2>5. Advance(c)
    BY <2>1, <2>2, <2>3, <2>4, GoesOn DEF CallInv, Stripped
  <2>6. calls'[c].at = "call" /\ calls'[c].guard = calls[c].guard
    BY <1>0, <2>3, <2>4
  <2>7. Permits' /\ free' \in [DOMAIN setup.configs -> Nat]
    BY <2>1, <2>2, <2>5, <2>6, PermitsAcquired
  <2>8. /\ rejected' \in [Models -> SUBSET setup.asked] /\ wasted' \in [Models -> Nat]
        /\ \A x \in Models : rejected[x] \subseteq rejected'[x]
    BY <2>2, CacheAsItWas DEF CallInv, CallsTyped
  <2>9. calls[c].guard \in DOMAIN setup.configs
    BY <2>1 DEF CallInv, CallsTyped
  <2>10. CallsTyped'
    BY <2>2, <2>5, <2>6, <2>7, <2>8, <2>9, TypedKept
  <2>11. Learned'
    BY <2>2, <2>5, <2>8, LearnedKept
  <2>12. \A d \in Callers : Stripped(d)' /\ Chained(d)'
    BY <2>2, <2>5, Framed
  <2> QED BY <2>7, <2>10, <2>11, <2>12 DEF CallInv
<1>4. CASE WakeUp(c)
  <2>1. calls' = [calls EXCEPT ![c].at = "dial", ![c].tries = calls[c].tries] /\ calls[c].at = "backoff"
    BY <1>0, <1>4 DEF WakeUp, Move, CallType
  <2>2. UNCHANGED <<setup, out, made, lost, stop>>
        /\ UNCHANGED <<setup, rejected, clientVars, free, apiVars>>
    BY <1>4 DEF WakeUp, apiVars
  <2>3. Advance(c) /\ calls'[c].at = "dial"
    BY <2>1, <2>2, CallMoves DEF Ats
  <2> QED BY <2>1, <2>2, <2>3, CallsAreQuiet
<1>5. CASE FlexRetry(c)
  <2>1. calls' = [calls EXCEPT ![c].at = "dial", ![c].tries = 0] /\ calls[c].at = "wait"
    BY <1>5 DEF FlexRetry
  <2>2. UNCHANGED <<setup, out, made, lost, stop>>
        /\ UNCHANGED <<setup, rejected, clientVars, free, apiVars>>
    BY <1>5 DEF FlexRetry, apiVars
  <2>3. Advance(c) /\ calls'[c].at = "dial"
    BY <2>1, <2>2, CallMoves DEF Ats
  <2> QED BY <2>1, <2>2, <2>3, CallsAreQuiet
<1>6. CASE FlexAbort(c)
  <2>1. /\ calls[c].at = "wait" /\ stop /\ GiveUpModel(c, "capacity")
        /\ UNCHANGED <<setup, rejected, clientVars, free, apiVars>> /\ UNCHANGED <<setup, stop>>
    BY <1>6 DEF FlexAbort, apiVars
  <2> QED BY <2>1, GivesUp, CallsAreQuiet DEF Leaves
<1>7. CASE Enter(c)
  <2> DEFINE q == [calls[c] EXCEPT !.at = "queue", !.guard = guard]
  <2>1. /\ calls[c].at = "dialled"
        /\ calls' = [calls EXCEPT ![c].at = "queue", ![c].guard = guard]
        /\ UNCHANGED <<setup, out, made, lost, rejected, clientVars, free, apiVars>>
        /\ UNCHANGED <<setup, out, made, lost, stop>>
    BY <1>7 DEF Enter, apiVars
  <2>2. calls' = [calls EXCEPT ![c] = q]
    BY <1>0, <2>1 DEF CallType
  <2>3. guard \in DOMAIN setup.configs /\ guard \in 0 .. Len(setup.configs)
    <3>1. guard \in DOMAIN setup.configs
      BY DEF CallInv, CallsTyped, TypeOK
    <3>2. Len(setup.configs) \in Nat /\ DOMAIN setup.configs = 1 .. Len(setup.configs)
      BY <1>0, SetupFacts
    <3> QED BY <3>1, <3>2
  <2>4. q \in CallType /\ q.at = "queue" /\ q.turn = calls[c].turn /\ q.guard = guard
        /\ q.params = calls[c].params /\ q.strips = calls[c].strips
    BY <1>0, <2>3 DEF CallType, Ats
  <2> HIDE DEF q
  <2>5. Advance(c)
    BY <2>1, <2>2, <2>4, GoesOn DEF CallInv, Stripped
  <2>6. calls'[c] = q
    BY <1>0, <2>2
  <2> QED BY <2>1, <2>3, <2>4, <2>5, <2>6, CallsAreQuiet
<1> QED BY <1>1, <1>2, <1>3, <1>4, <1>5, <1>6, <1>7

LEMMA RepliesKeep ==
  ASSUME CallInv, NEW c \in Callers,
         Answered(c) \/ NoCapacity(c) \/ BadRequest(c) \/ Malformed(c) \/ Dropped(c) \/ Refused(c)
  PROVE  CallInv'
<1>0. /\ InFlight(c) /\ calls[c].at # "idle" /\ Release(c) /\ setup \in Setups
      /\ UNCHANGED <<setup, stop>> /\ UNCHANGED <<setup, clientVars, room, stop>>
      /\ UNCHANGED setup /\ calls[c].params \in SUBSET setup.asked /\ ModelOf(c) \in Models
  <2>1. InFlight(c) /\ Release(c) /\ UNCHANGED <<setup, clientVars, room, stop>>
    BY DEF Answered, NoCapacity, BadRequest, Malformed, Dropped, Refused, Serves, apiVars
  <2>2. calls[c].at # "idle"
    BY <2>1 DEF InFlight
  <2> QED BY <2>1, <2>2, ModelInChain, TypedCalls DEF CallInv
<1>1. CASE Answered(c)
  <2>1. PICK reply \in {"good", "bad"} :
          IF Takes(reply) THEN Ends(c, reply) /\ UNCHANGED lost ELSE GiveUpModel(c, "unusable")
    BY <1>1 DEF Answered
  <2>2. UNCHANGED rejected /\ UNCHANGED <<setup, clientVars, room, stop, wasted>>
    BY <1>1 DEF Answered, apiVars
  <2>3. Advance(c) /\ Leaves(c)
    <3>1. CASE Ends(c, reply) /\ UNCHANGED lost
      <4>1. UNCHANGED <<setup, lost, stop>>
        BY <1>0, <3>1
      <4> QED BY <1>0, <3>1, <4>1, CallEnds
    <3>2. CASE GiveUpModel(c, "unusable")
      BY <1>0, <3>2, GivesUp
    <3> QED BY <2>1, <3>1, <3>2
  <2> QED BY <1>0, <2>2, <2>3, CacheAsItWas, Replied
<1>2. CASE NoCapacity(c)
  <2>1. UNCHANGED rejected /\ UNCHANGED <<setup, clientVars, room, stop, wasted>>
        /\ FlexTier(calls[c]) /\ Retryable(c, "capacity")
    BY <1>2 DEF NoCapacity, apiVars
  <2> QED BY <1>0, <2>1, RetryableAdvances, CacheAsItWas, Replied
<1>3. CASE BadRequest(c)
  <2> DEFINE y == ModelOf(c)
  <2>1. PICK p \in calls[c].params \cap setup.rejects[y] :
          Rejects400(c, p) /\ wasted' = [wasted EXCEPT ![y] = @ + 1]
    BY <1>3 DEF BadRequest
  <2>2. Strip(c, p) /\ p \in calls[c].params /\ p \in setup.asked
    BY <1>0, <2>1, StripsLeft DEF Rejects400
  <2>3. /\ Advance(c) /\ Leaves(c)
        /\ calls'[c].turn = calls[c].turn /\ calls'[c].params = calls[c].params \ {p}
    BY <1>0, <2>2, StripAdvances
  <2>4. rejected' = [rejected EXCEPT ![y] = @ \cup {p}]
    BY <2>2 DEF Strip
  <2>5. y \in Models /\ y = ModelOf(c)
    BY <1>0
  <2>6. /\ rejected' \in [Models -> SUBSET setup.asked] /\ wasted' \in [Models -> Nat]
    <3>1. rejected \in [Models -> SUBSET setup.asked] /\ wasted \in [Models -> Nat]
      BY DEF CallInv, CallsTyped, TypeOK
    <3> HIDE DEF y
    <3>2. wasted' = [wasted EXCEPT ![y] = @ + 1]
      BY <2>1
    <3> QED BY <2>2, <2>4, <2>5, <3>1, <3>2
  <2>7. Permits' /\ free' \in [DOMAIN setup.configs -> Nat]
    BY <1>0, <2>3, PermitsReleased
  <2>8. Learned'
    BY <1>0, <2>1, <2>3, <2>4, <2>5, LearnedByStrip
  <2>9. CallsTyped'
    BY <1>0, <2>3, <2>6, <2>7, TypedKept DEF Leaves
  <2>10. \A d \in Callers : Stripped(d)' /\ Chained(d)'
    BY <1>0, <2>3, Framed
  <2> QED BY <2>7, <2>8, <2>9, <2>10 DEF CallInv
<1>4. CASE Malformed(c)
  <2>1. PICK p \in setup.asked \cup {"nothing"} : Rejects400(c, p)
    BY <1>4 DEF Malformed
  <2>2. UNCHANGED <<setup, clientVars, room, stop, wasted>>
    BY <1>4 DEF Malformed
  <2>3. CASE Strip(c, p) /\ p \in calls[c].params
    <3>1. Advance(c) /\ Leaves(c)
      BY <1>0, <2>3, StripAdvances
    <3>2. /\ rejected \in [Models -> SUBSET setup.asked] /\ p \in setup.asked
          /\ rejected' = [rejected EXCEPT ![ModelOf(c)] = @ \cup {p}]
      BY <1>0, <2>3 DEF CallInv, CallsTyped, TypeOK, Strip
    <3>3. /\ rejected' \in [Models -> SUBSET setup.asked]
          /\ \A x \in Models : rejected[x] \subseteq rejected'[x]
      BY <1>0, <3>2
    <3> QED BY <1>0, <2>2, <3>1, <3>3, Replied
  <2>4. CASE GiveUpModel(c, "rejected") /\ UNCHANGED rejected
    BY <1>0, <2>2, <2>4, GivesUp, CacheAsItWas, Replied
  <2> QED BY <2>1, <2>3, <2>4 DEF Rejects400
<1>5. CASE Dropped(c)
  <2>1. UNCHANGED rejected /\ UNCHANGED <<setup, clientVars, room, stop, wasted>>
        /\ Retryable(c, "failed")
    BY <1>5 DEF Dropped
  <2> QED BY <1>0, <2>1, RetryableAdvances, CacheAsItWas, Replied
<1>6. CASE Refused(c)
  <2>1. UNCHANGED rejected /\ UNCHANGED <<setup, clientVars, room, stop, wasted>>
        /\ GiveUpModel(c, "failed")
    BY <1>6 DEF Refused
  <2> QED BY <1>0, <2>1, GivesUp, CacheAsItWas, Replied
<1> QED BY <1>1, <1>2, <1>3, <1>4, <1>5, <1>6

\* What happens around the calls: they and the cache stay as they are, and a
\* shutdown is not taken back.
LEMMA SurroundingsKeep ==
  ASSUME CallInv, UNCHANGED <<setup, callVars, rejected, free, wasted>>, stop => stop', CallsTyped'
  PROVE  CallInv'
<1>1. UNCHANGED <<setup, calls, out, made, lost, rejected, free, wasted>>
  BY DEF callVars
<1>2. Permits'
  BY <1>1 DEF CallInv, Permits, Holders, InFlight, Bounded, Limit, Config
<1>3. Learned'
  BY <1>1 DEF CallInv, Learned, May, Known, Models, ModelOf
<1>4. \A c \in Callers : Stripped(c)' /\ Chained(c)'
  BY <1>1 DEF CallInv, Stripped, Chained, Given, FirstUses
<1> QED BY <1>2, <1>3, <1>4 DEF CallInv

LEMMA EnvironmentKeeps ==
  ASSUME CallInv, \/ LoseCapacity \/ FindCapacity \/ RequestShutdown
               \/ CloseClients \/ InstallClients \/ InitLimiter
  PROVE  CallInv'
<1>1. /\ UNCHANGED <<setup, callVars, rejected, free, wasted>> /\ (stop => stop')
      /\ UNCHANGED <<calls, out, made, lost>>
  BY DEF LoseCapacity, FindCapacity, RequestShutdown, CloseClients, InstallClients, InitLimiter,
         callVars, apiVars
<1>2. /\ slot \in 0 .. Len(setup.configs) /\ closed \subseteq 0 .. Len(setup.configs)
      /\ guard \in DOMAIN setup.configs /\ inForce \in DOMAIN setup.configs
      /\ reload # "idle" => inForce < Len(setup.configs)
      /\ reload \in {"idle", "closed", "installed"} /\ room \in BOOLEAN /\ stop \in BOOLEAN
  BY DEF CallInv, CallsTyped, TypeOK
<1>3. Len(setup.configs) \in Nat /\ DOMAIN setup.configs = 1 .. Len(setup.configs)
  BY SetupFacts DEF CallInv, CallsTyped, TypeOK
<1>4. /\ slot' \in 0 .. Len(setup.configs) /\ closed' \subseteq 0 .. Len(setup.configs)
      /\ guard' \in DOMAIN setup.configs /\ inForce' \in DOMAIN setup.configs
      /\ reload' # "idle" => inForce' < Len(setup.configs)
      /\ reload' \in {"idle", "closed", "installed"} /\ room' \in BOOLEAN /\ stop' \in BOOLEAN
  <2>1. CASE LoseCapacity \/ FindCapacity \/ RequestShutdown
    BY <1>2, <2>1 DEF LoseCapacity, FindCapacity, RequestShutdown, clientVars
  <2>2. CASE CloseClients
    BY <1>2, <2>2 DEF CloseClients, apiVars
  <2>3. CASE InstallClients
    BY <1>2, <1>3, <2>3 DEF InstallClients, apiVars, NoClient
  <2>4. CASE InitLimiter
    BY <1>2, <1>3, <2>4 DEF InitLimiter, apiVars
  <2> QED BY <2>1, <2>2, <2>3, <2>4
<1>5. CallsTyped'
  <2>1. UNCHANGED <<setup, calls, out, made, lost, rejected, free, wasted>>
    BY <1>1
  <2>2. Models' = Models /\ CallsTyped
    BY <2>1 DEF Models, CallInv
  <2>3. TypeOK'
    BY <1>4, <2>1, <2>2 DEF CallsTyped, TypeOK
  <2> QED BY <1>4, <2>1, <2>2, <2>3 DEF CallsTyped
<1> QED BY <1>1, <1>5, SurroundingsKeep

LEMMA StutterKeeps ==
  ASSUME CallInv, UNCHANGED vars
  PROVE  CallInv'
<1>1. /\ UNCHANGED <<setup, calls, out, made, lost, rejected, free, wasted>>
      /\ UNCHANGED <<slot, closed, guard, inForce, reload, room, stop>>
  BY DEF vars, callVars, clientVars, apiVars
<1>2. Models' = Models /\ CallsTyped
  BY <1>1 DEF Models, CallInv
<1>3. CallsTyped'
  BY <1>1, <1>2 DEF CallsTyped, TypeOK
<1>4. UNCHANGED <<setup, callVars, rejected, free, wasted>> /\ (stop => stop')
  BY <1>1 DEF callVars
<1> QED BY <1>3, <1>4, SurroundingsKeep

-----------------------------------------------------------------------------
(* The theorems                                                            *)

\* A process starts with no call, every permit free and nothing learned.
LEMMA InitIInv ==
  Init => CallInv
<1> SUFFICES ASSUME Init PROVE CallInv
  OBVIOUS
<1>1. /\ setup \in Setups /\ calls = [c \in Callers |-> NoCall] /\ out = [c \in Callers |-> ""]
      /\ made = [c \in Callers |-> 0] /\ lost = [c \in Callers |-> {}]
      /\ rejected = [x \in Models |-> {}] /\ wasted = [x \in Models |-> 0]
      /\ free = [g \in DOMAIN setup.configs |-> Limit(g)]
      /\ slot = 1 /\ closed = {} /\ guard = 1 /\ inForce = 1 /\ reload = "idle"
      /\ room = TRUE /\ stop = FALSE
  BY DEF Init
<1>2. /\ Len(setup.configs) \in Nat \ {0} /\ DOMAIN setup.configs = 1 .. Len(setup.configs)
      /\ setup.calls \in Nat /\ \A g \in DOMAIN setup.configs : Limit(g) \in Nat
  BY <1>1, SetupFacts
<1>3. NoCall \in CallType /\ NoCall.at = "idle"
      /\ NoCall.strips + Cardinality(NoCall.params) <= Cardinality(setup.asked)
  BY <1>1, NoCallType
<1>4. calls \in [Callers -> CallType] /\ \A c \in Callers : calls[c] = NoCall
  BY <1>1, <1>3
<1>5. CallsTyped
  <2>1. /\ 0 \in 0 .. setup.calls /\ slot \in 0 .. Len(setup.configs) /\ guard \in DOMAIN setup.configs
        /\ inForce \in DOMAIN setup.configs /\ closed \subseteq 0 .. Len(setup.configs)
    <3>1. 1 \in 1 .. Len(setup.configs) /\ 1 \in 0 .. Len(setup.configs) /\ 0 \in 0 .. setup.calls
      BY <1>2
    <3> QED BY <1>1, <1>2, <3>1
  <2>2. free \in [DOMAIN setup.configs -> Nat]
    BY <1>1, <1>2 DEF Limit, Config
  <2>3. TypeOK
    BY <1>1, <1>4, <2>1, <2>2 DEF TypeOK, CallType
  <2> QED BY <1>1, <1>3, <1>4, <2>3 DEF CallsTyped
<1>6. Permits
  <2>1. ASSUME NEW g PROVE Holders(g) = {}
    BY <1>3, <1>4 DEF Holders, InFlight
  <2>2. Cardinality({}) = 0
    BY FS_EmptySet
  <2> SUFFICES ASSUME NEW g \in DOMAIN setup.configs
               PROVE  free[g] + Cardinality(Holders(g)) = Limit(g)
    BY DEF Permits
  <2>3. free[g] = Limit(g) /\ Limit(g) \in Nat
    BY <1>1, <1>2 DEF Limit, Config
  <2> QED BY <2>1, <2>2, <2>3
<1>7. Learned
  <2> SUFFICES ASSUME NEW x \in Models
               PROVE  wasted[x] + Cardinality(May(x)) <= Cardinality(Callers) * Cardinality(Known(x))
    BY DEF Learned
  <2>1. May(x) \in SUBSET (Callers \X Known(x)) /\ wasted[x] = 0
    BY <1>1 DEF May
  <2>2. /\ Cardinality(May(x)) <= Cardinality(Callers \X Known(x)) /\ Cardinality(May(x)) \in Nat
        /\ Cardinality(Callers \X Known(x)) = Cardinality(Callers) * Cardinality(Known(x))
    BY <1>1, <2>1, MayFinite
  <2> QED BY <2>1, <2>2
<1>8. ASSUME NEW c \in Callers PROVE Stripped(c) /\ Chained(c)
  BY <1>1, <1>3, <1>4 DEF Stripped, Chained
<1> QED BY <1>5, <1>6, <1>7, <1>8 DEF CallInv

LEMMA NextIInv ==
  CallInv /\ [Next]_vars => CallInv'
<1> SUFFICES ASSUME CallInv, [Next]_vars PROVE CallInv'
  OBVIOUS
<1>1. CASE \E c \in Callers : \/ StartCall(c) \/ Dial(c) \/ Enter(c) \/ Acquire(c)
                              \/ WakeUp(c) \/ FlexRetry(c) \/ FlexAbort(c)
  BY <1>1, RunningStepsKeep
<1>2. CASE \E c \in Callers : \/ Answered(c) \/ NoCapacity(c) \/ BadRequest(c)
                              \/ Malformed(c) \/ Dropped(c) \/ Refused(c)
  BY <1>2, RepliesKeep
<1>3. CASE \/ LoseCapacity \/ FindCapacity \/ RequestShutdown
           \/ CloseClients \/ InstallClients \/ InitLimiter
  BY <1>3, EnvironmentKeeps
<1>4. CASE UNCHANGED vars
  BY <1>4, StutterKeeps
<1> QED BY <1>1, <1>2, <1>3, <1>4 DEF Next

THEOREM CallsInvariant == Spec => []CallInv
BY InitIInv, NextIInv, PTL DEF Spec

\* For any number of threads, models, parameters and reloads: no permit of the
\* limiter (concurrency.py) is lost or given twice, however requests end and
\* whatever a settings change replaces meanwhile; and a parameter a model
\* rejects is paid for at most once by each thread (model_compat.py).
THEOREM SharedSound == Spec => []SharedStateIsSound
<1>1. ASSUME CallInv PROVE SharedStateIsSound
  <2>1. TypeOK /\ setup \in Setups
    BY <1>1 DEF CallInv, CallsTyped, TypeOK
  <2>2. PermitsAreAccountedFor
    BY <1>1 DEF CallInv, Permits, PermitsAreAccountedFor, Holders
  <2>3. RejectionsAreLearnedOnce
    <3> SUFFICES ASSUME NEW x \in Models
                 PROVE  wasted[x] <= Cardinality(Callers) * Cardinality(Known(x))
      BY DEF RejectionsAreLearnedOnce, Known
    <3>1. /\ wasted[x] + Cardinality(May(x)) <= Cardinality(Callers) * Cardinality(Known(x))
          /\ wasted[x] \in Nat /\ May(x) \in SUBSET (Callers \X Known(x))
      BY <1>1 DEF CallInv, Learned, CallsTyped, May
    <3> DEFINE bound == Cardinality(Callers) * Cardinality(Known(x))
    <3>2. Cardinality(May(x)) \in Nat /\ bound \in Nat
      BY <2>1, <3>1, MayFinite
    <3>3. wasted[x] + Cardinality(May(x)) <= bound
      BY <3>1
    <3> HIDE DEF bound
    <3>4. wasted[x] <= bound
      BY <3>1, <3>2, <3>3
    <3> QED BY <3>4 DEF bound
  <2> QED BY <2>1, <2>2, <2>3 DEF SharedStateIsSound
<1> QED BY <1>1, CallsInvariant, PTL

\* For any chain: a call comes back empty-handed only after each distinct model
\* was given up, each for one cause, and a lack of flex capacity is such a cause
\* only once a shutdown was requested (_wait_for_flex_capacity, unique_models).
THEOREM GivenUpForCause == Spec => []ModelsAreGivenUpForCause
<1>1. ASSUME CallInv PROVE ModelsAreGivenUpForCause
  <2>1. PatienceHolds
    BY <1>1 DEF CallInv, Chained, PatienceHolds
  <2>2. NoModelIsSkipped
    BY <1>1 DEF CallInv, Chained, Given, NoModelIsSkipped
  <2> QED BY <2>1, <2>2 DEF ModelsAreGivenUpForCause
<1> QED BY <1>1, CallsInvariant, PTL

-----------------------------------------------------------------------------
(* The configuration: for any environments, change sets and administrators *)

-----------------------------------------------------------------------------
(* The inductive invariant, in its parts                                   *)

Token == "PAPERLESS_TOKEN"

SettingsTyped ==
    /\ env \in Envs /\ DOMAIN table \subseteq Key
    /\ version \in Nat /\ DOMAIN hist = 0 .. version
    /\ lock \in Admin \cup {NoOne}
    /\ DOMAIN cache = Process /\ DOMAIN snap = Thread /\ DOMAIN plan = Admin
    /\ pc \in [Thread -> {"idle", "rebuild", "check", "seed", "again"}]
    /\ rebuilds \in Nat /\ saves \in 0 .. MaxSaves
    /\ redeploys \in 0 .. MaxRedeploys /\ failures \in 0 .. MaxFailures

\* A version is a save that is closed, or an import; only threads that found
\* the table empty, so at version 0, import.
At(t) == IF pc[t] = "seed" THEN 1 ELSE 0
Seeders == At("daemon") + At("web1") + At("web2")
Open == IF lock = NoOne THEN 0 ELSE 1
Counted ==
    /\ version > 0 => version + Seeders + Open <= saves + 3
    /\ rebuilds + Open <= saves

\* The table is the last of its versions, and was empty once.
History ==
    /\ hist[version] = table
    /\ \A v \in 0 .. version : hist[v] = Empty <=> v = 0

\* A hot load works on the rows of one version.
Snapshots == \A t \in Thread :
    /\ pc[t] = "idle" <=> snap[t] = NoSnap
    /\ pc[t] # "idle" => /\ snap[t].version \in 0 .. version
                         /\ snap[t].table = hist[snap[t].version]
    /\ pc[t] \in {"check", "seed"} => snap[t].version = 0

\* So does what it leaves in the cache, and that could be loaded.
Cached == \A p \in Process : Up(p) =>
    /\ cache[p].version \in 0 .. version
    /\ Valid(Merge(hist[cache[p].version]))
    /\ cache[p].settings = Built(Merge(hist[cache[p].version]))

\* The open request holds the write lock: its plan is still that of the table.
Planned == \A a \in Admin :
    /\ lock = a <=> plan[a] # NoPlan
    /\ plan[a] # NoPlan => Up("search") /\ \E c \in Changes : plan[a] = Plan(c, table)

\* The one secret no save can do without: once a process could load, or is
\* about to, the token stays.  An import could take it away only by writing a
\* blank, and then no process of the search server is up to accept a save.
TokenStays ==
    /\ Up("search") => ~Blank(Current, Token)
    /\ \A t \in Thread : pc[t] # "idle" /\ ~Blank(Merge(snap[t].table), Token) => ~Blank(Current, Token)
    /\ (\E t \in Thread : pc[t] = "seed") =>
          \/ ~Blank(env, Token)
          \/ ~Up("search") /\ Blank(Current, Token)

ConfigInv == SettingsTyped /\ Counted /\ History /\ Snapshots /\ Cached /\ Planned /\ TokenStays

-----------------------------------------------------------------------------
(* The operators: merging, and configurations that agree                   *)

\* A merge has the keys of both sides.  (_merge_environment.)
LEMMA Keys == ASSUME NEW f, NEW g PROVE DOMAIN (f @@ g) = DOMAIN f \cup DOMAIN g
BY DEF @@

\* The left side wins.  (_merge_environment.)
LEMMA Over ==
    ASSUME NEW f, NEW g, NEW k
    PROVE  /\ k \in DOMAIN f => (f @@ g)[k] = f[k]
           /\ k \in DOMAIN g \ DOMAIN f => (f @@ g)[k] = g[k]
BY DEF @@

\* Two configurations say the same of a key.
Same(s, r, k) == (k \in DOMAIN s <=> k \in DOMAIN r) /\ (k \in DOMAIN s => s[k] = r[k])
Agree(s, r) == \A k \in Key \ SecretKeys : Same(s, r, k)

\* Every parser reads a key the same way from either.  (_parsers.py.)
LEMMA SameParsed ==
    ASSUME NEW s, NEW r, NEW k, Same(s, r, k)
    PROVE  /\ \A d : Raw(s, k, d) = Raw(r, k, d)
           /\ Blank(s, k) <=> Blank(r, k)
           /\ IsInt(s, k) <=> IsInt(r, k)
           /\ \A d : IntOf(s, k, d) = IntOf(r, k, d)
           /\ IsBool(s, k) <=> IsBool(r, k)
           /\ IsProvider(s, k) <=> IsProvider(r, k)
           /\ \A d : ProviderOf(s, k, d) = ProviderOf(r, k, d)
           /\ \A d : Effort(s, k, d) = Effort(r, k, d)
<1>1. \A d : Raw(s, k, d) = Raw(r, k, d)
  BY DEF Same, Raw
<1>2. ~Blank(s, k) => k \in DOMAIN s /\ s[k] = r[k]
  BY DEF Same, Blank, Raw
<1>3. Blank(s, k) <=> Blank(r, k)
  BY <1>1 DEF Blank
<1>4. \A d : IntOf(s, k, d) = IntOf(r, k, d) /\ ProviderOf(s, k, d) = ProviderOf(r, k, d)
  BY <1>2, <1>3 DEF IntOf, ProviderOf
<1>5. (IsInt(s, k) <=> IsInt(r, k)) /\ (IsBool(s, k) <=> IsBool(r, k))
  BY <1>1 DEF IsInt, IsBool
<1>6. IsProvider(s, k) <=> IsProvider(r, k)
  BY <1>1 DEF IsProvider
<1>7. ASSUME NEW d PROVE Effort(s, k, d) = Effort(r, k, d)
  <2>1. Raw(s, k, d) = Raw(r, k, d)
    BY <1>1
  <2> QED
    BY <2>1 DEF Effort
<1> QED
  BY <1>1, <1>3, <1>4, <1>5, <1>6, <1>7

\* The keys of which the verdict and the comparison speak are no secrets.
LEMMA PlainKeys ==
    (StepKeys \cup ReindexKeys \cup {"LLM_PROVIDER", "OLLAMA_BASE_URL", "POLL_INTERVAL",
     "PAGE_WORKERS", "ERROR_TAG_ID", "STALE_LOCK_RECOVERY", "OCR_MODELS", "LOG_FORMAT",
     "OCR_REASONING_EFFORT", "SEARCH_RELEVANCE_TIER_GOOD", "SEARCH_RELEVANCE_TIER_STRONG"})
      \subseteq Key \ SecretKeys
BY DEF Key, StepKeys, ReindexKeys, SecretKeys

\* The providers follow from keys that are no secrets.  (_build_settings.)
LEMMA SameSteps ==
    ASSUME NEW s, NEW r, Agree(s, r)
    PROVE  Steps(s) = Steps(r) /\ \A p : Uses(s, p) <=> Uses(r, p)
<1>1. \A k \in StepKeys \cup {"LLM_PROVIDER", "EMBEDDING_PROVIDER"} :
         \A d : Raw(s, k, d) = Raw(r, k, d) /\ ProviderOf(s, k, d) = ProviderOf(r, k, d)
  BY SameParsed, PlainKeys DEF Agree, ReindexKeys
<1>2. Steps(s) = Steps(r)
  BY <1>1 DEF Steps, StepKeys
<1> QED
  BY <1>2 DEF Uses

\* What a rebuild depends on is no secret.  (reindex_required.)
LEMMA SameReindex ==
    ASSUME NEW s, NEW r, Agree(s, r), NEW k \in ReindexKeys
    PROVE  Built(s)[k] = Built(r)[k]
<1>1. \A x \in ReindexKeys : \A d : Raw(s, x, d) = Raw(r, x, d) /\ IntOf(s, x, d) = IntOf(r, x, d)
  BY SameParsed, PlainKeys DEF Agree
<1>2. Steps(s) = Steps(r)
  BY SameSteps
<1>3. /\ Built(s)["EMBEDDING_PROVIDER"] = Steps(s).EMBEDDING_PROVIDER
      /\ Built(s)["EMBEDDING_MODEL"] = Raw(s, "EMBEDDING_MODEL", "text-embedding-3-small")
      /\ Built(s)["CHUNK_SIZE"] = IntOf(s, "CHUNK_SIZE", 4)
      /\ Built(s)["CHUNK_OVERLAP"] = IntOf(s, "CHUNK_OVERLAP", 1)
  BY DEF Built
<1>4. /\ Built(r)["EMBEDDING_PROVIDER"] = Steps(r).EMBEDDING_PROVIDER
      /\ Built(r)["EMBEDDING_MODEL"] = Raw(r, "EMBEDDING_MODEL", "text-embedding-3-small")
      /\ Built(r)["CHUNK_SIZE"] = IntOf(r, "CHUNK_SIZE", 4)
      /\ Built(r)["CHUNK_OVERLAP"] = IntOf(r, "CHUNK_OVERLAP", 1)
  BY DEF Built
<1> QED
  BY <1>1, <1>2, <1>3, <1>4 DEF ReindexKeys

\* Only secrets can turn a configuration that builds into one that does not.
\* (_build_settings.)
LEMMA SameVerdict ==
    ASSUME NEW s, NEW r, Agree(s, r), Valid(s),
           ~Blank(r, "PAPERLESS_TOKEN"), Uses(r, "openai") => ~Blank(r, "OPENAI_API_KEY")
    PROVE  Valid(r)
<1> DEFINE Plain == Key \ SecretKeys
<1>1. \A k \in Plain :
        /\ \A d : Raw(s, k, d) = Raw(r, k, d) /\ IntOf(s, k, d) = IntOf(r, k, d)
        /\ \A d : Effort(s, k, d) = Effort(r, k, d)
        /\ Blank(s, k) <=> Blank(r, k)
        /\ IsInt(s, k) <=> IsInt(r, k)
        /\ IsBool(s, k) <=> IsBool(r, k)
        /\ IsProvider(s, k) <=> IsProvider(r, k)
        /\ k \in DOMAIN s <=> k \in DOMAIN r
  BY SameParsed DEF Agree, Same
<1> HIDE DEF Plain
<1>2. /\ StepKeys \cup {"EMBEDDING_PROVIDER"} \subseteq Plain
      /\ "LLM_PROVIDER" \in Plain /\ "OCR_MODELS" \in Plain /\ "LOG_FORMAT" \in Plain
      /\ "POLL_INTERVAL" \in Plain /\ "PAGE_WORKERS" \in Plain /\ "ERROR_TAG_ID" \in Plain
      /\ "STALE_LOCK_RECOVERY" \in Plain /\ "OCR_REASONING_EFFORT" \in Plain
      /\ "SEARCH_RELEVANCE_TIER_GOOD" \in Plain /\ "SEARCH_RELEVANCE_TIER_STRONG" \in Plain
      /\ "CHUNK_SIZE" \in Plain /\ "CHUNK_OVERLAP" \in Plain
  BY PlainKeys DEF Plain, ReindexKeys
<1>3. AtLeastOne(r, "CHUNK_SIZE", 4) /\ AtLeastOne(r, "POLL_INTERVAL", 1) /\ OverlapFits(r)
  BY <1>1, <1>2 DEF Valid, AtLeastOne, OverlapFits
<1>4. TiersAreOrdered(r)
  BY <1>1, <1>2 DEF Valid, TiersAreOrdered
<1>5. /\ OneOf(r, "LLM_PROVIDER", Provider, "openai")
      /\ OneOf(r, "LOG_FORMAT", {"json", "console"}, "console")
      /\ \A k \in StepKeys \cup {"EMBEDDING_PROVIDER"} : IsProvider(r, k)
      /\ "OCR_MODELS" \in DOMAIN r => ~Blank(r, "OCR_MODELS")
      /\ IsInt(r, "PAGE_WORKERS") /\ IsInt(r, "ERROR_TAG_ID")
      /\ IsBool(r, "STALE_LOCK_RECOVERY")
      /\ Effort(r, "OCR_REASONING_EFFORT", "none") \in Efforts
  BY <1>1, <1>2 DEF Valid, OneOf
<1> QED
  BY <1>3, <1>4, <1>5 DEF Valid

\* What a save leaves, and the candidate its verdict was about, say the same of
\* every key but a secret that nobody has configured.  (_put_settings.)
Left(c, tab) == Merge(OnlyChanged(c, tab) @@ tab)

LEMMA CandidateIsLeft ==
    ASSUME NEW c \in Changes, NEW k, k \notin SecretKeys \/ k \in DOMAIN Merge(table)
    PROVE  Same(Candidate(c, table), Left(c, table), k)
<1> DEFINE old == Merge(table)
           holders == [x \in SecretKeys |-> Placeholder]
           new == OnlyChanged(c, table)
<1>0. /\ Candidate(c, table) = (c @@ old) @@ holders
      /\ Left(c, table) = (new @@ table) @@ env
      /\ old = table @@ env
      /\ DOMAIN holders = SecretKeys
  BY DEF Candidate, Left, Merge
<1> HIDE DEF old, holders, new
<1>1. /\ DOMAIN (c @@ old) = DOMAIN c \cup DOMAIN old
      /\ DOMAIN Candidate(c, table) = (DOMAIN c \cup DOMAIN old) \cup SecretKeys
  <2>1. DOMAIN (c @@ old) = DOMAIN c \cup DOMAIN old
    BY Keys
  <2>2. DOMAIN ((c @@ old) @@ holders) = DOMAIN (c @@ old) \cup DOMAIN holders
    BY Keys
  <2> QED
    BY ONLY <1>0, <2>1, <2>2
<1>2. /\ k \in DOMAIN c => Candidate(c, table)[k] = c[k]
      /\ k \in DOMAIN old \ DOMAIN c => Candidate(c, table)[k] = old[k]
  BY <1>0, <1>1, Over
<1>3. /\ DOMAIN old = DOMAIN table \cup DOMAIN env
      /\ DOMAIN (new @@ table) = DOMAIN new \cup DOMAIN table
      /\ DOMAIN Left(c, table) = (DOMAIN new \cup DOMAIN table) \cup DOMAIN env
  <2>1. DOMAIN (table @@ env) = DOMAIN table \cup DOMAIN env
    BY Keys
  <2>2. DOMAIN (new @@ table) = DOMAIN new \cup DOMAIN table
    BY Keys
  <2>3. DOMAIN ((new @@ table) @@ env) = DOMAIN (new @@ table) \cup DOMAIN env
    BY Keys
  <2> QED
    BY <1>0, <2>1, <2>2, <2>3
<1>4. /\ k \in DOMAIN new => Left(c, table)[k] = new[k]
      /\ k \in DOMAIN table \ DOMAIN new => Left(c, table)[k] = table[k] /\ old[k] = table[k]
      /\ k \in DOMAIN env \ (DOMAIN table \cup DOMAIN new) => Left(c, table)[k] = env[k] /\ old[k] = env[k]
  BY <1>0, <1>3, Over
<1>5. /\ DOMAIN new \subseteq DOMAIN c
      /\ k \in DOMAIN new => new[k] = c[k]
      /\ k \in DOMAIN c \ DOMAIN new => k \in DOMAIN old /\ c[k] = old[k]
  BY ChangesHaveValues DEF OnlyChanged, Changed, Raw, old, new
<1> QED
  BY <1>1, <1>2, <1>3, <1>4, <1>5 DEF Same, old

LEMMA CandidateAgrees ==
    ASSUME NEW c \in Changes
    PROVE  Agree(Candidate(c, table), Left(c, table))
BY CandidateIsLeft DEF Agree

\* Without changes the candidate is the current configuration.
LEMMA NoChangeAgrees == Agree(Candidate(Empty, table), Current)
<1> DEFINE holders == [x \in SecretKeys |-> Placeholder]
<1>1. Candidate(Empty, table) = (Empty @@ Current) @@ holders /\ DOMAIN holders = SecretKeys
  BY DEF Candidate, Current
<1> HIDE DEF holders
<1>2. DOMAIN Empty = {}
  BY DEF Empty
<1>3. DOMAIN (Empty @@ Current) = DOMAIN Current
  <2>1. DOMAIN (Empty @@ Current) = DOMAIN Empty \cup DOMAIN Current
    BY Keys
  <2> QED
    BY <1>2, <2>1
<1>4. \A k \in DOMAIN Current : (Empty @@ Current)[k] = Current[k]
  BY <1>2, Keys, Over
<1>5. DOMAIN Candidate(Empty, table) = DOMAIN Current \cup SecretKeys
  BY <1>1, <1>3, Keys
<1>6. \A k \in DOMAIN Current : Candidate(Empty, table)[k] = Current[k]
  BY <1>1, <1>3, <1>4, Keys, Over
<1> QED
  BY <1>5, <1>6 DEF Agree, Same

\* A secret that is configured is still so after a save that is accepted.
\* (_merged_for_build.)
LEMMA TokenIsKept ==
    ASSUME NEW c \in Changes, Valid(Candidate(c, table)), ~Blank(Current, Token)
    PROVE  ~Blank(Left(c, table), Token)
<1>1. Token \in DOMAIN Merge(table)
  BY DEF Current, Blank, Raw
<1>2. Same(Candidate(c, table), Left(c, table), Token)
  BY <1>1, CandidateIsLeft
<1>3. ~Blank(Candidate(c, table), Token)
  BY DEF Valid, Token
<1> QED
  BY <1>2, <1>3, SameParsed

-----------------------------------------------------------------------------
(* The config table and its versions                                       *)

LEMMA NonEmpty ==
    ASSUME NEW f, f = [k \in DOMAIN f |-> f[k]], f # Empty
    PROVE  DOMAIN f # {}
BY DEF Empty

\* A commit appends one version and leaves the earlier ones.
\* (set_many_in_transaction.)
LEMMA Written ==
    ASSUME SettingsTyped, NEW w, Write(w)
    PROVE  /\ table' = w @@ table /\ DOMAIN table' = DOMAIN w \cup DOMAIN table
           /\ version' = version + 1 /\ DOMAIN hist' = 0 .. version + 1
           /\ hist'[version + 1] = table'
           /\ \A v \in 0 .. version : hist'[v] = hist[v]
<1> DEFINE last == (version + 1) :> (w @@ table)
<1>1. DOMAIN last = {version + 1} /\ last[version + 1] = w @@ table
  BY DEF :>
<1>2. hist' = last @@ hist /\ table' = w @@ table /\ version' = version + 1
  BY DEF Write
<1> HIDE DEF last
<1>3. DOMAIN hist' = DOMAIN last \cup DOMAIN hist /\ DOMAIN table' = DOMAIN w \cup DOMAIN table
  BY <1>2, Keys
<1>4. version \in Nat /\ DOMAIN hist = 0 .. version
  BY DEF SettingsTyped
<1>5. DOMAIN hist' = 0 .. version + 1
  BY <1>1, <1>3, <1>4
<1>6. hist'[version + 1] = table'
  BY <1>1, <1>2, Over
<1>7. \A v \in 0 .. version : hist'[v] = hist[v]
  BY <1>1, <1>2, <1>4, Over
<1> QED
  BY <1>2, <1>3, <1>5, <1>6, <1>7

\* What a request may write is a set of changes, and not of unknown keys.
LEMMA PlannedWrites ==
    ASSUME ConfigInv, NEW a \in Admin, plan[a] # NoPlan, plan[a].values # Empty
    PROVE  \E c \in Changes :
              /\ plan[a].values = OnlyChanged(c, table)
              /\ plan[a].rebuild = ReindexRequired(c, table)
              /\ Acceptable(c, table)
              /\ DOMAIN plan[a].values # {} /\ DOMAIN plan[a].values \subseteq Key
<1>1. PICK c \in Changes : plan[a] = Plan(c, table)
  BY DEF ConfigInv, Planned
<1>2. Acceptable(c, table) /\ plan[a] = [values |-> OnlyChanged(c, table), rebuild |-> ReindexRequired(c, table)]
  BY <1>1 DEF Plan
<1>3. OnlyChanged(c, table) = [k \in DOMAIN OnlyChanged(c, table) |-> OnlyChanged(c, table)[k]]
  BY DEF OnlyChanged
<1>4. DOMAIN OnlyChanged(c, table) \subseteq DOMAIN c
  BY DEF OnlyChanged, Changed
<1>5. DOMAIN c \subseteq Key
  BY <1>2 DEF Acceptable
<1> QED
  BY <1>2, <1>3, <1>4, <1>5, NonEmpty

\* Only an import and a save write.
LEMMA Writers ==
    ASSUME ConfigInv, [SettingsNext]_settingsVars
    PROVE  \/ UNCHANGED db
           \/ \E w : /\ Write(w) /\ DOMAIN w # {} /\ DOMAIN w \subseteq Key /\ env' = env
                     /\ \/ w = env /\ \E t \in Thread : Seed(t)
                        \/ \E a \in Admin : Commit(a) /\ w = plan[a].values
<1>1. ASSUME NEW t \in Thread, Seed(t)
      PROVE  UNCHANGED db \/ (Write(env) /\ DOMAIN env # {} /\ DOMAIN env \subseteq Key /\ env' = env)
  <2>1. DOMAIN env \subseteq Key /\ env = [k \in DOMAIN env |-> env[k]]
    BY EnvsAreConfigs DEF ConfigInv, SettingsTyped
  <2>2. env # Empty => DOMAIN env # {}
    BY <2>1, NonEmpty
  <2> QED
    BY <1>1, <2>1, <2>2 DEF Seed
<1>2. ASSUME NEW a \in Admin, Commit(a)
      PROVE  /\ Write(plan[a].values) /\ env' = env
             /\ DOMAIN plan[a].values # {} /\ DOMAIN plan[a].values \subseteq Key
  BY <1>2, PlannedWrites DEF Commit
<1>3. ASSUME NEW t \in Thread, Snapshot(t) \/ Rebuild(t) \/ CheckEmpty(t) \/ Again(t) PROVE UNCHANGED db
  BY <1>3 DEF Snapshot, Rebuild, CheckEmpty, Again
<1>4. ASSUME NEW a \in Admin, (\E c \in Changes : BeginSave(a, c)) \/ Refuse(a) \/ ScheduleFails(a) PROVE UNCHANGED db
  BY <1>4 DEF BeginSave, Refuse, ScheduleFails
<1>5. ASSUME NEW e \in Envs, Redeploy(e) PROVE UNCHANGED db
  BY <1>5 DEF Redeploy
<1>6. ASSUME UNCHANGED settingsVars PROVE UNCHANGED db
  BY <1>6 DEF settingsVars
<1> QED
  BY <1>1, <1>2, <1>3, <1>4, <1>5, <1>6 DEF SettingsNext

\* Versions only grow, and a version stays what it was.
LEMMA VersionsStay ==
    ASSUME ConfigInv, [SettingsNext]_settingsVars
    PROVE  /\ version' \in Nat /\ version \in 0 .. version' /\ DOMAIN hist' = 0 .. version'
           /\ \A v \in 0 .. version : hist'[v] = hist[v] /\ v \in 0 .. version'
<1>1. SettingsTyped /\ version \in Nat /\ DOMAIN hist = 0 .. version
  BY DEF ConfigInv, SettingsTyped
<1>2. CASE UNCHANGED db
  BY <1>1, <1>2 DEF db
<1>3. ASSUME NEW w, Write(w)
      PROVE  /\ version' = version + 1 /\ DOMAIN hist' = 0 .. version + 1
             /\ \A v \in 0 .. version : hist'[v] = hist[v]
  BY <1>1, <1>3, Written
<1> QED
  BY <1>1, <1>2, <1>3, Writers

LEMMA HistoryStep == ConfigInv /\ [SettingsNext]_settingsVars => History'
<1> SUFFICES ASSUME ConfigInv, [SettingsNext]_settingsVars PROVE History'
  OBVIOUS
<1>1. SettingsTyped /\ History /\ version \in Nat
  BY DEF ConfigInv, SettingsTyped
<1>2. CASE UNCHANGED db
  BY <1>1, <1>2 DEF db, History, Empty
<1>3. ASSUME NEW w, Write(w), DOMAIN w # {} PROVE History'
  <2>1. /\ version' = version + 1 /\ hist'[version + 1] = table'
        /\ \A v \in 0 .. version : hist'[v] = hist[v]
        /\ DOMAIN table' = DOMAIN w \cup DOMAIN table
    BY <1>1, <1>3, Written
  <2>2. table' # Empty
    BY <1>3, <2>1 DEF Empty
  <2>3. \A v \in 0 .. version + 1 : hist'[v] = Empty <=> v = 0
    BY <1>1, <2>1, <2>2 DEF History
  <2> QED
    BY <2>1, <2>3 DEF History, Empty
<1> QED
  BY <1>2, <1>3, Writers

-----------------------------------------------------------------------------
(* The invariant holds initially, and every step keeps each of its parts    *)

LEMMA SettingsInitInv == SettingsInit => ConfigInv
<1> SUFFICES ASSUME SettingsInit PROVE ConfigInv
  OBVIOUS
<1>1. /\ version = 0 /\ table = Empty /\ DOMAIN hist = {0} /\ hist[0] = Empty /\ DOMAIN Empty = {}
  BY DEF SettingsInit, :>, Empty
<1>2. 0 .. 0 = {0} /\ \A v \in 0 .. 0 : v = 0
  OBVIOUS
<1>3. SettingsTyped
  BY <1>1, <1>2, BudgetsAreNatural DEF SettingsInit, SettingsTyped
<1>4. History
  BY <1>1, <1>2 DEF History
<1>5. Counted
  BY <1>1 DEF SettingsInit, Counted, Open
<1>6. Snapshots /\ Cached
  BY DEF SettingsInit, Snapshots, Cached, Up
<1>7. Planned
  BY NobodyIsNoAdmin DEF SettingsInit, Planned
<1>8. TokenStays
  BY DEF SettingsInit, TokenStays, Up, Process
<1> QED
  BY <1>3, <1>4, <1>5, <1>6, <1>7, <1>8 DEF ConfigInv

LEMMA TypedStep == ConfigInv /\ [SettingsNext]_settingsVars => SettingsTyped'
<1> SUFFICES ASSUME ConfigInv, [SettingsNext]_settingsVars PROVE SettingsTyped'
  OBVIOUS
<1>1. SettingsTyped
  BY DEF ConfigInv
<1>2. /\ version' \in Nat /\ DOMAIN hist' = 0 .. version' /\ DOMAIN table' \subseteq Key
  <2>1. CASE UNCHANGED db
    BY <1>1, <2>1 DEF db, SettingsTyped
  <2>2. ASSUME NEW w, Write(w), DOMAIN w \subseteq Key PROVE DOMAIN table' \subseteq Key
    BY <1>1, <2>2, Written DEF SettingsTyped
  <2> QED
    BY <2>1, <2>2, Writers, VersionsStay
<1>3. CASE UNCHANGED settingsVars
  BY <1>1, <1>2, <1>3 DEF settingsVars, db, page, SettingsTyped
<1>4. ASSUME NEW t \in Thread, Snapshot(t) PROVE SettingsTyped'
  BY <1>1, <1>2, <1>4 DEF Snapshot, Goes, SettingsTyped, page
<1>5. ASSUME NEW t \in Thread, Rebuild(t) PROVE SettingsTyped'
  BY <1>1, <1>2, <1>5 DEF Rebuild, Goes, GoesIdle, Load, SettingsTyped, page
<1>6. ASSUME NEW t \in Thread, CheckEmpty(t) PROVE SettingsTyped'
  BY <1>1, <1>2, <1>6 DEF CheckEmpty, Goes, SettingsTyped, page
<1>7. ASSUME NEW t \in Thread, Seed(t) PROVE SettingsTyped'
  BY <1>1, <1>2, <1>7 DEF Seed, Goes, SettingsTyped, page
<1>8. ASSUME NEW t \in Thread, Again(t) PROVE SettingsTyped'
  BY <1>1, <1>2, <1>8 DEF Again, Load, Goes, GoesIdle, SettingsTyped, page
<1>9. ASSUME NEW a \in Admin, NEW c \in Changes, BeginSave(a, c) PROVE SettingsTyped'
  <2>1. saves' \in 0 .. MaxSaves
    BY <1>1, <1>9, BudgetsAreNatural DEF BeginSave, SettingsTyped
  <2> QED
    BY <1>1, <1>2, <1>9, <2>1 DEF BeginSave, SettingsTyped
<1>10. ASSUME NEW a \in Admin, Refuse(a) PROVE SettingsTyped'
  BY <1>1, <1>2, <1>10 DEF Refuse, Closed, SettingsTyped
<1>11. ASSUME NEW a \in Admin, ScheduleFails(a) PROVE SettingsTyped'
  BY <1>1, <1>2, <1>11, BudgetsAreNatural DEF ScheduleFails, Closed, SettingsTyped
<1>12. ASSUME NEW a \in Admin, Commit(a) PROVE SettingsTyped'
  BY <1>1, <1>2, <1>12 DEF Commit, Closed, SettingsTyped
<1>13. ASSUME NEW e \in Envs, Redeploy(e) PROVE SettingsTyped'
  BY <1>1, <1>2, <1>13, BudgetsAreNatural DEF Redeploy, SettingsTyped
<1> QED
  BY <1>3, <1>4, <1>5, <1>6, <1>7, <1>8, <1>9, <1>10, <1>11, <1>12, <1>13 DEF SettingsNext

\* A verdict is not the mark of no request, nor is a loaded pair that of none.
LEMMA Marks ==
    /\ \A c, tab : Plan(c, tab) # NoPlan
    /\ \A s : s.version # -1 => Pair(s) # NoPair
<1>1. ASSUME NEW c, NEW tab PROVE Plan(c, tab) # NoPlan
  <2>1. "values" \in DOMAIN Plan(c, tab)
    BY DEF Plan
  <2>2. "values" \notin DOMAIN NoPlan
    BY DEF NoPlan
  <2> QED
    BY <2>1, <2>2
<1>2. ASSUME NEW s, s.version # -1 PROVE Pair(s) # NoPair
  <2>1. Pair(s).version = s.version /\ NoPair.version = -1
    BY DEF Pair, NoPair
  <2> QED
    BY <1>2, <2>1
<1> QED
  BY <1>1, <1>2

\* What Load leaves: a pair of the snapshot's version, or the old pair, or, of
\* a daemon, nothing.  (_hot_load.)
LEMMA Loaded ==
    ASSUME ConfigInv, NEW t \in Thread, NEW s, s.version \in Nat, Load(t, s)
    PROVE  /\ \A p \in Process : p # Home(t) => cache'[p] = cache[p]
           /\ cache'[Home(t)] \in {Pair(s), cache[Home(t)], NoPair}
           /\ cache'[Home(t)] = Pair(s) => Valid(Merge(s.table)) \/ cache[Home(t)] = Pair(s)
           /\ ~Valid(Merge(s.table)) => cache'[Home(t)] \in {cache[Home(t)], NoPair}
           /\ Up("search") => cache'["search"] # NoPair
           /\ ~Up("search") /\ ~Valid(Merge(s.table)) => cache'["search"] = NoPair
<1>1. Home(t) \in Process /\ "search" \in Process /\ DOMAIN cache = Process
  BY DEF ConfigInv, SettingsTyped, Home, Process
<1>2. Pair(s) # NoPair
  BY Marks
<1>3. cache' = [cache EXCEPT ![Home(t)] = IF Valid(Merge(s.table)) THEN Pair(s)
                                            ELSE IF Home(t) = "daemon" THEN NoPair ELSE cache[Home(t)]]
  BY DEF Load
<1>4. "search" # "daemon"
  OBVIOUS
<1> HIDE DEF Valid
<1> QED
  BY <1>1, <1>2, <1>3, <1>4 DEF Up

\* What a thread works on is a version there has been.
LEMMA SnapshotOf ==
    ASSUME ConfigInv, NEW t \in Thread, pc[t] # "idle"
    PROVE  snap[t].version \in Nat /\ snap[t].version \in 0 .. version /\ snap[t].table = hist[snap[t].version]
BY DEF ConfigInv, SettingsTyped, Snapshots

\* Once up, the search server stays up until the next restart.
LEMMA UpStays ==
    ASSUME ConfigInv, [SettingsNext]_settingsVars, Up("search"), UNCHANGED redeploys
    PROVE  Up("search")'
<1>1. version \in Nat /\ redeploys \in Nat
  BY BudgetsAreNatural DEF ConfigInv, SettingsTyped
<1>2. ASSUME NEW t \in Thread, Rebuild(t) PROVE Up("search")'
  BY <1>2, Loaded, SnapshotOf DEF Rebuild, Up
<1>3. ASSUME NEW t \in Thread, Again(t) PROVE Up("search")'
  BY <1>1, <1>3, Loaded DEF Again, Up
<1>4. CASE UNCHANGED cache
  BY <1>4 DEF Up
<1>5. ASSUME NEW t \in Thread, Snapshot(t) \/ CheckEmpty(t) \/ Seed(t) PROVE UNCHANGED cache
  BY <1>5 DEF Snapshot, CheckEmpty, Seed
<1>6. ASSUME NEW a \in Admin, (\E c \in Changes : BeginSave(a, c)) \/ Refuse(a) \/ ScheduleFails(a) \/ Commit(a)
      PROVE  UNCHANGED cache
  BY <1>6 DEF BeginSave, Refuse, ScheduleFails, Commit
<1>7. CASE UNCHANGED settingsVars
  BY <1>7 DEF settingsVars, Up
<1>8. ASSUME NEW e \in Envs PROVE ~Redeploy(e)
  BY <1>1 DEF Redeploy
<1> QED
  BY <1>2, <1>3, <1>4, <1>5, <1>6, <1>7, <1>8 DEF SettingsNext

\* A verdict depends on the environment and the table alone.
LEMMA SamePlan ==
    ASSUME NEW c \in Changes, UNCHANGED <<env, table>>
    PROVE  Plan(c, table)' = Plan(c, table)
BY DEF Plan, Acceptable, Valid, Candidate, Merge, ReindexRequired, Built, Connected, OnlyChanged, Changed

\* The plans of requests that hold the write lock, and of no others.
LEMMA PlannedStep == ConfigInv /\ [SettingsNext]_settingsVars => Planned'
<1> SUFFICES ASSUME ConfigInv, [SettingsNext]_settingsVars PROVE Planned'
  OBVIOUS
<1>1. SettingsTyped /\ Planned
  BY DEF ConfigInv
<1>2. ASSUME UNCHANGED <<env, lock, plan>>, lock = NoOne \/ UNCHANGED table, Up("search") => Up("search")'
      PROVE  Planned'
  <2> SUFFICES ASSUME NEW a \in Admin
               PROVE  /\ lock' = a <=> plan'[a] # NoPlan
                      /\ plan'[a] # NoPlan => Up("search")' /\ \E c \in Changes : plan'[a] = Plan(c, table)'
    BY DEF Planned
  <2>1. lock = a <=> plan[a] # NoPlan
    BY <1>1 DEF Planned
  <2>2. CASE plan[a] = NoPlan
    BY <1>2, <2>1, <2>2
  <2>3. CASE plan[a] # NoPlan
    <3>1. UNCHANGED table
      BY <1>2, <2>1, <2>3, NobodyIsNoAdmin
    <3>2. PICK c \in Changes : plan[a] = Plan(c, table)
      BY <1>1, <2>3 DEF Planned
    <3>3. Plan(c, table)' = Plan(c, table)
      BY <1>2, <3>1, SamePlan
    <3> QED
      BY <1>1, <1>2, <2>1, <2>3, <3>2, <3>3 DEF Planned
  <2> QED
    BY <2>2, <2>3
<1>3. CASE UNCHANGED settingsVars
  BY <1>2, <1>3 DEF settingsVars, db, page, Up

<1>4. ASSUME NEW t \in Thread, Snapshot(t) \/ Rebuild(t) \/ CheckEmpty(t) \/ Again(t) PROVE Planned'
  <2>1. UNCHANGED <<env, lock, plan, table, redeploys>>
    BY <1>4 DEF Snapshot, Rebuild, CheckEmpty, Again, db, page
  <2> QED
    BY <1>2, <2>1, UpStays
<1>5. ASSUME NEW t \in Thread, Seed(t) PROVE Planned'
  <2>1. UNCHANGED <<env, lock, plan, redeploys>> /\ lock = NoOne
    BY <1>5 DEF Seed, page
  <2> QED
    BY <1>2, <2>1, UpStays
<1>6. ASSUME NEW a \in Admin, NEW c \in Changes, BeginSave(a, c) PROVE Planned'
  <2>1. /\ lock = NoOne /\ lock' = a /\ Up("search") /\ Up("search")' /\ table' = table /\ env' = env
        /\ plan' = [plan EXCEPT ![a] = Plan(c, table)]
    BY <1>6 DEF BeginSave, MayBegin, db, Up
  <2>2. \A b \in Admin : plan[b] = NoPlan
    BY <1>1, <2>1, NobodyIsNoAdmin DEF Planned
  <2>3. Plan(c, table)' = Plan(c, table)
    BY <2>1, SamePlan
  <2>5. Plan(c, table) # NoPlan
    BY Marks
  <2>4. DOMAIN plan = Admin
    BY <1>1 DEF SettingsTyped
  <2> QED
    BY <2>1, <2>2, <2>3, <2>4, <2>5 DEF Planned
<1>7. ASSUME NEW a \in Admin, plan[a] # NoPlan, Closed(a) PROVE Planned'
  <2>1. lock = a /\ \A b \in Admin \ {a} : plan[b] = NoPlan
    BY <1>1, <1>7 DEF Planned
  <2>2. DOMAIN plan = Admin
    BY <1>1 DEF SettingsTyped
  <2> QED
    BY <1>7, <2>1, <2>2, NobodyIsNoAdmin DEF Planned, Closed
<1>8. ASSUME NEW a \in Admin, Refuse(a) \/ ScheduleFails(a) \/ Commit(a) PROVE Planned'
  BY <1>7, <1>8 DEF Refuse, ScheduleFails, Commit
<1>9. ASSUME NEW e \in Envs, Redeploy(e) PROVE Planned'
  BY <1>9, NobodyIsNoAdmin DEF Redeploy, Planned
<1> QED
  BY <1>3, <1>4, <1>5, <1>6, <1>8, <1>9 DEF SettingsNext

LEMMA FewerSeeders ==
    ASSUME NEW v \in Nat, NEW n \in 0 .. 3, NEW m \in 0 .. 3, NEW o \in 0 .. 1, NEW s \in Nat,
           m <= n, v + n + o <= s + 3
    PROVE  v + m + o <= s + 3
OBVIOUS

LEMMA CountedStep == ConfigInv /\ [SettingsNext]_settingsVars => Counted'
<1> SUFFICES ASSUME ConfigInv, [SettingsNext]_settingsVars PROVE Counted'
  OBVIOUS
<1>1. SettingsTyped /\ Counted /\ History /\ Planned
  BY DEF ConfigInv
<1>2. /\ version \in Nat /\ rebuilds \in Nat /\ saves \in Nat
      /\ pc \in [Thread -> {"idle", "rebuild", "check", "seed", "again"}]
  BY <1>1, BudgetsAreNatural DEF SettingsTyped
<1>3. /\ "daemon" \in Thread /\ "web1" \in Thread /\ "web2" \in Thread
      /\ "daemon" # "web1" /\ "daemon" # "web2" /\ "web1" # "web2"
  BY DEF Thread
<1>4. Seeders \in 0 .. 3
  BY DEF Seeders, At
\* A thread that leaves "seed", and a step that takes none there.
<1>5. ASSUME NEW t \in Thread, NEW to \in {"rebuild", "check", "again", "idle"}, Goes(t, to)
      PROVE  Seeders' \in 0 .. 3 /\ Seeders' = Seeders - At(t)
  BY <1>2, <1>3, <1>5 DEF Seeders, At, Goes, Thread
<1>6. ASSUME UNCHANGED <<version, lock, rebuilds, saves>>, Seeders' \in 0 .. 3, Seeders' <= Seeders
      PROVE  Counted'
  <2>1. Open' = Open /\ Open \in 0 .. 1
    BY <1>6 DEF Open
  <2> HIDE DEF Seeders, Open
  <2>2. version > 0 => version + Seeders + Open <= saves + 3
    BY <1>1 DEF Counted
  <2>3. version' > 0 => version' + Seeders' + Open' <= saves' + 3
    <3>1. version' = version /\ saves' = saves
      BY <1>6
    <3>2. version \in Nat /\ saves \in Nat /\ Seeders \in 0 .. 3 /\ Seeders' \in 0 .. 3 /\ Seeders' <= Seeders
      BY <1>2, <1>4, <1>6
    <3> QED
      BY <2>1, <2>2, <3>1, <3>2, FewerSeeders
  <2>4. rebuilds' + Open' <= saves'
    BY <1>1, <1>6, <2>1 DEF Counted
  <2> QED
    BY <2>3, <2>4 DEF Counted
<1>8. \A t \in Thread : At(t) \in 0 .. 1
  BY DEF At
<1>9. ASSUME NEW t \in Thread, Snapshot(t) \/ Rebuild(t) \/ Again(t) PROVE Counted'
  <2>1. UNCHANGED <<version, lock, rebuilds, saves>>
    BY <1>9 DEF Snapshot, Rebuild, Again, db, page
  <2>2. Goes(t, "rebuild") \/ Goes(t, "check") \/ Goes(t, "idle")
    BY <1>9 DEF Snapshot, Rebuild, Again, GoesIdle
  <2> QED
    BY <1>4, <1>5, <1>6, <1>8, <2>1, <2>2
<1>10. ASSUME NEW t \in Thread, CheckEmpty(t) PROVE Counted'
  <2>1. UNCHANGED <<version, lock, rebuilds, saves>>
    BY <1>10 DEF CheckEmpty, db, page
  <2>2. CASE table = Empty
    <3>1. version = 0
      BY <1>1, <1>2, <2>2 DEF History
    <3> QED
      BY <1>1, <2>1, <3>1 DEF Counted, Open
  <2>3. CASE table # Empty
    <3>1. Goes(t, "again")
      BY <1>10, <2>3 DEF CheckEmpty, NeedsSeed
    <3> QED
      BY <1>4, <1>5, <1>6, <1>8, <2>1, <3>1
  <2> QED
    BY <2>2, <2>3
<1>11. ASSUME NEW t \in Thread, Seed(t) PROVE Counted'
  <2>1. /\ lock = NoOne /\ UNCHANGED <<lock, rebuilds, saves>> /\ Goes(t, "again") /\ At(t) = 1
        /\ version' = version \/ version' = version + 1
    BY <1>11 DEF Seed, page, db, Write, At
  <2>2. Seeders' = Seeders - 1 /\ Seeders' \in 0 .. 3 /\ Seeders' <= 2
    BY <1>4, <1>5, <2>1
  <2>3. Open = 0 /\ Open' = 0
    BY <2>1 DEF Open
  <2> HIDE DEF Seeders, Open
  <2>4. version' > 0 => version' + Seeders' + Open' <= saves' + 3
    BY <1>1, <1>2, <1>4, <2>1, <2>2, <2>3 DEF Counted
  <2> QED
    BY <1>1, <2>1, <2>3, <2>4 DEF Counted
<1>12. ASSUME NEW a \in Admin, NEW c \in Changes, BeginSave(a, c) PROVE Counted'
  <2>1. /\ saves' = saves + 1 /\ UNCHANGED <<version, rebuilds, pc>> /\ lock = NoOne /\ lock' = a /\ a # NoOne
    BY <1>12, NobodyIsNoAdmin DEF BeginSave, MayBegin, db
  <2>2. Open = 0 /\ Open' = 1 /\ Seeders' = Seeders
    BY <2>1 DEF Open, Seeders, At
  <2> QED
    BY <1>1, <1>2, <1>4, <2>1, <2>2 DEF Counted
<1>13. ASSUME NEW a \in Admin, Refuse(a) \/ ScheduleFails(a) \/ Commit(a) PROVE Counted'
  <2>1. /\ UNCHANGED <<saves, pc>> /\ lock' = NoOne /\ plan[a] # NoPlan
        /\ \/ UNCHANGED <<version, rebuilds>>
           \/ version' = version + 1 /\ rebuilds' \in {rebuilds, rebuilds + 1}
    <3>1. CASE Refuse(a)
      BY <3>1 DEF Refuse, Closed, db
    <3>2. CASE ScheduleFails(a)
      BY <3>2 DEF ScheduleFails, Closed, db
    <3>3. CASE Commit(a)
      BY <1>2, <3>3 DEF Commit, Closed, Write
    <3> QED
      BY <1>13, <3>1, <3>2, <3>3
  <2>2. lock = a /\ a # NoOne
    BY <1>1, <2>1, NobodyIsNoAdmin DEF Planned
  <2>3. Open = 1 /\ Open' = 0 /\ Seeders' = Seeders
    BY <2>1, <2>2 DEF Open, Seeders, At
  <2>4. rebuilds + 1 <= saves /\ (version > 0 => version + Seeders + 1 <= saves + 3)
    BY <1>1, <2>3 DEF Counted
  <2> HIDE DEF Seeders, Open
  <2>5. rebuilds' + Open' <= saves'
    BY <1>2, <2>1, <2>3, <2>4
  <2>6. version' + Seeders' + Open' <= saves' + 3
    BY <1>2, <1>4, <2>1, <2>3, <2>4
  <2> QED
    BY <2>5, <2>6 DEF Counted
<1>14. ASSUME NEW e \in Envs, Redeploy(e) PROVE Counted'
  <2>1. UNCHANGED <<version, rebuilds, saves>> /\ lock' = NoOne /\ \A t \in Thread : pc'[t] = "idle"
    BY <1>14 DEF Redeploy, db
  <2>2. Open' = 0 /\ Seeders' = 0 /\ Open \in 0 .. 1
    BY <1>3, <2>1 DEF Open, Seeders, At
  <2> QED
    BY <1>1, <1>2, <1>4, <2>1, <2>2 DEF Counted
<1>15. CASE UNCHANGED settingsVars
  BY <1>1, <1>15 DEF settingsVars, db, page, Counted, Open, Seeders, At
<1> QED
  BY <1>9, <1>10, <1>11, <1>12, <1>13, <1>14, <1>15 DEF SettingsNext

LEMMA SnapshotsStep == ConfigInv /\ [SettingsNext]_settingsVars => Snapshots'
<1> SUFFICES ASSUME ConfigInv, [SettingsNext]_settingsVars PROVE Snapshots'
  OBVIOUS
<1>1. SettingsTyped /\ Snapshots /\ History /\ version \in Nat /\ DOMAIN snap = Thread
  BY DEF ConfigInv, SettingsTyped
<1>2. pc \in [Thread -> {"idle", "rebuild", "check", "seed", "again"}]
  BY <1>1 DEF SettingsTyped
\* A thread whose hot load goes on from its snapshot.
<1>3. ASSUME NEW t \in Thread, NEW to \in {"check", "seed", "again"}, Goes(t, to), snap' = snap,
             pc[t] # "idle", to \in {"check", "seed"} => snap[t].version = 0
      PROVE  Snapshots'
  <2> SUFFICES ASSUME NEW u \in Thread
               PROVE  /\ pc'[u] = "idle" <=> snap'[u] = NoSnap
                      /\ pc'[u] # "idle" => snap'[u].version \in 0 .. version' /\ snap'[u].table = hist'[snap'[u].version]
                      /\ pc'[u] \in {"check", "seed"} => snap'[u].version = 0
    BY DEF Snapshots
  <2>1. pc'[u] = "idle" <=> pc[u] = "idle"
    BY <1>2, <1>3 DEF Goes
  <2>2. pc'[u] \in {"check", "seed"} => snap'[u].version = 0
    BY <1>1, <1>2, <1>3 DEF Goes, Snapshots
  <2> QED
    BY <1>1, <1>3, <2>1, <2>2, VersionsStay DEF Snapshots
\* A thread that ends its hot load.
<1>4. ASSUME NEW t \in Thread, GoesIdle(t) PROVE Snapshots'
  BY <1>1, <1>2, <1>4, VersionsStay DEF Snapshots, GoesIdle, Goes
<1>5. ASSUME UNCHANGED <<pc, snap>> PROVE Snapshots'
  BY <1>1, <1>5, VersionsStay DEF Snapshots, NoSnap
<1>6. ASSUME NEW t \in Thread, Snapshot(t) PROVE Snapshots'
  <2> DEFINE new == [version |-> version, table |-> table]
  <2>1. new # NoSnap /\ new.version = version /\ new.table = hist[version]
    <3>1. "table" \in DOMAIN new /\ "table" \notin DOMAIN NoSnap
      BY DEF NoSnap
    <3> QED
      BY <1>1, <3>1 DEF History
  <2>2. /\ pc' = [pc EXCEPT ![t] = "rebuild"] /\ snap' = [snap EXCEPT ![t] = new]
        /\ version' = version /\ hist' = hist
    BY <1>6 DEF Snapshot, Goes, db
  <2>3. version \in 0 .. version
    BY <1>1
  <2> HIDE DEF new
  <2> QED
    BY <1>1, <1>2, <2>1, <2>2, <2>3 DEF Snapshots, NoSnap
<1>7. ASSUME NEW t \in Thread, Rebuild(t) PROVE Snapshots'
  <2>1. CASE GoesIdle(t)
    BY <1>4, <2>1
  <2>2. CASE Goes(t, "check") /\ snap' = snap /\ snap[t].table = Empty
    <3>1. pc[t] # "idle"
      BY <1>7 DEF Rebuild
    <3>2. snap[t].version = 0
      BY <1>1, <2>2, <3>1 DEF Snapshots, History
    <3> QED
      BY <1>3, <2>2, <3>1, <3>2
  <2> QED
    BY <1>7, <2>1, <2>2 DEF Rebuild, NeedsSeed
<1>8. ASSUME NEW t \in Thread, CheckEmpty(t) PROVE Snapshots'
  <2>1. /\ Goes(t, "seed") \/ Goes(t, "again")
        /\ snap' = snap /\ pc[t] = "check"
    BY <1>8 DEF CheckEmpty
  <2>2. snap[t].version = 0
    BY <1>1, <2>1 DEF Snapshots
  <2> QED
    BY <1>3, <2>1, <2>2
<1>9. ASSUME NEW t \in Thread, Seed(t) PROVE Snapshots'
  <2>1. Goes(t, "again") /\ snap' = snap /\ pc[t] = "seed"
    BY <1>9 DEF Seed
  <2> QED
    BY <1>3, <2>1
<1>10. ASSUME NEW t \in Thread, Again(t) PROVE Snapshots'
  BY <1>4, <1>10 DEF Again
<1>11. ASSUME NEW a \in Admin, (\E c \in Changes : BeginSave(a, c)) \/ Refuse(a) \/ ScheduleFails(a) \/ Commit(a)
       PROVE  Snapshots'
  BY <1>5, <1>11 DEF BeginSave, Refuse, ScheduleFails, Commit
<1>12. ASSUME NEW e \in Envs, Redeploy(e) PROVE Snapshots'
  BY <1>12 DEF Redeploy, Snapshots
<1>13. CASE UNCHANGED settingsVars
  BY <1>5, <1>13 DEF settingsVars
<1> QED
  BY <1>6, <1>7, <1>8, <1>9, <1>10, <1>11, <1>12, <1>13 DEF SettingsNext

LEMMA CachedStep == ConfigInv /\ [SettingsNext]_settingsVars => Cached'
<1> SUFFICES ASSUME ConfigInv, [SettingsNext]_settingsVars PROVE Cached'
  OBVIOUS
<1>1. Cached /\ History /\ version \in Nat /\ DOMAIN cache = Process
  BY DEF ConfigInv, SettingsTyped
<1>2. ASSUME NEW p \in Process, cache'[p] = cache[p], env' = env
      PROVE  Up(p)' => /\ cache'[p].version \in 0 .. version'
                       /\ Valid(Merge(hist[cache[p].version]))'
                       /\ cache'[p].settings = Built(Merge(hist[cache[p].version]))'
  <2>1. SUFFICES ASSUME Up(p)
                 PROVE  /\ cache'[p].version \in 0 .. version'
                        /\ Valid(Merge(hist[cache[p].version]))'
                        /\ cache'[p].settings = Built(Merge(hist[cache[p].version]))'
    BY <1>2 DEF Up, NoPair
  <2>2. cache[p].version \in 0 .. version /\ hist'[cache'[p].version] = hist[cache[p].version]
    BY <1>1, <1>2, <2>1, VersionsStay DEF Cached
  <2>3. Merge(hist[cache[p].version])' = Merge(hist[cache[p].version])
    BY <1>2, <2>2 DEF Merge
  <2> QED
    BY <1>1, <1>2, <2>1, <2>2, <2>3, VersionsStay DEF Cached
<1>3. ASSUME UNCHANGED <<cache, env>> PROVE Cached'
  BY <1>2, <1>3 DEF Cached
<1>4. ASSUME NEW t \in Thread, NEW s, s.version \in 0 .. version, s.table = hist[s.version],
             Load(t, s), UNCHANGED <<env, db>>
      PROVE  Cached'
  <2>1. s.version \in Nat /\ Home(t) \in Process
    BY <1>1, <1>4 DEF Home, Process
  <2>2. ASSUME NEW p \in Process, cache'[p] = Pair(s), Valid(Merge(s.table))
        PROVE  /\ cache'[p].version \in 0 .. version'
               /\ Valid(Merge(hist[cache[p].version]))'
               /\ cache'[p].settings = Built(Merge(hist[cache[p].version]))'
    <3>1. cache'[p].version = s.version /\ cache'[p].settings = Built(Merge(s.table))
      BY <2>2 DEF Pair
    <3>2. Merge(hist[cache[p].version])' = Merge(s.table) /\ version' = version
      BY <1>4, <3>1 DEF Merge, db
    <3> QED
      BY <1>4, <2>2, <3>1, <3>2
  <2>3. ASSUME NEW p \in Process PROVE \/ cache'[p] = cache[p] \/ cache'[p] = NoPair
                                       \/ cache'[p] = Pair(s) /\ Valid(Merge(s.table))
    BY <1>4, <2>1, Loaded
  <2> QED
    BY <1>2, <1>4, <2>2, <2>3 DEF Cached, Up, NoPair
<1>5. ASSUME NEW t \in Thread, Rebuild(t) PROVE Cached'
  <2>1. CASE UNCHANGED <<cache, env>>
    BY <1>3, <2>1
  <2>2. CASE Load(t, snap[t])
    <3>1. pc[t] # "idle" /\ UNCHANGED <<env, db>>
      BY <1>5 DEF Rebuild
    <3> QED
      BY <1>4, <2>2, <3>1, SnapshotOf
  <2> QED
    BY <1>5, <2>1, <2>2 DEF Rebuild
<1>6. ASSUME NEW t \in Thread, Again(t) PROVE Cached'
  <2> DEFINE now == [version |-> version, table |-> table]
  <2>1. Load(t, now) /\ UNCHANGED <<env, db>>
    BY <1>6 DEF Again
  <2>2. now.version \in 0 .. version /\ now.table = hist[now.version]
    BY <1>1 DEF History
  <2> HIDE DEF now
  <2> QED
    BY <1>4, <2>1, <2>2
<1>7. ASSUME NEW t \in Thread, Snapshot(t) \/ CheckEmpty(t) \/ Seed(t) PROVE Cached'
  BY <1>3, <1>7 DEF Snapshot, CheckEmpty, Seed
<1>8. ASSUME NEW a \in Admin, (\E c \in Changes : BeginSave(a, c)) \/ Refuse(a) \/ ScheduleFails(a) \/ Commit(a)
      PROVE  Cached'
  BY <1>3, <1>8 DEF BeginSave, Refuse, ScheduleFails, Commit
<1>9. ASSUME NEW e \in Envs, Redeploy(e) PROVE Cached'
  BY <1>9 DEF Redeploy, Cached, Up
<1>10. CASE UNCHANGED settingsVars
  BY <1>3, <1>10 DEF settingsVars
<1> QED
  BY <1>5, <1>6, <1>7, <1>8, <1>9, <1>10 DEF SettingsNext

\* What a write makes of the token: an import brings that of the environment, a
\* save keeps the one there is.
LEMMA TokenWritten ==
    ASSUME ConfigInv, [SettingsNext]_settingsVars, UNCHANGED env, ~Blank(Current, Token)
    PROVE  ~Blank(Current', Token)
<1>1. SettingsTyped /\ TokenStays
  BY DEF ConfigInv
<1>2. CASE UNCHANGED db
  BY <1>2 DEF Current, Merge, db
<1>3. ASSUME NEW t \in Thread, Seed(t), Write(env) PROVE ~Blank(Current', Token)
  <2>1. ~Blank(env, Token)
    BY <1>1, <1>3 DEF Seed, TokenStays
  <2>2. Token \in DOMAIN env /\ env[Token] # ""
    BY <2>1 DEF Blank, Raw
  <2>3. table' = env @@ table /\ DOMAIN table' = DOMAIN env \cup DOMAIN table
    BY <1>1, <1>3, Written
  <2>4. table'[Token] = env[Token] /\ Token \in DOMAIN table'
    <3>1. (env @@ table)[Token] = env[Token]
      BY <2>2, Keys, Over
    <3> QED
      BY <2>2, <2>3, <3>1
  <2>5. Current' = table' @@ env
    BY DEF Current, Merge
  <2>6. Token \in DOMAIN Current' /\ Current'[Token] = table'[Token]
    BY <2>4, <2>5, Keys, Over
  <2> QED
    BY <2>2, <2>4, <2>6 DEF Blank, Raw
<1>4. ASSUME NEW a \in Admin, Commit(a) PROVE ~Blank(Current', Token)
  <2>1. plan[a] # NoPlan /\ plan[a].values # Empty /\ Write(plan[a].values) /\ env' = env
    BY <1>4 DEF Commit
  <2>2. PICK c \in Changes : plan[a].values = OnlyChanged(c, table) /\ Acceptable(c, table)
    BY <2>1, PlannedWrites
  <2>3. Current' = Left(c, table)
    BY <2>1, <2>2 DEF Current, Merge, Left, Write
  <2> QED
    BY <2>2, <2>3, TokenIsKept DEF Acceptable
<1> QED
  BY <1>2, <1>3, <1>4, Writers

\* An import of a blank: nothing else brings a token while it is under way.
LEMMA BlankStays ==
    ASSUME ConfigInv, [SettingsNext]_settingsVars, UNCHANGED env, Blank(env, Token), Blank(Current, Token), ~Up("search")
    PROVE  Blank(Current', Token)
<1>1. SettingsTyped
  BY DEF ConfigInv
<1>2. CASE UNCHANGED db
  BY <1>2 DEF Current, Merge, db
<1>3. ASSUME Write(env) PROVE Blank(Current', Token)
  <2>1. table' = env @@ table /\ Current' = table' @@ env /\ Current = table @@ env
    BY <1>1, <1>3, Written DEF Current, Merge
  <2>2. /\ DOMAIN table' = DOMAIN env \cup DOMAIN table
        /\ DOMAIN Current' = DOMAIN table' \cup DOMAIN env
        /\ DOMAIN Current = DOMAIN table \cup DOMAIN env
    BY <2>1, Keys
  <2>3. CASE Token \in DOMAIN env
    <3>1. Token \in DOMAIN Current' /\ Current'[Token] = env[Token]
      BY <2>1, <2>2, <2>3, Over
    <3> QED
      BY <2>3, <3>1 DEF Blank, Raw
  <2>4. CASE Token \in DOMAIN table \ DOMAIN env
    <3>1. Token \in DOMAIN Current' /\ Current'[Token] = table[Token] /\ Current[Token] = table[Token]
      BY <2>1, <2>2, <2>4, Over
    <3> QED
      BY <2>2, <2>4, <3>1 DEF Blank, Raw
  <2>5. CASE Token \notin DOMAIN table \cup DOMAIN env
    BY <2>2, <2>5 DEF Blank, Raw
  <2> QED
    BY <2>3, <2>4, <2>5
<1>4. ASSUME NEW a \in Admin PROVE ~Commit(a)
  BY DEF Commit, ConfigInv, Planned
<1> QED
  BY <1>2, <1>3, <1>4, Writers

\* How hot loads move: a thread with rows took them now or had them, and one
\* that imports has just found the table empty, or had done so.
LEMMA HotLoadsMove ==
    ASSUME ConfigInv, [SettingsNext]_settingsVars, ~ \E e \in Envs : Redeploy(e), NEW u \in Thread
    PROVE  /\ UNCHANGED env
           /\ pc'[u] # "idle" => \/ pc[u] # "idle" /\ snap'[u] = snap[u]
                                \/ snap'[u].table = table
           /\ pc'[u] = "seed" => pc[u] = "seed" \/ table = Empty
<1>1. DOMAIN snap = Thread /\ pc \in [Thread -> {"idle", "rebuild", "check", "seed", "again"}]
  BY DEF ConfigInv, SettingsTyped
<1>2. CASE UNCHANGED <<env, pc, snap>>
  BY <1>2
<1>3. ASSUME NEW t \in Thread, Snapshot(t)
      PROVE  /\ UNCHANGED env
             /\ u = t => snap'[u].table = table /\ pc'[u] = "rebuild"
             /\ u # t => snap'[u] = snap[u] /\ pc'[u] = pc[u]
  BY <1>1, <1>3 DEF Snapshot, Goes
<1>4. ASSUME NEW t \in Thread, Rebuild(t) \/ Again(t)
      PROVE  /\ UNCHANGED env
             /\ u = t => pc'[u] = "idle" \/ (pc'[u] = "check" /\ snap'[u] = snap[u] /\ pc[u] = "rebuild")
             /\ u # t => snap'[u] = snap[u] /\ pc'[u] = pc[u]
  BY <1>1, <1>4 DEF Rebuild, Again, Goes, GoesIdle
<1>5. ASSUME NEW t \in Thread, CheckEmpty(t)
      PROVE  /\ UNCHANGED env /\ snap' = snap
             /\ u = t => pc[u] = "check" /\ (pc'[u] = "seed" => table = Empty)
             /\ u # t => pc'[u] = pc[u]
  BY <1>1, <1>5 DEF CheckEmpty, Goes, NeedsSeed
<1>6. ASSUME NEW t \in Thread, Seed(t)
      PROVE  /\ UNCHANGED env /\ snap' = snap
             /\ u = t => pc[u] = "seed" /\ pc'[u] = "again"
             /\ u # t => pc'[u] = pc[u]
  BY <1>1, <1>6 DEF Seed, Goes
<1>7. ASSUME NEW a \in Admin, (\E c \in Changes : BeginSave(a, c)) \/ Refuse(a) \/ ScheduleFails(a) \/ Commit(a)
      PROVE  UNCHANGED <<env, pc, snap>>
  BY <1>7 DEF BeginSave, Refuse, ScheduleFails, Commit
<1>8. UNCHANGED settingsVars => UNCHANGED <<env, pc, snap>>
  BY DEF settingsVars
<1> QED
  BY <1>2, <1>3, <1>4, <1>5, <1>6, <1>7, <1>8 DEF SettingsNext

LEMMA TokenStaysStep == ConfigInv /\ [SettingsNext]_settingsVars => TokenStays'
<1> SUFFICES ASSUME ConfigInv, [SettingsNext]_settingsVars PROVE TokenStays'
  OBVIOUS
<1>1. SettingsTyped /\ History /\ Snapshots /\ Cached /\ TokenStays /\ version \in Nat
  BY DEF ConfigInv, SettingsTyped
<1>2. pc \in [Thread -> {"idle", "rebuild", "check", "seed", "again"}]
  BY <1>1 DEF SettingsTyped
<1>3. CASE \E e \in Envs : Redeploy(e)
  BY <1>3 DEF Redeploy, TokenStays, Up, Process
<1>4. CASE UNCHANGED env /\ ~ \E e \in Envs : Redeploy(e)
  <2>1. ~Blank(Current, Token) => ~Blank(Current', Token)
    BY <1>4, TokenWritten
  \* What a process may load has the token only if the table still does.
  <2>2. ASSUME NEW t \in Thread, Load(t, snap[t]), pc[t] # "idle", Up("search")'
        PROVE  ~Blank(Current, Token)
    <3>1. CASE Up("search")
      BY <1>1, <3>1 DEF TokenStays
    <3>2. CASE ~Up("search")
      <4>1. Valid(Merge(snap[t].table))
        BY <2>2, <3>2, SnapshotOf, Loaded DEF Up, NoPair
      <4>2. ~Blank(Merge(snap[t].table), Token)
        BY <4>1 DEF Valid, Token
      <4> QED
        BY <1>1, <2>2, <4>2 DEF TokenStays
    <3> QED
      BY <3>1, <3>2
  <2>3. ASSUME NEW t \in Thread, Again(t), Up("search")' PROVE ~Blank(Current, Token)
    <3> DEFINE now == [version |-> version, table |-> table]
    <3>1. Load(t, now) /\ now.version \in Nat /\ Merge(now.table) = Current
      BY <1>1, <2>3 DEF Again, Current
    <3> HIDE DEF now
    <3>2. CASE Up("search")
      BY <1>1, <3>2 DEF TokenStays
    <3>3. CASE ~Up("search")
      <4>1. Valid(Current)
        BY <2>3, <3>1, <3>3, Loaded DEF Up, NoPair
      <4> QED
        BY <4>1 DEF Valid, Token
    <3> QED
      BY <3>2, <3>3
  <2>4. Up("search")' => ~Blank(Current, Token)
    <3>1. ASSUME NEW t \in Thread, Rebuild(t), Up("search")' PROVE ~Blank(Current, Token)
      <4>1. CASE UNCHANGED cache
        BY <1>1, <3>1, <4>1 DEF Up, NoPair, TokenStays
      <4> QED
        BY <2>2, <3>1, <4>1 DEF Rebuild
    <3>2. CASE UNCHANGED cache
      BY <1>1, <3>2 DEF Up, NoPair, TokenStays
    <3>3. ASSUME NEW t \in Thread, Snapshot(t) \/ CheckEmpty(t) \/ Seed(t) PROVE UNCHANGED cache
      BY <3>3 DEF Snapshot, CheckEmpty, Seed
    <3>4. ASSUME NEW a \in Admin, (\E c \in Changes : BeginSave(a, c)) \/ Refuse(a) \/ ScheduleFails(a) \/ Commit(a)
          PROVE  UNCHANGED cache
      BY <3>4 DEF BeginSave, Refuse, ScheduleFails, Commit
    <3>5. UNCHANGED settingsVars => UNCHANGED cache
      BY DEF settingsVars
    <3> QED
      BY <1>4, <2>3, <3>1, <3>2, <3>3, <3>4, <3>5 DEF SettingsNext
  <2>5. ASSUME NEW t \in Thread, pc'[t] # "idle", ~Blank(Merge(snap[t].table), Token)'
        PROVE  ~Blank(Current', Token)
    <3>1. CASE pc[t] # "idle" /\ snap'[t] = snap[t]
      BY <1>1, <1>4, <2>1, <2>5, <3>1 DEF TokenStays, Merge
    <3>2. CASE snap'[t].table = table
      BY <1>4, <2>1, <2>5, <3>2 DEF Current, Merge
    <3> QED
      BY <1>4, <2>5, <3>1, <3>2, HotLoadsMove
  <2>6. ASSUME NEW t \in Thread, pc'[t] = "seed", Blank(env, Token)
        PROVE  ~Up("search")' /\ Blank(Current', Token)
    <3>1. Blank(Current, Token)
      <4>1. CASE pc[t] = "seed"
        BY <1>1, <2>6, <4>1 DEF TokenStays
      <4>2. CASE table = Empty
        <5>1. DOMAIN table = {} /\ Current = table @@ env
          BY <4>2 DEF Current, Merge, Empty
        <5>2. DOMAIN Current = DOMAIN table \cup DOMAIN env
          BY <5>1, Keys
        <5>3. Token \in DOMAIN env => Current[Token] = env[Token]
          BY <5>1, Over
        <5> QED
          BY <2>6, <5>1, <5>2, <5>3 DEF Blank, Raw
      <4> QED
        BY <1>4, <2>6, <4>1, <4>2, HotLoadsMove
    <3>2. ~Up("search") /\ ~Up("search")'
      BY <1>1, <2>4, <3>1 DEF TokenStays
    <3> QED
      BY <1>4, <2>6, <3>1, <3>2, BlankStays
  <2>7. Up("search")' => ~Blank(Current', Token)
    BY <2>1, <2>4
  <2> QED
    BY <1>4, <2>5, <2>6, <2>7 DEF TokenStays, Current
<1>5. "daemon" \in Thread
  BY DEF Thread
<1> QED
  BY <1>3, <1>4, <1>5, HotLoadsMove

-----------------------------------------------------------------------------
(* The theorems                                                            *)

\* Every reachable state satisfies the inductive invariant.
THEOREM SettingsInvariant == SettingsSpec => []ConfigInv
<1>1. ConfigInv /\ [SettingsNext]_settingsVars => ConfigInv'
  BY TypedStep, CountedStep, HistoryStep, SnapshotsStep, CachedStep, PlannedStep, TokenStaysStep DEF ConfigInv
<1> QED
  BY <1>1, SettingsInitInv, PTL DEF SettingsSpec

\* A configuration that builds has a chunk size the chunker can work with.
\* (_require_at_least_one.)
LEMMA ChunksArePositive == ASSUME NEW s, Valid(s) PROVE Built(s).CHUNK_SIZE >= 1
<1>1. Built(s).CHUNK_SIZE = IntOf(s, "CHUNK_SIZE", 4)
  BY DEF Built
<1> QED
  BY <1>1 DEF Valid, AtLeastOne

\* However saves, imports and hot loads interleave, a process caches a version
\* together with what the rows of that version make, and only what could be
\* loaded; the versions are as many as the saves and imports allow.
\* (_hot_load, set_many_in_transaction.)
THEOREM CachesSound == SettingsSpec => []CachesAreSound
<1>1. ASSUME ConfigInv PROVE CachesAreSound
  <2>1. PairsAreOfOneVersion
    BY <1>1 DEF ConfigInv, Cached, PairsAreOfOneVersion
  <2>2. \A p \in Process : Up(p) => cache[p].version \in 0 .. version /\ cache[p].settings.CHUNK_SIZE >= 1
    BY <1>1, ChunksArePositive DEF ConfigInv, Cached
  <2>3. version \in Nat /\ rebuilds \in Nat /\ saves \in 0 .. MaxSaves /\ MaxSaves \in Nat
    BY <1>1, BudgetsAreNatural DEF ConfigInv, SettingsTyped
  <2>4. Seeders \in 0 .. 3 /\ Open \in 0 .. 1
    BY DEF Seeders, At, Open
  <2>5. (version > 0 => version + Seeders + Open <= saves + 3) /\ rebuilds + Open <= saves
    BY <1>1 DEF ConfigInv, Counted
  <2>6. version \in 0 .. MaxSaves + 3 /\ rebuilds \in 0 .. saves
    BY <2>3, <2>4, <2>5
  <2>7. \A a \in Admin : (lock = a) <=> (plan[a] # NoPlan)
    BY <1>1 DEF ConfigInv, Planned
  <2>8. DOMAIN env \subseteq Key
    BY <1>1, EnvsAreConfigs DEF ConfigInv, SettingsTyped
  <2>9. SettingsTypeOK
    BY <1>1, <2>2, <2>6, <2>7, <2>8 DEF ConfigInv, SettingsTyped, Snapshots, SettingsTypeOK
  <2> QED
    BY <2>1, <2>9 DEF CachesAreSound
<1> QED
  BY <1>1, SettingsInvariant, PTL

\* Only a commit closes a request and moves the version.
LEMMA SavedByCommit ==
    ASSUME ConfigInv, [SettingsNext]_settingsVars, NEW a \in Admin, SavedBy(a)
    PROVE  Commit(a)
<1>1. plan[a] # NoPlan /\ plan'[a] = NoPlan /\ version' # version /\ Planned /\ DOMAIN plan = Admin
  BY DEF SavedBy, ConfigInv, SettingsTyped
<1>2. ASSUME NEW t \in Thread PROVE ~(Snapshot(t) \/ Rebuild(t) \/ CheckEmpty(t) \/ Seed(t) \/ Again(t))
  BY <1>1 DEF Snapshot, Rebuild, CheckEmpty, Seed, Again, page
<1>3. ASSUME NEW b \in Admin PROVE ~((\E c \in Changes : BeginSave(b, c)) \/ Refuse(b) \/ ScheduleFails(b))
  BY <1>1 DEF BeginSave, Refuse, ScheduleFails, db
<1>4. ASSUME NEW e \in Envs PROVE ~Redeploy(e)
  BY <1>1 DEF Redeploy, db
<1>5. ~UNCHANGED settingsVars
  BY <1>1 DEF settingsVars, db
<1>6. ASSUME NEW b \in Admin, Commit(b) PROVE b = a
  BY <1>1, <1>6 DEF Commit, Planned
<1> QED
  BY <1>2, <1>3, <1>4, <1>5, <1>6 DEF SettingsNext

\* What a commit leaves is what its verdict was about.  (_put_settings.)
LEMMA CommitLeaves ==
    ASSUME ConfigInv, [SettingsNext]_settingsVars, NEW a \in Admin, Commit(a)
    PROVE  \E c \in Changes : /\ Acceptable(c, table) /\ Current' = Left(c, table)
                              /\ plan[a].rebuild = ReindexRequired(c, table)
<1>1. plan[a] # NoPlan /\ plan[a].values # Empty /\ Write(plan[a].values) /\ env' = env
  BY DEF Commit
<1>2. PICK c \in Changes : /\ plan[a].values = OnlyChanged(c, table) /\ Acceptable(c, table)
                           /\ plan[a].rebuild = ReindexRequired(c, table)
  BY <1>1, PlannedWrites
<1>3. Current' = Left(c, table)
  BY <1>1, <1>2 DEF Current, Merge, Left, Write
<1> QED
  BY <1>2, <1>3

\* A save that is accepted can be loaded by every process, but for the OpenAI
\* key whose absence the placeholder hides.  (validate_change_set.)
LEMMA SaveLoads ==
    ASSUME ConfigInv, [SettingsNext]_settingsVars, NEW a \in Admin, SavedBy(a)
    PROVE  Valid(Current') \/ (Uses(Current', "openai") /\ Blank(Current', "OPENAI_API_KEY"))
<1>1. Commit(a)
  BY SavedByCommit
<1>2. PICK c \in Changes : Acceptable(c, table) /\ Current' = Left(c, table)
  BY <1>1, CommitLeaves
<1>3. ~Blank(Current, Token) /\ env' = env
  BY <1>1 DEF Commit, ConfigInv, Planned, TokenStays
<1>4. ~Blank(Left(c, table), "PAPERLESS_TOKEN")
  BY <1>2, <1>3, TokenIsKept DEF Acceptable, Token
<1>5. Valid(Candidate(c, table)) /\ Agree(Candidate(c, table), Left(c, table))
  BY <1>2, CandidateAgrees DEF Acceptable
<1> QED
  BY <1>2, <1>4, <1>5, SameVerdict

\* A save touches the rebuild sentinel if and only if it moves a resolved value
\* the index depends on, though it compares candidates with placeholders.
\* (reindex_required.)
LEMMA SaveRebuilds ==
    ASSUME ConfigInv, [SettingsNext]_settingsVars, NEW a \in Admin, SavedBy(a)
    PROVE  rebuilds' # rebuilds <=> \E k \in ReindexKeys : Built(Current')[k] # Built(Current)[k]
<1>1. Commit(a) /\ rebuilds \in Nat
  BY SavedByCommit DEF ConfigInv, SettingsTyped
<1>2. PICK c \in Changes : /\ Current' = Left(c, table)
                           /\ plan[a].rebuild = ReindexRequired(c, table)
  BY <1>1, CommitLeaves
<1>3. rebuilds' # rebuilds <=> ReindexRequired(c, table)
  BY <1>1, <1>2 DEF Commit
<1>4. \A k \in ReindexKeys : Built(Candidate(c, table))[k] = Built(Left(c, table))[k]
  BY CandidateAgrees, SameReindex
<1>5. \A k \in ReindexKeys : Built(Candidate(Empty, table))[k] = Built(Current)[k]
  BY NoChangeAgrees, SameReindex
<1> QED
  BY <1>2, <1>3, <1>4, <1>5 DEF ReindexRequired

\* Only saves, and imports that had found the table empty, replace a value.
\* (seed_from_env.)
LEMMA SaveStays ==
    ASSUME ConfigInv, [SettingsNext]_settingsVars, NEW k \in DOMAIN table, table'[k] # table[k]
    PROVE  \/ \E a \in Admin : SavedBy(a)
           \/ \E t \in Thread : pc[t] = "seed" /\ snap[t].version = 0
<1>1. ~UNCHANGED db /\ version \in Nat /\ DOMAIN plan = Admin /\ Snapshots
  BY DEF db, ConfigInv, SettingsTyped
<1>2. ASSUME NEW t \in Thread, Seed(t) PROVE pc[t] = "seed" /\ snap[t].version = 0
  BY <1>1, <1>2 DEF Seed, Snapshots
<1>3. ASSUME NEW a \in Admin, Commit(a) PROVE SavedBy(a)
  BY <1>1, <1>3 DEF Commit, Write, Closed, SavedBy
<1> QED
  BY <1>1, <1>2, <1>3, Writers

\* A save that is accepted can be loaded and brings the rebuild it needs, even
\* when administrators save at once and processes start meanwhile, and is not
\* undone by a late import of the environment.  (_put_settings, seed_from_env.)
THEOREM SavesSound == SettingsSpec => SavesAreSound
<1>1. ConfigInv /\ [SettingsNext]_settingsVars =>
        [\A a \in Admin : SavedBy(a) =>
            Valid(Current') \/ (Uses(Current', "openai") /\ Blank(Current', "OPENAI_API_KEY"))]_settingsVars
  BY SaveLoads
<1>2. ConfigInv /\ [SettingsNext]_settingsVars =>
        [\A a \in Admin : SavedBy(a) =>
            (rebuilds' # rebuilds <=> \E k \in ReindexKeys : Built(Current')[k] # Built(Current)[k])]_settingsVars
  BY SaveRebuilds
<1>3. ConfigInv /\ [SettingsNext]_settingsVars =>
        [\A k \in DOMAIN table : table'[k] # table[k] =>
            \/ \E a \in Admin : SavedBy(a)
            \/ \E t \in Thread : pc[t] = "seed" /\ snap[t].version = 0]_settingsVars
  BY SaveStays
<1> QED
  BY <1>1, <1>2, <1>3, SettingsInvariant, PTL
     DEF SettingsSpec, SavesAreSound, AcceptedSavesLoad, RebuildsFollowSettings, ImportIsFirst
=============================================================================
