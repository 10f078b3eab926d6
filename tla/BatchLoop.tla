------------------------------ MODULE BatchLoop ------------------------------
(***************************************************************************)
(* The polling loop of the tag daemons (src/src/common/daemon_loop.py),    *)
(* the thread pool it feeds and the write-back circuit breaker             *)
(* (circuit_breaker.py), with the hot-reload of ocr/daemon.py and          *)
(* classifier/daemon.py.                                                   *)
(*                                                                         *)
(* A queue is listed once per poll and dispatched in chunks of MaxWorkers. *)
(* The workers of a chunk run concurrently and report to the breaker in    *)
(* the order they complete.  A job is what one worker does with one        *)
(* document; what it does to the tags is in module TagPipeline.            *)
(***************************************************************************)
EXTENDS Naturals, FiniteSets

CONSTANTS
    Doc,
    MaxWorkers,             \* DOCUMENT_WORKERS
    Threshold,              \* failures_before_halt
    MaxChanges, MaxBoots    \* bounds on configuration changes and restarts

ASSUME DocIsFinite == IsFiniteSet(Doc)
ASSUME WorkersArePositive == MaxWorkers \in Nat \ {0}
ASSUME ThresholdIsPositive == Threshold \in Nat \ {0}
ASSUME BoundsAreNatural == MaxChanges \in Nat /\ MaxBoots \in Nat

VARIABLES
    queue,          \* documents with the queue tag, in Paperless
    phase,          \* "top", "poll", "batch", "sleep" or "off"
    pending,        \* documents of the batch that are not dispatched yet
    job,            \* job[d]: how far the worker of d is
    streak, tripped,        \* the breaker
    changed,        \* a changed configuration the loop has not seen
    stopping,       \* is_shutdown_requested
    burnt,          \* model calls since the breaker tripped
    changes, boots  \* budgets

loop == <<phase, pending, changed, stopping>>
breaker == <<streak, tripped>>
loopVars == <<queue, loop, job, breaker, burnt, changes, boots>>

Phase == {"top", "poll", "batch", "sleep", "off"}
\* "saved" and "rejected": written back, and the breaker not told yet.
Stage == {"idle", "submitted", "started", "called", "saved", "rejected", "over"}

\* Jobs that have passed the check of the breaker and not reported to it.
Going == {d \in Doc : job[d] \in {"started", "called", "saved", "rejected"}}
Live == {d \in Doc : job[d] \in {"submitted", "started", "called", "saved", "rejected"}}
Started == {d \in Doc : job[d] = "started"}

LoopTypeOK ==
    /\ queue \subseteq Doc /\ pending \subseteq Doc
    /\ phase \in Phase
    /\ job \in [Doc -> Stage]
    /\ streak \in Nat /\ tripped \in BOOLEAN
    /\ changed \in BOOLEAN /\ stopping \in BOOLEAN
    /\ burnt \in Nat
    /\ changes \in 0..MaxChanges /\ boots \in 0..MaxBoots

LoopInit ==
    /\ queue \in SUBSET Doc
    /\ phase = "top" /\ pending = {}
    /\ job = [d \in Doc |-> "idle"]
    /\ streak = 0 /\ tripped = FALSE
    /\ changed = FALSE /\ stopping = FALSE
    /\ burnt = 0 /\ changes = 0 /\ boots = 0

-----------------------------------------------------------------------------
(* The world *)

Arrive(d) ==
    /\ queue' = queue \cup {d}
    /\ UNCHANGED <<loop, job, breaker, burnt, changes, boots>>

ChangeConfig ==
    /\ changes < MaxChanges
    /\ changes' = changes + 1
    /\ changed' = TRUE
    /\ UNCHANGED <<queue, phase, pending, job, stopping, breaker, burnt, boots>>

Stop ==
    /\ phase # "off"
    /\ stopping' = TRUE
    /\ UNCHANGED <<queue, phase, pending, changed, job, breaker, burnt, changes, boots>>

\* A new process: the breaker is new, the configuration is read.
Boot ==
    /\ phase = "off"
    /\ boots < MaxBoots
    /\ boots' = boots + 1
    /\ phase' = "top"
    /\ streak' = 0 /\ tripped' = FALSE /\ burnt' = 0
    /\ changed' = FALSE /\ stopping' = FALSE
    /\ UNCHANGED <<queue, pending, job, changes>>

-----------------------------------------------------------------------------
(* The loop *)

Exit ==
    /\ phase = "top"
    /\ stopping
    /\ phase' = "off"
    /\ UNCHANGED <<queue, pending, changed, stopping, job, breaker, burnt, changes, boots>>

\* before_each_poll, _reload_if_changed: a change resets the breaker.
BeforePoll ==
    /\ phase = "top"
    /\ ~stopping
    /\ phase' = "poll"
    /\ changed' = FALSE
    /\ IF changed THEN streak' = 0 /\ tripped' = FALSE /\ burnt' = 0
       ELSE UNCHANGED <<breaker, burnt>>
    /\ UNCHANGED <<queue, pending, stopping, job, changes, boots>>

\* A changed configuration that is invalid is fatal.
InvalidConfig ==
    /\ phase = "top"
    /\ ~stopping
    /\ changed
    /\ phase' = "off"
    /\ UNCHANGED <<queue, pending, changed, stopping, job, breaker, burnt, changes, boots>>

\* A halted poll, an empty queue, or a listing that fails.
NoWork ==
    /\ phase = "poll"
    /\ phase' = "sleep"
    /\ UNCHANGED <<queue, pending, changed, stopping, job, breaker, burnt, changes, boots>>

FetchWork ==
    /\ phase = "poll"
    /\ ~tripped
    /\ queue # {}
    /\ phase' = "batch"
    /\ pending' = queue
    /\ UNCHANGED <<queue, changed, stopping, job, breaker, burnt, changes, boots>>

Submit(chunk) ==
    /\ phase = "batch"
    /\ Live = {}
    /\ pending # {}
    /\ pending' = pending \ chunk
    /\ job' = [d \in Doc |-> IF d \in chunk THEN "submitted" ELSE "idle"]
    /\ UNCHANGED <<queue, phase, changed, stopping, breaker, burnt, changes, boots>>

\* Mutant: the whole batch at once, to a pool as wide as the batch.
MutantDispatchAll == ~tripped /\ Submit(pending)

\* The next chunk of _process_batch, once the one before is complete.
DispatchChunk ==
    /\ ~tripped
    /\ \E chunk \in SUBSET pending :
           /\ Cardinality(chunk) <= MaxWorkers
           /\ chunk = pending \/ Cardinality(chunk) = MaxWorkers
           /\ Submit(chunk)

\* Mutant: a batch ends with its first chunk.
MutantOneChunk ==
    /\ phase = "batch"
    /\ Live = {}
    /\ phase' = "sleep"
    /\ pending' = {}
    /\ job' = [d \in Doc |-> "idle"]
    /\ UNCHANGED <<queue, changed, stopping, breaker, burnt, changes, boots>>

EndBatch ==
    /\ phase = "batch"
    /\ Live = {}
    /\ tripped \/ pending = {}
    /\ phase' = "sleep"
    /\ pending' = {}
    /\ job' = [d \in Doc |-> "idle"]
    /\ UNCHANGED <<queue, changed, stopping, breaker, burnt, changes, boots>>

Wake ==
    /\ phase = "sleep"
    /\ phase' = "top"
    /\ UNCHANGED <<queue, pending, changed, stopping, job, breaker, burnt, changes, boots>>

-----------------------------------------------------------------------------
(* The workers *)

Moves(d, from, to) == job[d] = from /\ job' = [job EXCEPT ![d] = to]
Worker == UNCHANGED <<loop, changes, boots>>
Quiet == UNCHANGED <<breaker, burnt>>
Dequeue(d) == queue' = queue \ {d}

\* _run_one: the check of the breaker before the work.
Start(d) == ~tripped /\ Moves(d, "submitted", "started") /\ UNCHANGED queue /\ Quiet /\ Worker
SkipHalted(d) == tripped /\ Moves(d, "submitted", "over") /\ UNCHANGED queue /\ Quiet /\ Worker

CallModel(d) ==
    /\ Moves(d, "started", "called")
    /\ burnt' = IF tripped THEN burnt + 1 ELSE burnt
    /\ UNCHANGED <<queue, breaker>> /\ Worker

\* Nothing to spend a call on, or an error before it: nothing is written back.
PassOver(d) ==
    /\ Moves(d, "started", "over")
    /\ UNCHANGED queue \/ Dequeue(d)
    /\ Quiet /\ Worker

\* The born-digital tag is refused: quarantined without a model call.  The
\* document may stay queued if that write fails too.
SkipRejected(d) ==
    /\ Moves(d, "started", "rejected")
    /\ UNCHANGED queue \/ Dequeue(d)
    /\ Quiet /\ Worker

Save(d) == Moves(d, "called", "saved") /\ Dequeue(d) /\ Quiet /\ Worker

\* Quarantined; the document may stay queued if that write fails too.
Reject(d) ==
    /\ Moves(d, "called", "rejected")
    /\ UNCHANGED queue \/ Dequeue(d)
    /\ Quiet /\ Worker

\* An unusable result, or a transient error: the breaker hears nothing of it.
NoResult(d) ==
    /\ Moves(d, "called", "over")
    /\ UNCHANGED queue \/ Dequeue(d)
    /\ Quiet /\ Worker

\* Mutant: a late success lifts the halt.
MutantSuccessLifts(d) ==
    /\ Moves(d, "saved", "over")
    /\ streak' = 0 /\ tripped' = FALSE /\ burnt' = 0
    /\ UNCHANGED queue /\ Worker

RecordSuccess(d) ==
    /\ Moves(d, "saved", "over")
    /\ streak' = 0
    /\ UNCHANGED <<queue, tripped, burnt>> /\ Worker

RecordFailure(d) ==
    /\ Moves(d, "rejected", "over")
    /\ streak' = streak + 1
    /\ tripped' = (tripped \/ streak' >= Threshold)
    /\ UNCHANGED <<queue, burnt>> /\ Worker

-----------------------------------------------------------------------------
LoopStep ==
    \/ Exit \/ BeforePoll \/ InvalidConfig \/ NoWork \/ FetchWork
    \/ DispatchChunk \/ EndBatch \/ Wake

WorkerStep(d) ==
    \/ Start(d) \/ SkipHalted(d) \/ CallModel(d) \/ PassOver(d) \/ SkipRejected(d)
    \/ Save(d) \/ Reject(d) \/ NoResult(d) \/ RecordSuccess(d) \/ RecordFailure(d)

LoopNext ==
    \/ \E d \in Doc : Arrive(d) \/ WorkerStep(d)
    \/ ChangeConfig \/ Stop \/ Boot
    \/ LoopStep

LoopSpec == LoopInit /\ [][LoopNext]_loopVars

\* The loop and every worker run on; a listing succeeds now and then.
Fairness ==
    /\ WF_loopVars(LoopStep) /\ SF_loopVars(FetchWork)
    /\ \A d \in Doc : WF_loopVars(WorkerStep(d))
LoopFairSpec == LoopSpec /\ Fairness

-----------------------------------------------------------------------------
(* Properties *)

\* The streak outgrows the threshold only by the other workers of the chunk in
\* which the breaker trips: the promise of _process_batch.
StreakIsBounded == streak <= Threshold + MaxWorkers - 1

\* After the breaker has tripped, only the other workers of that chunk can still
\* spend a model call.
BurnIsBounded == burnt <= MaxWorkers - 1

\* While the streak is long enough the loop is halted.
LongStreakHalts == streak >= Threshold => tripped

\* The halt is lifted only between batches, by a changed configuration or a new
\* process: no worker of the time before reports to the breaker after it.
HaltIsLiftedCleanly ==
    [][tripped /\ ~tripped' => (changed \/ phase = "off") /\ Live = {}]_loopVars

\* Every queued document is worked on, unless the daemon halts or stops.
QueueIsServed ==
    \A d \in Doc : d \in queue ~>
        (d \notin queue \/ job[d] = "started" \/ tripped \/ stopping \/ phase = "off")

\* A changed configuration gets a halted daemon going again.
HaltedResumes == (tripped /\ changed) ~> (~tripped \/ phase = "off")

\* A shutdown is always completed.
StopIsReached == stopping ~> phase = "off"

\* The loop goes on: queues are served, a repaired configuration gets a halted
\* daemon going again, and a shutdown is reached.
LoopGoesOn == QueueIsServed /\ HaltedResumes /\ StopIsReached

\* The breaker keeps its bounds: the streak, the calls after the trip, and a
\* streak as long as the threshold never goes unnoticed.
BreakerIsSound == LoopTypeOK /\ StreakIsBounded /\ BurnIsBounded /\ LongStreakHalts
=============================================================================
