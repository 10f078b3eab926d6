----------------------------- MODULE TagPipeline -----------------------------
(***************************************************************************)
(* The two tag daemons (src/src/ocr, src/src/classifier).  They keep no    *)
(* state of their own: a document's tags in Paperless say what is to be    *)
(* done, what is being done and what has been done.  Every write replaces  *)
(* the whole tag set with one computed from an earlier read, so the reads  *)
(* and writes of daemons, replicas and users interleave.                   *)
(*                                                                         *)
(* One step is one request to Paperless.  Each daemon process works on a   *)
(* batch of documents, each document at most once per batch: its job is    *)
(* indexed by the daemon and the document, and the threads of the pool     *)
(* need no names.                                                          *)
(*                                                                         *)
(* Abstractions.  The content of a document is empty, text, or the text of *)
(* a refusal.  A listing by tag is one snapshot.  A failed write may have  *)
(* been applied, with its answer lost.  The metadata the classifier sets   *)
(* beside the tags, and the circuit breaker (module BatchLoop), are left   *)
(* out.                                                                    *)
(*                                                                         *)
(* The classifier's model is shown every tag of the archive, and whatever  *)
(* it picks is added to the tags of the save after the pipeline tags have  *)
(* been cleaned off: a save can put a document back in a queue, or leave a *)
(* lock nobody claimed.  The model here may pick any tag of Vocabulary.  A *)
(* document that was given a pipeline tag in this way is Misled from then  *)
(* on.  The code does not look after its lock or its queue tag, and        *)
(* LocksHaveOwners, CallsAreAccountedFor, OpenDocumentsAreMarked and       *)
(* ClassifiedIsFinal say nothing of it.                                    *)
(***************************************************************************)
EXTENDS Naturals, FiniteSets

CONSTANTS
    Doc,
    OcrDaemon, Classifier,              \* the processes, replicas included
    Pre, Post, ClassifyPre,             \* tag ids of the settings
    OcrLock, ClassifyLock, ClassifyPost, Error,     \* NoTag when not set
    NoTag,
    UserTag,                            \* tags the daemons know nothing of
    Vocabulary,                         \* tags the classifier's model may pick
    Recovery,                           \* STALE_LOCK_RECOVERY
    MaxEdits, MaxQueued,                \* bounds on the users,
    MaxPicks,                           \* on saves with a picked pipeline tag,
    MaxFaults, MaxRejects, MaxStops     \* on lost, on refused requests, on restarts

Daemon == OcrDaemon \cup Classifier
Locks == {OcrLock, ClassifyLock} \ {NoTag}
PipelineTags == {Pre, Post, ClassifyPre, OcrLock, ClassifyLock, ClassifyPost, Error} \ {NoTag}
Tag == PipelineTags \cup UserTag

ASSUME RequiredTagsAreSet == NoTag \notin {Pre, Post, ClassifyPre} \cup UserTag
ASSUME UserTagsAreOther == UserTag \cap PipelineTags = {}
ASSUME VocabularyIsOfTags == Vocabulary \subseteq Tag
ASSUME DaemonsAreDistinct == OcrDaemon \cap Classifier = {}
ASSUME RecoveryIsAFlag == Recovery \in BOOLEAN
ASSUME BudgetsAreNatural == {MaxEdits, MaxQueued, MaxPicks, MaxFaults, MaxRejects, MaxStops} \subseteq Nat

VARIABLES
    \* Paperless
    tags, content,
    pageless,       \* documents without a page
    \* the daemons
    phase,          \* "down", "recover", "poll", "list" or "batch"
    stopping,       \* is_shutdown_requested
    job,            \* job[i][d]: what daemon i does with document d
    \* the search server
    swap,           \* swap[d]: the tags a requeue request is about to write, or {}
    \* bookkeeping of the specification
    wanted,         \* tags the users have put on the document and not taken off
    suggested,      \* tags the classifier's saves have added, and users not taken off
    spent,          \* model calls for a document, by kind of daemon
    open,           \* documents with a request not yet answered by a classification
    edits, queued, picks, faults, rejects, stops

archive == <<tags, content>>
daemons == <<phase, stopping, job>>
ghosts == <<wanted, suggested, spent, open>>
budgets == <<edits, queued, picks, faults, rejects, stops>>
vars == <<archive, pageless, daemons, swap, ghosts, budgets>>

-----------------------------------------------------------------------------
Lock(i) == IF i \in OcrDaemon THEN OcrLock ELSE ClassifyLock
QueueTag(i) == IF i \in OcrDaemon THEN Pre ELSE ClassifyPre
DoneTag(i) == IF i \in OcrDaemon THEN Post ELSE ClassifyPost
Kind(i) == IF i \in OcrDaemon THEN "ocr" ELSE "classify"

\* clean_pipeline_tags, and the addition of an optional tag.
Clean(set) == set \ PipelineTags
With(set, tag) == IF tag = NoTag THEN set ELSE set \cup {tag}

Step == {"idle", "strip", "recover", "queued", "claim", "lock", "verify", "work",
         "refresh", "write", "final", "fallback", "release", "unlock", "done"}
Plan == {"none", "save", "skip", "requeue", "error"}

\* base: the tags the next write is computed from.  body: the content it carries.
Job == [step : Step, claimed : BOOLEAN, seen : SUBSET Tag, base : SUBSET Tag,
        text : {"empty", "text", "refused"}, plan : Plan, body : {"keep", "empty", "text", "refused"}]
NoJob == [step |-> "idle", claimed |-> FALSE, seen |-> {}, base |-> {}, text |-> "empty",
          plan |-> "none", body |-> "keep"]

TypeOK ==
    /\ tags \in [Doc -> SUBSET Tag]
    /\ content \in [Doc -> {"empty", "text", "refused"}]
    /\ pageless \subseteq Doc
    /\ phase \in [Daemon -> {"down", "recover", "poll", "list", "batch"}]
    /\ stopping \in [Daemon -> BOOLEAN]
    /\ job \in [Daemon -> [Doc -> Job]]
    /\ wanted \in [Doc -> SUBSET UserTag]
    /\ suggested \in [Doc -> SUBSET Tag]
    /\ spent \in [Doc -> [{"ocr", "classify"} -> Nat]]
    /\ open \subseteq Doc
    /\ swap \in [Doc -> SUBSET Tag]
    /\ edits \in 0..MaxEdits /\ queued \in 0..MaxQueued /\ picks \in 0..MaxPicks /\ faults \in 0..MaxFaults
    /\ rejects \in 0..MaxRejects /\ stops \in 0..MaxStops

Init ==
    /\ wanted \in [Doc -> SUBSET UserTag]
    /\ \E queue \in [Doc -> {{}, {Pre}, {ClassifyPre}}] :
          tags = [d \in Doc |-> queue[d] \cup wanted[d]]
    /\ content \in [Doc -> {"empty", "text"}]
    /\ pageless \in SUBSET Doc
    /\ phase = [i \in Daemon |-> "down"]
    /\ stopping = [i \in Daemon |-> FALSE]
    /\ job = [i \in Daemon |-> [d \in Doc |-> NoJob]]
    /\ suggested = [d \in Doc |-> {}]
    /\ spent = [d \in Doc |-> [k \in {"ocr", "classify"} |-> 0]]
    /\ open = {d \in Doc : tags[d] # wanted[d]}
    /\ swap = [d \in Doc |-> {}]
    /\ edits = 0 /\ queued = 0 /\ picks = 0 /\ faults = 0 /\ rejects = 0 /\ stops = 0

-----------------------------------------------------------------------------
(* Requests *)

Fine == UNCHANGED <<faults, rejects>>
Fails == faults < MaxFaults /\ faults' = faults + 1 /\ UNCHANGED rejects
Refused == rejects < MaxRejects /\ rejects' = rejects + 1 /\ UNCHANGED faults

Patch(d, set, body) ==
    /\ tags' = [tags EXCEPT ![d] = set]
    /\ content' = IF body = "keep" THEN content ELSE [content EXCEPT ![d] = body]

\* The request is lost, or only its answer.
PatchFails(d, set, body) == Fails /\ (UNCHANGED archive \/ Patch(d, set, body))

At(i, d, step) == job[i][d].step = step
Set(i, d, j) == job' = [job EXCEPT ![i][d] = j]
Goto(i, d, step) == Set(i, d, [job[i][d] EXCEPT !.step = step])

\* Mutant: the lock stays when the job ends without a write-back.
MutantLeave(i, d) == Goto(i, d, IF job[i][d].claimed /\ At(i, d, "write") THEN "release" ELSE "done")
\* The finally clause: release the lock, if this job claimed it.
Leave(i, d) == Goto(i, d, IF job[i][d].claimed /\ Lock(i) # NoTag THEN "release" ELSE "done")

\* What a request of a daemon leaves alone, and one that does not write.
Others == UNCHANGED <<pageless, phase, stopping, swap, wanted, edits, queued, stops>>
NoSuggestion == UNCHANGED <<suggested, picks>>
NoCall == UNCHANGED <<spent, open>> /\ NoSuggestion
Read == Others /\ NoCall /\ UNCHANGED archive

-----------------------------------------------------------------------------
(* Users, directly in Paperless and through the search server *)

Edits == edits < MaxEdits /\ edits' = edits + 1
    /\ UNCHANGED <<content, pageless, daemons, swap, spent, open, queued, picks, faults, rejects, stops>>

AddTag(d, t) ==
    /\ tags' = [tags EXCEPT ![d] = @ \cup {t}]
    /\ wanted' = [wanted EXCEPT ![d] = @ \cup {t}]
    /\ UNCHANGED suggested
    /\ Edits

RemoveTag(d, t) ==
    /\ t \in tags[d]
    /\ tags' = [tags EXCEPT ![d] = @ \ {t}]
    /\ wanted' = [wanted EXCEPT ![d] = @ \ {t}]
    /\ suggested' = [suggested EXCEPT ![d] = @ \ {t}]
    /\ Edits

Queues == queued < MaxQueued /\ queued' = queued + 1
    /\ UNCHANGED <<content, pageless, daemons, wanted, suggested, spent, edits, picks, faults, rejects, stops>>

\* A workflow of Paperless, or a user who retries a failed document.
Enqueue(d) ==
    /\ tags' = [tags EXCEPT ![d] = (@ \ {Error}) \cup {Pre}]
    /\ open' = open \cup {d}
    /\ UNCHANGED swap
    /\ Queues

\* _swap_pipeline_tag for reclassify and retranscribe: a read, then a write.
Reclassified(set) == (set \ {ClassifyPost}) \cup {ClassifyPre}
Retranscribed(set) == (set \ {Post}) \cup {Pre}

Requeue(d) ==
    /\ swap[d] = {}
    /\ \E set \in {Reclassified(tags[d]), Retranscribed(tags[d])} : swap' = [swap EXCEPT ![d] = set]
    /\ UNCHANGED <<tags, open>>
    /\ Queues

RequeueWrite(d) ==
    /\ swap[d] # {}
    /\ swap' = [swap EXCEPT ![d] = {}]
    /\ tags' = [tags EXCEPT ![d] = swap[d]]
    /\ open' = open \cup {d}
    /\ UNCHANGED <<content, pageless, daemons, wanted, suggested, spent, budgets>>

-----------------------------------------------------------------------------
(* A daemon's life: recover stale locks, poll, work through the batch *)

Life == UNCHANGED <<archive, pageless, swap, ghosts, edits, queued, picks>>

\* Mutant: no sweep.
MutantNoSweep(i) ==
    /\ phase[i] = "down"
    /\ phase' = [phase EXCEPT ![i] = "poll"]
    /\ UNCHANGED <<stopping, job, faults, rejects, stops>> /\ Life

\* The sweep at start lists the documents that carry the lock.
Boot(i) ==
    /\ phase[i] = "down"
    /\ phase' = [phase EXCEPT ![i] = "recover"]
    /\ LET stale == IF Recovery /\ Lock(i) # NoTag THEN {d \in Doc : Lock(i) \in tags[d]} ELSE {}
       IN  \/ /\ job' = [job EXCEPT ![i] = [d \in Doc |->
                            IF d \in stale THEN [NoJob EXCEPT !.step = "recover", !.seen = tags[d]]
                            ELSE NoJob]]
              /\ Fine
           \/ stale # {} /\ Fails /\ UNCHANGED job
    /\ UNCHANGED <<stopping, stops>> /\ Life

RecoverLock(i, d) ==
    /\ At(i, d, "recover")
    /\ Set(i, d, NoJob)
    /\ LET requeued == (job[i][d].seen \ {Lock(i)}) \cup {QueueTag(i)}
       IN  \/ Patch(d, requeued, "keep") /\ Fine
           \/ PatchFails(d, requeued, "keep")
           \/ Refused /\ UNCHANGED archive
    /\ Others /\ NoCall

RecoverEnds(i) ==
    /\ phase[i] = "recover"
    /\ \A d \in Doc : ~At(i, d, "recover")
    /\ phase' = [phase EXCEPT ![i] = "poll"]
    /\ UNCHANGED <<stopping, job, faults, rejects, stops>> /\ Life

\* iter_documents_by_pipeline_tag: done documents are to lose their stale
\* queue tag, claimed ones are passed over.
Poll(i) ==
    /\ phase[i] = "poll"
    /\ ~stopping[i]
    /\ phase' = [phase EXCEPT ![i] = "list"]
    /\ job' = [job EXCEPT ![i] = [d \in Doc |->
                IF QueueTag(i) \notin tags[d] THEN NoJob
                ELSE IF DoneTag(i) \in tags[d]
                THEN [NoJob EXCEPT !.step = "strip", !.seen = tags[d]]
                ELSE IF Lock(i) \in tags[d] THEN NoJob
                ELSE [NoJob EXCEPT !.step = "queued"]]]
    /\ UNCHANGED <<stopping, faults, rejects, stops>> /\ Life

\* remove_stale_queue_tag, while the listing is being read.
StripQueueTag(i, d) ==
    /\ At(i, d, "strip")
    /\ Set(i, d, NoJob)
    /\ LET stripped == job[i][d].seen \ {QueueTag(i), Lock(i)}
       IN  \/ Patch(d, stripped, "keep") /\ Fine
           \/ PatchFails(d, stripped, "keep")
           \/ Refused /\ UNCHANGED archive
    /\ Others /\ NoCall

StartBatch(i) ==
    /\ phase[i] = "list"
    /\ \A d \in Doc : ~At(i, d, "strip")
    /\ phase' = [phase EXCEPT ![i] = "batch"]
    /\ UNCHANGED <<stopping, job, faults, rejects, stops>> /\ Life

EndBatch(i) ==
    /\ phase[i] = "batch"
    /\ \A d \in Doc : job[i][d].step \in {"idle", "done"}
    /\ phase' = [phase EXCEPT ![i] = "poll"]
    /\ job' = [job EXCEPT ![i] = [d \in Doc |-> NoJob]]
    /\ UNCHANGED <<stopping, faults, rejects, stops>> /\ Life

\* SIGTERM: the batch in hand is worked off first.
Shutdown(i) ==
    /\ stops < MaxStops
    /\ stops' = stops + 1
    /\ phase[i] \in {"poll", "list", "batch"}
    /\ ~stopping[i]
    /\ stopping' = [stopping EXCEPT ![i] = TRUE]
    /\ UNCHANGED <<phase, job, faults, rejects>> /\ Life

Exit(i) ==
    /\ phase[i] = "poll"
    /\ stopping[i]
    /\ phase' = [phase EXCEPT ![i] = "down"]
    /\ stopping' = [stopping EXCEPT ![i] = FALSE]
    /\ UNCHANGED <<job, faults, rejects, stops>> /\ Life

Crash(i) ==
    /\ stops < MaxStops
    /\ stops' = stops + 1
    /\ phase[i] # "down"
    /\ phase' = [phase EXCEPT ![i] = "down"]
    /\ stopping' = [stopping EXCEPT ![i] = FALSE]
    /\ job' = [job EXCEPT ![i] = [d \in Doc |-> NoJob]]
    /\ UNCHANGED <<faults, rejects>> /\ Life

-----------------------------------------------------------------------------
(* A job: screening and the claim *)

\* process: the document is read afresh.  A document with the error tag is
\* finalised without a claim.
Take(i, d) ==
    /\ phase[i] = "batch"
    /\ At(i, d, "queued")
    /\ LET read == [job[i][d] EXCEPT !.seen = tags[d], !.base = tags[d], !.text = content[d]]
       IN  \/ /\ Error \in tags[d]
              /\ Set(i, d, [read EXCEPT !.step = "final"])
              /\ Fine
           \/ /\ Error \notin tags[d]
              /\ Set(i, d, IF Lock(i) = NoTag THEN [read EXCEPT !.step = "work", !.claimed = TRUE]
                           ELSE [read EXCEPT !.step = "claim"])
              /\ Fine
           \/ Goto(i, d, "done") /\ Fails
    /\ Read

\* claim_processing_tag: read, write, verify.  No claim is made of an error.
ClaimRead(i, d) ==
    /\ At(i, d, "claim")
    /\ \/ /\ Lock(i) \notin tags[d]
          /\ Set(i, d, [job[i][d] EXCEPT !.step = "lock", !.base = tags[d] \cup {Lock(i)}])
          /\ Fine
       \/ Lock(i) \in tags[d] /\ Goto(i, d, "done") /\ Fine
       \/ Goto(i, d, "done") /\ Fails
    /\ Read

ClaimWrite(i, d) ==
    /\ At(i, d, "lock")
    /\ \/ Patch(d, job[i][d].base, "keep") /\ Fine /\ Goto(i, d, "verify")
       \/ PatchFails(d, job[i][d].base, "keep") /\ Goto(i, d, "done")
       \/ Refused /\ UNCHANGED archive /\ Goto(i, d, "done")
    /\ Others /\ NoCall

ClaimVerify(i, d) ==
    /\ At(i, d, "verify")
    /\ \/ /\ Lock(i) \in tags[d]
          /\ Set(i, d, [job[i][d] EXCEPT !.step = "work", !.claimed = TRUE])
          /\ Fine
       \/ Lock(i) \notin tags[d] /\ Goto(i, d, "done") /\ Fine
       \/ Goto(i, d, "done") /\ Fails
    /\ Read

-----------------------------------------------------------------------------
(* A job: the work *)

Spend(i, d) == spent' = [spent EXCEPT ![d][Kind(i)] = @ + 1]
Free == UNCHANGED spent

\* Next, a write of plan p and content b, computed from freshly read tags.
Prepare(i, d, p, b) ==
    Set(i, d, [job[i][d] EXCEPT !.step = "refresh", !.plan = p, !.body = b])

\* The document leaves with the error tag, computed from the tags seen first.
GiveUp(i, d) == Set(i, d, [job[i][d] EXCEPT !.step = "final", !.base = job[i][d].seen])

SkipBornDigital(i, d) == job[i][d].text # "empty" /\ Prepare(i, d, "skip", "keep") /\ Free

\* Mutant: a document that cannot be decoded is left where it is.
MutantUndecodableStays(i, d) == Leave(i, d) /\ Free

Undecodable(i, d) == GiveUp(i, d) /\ Free

\* No page to transcribe: the job ends, and the document stays queued.
NoPages(i, d) == d \in pageless /\ Leave(i, d) /\ Free

Transcribed(i, d) == d \notin pageless /\ Prepare(i, d, "save", "text") /\ Spend(i, d)

\* Mutant: a bad transcript is left for the next poll.
MutantBadStaysQueued(i, d) == d \notin pageless /\ Spend(i, d) /\ Leave(i, d)

\* No text, a refusal or an error marker.  During a shutdown an aborted wait
\* looks the same, and the document stays queued.
BadTranscript(i, d) ==
    /\ d \notin pageless
    /\ Spend(i, d)
    /\ IF stopping[i] THEN Leave(i, d)
       ELSE \E b \in {"empty", "refused"} : Prepare(i, d, "error", b)

OcrWork(i, d) ==
    /\ i \in OcrDaemon
    /\ At(i, d, "work")
    /\ \/ /\ \/ SkipBornDigital(i, d) \/ Undecodable(i, d) \/ NoPages(i, d)
             \/ Transcribed(i, d) \/ BadTranscript(i, d)
          /\ Fine
       \/ Fails /\ Leave(i, d) /\ Free
    /\ UNCHANGED <<archive, open>> /\ NoSuggestion /\ Others

Write(i, d, p) == Set(i, d, [job[i][d] EXCEPT !.step = "write", !.plan = p, !.base = job[i][d].seen])

Classified(i, d) == job[i][d].text = "text" /\ Write(i, d, "save") /\ Spend(i, d)

Unusable(i, d) ==
    /\ job[i][d].text = "text"
    /\ Spend(i, d)
    /\ GiveUp(i, d) \/ (stopping[i] /\ Leave(i, d))

ClassifyWork(i, d) ==
    /\ i \in Classifier
    /\ At(i, d, "work")
    /\ \/ job[i][d].text = "empty" /\ Write(i, d, "requeue") /\ Free
       \/ job[i][d].text = "refused" /\ GiveUp(i, d) /\ Free
       \/ Classified(i, d)
       \/ Unusable(i, d)
    /\ Fine /\ UNCHANGED <<archive, open>> /\ NoSuggestion /\ Others

-----------------------------------------------------------------------------
(* A job: the write-back *)

\* Mutant: the fallback is no tag at all.
MutantNoFallback(i, d) ==
    /\ At(i, d, "refresh")
    /\ LET step == IF job[i][d].plan = "error" THEN "final" ELSE "write"
       IN  \/ Set(i, d, [job[i][d] EXCEPT !.step = step, !.base = tags[d]]) /\ Fine
           \/ Set(i, d, [job[i][d] EXCEPT !.step = step, !.base = {}]) /\ Fails
    /\ Read

\* get_latest_tags, with the tags seen first as the fallback.
Refresh(i, d) ==
    /\ At(i, d, "refresh")
    /\ LET step == IF job[i][d].plan = "error" THEN "final" ELSE "write"
       IN  \/ Set(i, d, [job[i][d] EXCEPT !.step = step, !.base = tags[d]]) /\ Fine
           \/ Set(i, d, [job[i][d] EXCEPT !.step = step, !.base = job[i][d].seen]) /\ Fails
    /\ Read

\* The tag set of a write-back: no pipeline tag but the one to be set, and then
\* what the classifier's model has picked, pipeline tag or not.
Result(i, d, picked) ==
    With(Clean(job[i][d].base), IF job[i][d].plan = "requeue" THEN Pre ELSE DoneTag(i)) \cup picked

\* The model is shown all tags.  Only a save of the classifier carries its picks.
Picks(i, d) == IF i \in Classifier /\ job[i][d].plan = "save" THEN SUBSET Vocabulary ELSE {{}}

Misleads(picked) == picked \cap PipelineTags # {}

Suggest(d, picked) ==
    /\ suggested' = [suggested EXCEPT ![d] = @ \cup picked]
    /\ IF Misleads(picked) THEN picks < MaxPicks /\ picks' = picks + 1 ELSE UNCHANGED picks

\* A refusal is quarantined; an error propagates and the document stays.
\* A requeue that fails in any way ends with the error tag.
WriteBack(i, d) ==
    /\ At(i, d, "write")
    /\ LET j == job[i][d] IN
       \/ \E picked \in Picks(i, d) :
          /\ Suggest(d, picked)
          /\ \/ /\ Patch(d, Result(i, d, picked), j.body)
                /\ Fine
                /\ Leave(i, d)
                /\ open' = IF i \in Classifier /\ j.plan = "save" THEN open \ {d} ELSE open
             \/ /\ PatchFails(d, Result(i, d, picked), j.body)
                /\ IF j.plan = "requeue" THEN GiveUp(i, d) ELSE Leave(i, d)
                /\ UNCHANGED open
       \/ /\ Refused
          /\ IF i \in Classifier THEN GiveUp(i, d) ELSE Prepare(i, d, "error", j.body)
          /\ NoSuggestion /\ UNCHANGED <<archive, open>>
    /\ Others /\ UNCHANGED spent

\* finalise_document_with_error; the second attempt goes without the error tag.
Finalise(i, d) ==
    /\ At(i, d, "final")
    /\ LET marked == With(Clean(job[i][d].base), Error)
           again == IF Error = NoTag THEN Leave(i, d) ELSE Goto(i, d, "fallback")
       IN  \/ Patch(d, marked, job[i][d].body) /\ Fine /\ Leave(i, d)
           \/ PatchFails(d, marked, job[i][d].body) /\ again
           \/ Refused /\ UNCHANGED archive /\ again
    /\ Others /\ NoCall

FinaliseFallback(i, d) ==
    /\ At(i, d, "fallback")
    /\ LET stripped == Clean(job[i][d].base)
       IN  \/ Patch(d, stripped, job[i][d].body) /\ Fine
           \/ PatchFails(d, stripped, job[i][d].body)
           \/ Refused /\ UNCHANGED archive
    /\ Leave(i, d)
    /\ Others /\ NoCall

\* Mutant: the lock is released from the tags seen at the start.
MutantReleaseStale(i, d) ==
    /\ At(i, d, "release")
    /\ Set(i, d, [job[i][d] EXCEPT !.step = "unlock", !.base = job[i][d].seen \ {Lock(i)}])
    /\ Fine /\ Read

\* release_processing_tag: best effort.
ReleaseRead(i, d) ==
    /\ At(i, d, "release")
    /\ \/ /\ Lock(i) \in tags[d]
          /\ Set(i, d, [job[i][d] EXCEPT !.step = "unlock", !.base = tags[d] \ {Lock(i)}])
          /\ Fine
       \/ Lock(i) \notin tags[d] /\ Goto(i, d, "done") /\ Fine
       \/ Goto(i, d, "done") /\ Fails
    /\ Read

ReleaseWrite(i, d) ==
    /\ At(i, d, "unlock")
    /\ Goto(i, d, "done")
    /\ \/ Patch(d, job[i][d].base, "keep") /\ Fine
       \/ PatchFails(d, job[i][d].base, "keep")
       \/ Refused /\ UNCHANGED archive
    /\ Others /\ NoCall

-----------------------------------------------------------------------------
JobStep(i, d) ==
    \/ RecoverLock(i, d) \/ StripQueueTag(i, d)
    \/ Take(i, d) \/ ClaimRead(i, d) \/ ClaimWrite(i, d) \/ ClaimVerify(i, d)
    \/ OcrWork(i, d) \/ ClassifyWork(i, d)
    \/ Refresh(i, d) \/ WriteBack(i, d) \/ Finalise(i, d) \/ FinaliseFallback(i, d)
    \/ ReleaseRead(i, d) \/ ReleaseWrite(i, d)

DaemonStep(i) ==
    \/ Boot(i) \/ RecoverEnds(i) \/ Poll(i) \/ StartBatch(i) \/ EndBatch(i) \/ Exit(i)
    \/ \E d \in Doc : JobStep(i, d)

Edit(d) == \E t \in UserTag : AddTag(d, t) \/ RemoveTag(d, t)
Halt(i) == Shutdown(i) \/ Crash(i)

Next ==
    \/ \E d \in Doc : Edit(d) \/ Enqueue(d) \/ Requeue(d) \/ RequeueWrite(d)
    \/ \E i \in Daemon : DaemonStep(i) \/ Halt(i)

Spec == Init /\ [][Next]_vars

\* Nobody changes the tags of a document while a daemon or another request works
\* on it, nor queues a document that is queued already.
InHand(d) == swap[d] # {} \/ \E i \in Daemon : job[i][d].step \notin {"idle", "queued", "done"}
InQueue(d) == tags[d] \cap {Pre, ClassifyPre} # {}
CalmUser(d) ==
    \/ ~InHand(d) /\ Edit(d)
    \/ ~InHand(d) /\ ~InQueue(d) /\ (Enqueue(d) \/ Requeue(d))
    \/ RequeueWrite(d)

CalmNext ==
    \/ \E d \in Doc : CalmUser(d)
    \/ \E i \in Daemon : DaemonStep(i) \/ Halt(i)

CalmSpec == Init /\ [][CalmNext]_vars

\* The loops of the daemons run on, and the supervisor starts them again.
Fairness == \A i \in Daemon : WF_vars(DaemonStep(i))
FairSpec == CalmSpec /\ Fairness

-----------------------------------------------------------------------------
(* Properties *)

\* The full-set writes of the daemons (clean_pipeline_tags and its callers)
\* neither lose the tags the users set nor bring back those they took off.
\* What is on a document beyond the users' own tags is the classifier's.
Kept(d, set) == /\ wanted[d] \subseteq set \cap UserTag
                /\ set \cap UserTag \subseteq wanted[d] \cup suggested[d]
UserTagsAreKept == \A d \in Doc : Kept(d, tags[d])

\* A save has put a pipeline tag on the document because the model picked it.
Misled(d) == Misleads(suggested[d])

Holding == {"verify", "work", "refresh", "write", "final", "fallback", "release", "unlock"}

\* A processing lock always has somebody to remove it, as long as no request
\* failed: a job that will release it, or a daemon that will start, or has just
\* started, and sweep it. (A claim whose answer is lost returns False, and
\* nobody releases what it wrote.  Nor does anybody release a lock tag that the
\* classifier saved because its model picked it: the document is misled.)
LocksHaveOwners ==
    faults + rejects = 0 =>
    \A d \in Doc, t \in Locks :
        t \in tags[d] /\ ~Misled(d) => \E i \in Daemon :
            /\ Lock(i) = t
            /\ \/ phase[i] = "down"
               \/ At(i, d, "recover")
               \/ job[i][d].step \in Holding

\* Model calls are only repeated for a reason: every call for a document after
\* the first is accounted for by a request, a refused write or a restart. (Once
\* an answer is lost, both daemons may work on a document at once, and each may
\* undo what the other wrote, with more calls than there were failures.  The same
\* happens to a document that the model of the classifier sent back to a queue
\* with a lock: there are more calls than there were picks.)
CallsAreAccountedFor ==
    faults = 0 =>
    \A d \in Doc, k \in {"ocr", "classify"} :
        ~Misled(d) => spent[d][k] <= 1 + queued + rejects + stops

\* A document that was queued and is not yet classified can be found by its
\* tags: it is in a queue, between the queues, or carries the error tag. (Only
\* the fallback of finalise_document_with_error, after a write that failed, may
\* leave it with none of them.  Misled documents are left out.)
OpenDocumentsAreMarked ==
    faults + rejects = 0 => \A d \in open : ~Misled(d) => tags[d] \cap PipelineTags # {}

\* Nothing is stranded: neither a lock without anybody to remove it, nor a
\* document without a mark to find it by.
TagsAreSound == TypeOK /\ LocksHaveOwners /\ OpenDocumentsAreMarked

\* As long as no request was lost, a classified document does not come back to a
\* queue on its own, unless a save added a pipeline tag that the model picked.
ClassifiedIsFinal ==
    [][\A d \in Doc : d \notin open /\ d \notin open' /\ faults' = 0 /\ ~Misled(d)'
            => tags'[d] \cap {Pre, ClassifyPre} \subseteq tags[d]]_vars

\* Every queued document leaves the queues, once failures, users and the picks of
\* pipeline tags stop; only a lock that a failed request left behind, or that the
\* model picked, can keep one there. (A model that goes on picking a queue tag
\* keeps the document queued for ever: MaxPicks is the premise.)
QueuesDrain ==
    <>[](\A d \in Doc \ pageless :
            InQueue(d) => (faults + rejects > 0 \/ Misled(d)) /\ tags[d] \cap Locks # {})
=============================================================================
