------------------------- MODULE TagPipelineProofs -------------------------
(***************************************************************************)
(* What TLAPS proves of the tag pipeline: the tags of the users are kept   *)
(* for any number of documents and daemons, replicas included; locks,      *)
(* marks and the end of the work are sound for one daemon of each kind,    *)
(* and no model call is made twice for the same reason.  These last three  *)
(* are of the documents to which no save has added a pipeline tag that the *)
(* model of the classifier picked; the other documents go on being worked  *)
(* on beside them.                                                         *)
(***************************************************************************)
EXTENDS TagPipeline, TLAPS

-----------------------------------------------------------------------------
(* The inductive invariant, in its parts                                   *)

\* Where the jobs of a daemon can be, by its phase.
Phased == \A i \in Daemon, d \in Doc :
  /\ phase[i] \in {"poll", "down"} => At(i, d, "idle")
  /\ phase[i] = "recover" => job[i][d].step \in {"idle", "recover"}
  /\ phase[i] = "list" => job[i][d].step \in {"idle", "strip", "queued"}
  /\ phase[i] = "batch" => job[i][d].step \notin {"recover", "strip"}
  /\ At(i, d, "claim") => Lock(i) # NoTag

\* Whatever will be written carries the tags of the users.
Carries(d, j) ==
  /\ j.step \notin {"idle", "queued", "done"} => Kept(d, j.seen)
  /\ j.step \in {"lock", "write", "final", "fallback", "unlock"} => Kept(d, j.base)
UserPart == \A d \in Doc :
  /\ Kept(d, tags[d])
  /\ swap[d] # {} => Kept(d, swap[d])
  /\ \A i \in Daemon : Carries(d, job[i][d])

\* A deployment for which the sweep of stale locks was written (stale_lock.py):
\* no replicas, and the sweep on; with an error tag.  Tags with different roles
\* differ, except that the OCR daemon's last tag may be the classifier's first.
Deployment ==
  /\ \A i, j \in OcrDaemon : i = j
  /\ \A i, j \in Classifier : i = j
  /\ Recovery
  /\ Pre \notin {Post, ClassifyPre} /\ ClassifyPost \notin {Pre, ClassifyPre}
  /\ Error \notin {NoTag, Pre, ClassifyPre}
  /\ Locks \cap {Pre, Post, ClassifyPre, ClassifyPost, Error} = {}
  /\ OcrLock = ClassifyLock => OcrLock = NoTag

\* A job that has still to write, or to read what it will write from.
Working == {"strip", "recover", "claim", "lock", "verify", "work", "refresh", "write",
            "final", "fallback", "unlock"}
BusyWith(i, j, set) == \/ j.step \in Working
                       \/ j.step = "release" /\ Lock(i) \in set

\* What a job knows of its document is still so when it writes.
Fits(i, j, set) ==
  /\ j.step = "queued" => QueueTag(i) \in set /\ Lock(i) \notin set
  /\ BusyWith(i, j, set) => QueueTag(i) \in set
  /\ j.step \in {"claim", "lock"} => Lock(i) \notin set /\ Lock(i) # NoTag
  /\ j.step = "lock" => j.base = set \cup {Lock(i)}
  /\ j.step = "unlock" => j.base = set \ {Lock(i)}
  /\ j.step \in {"recover", "strip"} => j.seen = set
  /\ j.step = "strip" => DoneTag(i) \in set
  /\ j.step \in {"work", "refresh", "write", "final"} => j.claimed \/ Lock(i) \notin set
  /\ j.step = "refresh" => i \in OcrDaemon /\ j.plan # "requeue"
  /\ j.step = "write" => IF i \in OcrDaemon THEN j.plan # "requeue"
                                             ELSE j.plan \in {"save", "requeue"}

\* A lock is of a daemon that will sweep it, or of a job that will release it;
\* no job falls back to less than the error tag.
Owns(i, p, j, set) ==
  /\ Lock(i) \in set => p = "down" \/ j.step = "recover" \/ j.step \in Holding
  /\ j.step # "fallback"

\* A document is in one queue at most; it is open then, and a lock on it is of
\* the daemon of that queue.  A requeue under way was asked of these tags.
Places(set, isOpen, request) ==
  /\ ~(Pre \in set /\ ClassifyPre \in set)
  /\ OcrLock \in set => Pre \in set /\ OcrDaemon # {}
  /\ ClassifyLock \in set => ClassifyPre \in set /\ Classifier # {}
  /\ set \cap {Pre, ClassifyPre} # {} => isOpen
  /\ request # {} => /\ set \cap {Pre, ClassifyPre} = {}
                     /\ request \in {Reclassified(set), Retranscribed(set)}

\* An open document can be found by its tags.
Marked(set, isOpen) == isOpen => set \cap PipelineTags # {}

\* A refused write leaves locks, and may end in a document without a mark.
Good(d) == /\ Places(tags[d], d \in open, swap[d])
           /\ \A i \in Daemon : Fits(i, job[i][d], tags[d])
           /\ rejects = 0 => /\ Marked(tags[d], d \in open)
                             /\ \A i \in Daemon : Owns(i, phase[i], job[i][d], tags[d])

Faultless == faults = 0

IInv == /\ TypeOK /\ Phased /\ UserPart
        /\ Deployment /\ Faultless => \A d \in Doc : ~Misled(d) => Good(d)

-----------------------------------------------------------------------------
(* One job moves: types, phases and the tags of the users                  *)

Bodies == {"keep", "empty", "text", "refused"}

\* Steps of a job that is only found in a batch.
InBatch(i, d) == phase[i] = "batch" \/ job[i][d].step \notin {"idle", "recover", "strip", "queued"}

\* A request succeeds, is lost, or is refused.
Counted == Fine \/ Fails \/ Refused

\* A save may have added tags the model picked.
Grown == /\ suggested' \in [Doc -> SUBSET Tag] /\ picks' \in 0 .. MaxPicks
         /\ \A d \in Doc : suggested[d] \subseteq suggested'[d]
KeptThen(d, set) == /\ wanted[d] \subseteq set \cap UserTag
                    /\ set \cap UserTag \subseteq wanted[d] \cup suggested'[d]

LEMMA NothingPicked ==
  ASSUME TypeOK, NoSuggestion
  PROVE  Grown
BY DEF TypeOK, NoSuggestion, Grown

\* What is kept depends on the tags of the users only, and goes on being kept.
LEMMA KeptAlike ==
  ASSUME NEW d \in Doc, NEW A, NEW B, Kept(d, A), B \cap UserTag = A \cap UserTag
  PROVE  Kept(d, B)
BY DEF Kept

LEMMA KeptOn ==
  ASSUME NEW d \in Doc, NEW A, Kept(d, A), Grown
  PROVE  KeptThen(d, A)
BY DEF Kept, KeptThen, Grown

\* Daemon i has moved its job for d to j, and may have written the tags W.
Move(i, d, j, W, b) ==
  /\ j \in Job /\ Set(i, d, j)
  /\ W \in SUBSET Tag /\ b \in Bodies /\ (UNCHANGED archive \/ Patch(d, W, b))
  /\ Others /\ (UNCHANGED spent \/ Spend(i, d)) /\ open' \in {open, open \ {d}}
  /\ Counted /\ Grown
  /\ j.step = "idle" \/ (InBatch(i, d) /\ j.step \notin {"recover", "strip"})
  /\ j.step = "claim" => Lock(i) # NoTag
  /\ Carries(d, job[i][d]) /\ Kept(d, tags[d]) => Carries(d, j) /\ KeptThen(d, W)

LEMMA Kinds ==
  ASSUME NEW i \in Daemon
  PROVE  /\ Kind(i) \in {"ocr", "classify"} /\ QueueTag(i) \in PipelineTags
         /\ Lock(i) \in PipelineTags \cup {NoTag} /\ DoneTag(i) \in PipelineTags \cup {NoTag}
         /\ PipelineTags \subseteq Tag /\ UserTag \subseteq Tag /\ NoTag \notin Tag
         /\ Pre \in PipelineTags /\ Post \in PipelineTags /\ ClassifyPre \in PipelineTags
BY RequiredTagsAreSet DEF Kind, QueueTag, Lock, DoneTag, PipelineTags, Tag

\* Pipeline tags are none of the users'.
LEMMA Apart ==
  ASSUME NEW set \in SUBSET Tag, NEW t \in PipelineTags \cup {NoTag}
  PROVE  /\ (set \cup {t}) \cap UserTag = set \cap UserTag
         /\ (set \ {t}) \cap UserTag = set \cap UserTag
         /\ Clean(set) \cap UserTag = set \cap UserTag
         /\ With(Clean(set), t) \cap UserTag = set \cap UserTag
         /\ set \ {t} \in SUBSET Tag /\ Clean(set) \in SUBSET Tag
         /\ With(Clean(set), t) \in SUBSET Tag
         /\ t # NoTag => set \cup {t} \in SUBSET Tag
BY UserTagsAreOther, RequiredTagsAreSet DEF Clean, With, Tag

LEMMA SetJob ==
  ASSUME TypeOK, NEW i \in Daemon, NEW d \in Doc, NEW j \in Job, Set(i, d, j)
  PROVE  /\ job' \in [Daemon -> [Doc -> Job]] /\ job'[i][d] = j
         /\ \A k \in Daemon, e \in Doc : k # i \/ e # d => job'[k][e] = job[k][e]
<1>1. job \in [Daemon -> [Doc -> Job]] /\ job[i] \in [Doc -> Job]
  BY DEF TypeOK
<1>2. job' = [job EXCEPT ![i] = [job[i] EXCEPT ![d] = j]]
  BY <1>1 DEF Set
<1>3. [job[i] EXCEPT ![d] = j] \in [Doc -> Job]
  BY <1>1
<1> QED BY <1>1, <1>2, <1>3

LEMMA PatchType ==
  ASSUME TypeOK, NEW d \in Doc, NEW W \in SUBSET Tag, NEW b \in Bodies,
         UNCHANGED archive \/ Patch(d, W, b)
  PROVE  /\ tags' \in [Doc -> SUBSET Tag] /\ content' \in [Doc -> {"empty", "text", "refused"}]
         /\ tags'[d] \in {tags[d], W} /\ \A e \in Doc \ {d} : tags'[e] = tags[e]
<1>1. tags \in [Doc -> SUBSET Tag] /\ content \in [Doc -> {"empty", "text", "refused"}]
  BY DEF TypeOK
<1>2. CASE UNCHANGED archive
  BY <1>1, <1>2 DEF archive
<1>3. CASE Patch(d, W, b)
  BY <1>1, <1>3 DEF Patch, Bodies
<1> QED BY <1>2, <1>3

LEMMA MoveTyped ==
  ASSUME TypeOK, Phased, NEW i \in Daemon, NEW d \in Doc, NEW j, NEW W, NEW b, Move(i, d, j, W, b)
  PROVE  TypeOK' /\ Phased'
<1>1. /\ job' \in [Daemon -> [Doc -> Job]] /\ job'[i][d] = j
      /\ \A k \in Daemon, e \in Doc : k # i \/ e # d => job'[k][e] = job[k][e]
  BY SetJob DEF Move
<1>2. /\ tags' \in [Doc -> SUBSET Tag] /\ content' \in [Doc -> {"empty", "text", "refused"}]
  BY PatchType DEF Move
<1>3. spent' \in [Doc -> [{"ocr", "classify"} -> Nat]]
  <2>1. spent \in [Doc -> [{"ocr", "classify"} -> Nat]]
    BY DEF TypeOK
  <2>2. CASE Spend(i, d)
    <3>1. [spent[d] EXCEPT ![Kind(i)] = @ + 1] \in [{"ocr", "classify"} -> Nat]
      BY <2>1, Kinds
    <3>2. spent' = [spent EXCEPT ![d] = [spent[d] EXCEPT ![Kind(i)] = @ + 1]]
      BY <2>1, <2>2 DEF Spend
    <3> QED BY <2>1, <3>1, <3>2
  <2> QED BY <2>1, <2>2 DEF Move
<1>4. faults' \in 0 .. MaxFaults /\ rejects' \in 0 .. MaxRejects
  BY BudgetsAreNatural DEF Move, Counted, Fine, Fails, Refused, TypeOK
<1>5. /\ UNCHANGED <<pageless, phase, stopping, swap, wanted, edits, queued, stops>>
      /\ open' \in {open, open \ {d}}
  BY DEF Move, Others
<1>6. TypeOK'
  BY <1>1, <1>2, <1>3, <1>4, <1>5 DEF TypeOK, Move, Grown
<1>7. Phased'
  <2> SUFFICES ASSUME NEW k \in Daemon, NEW e \in Doc
               PROVE  /\ phase[k] \in {"poll", "down"} => job'[k][e].step = "idle"
                      /\ phase[k] = "recover" => job'[k][e].step \in {"idle", "recover"}
                      /\ phase[k] = "list" => job'[k][e].step \in {"idle", "strip", "queued"}
                      /\ phase[k] = "batch" => job'[k][e].step \notin {"recover", "strip"}
                      /\ job'[k][e].step = "claim" => Lock(k) # NoTag
    BY <1>5 DEF Phased, At
  <2>1. CASE k # i \/ e # d
    BY <1>1, <2>1 DEF Phased, At
  <2>2. CASE k = i /\ e = d
    <3>1. CASE j.step = "idle"
      BY <1>1, <2>2, <3>1
    <3>2. CASE InBatch(i, d) /\ j.step \notin {"recover", "strip"}
      <4>1. phase[i] = "batch"
        BY <3>2 DEF InBatch, Phased, At, TypeOK
      <4> QED BY <1>1, <2>2, <3>2, <4>1 DEF Move
    <3> QED BY <3>1, <3>2 DEF Move
  <2> QED BY <2>1, <2>2
<1> QED BY <1>6, <1>7

LEMMA MoveCarries ==
  ASSUME TypeOK, UserPart, NEW i \in Daemon, NEW d \in Doc, NEW j, NEW W, NEW b, Move(i, d, j, W, b)
  PROVE  UserPart'
<1>1. /\ job'[i][d] = j
      /\ \A k \in Daemon, e \in Doc : k # i \/ e # d => job'[k][e] = job[k][e]
  BY SetJob DEF Move
<1>2. /\ tags'[d] \in {tags[d], W} /\ \A e \in Doc \ {d} : tags'[e] = tags[e]
  BY PatchType DEF Move
<1>3. UNCHANGED <<swap, wanted>> /\ Grown
  BY DEF Move, Others
<1>4. Carries(d, j) /\ KeptThen(d, W)
  BY DEF Move, UserPart
<1>5. ASSUME NEW e \in Doc, NEW A, Kept(e, A) PROVE KeptThen(e, A)
  BY <1>3, <1>5, KeptOn
<1>6. ASSUME NEW e \in Doc, NEW q, Carries(e, q)
      PROVE  /\ q.step \notin {"idle", "queued", "done"} => KeptThen(e, q.seen)
             /\ q.step \in {"lock", "write", "final", "fallback", "unlock"} => KeptThen(e, q.base)
  BY <1>5, <1>6 DEF Carries
<1> SUFFICES ASSUME NEW e \in Doc PROVE Kept(e, tags[e])' /\ (swap[e] # {} => Kept(e, swap[e]))'
                                     /\ \A k \in Daemon : Carries(e, job[k][e])'
  BY DEF UserPart
<1>7. KeptThen(e, tags'[e])
  BY <1>2, <1>4, <1>5 DEF UserPart
<1>8. swap'[e] # {} => KeptThen(e, swap'[e])
  BY <1>3, <1>5 DEF UserPart
<1>9. ASSUME NEW k \in Daemon PROVE Carries(e, job[k][e])'
  <2>1. Carries(e, job'[k][e])
    BY <1>1, <1>4 DEF UserPart
  <2>2. /\ job'[k][e].step \notin {"idle", "queued", "done"} => KeptThen(e, job'[k][e].seen)
        /\ job'[k][e].step \in {"lock", "write", "final", "fallback", "unlock"}
             => KeptThen(e, job'[k][e].base)
    BY <1>6, <2>1
  <2> QED BY <1>3, <2>2 DEF Carries, Kept, KeptThen
<1> QED BY <1>3, <1>7, <1>8, <1>9 DEF Kept, KeptThen

-----------------------------------------------------------------------------
(* What the records of the actions are                                     *)

LEMMA JobFields ==
  ASSUME TypeOK, NEW i \in Daemon, NEW d \in Doc
  PROVE  /\ job[i][d] \in Job /\ tags[d] \in SUBSET Tag /\ content[d] \in {"empty", "text", "refused"}
         /\ job[i][d].step \in Step /\ job[i][d].claimed \in BOOLEAN
         /\ job[i][d].seen \in SUBSET Tag /\ job[i][d].base \in SUBSET Tag
         /\ job[i][d].plan \in Plan /\ job[i][d].body \in Bodies
<1>1. job[i][d] \in Job /\ tags[d] \in SUBSET Tag /\ content[d] \in {"empty", "text", "refused"}
  BY DEF TypeOK
<1> QED BY <1>1 DEF Job, Bodies

LEMMA NoJobFields ==
  NoJob \in Job /\ NoJob.step = "idle" /\ NoJob.seen = {}
BY DEF NoJob, Job, Step, Plan

LEMMA StepSet ==
  ASSUME NEW j \in Job, NEW s \in Step
  PROVE  LET q == [j EXCEPT !.step = s] IN
         /\ q \in Job /\ q.step = s /\ q.seen = j.seen /\ q.base = j.base
         /\ q.claimed = j.claimed /\ q.plan = j.plan
BY DEF Job

LEMMA ClaimSet ==
  ASSUME NEW j \in Job
  PROVE  LET q == [j EXCEPT !.step = "work", !.claimed = TRUE] IN
         /\ q \in Job /\ q.step = "work" /\ q.seen = j.seen /\ q.base = j.base
         /\ q.claimed = TRUE /\ q.plan = j.plan
BY DEF Job, Step

LEMMA Found ==
  ASSUME NEW set \in SUBSET Tag, NEW s \in {"recover", "strip"}
  PROVE  LET q == [NoJob EXCEPT !.step = s, !.seen = set] IN
         q \in Job /\ q.step = s /\ q.seen = set
BY DEF Job, NoJob, Step, Plan

-----------------------------------------------------------------------------
(* Every request of a job is a move                                        *)

\* A job that only moves on to step s.
LEMMA GotoMoves ==
  ASSUME TypeOK, NEW i \in Daemon, NEW d \in Doc, InBatch(i, d),
         NEW s \in {"done", "release", "verify", "fallback"}, Goto(i, d, s),
         s # "done" => job[i][d].step \notin {"idle", "queued", "done"},
         s = "fallback" => At(i, d, "final"),
         NEW W \in SUBSET Tag, NEW b \in Bodies, UNCHANGED archive \/ Patch(d, W, b),
         Carries(d, job[i][d]) /\ Kept(d, tags[d]) => KeptThen(d, W),
         Others, UNCHANGED spent \/ Spend(i, d), open' \in {open, open \ {d}}, Counted, Grown
  PROVE  Move(i, d, [job[i][d] EXCEPT !.step = s], W, b)
<1> DEFINE q == [job[i][d] EXCEPT !.step = s]
<1>1. /\ q \in Job /\ q.step = s /\ q.seen = job[i][d].seen /\ q.base = job[i][d].base
  <2>1. job[i][d] \in Job /\ s \in Step
    BY JobFields DEF Step
  <2> QED BY <2>1, StepSet
<1>2. Set(i, d, q)
  BY DEF Goto
<1> HIDE DEF q
<1>3. Carries(d, job[i][d]) => Carries(d, q)
  BY <1>1 DEF Carries, At
<1>4. Move(i, d, q, W, b)
  BY <1>1, <1>2, <1>3 DEF Move
<1> QED BY <1>4 DEF q

\* A job that ends, and releases its lock.
LEMMA LeaveMoves ==
  ASSUME TypeOK, NEW i \in Daemon, NEW d \in Doc, InBatch(i, d), Leave(i, d),
         job[i][d].step \notin {"idle", "queued", "done"},
         NEW W \in SUBSET Tag, NEW b \in Bodies, UNCHANGED archive \/ Patch(d, W, b),
         Carries(d, job[i][d]) /\ Kept(d, tags[d]) => KeptThen(d, W),
         Others, UNCHANGED spent \/ Spend(i, d), open' \in {open, open \ {d}}, Counted, Grown
  PROVE  \E j : Move(i, d, j, W, b)
<1>1. CASE Goto(i, d, "release")
  BY <1>1, GotoMoves
<1>2. CASE Goto(i, d, "done")
  BY <1>2, GotoMoves
<1> QED BY <1>1, <1>2 DEF Leave

\* A job that sets out to write from base B, or to mark its document.
LEMMA BaseMoves ==
  ASSUME TypeOK, NEW i \in Daemon, NEW d \in Doc, InBatch(i, d),
         NEW q \in Job, Set(i, d, q), job[i][d].step \notin {"idle", "queued", "done"},
         q.step \in {"lock", "refresh", "write", "final", "unlock", "work"},
         q.seen = job[i][d].seen,
         \/ q.step \in {"refresh", "work"} \/ q.base = job[i][d].seen
         \/ q.base \cap UserTag = tags[d] \cap UserTag,
         UNCHANGED archive, Others, UNCHANGED spent \/ Spend(i, d), open' \in {open, open \ {d}},
         Counted, Grown
  PROVE  Move(i, d, q, tags[d], "keep")
<1>1. tags[d] \in SUBSET Tag /\ "keep" \in Bodies
  BY JobFields DEF Bodies
<1>2. Carries(d, job[i][d]) /\ Kept(d, tags[d]) => Carries(d, q) /\ KeptThen(d, tags[d])
  BY KeptAlike, KeptOn DEF Carries
<1> QED BY <1>1, <1>2 DEF Move

LEMMA SweepMoves ==
  ASSUME TypeOK, NEW i \in Daemon, NEW d \in Doc, RecoverLock(i, d) \/ StripQueueTag(i, d)
  PROVE  \E j, W, b : Move(i, d, j, W, b)
<1>1. /\ Set(i, d, NoJob) /\ job[i][d].step \in {"recover", "strip"} /\ Others
      /\ UNCHANGED spent /\ open' \in {open, open \ {d}} /\ Counted /\ Grown
  BY NothingPicked DEF RecoverLock, StripQueueTag, NoCall, PatchFails, At, Counted
<1>2. PICK W \in {(job[i][d].seen \ {Lock(i)}) \cup {QueueTag(i)},
                  job[i][d].seen \ {QueueTag(i), Lock(i)}} :
        UNCHANGED archive \/ Patch(d, W, "keep")
  BY DEF RecoverLock, StripQueueTag, PatchFails
<1>3. W \in SUBSET Tag /\ W \cap UserTag = job[i][d].seen \cap UserTag
  <2>1. job[i][d].seen \in SUBSET Tag /\ QueueTag(i) \in Tag
    BY JobFields, Kinds
  <2>2. QueueTag(i) \notin UserTag /\ Lock(i) \notin UserTag
    BY Kinds, UserTagsAreOther, RequiredTagsAreSet
  <2> QED BY <1>2, <2>1, <2>2
<1>4. NoJob \in Job /\ NoJob.step = "idle" /\ "keep" \in Bodies /\ Carries(d, NoJob)
  BY NoJobFields DEF Bodies, Carries
<1>5. Carries(d, job[i][d]) => KeptThen(d, W)
  BY <1>1, <1>3, KeptAlike, KeptOn DEF Carries
<1>6. Move(i, d, NoJob, W, "keep")
  BY <1>1, <1>2, <1>3, <1>4, <1>5 DEF Move
<1> QED BY <1>6

LEMMA TakeMoves ==
  ASSUME TypeOK, NEW i \in Daemon, NEW d \in Doc, Take(i, d)
  PROVE  \E j, W, b : Move(i, d, j, W, b)
<1> DEFINE read == [job[i][d] EXCEPT !.seen = tags[d], !.base = tags[d], !.text = content[d]]
<1>1. /\ InBatch(i, d) /\ At(i, d, "queued") /\ Others /\ UNCHANGED spent /\ open' \in {open, open \ {d}}
      /\ UNCHANGED archive /\ Counted /\ Grown
  BY NothingPicked DEF Take, InBatch, Read, NoCall, Counted
<1>2. /\ read \in Job /\ read.seen = tags[d] /\ read.base = tags[d]
      /\ tags[d] \in SUBSET Tag /\ "keep" \in Bodies
  <2>1. job[i][d] \in Job /\ tags[d] \in SUBSET Tag /\ content[d] \in {"empty", "text", "refused"}
    BY JobFields
  <2>2. read \in Job /\ read.seen = tags[d] /\ read.base = tags[d]
    BY <2>1 DEF Job
  <2> QED BY <2>1, <2>2 DEF Bodies
<1>a. ASSUME NEW q \in Job, Set(i, d, q), q.step \in {"final", "claim", "work"},
             q.seen = tags[d], q.base = tags[d], q.step = "claim" => Lock(i) # NoTag
      PROVE  Move(i, d, q, tags[d], "keep")
  <2>1. Kept(d, tags[d]) => Carries(d, q) /\ KeptThen(d, tags[d])
    BY <1>1, <1>a, KeptOn DEF Carries
  <2> QED BY <1>1, <1>2, <1>a, <2>1 DEF Move
<1>3. CASE Goto(i, d, "done")
  BY <1>1, <1>2, <1>3, GotoMoves, KeptOn
<1>4. CASE Set(i, d, [read EXCEPT !.step = "final"])
  <2> DEFINE q == [read EXCEPT !.step = "final"]
  <2> HIDE DEF read
  <2>1. q \in Job /\ q.step = "final" /\ q.seen = tags[d] /\ q.base = tags[d]
    BY <1>2, StepSet DEF Step
  <2>2. Set(i, d, q)
    BY <1>4
  <2> HIDE DEF q
  <2> QED BY <1>a, <2>1, <2>2
<1>5. CASE Set(i, d, [read EXCEPT !.step = "claim"]) /\ Lock(i) # NoTag
  <2> DEFINE q == [read EXCEPT !.step = "claim"]
  <2> HIDE DEF read
  <2>1. q \in Job /\ q.step = "claim" /\ q.seen = tags[d] /\ q.base = tags[d]
    BY <1>2, StepSet DEF Step
  <2>2. Set(i, d, q)
    BY <1>5
  <2> HIDE DEF q
  <2> QED BY <1>a, <1>5, <2>1, <2>2
<1>6. CASE Set(i, d, [read EXCEPT !.step = "work", !.claimed = TRUE])
  <2> DEFINE q == [read EXCEPT !.step = "work", !.claimed = TRUE]
  <2> HIDE DEF read
  <2>1. q \in Job /\ q.step = "work" /\ q.seen = tags[d] /\ q.base = tags[d]
    BY <1>2, ClaimSet
  <2>2. Set(i, d, q)
    BY <1>6
  <2> HIDE DEF q
  <2> QED BY <1>a, <2>1, <2>2
<1> QED BY <1>3, <1>4, <1>5, <1>6 DEF Take

LEMMA ClaimMoves ==
  ASSUME TypeOK, Phased, NEW i \in Daemon, NEW d \in Doc,
         ClaimRead(i, d) \/ ClaimWrite(i, d) \/ ClaimVerify(i, d)
  PROVE  \E j, W, b : Move(i, d, j, W, b)
<1>1. /\ InBatch(i, d) /\ job[i][d].step \in {"claim", "lock", "verify"} /\ Others
      /\ UNCHANGED spent /\ open' \in {open, open \ {d}} /\ Counted /\ Grown
  BY NothingPicked DEF ClaimRead, ClaimWrite, ClaimVerify, Read, NoCall, PatchFails, At, InBatch, Counted
<1>2. /\ job[i][d] \in Job /\ tags[d] \in SUBSET Tag /\ job[i][d].base \in SUBSET Tag /\ "keep" \in Bodies
  BY JobFields DEF Bodies
<1>3. CASE Goto(i, d, "done") /\ UNCHANGED archive
  BY <1>1, <1>2, <1>3, GotoMoves, KeptOn
<1>4. CASE ClaimRead(i, d) /\ ~Goto(i, d, "done")
  <2> DEFINE B == tags[d] \cup {Lock(i)}
             q == [job[i][d] EXCEPT !.step = "lock", !.base = B]
  <2>1. Set(i, d, q) /\ UNCHANGED archive
    BY <1>4 DEF ClaimRead, Read
  <2>2. B \in SUBSET Tag /\ B \cap UserTag = tags[d] \cap UserTag
    <3>1. Lock(i) # NoTag /\ Lock(i) \in PipelineTags \cup {NoTag}
      BY <1>4, Kinds DEF ClaimRead, Phased
    <3> QED BY <1>2, <3>1, Apart
  <2> HIDE DEF B
  <2>3. q \in Job /\ q.step = "lock" /\ q.seen = job[i][d].seen /\ q.base = B
    BY <1>2, <2>2 DEF Job, Step
  <2> HIDE DEF q
  <2> QED BY <1>1, <2>1, <2>2, <2>3, BaseMoves
<1>5. CASE ClaimWrite(i, d)
  <2> DEFINE B == job[i][d].base
  <2>1. UNCHANGED archive \/ Patch(d, B, "keep")
    BY <1>5 DEF ClaimWrite, PatchFails
  <2>2. Carries(d, job[i][d]) => KeptThen(d, B)
    BY <1>1, <1>5, KeptOn DEF ClaimWrite, Carries, At
  <2>3. Goto(i, d, "verify") \/ Goto(i, d, "done")
    BY <1>5 DEF ClaimWrite
  <2> HIDE DEF B
  <2>4. B \in SUBSET Tag
    BY <1>2 DEF B
  <2>5. CASE Goto(i, d, "verify")
    BY <1>1, <1>2, <2>1, <2>2, <2>4, <2>5, GotoMoves
  <2>6. CASE Goto(i, d, "done")
    BY <1>1, <1>2, <2>1, <2>2, <2>4, <2>6, GotoMoves
  <2> QED BY <2>3, <2>5, <2>6
<1>6. CASE ClaimVerify(i, d) /\ ~Goto(i, d, "done")
  <2> DEFINE q == [job[i][d] EXCEPT !.step = "work", !.claimed = TRUE]
  <2>1. Set(i, d, q) /\ UNCHANGED archive
    BY <1>6 DEF ClaimVerify, Read
  <2>2. q \in Job /\ q.step = "work" /\ q.seen = job[i][d].seen
    BY <1>2, ClaimSet
  <2> HIDE DEF q
  <2> QED BY <1>1, <2>1, <2>2, BaseMoves
<1> QED BY <1>3, <1>4, <1>5, <1>6 DEF ClaimRead, ClaimVerify, Read

LEMMA PrepareMoves ==
  ASSUME TypeOK, NEW i \in Daemon, NEW d \in Doc, InBatch(i, d), NEW p \in Plan, NEW b \in Bodies,
         Prepare(i, d, p, b), job[i][d].step \notin {"idle", "queued", "done"}, UNCHANGED archive,
         Others, UNCHANGED spent \/ Spend(i, d), open' \in {open, open \ {d}}, Counted, Grown
  PROVE  \E j, W, c : Move(i, d, j, W, c)
<1> DEFINE q == [job[i][d] EXCEPT !.step = "refresh", !.plan = p, !.body = b]
<1>1. job[i][d] \in Job
  BY JobFields
<1>2. q \in Job /\ q.step = "refresh" /\ q.seen = job[i][d].seen
  BY <1>1 DEF Job, Step, Bodies
<1>3. Set(i, d, q)
  BY DEF Prepare
<1> HIDE DEF q
<1> QED BY <1>2, <1>3, BaseMoves

LEMMA GiveUpMoves ==
  ASSUME TypeOK, NEW i \in Daemon, NEW d \in Doc, InBatch(i, d), GiveUp(i, d),
         job[i][d].step \notin {"idle", "queued", "done"},
         NEW W \in SUBSET Tag, NEW b \in Bodies, UNCHANGED archive \/ Patch(d, W, b),
         Carries(d, job[i][d]) /\ Kept(d, tags[d]) => KeptThen(d, W),
         Others, UNCHANGED spent \/ Spend(i, d), open' \in {open, open \ {d}}, Counted, Grown
  PROVE  \E j : Move(i, d, j, W, b)
<1> DEFINE q == [job[i][d] EXCEPT !.step = "final", !.base = job[i][d].seen]
<1>1. job[i][d] \in Job /\ job[i][d].seen \in SUBSET Tag
  BY JobFields
<1>2. q \in Job /\ q.step = "final" /\ q.seen = job[i][d].seen /\ q.base = job[i][d].seen
  BY <1>1 DEF Job, Step
<1>3. Set(i, d, q)
  BY DEF GiveUp
<1> HIDE DEF q
<1>4. Carries(d, job[i][d]) => Carries(d, q)
  BY <1>2 DEF Carries
<1>5. Move(i, d, q, W, b)
  BY <1>2, <1>3, <1>4 DEF Move
<1> QED BY <1>5

LEMMA WorkMoves ==
  ASSUME TypeOK, NEW i \in Daemon, NEW d \in Doc, OcrWork(i, d) \/ ClassifyWork(i, d)
  PROVE  \E j, W, b : Move(i, d, j, W, b)
<1>1. /\ InBatch(i, d) /\ At(i, d, "work") /\ job[i][d].step \notin {"idle", "queued", "done"} /\ Others
      /\ UNCHANGED spent \/ Spend(i, d)
      /\ open' \in {open, open \ {d}} /\ UNCHANGED archive /\ Counted /\ Grown
  BY NothingPicked DEF OcrWork, ClassifyWork, Free, SkipBornDigital, Undecodable, NoPages, Transcribed,
         BadTranscript, Classified, Unusable, At, InBatch, Counted
<1>2. job[i][d] \in Job /\ tags[d] \in SUBSET Tag /\ job[i][d].seen \in SUBSET Tag /\ "keep" \in Bodies
  BY JobFields DEF Bodies
<1>3. CASE Leave(i, d)
  BY <1>1, <1>2, <1>3, LeaveMoves, KeptOn
<1>4. CASE GiveUp(i, d)
  BY <1>1, <1>2, <1>4, GiveUpMoves, KeptOn
<1>5. CASE \E p \in {"skip", "save", "error"}, b \in Bodies : Prepare(i, d, p, b)
  BY <1>1, <1>5, PrepareMoves DEF Plan
<1>6. ASSUME NEW p \in {"save", "requeue"}, Write(i, d, p)
      PROVE  \E j, W, b : Move(i, d, j, W, b)
  <2> DEFINE q == [job[i][d] EXCEPT !.step = "write", !.plan = p, !.base = job[i][d].seen]
  <2>1. q \in Job /\ q.step = "write" /\ q.seen = job[i][d].seen /\ q.base = job[i][d].seen
    BY <1>2 DEF Job, Step, Plan
  <2>2. Set(i, d, q)
    BY <1>6 DEF Write
  <2> HIDE DEF q
  <2> QED BY <1>1, <2>1, <2>2, BaseMoves
<1>7. CASE OcrWork(i, d)
  <2>1. \/ Leave(i, d) \/ GiveUp(i, d)
        \/ \E p \in {"skip", "save", "error"}, b \in Bodies : Prepare(i, d, p, b)
    BY <1>7 DEF OcrWork, SkipBornDigital, Undecodable, NoPages, Transcribed, BadTranscript, Bodies
  <2> QED BY <1>3, <1>4, <1>5, <2>1
<1>8. CASE ClassifyWork(i, d)
  <2>1. Leave(i, d) \/ GiveUp(i, d) \/ Write(i, d, "save") \/ Write(i, d, "requeue")
    BY <1>8 DEF ClassifyWork, Classified, Unusable
  <2> QED BY <1>3, <1>4, <1>6, <2>1
<1> QED BY <1>7, <1>8

LEMMA RefreshMoves ==
  ASSUME TypeOK, NEW i \in Daemon, NEW d \in Doc, Refresh(i, d)
  PROVE  \E j, W, b : Move(i, d, j, W, b)
<1>1. /\ InBatch(i, d) /\ job[i][d].step \notin {"idle", "queued", "done"} /\ Others
      /\ UNCHANGED spent /\ open' \in {open, open \ {d}} /\ UNCHANGED archive /\ Counted /\ Grown
  BY NothingPicked DEF Refresh, Read, NoCall, At, InBatch, Counted
<1>2. job[i][d] \in Job /\ tags[d] \in SUBSET Tag /\ job[i][d].seen \in SUBSET Tag
  BY JobFields
<1>3. PICK s \in {"final", "write"}, B \in {tags[d], job[i][d].seen} :
        Set(i, d, [job[i][d] EXCEPT !.step = s, !.base = B])
  BY DEF Refresh
<1> DEFINE q == [job[i][d] EXCEPT !.step = s, !.base = B]
<1>4. q \in Job /\ q.step = s /\ q.seen = job[i][d].seen /\ q.base = B
  <2>1. B \in SUBSET Tag /\ s \in Step
    BY <1>2, <1>3 DEF Step
  <2> QED BY <1>2, <2>1, <1>3 DEF Job
<1>5. Set(i, d, q)
  BY <1>3
<1> HIDE DEF q
<1>6. q.base = job[i][d].seen \/ q.base \cap UserTag = tags[d] \cap UserTag
  BY <1>3, <1>4
<1> QED BY <1>1, <1>3, <1>4, <1>5, <1>6, BaseMoves

\* The tags of a save: the base without pipeline tags, the new mark, the picks.
LEMMA ResultTags ==
  ASSUME TypeOK, NEW i \in Daemon, NEW d \in Doc, NEW picked \in Picks(i, d)
  PROVE  /\ Result(i, d, picked) \in SUBSET Tag /\ picked \in SUBSET Tag
         /\ Result(i, d, picked) \cap UserTag = (job[i][d].base \cup picked) \cap UserTag
<1> DEFINE t == IF job[i][d].plan = "requeue" THEN Pre ELSE DoneTag(i)
           C == With(Clean(job[i][d].base), t)
<1>1. job[i][d].base \in SUBSET Tag /\ t \in PipelineTags \cup {NoTag}
  BY JobFields, Kinds
<1>2. C \in SUBSET Tag /\ C \cap UserTag = job[i][d].base \cap UserTag
  BY <1>1, Apart
<1>3. picked \in SUBSET Tag
  BY VocabularyIsOfTags DEF Picks
<1>4. Result(i, d, picked) = C \cup picked
  BY DEF Result
<1> HIDE DEF C
<1> QED BY <1>2, <1>3, <1>4

LEMMA SuggestGrows ==
  ASSUME TypeOK, NEW d \in Doc, NEW picked \in SUBSET Tag, Suggest(d, picked)
  PROVE  Grown /\ picked \subseteq suggested'[d]
<1>1. suggested \in [Doc -> SUBSET Tag] /\ picks \in 0 .. MaxPicks /\ MaxPicks \in Nat
  BY BudgetsAreNatural DEF TypeOK
<1>2. suggested' = [suggested EXCEPT ![d] = suggested[d] \cup picked]
  BY <1>1 DEF Suggest
<1>3. picks' \in 0 .. MaxPicks
  BY <1>1 DEF Suggest
<1> QED BY <1>1, <1>2, <1>3 DEF Grown

LEMMA WriteBackMoves ==
  ASSUME TypeOK, NEW i \in Daemon, NEW d \in Doc, WriteBack(i, d)
  PROVE  \E j, W, b : Move(i, d, j, W, b)
<1> DEFINE bd == job[i][d].body
<1>1. /\ InBatch(i, d) /\ At(i, d, "write") /\ job[i][d].step \notin {"idle", "queued", "done"} /\ Others
      /\ UNCHANGED spent \/ Spend(i, d)
      /\ open' \in {open, open \ {d}} /\ Counted
  BY DEF WriteBack, PatchFails, At, InBatch, Counted
<1>2. /\ job[i][d] \in Job /\ tags[d] \in SUBSET Tag /\ bd \in Bodies /\ job[i][d].base \in SUBSET Tag
  BY JobFields
<1>3. ASSUME NEW picked \in Picks(i, d), Suggest(d, picked),
             UNCHANGED archive \/ Patch(d, Result(i, d, picked), bd),
             Leave(i, d) \/ GiveUp(i, d)
      PROVE  \E j, W, b : Move(i, d, j, W, b)
  <2> DEFINE R == Result(i, d, picked)
  <2>1. R \in SUBSET Tag /\ picked \in SUBSET Tag
        /\ R \cap UserTag = (job[i][d].base \cup picked) \cap UserTag
    BY ResultTags
  <2>2. Grown /\ picked \subseteq suggested'[d]
    BY <1>3, <2>1, SuggestGrows
  <2>3. UNCHANGED archive \/ Patch(d, R, bd)
    BY <1>3
  <2> HIDE DEF R, bd
  <2>4. Carries(d, job[i][d]) => KeptThen(d, R)
    BY <1>1, <2>1, <2>2, KeptOn DEF Carries, At, KeptThen
  <2>5. CASE Leave(i, d)
    BY <1>1, <1>2, <2>1, <2>2, <2>3, <2>4, <2>5, LeaveMoves
  <2>6. CASE GiveUp(i, d)
    BY <1>1, <1>2, <2>1, <2>2, <2>3, <2>4, <2>6, GiveUpMoves
  <2> QED BY <1>3, <2>5, <2>6
<1>4. ASSUME NoSuggestion, UNCHANGED archive, GiveUp(i, d) \/ Prepare(i, d, "error", bd)
      PROVE  \E j, W, b : Move(i, d, j, W, b)
  <2>1. Grown
    BY <1>4, NothingPicked
  <2> HIDE DEF bd
  <2>2. CASE GiveUp(i, d)
    BY <1>1, <1>2, <1>4, <2>1, <2>2, GiveUpMoves, KeptOn
  <2>3. CASE Prepare(i, d, "error", bd)
    BY <1>1, <1>2, <1>4, <2>1, <2>3, PrepareMoves DEF Plan
  <2> QED BY <1>4, <2>2, <2>3
<1>5. \/ \E picked \in Picks(i, d) :
           /\ Suggest(d, picked) /\ (UNCHANGED archive \/ Patch(d, Result(i, d, picked), bd))
           /\ Leave(i, d) \/ GiveUp(i, d)
      \/ NoSuggestion /\ UNCHANGED archive /\ (GiveUp(i, d) \/ Prepare(i, d, "error", bd))
  BY DEF WriteBack, PatchFails
<1> QED BY <1>3, <1>4, <1>5

LEMMA FinaliseMoves ==
  ASSUME TypeOK, NEW i \in Daemon, NEW d \in Doc, Finalise(i, d) \/ FinaliseFallback(i, d)
  PROVE  \E j, W, b : Move(i, d, j, W, b)
<1> DEFINE bd == job[i][d].body
<1>1. /\ InBatch(i, d) /\ job[i][d].step \in {"final", "fallback"} /\ Others
      /\ UNCHANGED spent \/ Spend(i, d)
      /\ open' \in {open, open \ {d}} /\ Counted /\ Grown
  BY NothingPicked DEF Finalise, FinaliseFallback, NoCall, PatchFails, At, InBatch, Counted
<1>2. /\ job[i][d] \in Job /\ bd \in Bodies /\ job[i][d].base \in SUBSET Tag
  BY JobFields
<1>3. PICK W \in {With(Clean(job[i][d].base), Error), Clean(job[i][d].base)} :
        UNCHANGED archive \/ Patch(d, W, bd)
  BY DEF Finalise, FinaliseFallback, PatchFails
<1>4. W \in SUBSET Tag /\ W \cap UserTag = job[i][d].base \cap UserTag
  <2>1. Error \in PipelineTags \cup {NoTag}
    BY DEF PipelineTags
  <2> QED BY <1>2, <1>3, <2>1, Apart
<1>5. Carries(d, job[i][d]) => KeptThen(d, W)
  BY <1>1, <1>4, KeptAlike, KeptOn DEF Carries
<1>6. Leave(i, d) \/ (Goto(i, d, "fallback") /\ At(i, d, "final"))
  BY DEF Finalise, FinaliseFallback
<1> HIDE DEF bd
<1>7. CASE Leave(i, d)
  BY <1>1, <1>2, <1>3, <1>4, <1>5, <1>7, LeaveMoves
<1>8. CASE Goto(i, d, "fallback") /\ At(i, d, "final")
  BY <1>1, <1>2, <1>3, <1>4, <1>5, <1>8, GotoMoves
<1> QED BY <1>6, <1>7, <1>8

LEMMA ReleaseMoves ==
  ASSUME TypeOK, NEW i \in Daemon, NEW d \in Doc, ReleaseRead(i, d) \/ ReleaseWrite(i, d)
  PROVE  \E j, W, b : Move(i, d, j, W, b)
<1>1. /\ InBatch(i, d) /\ job[i][d].step \in {"release", "unlock"} /\ Others
      /\ UNCHANGED spent \/ Spend(i, d)
      /\ open' \in {open, open \ {d}} /\ Counted /\ Grown
  BY NothingPicked DEF ReleaseRead, ReleaseWrite, Read, NoCall, PatchFails, At, InBatch, Counted
<1>2. /\ job[i][d] \in Job /\ tags[d] \in SUBSET Tag /\ job[i][d].base \in SUBSET Tag /\ "keep" \in Bodies
  BY JobFields DEF Bodies
<1>3. CASE ReleaseRead(i, d) /\ Goto(i, d, "done")
  <2>1. UNCHANGED archive
    BY <1>3 DEF ReleaseRead, Read
  <2> QED BY <1>1, <1>2, <1>3, <2>1, GotoMoves, KeptOn
<1>4. CASE ReleaseRead(i, d) /\ ~Goto(i, d, "done")
  <2> DEFINE B == tags[d] \ {Lock(i)}
             q == [job[i][d] EXCEPT !.step = "unlock", !.base = B]
  <2>1. Set(i, d, q) /\ UNCHANGED archive
    BY <1>4 DEF ReleaseRead, Read
  <2>2. B \in SUBSET Tag /\ B \cap UserTag = tags[d] \cap UserTag
    BY <1>2, Kinds, Apart
  <2> HIDE DEF B
  <2>3. q \in Job /\ q.step = "unlock" /\ q.seen = job[i][d].seen /\ q.base = B
    BY <1>2, <2>2 DEF Job, Step
  <2> HIDE DEF q
  <2> QED BY <1>1, <2>1, <2>2, <2>3, BaseMoves
<1>5. CASE ReleaseWrite(i, d)
  <2> DEFINE B == job[i][d].base
  <2>1. (UNCHANGED archive \/ Patch(d, B, "keep")) /\ Goto(i, d, "done")
    BY <1>5 DEF ReleaseWrite, PatchFails
  <2>2. Carries(d, job[i][d]) => KeptThen(d, B)
    BY <1>1, <1>5, KeptOn DEF ReleaseWrite, Carries, At
  <2> HIDE DEF B
  <2>3. B \in SUBSET Tag
    BY <1>2 DEF B
  <2> QED BY <1>1, <1>2, <2>1, <2>2, <2>3, GotoMoves
<1> QED BY <1>3, <1>4, <1>5

LEMMA JobStepMoves ==
  ASSUME TypeOK, Phased, NEW i \in Daemon, NEW d \in Doc, JobStep(i, d)
  PROVE  \E j, W, b : Move(i, d, j, W, b)
BY SweepMoves, TakeMoves, ClaimMoves, WorkMoves, RefreshMoves, WriteBackMoves, FinaliseMoves,
   ReleaseMoves DEF JobStep

-----------------------------------------------------------------------------
(* The life of a daemon                                                    *)

\* Phase p allows a job of daemon i to be j.
Allows(i, p, j) ==
  /\ p \in {"poll", "down"} => j.step = "idle"
  /\ p = "recover" => j.step \in {"idle", "recover"}
  /\ p = "list" => j.step \in {"idle", "strip", "queued"}
  /\ p = "batch" => j.step \notin {"recover", "strip"}
  /\ j.step = "claim" => Lock(i) # NoTag

\* Daemon i goes on in phase p with the jobs f, without a request that writes.
Lives(i, p, f) ==
  /\ Life /\ Counted /\ stops' \in 0 .. MaxStops
  /\ p \in {"down", "recover", "poll", "list", "batch"} /\ phase' = [phase EXCEPT ![i] = p]
  /\ stopping' \in [Daemon -> BOOLEAN]
  /\ f \in [Doc -> Job] /\ job' = [job EXCEPT ![i] = f]
  /\ \A d \in Doc : Allows(i, p, f[d])
  /\ \A d \in Doc : Kept(d, tags[d]) /\ Carries(d, job[i][d]) => Carries(d, f[d])

LEMMA LivesTyped ==
  ASSUME TypeOK, Phased, NEW i \in Daemon, NEW p, NEW f, Lives(i, p, f)
  PROVE  TypeOK' /\ Phased' /\ (UserPart => UserPart')
<1>1. /\ job \in [Daemon -> [Doc -> Job]] /\ phase \in [Daemon -> {"down", "recover", "poll", "list", "batch"}]
  BY DEF TypeOK
<1>2. /\ job' \in [Daemon -> [Doc -> Job]] /\ job'[i] = f
      /\ phase' \in [Daemon -> {"down", "recover", "poll", "list", "batch"}] /\ phase'[i] = p
      /\ \A k \in Daemon \ {i} : job'[k] = job[k] /\ phase'[k] = phase[k]
  BY <1>1 DEF Lives
<1>3. faults' \in 0 .. MaxFaults /\ rejects' \in 0 .. MaxRejects
  BY BudgetsAreNatural DEF Lives, Counted, Fine, Fails, Refused, TypeOK
<1>4. UNCHANGED <<tags, content, pageless, swap, wanted, suggested, spent, open, edits, queued, picks>>
  BY DEF Lives, Life, archive, ghosts
<1>5. TypeOK'
  BY <1>2, <1>3, <1>4 DEF TypeOK, Lives
<1>6. Phased'
  <2> SUFFICES ASSUME NEW k \in Daemon, NEW d \in Doc PROVE Allows(k, phase'[k], job'[k][d])
    BY DEF Phased, Allows, At
  <2>1. CASE k = i
    BY <1>2, <2>1 DEF Lives
  <2>2. CASE k # i
    BY <1>2, <2>2 DEF Phased, Allows, At
  <2> QED BY <2>1, <2>2
<1>7. ASSUME UserPart PROVE UserPart'
  <2>1. \A k \in Daemon, d \in Doc : Carries(d, job'[k][d])
    <3> SUFFICES ASSUME NEW k \in Daemon, NEW d \in Doc PROVE Carries(d, job'[k][d])
      OBVIOUS
    <3>1. Kept(d, tags[d]) /\ Carries(d, job[k][d])
      BY <1>7 DEF UserPart
    <3>2. CASE k = i
      BY <1>2, <3>1, <3>2 DEF Lives
    <3>3. CASE k # i
      BY <1>2, <3>1, <3>3
    <3> QED BY <3>2, <3>3
  <2> QED BY <1>4, <1>7, <2>1 DEF UserPart, Carries, Kept
<1> QED BY <1>5, <1>6, <1>7

LEMMA StaysAllowed ==
  ASSUME TypeOK, Phased, NEW i \in Daemon
  PROVE  /\ job[i] \in [Doc -> Job] /\ job = [job EXCEPT ![i] = job[i]]
         /\ \A d \in Doc : Allows(i, phase[i], job[i][d])
         /\ phase[i] \in {"down", "recover", "poll", "list", "batch"}
         /\ \A d \in Doc : job[i][d].step \in Step
BY JobFields DEF TypeOK, Phased, Allows, At

\* The listing and the sweep find a document as it is.
LEMMA FoundCarries ==
  ASSUME TypeOK, NEW d \in Doc, NEW s \in {"recover", "strip"}
  PROVE  LET q == [NoJob EXCEPT !.step = s, !.seen = tags[d]] IN
         /\ q \in Job /\ q.step = s /\ q.seen = tags[d]
         /\ Kept(d, tags[d]) => Carries(d, q)
<1> DEFINE q == [NoJob EXCEPT !.step = s, !.seen = tags[d]]
<1>1. tags[d] \in SUBSET Tag
  BY DEF TypeOK
<1>2. q \in Job /\ q.step = s /\ q.seen = tags[d]
  BY <1>1, Found
<1> HIDE DEF q
<1>3. Kept(d, tags[d]) => Carries(d, q)
  BY <1>2 DEF Carries
<1>4. q \in Job /\ q.step = s /\ q.seen = tags[d] /\ (Kept(d, tags[d]) => Carries(d, q))
  BY <1>2, <1>3
<1> QED BY <1>4 DEF q

LEMMA QueuedFields ==
  LET q == [NoJob EXCEPT !.step = "queued"] IN q \in Job /\ q.step = "queued" /\ q.seen = {}
BY DEF NoJob, Job, Step, Plan

\* The documents the sweep of daemon i finds, and what it makes of the others.
Stale(i) == IF Recovery /\ Lock(i) # NoTag THEN {d \in Doc : Lock(i) \in tags[d]} ELSE {}
Swept(i) == [d \in Doc |-> IF d \in Stale(i) THEN [NoJob EXCEPT !.step = "recover", !.seen = tags[d]]
                           ELSE NoJob]
Listed(i) == [d \in Doc |->
                IF QueueTag(i) \notin tags[d] THEN NoJob
                ELSE IF DoneTag(i) \in tags[d] THEN [NoJob EXCEPT !.step = "strip", !.seen = tags[d]]
                ELSE IF Lock(i) \in tags[d] THEN NoJob
                ELSE [NoJob EXCEPT !.step = "queued"]]

LEMMA SweptType ==
  ASSUME TypeOK, NEW i \in Daemon
  PROVE  /\ Swept(i) \in [Doc -> Job] /\ Listed(i) \in [Doc -> Job]
         /\ \A d \in Doc : Allows(i, "recover", Swept(i)[d]) /\ Allows(i, "list", Listed(i)[d])
         /\ \A d \in Doc : Kept(d, tags[d]) =>
              Carries(d, Swept(i)[d]) /\ Carries(d, Listed(i)[d])
<1>1. \A d \in Doc : Carries(d, NoJob) /\ Carries(d, [NoJob EXCEPT !.step = "queued"])
  BY NoJobFields, QueuedFields DEF Carries
<1>2. Swept(i) \in [Doc -> Job]
  BY NoJobFields, FoundCarries DEF Swept
<1>3. Listed(i) \in [Doc -> Job]
  BY NoJobFields, QueuedFields, FoundCarries DEF Listed
<1>4. \A d \in Doc : Allows(i, "recover", Swept(i)[d])
  BY NoJobFields, FoundCarries DEF Swept, Allows
<1>5. \A d \in Doc : Allows(i, "list", Listed(i)[d])
  BY NoJobFields, QueuedFields, FoundCarries DEF Listed, Allows
<1>6. \A d \in Doc : Kept(d, tags[d]) => Carries(d, Swept(i)[d])
  BY <1>1, FoundCarries DEF Swept
<1>7. \A d \in Doc : Kept(d, tags[d]) => Carries(d, Listed(i)[d])
  BY <1>1, FoundCarries DEF Listed
<1> QED BY <1>2, <1>3, <1>4, <1>5, <1>6, <1>7

NoJobs == [d \in Doc |-> NoJob]

LEMMA LifeLives ==
  ASSUME TypeOK, Phased, NEW i \in Daemon,
         \/ Boot(i) \/ RecoverEnds(i) \/ Poll(i) \/ StartBatch(i) \/ EndBatch(i) \/ Exit(i)
         \/ Shutdown(i) \/ Crash(i)
  PROVE  \E p, f : Lives(i, p, f)
<1>1. /\ Life /\ Counted /\ stops' \in 0 .. MaxStops /\ stopping' \in [Daemon -> BOOLEAN]
  <2>1. Life /\ Counted
    BY DEF Boot, RecoverEnds, Poll, StartBatch, EndBatch, Exit, Shutdown, Crash, Counted, Fine
  <2>2. stops \in 0 .. MaxStops /\ stopping \in [Daemon -> BOOLEAN] /\ MaxStops \in Nat
    BY BudgetsAreNatural DEF TypeOK
  <2>3. stops' \in 0 .. MaxStops
    <3>1. stops' = stops \/ (stops < MaxStops /\ stops' = stops + 1)
      BY DEF Boot, RecoverEnds, Poll, StartBatch, EndBatch, Exit, Shutdown, Crash
    <3> QED BY <2>2, <3>1
  <2>4. stopping' \in [Daemon -> BOOLEAN]
    BY <2>2 DEF Boot, RecoverEnds, Poll, StartBatch, EndBatch, Exit, Shutdown, Crash
  <2> QED BY <2>1, <2>3, <2>4
<1>2. ASSUME NEW p \in {"down", "recover", "poll", "list", "batch"}, phase' = [phase EXCEPT ![i] = p],
             UNCHANGED job, \A d \in Doc : Allows(i, p, job[i][d])
      PROVE  \E q, f : Lives(i, q, f)
  <2>1. Lives(i, p, job[i])
    BY <1>1, <1>2, StaysAllowed DEF Lives
  <2> QED BY <2>1
<1>3. ASSUME NEW p \in {"poll", "down"}, phase' = [phase EXCEPT ![i] = p],
             job' = [job EXCEPT ![i] = NoJobs]
      PROVE  \E q, f : Lives(i, q, f)
  <2>1. NoJobs \in [Doc -> Job] /\ \A d \in Doc : NoJobs[d] = NoJob
    BY NoJobFields DEF NoJobs
  <2>2. \A d \in Doc : Allows(i, p, NoJob) /\ Carries(d, NoJob)
    BY NoJobFields DEF Allows, Carries
  <2>3. Lives(i, p, NoJobs)
    BY <1>1, <1>3, <2>1, <2>2 DEF Lives
  <2> QED BY <2>3
<1>4. CASE Boot(i)
  <2>1. /\ phase' = [phase EXCEPT ![i] = "recover"] /\ phase[i] = "down"
        /\ job' = [job EXCEPT ![i] = Swept(i)] \/ UNCHANGED job
    BY <1>4 DEF Boot, Swept, Stale
  <2>2. CASE job' = [job EXCEPT ![i] = Swept(i)]
    <3>1. Lives(i, "recover", Swept(i))
      BY <1>1, <2>1, <2>2, SweptType DEF Lives
    <3> QED BY <3>1
  <2>3. CASE UNCHANGED job
    BY <1>2, <2>1, <2>3, StaysAllowed DEF Allows
  <2> QED BY <2>1, <2>2, <2>3
<1>5. CASE RecoverEnds(i)
  BY <1>2, <1>5, StaysAllowed DEF RecoverEnds, Allows, At
<1>6. CASE Poll(i)
  <2>1. phase' = [phase EXCEPT ![i] = "list"] /\ job' = [job EXCEPT ![i] = Listed(i)]
    BY <1>6 DEF Poll, Listed
  <2>2. Lives(i, "list", Listed(i))
    BY <1>1, <2>1, SweptType DEF Lives
  <2> QED BY <2>2
<1>7. CASE StartBatch(i)
  BY <1>2, <1>7, StaysAllowed DEF StartBatch, Allows, At
<1>8. CASE EndBatch(i)
  BY <1>3, <1>8 DEF EndBatch, NoJobs
<1>9. CASE Exit(i)
  BY <1>2, <1>9, StaysAllowed DEF Exit, Allows
<1>10. CASE Shutdown(i)
  <2>1. phase' = [phase EXCEPT ![i] = phase[i]] /\ UNCHANGED job
    BY <1>10 DEF Shutdown, TypeOK
  <2> QED BY <1>2, <2>1, StaysAllowed
<1>11. CASE Crash(i)
  BY <1>3, <1>11 DEF Crash, NoJobs
<1> QED BY <1>4, <1>5, <1>6, <1>7, <1>8, <1>9, <1>10, <1>11

-----------------------------------------------------------------------------
(* The users, and every step                                               *)

LEMMA EditsTyped ==
  ASSUME TypeOK, NEW d \in Doc, Edit(d)
  PROVE  /\ TypeOK' /\ (Phased => Phased')
         /\ ~InHand(d) /\ UserPart => UserPart'
<1>1. PICK t \in UserTag : AddTag(d, t) \/ RemoveTag(d, t)
  BY DEF Edit
<1>2. /\ edits < MaxEdits /\ edits' = edits + 1
      /\ UNCHANGED <<content, pageless, phase, stopping, job, swap, spent, open>>
      /\ UNCHANGED <<queued, picks, faults, rejects, stops>>
  BY <1>1 DEF AddTag, RemoveTag, Edits, daemons
<1>3. t \in Tag /\ MaxEdits \in Nat /\ edits \in 0 .. MaxEdits
      /\ tags \in [Doc -> SUBSET Tag] /\ wanted \in [Doc -> SUBSET UserTag]
      /\ suggested \in [Doc -> SUBSET Tag] /\ wanted[d] \in SUBSET UserTag
  BY BudgetsAreNatural DEF Tag, TypeOK
<1>4. edits' \in 0 .. MaxEdits
  BY <1>2, <1>3
<1>5. /\ tags' \in [Doc -> SUBSET Tag] /\ wanted' \in [Doc -> SUBSET UserTag]
      /\ suggested' \in [Doc -> SUBSET Tag]
      /\ \A e \in Doc \ {d} : tags'[e] = tags[e] /\ wanted'[e] = wanted[e] /\ suggested'[e] = suggested[e]
      /\ Kept(d, tags[d]) => Kept(d, tags[d])'
  <2>1. CASE AddTag(d, t)
    BY <1>3, <2>1 DEF AddTag, Kept
  <2>2. CASE RemoveTag(d, t)
    BY <1>3, <2>2 DEF RemoveTag, Kept
  <2> QED BY <1>1, <2>1, <2>2
<1>6. TypeOK' /\ (Phased => Phased')
  BY <1>2, <1>4, <1>5 DEF TypeOK, Phased, At
<1>7. ASSUME ~InHand(d), UserPart PROVE UserPart'
  <2> SUFFICES ASSUME NEW e \in Doc
               PROVE  /\ Kept(e, tags[e])'
                      /\ (swap[e] # {} => Kept(e, swap[e]))'
                      /\ \A i \in Daemon : Carries(e, job[i][e])'
    BY DEF UserPart
  <2>1. CASE e # d
    BY <1>2, <1>5, <1>7, <2>1 DEF UserPart, Carries, Kept
  <2>2. CASE e = d
    BY <1>2, <1>5, <1>7, <2>2 DEF UserPart, Carries, InHand
  <2> QED BY <2>1, <2>2
<1> QED BY <1>6, <1>7

LEMMA Requests ==
  ASSUME NEW set \in SUBSET Tag
  PROVE  /\ Reclassified(set) \in SUBSET Tag /\ Retranscribed(set) \in SUBSET Tag
         /\ Reclassified(set) \cap UserTag = set \cap UserTag
         /\ Retranscribed(set) \cap UserTag = set \cap UserTag
         /\ (set \ {Error}) \cup {Pre} \in SUBSET Tag
         /\ ((set \ {Error}) \cup {Pre}) \cap UserTag = set \cap UserTag
<1>1. /\ Pre \in Tag /\ ClassifyPre \in Tag
      /\ {Pre, ClassifyPre, Post, ClassifyPost, Error} \cap UserTag = {}
  BY UserTagsAreOther, RequiredTagsAreSet DEF PipelineTags, Tag
<1> QED BY <1>1 DEF Reclassified, Retranscribed

LEMMA RequestsTyped ==
  ASSUME TypeOK, NEW d \in Doc, Enqueue(d) \/ Requeue(d) \/ RequeueWrite(d)
  PROVE  TypeOK' /\ (Phased => Phased') /\ (UserPart => UserPart')
<1>1. /\ UNCHANGED <<content, pageless, phase, stopping, job, wanted, suggested, spent, edits, picks, faults, rejects, stops>>
      /\ queued' = queued \/ (queued < MaxQueued /\ queued' = queued + 1)
      /\ open' \subseteq open \cup {d}
  BY DEF Enqueue, Requeue, RequeueWrite, Queues, daemons, budgets
<1>2. /\ MaxQueued \in Nat /\ queued \in 0 .. MaxQueued /\ open \subseteq Doc
      /\ tags \in [Doc -> SUBSET Tag] /\ swap \in [Doc -> SUBSET Tag]
  BY BudgetsAreNatural DEF TypeOK
<1>3. queued' \in 0 .. MaxQueued /\ open' \subseteq Doc
  BY <1>1, <1>2
<1>4. /\ tags' \in [Doc -> SUBSET Tag] /\ swap' \in [Doc -> SUBSET Tag]
      /\ \A e \in Doc \ {d} : tags'[e] = tags[e] /\ swap'[e] = swap[e]
      /\ Kept(d, tags[d]) /\ (swap[d] # {} => Kept(d, swap[d])) =>
           /\ Kept(d, tags'[d])
           /\ swap'[d] # {} => Kept(d, swap'[d])
  <2>1. CASE Enqueue(d)
    <3>1. tags' = [tags EXCEPT ![d] = (tags[d] \ {Error}) \cup {Pre}] /\ UNCHANGED swap
      BY <1>2, <2>1 DEF Enqueue
    <3> DEFINE W == (tags[d] \ {Error}) \cup {Pre}
    <3>2. W \in SUBSET Tag /\ W \cap UserTag = tags[d] \cap UserTag
      BY <1>2, Requests
    <3> HIDE DEF W
    <3>3. tags' = [tags EXCEPT ![d] = W]
      BY <3>1 DEF W
    <3> QED BY <1>2, <3>1, <3>2, <3>3, KeptAlike
  <2>2. CASE Requeue(d)
    <3>1. PICK W \in {Reclassified(tags[d]), Retranscribed(tags[d])} :
            swap' = [swap EXCEPT ![d] = W] /\ UNCHANGED tags
      BY <2>2 DEF Requeue
    <3>2. W \in SUBSET Tag /\ W \cap UserTag = tags[d] \cap UserTag
      BY <1>2, <3>1, Requests
    <3> QED BY <1>2, <3>1, <3>2, KeptAlike
  <2>3. CASE RequeueWrite(d)
    <3>1. swap[d] # {} /\ tags' = [tags EXCEPT ![d] = swap[d]] /\ swap' = [swap EXCEPT ![d] = {}]
      BY <2>3 DEF RequeueWrite
    <3> QED BY <1>2, <3>1
  <2> QED BY <2>1, <2>2, <2>3
<1>5. TypeOK' /\ (Phased => Phased')
  BY <1>1, <1>3, <1>4 DEF TypeOK, Phased, At
<1>6. ASSUME UserPart PROVE UserPart'
  <2> SUFFICES ASSUME NEW e \in Doc
               PROVE  /\ Kept(e, tags'[e])
                      /\ swap'[e] # {} => Kept(e, swap'[e])
                      /\ \A i \in Daemon : Carries(e, job[i][e])
    BY <1>1 DEF UserPart, Carries, Kept
  <2>1. CASE e # d
    BY <1>4, <1>6, <2>1 DEF UserPart
  <2>2. CASE e = d
    BY <1>4, <1>6, <2>2 DEF UserPart
  <2> QED BY <2>1, <2>2
<1> QED BY <1>5, <1>6

LEMMA DaemonTyped ==
  ASSUME TypeOK, Phased, NEW i \in Daemon, DaemonStep(i) \/ Halt(i)
  PROVE  TypeOK' /\ Phased' /\ (UserPart => UserPart')
<1>1. CASE \E d \in Doc : JobStep(i, d)
  <2>1. PICK d \in Doc : JobStep(i, d)
    BY <1>1
  <2>2. PICK j, W, b : Move(i, d, j, W, b)
    BY <2>1, JobStepMoves
  <2> QED BY <2>2, MoveTyped, MoveCarries
<1>2. CASE \/ Boot(i) \/ RecoverEnds(i) \/ Poll(i) \/ StartBatch(i) \/ EndBatch(i) \/ Exit(i)
           \/ Shutdown(i) \/ Crash(i)
  <2>1. PICK p, f : Lives(i, p, f)
    BY <1>2, LifeLives
  <2> QED BY <2>1, LivesTyped
<1> QED BY <1>1, <1>2 DEF DaemonStep, Halt

LEMMA NextTyped ==
  ASSUME TypeOK, Phased, [Next]_vars
  PROVE  TypeOK' /\ Phased'
<1>1. CASE UNCHANGED vars
  BY <1>1 DEF vars, archive, daemons, ghosts, budgets, TypeOK, Phased, At
<1>2. CASE \E d \in Doc : Edit(d) \/ Enqueue(d) \/ Requeue(d) \/ RequeueWrite(d)
  BY <1>2, EditsTyped, RequestsTyped
<1>3. CASE \E i \in Daemon : DaemonStep(i) \/ Halt(i)
  BY <1>3, DaemonTyped
<1> QED BY <1>1, <1>2, <1>3 DEF Next

LEMMA CalmIsNext ==
  [CalmNext]_vars => [Next]_vars
BY DEF CalmNext, CalmUser, Next

LEMMA CalmCarries ==
  ASSUME TypeOK, Phased, UserPart, [CalmNext]_vars
  PROVE  UserPart'
<1>1. CASE UNCHANGED vars
  BY <1>1 DEF vars, archive, daemons, ghosts, UserPart, Carries, Kept
<1>2. CASE \E d \in Doc : CalmUser(d)
  BY <1>2, EditsTyped, RequestsTyped DEF CalmUser
<1>3. CASE \E i \in Daemon : DaemonStep(i) \/ Halt(i)
  BY <1>3, DaemonTyped
<1> QED BY <1>1, <1>2, <1>3 DEF CalmNext

LEMMA InitTyped ==
  Init => TypeOK /\ Phased /\ UserPart
<1> SUFFICES ASSUME Init PROVE TypeOK /\ Phased /\ UserPart
  OBVIOUS
<1>1. PICK queue \in [Doc -> {{}, {Pre}, {ClassifyPre}}] :
        tags = [d \in Doc |-> queue[d] \cup wanted[d]]
  BY DEF Init
<1>2. /\ wanted \in [Doc -> SUBSET UserTag] /\ Pre \in Tag /\ ClassifyPre \in Tag /\ UserTag \subseteq Tag
      /\ Pre \notin UserTag /\ ClassifyPre \notin UserTag
  BY UserTagsAreOther, RequiredTagsAreSet DEF Init, PipelineTags, Tag
<1>3. \A d \in Doc : tags[d] \in SUBSET Tag /\ Kept(d, tags[d])
  <2> SUFFICES ASSUME NEW d \in Doc PROVE tags[d] \in SUBSET Tag /\ Kept(d, tags[d])
    OBVIOUS
  <2>1. tags[d] = queue[d] \cup wanted[d] /\ queue[d] \in {{}, {Pre}, {ClassifyPre}}
    BY <1>1
  <2>2. wanted[d] \in SUBSET UserTag
    BY <1>2
  <2> QED BY <1>2, <2>1, <2>2 DEF Kept
<1>4. tags \in [Doc -> SUBSET Tag]
  BY <1>1, <1>3
<1>5. NoJob \in Job /\ NoJob.step = "idle" /\ \A i \in Daemon, d \in Doc : job[i][d] = NoJob
  BY NoJobFields DEF Init
<1>6. job \in [Daemon -> [Doc -> Job]]
  BY <1>5 DEF Init
<1>7. /\ 0 \in 0 .. MaxEdits /\ 0 \in 0 .. MaxQueued /\ 0 \in 0 .. MaxPicks /\ 0 \in 0 .. MaxFaults
      /\ 0 \in 0 .. MaxRejects /\ 0 \in 0 .. MaxStops
  BY BudgetsAreNatural
<1>8. spent \in [Doc -> [{"ocr", "classify"} -> Nat]]
  BY DEF Init
<1>9. TypeOK
  BY <1>4, <1>6, <1>7, <1>8 DEF TypeOK, Init
<1>10. Phased
  BY <1>5 DEF Phased, At, Init
<1>11. UserPart
  BY <1>3, <1>5 DEF UserPart, Carries, Init
<1> QED BY <1>9, <1>10, <1>11

\* Every variable keeps its type, with any users, replicas and failures.
THEOREM TypeCorrect == Spec => []TypeOK
<1>1. Init => TypeOK /\ Phased
  BY InitTyped
<1>2. (TypeOK /\ Phased) /\ [Next]_vars => (TypeOK /\ Phased)'
  BY NextTyped
<1> QED BY <1>1, <1>2, PTL DEF Spec

\* The writes of the daemons and of the requeue routes replace the whole tag set
\* of a document (clean_pipeline_tags, _swap_pipeline_tag), from a read of their
\* own or from the tags a job saw first.  With any number of replicas, requests
\* that are lost or refused, and crashes between any two of them, the tags the
\* users set are the tags that stay, as long as nobody edits a document in hand.
THEOREM UserTagsKept == CalmSpec => []UserTagsAreKept
<1>1. Init => TypeOK /\ Phased /\ UserPart
  BY InitTyped
<1>2. (TypeOK /\ Phased /\ UserPart) /\ [CalmNext]_vars => (TypeOK /\ Phased /\ UserPart)'
  BY NextTyped, CalmIsNext, CalmCarries
<1>3. UserPart => UserTagsAreKept
  BY DEF UserPart, UserTagsAreKept
<1> QED BY <1>1, <1>2, <1>3, PTL DEF CalmSpec

-----------------------------------------------------------------------------
(* One daemon of each kind and no request lost: nobody works on another's   *)
(* document                                                                 *)

\* The documents the model has not misled by the end of a step.
Followed == {e \in Doc : ~Misled(e)'}

LEMMA FollowedBefore ==
  ASSUME NEW e \in Followed, Grown
  PROVE  e \in Doc /\ ~Misled(e)
BY DEF Followed, Grown, Misled, Misleads

\* Without a request that fails or is refused.
Served == Fine /\ ~Fails /\ ~Refused

LEMMA Roles ==
  ASSUME Deployment, NEW i \in Daemon
  PROVE  /\ QueueTag(i) \in {Pre, ClassifyPre} /\ DoneTag(i) # QueueTag(i)
         /\ Lock(i) \notin {Pre, Post, ClassifyPre, Error}
         /\ Lock(i) = DoneTag(i) => Lock(i) = NoTag
         /\ \A k \in Daemon : k # i =>
              /\ {QueueTag(i), QueueTag(k)} = {Pre, ClassifyPre}
              /\ {Lock(i), Lock(k)} = {OcrLock, ClassifyLock}
<1>1. i \in OcrDaemon \/ (i \in Classifier /\ i \notin OcrDaemon)
  BY DaemonsAreDistinct DEF Daemon
<1>2. Lock(i) = NoTag \/ Lock(i) \in Locks
  BY DEF Lock, Locks
<1>3. Lock(i) \notin {Pre, Post, ClassifyPre, Error}
  BY <1>2, RequiredTagsAreSet DEF Deployment
<1>4. Lock(i) = DoneTag(i) => Lock(i) = NoTag
  BY <1>2 DEF Deployment, DoneTag
<1>5. QueueTag(i) \in {Pre, ClassifyPre} /\ DoneTag(i) # QueueTag(i)
  BY DEF Deployment, QueueTag, DoneTag
<1>6. ASSUME NEW k \in Daemon, k # i
      PROVE  /\ {QueueTag(i), QueueTag(k)} = {Pre, ClassifyPre}
             /\ {Lock(i), Lock(k)} = {OcrLock, ClassifyLock}
  <2>1. i \in OcrDaemon <=> k \notin OcrDaemon
    BY <1>6, DaemonsAreDistinct DEF Deployment, Daemon
  <2> QED BY <2>1 DEF QueueTag, Lock
<1> QED BY <1>3, <1>4, <1>5, <1>6

LEMMA NoSuchTag ==
  ASSUME TypeOK, NEW d \in Doc
  PROVE  NoTag \notin tags[d]
BY Kinds, RequiredTagsAreSet DEF TypeOK, Tag, PipelineTags

\* A document whose queue is daemon i's is nobody else's.
LEMMA Exclusive ==
  ASSUME TypeOK, Deployment, NEW d \in Doc, Good(d), NEW i \in Daemon, QueueTag(i) \in tags[d]
  PROVE  /\ tags[d] \cap {Pre, ClassifyPre} = {QueueTag(i)} /\ tags[d] \cap Locks \subseteq {Lock(i)}
         /\ d \in open /\ swap[d] = {}
         /\ \A k \in Daemon : k # i => /\ job[k][d].step \in {"idle", "release", "done"}
                                       /\ Lock(k) \notin tags[d]
<1>1. /\ Places(tags[d], d \in open, swap[d]) /\ NoTag \notin tags[d]
      /\ \A k \in Daemon : Fits(k, job[k][d], tags[d])
  BY NoSuchTag DEF Good
<1>2. QueueTag(i) \in {Pre, ClassifyPre} /\ Pre # ClassifyPre
  BY Roles DEF Deployment
<1>3. /\ tags[d] \cap {Pre, ClassifyPre} = {QueueTag(i)} /\ d \in open /\ swap[d] = {}
  BY <1>1, <1>2 DEF Places
<1>4. ASSUME NEW t \in tags[d] \cap Locks PROVE t = Lock(i)
  <2>1. CASE i \in OcrDaemon
    <3>1. ClassifyPre \notin tags[d]
      BY <1>2, <1>3, <2>1 DEF QueueTag
    <3> QED BY <1>1, <1>4, <2>1, <3>1 DEF Places, Lock, Locks
  <2>2. CASE i \notin OcrDaemon
    <3>1. Pre \notin tags[d]
      BY <1>2, <1>3, <2>2 DEF QueueTag
    <3> QED BY <1>1, <1>4, <2>2, <3>1 DEF Places, Lock, Locks
  <2> QED BY <2>1, <2>2
<1>5. ASSUME NEW k \in Daemon, k # i
      PROVE  job[k][d].step \in {"idle", "release", "done"} /\ Lock(k) \notin tags[d]
  <2>1. QueueTag(k) \notin tags[d]
    BY <1>2, <1>3, <1>5, Roles
  <2>2. Lock(k) \notin tags[d]
    <3>1. i \in OcrDaemon <=> k \notin OcrDaemon
      BY <1>5, DaemonsAreDistinct DEF Deployment, Daemon
    <3>2. Lock(k) \in tags[d] => QueueTag(k) \in tags[d]
      BY <1>1 DEF Places, Lock, QueueTag
    <3> QED BY <2>1, <3>2
  <2>3. job[k][d].step \in Step
    BY JobFields
  <2>4. Fits(k, job[k][d], tags[d])
    BY <1>1
  <2>5. job[k][d].step \notin Working /\ job[k][d].step # "queued"
    BY <2>1, <2>4 DEF Fits, BusyWith
  <2> QED BY <2>2, <2>3, <2>5 DEF Step, Working
<1> QED BY <1>3, <1>4, <1>5

\* In no queue, a document is in no job that will write.
LEMMA AtRest ==
  ASSUME TypeOK, Deployment, NEW d \in Doc, Good(d), ~InQueue(d)
  PROVE  /\ tags[d] \cap Locks = {}
         /\ \A k \in Daemon : /\ job[k][d].step \in {"idle", "release", "done"}
                              /\ Lock(k) \notin tags[d]
<1>1. /\ Places(tags[d], d \in open, swap[d]) /\ NoTag \notin tags[d]
      /\ \A k \in Daemon : Fits(k, job[k][d], tags[d])
  BY NoSuchTag DEF Good
<1>2. Pre \notin tags[d] /\ ClassifyPre \notin tags[d]
  BY DEF InQueue
<1>3. OcrLock \notin tags[d] /\ ClassifyLock \notin tags[d]
  BY <1>1, <1>2 DEF Places
<1>4. ASSUME NEW k \in Daemon
      PROVE  job[k][d].step \in {"idle", "release", "done"} /\ Lock(k) \notin tags[d]
  <2>1. QueueTag(k) \notin tags[d] /\ Lock(k) \notin tags[d]
    BY <1>2, <1>3 DEF QueueTag, Lock
  <2>2. job[k][d].step \in Step
    BY JobFields
  <2>3. Fits(k, job[k][d], tags[d])
    BY <1>1
  <2>4. job[k][d].step \notin Working /\ job[k][d].step # "queued"
    BY <2>1, <2>3 DEF Fits, BusyWith
  <2> QED BY <2>1, <2>2, <2>4 DEF Step, Working
<1> QED BY <1>3, <1>4 DEF Locks

LEMMA RestFits ==
  ASSUME NEW k, NEW j, j.step \in {"idle", "release", "done"}, NEW set, Lock(k) \notin set, NEW p
  PROVE  Fits(k, j, set) /\ Owns(k, p, j, set)
BY DEF Fits, BusyWith, Owns, Working

\* A step of one job that leaves the tags alone: it was served, or it counts as
\* a refusal.
LEMMA QuietMove ==
  ASSUME TypeOK, \A e \in Followed : Good(e), NEW i \in Daemon, NEW d \in Doc, d \in Followed,
         NEW j \in Job, Set(i, d, j),
         UNCHANGED <<tags, open, swap, phase>>, Fits(i, j, tags[d]),
         rejects' # 0 \/ (Served /\ Owns(i, phase[i], j, tags[d]))
  PROVE  \A e \in Followed : Good(e)'
<1> SUFFICES ASSUME NEW e \in Doc, e \in Followed PROVE Good(e)'
  BY DEF Followed
<1>1. /\ job'[i][d] = j
      /\ \A k \in Daemon, f \in Doc : k # i \/ f # d => job'[k][f] = job[k][f]
  BY SetJob
<1>2. /\ Places(tags[e], e \in open, swap[e]) /\ \A k \in Daemon : Fits(k, job[k][e], tags[e])
      /\ rejects = 0 => /\ Marked(tags[e], e \in open)
                        /\ \A k \in Daemon : Owns(k, phase[k], job[k][e], tags[e])
  BY DEF Good
<1>3. \A k \in Daemon : Fits(k, job'[k][e], tags[e])
  BY <1>1, <1>2
<1>4. rejects' = 0 => /\ Marked(tags[e], e \in open)
                     /\ \A k \in Daemon : Owns(k, phase[k], job'[k][e], tags[e])
  BY <1>1, <1>2 DEF Served, Fine
<1> QED BY <1>2, <1>3, <1>4 DEF Good

\* Another document than the one that is written.
LEMMA Untouched ==
  ASSUME NEW e \in Doc, Good(e), tags'[e] = tags[e], swap'[e] = swap[e], e \in open' <=> e \in open,
         \A k \in Daemon : job'[k][e] = job[k][e], UNCHANGED phase, rejects' = 0 => rejects = 0
  PROVE  Good(e)'
<1>1. /\ Places(tags[e], e \in open, swap[e]) /\ \A k \in Daemon : Fits(k, job[k][e], tags[e])
      /\ rejects = 0 => /\ Marked(tags[e], e \in open)
                        /\ \A k \in Daemon : Owns(k, phase[k], job[k][e], tags[e])
  BY DEF Good
<1>2. Places(tags'[e], e \in open', swap'[e])
  BY <1>1 DEF Places
<1>3. rejects' = 0 => Marked(tags'[e], e \in open')
  BY <1>1 DEF Marked
<1> QED BY <1>1, <1>2, <1>3 DEF Good

\* A step of one job that writes the tags of its document.
LEMMA WriteMove ==
  ASSUME TypeOK, Deployment, \A e \in Followed : Good(e), NEW i \in Daemon, NEW d \in Doc,
         d \in Followed,
         QueueTag(i) \in tags[d], NEW j \in Job, Set(i, d, j), Served,
         NEW W \in SUBSET Tag, tags' = [tags EXCEPT ![d] = W], UNCHANGED <<swap, phase>>,
         \A e \in Doc \ {d} : e \in open' <=> e \in open,
         Places(W, d \in open', {}), rejects = 0 => Marked(W, d \in open'),
         Fits(i, j, W), Owns(i, phase[i], j, W), W \cap Locks \subseteq {Lock(i)}
  PROVE  \A e \in Followed : Good(e)'
<1> SUFFICES ASSUME NEW e \in Doc, e \in Followed PROVE Good(e)'
  BY DEF Followed
<1>1. /\ job'[i][d] = j
      /\ \A k \in Daemon, f \in Doc : k # i \/ f # d => job'[k][f] = job[k][f]
  BY SetJob
<1>2. tags'[d] = W /\ \A f \in Doc \ {d} : tags'[f] = tags[f]
  BY DEF TypeOK
<1>3. CASE e # d
  <2>1. tags'[e] = tags[e] /\ (e \in open' <=> e \in open)
    BY <1>2, <1>3
  <2>2. \A k \in Daemon : job'[k][e] = job[k][e]
    BY <1>1, <1>3
  <2> QED BY <2>1, <2>2, Untouched DEF Served, Fine
<1>4. CASE e = d
  <2>1. swap[d] = {} /\ \A k \in Daemon : k # i => job[k][d].step \in {"idle", "release", "done"}
    BY Exclusive
  <2>2. ASSUME NEW k \in Daemon, k # i PROVE Lock(k) \notin W
    <3>1. Lock(k) \in Locks \/ Lock(k) = NoTag
      BY DEF Lock, Locks
    <3>2. Lock(k) = Lock(i) => Lock(k) = NoTag
      BY <2>2, Roles DEF Deployment
    <3>3. NoTag \notin W
      BY RequiredTagsAreSet DEF Tag, PipelineTags
    <3> QED BY <3>1, <3>2, <3>3
  <2>3. \A k \in Daemon : k # i => Fits(k, job'[k][d], W) /\ Owns(k, phase[k], job'[k][d], W)
    BY <1>1, <2>1, <2>2, RestFits
  <2>4. \A k \in Daemon : Fits(k, job'[k][d], W) /\ Owns(k, phase[k], job'[k][d], W)
    BY <1>1, <2>3
  <2> QED BY <1>2, <1>4, <2>1, <2>4 DEF Good, Served, Fine
<1> QED BY <1>3, <1>4

\* A user or a route that writes the tags of a document at rest, or its request.
LEMMA RestWrite ==
  ASSUME TypeOK, Deployment, \A e \in Followed : Good(e), NEW d \in Doc, d \in Followed,
         ~InQueue(d),
         NEW W, tags' = [tags EXCEPT ![d] = W], W \cap Locks = {}, NoTag \notin W,
         NEW S, swap' = [swap EXCEPT ![d] = S], UNCHANGED <<job, phase, rejects>>,
         \A e \in Doc \ {d} : e \in open' <=> e \in open, Places(W, d \in open', S),
         rejects = 0 => Marked(W, d \in open')
  PROVE  \A e \in Followed : Good(e)'
<1> SUFFICES ASSUME NEW e \in Doc, e \in Followed PROVE Good(e)'
  BY DEF Followed
<1>1. /\ tags'[d] = W /\ \A f \in Doc \ {d} : tags'[f] = tags[f]
      /\ swap'[d] = S /\ \A f \in Doc \ {d} : swap'[f] = swap[f]
  BY DEF TypeOK
<1>2. CASE e # d
  <2>1. tags'[e] = tags[e] /\ swap'[e] = swap[e] /\ (e \in open' <=> e \in open)
    BY <1>1, <1>2
  <2> QED BY <2>1, Untouched
<1>3. CASE e = d
  <2>1. \A k \in Daemon : job[k][d].step \in {"idle", "release", "done"} /\ Lock(k) \notin W
    <3>1. \A k \in Daemon : Lock(k) \in Locks \/ Lock(k) = NoTag
      BY DEF Lock, Locks
    <3> QED BY <3>1, AtRest
  <2>2. \A k \in Daemon : Fits(k, job[k][d], W) /\ Owns(k, phase[k], job[k][d], W)
    BY <2>1, RestFits
  <2> QED BY <1>1, <1>3, <2>2 DEF Good
<1> QED BY <1>2, <1>3

\* A step of a daemon that changes its phase or its list of jobs.
LEMMA LifeMove ==
  ASSUME TypeOK, \A e \in Followed : Good(e), NEW i \in Daemon, NEW p, NEW f \in [Doc -> Job],
         job' = [job EXCEPT ![i] = f], phase' = [phase EXCEPT ![i] = p],
         UNCHANGED <<tags, open, swap, rejects>>,
         \A d \in Doc \cap Followed : Fits(i, f[d], tags[d]) /\ (rejects = 0 => Owns(i, p, f[d], tags[d]))
  PROVE  \A e \in Followed : Good(e)'
<1> SUFFICES ASSUME NEW e \in Doc, e \in Followed PROVE Good(e)'
  BY DEF Followed
<1>1. /\ job'[i] = f /\ phase'[i] = p
      /\ \A k \in Daemon : k # i => job'[k] = job[k] /\ phase'[k] = phase[k]
  BY DEF TypeOK
<1>2. ASSUME NEW k \in Daemon
      PROVE  /\ Fits(k, job'[k][e], tags[e])
             /\ rejects = 0 => Owns(k, phase'[k], job'[k][e], tags[e])
  BY <1>1 DEF Good
<1> QED BY <1>2 DEF Good

\* The tags that a write leaves on a document which stays in the queue of daemon i.
LEMMA StillQueued ==
  ASSUME TypeOK, Deployment, NEW d \in Doc, Good(d), NEW i \in Daemon, QueueTag(i) \in tags[d],
         NEW W, W \cup {Lock(i)} = tags[d] \cup {Lock(i)}, W \in SUBSET Tag, UNCHANGED open
  PROVE  /\ Places(W, d \in open', {}) /\ QueueTag(i) \in W /\ Marked(W, d \in open')
         /\ W \cap Locks \subseteq {Lock(i)}
<1>1. /\ tags[d] \cap {Pre, ClassifyPre} = {QueueTag(i)} /\ tags[d] \cap Locks \subseteq {Lock(i)}
      /\ d \in open'
  BY Exclusive
<1>2. Lock(i) \notin {Pre, ClassifyPre} /\ NoTag \notin W /\ Pre # ClassifyPre /\ i \in Daemon
  BY Roles, Kinds DEF Deployment
<1>3. W \cap {Pre, ClassifyPre} = {QueueTag(i)} /\ W \cap Locks \subseteq {Lock(i)}
  BY <1>1, <1>2
<1>4. QueueTag(i) \in PipelineTags
  BY Kinds
<1>5. Places(tags[d], d \in open, swap[d])
  BY DEF Good
<1>6. CASE i \in OcrDaemon
  <2>1. Lock(i) = OcrLock /\ QueueTag(i) = Pre
    BY <1>6 DEF Lock, QueueTag
  <2>2. ClassifyLock \notin W
    BY <1>2, <1>3, <2>1 DEF Deployment, Locks
  <2> QED BY <1>1, <1>2, <1>3, <1>4, <1>6, <2>1, <2>2 DEF Places, Marked
<1>7. CASE i \notin OcrDaemon
  <2>1. Lock(i) = ClassifyLock /\ QueueTag(i) = ClassifyPre /\ i \in Classifier
    BY <1>7 DEF Lock, QueueTag, Daemon
  <2>2. OcrLock \notin W
    BY <1>2, <1>3, <2>1 DEF Deployment, Locks
  <2> QED BY <1>1, <1>2, <1>3, <1>4, <2>1, <2>2 DEF Places, Marked
<1> QED BY <1>6, <1>7

\* The tags a write-back leaves: none of the pipeline but t.
LEMMA Cleaned ==
  ASSUME Deployment, NEW B \in SUBSET Tag,
         NEW t \in {Pre, Post, ClassifyPre, ClassifyPost, Error, NoTag}, NEW d \in Doc,
         t \in {Pre, ClassifyPre} => d \in open'
  PROVE  LET W == With(Clean(B), t) IN
         /\ W \in SUBSET Tag /\ Places(W, d \in open', {}) /\ W \cap Locks = {} /\ NoTag \notin W
         /\ (d \in open' => t # NoTag) => Marked(W, d \in open')
<1> DEFINE W == With(Clean(B), t)
<1>1. t \in PipelineTags \cup {NoTag} /\ NoTag \notin Tag
  BY RequiredTagsAreSet DEF PipelineTags, Tag
<1>2. W \in SUBSET Tag
  BY <1>1, Apart
<1>3. W \cap PipelineTags = {t} \ {NoTag}
  BY <1>1 DEF With, Clean
<1>4. /\ {Pre, ClassifyPre} \subseteq PipelineTags /\ Locks \subseteq PipelineTags
      /\ t \notin Locks /\ Pre # ClassifyPre
  BY RequiredTagsAreSet DEF PipelineTags, Locks, Deployment
<1> HIDE DEF W
<1>5. W \cap Locks = {} /\ NoTag \notin W
  BY <1>1, <1>2, <1>3, <1>4
<1>6. OcrLock \notin W /\ ClassifyLock \notin W
  BY <1>5 DEF Locks
<1>7. W \cap {Pre, ClassifyPre} # {} => t \in {Pre, ClassifyPre} /\ W \cap {Pre, ClassifyPre} = {t}
  BY <1>3, <1>4
<1>8. Places(W, d \in open', {})
  BY <1>3, <1>4, <1>6, <1>7 DEF Places
<1>9. (d \in open' => t # NoTag) => Marked(W, d \in open')
  BY <1>1, <1>3 DEF Marked
<1>10. /\ W \in SUBSET Tag /\ Places(W, d \in open', {}) /\ W \cap Locks = {} /\ NoTag \notin W
       /\ (d \in open' => t # NoTag) => Marked(W, d \in open')
  BY <1>2, <1>5, <1>8, <1>9
<1> QED BY <1>10 DEF W

LEMMA RecoverGood ==
  ASSUME TypeOK, Deployment, \A e \in Followed : Good(e), NEW i \in Daemon, NEW d \in Doc,
         d \in Followed, Served,
         RecoverLock(i, d)
  PROVE  \A e \in Followed : Good(e)'
<1> DEFINE W == (tags[d] \ {Lock(i)}) \cup {QueueTag(i)}
<1>1. Fits(i, job[i][d], tags[d]) /\ job[i][d].step = "recover"
  BY DEF Good, RecoverLock, At
<1>2. QueueTag(i) \in tags[d] /\ job[i][d].seen = tags[d]
  BY <1>1 DEF Fits, BusyWith, Working
<1>3. /\ Set(i, d, NoJob) /\ tags' = [tags EXCEPT ![d] = W]
      /\ UNCHANGED <<swap, phase, open>>
  BY <1>2 DEF RecoverLock, PatchFails, Served, Patch, Others, NoCall
<1>4. /\ tags[d] \in SUBSET Tag /\ QueueTag(i) \in Tag /\ Lock(i) # QueueTag(i)
      /\ NoJob \in Job /\ NoJob.step = "idle"
  BY JobFields, Kinds, Roles, NoJobFields
<1>5. W \cup {Lock(i)} = tags[d] \cup {Lock(i)} /\ W \in SUBSET Tag /\ Lock(i) \notin W
  BY <1>2, <1>4
<1> HIDE DEF W
<1>6. Places(W, d \in open', {}) /\ Marked(W, d \in open') /\ W \cap Locks \subseteq {Lock(i)}
  BY <1>2, <1>3, <1>5, StillQueued
<1>7. Fits(i, NoJob, W) /\ Owns(i, phase[i], NoJob, W)
  BY <1>4, <1>5, RestFits
<1> QED BY <1>2, <1>3, <1>4, <1>5, <1>6, <1>7, WriteMove

LEMMA StripGood ==
  ASSUME TypeOK, Deployment, \A e \in Followed : Good(e), NEW i \in Daemon, NEW d \in Doc,
         d \in Followed, Served,
         StripQueueTag(i, d)
  PROVE  \A e \in Followed : Good(e)'
<1> DEFINE W == tags[d] \ {QueueTag(i), Lock(i)}
<1>1. Fits(i, job[i][d], tags[d]) /\ job[i][d].step = "strip"
  BY DEF Good, StripQueueTag, At
<1>2. QueueTag(i) \in tags[d] /\ job[i][d].seen = tags[d] /\ DoneTag(i) \in tags[d]
  BY <1>1 DEF Fits, BusyWith, Working
<1>3. /\ Set(i, d, NoJob) /\ tags' = [tags EXCEPT ![d] = W]
      /\ UNCHANGED <<swap, phase, open>>
  BY <1>2 DEF StripQueueTag, PatchFails, Served, Patch, Others, NoCall
<1>4. /\ tags[d] \in SUBSET Tag /\ NoTag \notin tags[d] /\ DoneTag(i) # QueueTag(i)
      /\ NoJob \in Job /\ NoJob.step = "idle" /\ DoneTag(i) \in PipelineTags \cup {NoTag}
  BY JobFields, NoSuchTag, Kinds, Roles, NoJobFields
<1>5. DoneTag(i) \in W /\ DoneTag(i) \in PipelineTags
  <2>1. DoneTag(i) # NoTag
    BY <1>2, <1>4
  <2>2. DoneTag(i) # Lock(i)
    BY <2>1, Roles
  <2> QED BY <1>2, <1>4, <2>1, <2>2
<1>6. tags[d] \cap {Pre, ClassifyPre} = {QueueTag(i)} /\ tags[d] \cap Locks \subseteq {Lock(i)}
  BY <1>2, Exclusive
<1>7. W \in SUBSET Tag /\ W \cap {Pre, ClassifyPre} = {} /\ W \cap Locks = {} /\ Lock(i) \notin W
  BY <1>4, <1>6
<1> HIDE DEF W
<1>8. Places(W, d \in open', {})
  <2>1. NoTag \notin W
    BY <1>7, RequiredTagsAreSet DEF Tag, PipelineTags
  <2>2. OcrLock \notin W /\ ClassifyLock \notin W
    BY <1>7, <2>1 DEF Locks
  <2> QED BY <1>5, <1>7, <2>2 DEF Places
<1>10. Marked(W, d \in open')
  BY <1>5 DEF Marked
<1>9. Fits(i, NoJob, W) /\ Owns(i, phase[i], NoJob, W)
  BY <1>4, <1>7, RestFits
<1> QED BY <1>2, <1>3, <1>4, <1>7, <1>8, <1>9, <1>10, WriteMove

\* A job that ends: where it goes, and that its lock has somebody to release it.
LEMMA LeaveTo ==
  ASSUME TypeOK, NEW i \in Daemon, NEW d \in Doc, Leave(i, d)
  PROVE  \E j \in Job : /\ Set(i, d, j) /\ j.step \in {"release", "done"}
                        /\ j.step = "done" => ~job[i][d].claimed \/ Lock(i) = NoTag
<1>1. ASSUME NEW s \in {"release", "done"}, Goto(i, d, s),
             s = "done" => ~job[i][d].claimed \/ Lock(i) = NoTag
      PROVE  \E j \in Job : /\ Set(i, d, j) /\ j.step \in {"release", "done"}
                            /\ j.step = "done" => ~job[i][d].claimed \/ Lock(i) = NoTag
  <2> DEFINE q == [job[i][d] EXCEPT !.step = s]
  <2>1. job[i][d] \in Job /\ s \in Step
    BY JobFields DEF Step
  <2>2. q \in Job /\ q.step = s
    BY <2>1, StepSet
  <2>3. Set(i, d, q)
    BY <1>1 DEF Goto
  <2> HIDE DEF q
  <2> QED BY <1>1, <2>2, <2>3
<1> QED BY <1>1 DEF Leave

\* A job that ends without a write of its own.
LEMMA LeaveGood ==
  ASSUME TypeOK, \A e \in Followed : Good(e), NEW i \in Daemon, NEW d \in Doc, d \in Followed,
         Leave(i, d),
         UNCHANGED <<tags, open, swap, phase>>, At(i, d, "work"), Served
  PROVE  \A e \in Followed : Good(e)'
<1>1. PICK j \in Job : /\ Set(i, d, j) /\ j.step \in {"release", "done"}
                       /\ j.step = "done" => ~job[i][d].claimed \/ Lock(i) = NoTag
  BY LeaveTo
<1>2. Fits(i, job[i][d], tags[d]) /\ job[i][d].step = "work" /\ NoTag \notin tags[d]
  BY NoSuchTag DEF Good, At
<1>3. QueueTag(i) \in tags[d] /\ (job[i][d].claimed \/ Lock(i) \notin tags[d])
  BY <1>2 DEF Fits, BusyWith, Working
<1>4. Fits(i, j, tags[d])
  BY <1>1, <1>3 DEF Fits, BusyWith, Working
<1>5. Owns(i, phase[i], j, tags[d])
  BY <1>1, <1>2, <1>3 DEF Owns, Holding
<1> QED BY <1>1, <1>4, <1>5, QuietMove

\* A job that is done with nothing written, and without a lock to release.
LEMMA DoneGood ==
  ASSUME TypeOK, \A e \in Followed : Good(e), NEW i \in Daemon, NEW d \in Doc, d \in Followed,
         Goto(i, d, "done"),
         UNCHANGED <<tags, open, swap, phase>>, Lock(i) \notin tags[d], Served \/ rejects' # 0
  PROVE  \A e \in Followed : Good(e)'
<1> DEFINE q == [job[i][d] EXCEPT !.step = "done"]
<1>1. q \in Job /\ q.step = "done"
  BY JobFields, StepSet DEF Step
<1>2. Set(i, d, q)
  BY DEF Goto
<1> HIDE DEF q
<1>3. Fits(i, q, tags[d]) /\ Owns(i, phase[i], q, tags[d])
  BY <1>1, RestFits
<1> QED BY <1>1, <1>2, <1>3, QuietMove

LEMMA TakeGood ==
  ASSUME TypeOK, \A e \in Followed : Good(e), NEW i \in Daemon, NEW d \in Doc, d \in Followed,
         Served, Take(i, d)
  PROVE  \A e \in Followed : Good(e)'
<1> DEFINE read == [job[i][d] EXCEPT !.seen = tags[d], !.base = tags[d], !.text = content[d]]
<1>1. /\ UNCHANGED <<tags, open, swap, phase>>
      /\ Fits(i, job[i][d], tags[d]) /\ job[i][d].step = "queued"
  BY DEF Take, Read, NoCall, Others, archive, Good, At
<1>2. QueueTag(i) \in tags[d] /\ Lock(i) \notin tags[d]
  BY <1>1 DEF Fits
<1>3. read \in Job
  BY JobFields DEF Job
<1>a. ASSUME NEW q \in Job, Set(i, d, q), q.step \in {"final", "claim", "work"},
             q.step = "claim" => Lock(i) # NoTag
      PROVE  \A e \in Followed : Good(e)'
  <2>1. Fits(i, q, tags[d])
    BY <1>2, <1>a DEF Fits, BusyWith, Working
  <2>2. Owns(i, phase[i], q, tags[d])
    BY <1>2, <1>a DEF Owns
  <2> QED BY <1>1, <1>a, <2>1, <2>2, QuietMove
<1> HIDE DEF read
<1>4. CASE Set(i, d, [read EXCEPT !.step = "final"])
  <2> DEFINE q == [read EXCEPT !.step = "final"]
  <2>1. q \in Job /\ q.step = "final"
    BY <1>3, StepSet DEF Step
  <2>2. Set(i, d, q)
    BY <1>4
  <2> HIDE DEF q
  <2> QED BY <1>a, <2>1, <2>2
<1>5. CASE Set(i, d, [read EXCEPT !.step = "claim"]) /\ Lock(i) # NoTag
  <2> DEFINE q == [read EXCEPT !.step = "claim"]
  <2>1. q \in Job /\ q.step = "claim"
    BY <1>3, StepSet DEF Step
  <2>2. Set(i, d, q)
    BY <1>5
  <2> HIDE DEF q
  <2> QED BY <1>a, <1>5, <2>1, <2>2
<1>6. CASE Set(i, d, [read EXCEPT !.step = "work", !.claimed = TRUE])
  <2> DEFINE q == [read EXCEPT !.step = "work", !.claimed = TRUE]
  <2>1. q \in Job /\ q.step = "work"
    BY <1>3, ClaimSet
  <2>2. Set(i, d, q)
    BY <1>6
  <2> HIDE DEF q
  <2> QED BY <1>a, <2>1, <2>2
<1>7. \/ Set(i, d, [read EXCEPT !.step = "final"])
      \/ Set(i, d, [read EXCEPT !.step = "claim"]) /\ Lock(i) # NoTag
      \/ Set(i, d, [read EXCEPT !.step = "work", !.claimed = TRUE])
  BY DEF Take, Served, read
<1> QED BY <1>4, <1>5, <1>6, <1>7

LEMMA ClaimReadGood ==
  ASSUME TypeOK, \A e \in Followed : Good(e), NEW i \in Daemon, NEW d \in Doc, d \in Followed,
         Served, ClaimRead(i, d)
  PROVE  \A e \in Followed : Good(e)'
<1> DEFINE B == tags[d] \cup {Lock(i)}
           q == [job[i][d] EXCEPT !.step = "lock", !.base = B]
<1>1. /\ UNCHANGED <<tags, open, swap, phase>>
      /\ Fits(i, job[i][d], tags[d]) /\ job[i][d].step = "claim"
  BY DEF ClaimRead, Read, NoCall, Others, archive, Good, At
<1>2. QueueTag(i) \in tags[d] /\ Lock(i) \notin tags[d] /\ Lock(i) # NoTag
  BY <1>1 DEF Fits, BusyWith, Working
<1>3. Set(i, d, q)
  BY <1>2 DEF ClaimRead, Served
<1>4. B \in SUBSET Tag
  BY <1>2, JobFields, Kinds
<1> HIDE DEF B
<1>5. q \in Job /\ q.step = "lock" /\ q.base = B
  BY <1>4, JobFields DEF Job, Step
<1> HIDE DEF q
<1>6. Fits(i, q, tags[d])
  BY <1>2, <1>5 DEF Fits, BusyWith, B
<1>7. Owns(i, phase[i], q, tags[d])
  BY <1>2, <1>5 DEF Owns
<1> QED BY <1>1, <1>3, <1>5, <1>6, <1>7, QuietMove

LEMMA ClaimWriteGood ==
  ASSUME TypeOK, Deployment, \A e \in Followed : Good(e), NEW i \in Daemon, NEW d \in Doc,
         d \in Followed, Served,
         ClaimWrite(i, d)
  PROVE  \A e \in Followed : Good(e)'
<1> DEFINE W == job[i][d].base
           q == [job[i][d] EXCEPT !.step = "verify"]
<1>1. Fits(i, job[i][d], tags[d]) /\ job[i][d].step = "lock"
  BY DEF Good, ClaimWrite, At
<1>2. /\ QueueTag(i) \in tags[d] /\ W = tags[d] \cup {Lock(i)}
  BY <1>1 DEF Fits, BusyWith, Working
<1>3. /\ Set(i, d, q) /\ tags' = [tags EXCEPT ![d] = W] /\ UNCHANGED <<swap, phase, open>>
  BY DEF ClaimWrite, PatchFails, Served, Patch, Others, NoCall, Goto
<1>4. W \in SUBSET Tag /\ q \in Job /\ q.step = "verify"
  <2>1. job[i][d] \in Job /\ W \in SUBSET Tag /\ "verify" \in Step
    BY JobFields DEF Step
  <2> QED BY <2>1, StepSet
<1>5. W \cup {Lock(i)} = tags[d] \cup {Lock(i)}
  BY <1>2
<1> HIDE DEF W, q
<1>6. /\ Places(W, d \in open', {}) /\ Marked(W, d \in open')
      /\ QueueTag(i) \in W /\ W \cap Locks \subseteq {Lock(i)}
  BY <1>2, <1>3, <1>4, <1>5, StillQueued
<1>7. Fits(i, q, W) /\ Owns(i, phase[i], q, W)
  BY <1>4, <1>6 DEF Fits, BusyWith, Owns, Holding
<1> QED BY <1>2, <1>3, <1>4, <1>6, <1>7, WriteMove

LEMMA ClaimVerifyGood ==
  ASSUME TypeOK, \A e \in Followed : Good(e), NEW i \in Daemon, NEW d \in Doc, d \in Followed,
         Served, ClaimVerify(i, d)
  PROVE  \A e \in Followed : Good(e)'
<1> DEFINE q == [job[i][d] EXCEPT !.step = "work", !.claimed = TRUE]
<1>1. /\ UNCHANGED <<tags, open, swap, phase>>
      /\ Fits(i, job[i][d], tags[d]) /\ job[i][d].step = "verify"
  BY DEF ClaimVerify, Read, NoCall, Others, archive, Good, At
<1>2. QueueTag(i) \in tags[d]
  BY <1>1 DEF Fits, BusyWith, Working
<1>3. CASE Lock(i) \notin tags[d] /\ Goto(i, d, "done")
  BY <1>1, <1>3, DoneGood
<1>4. CASE Set(i, d, q)
  <2>1. q \in Job /\ q.step = "work" /\ q.claimed = TRUE
    BY JobFields, ClaimSet
  <2>2. Set(i, d, q)
    BY <1>4
  <2> HIDE DEF q
  <2>3. Fits(i, q, tags[d])
    BY <1>2, <2>1 DEF Fits, BusyWith
  <2>4. Owns(i, phase[i], q, tags[d])
    BY <2>1 DEF Owns, Holding
  <2> QED BY <1>1, <2>1, <2>2, <2>3, <2>4, QuietMove
<1> QED BY <1>3, <1>4 DEF ClaimVerify, Served

\* A job that sets out to write, or to mark its document with an error.
LEMMA PrepareGood ==
  ASSUME TypeOK, \A e \in Followed : Good(e), NEW i \in Daemon, NEW d \in Doc, d \in Followed,
         NEW q \in Job, Set(i, d, q),
         UNCHANGED <<tags, open, swap, phase>>,
         job[i][d].step \in {"work", "refresh", "write"}, q.claimed = job[i][d].claimed,
         Served \/ rejects' # 0,
         \/ q.step = "final"
         \/ q.step = "refresh" /\ i \in OcrDaemon /\ q.plan # "requeue"
         \/ q.step = "write" /\ (IF i \in OcrDaemon THEN q.plan # "requeue"
                                 ELSE q.plan \in {"save", "requeue"})
  PROVE  \A e \in Followed : Good(e)'
<1>1. Fits(i, job[i][d], tags[d])
  BY DEF Good
<1>2. QueueTag(i) \in tags[d] /\ (q.claimed \/ Lock(i) \notin tags[d])
  BY <1>1 DEF Fits, BusyWith, Working
<1>3. Fits(i, q, tags[d])
  BY <1>2 DEF Fits, BusyWith
<1>4. Owns(i, phase[i], q, tags[d])
  BY DEF Owns, Holding
<1> QED BY <1>3, <1>4, QuietMove

LEMMA GiveUpGood ==
  ASSUME TypeOK, \A e \in Followed : Good(e), NEW i \in Daemon, NEW d \in Doc, d \in Followed,
         GiveUp(i, d),
         UNCHANGED <<tags, open, swap, phase>>, job[i][d].step \in {"work", "write"},
         Served \/ rejects' # 0
  PROVE  \A e \in Followed : Good(e)'
<1> DEFINE q == [job[i][d] EXCEPT !.step = "final", !.base = job[i][d].seen]
<1>1. q \in Job /\ q.step = "final" /\ q.claimed = job[i][d].claimed
  <2>1. job[i][d] \in Job /\ job[i][d].seen \in SUBSET Tag
    BY JobFields
  <2> QED BY <2>1 DEF Job, Step
<1>2. Set(i, d, q)
  BY DEF GiveUp
<1> HIDE DEF q
<1> QED BY <1>1, <1>2, PrepareGood

LEMMA OcrWorkGood ==
  ASSUME TypeOK, \A e \in Followed : Good(e), NEW i \in Daemon, NEW d \in Doc, d \in Followed,
         Served, OcrWork(i, d)
  PROVE  \A e \in Followed : Good(e)'
<1>1. /\ i \in OcrDaemon /\ job[i][d].step = "work" /\ At(i, d, "work")
      /\ UNCHANGED <<tags, open, swap, phase>>
  BY DEF OcrWork, At, archive, Others
<1>2. ASSUME NEW p \in {"save", "skip", "error"}, NEW b \in Bodies, Prepare(i, d, p, b)
      PROVE  \A e \in Followed : Good(e)'
  <2> DEFINE q == [job[i][d] EXCEPT !.step = "refresh", !.plan = p, !.body = b]
  <2>1. q \in Job /\ q.step = "refresh" /\ q.claimed = job[i][d].claimed /\ q.plan = p
    <3>1. job[i][d] \in Job
      BY JobFields
    <3> QED BY <3>1 DEF Job, Step, Plan, Bodies
  <2>2. Set(i, d, q)
    BY <1>2 DEF Prepare
  <2> HIDE DEF q
  <2> QED BY <1>1, <2>1, <2>2, PrepareGood
<1>3. CASE Leave(i, d)
  BY <1>1, <1>3, LeaveGood
<1>4. CASE GiveUp(i, d)
  BY <1>1, <1>4, GiveUpGood
<1>5. CASE \E p \in {"save", "skip", "error"}, b \in Bodies : Prepare(i, d, p, b)
  BY <1>2, <1>5
<1>6. \/ Leave(i, d) \/ GiveUp(i, d)
      \/ \E p \in {"save", "skip", "error"}, b \in Bodies : Prepare(i, d, p, b)
  BY DEF OcrWork, Served, SkipBornDigital, Undecodable, NoPages, Transcribed, BadTranscript, Bodies
<1> QED BY <1>3, <1>4, <1>5, <1>6

LEMMA ClassifyWorkGood ==
  ASSUME TypeOK, \A e \in Followed : Good(e), NEW i \in Daemon, NEW d \in Doc, d \in Followed,
         Served,
         ClassifyWork(i, d)
  PROVE  \A e \in Followed : Good(e)'
<1>1. /\ i \notin OcrDaemon /\ job[i][d].step = "work" /\ At(i, d, "work")
      /\ UNCHANGED <<tags, open, swap, phase>>
  BY DaemonsAreDistinct DEF ClassifyWork, At, archive, Others
<1>2. ASSUME NEW p \in {"save", "requeue"}, Write(i, d, p)
      PROVE  \A e \in Followed : Good(e)'
  <2> DEFINE q == [job[i][d] EXCEPT !.step = "write", !.plan = p, !.base = job[i][d].seen]
  <2>1. q \in Job /\ q.step = "write" /\ q.claimed = job[i][d].claimed /\ q.plan = p
    <3>1. job[i][d] \in Job /\ job[i][d].seen \in SUBSET Tag
      BY JobFields
    <3> QED BY <3>1 DEF Job, Step, Plan
  <2>2. Set(i, d, q)
    BY <1>2 DEF Write
  <2> HIDE DEF q
  <2> QED BY <1>1, <2>1, <2>2, PrepareGood
<1>3. CASE Leave(i, d)
  BY <1>1, <1>3, LeaveGood
<1>4. CASE GiveUp(i, d)
  BY <1>1, <1>4, GiveUpGood
<1>5. CASE \E p \in {"save", "requeue"} : Write(i, d, p)
  BY <1>2, <1>5
<1>6. Leave(i, d) \/ GiveUp(i, d) \/ \E p \in {"save", "requeue"} : Write(i, d, p)
  BY DEF ClassifyWork, Classified, Unusable
<1> QED BY <1>3, <1>4, <1>5, <1>6

LEMMA RefreshGood ==
  ASSUME TypeOK, \A e \in Followed : Good(e), NEW i \in Daemon, NEW d \in Doc, d \in Followed,
         Served, Refresh(i, d)
  PROVE  \A e \in Followed : Good(e)'
<1> DEFINE s == IF job[i][d].plan = "error" THEN "final" ELSE "write"
           q == [job[i][d] EXCEPT !.step = s, !.base = tags[d]]
<1>1. /\ UNCHANGED <<tags, open, swap, phase>>
      /\ Fits(i, job[i][d], tags[d]) /\ job[i][d].step = "refresh"
  BY DEF Refresh, Read, NoCall, Others, archive, Good, At
<1>2. i \in OcrDaemon /\ job[i][d].plan # "requeue"
  BY <1>1 DEF Fits
<1>3. Set(i, d, q)
  BY DEF Refresh, Served
<1>4. s \in {"final", "write"}
  OBVIOUS
<1> HIDE DEF s
<1>5. /\ q \in Job /\ q.step = s /\ q.claimed = job[i][d].claimed /\ q.plan = job[i][d].plan
  <2>1. job[i][d] \in Job /\ tags[d] \in SUBSET Tag
    BY JobFields
  <2> QED BY <1>4, <2>1 DEF Job, Step
<1> HIDE DEF q
<1> QED BY <1>1, <1>2, <1>3, <1>4, <1>5, PrepareGood

\* A job that ends with a write that leaves its document in no lock.
LEMMA LeaveWritten ==
  ASSUME TypeOK, Deployment, \A e \in Followed : Good(e), NEW i \in Daemon, NEW d \in Doc,
         d \in Followed,
         QueueTag(i) \in tags[d], Served, Leave(i, d), UNCHANGED <<swap, phase>>,
         NEW W \in SUBSET Tag, tags' = [tags EXCEPT ![d] = W],
         \A e \in Doc \ {d} : e \in open' <=> e \in open,
         Places(W, d \in open', {}), rejects = 0 => Marked(W, d \in open'),
         W \cap Locks = {}, NoTag \notin W
  PROVE  \A e \in Followed : Good(e)'
<1>1. PICK j \in Job : Set(i, d, j) /\ j.step \in {"release", "done"}
  BY LeaveTo
<1>2. Lock(i) \notin W
  BY DEF Lock, Locks
<1>3. Fits(i, j, W) /\ Owns(i, phase[i], j, W)
  BY <1>1, <1>2, RestFits
<1> QED BY <1>1, <1>3, WriteMove

\* What the model picked for a document it has not misled is none of the
\* pipeline's, and changes nothing of where the document is.
LEMMA PickedAside ==
  ASSUME TypeOK, NEW i \in Daemon, NEW d \in Doc, d \in Followed, NEW picked \in Picks(i, d),
         Suggest(d, picked)
  PROVE  picked \in SUBSET Tag /\ picked \cap PipelineTags = {}
<1>1. picked \in SUBSET Tag
  BY VocabularyIsOfTags DEF Picks
<1>2. suggested'[d] = suggested[d] \cup picked
  BY DEF Suggest, TypeOK
<1> QED BY <1>1, <1>2 DEF Followed, Misled, Misleads

LEMMA BesidePicked ==
  ASSUME NEW U \in SUBSET Tag, NEW picked \in SUBSET Tag, picked \cap PipelineTags = {},
         NEW d \in Doc
  PROVE  LET W == U \cup picked IN
         /\ W \in SUBSET Tag
         /\ W \cap PipelineTags = U \cap PipelineTags /\ W \cap Locks = U \cap Locks /\ NoTag \notin W
         /\ \A u \in PipelineTags \cup {NoTag} : u \in W <=> u \in U
         /\ Places(U, d \in open', {}) => Places(W, d \in open', {})
         /\ Marked(U, d \in open') => Marked(W, d \in open')
<1> DEFINE W == U \cup picked
<1>1. /\ NoTag \notin Tag /\ Locks \subseteq PipelineTags
      /\ {Pre, ClassifyPre, OcrLock, ClassifyLock} \subseteq PipelineTags \cup {NoTag}
  BY RequiredTagsAreSet DEF Tag, PipelineTags, Locks
<1>2. W \in SUBSET Tag /\ NoTag \notin W /\ W \cap PipelineTags = U \cap PipelineTags
  BY <1>1
<1>3. \A u \in PipelineTags \cup {NoTag} : u \in W <=> u \in U
  BY <1>1, <1>2
<1> HIDE DEF W
<1>4. /\ W \cap Locks = U \cap Locks
      /\ W \cap {Pre, ClassifyPre} = U \cap {Pre, ClassifyPre}
  BY <1>1, <1>2, <1>3
<1>5. /\ Places(U, d \in open', {}) => Places(W, d \in open', {})
      /\ Marked(U, d \in open') => Marked(W, d \in open')
  BY <1>1, <1>2, <1>3, <1>4 DEF Places, Marked
<1>6. /\ W \in SUBSET Tag
      /\ W \cap PipelineTags = U \cap PipelineTags /\ W \cap Locks = U \cap Locks /\ NoTag \notin W
      /\ \A u \in PipelineTags \cup {NoTag} : u \in W <=> u \in U
      /\ Places(U, d \in open', {}) => Places(W, d \in open', {})
      /\ Marked(U, d \in open') => Marked(W, d \in open')
  BY <1>2, <1>3, <1>4, <1>5
<1> QED BY <1>6 DEF W

LEMMA WriteBackGood ==
  ASSUME TypeOK, Deployment, \A e \in Followed : Good(e), NEW i \in Daemon, NEW d \in Doc,
         d \in Followed, Served,
         WriteBack(i, d)
  PROVE  \A e \in Followed : Good(e)'
<1> DEFINE t == IF job[i][d].plan = "requeue" THEN Pre ELSE DoneTag(i)
           B == job[i][d].base
           U == With(Clean(B), t)
<1>1. Fits(i, job[i][d], tags[d]) /\ job[i][d].step = "write"
  BY DEF Good, WriteBack, At
<1>2. QueueTag(i) \in tags[d]
  BY <1>1 DEF Fits, BusyWith, Working
<1>3. d \in open
  BY <1>2, Exclusive
<1>10. PICK picked \in Picks(i, d) :
        /\ Suggest(d, picked)
        /\ Leave(i, d) /\ Patch(d, U \cup picked, job[i][d].body)
        /\ open' = IF i \in Classifier /\ job[i][d].plan = "save" THEN open \ {d} ELSE open
  BY DEF WriteBack, Result, PatchFails, Served
<1> DEFINE W == U \cup picked
<1>4. /\ Leave(i, d) /\ Patch(d, W, job[i][d].body) /\ UNCHANGED <<swap, phase>>
      /\ open' = IF i \in Classifier /\ job[i][d].plan = "save" THEN open \ {d} ELSE open
  BY <1>10 DEF WriteBack, Others
<1>5. IF i \in OcrDaemon THEN job[i][d].plan # "requeue" ELSE job[i][d].plan \in {"save", "requeue"}
  BY <1>1 DEF Fits
<1>6. /\ t \in {Pre, Post, ClassifyPre, ClassifyPost, Error, NoTag}
      /\ t \in {Pre, ClassifyPre} => d \in open'
      /\ d \in open' => t # NoTag
  <2>1. CASE i \in OcrDaemon
    <3>1. t = Post /\ i \notin Classifier
      BY <1>5, <2>1, DaemonsAreDistinct DEF DoneTag
    <3> QED BY <1>3, <1>4, <3>1, RequiredTagsAreSet
  <2>2. CASE i \notin OcrDaemon /\ job[i][d].plan = "save"
    <3>1. t = ClassifyPost /\ i \in Classifier
      BY <2>2 DEF DoneTag, Daemon
    <3>2. d \notin open'
      BY <1>4, <2>2, <3>1
    <3> QED BY <3>1, <3>2 DEF Deployment
  <2>3. CASE job[i][d].plan = "requeue"
    BY <1>3, <1>4, <2>3, RequiredTagsAreSet
  <2> QED BY <1>5, <2>1, <2>2, <2>3
<1>7. B \in SUBSET Tag
  BY JobFields
<1>8. tags' = [tags EXCEPT ![d] = W] /\ \A e \in Doc \ {d} : e \in open' <=> e \in open
  BY <1>4 DEF Patch
<1> HIDE DEF t, B
<1>11. /\ U \in SUBSET Tag /\ Places(U, d \in open', {}) /\ U \cap Locks = {}
       /\ Marked(U, d \in open')
  BY <1>6, <1>7, Cleaned
<1>12. picked \in SUBSET Tag /\ picked \cap PipelineTags = {}
  BY <1>10, PickedAside
<1> HIDE DEF U
<1>9. /\ W \in SUBSET Tag /\ Places(W, d \in open', {}) /\ W \cap Locks = {} /\ NoTag \notin W
      /\ Marked(W, d \in open')
  BY <1>11, <1>12, BesidePicked
<1> HIDE DEF W
<1> QED BY <1>2, <1>4, <1>8, <1>9, LeaveWritten

LEMMA FinaliseGood ==
  ASSUME TypeOK, Deployment, \A e \in Followed : Good(e), NEW i \in Daemon, NEW d \in Doc,
         d \in Followed, Served,
         Finalise(i, d)
  PROVE  \A e \in Followed : Good(e)'
<1> DEFINE B == job[i][d].base
           W == With(Clean(B), Error)
<1>1. Fits(i, job[i][d], tags[d]) /\ job[i][d].step = "final"
  BY DEF Good, Finalise, At
<1>2. QueueTag(i) \in tags[d]
  BY <1>1 DEF Fits, BusyWith, Working
<1>3. /\ Leave(i, d) /\ tags' = [tags EXCEPT ![d] = W] /\ UNCHANGED <<swap, phase, open>>
  BY DEF Finalise, PatchFails, Served, Patch, Others, NoCall
<1>4. /\ Error \in {Pre, Post, ClassifyPre, ClassifyPost, Error, NoTag} /\ Error # NoTag
      /\ d \in open' /\ B \in SUBSET Tag
  BY <1>2, <1>3, Exclusive, JobFields DEF Deployment
<1> HIDE DEF B
<1>5. /\ W \in SUBSET Tag /\ Places(W, d \in open', {}) /\ W \cap Locks = {} /\ NoTag \notin W
      /\ Marked(W, d \in open')
  BY <1>4, Cleaned
<1> HIDE DEF W
<1> QED BY <1>2, <1>3, <1>5, LeaveWritten

\* The fallback, which only a refusal leads to, may leave no mark.
LEMMA FallbackGood ==
  ASSUME TypeOK, Deployment, \A e \in Followed : Good(e), NEW i \in Daemon, NEW d \in Doc,
         d \in Followed, Served,
         FinaliseFallback(i, d)
  PROVE  \A e \in Followed : Good(e)'
<1> DEFINE B == job[i][d].base
           W == With(Clean(B), NoTag)
<1>1. /\ Fits(i, job[i][d], tags[d]) /\ job[i][d].step = "fallback"
      /\ rejects = 0 => Owns(i, phase[i], job[i][d], tags[d])
  BY DEF Good, FinaliseFallback, At
<1>2. QueueTag(i) \in tags[d] /\ rejects # 0
  BY <1>1 DEF Fits, BusyWith, Working, Owns
<1>3. /\ Leave(i, d) /\ tags' = [tags EXCEPT ![d] = W] /\ UNCHANGED <<swap, phase, open>>
  BY DEF FinaliseFallback, PatchFails, Served, Patch, Others, NoCall, With
<1>4. NoTag \notin {Pre, ClassifyPre} /\ B \in SUBSET Tag
  BY JobFields, RequiredTagsAreSet
<1> HIDE DEF B
<1>5. W \in SUBSET Tag /\ Places(W, d \in open', {}) /\ W \cap Locks = {} /\ NoTag \notin W
  BY <1>4, Cleaned
<1> HIDE DEF W
<1> QED BY <1>2, <1>3, <1>5, LeaveWritten

LEMMA ReleaseReadGood ==
  ASSUME TypeOK, \A e \in Followed : Good(e), NEW i \in Daemon, NEW d \in Doc, d \in Followed,
         Served, ReleaseRead(i, d)
  PROVE  \A e \in Followed : Good(e)'
<1> DEFINE B == tags[d] \ {Lock(i)}
           q == [job[i][d] EXCEPT !.step = "unlock", !.base = B]
<1>1. /\ UNCHANGED <<tags, open, swap, phase>>
      /\ Fits(i, job[i][d], tags[d]) /\ job[i][d].step = "release"
  BY DEF ReleaseRead, Read, NoCall, Others, archive, Good, At
<1>2. CASE Lock(i) \notin tags[d] /\ Goto(i, d, "done")
  BY <1>1, <1>2, DoneGood
<1>3. CASE Lock(i) \in tags[d] /\ Set(i, d, q)
  <2>1. QueueTag(i) \in tags[d] /\ Set(i, d, q)
    BY <1>1, <1>3 DEF Fits, BusyWith
  <2>2. B \in SUBSET Tag
    BY JobFields
  <2> HIDE DEF B
  <2>3. q \in Job /\ q.step = "unlock" /\ q.base = B
    BY <2>2, JobFields DEF Job, Step
  <2> HIDE DEF q
  <2>4. Fits(i, q, tags[d]) /\ Owns(i, phase[i], q, tags[d])
    BY <2>1, <2>3 DEF Fits, BusyWith, Owns, Holding, B
  <2> QED BY <1>1, <2>1, <2>3, <2>4, QuietMove
<1> QED BY <1>2, <1>3 DEF ReleaseRead, Served

LEMMA ReleaseWriteGood ==
  ASSUME TypeOK, Deployment, \A e \in Followed : Good(e), NEW i \in Daemon, NEW d \in Doc,
         d \in Followed, Served,
         ReleaseWrite(i, d)
  PROVE  \A e \in Followed : Good(e)'
<1> DEFINE W == job[i][d].base
           q == [job[i][d] EXCEPT !.step = "done"]
<1>1. Fits(i, job[i][d], tags[d]) /\ job[i][d].step = "unlock"
  BY DEF Good, ReleaseWrite, At
<1>2. /\ QueueTag(i) \in tags[d] /\ W = tags[d] \ {Lock(i)}
  BY <1>1 DEF Fits, BusyWith, Working
<1>3. /\ Set(i, d, q) /\ tags' = [tags EXCEPT ![d] = W] /\ UNCHANGED <<swap, phase, open>>
  BY DEF ReleaseWrite, PatchFails, Served, Patch, Others, NoCall, Goto
<1>4. W \in SUBSET Tag /\ q \in Job /\ q.step = "done"
  <2>1. job[i][d] \in Job /\ W \in SUBSET Tag /\ "done" \in Step
    BY JobFields DEF Step
  <2> QED BY <2>1, StepSet
<1>5. W \cup {Lock(i)} = tags[d] \cup {Lock(i)} /\ Lock(i) \notin W
  BY <1>2
<1> HIDE DEF W, q
<1>6. /\ Places(W, d \in open', {}) /\ Marked(W, d \in open')
      /\ QueueTag(i) \in W /\ W \cap Locks \subseteq {Lock(i)}
  BY <1>2, <1>3, <1>4, <1>5, StillQueued
<1>7. Fits(i, q, W) /\ Owns(i, phase[i], q, W)
  BY <1>4, <1>5, RestFits
<1> QED BY <1>2, <1>3, <1>4, <1>6, <1>7, WriteMove

LEMMA JobStepGood ==
  ASSUME TypeOK, Deployment, \A e \in Followed : Good(e), NEW i \in Daemon, NEW d \in Doc,
         d \in Followed, Served,
         JobStep(i, d)
  PROVE  \A e \in Followed : Good(e)'
BY RecoverGood, StripGood, TakeGood, ClaimReadGood, ClaimWriteGood, ClaimVerifyGood,
   OcrWorkGood, ClassifyWorkGood, RefreshGood, WriteBackGood, FinaliseGood, FallbackGood,
   ReleaseReadGood, ReleaseWriteGood DEF JobStep

\* A refused request leaves the document as it was, and the job gives way.
LEMMA RefusedGood ==
  ASSUME TypeOK, Deployment, \A e \in Followed : Good(e), NEW i \in Daemon, NEW d \in Doc,
         d \in Followed, Refused, ~Fails,
         JobStep(i, d)
  PROVE  \A e \in Followed : Good(e)'
<1>1. rejects \in Nat /\ rejects' = rejects + 1
  BY BudgetsAreNatural DEF Refused, TypeOK
<1>2. rejects' # 0 /\ ~Fine
  BY <1>1 DEF Fine
<1> HIDE DEF Refused
<1>3. Fits(i, job[i][d], tags[d]) /\ job[i][d] \in Job
  BY JobFields DEF Good
<1>4. CASE RecoverLock(i, d) \/ StripQueueTag(i, d)
  <2>1. Set(i, d, NoJob) /\ UNCHANGED <<tags, open, swap, phase>>
    BY <1>2, <1>4 DEF RecoverLock, StripQueueTag, PatchFails, Others, NoCall, archive
  <2>2. Fits(i, NoJob, tags[d])
    BY NoJobFields DEF Fits, BusyWith, Working
  <2> QED BY <1>2, <2>1, <2>2, NoJobFields, QuietMove
<1>5. CASE ClaimWrite(i, d)
  <2>1. Goto(i, d, "done") /\ UNCHANGED <<tags, open, swap, phase>> /\ job[i][d].step = "lock"
    BY <1>2, <1>5 DEF ClaimWrite, PatchFails, Others, NoCall, archive, At
  <2>2. Lock(i) \notin tags[d]
    BY <1>3, <2>1 DEF Fits
  <2> QED BY <1>2, <2>1, <2>2, DoneGood
<1>6. CASE WriteBack(i, d)
  <2>1. /\ UNCHANGED <<tags, open, swap, phase>> /\ job[i][d].step = "write"
        /\ IF i \in Classifier THEN GiveUp(i, d) ELSE Prepare(i, d, "error", job[i][d].body)
    BY <1>2, <1>6 DEF WriteBack, PatchFails, Others, archive, At
  <2>2. CASE i \in Classifier
    BY <1>2, <2>1, <2>2, GiveUpGood
  <2>3. CASE i \notin Classifier
    <3> DEFINE q == [job[i][d] EXCEPT !.step = "refresh", !.plan = "error", !.body = job[i][d].body]
    <3>1. q \in Job /\ q.step = "refresh" /\ q.claimed = job[i][d].claimed /\ q.plan = "error"
      BY <1>3 DEF Job, Step, Plan
    <3>2. Set(i, d, q) /\ i \in OcrDaemon
      BY <2>1, <2>3 DEF Prepare, Daemon
    <3> HIDE DEF q
    <3> QED BY <1>2, <2>1, <3>1, <3>2, PrepareGood
  <2> QED BY <2>2, <2>3
<1>7. CASE Finalise(i, d) \/ FinaliseFallback(i, d) \/ ReleaseWrite(i, d)
  <2>1. /\ UNCHANGED <<tags, open, swap, phase>> /\ job[i][d].step \in {"final", "fallback", "unlock"}
        /\ Leave(i, d) \/ (Goto(i, d, "fallback")) \/ Goto(i, d, "done")
    BY <1>2, <1>7 DEF Finalise, FinaliseFallback, ReleaseWrite, PatchFails, Others, NoCall, archive, At
  <2>2. QueueTag(i) \in tags[d]
    BY <1>3, <2>1 DEF Fits, BusyWith, Working
  <2>3. ASSUME NEW q \in Job, Set(i, d, q), q.step \in {"release", "done", "fallback"}
        PROVE  \A e \in Followed : Good(e)'
    <3>1. Fits(i, q, tags[d])
      BY <2>2, <2>3 DEF Fits, BusyWith
    <3> QED BY <1>2, <2>1, <2>3, <3>1, QuietMove
  <2>4. ASSUME NEW t \in {"done", "fallback"}, Goto(i, d, t)
        PROVE  \A e \in Followed : Good(e)'
    <3> DEFINE q == [job[i][d] EXCEPT !.step = t]
    <3>1. t \in Step /\ job[i][d] \in Job
      BY <1>3 DEF Step
    <3>2. q \in Job /\ q.step = t
      BY <3>1, StepSet
    <3>3. Set(i, d, q)
      BY <2>4 DEF Goto
    <3> HIDE DEF q
    <3> QED BY <2>3, <2>4, <3>2, <3>3
  <2>5. CASE Leave(i, d)
    <3>1. PICK q \in Job : Set(i, d, q) /\ q.step \in {"release", "done"}
      BY <2>5, LeaveTo
    <3> QED BY <2>3, <3>1
  <2> QED BY <2>1, <2>4, <2>5
<1> QED BY <1>2, <1>4, <1>5, <1>6, <1>7
        DEF JobStep, Take, ClaimRead, ClaimVerify, OcrWork, ClassifyWork, Refresh, ReleaseRead

-----------------------------------------------------------------------------
(* The life of a daemon, and the users                                     *)

\* What the sweep finds is a claim that was left behind, and the listing finds
\* nothing that is claimed.
LEMMA FoundFits ==
  ASSUME TypeOK, Deployment, NEW d \in Doc, Good(d), NEW i \in Daemon
  PROVE  /\ Fits(i, NoJob, tags[d]) /\ Fits(i, Swept(i)[d], tags[d])
         /\ Owns(i, "recover", Swept(i)[d], tags[d]) /\ Fits(i, Listed(i)[d], tags[d])
         /\ Listed(i)[d].step # "fallback"
<1> DEFINE r == [NoJob EXCEPT !.step = "recover", !.seen = tags[d]]
           s == [NoJob EXCEPT !.step = "strip", !.seen = tags[d]]
           q == [NoJob EXCEPT !.step = "queued"]
<1>1. /\ r.step = "recover" /\ r.seen = tags[d] /\ s.step = "strip" /\ s.seen = tags[d]
      /\ q.step = "queued" /\ NoJob.step = "idle" /\ NoTag \notin tags[d]
  BY FoundCarries, QueuedFields, NoJobFields, NoSuchTag
<1>2. /\ Swept(i)[d] = IF d \in Stale(i) THEN r ELSE NoJob
      /\ Listed(i)[d] = IF QueueTag(i) \notin tags[d] THEN NoJob
                        ELSE IF DoneTag(i) \in tags[d] THEN s
                        ELSE IF Lock(i) \in tags[d] THEN NoJob ELSE q
  BY DEF Swept, Listed
<1> HIDE DEF r, s, q
<1>3. Fits(i, NoJob, tags[d])
  BY <1>1 DEF Fits, BusyWith, Working
<1>4. Lock(i) \in tags[d] => QueueTag(i) \in tags[d]
  <2>1. Places(tags[d], d \in open, swap[d])
    BY DEF Good
  <2> QED BY <2>1 DEF Places, Lock, QueueTag
<1>5. d \in Stale(i) <=> Lock(i) \in tags[d]
  BY <1>1 DEF Stale, Deployment
<1>6. Lock(i) \in tags[d] => Fits(i, r, tags[d])
  BY <1>1, <1>4 DEF Fits, BusyWith
<1>7. Fits(i, Swept(i)[d], tags[d])
  BY <1>2, <1>3, <1>5, <1>6
<1>8. Owns(i, "recover", Swept(i)[d], tags[d])
  BY <1>1, <1>2, <1>5 DEF Owns
<1>12. Listed(i)[d].step # "fallback"
  BY <1>1, <1>2
<1>9. QueueTag(i) \in tags[d] /\ DoneTag(i) \in tags[d] => Fits(i, s, tags[d])
  BY <1>1 DEF Fits, BusyWith
<1>10. QueueTag(i) \in tags[d] /\ Lock(i) \notin tags[d] => Fits(i, q, tags[d])
  BY <1>1 DEF Fits, BusyWith, Working
<1>11. Fits(i, Listed(i)[d], tags[d])
  BY <1>2, <1>3, <1>9, <1>10
<1> QED BY <1>3, <1>7, <1>8, <1>11, <1>12

LEMMA LifeGood ==
  ASSUME TypeOK, Phased, Deployment, \A e \in Followed : Good(e), NEW i \in Daemon, Served,
         \/ Boot(i) \/ RecoverEnds(i) \/ Poll(i) \/ StartBatch(i) \/ EndBatch(i) \/ Exit(i)
         \/ Shutdown(i) \/ Crash(i)
  PROVE  \A e \in Followed : Good(e)'
<1>1. UNCHANGED <<tags, open, swap, rejects>>
  BY DEF Boot, RecoverEnds, Poll, StartBatch, EndBatch, Exit, Shutdown, Crash, Life, archive, ghosts,
         Served, Fine
<1>2. \A d \in Doc \cap Followed : /\ Fits(i, job[i][d], tags[d])
                                   /\ rejects = 0 => Owns(i, phase[i], job[i][d], tags[d])
  BY DEF Good
<1>3. ASSUME NEW p, phase' = [phase EXCEPT ![i] = p], UNCHANGED job,
             rejects = 0 => \A d \in Doc \cap Followed : Owns(i, p, job[i][d], tags[d])
      PROVE  \A e \in Followed : Good(e)'
  BY <1>1, <1>2, <1>3, StaysAllowed, LifeMove
<1>4. ASSUME NEW p, phase' = [phase EXCEPT ![i] = p], job' = [job EXCEPT ![i] = NoJobs],
             rejects = 0 => \A d \in Doc \cap Followed : Owns(i, p, NoJob, tags[d])
      PROVE  \A e \in Followed : Good(e)'
  <2>1. NoJobs \in [Doc -> Job] /\ \A d \in Doc : NoJobs[d] = NoJob
    BY NoJobFields DEF NoJobs
  <2>2. \A d \in Doc \cap Followed : /\ Fits(i, NoJobs[d], tags[d])
                                     /\ rejects = 0 => Owns(i, p, NoJobs[d], tags[d])
    BY <1>4, <2>1, FoundFits
  <2> QED BY <1>1, <1>4, <2>1, <2>2, LifeMove
<1>5. CASE Boot(i)
  <2>1. phase' = [phase EXCEPT ![i] = "recover"] /\ job' = [job EXCEPT ![i] = Swept(i)]
    BY <1>5 DEF Boot, Swept, Stale, Served
  <2>2. /\ Swept(i) \in [Doc -> Job]
        /\ \A d \in Doc \cap Followed : Fits(i, Swept(i)[d], tags[d]) /\ Owns(i, "recover", Swept(i)[d], tags[d])
    BY SweptType, FoundFits
  <2> QED BY <1>1, <2>1, <2>2, LifeMove
<1>6. CASE RecoverEnds(i)
  <2>1. rejects = 0 => \A d \in Doc \cap Followed : Owns(i, "poll", job[i][d], tags[d])
    BY <1>2, <1>6 DEF RecoverEnds, Owns, At
  <2> QED BY <1>3, <1>6, <2>1 DEF RecoverEnds
<1>7. CASE Poll(i)
  <2>1. phase' = [phase EXCEPT ![i] = "list"] /\ job' = [job EXCEPT ![i] = Listed(i)]
    BY <1>7 DEF Poll, Listed
  <2>2. rejects = 0 => \A d \in Doc \cap Followed : Lock(i) \notin tags[d]
    BY <1>2, <1>7 DEF Poll, Phased, At, Owns, Holding
  <2>3. /\ Listed(i) \in [Doc -> Job]
        /\ \A d \in Doc \cap Followed : /\ Fits(i, Listed(i)[d], tags[d])
                                        /\ rejects = 0 => Owns(i, "list", Listed(i)[d], tags[d])
    BY <2>2, SweptType, FoundFits DEF Owns
  <2> QED BY <1>1, <2>1, <2>3, LifeMove
<1>8. CASE StartBatch(i)
  <2>1. rejects = 0 => \A d \in Doc \cap Followed : Owns(i, "batch", job[i][d], tags[d])
    BY <1>2, <1>8 DEF StartBatch, Owns
  <2> QED BY <1>3, <1>8, <2>1 DEF StartBatch
<1>9. CASE EndBatch(i)
  <2>1. rejects = 0 => \A d \in Doc \cap Followed : Owns(i, "poll", NoJob, tags[d])
    BY <1>2, <1>9, NoJobFields DEF EndBatch, Owns, Holding
  <2> QED BY <1>4, <1>9, <2>1 DEF EndBatch, NoJobs
<1>10. CASE Exit(i)
  <2>1. rejects = 0 => \A d \in Doc \cap Followed : Owns(i, "down", job[i][d], tags[d])
    BY <1>2 DEF Owns
  <2> QED BY <1>3, <1>10, <2>1 DEF Exit
<1>11. CASE Shutdown(i)
  <2>1. phase' = [phase EXCEPT ![i] = phase[i]] /\ UNCHANGED job
    BY <1>11 DEF Shutdown, TypeOK
  <2> QED BY <1>2, <1>3, <2>1
<1>12. CASE Crash(i)
  <2>1. \A d \in Doc \cap Followed : Owns(i, "down", NoJob, tags[d])
    BY NoJobFields DEF Owns
  <2> QED BY <1>4, <1>12, <2>1 DEF Crash, NoJobs
<1> QED BY <1>5, <1>6, <1>7, <1>8, <1>9, <1>10, <1>11, <1>12

\* A tag of the users is not looked at.
LEMMA EditGood ==
  ASSUME TypeOK, \A e \in Followed : Good(e), NEW d \in Doc, d \in Followed, ~InHand(d), Edit(d)
  PROVE  \A e \in Followed : Good(e)'
<1> SUFFICES ASSUME NEW e \in Doc, e \in Followed PROVE Good(e)'
  BY DEF Followed
<1>1. PICK t \in UserTag : AddTag(d, t) \/ RemoveTag(d, t)
  BY DEF Edit
<1>2. UNCHANGED <<phase, job, swap, open, rejects>>
  BY <1>1 DEF AddTag, RemoveTag, Edits, daemons
<1>3. /\ \A f \in Doc \ {d} : tags'[f] = tags[f]
      /\ tags'[d] \in {tags[d] \cup {t}, tags[d] \ {t}}
  BY <1>1 DEF AddTag, RemoveTag, TypeOK
<1>4. t \notin PipelineTags \cup {NoTag} /\ NoTag \notin tags[d]
  BY NoSuchTag, UserTagsAreOther, RequiredTagsAreSet
<1>5. CASE e # d
  <2>1. tags'[e] = tags[e]
    BY <1>3, <1>5
  <2> QED BY <1>2, <2>1, Untouched
<1>6. CASE e = d
  <2>1. swap[d] = {} /\ \A k \in Daemon : job[k][d].step \in {"idle", "queued", "done"}
    BY DEF InHand
  <2>2. \A u \in PipelineTags \cup {NoTag} : u \in tags'[d] <=> u \in tags[d]
    BY <1>3, <1>4
  <2>3. /\ Places(tags[d], d \in open, swap[d]) /\ \A k \in Daemon : Fits(k, job[k][d], tags[d])
        /\ rejects = 0 => /\ Marked(tags[d], d \in open)
                          /\ \A k \in Daemon : Owns(k, phase[k], job[k][d], tags[d])
    BY DEF Good
  <2>4. Places(tags'[d], d \in open', swap'[d])
    <3>1. /\ {Pre, ClassifyPre, OcrLock, ClassifyLock} \subseteq PipelineTags \cup {NoTag}
      BY RequiredTagsAreSet DEF PipelineTags
    <3>2. /\ tags'[d] \cap {Pre, ClassifyPre} = tags[d] \cap {Pre, ClassifyPre}
          /\ tags'[d] \cap PipelineTags = tags[d] \cap PipelineTags
          /\ \A u \in {Pre, ClassifyPre, OcrLock, ClassifyLock} : u \in tags'[d] <=> u \in tags[d]
      BY <2>2, <3>1
    <3> QED BY <1>2, <2>1, <2>3, <3>2 DEF Places
  <2>6. rejects = 0 => Marked(tags'[d], d \in open')
    <3>1. tags'[d] \cap PipelineTags = tags[d] \cap PipelineTags
      BY <2>2
    <3> QED BY <1>2, <2>3, <3>1 DEF Marked
  <2>5. ASSUME NEW k \in Daemon
        PROVE  /\ Fits(k, job[k][d], tags'[d])
               /\ rejects = 0 => Owns(k, phase[k], job[k][d], tags'[d])
    <3>1. /\ QueueTag(k) \in tags'[d] <=> QueueTag(k) \in tags[d]
          /\ Lock(k) \in tags'[d] <=> Lock(k) \in tags[d]
      BY <2>2, Kinds
    <3> QED BY <2>1, <2>3, <3>1 DEF Fits, BusyWith, Owns, Working
  <2> QED BY <1>2, <1>6, <2>4, <2>5, <2>6 DEF Good
<1> QED BY <1>5, <1>6

LEMMA EnqueueGood ==
  ASSUME TypeOK, Deployment, \A e \in Followed : Good(e), NEW d \in Doc, d \in Followed,
         ~InHand(d), ~InQueue(d), Enqueue(d)
  PROVE  \A e \in Followed : Good(e)'
<1> DEFINE W == (tags[d] \ {Error}) \cup {Pre}
<1>1. /\ tags' = [tags EXCEPT ![d] = W] /\ open' = open \cup {d} /\ UNCHANGED <<swap, job, phase, rejects>>
  BY DEF Enqueue, Queues, daemons
<1>2. swap[d] = {} /\ swap' = [swap EXCEPT ![d] = {}]
  BY <1>1 DEF InHand, TypeOK
<1>3. tags[d] \cap {Pre, ClassifyPre} = {} /\ tags[d] \cap Locks = {} /\ NoTag \notin tags[d]
  BY AtRest, NoSuchTag DEF InQueue
<1>4. /\ Pre \notin Locks \cup {NoTag, ClassifyPre} /\ Pre \in PipelineTags
      /\ OcrLock \in Locks \cup {NoTag} /\ ClassifyLock \in Locks \cup {NoTag}
  BY RequiredTagsAreSet DEF Deployment, PipelineTags, Locks
<1>5. W \cap Locks = {} /\ NoTag \notin W /\ Pre \in W /\ ClassifyPre \notin W
  BY <1>3, <1>4
<1> HIDE DEF W
<1>6. OcrLock \notin W /\ ClassifyLock \notin W
  BY <1>4, <1>5
<1>7. Places(W, d \in open', {})
  BY <1>1, <1>4, <1>5, <1>6 DEF Places
<1>8. Marked(W, d \in open')
  BY <1>4, <1>5 DEF Marked
<1> QED BY <1>1, <1>2, <1>5, <1>7, <1>8, RestWrite

\* A request is asked of the tags it will replace.
LEMMA RequeueGood ==
  ASSUME TypeOK, Deployment, \A e \in Followed : Good(e), NEW d \in Doc, d \in Followed,
         ~InQueue(d), Requeue(d)
  PROVE  \A e \in Followed : Good(e)'
<1>1. UNCHANGED <<tags, open, job, phase, rejects>>
  BY DEF Requeue, Queues, daemons
<1>2. PICK S \in {Reclassified(tags[d]), Retranscribed(tags[d])} : swap' = [swap EXCEPT ![d] = S]
  BY DEF Requeue
<1>3. tags[d] \cap {Pre, ClassifyPre} = {} /\ tags[d] \cap Locks = {} /\ NoTag \notin tags[d]
  BY AtRest, NoSuchTag DEF InQueue
<1>4. tags' = [tags EXCEPT ![d] = tags[d]]
  BY <1>1 DEF TypeOK
<1>5. Places(tags[d], d \in open, swap[d]) /\ (rejects = 0 => Marked(tags[d], d \in open))
  BY DEF Good
<1>6. Places(tags[d], d \in open', S) /\ (rejects = 0 => Marked(tags[d], d \in open'))
  BY <1>1, <1>2, <1>3, <1>5 DEF Places
<1> QED BY <1>1, <1>2, <1>3, <1>4, <1>6, RestWrite

LEMMA RequeueWriteGood ==
  ASSUME TypeOK, Deployment, \A e \in Followed : Good(e), NEW d \in Doc, d \in Followed,
         RequeueWrite(d)
  PROVE  \A e \in Followed : Good(e)'
<1> DEFINE W == swap[d]
<1>1. /\ tags' = [tags EXCEPT ![d] = W] /\ swap' = [swap EXCEPT ![d] = {}]
      /\ open' = open \cup {d} /\ UNCHANGED <<job, phase, rejects>> /\ swap[d] # {}
  BY DEF RequeueWrite, daemons, budgets
<1>2. /\ tags[d] \cap {Pre, ClassifyPre} = {}
      /\ W \in {Reclassified(tags[d]), Retranscribed(tags[d])}
  BY <1>1 DEF Good, Places
<1>3. ~InQueue(d) /\ tags[d] \cap Locks = {} /\ NoTag \notin tags[d]
  <2>1. ~InQueue(d)
    BY <1>2 DEF InQueue
  <2> QED BY <2>1, AtRest, NoSuchTag
<1>4. /\ {Pre, ClassifyPre} \cap (Locks \cup {NoTag}) = {} /\ {Pre, ClassifyPre} \subseteq PipelineTags
      /\ OcrLock \in Locks \cup {NoTag} /\ ClassifyLock \in Locks \cup {NoTag} /\ Pre # ClassifyPre
  BY RequiredTagsAreSet DEF Deployment, PipelineTags, Locks
<1>5. /\ W \cap Locks = {} /\ NoTag \notin W
      /\ W \cap {Pre, ClassifyPre} \in {{Pre}, {ClassifyPre}}
  <2>1. CASE W = Reclassified(tags[d])
    BY <1>2, <1>3, <1>4, <2>1 DEF Reclassified
  <2>2. CASE W = Retranscribed(tags[d])
    BY <1>2, <1>3, <1>4, <2>2 DEF Retranscribed
  <2> QED BY <1>2, <2>1, <2>2
<1> HIDE DEF W
<1>6. OcrLock \notin W /\ ClassifyLock \notin W
  BY <1>4, <1>5
<1>7. Places(W, d \in open', {})
  BY <1>1, <1>4, <1>5, <1>6 DEF Places
<1>8. Marked(W, d \in open')
  BY <1>4, <1>5 DEF Marked
<1> QED BY <1>1, <1>3, <1>5, <1>7, <1>8, RestWrite

LEMMA InitGood ==
  ASSUME Init, Deployment
  PROVE  \A d \in Doc : Good(d)
<1> SUFFICES ASSUME NEW d \in Doc PROVE Good(d)
  OBVIOUS
<1>1. PICK queue \in [Doc -> {{}, {Pre}, {ClassifyPre}}] :
        tags = [e \in Doc |-> queue[e] \cup wanted[e]]
  BY DEF Init
<1>2. /\ tags[d] = queue[d] \cup wanted[d] /\ queue[d] \in {{}, {Pre}, {ClassifyPre}}
      /\ wanted[d] \subseteq UserTag /\ swap[d] = {} /\ (d \in open <=> tags[d] # wanted[d])
      /\ \A k \in Daemon : job[k][d] = NoJob /\ phase[k] = "down"
  BY <1>1 DEF Init
<1>3. /\ {Pre, ClassifyPre} \cap (Locks \cup {NoTag}) = {} /\ {Pre, ClassifyPre} \subseteq PipelineTags
      /\ OcrLock \in Locks \cup {NoTag} /\ ClassifyLock \in Locks \cup {NoTag} /\ Pre # ClassifyPre
      /\ UserTag \cap (PipelineTags \cup {NoTag}) = {} /\ Locks \subseteq PipelineTags
  BY RequiredTagsAreSet, UserTagsAreOther DEF Deployment, PipelineTags, Locks
<1>4. OcrLock \notin tags[d] /\ ClassifyLock \notin tags[d] /\ tags[d] \cap PipelineTags = queue[d]
  BY <1>2, <1>3
<1>5. d \in open <=> queue[d] # {}
  BY <1>2, <1>3
<1>6. tags[d] \cap {Pre, ClassifyPre} = queue[d]
  BY <1>2, <1>3, <1>4
<1>7. Places(tags[d], d \in open, swap[d])
  BY <1>2, <1>3, <1>4, <1>5, <1>6 DEF Places
<1>9. Marked(tags[d], d \in open)
  BY <1>4, <1>5 DEF Marked
<1>8. \A k \in Daemon : Fits(k, job[k][d], tags[d]) /\ Owns(k, phase[k], job[k][d], tags[d])
  <2> SUFFICES ASSUME NEW k \in Daemon
               PROVE  Fits(k, job[k][d], tags[d]) /\ Owns(k, phase[k], job[k][d], tags[d])
    OBVIOUS
  <2>1. job[k][d].step = "idle" /\ Lock(k) \notin tags[d]
    BY <1>2, <1>4, NoJobFields DEF Lock
  <2> QED BY <2>1, RestFits
<1> QED BY <1>7, <1>8, <1>9 DEF Good

\* What no lost request so far means for the next step.
LEMMA NoFailure ==
  ASSUME TypeOK, Counted, Faultless'
  PROVE  Faultless /\ ~Fails /\ (Served \/ Refused)
<1>1. faults \in Nat /\ rejects \in Nat /\ faults' = 0
  BY BudgetsAreNatural DEF TypeOK, Faultless
<1>2. ~Fails
  BY <1>1 DEF Fails
<1>3. faults = 0 /\ (Fine \/ Refused)
  BY <1>1, <1>2 DEF Counted, Fine, Refused
<1>4. Fine => ~Refused
  BY <1>1 DEF Fine, Refused
<1> QED BY <1>2, <1>3, <1>4 DEF Served, Faultless

\* A daemon's step is served, or it is a refused write.
LifeStep(i) == \/ Boot(i) \/ RecoverEnds(i) \/ Poll(i) \/ StartBatch(i) \/ EndBatch(i) \/ Exit(i)
               \/ Shutdown(i) \/ Crash(i)

LEMMA DaemonCases ==
  ASSUME TypeOK, Phased, Faultless', NEW i \in Daemon, DaemonStep(i) \/ Halt(i)
  PROVE  /\ Faultless /\ ~Fails
         /\ \/ Served /\ (LifeStep(i) \/ \E d \in Doc : JobStep(i, d))
            \/ Refused /\ \E d \in Doc : JobStep(i, d)
<1>1. Counted
  <2>1. CASE \E d \in Doc : JobStep(i, d)
    BY <2>1, JobStepMoves DEF Move
  <2>2. CASE LifeStep(i)
    BY <2>2, LifeLives DEF Lives, LifeStep
  <2> QED BY <2>1, <2>2 DEF DaemonStep, Halt, LifeStep
<1>2. Faultless /\ ~Fails /\ (Served \/ Refused)
  BY <1>1, NoFailure
<1>3. Refused => ~Fine
  BY BudgetsAreNatural DEF Refused, Fine, TypeOK
<1>4. ~Fails /\ ~Fine => ~LifeStep(i)
  BY DEF LifeStep, Boot, RecoverEnds, Poll, StartBatch, EndBatch, Exit, Shutdown, Crash, Fine
<1> QED BY <1>2, <1>3, <1>4 DEF DaemonStep, Halt, LifeStep

\* A step of one document's user or job leaves the other documents alone.
Alone(d) == /\ \A e \in Doc \ {d} :
                 /\ tags'[e] = tags[e] /\ content'[e] = content[e] /\ swap'[e] = swap[e]
                 /\ e \in open' <=> e \in open
                 /\ \A k \in Daemon : job'[k][e] = job[k][e]
                 /\ spent'[e] = spent[e]
            /\ UNCHANGED <<phase, stopping>>
            /\ queued' \in {queued, queued + 1} /\ stops' = stops
            /\ rejects' \in {rejects, rejects + 1}

LEMMA UserAlone ==
  ASSUME TypeOK, NEW d \in Doc, CalmUser(d)
  PROVE  Alone(d) /\ \A e \in Followed : ~Misled(e)
<1>1. /\ UNCHANGED <<phase, stopping, job, content, spent, stops, rejects>>
      /\ queued' \in {queued, queued + 1}
  BY DEF CalmUser, Edit, AddTag, RemoveTag, Edits, Enqueue, Requeue, Queues, RequeueWrite, daemons,
         budgets
<1>2. \A e \in Doc \ {d} : /\ tags'[e] = tags[e] /\ swap'[e] = swap[e]
                           /\ e \in open' <=> e \in open
  BY DEF CalmUser, Edit, AddTag, RemoveTag, Edits, Enqueue, Requeue, Queues, RequeueWrite, TypeOK
<1>3. UNCHANGED suggested \/ \E t \in UserTag : suggested' = [suggested EXCEPT ![d] = @ \ {t}]
  BY DEF CalmUser, Edit, AddTag, RemoveTag, Enqueue, Requeue, Queues, RequeueWrite
<1>4. \A e \in Doc : suggested'[e] \cap PipelineTags = suggested[e] \cap PipelineTags
  BY <1>3, UserTagsAreOther DEF TypeOK
<1> QED BY <1>1, <1>2, <1>4 DEF Alone, Followed, Misled, Misleads

LEMMA JobAlone ==
  ASSUME TypeOK, Phased, NEW i \in Daemon, NEW d \in Doc, JobStep(i, d)
  PROVE  Alone(d) /\ \A e \in Followed : ~Misled(e)
<1>1. PICK j, W, b : Move(i, d, j, W, b)
  BY JobStepMoves
<1>2. /\ j \in Job /\ Set(i, d, j) /\ W \in SUBSET Tag /\ b \in Bodies
      /\ UNCHANGED archive \/ Patch(d, W, b)
      /\ Others /\ (UNCHANGED spent \/ Spend(i, d)) /\ open' \in {open, open \ {d}}
      /\ Counted /\ Grown
  BY <1>1 DEF Move
<1>3. \A e \in Doc \ {d} : tags'[e] = tags[e] /\ content'[e] = content[e]
  BY <1>2 DEF archive, Patch, TypeOK
<1>4. \A e \in Doc \ {d}, k \in Daemon : job'[k][e] = job[k][e]
  BY <1>2, SetJob
<1>5. \A e \in Doc \ {d} : spent'[e] = spent[e] /\ (e \in open' <=> e \in open)
  BY <1>2 DEF Spend, TypeOK
<1>6. UNCHANGED <<swap, phase, stopping, queued, stops>> /\ rejects' \in {rejects, rejects + 1}
  BY <1>2 DEF Others, Counted, Fine, Fails, Refused
<1>7. \A e \in Followed : ~Misled(e)
  BY <1>2, FollowedBefore
<1> QED BY <1>3, <1>4, <1>5, <1>6, <1>7 DEF Alone

\* One that works on a misled document leaves the others as they were.
LEMMA AloneGood ==
  ASSUME TypeOK, NEW d \in Doc, d \notin Followed, Alone(d), \A e \in Followed : Good(e)
  PROVE  \A e \in Followed : Good(e)'
<1>1. rejects' = 0 => rejects = 0
  <2>1. rejects \in Nat
    BY BudgetsAreNatural DEF TypeOK
  <2> QED BY <2>1 DEF Alone
<1> SUFFICES ASSUME NEW e \in Doc \ {d}, Good(e) PROVE Good(e)'
  BY DEF Followed
<1> QED BY <1>1, Untouched DEF Alone

LEMMA LifeFollows ==
  ASSUME NEW i \in Daemon, LifeStep(i)
  PROVE  \A e \in Followed : ~Misled(e)
<1>1. UNCHANGED suggested
  BY DEF LifeStep, Boot, RecoverEnds, Poll, StartBatch, EndBatch, Exit, Shutdown, Crash, Life, ghosts
<1> QED BY <1>1 DEF Followed, Misled

\* The documents followed have been followed so far.
LEMMA FollowedOn ==
  ASSUME TypeOK, Phased, [CalmNext]_vars
  PROVE  \A e \in Followed : e \in Doc /\ ~Misled(e)
<1>1. CASE UNCHANGED vars
  BY <1>1 DEF Followed, Misled, vars, ghosts
<1>2. CASE \E d \in Doc : CalmUser(d)
  BY <1>2, UserAlone DEF Followed
<1>3. CASE \E i \in Daemon : LifeStep(i) \/ \E d \in Doc : JobStep(i, d)
  BY <1>3, LifeFollows, JobAlone DEF Followed
<1> QED BY <1>1, <1>2, <1>3 DEF CalmNext, DaemonStep, Halt, LifeStep

LEMMA CalmGood ==
  ASSUME TypeOK, Phased, Deployment, [CalmNext]_vars, Faultless',
         Faultless => \A e \in Followed : Good(e)
  PROVE  Faultless /\ \A e \in Followed : Good(e)'
<1>1. CASE UNCHANGED vars
  <2>1. Faultless
    BY <1>1 DEF Faultless, vars, budgets
  <2>2. UNCHANGED <<tags, open, swap, job, phase, rejects>>
    BY <1>1 DEF vars, archive, daemons, ghosts, budgets
  <2>3. \A e \in Followed : Good(e)
    BY <2>1
  <2> QED BY <2>1, <2>2, <2>3 DEF Good
<1>2. CASE \E d \in Doc : CalmUser(d)
  <2>1. PICK d \in Doc : CalmUser(d)
    BY <1>2
  <2>2. Faultless
    BY <2>1 DEF Faultless, CalmUser, Edit, AddTag, RemoveTag, Edits, Enqueue, Requeue, Queues, RequeueWrite, budgets
  <2>3. \A e \in Followed : Good(e)
    BY <2>2
  <2>4. CASE d \in Followed
    BY <2>1, <2>2, <2>3, <2>4, EditGood, EnqueueGood, RequeueGood, RequeueWriteGood DEF CalmUser
  <2>5. CASE d \notin Followed
    BY <2>1, <2>2, <2>3, <2>5, UserAlone, AloneGood
  <2> QED BY <2>4, <2>5
<1>3. CASE \E i \in Daemon : DaemonStep(i) \/ Halt(i)
  <2>1. PICK i \in Daemon : DaemonStep(i) \/ Halt(i)
    BY <1>3
  <2>2. Faultless /\ \A e \in Followed : Good(e)
    BY <2>1, DaemonCases
  <2>3. CASE Served /\ LifeStep(i)
    BY <2>2, <2>3, LifeGood DEF LifeStep
  <2>4. ASSUME NEW d \in Doc, JobStep(i, d), Served \/ (Refused /\ ~Fails)
        PROVE  \A e \in Followed : Good(e)'
    <3>1. CASE d \in Followed
      BY <2>2, <2>4, <3>1, JobStepGood, RefusedGood
    <3>2. CASE d \notin Followed
      BY <2>2, <2>4, <3>2, JobAlone, AloneGood
    <3> QED BY <3>1, <3>2
  <2> QED BY <2>1, <2>2, <2>3, <2>4, DaemonCases
<1> QED BY <1>1, <1>2, <1>3 DEF CalmNext

\* The invariant, in every deployment: its last part speaks of those without
\* replicas, until a first request is lost.
LEMMA Invariance == CalmSpec => []IInv
<1>1. Init => IInv
  BY InitTyped, InitGood DEF IInv
<1>2. IInv /\ [CalmNext]_vars => IInv'
  <2> SUFFICES ASSUME IInv, [CalmNext]_vars PROVE IInv'
    OBVIOUS
  <2>1. TypeOK' /\ Phased' /\ UserPart'
    BY NextTyped, CalmIsNext, CalmCarries DEF IInv
  <2>2. ASSUME Deployment, Faultless' PROVE \A d \in Doc : ~Misled(d)' => Good(d)'
    <3>1. Faultless => \A e \in Followed : Good(e)
      BY <2>2, FollowedOn DEF IInv
    <3>2. \A e \in Followed : Good(e)'
      BY <2>2, <3>1, CalmGood DEF IInv
    <3> QED BY <3>2 DEF Followed
  <2> QED BY <2>1, <2>2 DEF IInv
<1> QED BY <1>1, <1>2, PTL DEF CalmSpec

LEMMA NoneInAll ==
  ASSUME NEW m \in Nat, NEW n \in Nat PROVE m + n = 0 <=> m = 0 /\ n = 0
OBVIOUS

\* Until a first request is lost or refused.
Untroubled == Faultless /\ rejects = 0

LEMMA UntroubledIsNoFault ==
  ASSUME TypeOK PROVE Untroubled <=> faults + rejects = 0
<1>1. faults \in Nat /\ rejects \in Nat
  BY BudgetsAreNatural DEF TypeOK
<1> QED BY <1>1, NoneInAll DEF Faultless, Untroubled

LEMMA GoodIsSound ==
  ASSUME IInv, Deployment PROVE TagsAreSound
<1>1. TypeOK /\ (Untroubled <=> faults + rejects = 0) /\ (Untroubled => \A d \in Doc : ~Misled(d) => Good(d) /\ rejects = 0)
  BY UntroubledIsNoFault DEF IInv, Untroubled
<1>2. ASSUME Untroubled, NEW d \in Doc, NEW t \in Locks, t \in tags[d], ~Misled(d)
      PROVE  \E i \in Daemon : /\ Lock(i) = t
                               /\ \/ phase[i] = "down"
                                  \/ At(i, d, "recover")
                                  \/ job[i][d].step \in Holding
  <2>1. /\ Places(tags[d], d \in open, swap[d])
        /\ \A i \in Daemon : Owns(i, phase[i], job[i][d], tags[d])
    BY <1>1, <1>2 DEF Good
  <2>2. \E i \in Daemon : Lock(i) = t
    <3>1. CASE t = OcrLock
      <4>1. PICK i \in OcrDaemon : TRUE
        BY <1>2, <2>1, <3>1 DEF Places
      <4> QED BY <3>1, <4>1 DEF Lock, Daemon
    <3>2. CASE t = ClassifyLock
      <4>1. PICK i \in Classifier : TRUE
        BY <1>2, <2>1, <3>2 DEF Places
      <4> QED BY <3>2, <4>1, DaemonsAreDistinct DEF Lock, Daemon
    <3> QED BY <1>2, <3>1, <3>2 DEF Locks
  <2> QED BY <1>2, <2>1, <2>2 DEF Owns, At
<1>3. LocksHaveOwners
  BY <1>1, <1>2 DEF LocksHaveOwners
<1>4. OpenDocumentsAreMarked
  <2> SUFFICES ASSUME faults + rejects = 0, NEW d \in open, ~Misled(d)
               PROVE  tags[d] \cap PipelineTags # {}
    BY DEF OpenDocumentsAreMarked
  <2>1. Marked(tags[d], d \in open)
    BY <1>1 DEF Good, TypeOK
  <2> QED BY <2>1 DEF Marked
<1> QED BY <1>1, <1>3, <1>4 DEF TagsAreSound

\* claim_processing_tag, release_processing_tag, recover_stale_locks and the
\* write-backs each replace a tag set they read before.  With one daemon of each
\* kind, an error tag and the sweep at start, and as long as no request failed,
\* a lock never lacks a job that will release it or a daemon that will sweep it,
\* and no queued document loses its last mark, whatever is stopped or killed
\* between two of the requests, and whatever the model of the classifier picks
\* for other documents.  (Of a document whose save added a pipeline tag picked by
\* the model, classifier/worker.py:447, nothing is said.)
THEOREM TagsSound ==
  ASSUME Deployment PROVE CalmSpec => []TagsAreSound
<1>1. IInv => TagsAreSound
  BY GoodIsSound
<1> QED BY <1>1, Invariance, PTL

\* The write-backs, the sweep and the release write tags that were read a while
\* ago: none of them puts a document that has been classified back in a queue,
\* as long as the model has picked no pipeline tag for it.
THEOREM ClassifiedStaysFinal ==
  ASSUME Deployment PROVE CalmSpec => ClassifiedIsFinal
<1>1. IInv' => \A d \in Doc : d \notin open /\ d \notin open' /\ faults' = 0 /\ ~Misled(d)'
                 => tags'[d] \cap {Pre, ClassifyPre} \subseteq tags[d]
  <2> SUFFICES ASSUME IInv', NEW d \in Doc, d \notin open', faults' = 0, ~Misled(d)'
               PROVE  tags'[d] \cap {Pre, ClassifyPre} = {}
    OBVIOUS
  <2>1. Places(tags[d], d \in open, swap[d])'
    BY DEF IInv, Good, Faultless
  <2> QED BY <2>1 DEF Places
<1> QED BY <1>1, Invariance, PTL DEF ClassifiedIsFinal

-----------------------------------------------------------------------------
(* Model calls without failures: what a document still owes, and who pays   *)

CallKinds == {"ocr", "classify"}

\* What a job knows of the content of its document, and that it is no error.
Knows(i, j, set, text) ==
  /\ j.step \in {"claim", "lock", "verify", "work", "refresh", "write"} => Error \notin set
  /\ j.step \in {"claim", "lock", "verify", "work"} => j.text = text
  /\ IF i \in OcrDaemon
     THEN /\ j.step \in {"refresh", "write"} /\ j.plan # "error" =>
               j.body = "text" \/ (j.body = "keep" /\ text # "empty")
          /\ j.step = "write" => j.plan # "error"
     ELSE j.step = "write" /\ j.plan = "requeue" => text = "empty"

\* A job that will make no more call: it has made it, it gives the document up,
\* or it is over and its daemon takes no other batch.
Past(j, stop) ==
  \/ j.step \in {"refresh", "final"}
  \/ j.step = "write" /\ j.plan # "requeue"
  \/ stop /\ j.step \in {"release", "unlock", "done"}

\* A document on its way to a call of kind k: the classifier sends an empty one
\* back to be transcribed.
Owing(k, set, text, request) ==
  \/ request # {}
  \/ /\ Error \notin set
     /\ Pre \in set \/ (ClassifyPre \in set /\ (k = "classify" \/ text = "empty"))

Spared(d, k) == \E i \in Daemon : Kind(i) = k /\ Past(job[i][d], stopping[i])
Due(d, k) == IF Owing(k, tags[d], content[d], swap[d]) /\ ~Spared(d, k) THEN 1 ELSE 0

\* A daemon that was told to stop may repeat a call after its restart.
Winding(k) == \E i \in Daemon : Kind(i) = k /\ stopping[i] /\ phase[i] \in {"list", "batch"}
Reserve(k) == IF Winding(k) THEN 1 ELSE 0

\* What may be the reason for a call.
Grounds == queued + rejects + stops

Known(d) == \A i \in Daemon : Knows(i, job[i][d], tags[d], content[d])
Paid(d) == \A k \in CallKinds : spent[d][k] + Due(d, k) + Reserve(k) <= 1 + Grounds

LEMMA Counters ==
  ASSUME TypeOK, NEW d \in Doc, NEW k \in CallKinds
  PROVE  spent[d][k] \in Nat /\ Grounds \in Nat /\ Due(d, k) \in {0, 1} /\ Reserve(k) \in {0, 1}
<1>1. spent[d] \in [{"ocr", "classify"} -> Nat]
  BY DEF TypeOK
<1>2. queued \in Nat /\ rejects \in Nat /\ stops \in Nat
  BY BudgetsAreNatural DEF TypeOK
<1>3. Grounds \in Nat
  BY <1>2 DEF Grounds
<1> QED BY <1>1, <1>3 DEF CallKinds, Due, Reserve

\* Sums of the ledger.
LEMMA SameSum ==
  ASSUME NEW s \in Nat, NEW g \in Nat, NEW a \in {0, 1}, NEW b \in {0, 1},
         NEW u \in {0, 1}, NEW v \in {0, 1}, s + a + b <= 1 + g, u + v <= a + b
  PROVE  s + u + v <= 1 + g
OBVIOUS

LEMMA CallSum ==
  ASSUME NEW s \in Nat, NEW g \in Nat, NEW b \in {0, 1}, s + 1 + b <= 1 + g
  PROVE  (s + 1) + 0 + b <= 1 + g
OBVIOUS

LEMMA MoreSum ==
  ASSUME NEW s \in Nat, NEW g \in Nat, NEW a \in {0, 1}, NEW b \in {0, 1},
         NEW u \in {0, 1}, NEW v \in {0, 1}, s + a + b <= 1 + g, u + v <= a + b + 1
  PROVE  s + u + v <= 1 + (g + 1)
OBVIOUS

\* The grounds only grow.
LEMMA LaterSum ==
  ASSUME NEW s \in Nat, NEW g \in Nat, NEW a \in {0, 1}, NEW b \in {0, 1}, NEW h \in Nat,
         s + a + b <= 1 + g, g <= h
  PROVE  s + a + b <= 1 + h
OBVIOUS

\* There is one daemon of a kind.
LEMMA OneOfAKind ==
  ASSUME Deployment, NEW i \in Daemon, NEW k \in Daemon, Kind(i) = Kind(k)
  PROVE  i = k
<1>1. i \in OcrDaemon <=> k \in OcrDaemon
  BY DEF Kind
<1> QED BY <1>1 DEF Deployment, Daemon

LEMMA KindKnown ==
  ASSUME NEW i \in Daemon PROVE Kind(i) \in CallKinds
BY DEF Kind, CallKinds

\* A step of one job, as the jobs of its document see it.
LEMMA JobKnown ==
  ASSUME TypeOK, Deployment, \A e \in Followed : Known(e), NEW i \in Daemon, NEW d \in Doc,
         d \in Followed, Good(d),
         NEW j \in Job, Set(i, d, j),
         \A e \in Doc \ {d} : tags'[e] = tags[e] /\ content'[e] = content[e],
         (tags'[d] = tags[d] /\ content'[d] = content[d]) \/ QueueTag(i) \in tags[d],
         Knows(i, j, tags'[d], content'[d])
  PROVE  \A e \in Followed : Known(e)'
<1> SUFFICES ASSUME NEW e \in Doc, e \in Followed, NEW k \in Daemon
             PROVE  Knows(k, job'[k][e], tags'[e], content'[e])
  BY DEF Known, Followed
<1>1. /\ job'[i][d] = j
      /\ \A m \in Daemon, f \in Doc : m # i \/ f # d => job'[m][f] = job[m][f]
  BY SetJob
<1>2. Knows(k, job[k][e], tags[e], content[e])
  BY DEF Known
<1>3. CASE e # d
  BY <1>1, <1>2, <1>3
<1>4. CASE e = d /\ k = i
  BY <1>1, <1>4
<1>5. CASE e = d /\ k # i /\ tags'[d] = tags[d] /\ content'[d] = content[d]
  BY <1>1, <1>2, <1>5
<1>6. CASE e = d /\ k # i /\ QueueTag(i) \in tags[d]
  <2>1. job[k][d].step \in {"idle", "release", "done"} /\ job'[k][e] = job[k][d]
    BY <1>1, <1>6, Exclusive
  <2> QED BY <2>1 DEF Knows
<1> QED BY <1>3, <1>4, <1>5, <1>6

\* A step of one job, as the ledger sees it: it makes no call and brings its
\* document nearer to none, or it makes the call that is owing.
LEMMA JobPaid ==
  ASSUME TypeOK, Deployment, \A e \in Followed : Paid(e), NEW i \in Daemon, NEW d \in Doc,
         d \in Followed,
         NEW j \in Job, Set(i, d, j),
         \A e \in Doc \ {d} : tags'[e] = tags[e] /\ content'[e] = content[e],
         UNCHANGED <<swap, phase, stopping>>, Grounds' = Grounds,
         \A k \in CallKinds : Owing(k, tags'[d], content'[d], swap[d]) =>
                                Owing(k, tags[d], content[d], swap[d]),
         \/ /\ UNCHANGED spent
            /\ \/ ~Past(job[i][d], stopping[i]) \/ Past(j, stopping[i])
               \/ ~Owing(Kind(i), tags'[d], content'[d], swap[d])
         \/ /\ Spend(i, d) /\ Owing(Kind(i), tags[d], content[d], swap[d])
            /\ ~Past(job[i][d], stopping[i]) /\ Past(j, stopping[i])
  PROVE  \A e \in Followed : Paid(e)'
<1> SUFFICES ASSUME NEW e \in Doc, e \in Followed, NEW k \in CallKinds
             PROVE  spent'[e][k] + Due(e, k)' + Reserve(k)' <= 1 + Grounds
  BY DEF Paid, Followed
<1>1. /\ job'[i][d] = j
      /\ \A m \in Daemon, f \in Doc : m # i \/ f # d => job'[m][f] = job[m][f]
  BY SetJob
<1>2. Reserve(k)' = Reserve(k)
  BY DEF Reserve, Winding
<1>3. /\ spent[e][k] \in Nat /\ Grounds \in Nat /\ Due(e, k) \in {0, 1}
      /\ Reserve(k) \in {0, 1} /\ Due(e, k)' \in {0, 1}
      /\ spent[e][k] + Due(e, k) + Reserve(k) <= 1 + Grounds
  <2>1. Due(e, k)' \in {0, 1}
    BY DEF Due
  <2> QED BY <2>1, Counters DEF Paid
<1>4. CASE spent'[e][k] = spent[e][k] /\ Due(e, k)' <= Due(e, k)
  <2>1. Due(e, k)' + Reserve(k) <= Due(e, k) + Reserve(k)
    BY <1>3, <1>4
  <2> QED BY <1>2, <1>3, <1>4, <2>1, SameSum
<1>5. CASE e # d
  <2>1. Spared(e, k)' <=> Spared(e, k)
    BY <1>1, <1>5 DEF Spared
  <2>2. tags'[e] = tags[e] /\ content'[e] = content[e]
    BY <1>5
  <2>3. Due(e, k)' = Due(e, k)
    BY <2>1, <2>2 DEF Due
  <2>4. spent'[e] = spent[e]
    BY <1>5 DEF Spend, TypeOK
  <2> QED BY <1>3, <1>4, <2>3, <2>4
<1>6. CASE e = d /\ k # Kind(i)
  <2>1. \A m \in Daemon : Kind(m) = k => job'[m][d] = job[m][d]
    BY <1>1, <1>6
  <2>2. Spared(d, k)' <=> Spared(d, k)
    BY <2>1 DEF Spared
  <2>3. Due(e, k)' <= Due(e, k)
    BY <1>6, <2>2 DEF Due
  <2>4. spent'[d][k] = spent[d][k]
    <3>1. spent \in [Doc -> [{"ocr", "classify"} -> Nat]]
      BY DEF TypeOK
    <3> QED BY <1>6, <3>1 DEF Spend, CallKinds
  <2> QED BY <1>4, <1>6, <2>3, <2>4
<1>7. CASE e = d /\ k = Kind(i)
  <2>1. \A m \in Daemon : Kind(m) = k => m = i
    BY <1>7, OneOfAKind
  <2>2. (Spared(d, k) <=> Past(job[i][d], stopping[i])) /\ (Spared(d, k)' <=> Past(j, stopping[i]))
    BY <1>1, <1>7, <2>1 DEF Spared
  <2>3. CASE UNCHANGED spent /\ Due(e, k)' <= Due(e, k)
    BY <1>4, <2>3
  <2>4. CASE UNCHANGED spent /\ (\/ ~Past(job[i][d], stopping[i]) \/ Past(j, stopping[i])
                                 \/ ~Owing(Kind(i), tags'[d], content'[d], swap[d]))
    <3>1. Due(e, k)' <= Due(e, k)
      BY <1>7, <2>2, <2>4 DEF Due
    <3> QED BY <2>3, <2>4, <3>1
  <2>5. CASE /\ Spend(i, d) /\ Owing(Kind(i), tags[d], content[d], swap[d])
             /\ ~Past(job[i][d], stopping[i]) /\ Past(j, stopping[i])
    <3>1. Due(e, k) = 1 /\ Due(e, k)' = 0
      BY <1>7, <2>2, <2>5 DEF Due
    <3>2. spent'[d][k] = spent[d][k] + 1
      <4>1. spent \in [Doc -> [{"ocr", "classify"} -> Nat]]
        BY DEF TypeOK
      <4> QED BY <1>7, <2>5, <4>1 DEF Spend, CallKinds
    <3>3. (spent[d][k] + 1) + 0 + Reserve(k) <= 1 + Grounds
      BY <1>3, <1>7, <3>1, CallSum
    <3> QED BY <1>2, <1>7, <3>1, <3>2, <3>3
  <2> QED BY <2>4, <2>5
<1> QED BY <1>5, <1>6, <1>7

\* The books of the documents that are followed, before and after a step.
Books == \A e \in Followed : Known(e) /\ Paid(e)
BooksAfter == \A e \in Followed : Known(e)' /\ Paid(e)'

LEMMA GroundsStay ==
  ASSUME Others, Fine PROVE Grounds' = Grounds
BY DEF Others, Fine, Grounds

\* A served request that writes nothing.
LEMMA QuietLedger ==
  ASSUME TypeOK, Deployment, \A e \in Followed : Good(e), Books,
         NEW i \in Daemon, NEW d \in Doc, d \in Followed, NEW j \in Job, Set(i, d, j), Others,
         Fine, UNCHANGED archive,
         Knows(i, j, tags[d], content[d]),
         \/ UNCHANGED spent /\ (~Past(job[i][d], stopping[i]) \/ Past(j, stopping[i]))
         \/ /\ Spend(i, d) /\ Owing(Kind(i), tags[d], content[d], swap[d])
            /\ ~Past(job[i][d], stopping[i]) /\ Past(j, stopping[i])
  PROVE  BooksAfter
<1>1. UNCHANGED <<tags, content, swap, phase, stopping>> /\ Grounds' = Grounds
  BY GroundsStay DEF archive, Others
<1>2. \A e \in Followed : Known(e)'
  BY <1>1, JobKnown DEF Books
<1>3. \A e \in Followed : Paid(e)'
  BY <1>1, JobPaid DEF Books
<1> QED BY <1>2, <1>3 DEF Books, BooksAfter

\* A served request that writes tags W and body b.
After(d, b) == IF b = "keep" THEN content[d] ELSE b

LEMMA WriteLedger ==
  ASSUME TypeOK, Deployment, \A e \in Followed : Good(e), Books,
         NEW i \in Daemon, NEW d \in Doc, d \in Followed, QueueTag(i) \in tags[d],
         NEW j \in Job, Set(i, d, j), Others, Fine, UNCHANGED spent,
         NEW W, NEW b \in Bodies, Patch(d, W, b), Knows(i, j, W, After(d, b)),
         \A k \in CallKinds : Owing(k, W, After(d, b), {}) => Owing(k, tags[d], content[d], {}),
         \/ ~Past(job[i][d], stopping[i]) \/ Past(j, stopping[i])
         \/ ~Owing(Kind(i), W, After(d, b), {})
  PROVE  BooksAfter
<1>1. UNCHANGED <<swap, phase, stopping>> /\ Grounds' = Grounds /\ swap[d] = {}
  BY GroundsStay, Exclusive DEF Others
<1>2. /\ tags'[d] = W /\ content'[d] = After(d, b)
      /\ \A e \in Doc \ {d} : tags'[e] = tags[e] /\ content'[e] = content[e]
  BY DEF Patch, After, TypeOK
<1>3. \A e \in Followed : Known(e)'
  BY <1>2, JobKnown DEF Books
<1>4. \A e \in Followed : Paid(e)'
  BY <1>1, <1>2, JobPaid DEF Books
<1> QED BY <1>3, <1>4 DEF Books, BooksAfter

\* A refused request: it is itself the reason for a further call.
LEMMA RefusedLedger ==
  ASSUME TypeOK, Deployment, \A e \in Followed : Good(e), Books,
         NEW i \in Daemon, NEW d \in Doc, d \in Followed, NEW j \in Job, Set(i, d, j), Others,
         Refused,
         UNCHANGED <<archive, spent>>, Knows(i, j, tags[d], content[d])
  PROVE  BooksAfter
<1>1. UNCHANGED <<tags, content, swap, phase, stopping, spent>>
  BY DEF archive, Others
<1>2. Grounds' = Grounds + 1
  <2>1. queued \in Nat /\ rejects \in Nat /\ stops \in Nat
    BY BudgetsAreNatural DEF TypeOK
  <2> QED BY <2>1 DEF Grounds, Others, Refused
<1>3. \A e \in Followed : Known(e)'
  BY <1>1, JobKnown DEF Books
<1>4. ASSUME NEW e \in Doc, e \in Followed, NEW k \in CallKinds
      PROVE  spent'[e][k] + Due(e, k)' + Reserve(k)' <= 1 + Grounds'
  <2>1. Reserve(k)' = Reserve(k)
    BY <1>1 DEF Reserve, Winding
  <2>2. Due(e, k)' \in {0, 1}
    BY DEF Due
  <2>3. /\ spent[e][k] \in Nat /\ Grounds \in Nat /\ Due(e, k) \in {0, 1} /\ Reserve(k) \in {0, 1}
        /\ spent[e][k] + Due(e, k) + Reserve(k) <= 1 + Grounds
    BY <1>4, Counters DEF Paid, Books
  <2>4. Due(e, k)' + Reserve(k) <= Due(e, k) + Reserve(k) + 1
    BY <2>2, <2>3
  <2>5. spent[e][k] + Due(e, k)' + Reserve(k) <= 1 + (Grounds + 1)
    BY <2>2, <2>3, <2>4, MoreSum
  <2> QED BY <1>1, <1>2, <2>1, <2>5
<1>5. \A e \in Followed : Paid(e)'
  BY <1>4 DEF Paid, Followed
<1> QED BY <1>3, <1>5 DEF Books, BooksAfter

-----------------------------------------------------------------------------
(* Every request of a job keeps the books                                  *)

\* What the job of a daemon knows, and whose document it is.
LEMMA JobFacts ==
  ASSUME TypeOK, \A e \in Followed : Good(e), Books, NEW i \in Daemon, NEW d \in Doc, d \in Followed
  PROVE  /\ job[i][d] \in Job /\ tags[d] \in SUBSET Tag /\ Fits(i, job[i][d], tags[d])
         /\ Knows(i, job[i][d], tags[d], content[d]) /\ Places(tags[d], d \in open, swap[d])
BY JobFields DEF Good, Books, Known

\* A document without the error tag, in a queue of its own, owes a call.
LEMMA QueueOwes ==
  ASSUME NEW i \in Daemon, NEW set, QueueTag(i) \in set, Error \notin set, NEW text, NEW request
  PROVE  Owing(Kind(i), set, text, request)
BY DEF Owing, QueueTag, Kind, Daemon

\* Tags that differ in a lock only owe the same.
LEMMA SameOwed ==
  ASSUME Deployment, NEW i \in Daemon, NEW set, NEW W, W \cup {Lock(i)} = set \cup {Lock(i)},
         NEW k, NEW text, NEW request
  PROVE  /\ Owing(k, W, text, request) <=> Owing(k, set, text, request)
         /\ Error \in W <=> Error \in set
BY Roles DEF Owing

LEMMA RecoverBooks ==
  ASSUME TypeOK, Deployment, \A e \in Followed : Good(e), Books, NEW i \in Daemon, NEW d \in Doc,
         d \in Followed,
         Served, RecoverLock(i, d)
  PROVE  BooksAfter
<1> DEFINE W == (tags[d] \ {Lock(i)}) \cup {QueueTag(i)}
<1>1. /\ Fits(i, job[i][d], tags[d]) /\ job[i][d].step = "recover"
  BY JobFacts DEF RecoverLock, At
<1>2. QueueTag(i) \in tags[d] /\ job[i][d].seen = tags[d]
  BY <1>1 DEF Fits, BusyWith, Working
<1>3. Set(i, d, NoJob) /\ Patch(d, W, "keep") /\ Others /\ Fine /\ UNCHANGED spent
  BY <1>2 DEF RecoverLock, PatchFails, Served, NoCall
<1>4. NoJob \in Job /\ NoJob.step = "idle" /\ "keep" \in Bodies /\ Lock(i) # QueueTag(i)
  BY NoJobFields, Roles DEF Bodies
<1>5. W \cup {Lock(i)} = tags[d] \cup {Lock(i)}
  BY <1>2
<1> HIDE DEF W
<1>6. After(d, "keep") = content[d] /\ swap[d] = {}
  BY <1>2, Exclusive DEF After
<1>7. Knows(i, NoJob, W, content[d]) /\ ~Past(job[i][d], stopping[i])
  BY <1>1, <1>4 DEF Knows, Past
<1>8. \A k \in CallKinds : Owing(k, W, content[d], {}) => Owing(k, tags[d], content[d], {})
  BY <1>5, SameOwed
<1> QED BY <1>2, <1>3, <1>4, <1>6, <1>7, <1>8, WriteLedger

LEMMA StripBooks ==
  ASSUME TypeOK, Deployment, \A e \in Followed : Good(e), Books, NEW i \in Daemon, NEW d \in Doc,
         d \in Followed,
         Served, StripQueueTag(i, d)
  PROVE  BooksAfter
<1> DEFINE W == tags[d] \ {QueueTag(i), Lock(i)}
<1>1. /\ Fits(i, job[i][d], tags[d]) /\ job[i][d].step = "strip"
  BY JobFacts DEF StripQueueTag, At
<1>2. QueueTag(i) \in tags[d] /\ job[i][d].seen = tags[d]
  BY <1>1 DEF Fits, BusyWith, Working
<1>3. Set(i, d, NoJob) /\ Patch(d, W, "keep") /\ Others /\ Fine /\ UNCHANGED spent
  BY <1>2 DEF StripQueueTag, PatchFails, Served, NoCall
<1>4. NoJob \in Job /\ NoJob.step = "idle" /\ "keep" \in Bodies
  BY NoJobFields DEF Bodies
<1>5. Pre \notin W /\ ClassifyPre \notin W
  BY <1>2, Exclusive
<1> HIDE DEF W
<1>6. Knows(i, NoJob, W, After(d, "keep")) /\ ~Past(job[i][d], stopping[i])
  BY <1>1, <1>4 DEF Knows, Past
<1>7. \A k : ~Owing(k, W, After(d, "keep"), {})
  BY <1>5 DEF Owing
<1> QED BY <1>2, <1>3, <1>4, <1>6, <1>7, WriteLedger

LEMMA TakeBooks ==
  ASSUME TypeOK, Deployment, \A e \in Followed : Good(e), Books, NEW i \in Daemon, NEW d \in Doc,
         d \in Followed,
         Served, Take(i, d)
  PROVE  BooksAfter
<1> DEFINE read == [job[i][d] EXCEPT !.seen = tags[d], !.base = tags[d], !.text = content[d]]
<1>1. /\ Others /\ Fine /\ UNCHANGED <<archive, spent>> /\ job[i][d].step = "queued"
  BY DEF Take, Read, NoCall, Served, At
<1>2. read \in Job /\ read.text = content[d]
  BY JobFields DEF Job
<1>3. ~Past(job[i][d], stopping[i])
  BY <1>1 DEF Past
<1>4. ASSUME NEW q \in Job, Set(i, d, q), q.text = content[d],
             q.step = "final" \/ (q.step \in {"claim", "work"} /\ Error \notin tags[d])
      PROVE  BooksAfter
  <2>1. Knows(i, q, tags[d], content[d])
    BY <1>4 DEF Knows
  <2> QED BY <1>1, <1>3, <1>4, <2>1, QuietLedger
<1>5. \E s \in {"final", "claim", "work"}, c \in BOOLEAN :
        /\ Set(i, d, [read EXCEPT !.step = s, !.claimed = c])
        /\ s = "final" \/ Error \notin tags[d]
  <2>1. read.claimed \in BOOLEAN
    BY <1>2 DEF Job
  <2> HIDE DEF read
  <2>2. \A s \in Step : [read EXCEPT !.step = s] = [read EXCEPT !.step = s, !.claimed = read.claimed]
    BY <1>2 DEF Job
  <2>3. \/ Set(i, d, [read EXCEPT !.step = "final"])
        \/ Error \notin tags[d] /\ Set(i, d, [read EXCEPT !.step = "claim"])
        \/ Error \notin tags[d] /\ Set(i, d, [read EXCEPT !.step = "work", !.claimed = TRUE])
    BY DEF Take, Served, read
  <2>4. "final" \in Step /\ "claim" \in Step
    BY DEF Step
  <2> QED BY <2>1, <2>2, <2>3, <2>4
<1>6. PICK s \in {"final", "claim", "work"}, c \in BOOLEAN :
        /\ Set(i, d, [read EXCEPT !.step = s, !.claimed = c])
        /\ s = "final" \/ Error \notin tags[d]
  BY <1>5
<1> DEFINE q == [read EXCEPT !.step = s, !.claimed = c]
<1> HIDE DEF read
<1>7. q \in Job /\ q.step = s /\ q.text = content[d]
  BY <1>2 DEF Job, Step
<1>8. Set(i, d, q)
  BY <1>6
<1> HIDE DEF q
<1> QED BY <1>4, <1>6, <1>7, <1>8

LEMMA ClaimBooks ==
  ASSUME TypeOK, Deployment, \A e \in Followed : Good(e), Books, NEW i \in Daemon, NEW d \in Doc,
         d \in Followed,
         Served, ClaimRead(i, d) \/ ClaimWrite(i, d) \/ ClaimVerify(i, d)
  PROVE  BooksAfter
<1>1. /\ job[i][d] \in Job /\ Fits(i, job[i][d], tags[d]) /\ tags[d] \in SUBSET Tag
      /\ Knows(i, job[i][d], tags[d], content[d])
  BY JobFacts
<1>2. /\ job[i][d].step \in {"claim", "lock", "verify"} /\ Others /\ Fine /\ UNCHANGED spent
  BY DEF ClaimRead, ClaimWrite, ClaimVerify, Read, NoCall, Served, PatchFails, At
<1>3. /\ QueueTag(i) \in tags[d] /\ ~Past(job[i][d], stopping[i])
      /\ job[i][d].text = content[d] /\ Error \notin tags[d]
  BY <1>1, <1>2 DEF Fits, BusyWith, Working, Past, Knows
<1>4. ASSUME NEW q \in Job, Set(i, d, q), UNCHANGED archive,
             q.step = "done" \/ (q.step \in {"lock", "verify", "work"} /\ q.text = content[d])
      PROVE  BooksAfter
  <2>1. Knows(i, q, tags[d], content[d])
    BY <1>3, <1>4 DEF Knows
  <2> QED BY <1>2, <1>3, <1>4, <2>1, QuietLedger
<1>5. CASE Goto(i, d, "done") /\ UNCHANGED archive
  <2> DEFINE q == [job[i][d] EXCEPT !.step = "done"]
  <2>1. q \in Job /\ q.step = "done"
    BY <1>1 DEF Job, Step
  <2>2. Set(i, d, q)
    BY <1>5 DEF Goto
  <2> HIDE DEF q
  <2> QED BY <1>4, <1>5, <2>1, <2>2
<1>6. CASE ClaimRead(i, d) /\ ~Goto(i, d, "done")
  <2> DEFINE B == tags[d] \cup {Lock(i)}
             q == [job[i][d] EXCEPT !.step = "lock", !.base = B]
  <2>1. Set(i, d, q) /\ UNCHANGED archive /\ job[i][d].step = "claim"
    BY <1>6 DEF ClaimRead, Read, At
  <2>2. B \in SUBSET Tag
    BY <1>1, <2>1, Kinds DEF Fits
  <2> HIDE DEF B
  <2>3. q \in Job /\ q.step = "lock" /\ q.text = job[i][d].text
    BY <1>1, <2>2 DEF Job, Step
  <2> HIDE DEF q
  <2> QED BY <1>3, <1>4, <2>1, <2>3
<1>7. CASE ClaimWrite(i, d)
  <2> DEFINE W == job[i][d].base
             q == [job[i][d] EXCEPT !.step = "verify"]
  <2>1. Set(i, d, q) /\ Patch(d, W, "keep") /\ job[i][d].step = "lock"
    BY <1>7 DEF ClaimWrite, PatchFails, Served, Goto, At
  <2>2. q \in Job /\ q.step = "verify" /\ q.text = content[d]
    BY <1>1, <1>3 DEF Job, Step
  <2>3. W \cup {Lock(i)} = tags[d] \cup {Lock(i)}
    BY <1>1, <2>1 DEF Fits
  <2> HIDE DEF W, q
  <2>4. After(d, "keep") = content[d] /\ "keep" \in Bodies
    BY DEF After, Bodies
  <2>5. /\ \A k \in CallKinds : Owing(k, W, content[d], {}) => Owing(k, tags[d], content[d], {})
        /\ Error \notin W
    BY <1>3, <2>3, SameOwed
  <2>6. Knows(i, q, W, content[d])
    BY <2>2, <2>5 DEF Knows
  <2> QED BY <1>2, <1>3, <2>1, <2>2, <2>4, <2>5, <2>6, WriteLedger
<1>8. CASE ClaimVerify(i, d) /\ ~Goto(i, d, "done")
  <2> DEFINE q == [job[i][d] EXCEPT !.step = "work", !.claimed = TRUE]
  <2>1. Set(i, d, q) /\ UNCHANGED archive
    BY <1>8 DEF ClaimVerify, Read
  <2>2. q \in Job /\ q.step = "work" /\ q.text = content[d]
    BY <1>1, <1>3 DEF Job, Step
  <2> HIDE DEF q
  <2> QED BY <1>4, <2>1, <2>2
<1>9. ClaimRead(i, d) \/ ClaimVerify(i, d) => UNCHANGED archive
  BY DEF ClaimRead, ClaimVerify, Read
<1> QED BY <1>5, <1>6, <1>7, <1>8, <1>9

\* A job that ends at work has made no call, or will be over when its daemon stops.
LEMMA LeaveBooks ==
  ASSUME TypeOK, Deployment, \A e \in Followed : Good(e), Books, NEW i \in Daemon, NEW d \in Doc,
         d \in Followed,
         Leave(i, d), job[i][d].step = "work", Others, Fine, UNCHANGED archive,
         UNCHANGED spent \/ (Spend(i, d) /\ stopping[i])
  PROVE  BooksAfter
<1>1. PICK j \in Job : Set(i, d, j) /\ j.step \in {"release", "done"}
  BY LeaveTo
<1>2. Knows(i, j, tags[d], content[d]) /\ ~Past(job[i][d], stopping[i])
  BY <1>1 DEF Knows, Past
<1>3. QueueTag(i) \in tags[d] /\ Error \notin tags[d]
  BY JobFacts DEF Fits, BusyWith, Working, Knows
<1>4. Owing(Kind(i), tags[d], content[d], swap[d])
  BY <1>3, QueueOwes
<1>5. stopping[i] => Past(j, stopping[i])
  BY <1>1 DEF Past
<1> QED BY <1>1, <1>2, <1>4, <1>5, QuietLedger

\* A job that sets out to write at work, with its call made or none to make.
LEMMA WorkBooks ==
  ASSUME TypeOK, Deployment, \A e \in Followed : Good(e), Books, NEW i \in Daemon, NEW d \in Doc,
         d \in Followed,
         NEW q \in Job, Set(i, d, q), job[i][d].step = "work", Others, Fine, UNCHANGED archive,
         \/ UNCHANGED spent
         \/ Spend(i, d) /\ (q.step \in {"refresh", "final"} \/ (q.step = "write" /\ q.plan # "requeue")),
         Knows(i, q, tags[d], content[d])
  PROVE  BooksAfter
<1>1. ~Past(job[i][d], stopping[i])
  BY DEF Past
<1>2. QueueTag(i) \in tags[d] /\ Error \notin tags[d]
  BY JobFacts DEF Fits, BusyWith, Working, Knows
<1>3. Owing(Kind(i), tags[d], content[d], swap[d])
  BY <1>2, QueueOwes
<1>4. UNCHANGED spent \/ (Spend(i, d) /\ Past(q, stopping[i]))
  BY DEF Past
<1> QED BY <1>1, <1>3, <1>4, QuietLedger

LEMMA OcrWorkBooks ==
  ASSUME TypeOK, Deployment, \A e \in Followed : Good(e), Books, NEW i \in Daemon, NEW d \in Doc,
         d \in Followed,
         Served, OcrWork(i, d)
  PROVE  BooksAfter
<1>1. /\ i \in OcrDaemon /\ job[i][d].step = "work" /\ Others /\ Fine /\ UNCHANGED archive
  BY DEF OcrWork, At, Served
<1>2. /\ job[i][d] \in Job /\ job[i][d].seen \in SUBSET Tag
      /\ job[i][d].text = content[d] /\ Error \notin tags[d]
  BY <1>1, JobFacts, JobFields DEF Knows
<1>3. ASSUME NEW p \in {"save", "skip", "error"}, NEW b \in Bodies, Prepare(i, d, p, b),
             p = "error" \/ b = "text" \/ (b = "keep" /\ content[d] # "empty"),
             UNCHANGED spent \/ Spend(i, d)
      PROVE  BooksAfter
  <2> DEFINE q == [job[i][d] EXCEPT !.step = "refresh", !.plan = p, !.body = b]
  <2>1. q \in Job /\ q.step = "refresh" /\ q.plan = p /\ q.body = b
    BY <1>2 DEF Job, Step, Plan, Bodies
  <2>2. Set(i, d, q)
    BY <1>3 DEF Prepare
  <2> HIDE DEF q
  <2>3. Knows(i, q, tags[d], content[d])
    BY <1>1, <1>2, <1>3, <2>1 DEF Knows
  <2> QED BY <1>1, <1>3, <2>1, <2>2, <2>3, WorkBooks
<1>4. CASE GiveUp(i, d) /\ UNCHANGED spent
  <2> DEFINE q == [job[i][d] EXCEPT !.step = "final", !.base = job[i][d].seen]
  <2>1. q \in Job /\ q.step = "final"
    BY <1>2 DEF Job, Step
  <2>2. Set(i, d, q)
    BY <1>4 DEF GiveUp
  <2> HIDE DEF q
  <2>3. Knows(i, q, tags[d], content[d])
    BY <2>1 DEF Knows
  <2> QED BY <1>1, <1>4, <2>1, <2>2, <2>3, WorkBooks
<1>5. CASE Leave(i, d) /\ (UNCHANGED spent \/ (Spend(i, d) /\ stopping[i]))
  BY <1>1, <1>5, LeaveBooks
<1>6. CASE \E p \in {"save", "skip", "error"}, b \in Bodies :
             /\ Prepare(i, d, p, b) /\ (UNCHANGED spent \/ Spend(i, d))
             /\ p = "error" \/ b = "text" \/ (b = "keep" /\ content[d] # "empty")
  BY <1>3, <1>6
<1>7. SkipBornDigital(i, d) \/ Undecodable(i, d) \/ NoPages(i, d) \/ Transcribed(i, d) \/ BadTranscript(i, d)
  BY DEF OcrWork, Served
<1>8. CASE SkipBornDigital(i, d) \/ Transcribed(i, d)
  BY <1>2, <1>6, <1>8 DEF SkipBornDigital, Transcribed, Free, Bodies
<1>9. CASE BadTranscript(i, d)
  BY <1>5, <1>6, <1>9 DEF BadTranscript, Bodies
<1>10. CASE Undecodable(i, d) \/ NoPages(i, d)
  BY <1>4, <1>5, <1>10 DEF Undecodable, NoPages, Free
<1> QED BY <1>7, <1>8, <1>9, <1>10

LEMMA ClassifyWorkBooks ==
  ASSUME TypeOK, Deployment, \A e \in Followed : Good(e), Books, NEW i \in Daemon, NEW d \in Doc,
         d \in Followed,
         Served, ClassifyWork(i, d)
  PROVE  BooksAfter
<1>1. /\ i \notin OcrDaemon /\ job[i][d].step = "work" /\ Others /\ Fine /\ UNCHANGED archive
  BY DaemonsAreDistinct DEF ClassifyWork, At, Served
<1>2. /\ job[i][d] \in Job /\ job[i][d].seen \in SUBSET Tag
      /\ job[i][d].text = content[d] /\ Error \notin tags[d]
  BY <1>1, JobFacts, JobFields DEF Knows
<1>3. ASSUME NEW p \in {"save", "requeue"}, Write(i, d, p),
             p = "requeue" => content[d] = "empty" /\ UNCHANGED spent,
             UNCHANGED spent \/ Spend(i, d)
      PROVE  BooksAfter
  <2> DEFINE q == [job[i][d] EXCEPT !.step = "write", !.plan = p, !.base = job[i][d].seen]
  <2>1. q \in Job /\ q.step = "write" /\ q.plan = p
    BY <1>2 DEF Job, Step, Plan
  <2>2. Set(i, d, q)
    BY <1>3 DEF Write
  <2> HIDE DEF q
  <2>3. Knows(i, q, tags[d], content[d])
    BY <1>1, <1>2, <1>3, <2>1 DEF Knows
  <2> QED BY <1>1, <1>3, <2>1, <2>2, <2>3, WorkBooks
<1>4. CASE GiveUp(i, d) /\ (UNCHANGED spent \/ Spend(i, d))
  <2> DEFINE q == [job[i][d] EXCEPT !.step = "final", !.base = job[i][d].seen]
  <2>1. q \in Job /\ q.step = "final"
    BY <1>2 DEF Job, Step
  <2>2. Set(i, d, q)
    BY <1>4 DEF GiveUp
  <2> HIDE DEF q
  <2>3. Knows(i, q, tags[d], content[d])
    BY <2>1 DEF Knows
  <2> QED BY <1>1, <1>4, <2>1, <2>2, <2>3, WorkBooks
<1>5. CASE Leave(i, d) /\ Spend(i, d) /\ stopping[i]
  BY <1>1, <1>5, LeaveBooks
<1>6. \/ Write(i, d, "requeue") /\ UNCHANGED spent /\ content[d] = "empty"
      \/ Write(i, d, "save") /\ Spend(i, d)
      \/ GiveUp(i, d) /\ (UNCHANGED spent \/ Spend(i, d))
      \/ Leave(i, d) /\ Spend(i, d) /\ stopping[i]
  BY <1>2 DEF ClassifyWork, Classified, Unusable, Free
<1> QED BY <1>3, <1>4, <1>5, <1>6

LEMMA RefreshBooks ==
  ASSUME TypeOK, Deployment, \A e \in Followed : Good(e), Books, NEW i \in Daemon, NEW d \in Doc,
         d \in Followed,
         Served, Refresh(i, d)
  PROVE  BooksAfter
<1> DEFINE s == IF job[i][d].plan = "error" THEN "final" ELSE "write"
           q == [job[i][d] EXCEPT !.step = s, !.base = tags[d]]
<1>1. /\ Others /\ Fine /\ UNCHANGED <<archive, spent>> /\ Set(i, d, q) /\ job[i][d].step = "refresh"
  BY DEF Refresh, Read, NoCall, Served, At
<1>2. /\ job[i][d] \in Job /\ tags[d] \in SUBSET Tag
      /\ i \in OcrDaemon /\ job[i][d].plan # "requeue"
      /\ Knows(i, job[i][d], tags[d], content[d])
  BY <1>1, JobFacts DEF Fits
<1>3. /\ q \in Job /\ q.step = s /\ q.plan = job[i][d].plan /\ q.body = job[i][d].body
  BY <1>2 DEF Job, Step
<1>4. s = "final" \/ (s = "write" /\ job[i][d].plan # "error")
  OBVIOUS
<1> HIDE DEF q, s
<1>5. Knows(i, q, tags[d], content[d])
  BY <1>1, <1>2, <1>3, <1>4 DEF Knows
<1>6. Past(q, stopping[i])
  BY <1>2, <1>3, <1>4 DEF Past
<1> QED BY <1>1, <1>3, <1>5, <1>6, QuietLedger

\* The end of a job with a write.
LEMMA LeaveLedger ==
  ASSUME TypeOK, Deployment, \A e \in Followed : Good(e), Books, NEW i \in Daemon, NEW d \in Doc,
         d \in Followed,
         QueueTag(i) \in tags[d], Leave(i, d), Others, Fine, UNCHANGED spent,
         NEW W, NEW b \in Bodies, Patch(d, W, b),
         \A k \in CallKinds : Owing(k, W, After(d, b), {}) =>
           /\ Owing(k, tags[d], content[d], {})
           /\ k # Kind(i) \/ ~Past(job[i][d], stopping[i])
  PROVE  BooksAfter
<1>1. PICK j \in Job : Set(i, d, j) /\ j.step \in {"release", "done"}
  BY LeaveTo
<1>2. Knows(i, j, W, After(d, b)) /\ Kind(i) \in CallKinds
  BY <1>1, KindKnown DEF Knows
<1> QED BY <1>1, <1>2, WriteLedger

\* What a write-back leaves in the queues: the tag it sets, if that is one.
LEMMA CleanQueues ==
  ASSUME Deployment, NEW B \in SUBSET Tag, NEW t \in PipelineTags \cup {NoTag}
  PROVE  LET W == With(Clean(B), t) IN
         /\ \A u \in {Pre, ClassifyPre} : u \in W <=> u = t
         /\ Error \in W <=> Error = t
<1>1. NoTag \notin PipelineTags /\ {Pre, ClassifyPre, Error} \subseteq PipelineTags
  BY RequiredTagsAreSet DEF PipelineTags, Deployment
<1> QED BY <1>1 DEF With, Clean

LEMMA WriteBackBooks ==
  ASSUME TypeOK, Deployment, \A e \in Followed : Good(e), Books, NEW i \in Daemon, NEW d \in Doc,
         d \in Followed,
         Served, WriteBack(i, d)
  PROVE  BooksAfter
<1> DEFINE t == IF job[i][d].plan = "requeue" THEN Pre ELSE DoneTag(i)
           B == job[i][d].base
           U == With(Clean(B), t)
           b == job[i][d].body
<1>9. PICK picked \in Picks(i, d) :
        Suggest(d, picked) /\ Leave(i, d) /\ Patch(d, U \cup picked, b)
  BY DEF WriteBack, Result, PatchFails, Served
<1> DEFINE W == U \cup picked
<1>1. /\ Leave(i, d) /\ Patch(d, W, b) /\ Others /\ Fine /\ UNCHANGED spent /\ job[i][d].step = "write"
  BY <1>9 DEF WriteBack, Served, At
<1>2. /\ Fits(i, job[i][d], tags[d]) /\ Knows(i, job[i][d], tags[d], content[d])
      /\ B \in SUBSET Tag /\ b \in Bodies /\ t \in PipelineTags \cup {NoTag}
  BY JobFacts, JobFields, Kinds
<1>3. QueueTag(i) \in tags[d] /\ Error \notin tags[d]
  BY <1>1, <1>2 DEF Fits, BusyWith, Working, Knows
<1>4. Pre # ClassifyPre /\ ClassifyPost \notin {Pre, ClassifyPre} /\ Post # Pre
  BY DEF Deployment
<1> HIDE DEF B, b
<1>5. \A u \in {Pre, ClassifyPre} : u \in W <=> u = t
  <2>1. \A u \in {Pre, ClassifyPre} : u \in U <=> u = t
    BY <1>2, CleanQueues
  <2>2. U \in SUBSET Tag /\ picked \in SUBSET Tag /\ picked \cap PipelineTags = {}
    BY <1>2, <1>9, Apart, PickedAside
  <2> HIDE DEF U
  <2>3. \A u \in PipelineTags \cup {NoTag} : u \in W <=> u \in U
    BY <2>2, BesidePicked
  <2> QED BY <2>1, <2>3, Kinds DEF PipelineTags
<1> HIDE DEF W
<1>6. CASE i \in OcrDaemon
  <2>1. t = Post /\ Kind(i) = "ocr" /\ QueueTag(i) = Pre /\ After(d, b) # "empty"
    BY <1>1, <1>2, <1>6 DEF Fits, Knows, DoneTag, Kind, QueueTag, After, b
  <2>2. Pre \notin W
    BY <1>4, <1>5, <2>1
  <2>3. ASSUME NEW k \in CallKinds, Owing(k, W, After(d, b), {})
        PROVE  Owing(k, tags[d], content[d], {}) /\ k # Kind(i)
    BY <1>3, <2>1, <2>2, <2>3 DEF Owing
  <2> QED BY <1>1, <1>2, <1>3, <2>3, LeaveLedger
<1>7. CASE i \notin OcrDaemon /\ job[i][d].plan # "requeue"
  <2>1. Pre \notin W /\ ClassifyPre \notin W
    BY <1>4, <1>5, <1>7 DEF DoneTag
  <2>2. \A k : ~Owing(k, W, After(d, b), {})
    BY <2>1 DEF Owing
  <2> QED BY <1>1, <1>2, <1>3, <2>2, LeaveLedger
<1>8. CASE i \notin OcrDaemon /\ job[i][d].plan = "requeue"
  <2>1. content[d] = "empty" /\ QueueTag(i) = ClassifyPre /\ ~Past(job[i][d], stopping[i])
    BY <1>1, <1>2, <1>8 DEF Knows, QueueTag, Past
  <2>2. \A k : Owing(k, tags[d], content[d], {})
    BY <1>3, <2>1 DEF Owing
  <2> QED BY <1>1, <1>2, <1>3, <2>1, <2>2, LeaveLedger
<1> QED BY <1>6, <1>7, <1>8

LEMMA FinaliseBooks ==
  ASSUME TypeOK, Deployment, \A e \in Followed : Good(e), Books, NEW i \in Daemon, NEW d \in Doc,
         d \in Followed,
         Served, Finalise(i, d) \/ FinaliseFallback(i, d)
  PROVE  BooksAfter
<1> DEFINE B == job[i][d].base
<1>1. PICK t \in {Error, NoTag} : Patch(d, With(Clean(B), t), job[i][d].body)
  BY DEF Finalise, FinaliseFallback, PatchFails, Served, With
<1> DEFINE W == With(Clean(B), t)
<1>2. /\ Leave(i, d) /\ Others /\ Fine /\ UNCHANGED spent /\ job[i][d].step \in {"final", "fallback"}
  BY DEF Finalise, FinaliseFallback, PatchFails, Served, NoCall, At
<1>3. /\ QueueTag(i) \in tags[d] /\ B \in SUBSET Tag /\ job[i][d].body \in Bodies
  BY <1>2, JobFacts, JobFields DEF Fits, BusyWith, Working
<1>4. t \in PipelineTags \cup {NoTag} /\ t \notin {Pre, ClassifyPre}
  BY RequiredTagsAreSet DEF PipelineTags, Deployment
<1> HIDE DEF B
<1>5. Pre \notin W /\ ClassifyPre \notin W
  BY <1>3, <1>4, CleanQueues
<1> HIDE DEF W
<1>6. \A k : ~Owing(k, W, After(d, job[i][d].body), {})
  BY <1>5 DEF Owing
<1>7. Patch(d, W, job[i][d].body)
  BY <1>1 DEF W
<1> QED BY <1>2, <1>3, <1>6, <1>7, LeaveLedger

LEMMA ReleaseBooks ==
  ASSUME TypeOK, Deployment, \A e \in Followed : Good(e), Books, NEW i \in Daemon, NEW d \in Doc,
         d \in Followed,
         Served, ReleaseRead(i, d) \/ ReleaseWrite(i, d)
  PROVE  BooksAfter
<1>1. /\ job[i][d] \in Job /\ Fits(i, job[i][d], tags[d]) /\ tags[d] \in SUBSET Tag
      /\ job[i][d].step \in {"release", "unlock"} /\ Others /\ Fine /\ UNCHANGED spent
  BY JobFacts DEF ReleaseRead, ReleaseWrite, Read, NoCall, Served, PatchFails, At
<1>2. ASSUME NEW q \in Job, q.step \in {"unlock", "done"}
      PROVE  /\ Past(job[i][d], stopping[i]) => Past(q, stopping[i])
             /\ \A set, text : Knows(i, q, set, text)
  BY <1>1, <1>2 DEF Past, Knows
<1>3. CASE ReleaseRead(i, d)
  <2> DEFINE B == tags[d] \ {Lock(i)}
             q == [job[i][d] EXCEPT !.step = "unlock", !.base = B]
             r == [job[i][d] EXCEPT !.step = "done"]
  <2>1. UNCHANGED archive /\ (Set(i, d, q) \/ Set(i, d, r))
    BY <1>3 DEF ReleaseRead, Read, Goto, Served
  <2>2. q \in Job /\ q.step = "unlock" /\ r \in Job /\ r.step = "done"
    BY <1>1 DEF Job, Step
  <2> HIDE DEF q, r
  <2> QED BY <1>1, <1>2, <2>1, <2>2, QuietLedger
<1>4. CASE ReleaseWrite(i, d)
  <2> DEFINE W == job[i][d].base
             q == [job[i][d] EXCEPT !.step = "done"]
  <2>1. Set(i, d, q) /\ Patch(d, W, "keep") /\ job[i][d].step = "unlock"
    BY <1>4 DEF ReleaseWrite, PatchFails, Served, Goto, At
  <2>2. QueueTag(i) \in tags[d] /\ W = tags[d] \ {Lock(i)}
    BY <1>1, <2>1 DEF Fits, BusyWith, Working
  <2>3. q \in Job /\ q.step = "done"
    BY <1>1 DEF Job, Step
  <2>4. W \cup {Lock(i)} = tags[d] \cup {Lock(i)}
    BY <2>2
  <2> HIDE DEF W, q
  <2>5. After(d, "keep") = content[d] /\ "keep" \in Bodies
    BY DEF After, Bodies
  <2>6. \A k \in CallKinds : Owing(k, W, content[d], {}) => Owing(k, tags[d], content[d], {})
    BY <2>4, SameOwed
  <2> QED BY <1>1, <1>2, <2>1, <2>2, <2>3, <2>5, <2>6, WriteLedger
<1> QED BY <1>1, <1>3, <1>4

LEMMA JobStepBooks ==
  ASSUME TypeOK, Deployment, \A e \in Followed : Good(e), Books, NEW i \in Daemon, NEW d \in Doc,
         d \in Followed,
         Served, JobStep(i, d)
  PROVE  BooksAfter
BY RecoverBooks, StripBooks, TakeBooks, ClaimBooks, OcrWorkBooks, ClassifyWorkBooks, RefreshBooks,
   WriteBackBooks, FinaliseBooks, ReleaseBooks DEF JobStep

LEMMA RefusedBooks ==
  ASSUME TypeOK, Deployment, \A e \in Followed : Good(e), Books, NEW i \in Daemon, NEW d \in Doc,
         d \in Followed,
         Refused, ~Fails, JobStep(i, d)
  PROVE  BooksAfter
<1>1. ~Fine
  BY BudgetsAreNatural DEF Refused, Fine, TypeOK
<1> HIDE DEF Refused
<1>2. /\ job[i][d] \in Job /\ job[i][d].seen \in SUBSET Tag
      /\ Knows(i, job[i][d], tags[d], content[d]) /\ NoJob \in Job
  BY JobFacts, JobFields, NoJobFields
<1>3. Others /\ UNCHANGED <<archive, spent>>
  BY <1>1 DEF JobStep, RecoverLock, StripQueueTag, Take, ClaimRead, ClaimWrite, ClaimVerify, OcrWork,
              ClassifyWork, Refresh, WriteBack, Finalise, FinaliseFallback, ReleaseRead, ReleaseWrite,
              Read, NoCall, PatchFails
<1>4. ASSUME NEW q \in Job, Set(i, d, q),
             \/ q.step \in {"idle", "done", "release", "fallback", "final"}
             \/ q.step = "refresh" /\ q.plan = "error" /\ Error \notin tags[d]
      PROVE  BooksAfter
  <2>1. Knows(i, q, tags[d], content[d])
    BY <1>4 DEF Knows
  <2> QED BY <1>3, <1>4, <2>1, RefusedLedger
<1>5. CASE Set(i, d, NoJob)
  BY <1>2, <1>4, <1>5 DEF NoJob
<1>6. CASE \E t \in {"done", "fallback"} : Goto(i, d, t)
  <2>1. PICK t \in {"done", "fallback"} : Goto(i, d, t)
    BY <1>6
  <2> DEFINE q == [job[i][d] EXCEPT !.step = t]
  <2>2. q \in Job /\ q.step = t
    BY <1>2 DEF Job, Step
  <2>3. Set(i, d, q)
    BY <2>1 DEF Goto
  <2> HIDE DEF q
  <2> QED BY <1>4, <2>2, <2>3
<1>7. CASE Leave(i, d)
  <2>1. PICK q \in Job : Set(i, d, q) /\ q.step \in {"release", "done"}
    BY <1>7, LeaveTo
  <2> QED BY <1>4, <2>1
<1>8. CASE GiveUp(i, d)
  <2> DEFINE q == [job[i][d] EXCEPT !.step = "final", !.base = job[i][d].seen]
  <2>1. q \in Job /\ q.step = "final"
    BY <1>2 DEF Job, Step
  <2>2. Set(i, d, q)
    BY <1>8 DEF GiveUp
  <2> HIDE DEF q
  <2> QED BY <1>4, <2>1, <2>2
<1>9. CASE Prepare(i, d, "error", job[i][d].body) /\ job[i][d].step = "write"
  <2> DEFINE q == [job[i][d] EXCEPT !.step = "refresh", !.plan = "error", !.body = job[i][d].body]
  <2>1. q \in Job /\ q.step = "refresh" /\ q.plan = "error"
    BY <1>2 DEF Job, Step, Plan
  <2>2. Set(i, d, q) /\ Error \notin tags[d]
    BY <1>2, <1>9 DEF Prepare, Knows
  <2> HIDE DEF q
  <2> QED BY <1>4, <2>1, <2>2
<1>10. CASE WriteBack(i, d)
  BY <1>1, <1>8, <1>9, <1>10 DEF WriteBack, PatchFails, At
<1>11. CASE Finalise(i, d) \/ FinaliseFallback(i, d) \/ ReleaseWrite(i, d) \/ ClaimWrite(i, d)
  BY <1>1, <1>6, <1>7, <1>11 DEF Finalise, FinaliseFallback, ReleaseWrite, ClaimWrite, PatchFails
<1>12. CASE RecoverLock(i, d) \/ StripQueueTag(i, d)
  BY <1>5, <1>12 DEF RecoverLock, StripQueueTag
<1> QED BY <1>1, <1>10, <1>11, <1>12
        DEF JobStep, Take, ClaimRead, ClaimVerify, OcrWork, ClassifyWork, Refresh, ReleaseRead

-----------------------------------------------------------------------------
(* The life of a daemon and the users keep the books                       *)

\* A step of a daemon's life is paid for when it brings no document back to a
\* call, or is counted.
LEMMA LifePaid ==
  ASSUME TypeOK, \A e \in Followed : Paid(e), UNCHANGED <<tags, content, swap, spent>>,
         \/ Grounds' = Grounds /\ \A e \in Doc, k \in CallKinds :
                Due(e, k)' + Reserve(k)' <= Due(e, k) + Reserve(k)
         \/ Grounds' = Grounds + 1 /\ \A e \in Doc, k \in CallKinds :
                Due(e, k)' + Reserve(k)' <= Due(e, k) + Reserve(k) + 1
  PROVE  \A e \in Followed : Paid(e)'
<1> SUFFICES ASSUME NEW e \in Doc, e \in Followed, NEW k \in CallKinds
             PROVE  spent[e][k] + Due(e, k)' + Reserve(k)' <= 1 + Grounds'
  BY DEF Paid, Followed
<1>1. /\ spent[e][k] \in Nat /\ Grounds \in Nat /\ Due(e, k) \in {0, 1} /\ Reserve(k) \in {0, 1}
      /\ spent[e][k] + Due(e, k) + Reserve(k) <= 1 + Grounds
  BY Counters DEF Paid
<1>2. Due(e, k)' \in {0, 1} /\ Reserve(k)' \in {0, 1}
  BY DEF Due, Reserve
<1>3. CASE Grounds' = Grounds /\ Due(e, k)' + Reserve(k)' <= Due(e, k) + Reserve(k)
  BY <1>1, <1>2, <1>3, SameSum
<1>4. CASE Grounds' = Grounds + 1 /\ Due(e, k)' + Reserve(k)' <= Due(e, k) + Reserve(k) + 1
  BY <1>1, <1>2, <1>4, MoreSum
<1> QED BY <1>3, <1>4

\* A step of daemon i, by what it does to the jobs and to the reserve: it brings
\* no call back, or it uses the reserve up, or it is counted.
LEMMA LifeDue ==
  ASSUME TypeOK, Deployment, NEW i \in Daemon, UNCHANGED <<tags, content, swap>>,
         \A k \in Daemon \ {i} : job'[k] = job[k] /\ phase'[k] = phase[k] /\ stopping'[k] = stopping[k],
         NEW e \in Doc, NEW k \in CallKinds
  PROVE  /\ Due(e, k) \in {0, 1} /\ Due(e, k)' \in {0, 1}
         /\ Reserve(k) \in {0, 1} /\ Reserve(k)' \in {0, 1}
         /\ k # Kind(i) => Due(e, k)' = Due(e, k) /\ Reserve(k)' = Reserve(k)
         /\ k = Kind(i) =>
              /\ (Past(job[i][e], stopping[i]) => Past(job'[i][e], stopping'[i])) =>
                   Due(e, k)' <= Due(e, k)
              /\ Reserve(k) = IF stopping[i] /\ phase[i] \in {"list", "batch"} THEN 1 ELSE 0
              /\ Reserve(k)' = IF stopping'[i] /\ phase'[i] \in {"list", "batch"} THEN 1 ELSE 0
<1>1. /\ Due(e, k) \in {0, 1} /\ Due(e, k)' \in {0, 1}
      /\ Reserve(k) \in {0, 1} /\ Reserve(k)' \in {0, 1}
  BY DEF Due, Reserve
<1>2. CASE k # Kind(i)
  <2>1. \A m \in Daemon : Kind(m) = k => m \in Daemon \ {i}
    BY <1>2
  <2>2. (Spared(e, k)' <=> Spared(e, k)) /\ (Winding(k)' <=> Winding(k))
    BY <2>1 DEF Spared, Winding
  <2> QED BY <1>1, <1>2, <2>2 DEF Due, Reserve
<1>3. CASE k = Kind(i)
  <2>1. \A m \in Daemon : Kind(m) = k <=> m = i
    BY <1>3, OneOfAKind
  <2>2. /\ Spared(e, k) <=> Past(job[i][e], stopping[i])
        /\ Spared(e, k)' <=> Past(job'[i][e], stopping'[i])
        /\ Winding(k) <=> stopping[i] /\ phase[i] \in {"list", "batch"}
        /\ Winding(k)' <=> stopping'[i] /\ phase'[i] \in {"list", "batch"}
    BY <2>1 DEF Spared, Winding
  <2> QED BY <1>1, <1>3, <2>2 DEF Due, Reserve
<1> QED BY <1>2, <1>3

\* A daemon that was told to stop and is in a batch, and a step of a daemon that
\* spares a document no less than before.
Winds(i) == stopping[i] /\ phase[i] \in {"list", "batch"}
Nearer(i, e) == Past(job[i][e], stopping[i]) => Past(job'[i][e], stopping'[i])

LEMMA LifeBooks ==
  ASSUME TypeOK, Phased, Deployment, Books, NEW i \in Daemon, Served,
         \/ Boot(i) \/ RecoverEnds(i) \/ Poll(i) \/ StartBatch(i) \/ EndBatch(i) \/ Exit(i)
         \/ Shutdown(i) \/ Crash(i)
  PROVE  BooksAfter
<1> DEFINE New(e) == job'[i][e].step \in {"idle", "recover", "strip", "queued"}
<1>1. /\ UNCHANGED <<tags, content, swap, spent, queued>> /\ UNCHANGED rejects
      /\ queued \in Nat /\ rejects \in Nat /\ stops \in Nat
  <2>1. Life /\ UNCHANGED rejects
    BY DEF Boot, RecoverEnds, Poll, StartBatch, EndBatch, Exit, Shutdown, Crash, Served, Fine
  <2>2. queued \in Nat /\ rejects \in Nat /\ stops \in Nat
    BY BudgetsAreNatural DEF TypeOK
  <2> QED BY <2>1, <2>2 DEF Life, archive, ghosts
<1>2. \A k \in Daemon \ {i} : job'[k] = job[k] /\ phase'[k] = phase[k] /\ stopping'[k] = stopping[k]
  BY DEF Boot, RecoverEnds, Poll, StartBatch, EndBatch, Exit, Shutdown, Crash, TypeOK
<1>3. \A e \in Doc : job'[i][e] = job[i][e] \/ New(e)
  <2>1. job \in [Daemon -> [Doc -> Job]]
    BY DEF TypeOK
  <2>2. CASE UNCHANGED job
    BY <2>2
  <2>3. CASE job' = [job EXCEPT ![i] = NoJobs]
    BY <2>1, <2>3, NoJobFields DEF NoJobs
  <2>4. CASE job' = [job EXCEPT ![i] = Swept(i)]
    <3>1. \A e \in Doc : Swept(i)[e].step \in {"idle", "recover"}
      BY FoundCarries, NoJobFields DEF Swept, TypeOK
    <3> QED BY <2>1, <2>4, <3>1
  <2>5. CASE job' = [job EXCEPT ![i] = Listed(i)]
    <3>1. \A e \in Doc : Listed(i)[e].step \in {"idle", "strip", "queued"}
      BY FoundCarries, NoJobFields, QueuedFields DEF Listed, TypeOK
    <3> QED BY <2>1, <2>5, <3>1
  <2>6. UNCHANGED job \/ \E f \in {NoJobs, Swept(i), Listed(i)} : job' = [job EXCEPT ![i] = f]
    BY DEF Boot, RecoverEnds, Poll, StartBatch, EndBatch, Exit, Shutdown, Crash, NoJobs, Swept, Listed, Stale
  <2> QED BY <2>2, <2>3, <2>4, <2>5, <2>6
<1>4. \A e \in Followed : Known(e)'
  <2> SUFFICES ASSUME NEW e \in Doc, e \in Followed, NEW k \in Daemon
               PROVE  Knows(k, job'[k][e], tags[e], content[e])
    BY <1>1 DEF Known, Followed
  <2>1. Knows(k, job[k][e], tags[e], content[e])
    BY DEF Books, Known
  <2>2. CASE job'[k][e] = job[k][e]
    BY <2>1, <2>2
  <2>3. CASE k = i /\ New(e)
    BY <2>3 DEF Knows
  <2> QED BY <1>2, <1>3, <2>2, <2>3
<1>5. ASSUME stops' = stops,
             (\A e \in Doc : Nearer(i, e) /\ (Winds(i)' => Winds(i))) \/ (Winds(i) /\ ~Winds(i)')
      PROVE  \A e \in Followed : Paid(e)'
  <2>1. Grounds' = Grounds
    BY <1>1, <1>5 DEF Grounds
  <2>2. ASSUME NEW e \in Doc, NEW k \in CallKinds
        PROVE  Due(e, k)' + Reserve(k)' <= Due(e, k) + Reserve(k)
    BY <1>1, <1>2, <1>5, <2>2, LifeDue DEF Nearer, Winds
  <2> QED BY <1>1, <2>1, <2>2, LifePaid DEF Books, BooksAfter
<1>6. ASSUME stops' = stops + 1, (\A e \in Doc : Nearer(i, e)) \/ ~Winds(i)'
      PROVE  \A e \in Followed : Paid(e)'
  <2>1. Grounds' = Grounds + 1
    BY <1>1, <1>6 DEF Grounds
  <2>2. ASSUME NEW e \in Doc, NEW k \in CallKinds
        PROVE  Due(e, k)' + Reserve(k)' <= Due(e, k) + Reserve(k) + 1
    BY <1>1, <1>2, <1>6, <2>2, LifeDue DEF Nearer, Winds
  <2> QED BY <1>1, <2>1, <2>2, LifePaid DEF Books, BooksAfter
<1>7. /\ phase \in [Daemon -> {"down", "recover", "poll", "list", "batch"}]
      /\ stopping \in [Daemon -> BOOLEAN]
  BY DEF TypeOK
<1>8. CASE Boot(i) \/ Poll(i) \/ Exit(i)
  <2>1. stops' = stops /\ phase'[i] \in {"recover", "list", "down"} /\ phase[i] \in {"down", "poll"}
    BY <1>7, <1>8 DEF Boot, Poll, Exit
  <2>2. ~Winds(i)'
    BY <1>7, <1>8, <2>1 DEF Boot, Poll, Exit, Winds
  <2>3. ASSUME NEW e \in Doc PROVE Nearer(i, e)
    BY <2>1 DEF Phased, At, Past, Nearer
  <2> QED BY <1>4, <1>5, <2>1, <2>2, <2>3 DEF Books, BooksAfter
<1>9. CASE RecoverEnds(i) \/ StartBatch(i)
  <2>1. stops' = stops /\ UNCHANGED <<job, stopping>> /\ (Winds(i)' => Winds(i))
    BY <1>7, <1>9 DEF RecoverEnds, StartBatch, Winds
  <2>2. ASSUME NEW e \in Doc PROVE Nearer(i, e)
    BY <2>1 DEF Nearer
  <2> QED BY <1>4, <1>5, <2>1, <2>2 DEF Books, BooksAfter
<1>10. CASE EndBatch(i)
  <2>1. /\ stops' = stops /\ ~Winds(i)' /\ (stopping[i] => Winds(i))
        /\ \A e \in Doc : job[i][e].step \in {"idle", "done"}
    BY <1>7, <1>10 DEF EndBatch, Winds
  <2>2. ASSUME ~stopping[i], NEW e \in Doc PROVE Nearer(i, e)
    BY <2>1, <2>2 DEF Past, Nearer
  <2> QED BY <1>4, <1>5, <2>1, <2>2 DEF Books, BooksAfter
<1>11. CASE Shutdown(i)
  <2>1. stops' = stops + 1 /\ UNCHANGED job /\ stopping'[i]
    BY <1>7, <1>11 DEF Shutdown
  <2>2. ASSUME NEW e \in Doc PROVE Nearer(i, e)
    BY <2>1 DEF Past, Nearer
  <2> QED BY <1>4, <1>6, <2>1, <2>2 DEF Books, BooksAfter
<1>12. CASE Crash(i)
  <2>1. stops' = stops + 1 /\ ~Winds(i)'
    BY <1>7, <1>12 DEF Crash, Winds
  <2> QED BY <1>4, <1>6, <2>1 DEF Books, BooksAfter
<1> QED BY <1>8, <1>9, <1>10, <1>11, <1>12

\* A user's step that changes document d only, with its jobs at rest: it is a
\* reason for a call itself, or brings no call back.
LEMMA UserLedger ==
  ASSUME TypeOK, Books, NEW d \in Doc, d \in Followed, UNCHANGED <<content, phase, stopping, job,
         spent>>,
         \A k \in Daemon : job[k][d].step \in {"idle", "queued", "release", "done"},
         \A e \in Doc \ {d} : tags'[e] = tags[e] /\ swap'[e] = swap[e],
         \/ Grounds' = Grounds + 1
         \/ /\ Grounds' = Grounds
            /\ \A k \in CallKinds : Owing(k, tags'[d], content[d], swap'[d]) =>
                                    Owing(k, tags[d], content[d], swap[d])
  PROVE  BooksAfter
<1>1. ASSUME NEW e \in Doc, e \in Followed PROVE Known(e)'
  <2> SUFFICES ASSUME NEW k \in Daemon PROVE Knows(k, job[k][e], tags'[e], content[e])
    BY DEF Known
  <2>1. CASE e = d
    BY <2>1 DEF Knows
  <2>2. CASE e # d
    BY <1>1, <2>2 DEF Books, Known
  <2> QED BY <2>1, <2>2
<1>2. ASSUME NEW e \in Doc, e \in Followed, NEW k \in CallKinds
      PROVE  spent[e][k] + Due(e, k)' + Reserve(k)' <= 1 + Grounds'
  <2>1. /\ spent[e][k] \in Nat /\ Grounds \in Nat /\ Due(e, k) \in {0, 1} /\ Reserve(k) \in {0, 1}
        /\ spent[e][k] + Due(e, k) + Reserve(k) <= 1 + Grounds
    BY <1>2, Counters DEF Paid, Books
  <2>2. Due(e, k)' \in {0, 1} /\ Reserve(k)' = Reserve(k) /\ (Spared(e, k)' <=> Spared(e, k))
    BY DEF Due, Reserve, Winding, Spared
  <2>3. CASE Grounds' = Grounds + 1
    <3>1. Due(e, k)' + Reserve(k) <= Due(e, k) + Reserve(k) + 1
      BY <2>1, <2>2
    <3>2. spent[e][k] + Due(e, k)' + Reserve(k) <= 1 + (Grounds + 1)
      BY <2>1, <2>2, <3>1, MoreSum
    <3> QED BY <2>2, <2>3, <3>2
  <2>4. CASE /\ Grounds' = Grounds
             /\ Owing(k, tags'[e], content[e], swap'[e]) => Owing(k, tags[e], content[e], swap[e])
    <3>1. Due(e, k)' <= Due(e, k)
      BY <2>2, <2>4 DEF Due
    <3>2. Due(e, k)' + Reserve(k) <= Due(e, k) + Reserve(k)
      BY <2>1, <2>2, <3>1
    <3> QED BY <2>1, <2>2, <2>4, <3>2, SameSum
  <2> QED BY <2>3, <2>4
<1> QED BY <1>1, <1>2 DEF BooksAfter, Paid, Followed

LEMMA UserBooks ==
  ASSUME TypeOK, Deployment, \A e \in Followed : Good(e), Books, NEW d \in Doc, d \in Followed,
         CalmUser(d)
  PROVE  BooksAfter
<1>1. CASE ~InHand(d) /\ Edit(d)
  <2>1. PICK t \in UserTag : AddTag(d, t) \/ RemoveTag(d, t)
    BY <1>1 DEF Edit
  <2>2. UNCHANGED <<content, phase, stopping, job, spent, swap, queued, rejects, stops>>
    BY <2>1 DEF AddTag, RemoveTag, Edits, daemons
  <2>3. /\ \A f \in Doc \ {d} : tags'[f] = tags[f]
        /\ tags'[d] \in {tags[d] \cup {t}, tags[d] \ {t}}
    BY <2>1 DEF AddTag, RemoveTag, TypeOK
  <2>4. t \notin {Error, Pre, ClassifyPre}
    BY UserTagsAreOther, RequiredTagsAreSet DEF PipelineTags, Deployment
  <2>5. \A k : Owing(k, tags'[d], content[d], swap'[d]) <=> Owing(k, tags[d], content[d], swap[d])
    BY <2>2, <2>3, <2>4 DEF Owing
  <2>6. \A k \in Daemon : job[k][d].step \in {"idle", "queued", "done"}
    BY <1>1 DEF InHand
  <2>7. Grounds' = Grounds
    BY <2>2 DEF Grounds
  <2> QED BY <2>2, <2>3, <2>5, <2>6, <2>7, UserLedger
<1>2. CASE ~InHand(d) /\ (Enqueue(d) \/ Requeue(d))
  <2>1. UNCHANGED <<content, phase, stopping, job, spent, rejects, stops>> /\ queued' = queued + 1
    BY <1>2 DEF Enqueue, Requeue, Queues, daemons
  <2>2. \A e \in Doc \ {d} : tags'[e] = tags[e] /\ swap'[e] = swap[e]
    BY <1>2 DEF Enqueue, Requeue, TypeOK
  <2>3. \A k \in Daemon : job[k][d].step \in {"idle", "queued", "done"}
    BY <1>2 DEF InHand
  <2>4. Grounds' = Grounds + 1
    <3>1. queued \in Nat /\ rejects \in Nat /\ stops \in Nat
      BY BudgetsAreNatural DEF TypeOK
    <3> QED BY <2>1, <3>1 DEF Grounds
  <2> QED BY <2>1, <2>2, <2>3, <2>4, UserLedger
<1>3. CASE RequeueWrite(d)
  <2>1. /\ UNCHANGED <<content, phase, stopping, job, spent, queued, rejects, stops>> /\ swap[d] # {}
        /\ \A e \in Doc \ {d} : tags'[e] = tags[e] /\ swap'[e] = swap[e]
    BY <1>3 DEF RequeueWrite, daemons, budgets, TypeOK
  <2>2. ~InQueue(d)
    BY <2>1 DEF Good, Places, InQueue
  <2>3. \A k \in Daemon : job[k][d].step \in {"idle", "release", "done"}
    BY <2>2, AtRest
  <2>4. \A k : Owing(k, tags[d], content[d], swap[d])
    BY <2>1 DEF Owing
  <2>5. Grounds' = Grounds
    BY <2>1 DEF Grounds
  <2> QED BY <2>1, <2>3, <2>4, <2>5, UserLedger
<1> QED BY <1>1, <1>2, <1>3 DEF CalmUser

LEMMA InitBooks ==
  ASSUME Init, Deployment PROVE \A d \in Doc : Known(d) /\ Paid(d)
<1>1. TypeOK
  BY InitTyped DEF IInv
<1>2. \A d \in Doc : Known(d)
  BY NoJobFields DEF Init, Known, Knows
<1>3. ASSUME NEW d \in Doc, NEW k \in CallKinds PROVE spent[d][k] + Due(d, k) + Reserve(k) <= 1 + Grounds
  <2>1. spent[d][k] = 0 /\ Reserve(k) = 0 /\ Grounds = 0
    BY <1>3 DEF Init, CallKinds, Reserve, Winding, Grounds
  <2>2. Due(d, k) \in {0, 1}
    BY DEF Due
  <2> QED BY <2>1, <2>2
<1> QED BY <1>2, <1>3 DEF Paid

LEMMA AloneBooks ==
  ASSUME TypeOK, NEW d \in Doc, d \notin Followed, Alone(d), Books
  PROVE  BooksAfter
<1> SUFFICES ASSUME NEW e \in Doc \ {d}, Known(e), Paid(e) PROVE Known(e)' /\ Paid(e)'
  BY DEF Followed, Books, BooksAfter
<1>1. /\ tags'[e] = tags[e] /\ content'[e] = content[e] /\ swap'[e] = swap[e]
      /\ \A k \in Daemon : job'[k][e] = job[k][e]
      /\ spent'[e] = spent[e] /\ UNCHANGED <<phase, stopping>>
  BY DEF Alone
<1>2. Known(e)'
  BY <1>1 DEF Known
<1>3. ASSUME NEW k \in CallKinds PROVE spent'[e][k] + Due(e, k)' + Reserve(k)' <= 1 + Grounds'
  <2>1. Due(e, k)' = Due(e, k) /\ Reserve(k)' = Reserve(k)
    BY <1>1 DEF Due, Spared, Reserve, Winding
  <2>2. /\ spent[e][k] \in Nat /\ Grounds \in Nat /\ Due(e, k) \in {0, 1} /\ Reserve(k) \in {0, 1}
        /\ spent[e][k] + Due(e, k) + Reserve(k) <= 1 + Grounds
    BY Counters DEF Paid
  <2>3. Grounds' \in Nat /\ Grounds <= Grounds'
    <3>1. queued \in Nat /\ rejects \in Nat /\ stops \in Nat
      BY BudgetsAreNatural DEF TypeOK
    <3> QED BY <3>1 DEF Alone, Grounds
  <2>4. spent'[e][k] = spent[e][k]
    BY <1>1
  <2> HIDE DEF Grounds
  <2> QED BY <2>1, <2>2, <2>3, <2>4, LaterSum
<1> QED BY <1>2, <1>3 DEF Paid

LEMMA CalmBooks ==
  ASSUME TypeOK, Phased, Deployment, [CalmNext]_vars, Faultless',
         Faultless => (\A e \in Followed : Good(e)) /\ Books
  PROVE  BooksAfter
<1>1. CASE UNCHANGED vars
  <2>1. Faultless
    BY <1>1 DEF Faultless, vars, budgets
  <2>2. UNCHANGED <<tags, content, swap, phase, stopping, job, spent, queued, rejects, stops>>
    BY <1>1 DEF vars, archive, daemons, ghosts, budgets
  <2>3. Books
    BY <2>1
  <2> QED BY <2>2, <2>3 DEF Books, BooksAfter, Known, Paid, Due, Spared, Reserve, Winding, Grounds
<1>2. CASE \E d \in Doc : CalmUser(d)
  <2>1. PICK d \in Doc : CalmUser(d)
    BY <1>2
  <2>2. Faultless
    BY <2>1 DEF Faultless, CalmUser, Edit, AddTag, RemoveTag, Edits, Enqueue, Requeue, Queues, RequeueWrite, budgets
  <2>3. CASE d \in Followed
    BY <2>1, <2>2, <2>3, UserBooks
  <2>4. CASE d \notin Followed
    BY <2>1, <2>2, <2>4, UserAlone, AloneBooks
  <2> QED BY <2>3, <2>4
<1>3. CASE \E i \in Daemon : DaemonStep(i) \/ Halt(i)
  <2>1. PICK i \in Daemon : DaemonStep(i) \/ Halt(i)
    BY <1>3
  <2>2. Faultless /\ Books /\ \A e \in Followed : Good(e)
    BY <2>1, DaemonCases
  <2>3. CASE Served /\ LifeStep(i)
    BY <2>2, <2>3, LifeBooks DEF LifeStep
  <2>4. ASSUME NEW d \in Doc, JobStep(i, d), Served \/ (Refused /\ ~Fails)
        PROVE  BooksAfter
    <3>1. CASE d \in Followed
      BY <2>2, <2>4, <3>1, JobStepBooks, RefusedBooks
    <3>2. CASE d \notin Followed
      BY <2>2, <2>4, <3>2, JobAlone, AloneBooks
    <3> QED BY <3>1, <3>2
  <2> QED BY <2>1, <2>3, <2>4, DaemonCases
<1> QED BY <1>1, <1>2, <1>3 DEF CalmNext

\* The books are kept until a first request is lost.
Ledger == \A d \in Doc : ~Misled(d) => Known(d) /\ Paid(d)
LInv == IInv /\ (Deployment /\ Faultless => Ledger)

LEMMA LedgerKept == CalmSpec => []LInv
<1>1. Init => LInv
  BY InitTyped, InitGood, InitBooks DEF IInv, LInv, Ledger
<1>2. LInv /\ IInv' /\ [CalmNext]_vars => LInv'
  <2> SUFFICES ASSUME LInv, IInv', [CalmNext]_vars, Deployment, Faultless' PROVE Ledger'
    BY DEF LInv
  <2>1. Faultless => (\A e \in Followed : Good(e)) /\ Books
    BY FollowedOn DEF LInv, IInv, Ledger, Books
  <2>2. BooksAfter
    BY <2>1, CalmBooks DEF LInv, IInv
  <2> QED BY <2>2 DEF Ledger, BooksAfter, Followed
<1> QED BY <1>1, <1>2, Invariance, PTL DEF CalmSpec

LEMMA BooksBound ==
  ASSUME NEW s \in Nat, NEW g \in Nat, NEW a \in {0, 1}, NEW b \in {0, 1}, s + a + b <= 1 + g
  PROVE  s <= 1 + g
OBVIOUS

\* ocr/worker.py and classifier/worker.py pay for every document they take from
\* a queue, and poll for ever.  Neither a shutdown in the middle of a batch, nor
\* a lock that is swept, nor a write-back that Paperless refuses for good makes
\* them pay twice for the same request: with one daemon of each kind, an error
\* tag and the sweep at start, every model call for a document but the first has
\* its own request, refused write or restart, until an answer is lost or a save
\* adds a pipeline tag that the model picked for this document.
THEOREM CallsAccountedFor ==
  ASSUME Deployment PROVE CalmSpec => []CallsAreAccountedFor
<1>1. LInv => CallsAreAccountedFor
  <2> SUFFICES ASSUME LInv, Faultless, NEW d \in Doc, ~Misled(d), NEW k \in {"ocr", "classify"}
               PROVE  spent[d][k] <= 1 + queued + rejects + stops
    BY DEF CallsAreAccountedFor, Faultless
  <2>1. k \in CallKinds /\ TypeOK
    BY DEF CallKinds, LInv, IInv
  <2>2. spent[d][k] + Due(d, k) + Reserve(k) <= 1 + Grounds
    BY <2>1 DEF LInv, Ledger, Paid
  <2>3. spent[d][k] <= 1 + Grounds
    BY <2>1, <2>2, Counters, BooksBound
  <2>4. queued \in Nat /\ rejects \in Nat /\ stops \in Nat
    BY <2>1, BudgetsAreNatural DEF TypeOK
  <2> QED BY <2>3, <2>4 DEF Grounds
<1> QED BY <1>1, LedgerKept, PTL
=============================================================================
