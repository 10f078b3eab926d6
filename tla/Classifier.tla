----------------------------- MODULE Classifier -----------------------------
(***************************************************************************)
(* The classification worker (src/classifier/worker.py) and the taxonomy   *)
(* cache its threads share (taxonomy.py), with the filters between the     *)
(* model's reply and the document (tag_filters.py, metadata.py,            *)
(* quality_gates.py, normalisers.py, result.py).                           *)
(*                                                                         *)
(* A poll refreshes the cache and hands each queued document to a thread   *)
(* of its own.  What the chat layer does is ChatModels: here a reply       *)
(* arrives, or none does.  Claims, locks and pipeline tags are             *)
(* TagPipeline: here a document is queued until it is saved, marked with   *)
(* the error tag or sent back to OCR.  Names are strings whose normal      *)
(* forms are given by tables; one blank between their words.               *)
(***************************************************************************)
EXTENDS Lists, FiniteSetsExt

CONSTANTS
  Docs,
  Names,          \* what is not blank
  Cases,          \* [docs, items, limit, country, born, polls, llm, net, edits, deletes]
  Simple(_),      \* normalise_simple
  Org(_),         \* normalise_name
  Part(_, _),     \* is the first key a part of the second
  Blacklist, GenericTypes,
  PersonField     \* CLASSIFY_PERSON_FIELD_ID

NoName == ""

\* Words without their company suffixes do not end in one; a name of suffixes
\* and other characters only does, or is no sequence of such words.
ASSUME NamesAssumption ==
  /\ Names \subseteq STRING \ {NoName}
  /\ \A n \in Names : Simple(n) \in Names /\ Simple(Simple(n)) = Simple(n) /\ Org(n) \in STRING
  /\ \A n, m \in Names : Org(n) = NoName => Org(m) # Simple(n)

Kinds == {"tag", "correspondent", "type"}
\* "other": does the reply give a title, a date or a language.
Replies == [tags : Seq(Names), correspondent : Names \cup {NoName}, type : Names \cup {NoName},
            person : STRING, other : BOOLEAN]
Texts == [content : {"text", "blank", "refusal"}, reply : Replies, footers : Seq(Names),
          year : Names, fields : SUBSET STRING]

ASSUME CasesAssumption ==
  \A c \in Cases :
    /\ c.docs \in [Docs -> Texts]
    /\ c.items \in Seq([kind : Kinds, name : Names]) /\ c.country \in Seq(Names)
    /\ c.edits \in [Docs -> STRING]
    /\ {c.limit, c.polls, c.llm, c.net, c.deletes} \subseteq Nat
ASSUME FieldAssumption == PersonField \in STRING

VARIABLES
  case,      \* the documents, the settings and the bounds of this run
  paper,     \* each document in Paperless: its state, taxonomy ids and custom fields
  items,     \* the taxonomy in Paperless, by id; a deleted item is Gone
  cache,     \* TaxonomyCache: per kind its entries
  work,      \* where each document's thread is and what it holds
  polls, stop, llmFaults, netFaults, deleted,
  failed,    \* documents whose models all failed
  mine,      \* custom fields the user set while no thread held the document
  given,     \* ids handed out since the last refresh: <<kind, key, id>>
  blind      \* keys a thread was creating without knowing of another's creation

paperless == <<paper, items>>
budget == <<polls, stop, llmFaults, netFaults, deleted>>
history == <<failed, mine, given, blind>>
classifyVars == <<case, paperless, cache, work, budget, history>>

Gone == [kind |-> "gone", name |-> NoName]
DocOf(d) == case.docs[d]
Reply(d) == DocOf(d).reply

-----------------------------------------------------------------------------
(* Names *)

Norm(kind, name) == IF kind = "correspondent" THEN Org(name) ELSE Simple(name)

\* A name whose normal form is empty stands under its lowercase self.
Key(kind, name) == IF Norm(kind, name) = NoName THEN Simple(name) ELSE Norm(kind, name)

Lowercase(tags) == [i \in DOMAIN tags |-> Simple(tags[i])]

\* dedupe_tags: the places that hold a name for the first time.
Firsts(tags) == FirstPlaces(Lowercase(tags))

IsBlacklisted(t) == Simple(t) \in Blacklist

\* The name the cache knows a tag id by.
TagName(id) == {e.name : e \in {f \in cache["tag"] : f.id = id}}
IsBornDigital(t) == \E n \in TagName(case.born) : Simple(t) = Simple(n)

IsRedundant(t, r) ==
  \/ Org(r.correspondent) # NoName /\ Org(r.correspondent) \in {Simple(t), Org(t)}
  \/ Simple(t) = Simple(r.type)
  \/ r.person # NoName /\ Simple(t) = Simple(r.person)

\* The models named in the text's footers, the year, the country if there is one.
Required(d) == DocOf(d).footers \o <<DocOf(d).year>> \o case.country
IsRequired(d, t) == \E i \in DOMAIN Required(d) : Simple(Required(d)[i]) = Simple(t)

\* The places of the suggestions that pass every filter.
Optional(d) ==
  LET tags == Reply(d).tags
      Passes(t) == ~IsBlacklisted(t) /\ ~IsBornDigital(t) /\ ~IsRedundant(t, Reply(d)) /\ ~IsRequired(d, t)
  IN {i \in Firsts(tags) : Passes(tags[i])}

\* enrich_tags: lowercase, the required tags first, the others up to the limit.
TagNames(d) ==
  AtPlaces(Lowercase(Required(d)), Firsts(Required(d)))
    \o Take(AtPlaces(Lowercase(Reply(d).tags), Optional(d)), case.limit)

\* What _resolve_taxonomy_ids asks for, in its order.
Plan(d) ==
  LET One(kind, name) == IF name = NoName THEN <<>> ELSE <<<<kind, name>>>>
      tags == TagNames(d)
  IN [i \in DOMAIN tags |-> <<"tag", tags[i]>>]
     \o One("correspondent", Reply(d).correspondent) \o One("type", Reply(d).type)

IsEmpty(r) == r.tags = <<>> /\ {r.correspondent, r.type, r.person} = {NoName} /\ ~r.other
IsGeneric(r) == r.type = NoName \/ Simple(r.type) \in GenericTypes

-----------------------------------------------------------------------------
(* The taxonomy cache *)

IdsOf(kind, key) ==
  {i \in DOMAIN items : items[i].kind = kind /\ Key(kind, items[i].name) = key}

\* _index_items: a key leads to its last item, from the place of its first.
Indexed(kind) ==
  {[key |-> Key(kind, items[i].name), name |-> items[i].name, id |-> i,
    place |-> Min(IdsOf(kind, Key(kind, items[i].name)))] :
     i \in {j \in DOMAIN items : /\ items[j].kind = kind
                                 /\ j = Max(IdsOf(kind, Key(kind, items[j].name)))}}

\* _match_item: the key itself or, for a correspondent, an entry one of whose
\* key and the name's is a part of the other.
Matches(kind, name) ==
  LET exact == {e \in cache[kind] : e.key = Key(kind, name)}
  IN IF exact # {} \/ kind # "correspondent" \/ Org(name) = NoName THEN exact
     ELSE {e \in cache[kind] : Part(Org(name), e.key) \/ Part(e.key, Org(name))}

NoItem == 0

\* Of several, the first in the order of the dictionary.
Match(kind, name) ==
  LET found == Matches(kind, name) IN
  IF found = {} THEN NoItem
  ELSE (CHOOSE e \in found : \A f \in found : e.place <= f.place).id

NoWork == [at |-> "done", todo |-> <<>>, ids |-> {}, fields |-> {}, created |-> NoItem]

ClassifyInit ==
  /\ case \in Cases
  /\ items = case.items
  /\ paper = [d \in Docs |-> [state |-> "queued", ids |-> {}, fields |-> DocOf(d).fields]]
  /\ cache = [kind \in Kinds |-> {}]
  /\ work = [d \in Docs |-> NoWork]
  /\ polls = 0 /\ stop = FALSE /\ llmFaults = 0 /\ netFaults = 0 /\ deleted = 0
  /\ failed = {} /\ mine = [d \in Docs |-> DocOf(d).fields] /\ given = {} /\ blind = {}

Refreshed == cache' = [kind \in Kinds |-> Indexed(kind)] /\ given' = {}

At(d, step) == work[d].at = step
Goto(d, step) == work' = [work EXCEPT ![d].at = step]
Done(d) == work' = [work EXCEPT ![d] = NoWork]
Becomes(d, state) == paper' = [paper EXCEPT ![d].state = state]
NetFault == netFaults < case.net /\ netFaults' = netFaults + 1

-----------------------------------------------------------------------------
(* The batch, the screening, the reply *)

\* before_each_batch refreshes the cache, then every queued document is worked on.
StartPoll ==
  /\ \A d \in Docs : At(d, "done")
  /\ ~stop /\ polls < case.polls /\ \E d \in Docs : paper[d].state = "queued"
  /\ polls' = polls + 1 /\ Refreshed
  /\ work' = [d \in Docs |-> IF paper[d].state = "queued"
                             THEN [NoWork EXCEPT !.at = "fetch"] ELSE NoWork]
  /\ UNCHANGED <<case, paperless, stop, llmFaults, netFaults, deleted, failed, mine, blind>>

\* _prepare_or_divert, for a document whose claim succeeds.
Fetch(d) ==
  /\ At(d, "fetch")
  /\ \/ /\ DocOf(d).content = "text"
        /\ work' = [work EXCEPT ![d].at = "ask", ![d].fields = paper[d].fields]
        /\ UNCHANGED paper
     \/ DocOf(d).content = "blank" /\ Becomes(d, "ocr") /\ Done(d)
     \/ DocOf(d).content = "refusal" /\ Becomes(d, "error") /\ Done(d)
  /\ UNCHANGED <<case, items, cache, budget, history>>

MutantRetry(d) == Done(d) /\ UNCHANGED paper  \* Mutant: an empty reply is asked for again.

\* An empty reply is an error, but during a shutdown it proves nothing.
Unusable(d) == Done(d) /\ IF stop THEN UNCHANGED paper ELSE Becomes(d, "error")

TakeReply(d) ==
  /\ At(d, "ask")
  /\ IF IsEmpty(Reply(d)) THEN Unusable(d)
     ELSE IF IsGeneric(Reply(d)) THEN Becomes(d, "error") /\ Done(d)
     ELSE /\ work' = [work EXCEPT ![d].at = "look", ![d].todo = Plan(d)]
          /\ UNCHANGED paper
  /\ UNCHANGED <<case, items, cache, budget, history>>

\* Every model failed, or a shutdown cut the wait for capacity short.
NoReply(d) ==
  /\ At(d, "ask")
  /\ \/ stop /\ UNCHANGED <<llmFaults, failed>>
     \/ /\ llmFaults < case.llm /\ llmFaults' = llmFaults + 1
        /\ failed' = failed \cup {d}
  /\ Unusable(d)
  /\ UNCHANGED <<case, items, cache, polls, stop, netFaults, deleted, mine, given, blind>>

-----------------------------------------------------------------------------
(* _get_or_create_item_id *)

Wanted(d) == Head(work[d].todo)
KeyWanted(d) == Key(Wanted(d)[1], Wanted(d)[2])
Hit(d) == Match(Wanted(d)[1], Wanted(d)[2])

\* The name has its id: on to the next name, or to the document.
Resolve(d, id) ==
  /\ work' = [work EXCEPT ![d].at = IF Len(work[d].todo) = 1 THEN "patch" ELSE "look",
                          ![d].todo = Tail(@), ![d].ids = @ \cup {<<Wanted(d)[1], id>>},
                          ![d].created = NoItem]
  /\ given' = given \cup {<<Wanted(d)[1], KeyWanted(d), id>>}

Creating(e) == work[e].at \in {"create", "insert", "recover", "rejected", "rematch", "rematch_rejected"}
Rivals(d) == {e \in Docs \ {d} : Creating(e) /\ Wanted(e)[1] = Wanted(d)[1] /\ KeyWanted(e) = KeyWanted(d)}

\* Step 1, under the lock.
LookUp(d) ==
  /\ At(d, "look")
  /\ IF Hit(d) # NoItem THEN Resolve(d, Hit(d)) /\ UNCHANGED blind
     ELSE /\ Goto(d, "create") /\ UNCHANGED given
          /\ blind' = IF Rivals(d) = {} THEN blind
                      ELSE blind \cup {<<Wanted(d)[1], KeyWanted(d)>>}
  /\ UNCHANGED <<case, paperless, cache, budget, failed, mine>>

Taken(d) == \E i \in DOMAIN items : items[i] = [kind |-> Wanted(d)[1], name |-> Wanted(d)[2]]

NewItem(d) == items' = Append(items, [kind |-> Wanted(d)[1], name |-> Wanted(d)[2]])

\* Step 2, without the lock: Paperless rejects a name it has (both spellings
\* of the matching algorithm), or the reply is lost, or the request was.
Create(d) ==
  /\ At(d, "create")
  /\ \/ /\ ~Taken(d) /\ NewItem(d)
        /\ work' = [work EXCEPT ![d].at = "insert", ![d].created = Len(items) + 1]
        /\ UNCHANGED netFaults
     \/ ~Taken(d) /\ NetFault /\ NewItem(d) /\ Goto(d, "recover")
     \/ Taken(d) /\ Goto(d, "rejected") /\ UNCHANGED <<items, netFaults>>
     \/ NetFault /\ Goto(d, "recover") /\ UNCHANGED <<items>>
  /\ UNCHANGED <<case, paper, cache, polls, stop, llmFaults, deleted, history>>

\* A failed creation refreshes the cache; when that fails too its error, which
\* is no rejection, leaves the document queued.
Recover(d) ==
  /\ At(d, "recover") \/ At(d, "rejected")
  /\ \/ /\ Refreshed /\ UNCHANGED netFaults
        /\ Goto(d, IF At(d, "recover") THEN "rematch" ELSE "rematch_rejected")
        /\ UNCHANGED blind
     \/ /\ NetFault /\ Done(d) /\ UNCHANGED <<cache, given>>
        /\ blind' = blind \cup {<<Wanted(d)[1], KeyWanted(d)>>}
  /\ UNCHANGED <<case, paperless, polls, stop, llmFaults, deleted, failed, mine>>

MutantRematch(d) ==  \* Mutant: the first error is raised whatever the refresh brought.
  /\ At(d, "rematch") \/ At(d, "rematch_rejected")
  /\ IF At(d, "rematch_rejected") THEN Becomes(d, "error") ELSE UNCHANGED paper
  /\ Done(d)
  /\ UNCHANGED <<case, items, cache, budget, history>>

\* The refreshed cache knows the name, or the first error stands: a rejection
\* is permanent, anything else leaves the document queued.
Rematch(d) ==
  /\ At(d, "rematch") \/ At(d, "rematch_rejected")
  /\ IF Hit(d) # NoItem THEN Resolve(d, Hit(d)) /\ UNCHANGED paper
     ELSE /\ IF At(d, "rematch_rejected") THEN Becomes(d, "error") ELSE UNCHANGED paper
          /\ Done(d) /\ UNCHANGED given
  /\ UNCHANGED <<case, items, cache, budget, failed, mine, blind>>

\* A new key goes to the end of the dictionary.
Entry(d) == [key |-> KeyWanted(d), name |-> Wanted(d)[2], id |-> work[d].created,
             place |-> 1 + Max({0} \cup {e.place : e \in cache[Wanted(d)[1]]})]

MutantInsert(d) ==  \* Mutant: no second look.
  /\ At(d, "insert")
  /\ cache' = [cache EXCEPT ![Wanted(d)[1]] = @ \cup {Entry(d)}]
  /\ Resolve(d, work[d].created)
  /\ UNCHANGED <<case, paperless, budget, failed, mine, blind>>

\* Step 3, under the lock again: another thread's entry wins over ours.
Insert(d) ==
  /\ At(d, "insert")
  /\ IF Hit(d) # NoItem
     THEN Resolve(d, Hit(d)) /\ UNCHANGED cache
     ELSE /\ cache' = [cache EXCEPT ![Wanted(d)[1]] = @ \cup {Entry(d)}]
          /\ Resolve(d, work[d].created)
  /\ UNCHANGED <<case, paperless, budget, failed, mine, blind>>

-----------------------------------------------------------------------------
(* The metadata patch *)

\* update_custom_fields, on the fields the document had when it was fetched.
UpdateFields(d) == work[d].fields \cup {PersonField}

Exists(ids) == \A x \in ids : items[x[2]] # Gone

\* Paperless takes all of it, rejects it for an id it no longer has (the
\* document gets the error tag), or cannot be reached (the document stays queued).
Patch(d) ==
  /\ At(d, "patch")
  /\ \/ /\ Exists(work[d].ids) /\ UNCHANGED netFaults
        /\ paper' = [paper EXCEPT ![d] =
             [state |-> "saved", ids |-> work[d].ids,
              fields |-> IF Reply(d).person = NoName THEN @.fields ELSE UpdateFields(d)]]
     \/ ~Exists(work[d].ids) /\ Becomes(d, "error") /\ UNCHANGED netFaults
     \/ NetFault /\ UNCHANGED paper
  /\ Done(d)
  /\ UNCHANGED <<case, items, cache, polls, stop, llmFaults, deleted, history>>

-----------------------------------------------------------------------------
(* The user and the process *)

\* A user adds a value to a custom field; what is added while a thread holds
\* the document may be overwritten by what the thread read.
EditField(d) ==
  /\ case.edits[d] \notin paper[d].fields /\ case.edits[d] # "none"
  /\ paper' = [paper EXCEPT ![d].fields = @ \cup {case.edits[d]}]
  /\ mine' = IF At(d, "done") \/ At(d, "fetch")
             THEN [mine EXCEPT ![d] = @ \cup {case.edits[d]}] ELSE mine
  /\ UNCHANGED <<case, items, cache, work, budget, failed, given, blind>>

DeleteItem ==
  /\ deleted < case.deletes
  /\ \E i \in DOMAIN items : items[i] # Gone /\ items' = [items EXCEPT ![i] = Gone]
  /\ deleted' = deleted + 1
  /\ UNCHANGED <<case, paper, cache, work, polls, stop, llmFaults, netFaults, history>>

RequestShutdown ==
  /\ ~stop /\ stop' = TRUE
  /\ UNCHANGED <<case, paperless, cache, work, polls, llmFaults, netFaults, deleted, history>>

ThreadStep(d) ==
  \/ Fetch(d) \/ TakeReply(d) \/ LookUp(d) \/ Create(d)
  \/ Recover(d) \/ Rematch(d) \/ Insert(d) \/ Patch(d)

ClassifyNext ==
  \/ StartPoll
  \/ \E d \in Docs : Fetch(d)
  \/ \E d \in Docs : TakeReply(d)
  \/ \E d \in Docs : NoReply(d)
  \/ \E d \in Docs : LookUp(d)
  \/ \E d \in Docs : Create(d)
  \/ \E d \in Docs : Recover(d)
  \/ \E d \in Docs : Rematch(d)
  \/ \E d \in Docs : Insert(d)
  \/ \E d \in Docs : Patch(d)
  \/ \E d \in Docs : EditField(d)
  \/ DeleteItem \/ RequestShutdown

\* Threads go on and the loop polls; nothing is owed by users or the network.
ClassifySpec == ClassifyInit /\ [][ClassifyNext]_classifyVars /\ WF_classifyVars(StartPoll) /\ \A d \in Docs : WF_classifyVars(ThreadStep(d))

-----------------------------------------------------------------------------
(* Properties *)

Steps == {"done", "fetch", "ask", "look", "create", "recover", "rejected", "rematch",
          "rematch_rejected", "insert", "patch"}

\* Every variable keeps its type; the cache never holds a key twice.
ClassifyTypeOK ==
  /\ case \in Cases
  /\ \A d \in Docs : /\ paper[d].state \in {"queued", "saved", "error", "ocr"}
                     /\ work[d].at \in Steps
                     /\ work[d].ids \cup paper[d].ids \subseteq Kinds \X DOMAIN items
  /\ \A i \in DOMAIN items : items[i] = Gone \/ items[i].kind \in Kinds
  /\ \A kind \in Kinds : \A e, f \in cache[kind] : e.key = f.key => e = f
  /\ polls \in 0 .. case.polls /\ stop \in BOOLEAN

\* However the threads interleave, names that count as the same get the same
\* item until the cache is next refreshed.
SameNameSameItem ==
  \A x, y \in given : x[1] = y[1] /\ x[2] = y[2] => x[3] = y[3]

\* An item is created beside another of its name only when two threads were
\* creating it at once, or when neither the reply nor the refresh after it
\* came through: a lost reply alone, or a failed write, never creates again.
TwinsNeedARace ==
  \A kind \in Kinds : \A i, j \in DOMAIN items :
    LET Same == Key(kind, items[i].name) = Key(kind, items[j].name) IN
    /\ items[i].kind = kind /\ items[j].kind = kind /\ i < j /\ Same /\ j > Len(case.items)
    => <<kind, Key(kind, items[i].name)>> \in blind

\* A document is marked with the error tag for a cause of its own - its text,
\* its reply, its models, or an item deleted under it - and never because of a
\* shutdown, a network failure or another thread creating the same name.
HealthyDocumentsAreKept ==
  \A d \in Docs : paper[d].state = "error" =>
    \/ DocOf(d).content = "refusal"
    \/ IsEmpty(Reply(d)) \/ IsGeneric(Reply(d))
    \/ d \in failed \/ deleted > 0

\* A saved document carries an item for every required tag, whatever the
\* limit on the model's own suggestions, and no more of those than the limit.
RequiredTagsArrive ==
  \A d \in Docs : paper[d].state = "saved" =>
    LET tags == {x \in paper[d].ids : x[1] = "tag"} IN
    /\ \A i \in DOMAIN Required(d) : \E x \in tags :
         items[x[2]] # Gone => Key("tag", items[x[2]].name) = Simple(Required(d)[i])
    /\ Cardinality(tags) <= Len(Required(d)) + case.limit

\* A custom field the user set is kept, unless it was set between the read of
\* the document and the write.
UserFieldsAreKept == \A d \in Docs : mine[d] \subseteq paper[d].fields

\* Unless the process is told to stop, every document leaves the queue.
QueueDrains == <>(stop \/ \A d \in Docs : paper[d].state # "queued")

\* The taxonomy stays one: threads agree on the item of a name, and Paperless
\* has it twice only after a race or a lost reply.
TaxonomyIsSound == ClassifyTypeOK /\ SameNameSameItem /\ TwinsNeedARace

\* A document gets what is its own: no rejection for the failures of others, its
\* required tags, and the fields its user set.
DocumentsAreServed == HealthyDocumentsAreKept /\ RequiredTagsArrive /\ UserFieldsAreKept
=============================================================================
