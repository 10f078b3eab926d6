----------------------------- MODULE ChatModels -----------------------------
(***************************************************************************)
(* The layer every chat call goes through (src/common/llm.py), with its    *)
(* retries (retry.py), its limit on calls in flight (concurrency.py), the  *)
(* cache of what each model rejects (model_compat.py) and the clients a    *)
(* settings change replaces (library_setup.py).  On top, the chain of      *)
(* models each step tries: the classifier's, the OCR worker's per page,    *)
(* and the one the search stages share.                                    *)
(*                                                                         *)
(* A caller is a thread making one call after another.  The API is the     *)
(* environment: it rejects parameters a model does not know, runs out of   *)
(* flex capacity and finds it again, and fails a bounded number of times.  *)
(***************************************************************************)
EXTENDS Naturals, Sequences, FiniteSets, FiniteSetsExt

CONSTANTS
  Callers,
  Setups,        \* [step, chain, asked, rejects, flex, configs, calls, faults, dips]
  MaxRetries,    \* attempts at one request before its failure counts
  RegistryRows   \* rows of _STRIPPABLE_PARAMS, which bound the strips of a call

ASSUME RetriesAssumption == MaxRetries \in Nat \ {0} /\ RegistryRows \in Nat
ASSUME CallersAreFinite == IsFiniteSet(Callers)

\* A chain and a configuration to start from; requests carry parameters of the
\* registry, each of which has a row of its own there.
ASSUME SetupsAreSound == \A s \in Setups :
  /\ Len(s.chain) \in Nat \ {0} /\ DOMAIN s.chain = 1 .. Len(s.chain)
  /\ Len(s.configs) \in Nat \ {0} /\ DOMAIN s.configs = 1 .. Len(s.configs)
  /\ \A g \in DOMAIN s.configs : s.configs[g].limit \in Nat
  /\ IsFiniteSet(s.asked) /\ Cardinality(s.asked) <= RegistryRows
  /\ s.calls \in Nat

VARIABLES
  setup,     \* what this process was started with, and the bounds on its surroundings
  calls,     \* where each caller's current call is
  out,       \* how each caller's last call ended ("" while it runs)
  made,      \* how many calls each caller has finished
  lost,      \* the models the current or last call gave up, each with the cause
  rejected,  \* model_compat_cache: what each model is known to reject
  slot,      \* the client the registry holds
  closed,    \* the clients that were closed
  guard,     \* the semaphore new calls queue at, by the configuration that made it
  free,      \* the permits left of each semaphore
  inForce,   \* the configuration in force
  reload,    \* how far the replacement of the clients has come
  room,      \* is there flex capacity
  stop,      \* was a shutdown requested
  faults, dips,  \* failures and capacity losses so far
  wasted     \* requests paid for a parameter the model rejects

callVars == <<calls, out, made, lost>>
clientVars == <<slot, closed, guard, inForce, reload>>
apiVars == <<room, stop, faults, dips, wasted>>
vars == <<setup, callVars, rejected, clientVars, free, apiVars>>

NoClient == 0
Config(v) == setup.configs[v]
Limit(g) == Config(g).limit
Models == {setup.chain[i] : i \in DOMAIN setup.chain}

\* unique_models: a model is tried at the first place the chain names it.
FirstUses == {i \in DOMAIN setup.chain :
                \A j \in 1 .. i - 1 : setup.chain[j] # setup.chain[i]}
ModelOf(c) == setup.chain[calls[c].turn]
FlexTier(q) == setup.flex /\ "service_tier" \in q.params

NoCall == [at |-> "idle", turn |-> 0, params |-> {}, client |-> NoClient, guard |-> 0,
           live |-> FALSE, tries |-> 0, strips |-> 0]

Init ==
  /\ setup \in Setups
  /\ calls = [c \in Callers |-> NoCall] /\ out = [c \in Callers |-> ""]
  /\ made = [c \in Callers |-> 0] /\ lost = [c \in Callers |-> {}]
  /\ rejected = [x \in Models |-> {}]
  /\ slot = 1 /\ closed = {} /\ guard = 1 /\ inForce = 1 /\ reload = "idle"
  /\ free = [g \in DOMAIN setup.configs |-> Limit(g)]
  /\ room = TRUE /\ stop = FALSE /\ faults = 0 /\ dips = 0
  /\ wasted = [x \in Models |-> 0]

-----------------------------------------------------------------------------
(* One request under the limiter *)

Move(c, to) == calls' = [calls EXCEPT ![c].at = to]

Ends(c, result) ==
  /\ calls' = [calls EXCEPT ![c] = NoCall]
  /\ out' = [out EXCEPT ![c] = result]
  /\ made' = [made EXCEPT ![c] = @ + 1]

\* What model_compat_cache leaves of the parameters asked for.
PreStripped(x) == setup.asked \ rejected[x]

Try(i) == [NoCall EXCEPT !.at = "dial", !.turn = i, !.params = PreStripped(setup.chain[i])]

\* A step gives its messages to the first model of its chain.
StartCall(c) ==
  /\ calls[c].at = "idle" /\ made[c] < setup.calls /\ Config(inForce).connected
  /\ calls' = [calls EXCEPT ![c] = Try(1)]
  /\ out' = [out EXCEPT ![c] = ""] /\ lost' = [lost EXCEPT ![c] = {}]
  /\ UNCHANGED <<setup, made, rejected, clientVars, free, apiVars>>

\* The client is read from the registry, and without one the call fails with an
\* error no layer of it catches.
Dial(c) ==
  /\ calls[c].at = "dial"
  /\ IF slot = NoClient
     THEN Ends(c, "crash")
     ELSE /\ calls' = [calls EXCEPT ![c].at = "dialled", ![c].client = slot]
          /\ UNCHANGED <<out, made>>
  /\ UNCHANGED <<setup, lost, rejected, clientVars, free, apiVars>>

\* The semaphore is read from the limiter, and then waited at.
Enter(c) ==
  /\ calls[c].at = "dialled"
  /\ calls' = [calls EXCEPT ![c].at = "queue", ![c].guard = guard]
  /\ UNCHANGED <<setup, out, made, lost, rejected, clientVars, free, apiVars>>

Bounded(g) == Limit(g) > 0

Acquire(c) ==
  LET g == calls[c].guard IN
  /\ calls[c].at = "queue"
  /\ Bounded(g) => free[g] > 0
  /\ free' = IF Bounded(g) THEN [free EXCEPT ![g] = @ - 1] ELSE free
  /\ calls' = [calls EXCEPT ![c].at = "call", ![c].live = calls[c].client \notin closed]
  /\ UNCHANGED <<setup, out, made, lost, rejected, clientVars, apiVars>>

MutantRelease(c) ==  \* Mutant: a call on a closed client keeps its permit.
  LET g == calls[c].guard IN
  free' = IF Bounded(g) /\ calls[c].live THEN [free EXCEPT ![g] = @ + 1] ELSE free

\* The permit is given back however the request ends.
Release(c) ==
  LET g == calls[c].guard IN
  free' = IF Bounded(g) THEN [free EXCEPT ![g] = @ + 1] ELSE free

InFlight(c) == calls[c].at = "call"

-----------------------------------------------------------------------------
(* Giving a model up, retrying it, waiting for it *)

GiveUpModel(c, cause) ==
  LET q == calls[c]
      later == {i \in FirstUses : i > q.turn}
  IN /\ lost' = [lost EXCEPT ![c] = @ \cup {<<q.turn, cause>>}]
     /\ IF later = {} THEN Ends(c, "none")
        ELSE calls' = [calls EXCEPT ![c] = Try(Min(later))] /\ UNCHANGED <<out, made>>

MutantRunsOut(c, cause) == GiveUpModel(c, cause)  \* Mutant: a lack of capacity is a failure too.

\* Out of attempts: a lack of flex capacity is waited out, all else is final.
RunsOut(c, cause) ==
  IF cause = "capacity" /\ FlexTier(calls[c])
  THEN Move(c, "wait") /\ UNCHANGED <<out, made, lost>>
  ELSE GiveUpModel(c, cause)

\* @retry: all attempts but the last sleep and start over.
Retryable(c, cause) ==
  IF calls[c].tries + 1 < MaxRetries
  THEN /\ calls' = [calls EXCEPT ![c].at = "backoff", ![c].tries = @ + 1]
       /\ UNCHANGED <<out, made, lost>>
  ELSE RunsOut(c, cause)

WakeUp(c) ==
  /\ calls[c].at = "backoff" /\ Move(c, "dial")
  /\ UNCHANGED <<setup, out, made, lost, rejected, clientVars, free, apiVars>>

\* _wait_for_flex_capacity: the shutdown flag is looked at before the time left.
FlexRetry(c) ==
  /\ calls[c].at = "wait" /\ ~stop
  /\ calls' = [calls EXCEPT ![c].at = "dial", ![c].tries = 0]
  /\ UNCHANGED <<setup, out, made, lost, rejected, clientVars, free, apiVars>>

MutantFlexAbort(c) ==  \* Mutant: an interrupted wait is taken for a finished one.
  /\ calls[c].at = "wait" /\ stop
  /\ calls' = [calls EXCEPT ![c].at = "dial", ![c].tries = 0]
  /\ UNCHANGED <<setup, out, made, lost, rejected, clientVars, free, apiVars>>

FlexAbort(c) ==
  /\ calls[c].at = "wait" /\ stop
  /\ GiveUpModel(c, "capacity")
  /\ UNCHANGED <<setup, rejected, clientVars, free, apiVars>>

-----------------------------------------------------------------------------
(* What the API replies *)

Serves(c) == /\ InFlight(c) /\ calls[c].live
             /\ calls[c].params \cap setup.rejects[ModelOf(c)] = {}

MayFail == faults < setup.faults
Fault == MayFail /\ faults' = faults + 1

\* classify_text takes what parses as a JSON object.
ClassifyTakes(reply) == reply = "good"
\* transcribe_image takes what is not a refusal.
TranscribeTakes(reply) == reply = "good"
\* _complete_with_model_fallback takes any text; its caller reads it.
FallbackTakes(reply) == reply \in {"good", "bad"}

Takes(reply) == \/ setup.step = "classify" /\ ClassifyTakes(reply)
                \/ setup.step = "ocr" /\ TranscribeTakes(reply)
                \/ setup.step = "search" /\ FallbackTakes(reply)

Answered(c) ==
  /\ Serves(c) /\ (FlexTier(calls[c]) => room)
  /\ \E reply \in {"good", "bad"} :
       IF Takes(reply) THEN Ends(c, reply) /\ UNCHANGED lost
                       ELSE GiveUpModel(c, "unusable")
  /\ Release(c)
  /\ UNCHANGED <<setup, rejected, clientVars, apiVars>>

NoCapacity(c) ==
  /\ Serves(c) /\ FlexTier(calls[c]) /\ ~room
  /\ Retryable(c, "capacity") /\ Release(c)
  /\ UNCHANGED <<setup, rejected, clientVars, apiVars>>

\* _strip_rejected_param, and the same model once more.
Strip(c, p) ==
  /\ rejected' = [rejected EXCEPT ![ModelOf(c)] = @ \cup {p}]
  /\ calls' = [calls EXCEPT ![c].at = "dial", ![c].tries = 0, ![c].strips = @ + 1,
                            ![c].params = @ \ {p}]
  /\ UNCHANGED <<out, made, lost>>

\* A 400: the error text names a parameter of the registry, or nothing of it.
Rejects400(c, p) ==
  IF calls[c].strips < RegistryRows /\ p \in calls[c].params
  THEN Strip(c, p)
  ELSE GiveUpModel(c, "rejected") /\ UNCHANGED rejected

BadRequest(c) ==
  /\ InFlight(c) /\ calls[c].live
  /\ \E p \in calls[c].params \cap setup.rejects[ModelOf(c)] :
       /\ Rejects400(c, p)
       /\ wasted' = [wasted EXCEPT ![ModelOf(c)] = @ + 1]
  /\ Release(c)
  /\ UNCHANGED <<setup, clientVars, room, stop, faults, dips>>

\* A malformed request, or one whose error text happens to name a parameter.
Malformed(c) ==
  /\ Serves(c) /\ Fault
  /\ \E p \in setup.asked \cup {"nothing"} : Rejects400(c, p)
  /\ Release(c)
  /\ UNCHANGED <<setup, clientVars, room, stop, dips, wasted>>

\* A lost connection, a timeout, a 5xx, a rate limit or an empty account; a
\* client closed before or under the call loses its connection too.
Dropped(c) ==
  /\ InFlight(c)
  /\ IF calls[c].client \in closed THEN UNCHANGED faults ELSE Fault
  /\ Retryable(c, "failed") /\ Release(c)
  /\ UNCHANGED <<setup, rejected, clientVars, room, stop, dips, wasted>>

\* An error no attempt can mend: a bad key, an unknown model.
Refused(c) ==
  /\ InFlight(c) /\ calls[c].live /\ Fault
  /\ GiveUpModel(c, "failed") /\ Release(c)
  /\ UNCHANGED <<setup, rejected, clientVars, room, stop, dips, wasted>>

-----------------------------------------------------------------------------
(* The surroundings *)

LoseCapacity ==
  /\ setup.flex /\ room /\ dips < setup.dips
  /\ room' = FALSE /\ dips' = dips + 1
  /\ UNCHANGED <<setup, callVars, rejected, clientVars, free, stop, faults, wasted>>

FindCapacity ==
  /\ ~room /\ room' = TRUE
  /\ UNCHANGED <<setup, callVars, rejected, clientVars, free, stop, faults, dips, wasted>>

\* The flag matters to these calls only while they wait for capacity.
RequestShutdown ==
  /\ setup.flex /\ ~stop /\ stop' = TRUE
  /\ UNCHANGED <<setup, callVars, rejected, clientVars, free, room, faults, dips, wasted>>

\* A daemon reloads between two batches, the search server while others search.
MayReload == setup.step = "search" \/ \A c \in Callers : calls[c].at = "idle"

\* setup_libraries: close the clients, then install the new ones...
CloseClients ==
  /\ reload = "idle" /\ inForce < Len(setup.configs) /\ MayReload
  /\ closed' = closed \cup {slot} /\ reload' = "closed"
  /\ UNCHANGED <<setup, callVars, rejected, slot, guard, inForce, free, apiVars>>

InstallClients ==
  /\ reload = "closed"
  /\ slot' = IF Config(inForce + 1).connected THEN inForce + 1 ELSE NoClient
  /\ reload' = "installed"
  /\ UNCHANGED <<setup, callVars, rejected, closed, guard, inForce, free, apiVars>>

\* ... and llm_limiter.init: a changed limit makes a new semaphore.
InitLimiter ==
  /\ reload = "installed"
  /\ inForce' = inForce + 1 /\ reload' = "idle"
  /\ guard' = IF Limit(guard) = Limit(inForce + 1) THEN guard ELSE inForce + 1
  /\ UNCHANGED <<setup, callVars, rejected, slot, closed, free, apiVars>>

CallStep(c) ==
  \/ Dial(c) \/ Enter(c) \/ Acquire(c) \/ WakeUp(c) \/ FlexRetry(c) \/ FlexAbort(c)
  \/ Answered(c) \/ NoCapacity(c) \/ BadRequest(c) \/ Malformed(c) \/ Dropped(c) \/ Refused(c)

Next ==
  \/ \E c \in Callers : StartCall(c)
  \/ \E c \in Callers : Dial(c)
  \/ \E c \in Callers : Enter(c)
  \/ \E c \in Callers : Acquire(c)
  \/ \E c \in Callers : WakeUp(c)
  \/ \E c \in Callers : FlexRetry(c)
  \/ \E c \in Callers : FlexAbort(c)
  \/ \E c \in Callers : Answered(c)
  \/ \E c \in Callers : NoCapacity(c)
  \/ \E c \in Callers : BadRequest(c)
  \/ \E c \in Callers : Malformed(c)
  \/ \E c \in Callers : Dropped(c)
  \/ \E c \in Callers : Refused(c)
  \/ LoseCapacity \/ FindCapacity \/ RequestShutdown
  \/ CloseClients \/ InstallClients \/ InitLimiter

\* Threads go on, the API replies within its timeout, a settings reload is finished.
Spec == /\ Init /\ [][Next]_vars
        /\ \A c \in Callers : WF_vars(CallStep(c))
        /\ WF_vars(InstallClients) /\ WF_vars(InitLimiter)

-----------------------------------------------------------------------------
(* Properties *)

Ats == {"idle", "dial", "dialled", "queue", "call", "backoff", "wait"}

\* Every variable keeps its type; a call never strips a parameter twice.
TypeOK ==
  /\ setup \in Setups
  /\ calls \in [Callers -> [at : Ats, turn : 0 .. Len(setup.chain), params : SUBSET setup.asked,
                  client : 0 .. Len(setup.configs), guard : 0 .. Len(setup.configs),
                  live : BOOLEAN, tries : 0 .. MaxRetries - 1,
                  strips : 0 .. Cardinality(setup.asked)]]
  /\ out \in [Callers -> {"", "good", "bad", "none", "crash"}]
  /\ made \in [Callers -> 0 .. setup.calls]
  /\ rejected \in [Models -> SUBSET setup.asked]
  /\ slot \in 0 .. Len(setup.configs) /\ closed \subseteq 0 .. Len(setup.configs)
  /\ guard \in DOMAIN setup.configs /\ inForce \in DOMAIN setup.configs
  /\ free \in [DOMAIN setup.configs -> Nat]
  /\ reload \in {"idle", "closed", "installed"}
  /\ room \in BOOLEAN /\ stop \in BOOLEAN

\* Every permit of a semaphore is free or held by a call in flight under it:
\* none is lost by a failure, a reload or a closed client, and a call that
\* backs off or waits for capacity holds none.  So the calls in flight exceed
\* the limit in force only by those a replaced semaphore still bounds.
PermitsAreAccountedFor ==
  \A g \in DOMAIN setup.configs :
    Bounded(g) =>
      free[g] + Cardinality({c \in Callers : InFlight(c) /\ calls[c].guard = g}) = Limit(g)

\* A lack of flex capacity costs a call its model only at a shutdown, never a
\* document in a running daemon.
PatienceHolds == \A c \in Callers : \A l \in lost[c] : l[2] = "capacity" => stop

\* A call ends with nothing only after every model of its chain was given up,
\* and each was given up for one cause.
NoModelIsSkipped ==
  \A c \in Callers :
    /\ out[c] = "none" => {l[1] : l \in lost[c]} = FirstUses
    /\ \A k, l \in lost[c] : k[1] = l[1] => k = l

\* What a model rejects is learned once: however the calls interleave, it is not
\* paid for more often than once per caller and parameter, all callers together.
RejectionsAreLearnedOnce ==
  \A x \in Models :
    wasted[x] <= Cardinality(Callers) * Cardinality(setup.rejects[x] \cap setup.asked)

\* As long as capacity keeps coming back, or a shutdown was requested, every
\* call ends: no strip loop, retry or wait keeps it for ever.
EveryCallEnds ==
  []<>(room \/ stop) =>
    \A c \in Callers : (calls[c].at # "idle") ~> (calls[c].at = "idle")

\* What the threads share stays sound: the permits of the limiter, and the
\* cache of what the models reject.
SharedStateIsSound == TypeOK /\ PermitsAreAccountedFor /\ RejectionsAreLearnedOnce

\* A model of a chain is given up for a cause of its own, and for no less.
ModelsAreGivenUpForCause == PatienceHolds /\ NoModelIsSkipped
=============================================================================
