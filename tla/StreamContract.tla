--------------------------- MODULE StreamContract ---------------------------
(***************************************************************************)
(* What the streaming search route promises the client of a stream, and   *)
(* nothing of how it keeps the promise (routes.py, _search_stream): a      *)
(* stream is a run of numbered frames; one of them, the last, is terminal  *)
(* (the result or one error); the server ends the body only after it, or   *)
(* once the client has gone.                                               *)
(*                                                                         *)
(* SearchServer implements this contract.                                  *)
(***************************************************************************)
EXTENDS Naturals

CONSTANTS
    Slots        \* the streams that can be open at once

VARIABLES
    wire,        \* per slot: "closed", "open" or "told", the terminal frame is out
    seq,         \* per slot: the number of the last frame sent
    client       \* per slot: the client still reads, TRUE, or has gone

contractVars == <<wire, seq, client>>

ContractInit ==
    /\ wire = [s \in Slots |-> "closed"]
    /\ seq = [s \in Slots |-> 0]
    /\ client = [s \in Slots |-> TRUE]

Open(s) ==
    /\ wire[s] = "closed"
    /\ wire' = [wire EXCEPT ![s] = "open"]
    /\ UNCHANGED <<seq, client>>

\* A frame is told only while the stream is open, to a client that reads.
Tell(s) ==
    /\ wire[s] = "open"
    /\ client[s]
    /\ seq' = [seq EXCEPT ![s] = @ + 1]
    /\ wire' \in {wire, [wire EXCEPT ![s] = "told"]}
    /\ UNCHANGED client

Hangup(s) ==
    /\ wire[s] # "closed"
    /\ client' = [client EXCEPT ![s] = FALSE]
    /\ UNCHANGED <<wire, seq>>

Close(s) ==
    /\ wire[s] = "told" \/ (wire[s] = "open" /\ ~client[s])
    /\ wire' = [wire EXCEPT ![s] = "closed"]
    /\ seq' = [seq EXCEPT ![s] = 0]
    /\ client' = [client EXCEPT ![s] = TRUE]

ContractNext == \E s \in Slots : Open(s) \/ Tell(s) \/ Hangup(s) \/ Close(s)

Contract == ContractInit /\ [][ContractNext]_contractVars
=============================================================================
