--------------------------- MODULE MCTagPipeline ---------------------------
(* Small instances of the tag pipeline. *)
EXTENDS TagPipeline

\* Every document carries the user tags from the start.
MCInit == Init /\ wanted = [d \in Doc |-> UserTag]

\* Between them, users and the classifier's model send a document back once.
OnceAgain == queued' + picks' <= 1
MCNext == CalmNext /\ OnceAgain

MCSpec == MCInit /\ [][MCNext]_vars /\ Fairness
MCSpecOfUsers == Init /\ [][MCNext]_vars /\ Fairness
=============================================================================
