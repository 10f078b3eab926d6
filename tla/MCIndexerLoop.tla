---------------------------- MODULE MCIndexerLoop ----------------------------
(* Small instances of the indexer loop. *)
EXTENDS IndexerLoop, TLC

CONSTANTS p1, m1, m2, c1, c2

\* Models and chunkings are interchangeable: one configuration to start with
\* stands for all.
MCInit == Init /\ saved = [provider |-> p1, model |-> m1, chunking |-> c1]
MCSpec == MCInit /\ [][CalmNext]_vars /\ Fairness
=============================================================================
