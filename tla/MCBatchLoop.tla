----------------------------- MODULE MCBatchLoop -----------------------------
(* Small instances of the polling loop. *)
EXTENDS BatchLoop
=============================================================================
