------------------------------- MODULE MCHistory -------------------------------
(* A small session for TLC. *)
EXTENDS History, TLC


================================================================================
