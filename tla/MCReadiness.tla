----------------------------- MODULE MCReadiness -----------------------------
(* Readiness on two subscribers (the ghost snapshot of a turn and one more) *)
(* and two waiters (two mutating tool calls in flight).                     *)
EXTENDS Readiness
=============================================================================
