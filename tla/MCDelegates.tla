----------------------------- MODULE MCDelegates -----------------------------
(* A review for TLC. *)
EXTENDS Delegates, TLC
================================================================================
