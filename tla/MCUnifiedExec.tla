---------------------------- MODULE MCUnifiedExec ----------------------------
(* The background processes for TLC: calls and ids are interchangeable. *)
EXTENDS UnifiedExec, TLC

Symmetry == Permutations(Calls) \cup Permutations(Ids)
=============================================================================
