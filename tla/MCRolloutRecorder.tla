-------------------------- MODULE MCRolloutRecorder --------------------------
(* The rollout of a thread for TLC: the clients are interchangeable. *)
EXTENDS RolloutRecorder, TLC

Symmetry == Permutations(Clients)
=============================================================================
