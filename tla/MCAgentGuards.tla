----------------------------- MODULE MCAgentGuards -----------------------------
(* Interchangeable threads for TLC. *)
EXTENDS AgentGuards, TLC
Symmetry == Permutations(Agents)
================================================================================
