--------------------------- MODULE MCTurnLifecycle ---------------------------
(* The turns of a session for TLC: two turns and the first inputs. *)
EXTENDS TurnLifecycle
=============================================================================
