----------------------------- MODULE MCTurnRun -----------------------------
(* TurnRun with every kind of retry budget for TLC. *)
EXTENDS TurnRun

SomeBudgets == {-1, 0, 2, 3}
============================================================================
