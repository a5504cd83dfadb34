--------------------------- MODULE MCTurnCapture ---------------------------
(* TurnCapture with a subagent for TLC. *)
EXTENDS TurnCapture

CONSTANTS root, s1

OneSub == {s1}

AllFreedoms == {"stale", "refuse", "expire", "silence", "loss"}
============================================================================
