---------------------------- MODULE MCApprovals ----------------------------
(* Approvals with a few requests and commands for TLC. *)
EXTENDS Approvals

CONSTANTS r1, r2, c1

TwoRequests == {r1, r2}
OneCommand  == {c1}

AllFreedoms == {"concurrent", "unanswered", "ends", "cancel"}
============================================================================
