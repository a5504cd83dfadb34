--------------------------- MODULE MCJobLifecycle ---------------------------
(* JobLifecycle with one or two jobs for TLC. *)
EXTENDS JobLifecycle, TLC

CONSTANTS j1, j2

OneJob    == {j1}
TwoJobs   == {j1, j2}
NoJobs    == {}
Symmetry  == Permutations(TwoJobs)

Dying       == {"crash", "worker_crash", "killed"}
Dispatching == {"killed", "late_failure", "ambiguous", "slow"}
Everything  == {"crash", "worker_crash", "killed", "late_failure", "ambiguous",
                "slow", "cancel", "session_end"}
============================================================================
