---------------------------- MODULE JobContract ----------------------------
(***************************************************************************)
(* What the index promises of its jobs to whoever reads it: a job is       *)
(* enqueued or started, runs at most once and comes to one end, which      *)
(* stays until the job is dropped from the index, never to be seen again.  *)
(***************************************************************************)
CONSTANT Jobs

VARIABLE status

Enqueue(j) == status[j] = "gone" /\ status'[j] = "queued"
Start(j)   == status[j] \in {"gone", "queued"} /\ status'[j] = "running"
End(j)     == /\ status[j] \in {"queued", "running"}
              /\ status'[j] \in {"completed", "failed", "cancelled"}
\* Given up before it was ever listed; or pruned, at its end or in the very
\* write that ends it.
Drop(j)    == status'[j] = "dropped"
\* A late patch of a dropped job leaves a row without a status.
Patch(j)   == status[j] = "dropped" /\ status'[j] = "none"
Stay(j)    == status'[j] = status[j]

\* One locked write may end several jobs (the reaper's does).
Next == \A j \in Jobs : Enqueue(j) \/ Start(j) \/ End(j) \/ Drop(j)
                       \/ Patch(j) \/ Stay(j)

Init == status = [j \in Jobs |-> "gone"]
Spec == Init /\ [][Next]_status
============================================================================
