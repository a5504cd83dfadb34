------------------------------ MODULE JobStore ------------------------------
(***************************************************************************)
(* The job records of lib/state.mjs: the index state.json, with one entry  *)
(* per job, and one file per job under jobs/.  Every operator below is one *)
(* locked section (updateState, saveState, writeJobFile, updateJobFile):   *)
(* it is atomic as far as DirLock's exclusion holds, but index and file    *)
(* are never written together.                                             *)
(*                                                                         *)
(* An entry keeps the fields the reaper, the cancel and the status commands *)
(* decide on: the status, and whether a pid is recorded.                   *)
(***************************************************************************)
EXTENDS Integers, FiniteSets

CONSTANTS Jobs,
          MaxJobs  \* MAX_JOBS, the cap of the index

ASSUME JobsAssumption == IsFiniteSet(Jobs)
ASSUME MaxJobsAssumption == MaxJobs \in Nat

Active   == {"queued", "running"}
Terminal == {"completed", "failed", "cancelled"}

\* "none" is an entry that a patch without a status has created.
Statuses == Active \union Terminal \union {"none"}
Entry    == [status : Statuses, pid : BOOLEAN]
Gone     == [status |-> "gone", pid |-> FALSE]
Records  == Entry \union {Gone}

Rec(status, pid) == [status |-> status, pid |-> pid]

VARIABLES
  index,  \* index[j]: the entry of state.json
  file,   \* file[j]: the job file
  fresh   \* jobs whose updatedAt is within QUEUED_DISPATCH_GRACE_MS

storeVars == <<index, file, fresh>>

StoreTypeOK ==
  /\ index \in [Jobs -> Records]
  /\ file \in [Jobs -> Records]
  /\ fresh \in SUBSET Jobs

StoreInit ==
  /\ index = [j \in Jobs |-> Gone]
  /\ file = [j \in Jobs |-> Gone]
  /\ fresh = {}

----------------------------------------------------------------------------
\* pruneJobs: what of the entries may stay.  Of the entries that are not
\* active the code keeps the most recently updated; any may be those.
ActiveOf(new)   == {j \in Jobs : new[j].status \in Active}
InactiveOf(new) == {j \in Jobs : new[j].status \in Terminal \union {"none"}}

Budget(new) == LET left == MaxJobs - Cardinality(ActiveOf(new))
               IN  IF left < 0 THEN 0 ELSE left

\* Mutant: the cap does not look at the status.
PrunedByCount(new, kept) ==
  LET all == ActiveOf(new) \union InactiveOf(new)
  IN  /\ kept \subseteq all
      /\ IF Cardinality(all) <= MaxJobs THEN kept = all
                                        ELSE Cardinality(kept) = MaxJobs

Pruned(new, kept) ==
  /\ ActiveOf(new) \subseteq kept
  /\ kept \subseteq ActiveOf(new) \union InactiveOf(new)
  /\ IF Cardinality(InactiveOf(new)) <= Budget(new)
     THEN InactiveOf(new) \subseteq kept
     ELSE Cardinality(kept \intersect InactiveOf(new)) = Budget(new)

\* saveStateUnlocked: a job that was in the index and is not any more loses
\* its file too.
Save(new) ==
  \E kept \in SUBSET Jobs :
    /\ Pruned(new, kept)
    /\ index' = [j \in Jobs |-> IF j \in kept THEN new[j] ELSE Gone]
    /\ file' = [j \in Jobs |-> IF index[j] # Gone /\ j \notin kept
                               THEN Gone ELSE file[j]]

\* upsertJob with a patch that gives a status and a pid, a pid, or neither.
Upsert(j, entry) ==
  /\ Save([index EXCEPT ![j] = entry])
  /\ fresh' = fresh \union {j}

\* An entry the patch creates has no status of its own.
PatchPid(e, pid) == Rec(IF e = Gone THEN "none" ELSE e.status, pid)
PatchNothing(e)  == PatchPid(e, e.pid)

\* writeJobFile, and updateJobFile with a mutator that returns a record.
WriteFile(j, entry) ==
  /\ file' = [file EXCEPT ![j] = entry]
  /\ UNCHANGED <<index, fresh>>
============================================================================
