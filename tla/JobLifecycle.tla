---------------------------- MODULE JobLifecycle ----------------------------
(***************************************************************************)
(* The life of tracked jobs, as the processes that share the job store see *)
(* it: the dispatcher that enqueues a background job (enqueueBackgroundTask *)
(* in codex-companion.mjs), the worker that runs it (handleTaskWorker and  *)
(* runTrackedJob), the reaper inside every read command (reapDeadJobs), the *)
(* cancel command (handleCancel) and the SessionEnd hook                   *)
(* (cleanupSessionJobs).  Each locked write is a step; between two steps of *)
(* one process any other may run.                                          *)
(*                                                                         *)
(* The constant Freedoms selects what may go wrong or interfere:           *)
(*   "crash"      a dispatcher or a reaper dies between two of its steps;   *)
(*   "worker_crash"  a worker dies between any two of its steps;           *)
(*   "killed"     a worker dies, or is sent SIGTERM, while it runs;        *)
(*   "late_failure"  what follows the recording of an end throws;          *)
(*   "ambiguous"  the broker takes the spawn request and does not answer;  *)
(*   "slow"       a dispatch takes longer than QUEUED_DISPATCH_GRACE_MS;   *)
(*   "cancel", "session_end"  the command, or the hook, runs.              *)
(***************************************************************************)
EXTENDS JobStore

CONSTANTS Freedoms,
          Session  \* the jobs of the session that ends

ASSUME FreedomsAssumption ==
  Freedoms \subseteq {"crash", "worker_crash", "killed", "late_failure",
                      "ambiguous", "slow", "cancel", "session_end"}
ASSUME SessionAssumption == Session \subseteq Jobs

VARIABLES
  disp,    \* disp[j]: the next step of j's dispatcher
  told,    \* told[j]: the dispatcher knows the worker's pid
  worker,  \* worker[j]: the next step of j's worker process
  outcome, \* outcome[j]: the status the worker is about to record
  mirror,  \* jobs reaped in the index, their files not yet mirrored
  cancel,  \* cancel[j]: the next step of a cancel of j
  target,  \* target[j]: the cancel has read a pid
  ending,  \* the next step of the SessionEnd hook
  snapshot \* the index as the SessionEnd hook has read it

actorVars == <<disp, told, worker, outcome, mirror, cancel, target, ending,
               snapshot>>
vars == <<storeVars, actorVars>>

DispatchSteps == {"file", "index", "spawn", "mark_file", "mark_index",
                  "pid_file", "pid_index", "fail_file", "fail_index", "done"}
WorkerSteps   == {"none", "spawned", "start_file", "start_index", "running",
                  "end_file", "end_index", "term_file", "term_index", "dead"}
CancelSteps   == {"none", "interrupt", "file", "index", "done"}
EndingSteps   == {"none", "kill", "save", "done"}

TypeOK ==
  /\ StoreTypeOK
  /\ disp \in [Jobs -> DispatchSteps]
  /\ told \in [Jobs -> BOOLEAN]
  /\ worker \in [Jobs -> WorkerSteps]
  /\ outcome \in [Jobs -> {"completed", "failed"}]
  /\ mirror \in SUBSET Jobs
  /\ cancel \in [Jobs -> CancelSteps]
  /\ target \in [Jobs -> BOOLEAN]
  /\ ending \in EndingSteps
  /\ snapshot \in [Jobs -> Records]

Init ==
  /\ StoreInit
  /\ disp = [j \in Jobs |-> "file"]
  /\ told = [j \in Jobs |-> FALSE]
  /\ worker = [j \in Jobs |-> "none"]
  /\ outcome = [j \in Jobs |-> "failed"]
  /\ mirror = {}
  /\ cancel = [j \in Jobs |-> "none"]
  /\ target = [j \in Jobs |-> FALSE]
  /\ ending = "none"
  /\ snapshot = [j \in Jobs |-> Gone]

Alive(j) == worker[j] \notin {"none", "dead"}

----------------------------------------------------------------------------
\* The dispatcher: enqueueBackgroundTask, or a foreground runTrackedJob.

DispatchGoto(j, step) == disp' = [disp EXCEPT ![j] = step]
WorkerGoto(j, step)   == worker' = [worker EXCEPT ![j] = step]

\* A file the dispatcher updates; if it has gone it is written anew.
StoredOrQueued(j) == IF file[j] = Gone THEN Rec("queued", FALSE) ELSE file[j]

\* A foreground command runs the job in its own process.
RunForeground(j) ==
  /\ disp[j] = "file"
  /\ DispatchGoto(j, "done")
  /\ WorkerGoto(j, "start_file")
  /\ UNCHANGED <<storeVars, told, outcome, mirror, cancel, target, ending,
                 snapshot>>

\* The queued record, in the file and then in the index.
Enqueue(j) ==
  /\ \/ /\ disp[j] = "file"
        /\ WriteFile(j, Rec("queued", FALSE))
        /\ DispatchGoto(j, "index")
     \/ /\ disp[j] = "index"
        /\ Upsert(j, Rec("queued", FALSE))
        /\ DispatchGoto(j, "spawn")
  /\ UNCHANGED <<told, worker, outcome, mirror, cancel, target, ending,
                 snapshot>>

\* The worker is spawned, by the broker or locally, and its pid known; or
\* nothing is and nothing may be (--require-broker); or a local spawn fails.
Spawn(j) ==
  /\ disp[j] = "spawn"
  /\ worker[j] = "none"
  /\ \/ /\ WorkerGoto(j, "spawned")
        /\ told' = [told EXCEPT ![j] = TRUE]
        /\ DispatchGoto(j, "pid_file")
     \/ /\ DispatchGoto(j, "fail_file")
        /\ UNCHANGED <<worker, told>>
     \/ /\ DispatchGoto(j, "pid_file")
        /\ UNCHANGED <<worker, told>>
  /\ UNCHANGED <<storeVars, outcome, mirror, cancel, target, ending, snapshot>>

\* The broker was reached and did not answer: it may have spawned a worker,
\* which may already be at work when the dispatcher gives up waiting.
SpawnUnconfirmed(j) ==
  /\ "ambiguous" \in Freedoms
  /\ \/ /\ disp[j] = "spawn"
        /\ worker[j] = "none"
        /\ WorkerGoto(j, "spawned")
        /\ UNCHANGED disp
     \/ /\ disp[j] = "spawn"
        /\ DispatchGoto(j, "mark_file")
        /\ UNCHANGED worker
  /\ UNCHANGED <<storeVars, told, outcome, mirror, cancel, target, ending,
                 snapshot>>

\* dispatchState = "broker-ambiguous", in the file and then in the index.
MarkUnconfirmed(j) ==
  /\ \/ /\ disp[j] = "mark_file"
        /\ WriteFile(j, StoredOrQueued(j))
        /\ DispatchGoto(j, "mark_index")
     \/ /\ disp[j] = "mark_index"
        /\ Upsert(j, PatchNothing(index[j]))
        /\ DispatchGoto(j, "pid_file")
  /\ UNCHANGED <<told, worker, outcome, mirror, cancel, target, ending,
                 snapshot>>

\* Mutants: the whole queued record is written again with the pid; the patch
\* replaces the record.
PidQueued(e, pid) == Rec("queued", pid)
PidOnly(e, pid)   == [pid |-> pid]

PidPatch(e, pid) == PatchPid(e, pid)

\* The pid, or null, in the file and then in the index.
RecordPid(j) ==
  /\ \/ /\ disp[j] = "pid_file"
        /\ WriteFile(j, PidPatch(StoredOrQueued(j), told[j]))
        /\ DispatchGoto(j, "pid_index")
     \/ /\ disp[j] = "pid_index"
        /\ Upsert(j, PidPatch(index[j], told[j]))
        /\ DispatchGoto(j, "done")
  /\ UNCHANGED <<told, worker, outcome, mirror, cancel, target, ending,
                 snapshot>>

\* no_survivable_broker, in the file and then in the index.
FailDispatch(j) ==
  /\ \/ /\ disp[j] = "fail_file"
        /\ WriteFile(j, Rec("failed", FALSE))
        /\ DispatchGoto(j, "fail_index")
     \/ /\ disp[j] = "fail_index"
        /\ Upsert(j, Rec("failed", FALSE))
        /\ DispatchGoto(j, "done")
  /\ UNCHANGED <<told, worker, outcome, mirror, cancel, target, ending,
                 snapshot>>

DispatcherDies(j) ==
  /\ "crash" \in Freedoms
  /\ disp[j] # "done"
  /\ DispatchGoto(j, "done")
  /\ UNCHANGED <<storeVars, told, worker, outcome, mirror, cancel, target,
                 ending, snapshot>>

----------------------------------------------------------------------------
\* The worker: handleTaskWorker, then runTrackedJob.

\* Without a job file the worker throws.
ReadRequest(j) ==
  /\ worker[j] = "spawned"
  /\ WorkerGoto(j, IF file[j] = Gone THEN "dead" ELSE "start_file")
  /\ UNCHANGED <<storeVars, disp, told, outcome, mirror, cancel, target,
                 ending, snapshot>>

\* The running record, in the file and then in the index.
StartRunning(j) ==
  /\ \/ /\ worker[j] = "start_file"
        /\ WriteFile(j, Rec("running", TRUE))
        /\ WorkerGoto(j, "start_index")
     \/ /\ worker[j] = "start_index"
        /\ Upsert(j, Rec("running", TRUE))
        /\ WorkerGoto(j, "running")
  /\ UNCHANGED <<disp, told, outcome, mirror, cancel, target, ending, snapshot>>

\* A progress event: createJobProgressUpdater patches the phase or the ids.
\* The file it patches next keeps the fields of the model.
Progress(j) ==
  /\ worker[j] = "running"
  /\ Upsert(j, PatchNothing(index[j]))
  /\ UNCHANGED actorVars

\* The runner returns or throws: the file, then the index, then exit.  A
\* signal that comes during this synchronous stretch is lost.
RunnerEnds(j) ==
  /\ worker[j] = "running"
  /\ WorkerGoto(j, "end_file")
  /\ \E o \in {"completed", "failed"} : outcome' = [outcome EXCEPT ![j] = o]
  /\ UNCHANGED <<storeVars, disp, told, mirror, cancel, target, ending,
                 snapshot>>

RecordEnd(j) ==
  /\ \/ /\ worker[j] = "end_file"
        /\ WriteFile(j, Rec(outcome[j], FALSE))
        /\ WorkerGoto(j, "end_index")
     \/ /\ worker[j] = "end_index"
        /\ Upsert(j, Rec(outcome[j], FALSE))
        /\ WorkerGoto(j, "dead")
  /\ UNCHANGED <<disp, told, outcome, mirror, cancel, target, ending, snapshot>>

\* The log block after the index entry throws, and the catch block records
\* failed over the end, in the file and the index as MarkTerminated does.
FailLate(j) ==
  /\ "late_failure" \in Freedoms
  /\ worker[j] = "end_index"
  /\ Upsert(j, Rec(outcome[j], FALSE))
  /\ WorkerGoto(j, "term_file")
  /\ UNCHANGED <<disp, told, outcome, mirror, cancel, target, ending, snapshot>>

\* What SIGTERM does to a worker: the handlers are installed while the runner
\* is awaited; before that the process just ends.
AfterSignal(step) ==
  IF step = "running" THEN "term_file"
  ELSE IF step \in {"spawned", "start_file", "start_index"} THEN "dead"
  ELSE step

\* markJobTerminated: the file, then the index, then exit.
MarkTerminated(j) ==
  /\ \/ /\ worker[j] = "term_file"
        /\ WriteFile(j, Rec("failed", FALSE))
        /\ WorkerGoto(j, "term_index")
     \/ /\ worker[j] = "term_index"
        /\ Upsert(j, Rec("failed", FALSE))
        /\ WorkerGoto(j, "dead")
  /\ UNCHANGED <<disp, told, outcome, mirror, cancel, target, ending, snapshot>>

Signalled(j) ==
  /\ "killed" \in Freedoms
  /\ worker[j] = "running"
  /\ WorkerGoto(j, AfterSignal(worker[j]))
  /\ UNCHANGED <<storeVars, disp, told, outcome, mirror, cancel, target,
                 ending, snapshot>>

\* The process is gone without a trace.
WorkerDies(j) ==
  /\ Alive(j)
  /\ \/ "worker_crash" \in Freedoms
     \/ "killed" \in Freedoms /\ worker[j] \in {"spawned", "running"}
  /\ WorkerGoto(j, "dead")
  /\ UNCHANGED <<storeVars, disp, told, outcome, mirror, cancel, target,
                 ending, snapshot>>

----------------------------------------------------------------------------
\* The reaper: reapDeadJobs, run by every command that reads the jobs.

\* isJobProcessAlive for the entry of j.
EntryAlive(j) == index[j].pid /\ Alive(j)

\* Mutant: a queued job without a pid has no grace.
ShouldReapAtOnce(j) == index[j].status \in Active /\ ~EntryAlive(j)

\* Mutant: without a pid there is nothing to look for.
ShouldReapWithPid(j) ==
  index[j].status \in Active /\ index[j].pid /\ ~EntryAlive(j)

ShouldReap(j) ==
  /\ index[j].status \in Active
  /\ ~(index[j].status = "queued" /\ ~index[j].pid /\ j \in fresh)
  /\ ~EntryAlive(j)

Reapable == {j \in Jobs : ShouldReap(j)}

Reap ==
  /\ Reapable # {}
  /\ Save([j \in Jobs |-> IF j \in Reapable THEN Rec("failed", FALSE)
                                            ELSE index[j]])
  /\ mirror' = mirror \union Reapable
  /\ UNCHANGED <<fresh, disp, told, worker, outcome, cancel, target, ending,
                 snapshot>>

\* Mutant: a file that tells of a start is left alone.
FileStarted(e) == e.status # "queued"

FileSettled(e) == e.status \in {"gone", "completed", "failed"}

\* The reaped job's file is made failed as well, unless it has gone or tells
\* of a completion or failure already.
Mirror(j) ==
  /\ j \in mirror
  /\ mirror' = mirror \ {j}
  /\ IF FileSettled(file[j])
     THEN UNCHANGED storeVars
     ELSE WriteFile(j, Rec("failed", FALSE))
  /\ UNCHANGED <<disp, told, worker, outcome, cancel, target, ending, snapshot>>

ReaperDies ==
  /\ "crash" \in Freedoms
  /\ mirror # {}
  /\ mirror' = {}
  /\ UNCHANGED <<storeVars, disp, told, worker, outcome, cancel, target,
                 ending, snapshot>>

\* QUEUED_DISPATCH_GRACE_MS pass since the last update of j's entry.
GraceEnds(j) ==
  /\ j \in fresh
  /\ \/ "slow" \in Freedoms
     \/ /\ disp[j] = "done"
        /\ worker[j] \notin {"spawned", "start_file", "start_index"}
  /\ fresh' = fresh \ {j}
  /\ UNCHANGED <<index, file, actorVars>>

----------------------------------------------------------------------------
\* The cancel command: handleCancel.

\* It picks an active job and interrupts its turn; what it read of the entry
\* is used after the await.
CancelSelect(j) ==
  /\ "cancel" \in Freedoms
  /\ cancel[j] = "none"
  /\ index[j].status \in Active
  /\ cancel' = [cancel EXCEPT ![j] = "interrupt"]
  /\ target' = [target EXCEPT ![j] = index[j].pid]
  /\ UNCHANGED <<storeVars, disp, told, worker, outcome, mirror, ending,
                 snapshot>>

CancelKill(j) ==
  /\ cancel[j] = "interrupt"
  /\ cancel' = [cancel EXCEPT ![j] = "file"]
  /\ WorkerGoto(j, IF target[j] THEN AfterSignal(worker[j]) ELSE worker[j])
  /\ UNCHANGED <<storeVars, disp, told, outcome, mirror, target, ending,
                 snapshot>>

CancelRecord(j) ==
  /\ \/ /\ cancel[j] = "file"
        /\ WriteFile(j, Rec("cancelled", FALSE))
        /\ cancel' = [cancel EXCEPT ![j] = "index"]
     \/ /\ cancel[j] = "index"
        /\ Upsert(j, Rec("cancelled", FALSE))
        /\ cancel' = [cancel EXCEPT ![j] = "done"]
  /\ UNCHANGED <<disp, told, worker, outcome, mirror, target, ending, snapshot>>

----------------------------------------------------------------------------
\* The SessionEnd hook: cleanupSessionJobs.

\* It reads the index without the lock.
SessionLoad ==
  /\ "session_end" \in Freedoms
  /\ ending = "none"
  /\ \E j \in Session : index[j] # Gone
  /\ snapshot' = index
  /\ ending' = "kill"
  /\ UNCHANGED <<storeVars, disp, told, worker, outcome, mirror, cancel,
                 target>>

\* It terminates the session's jobs that were active.
SessionKill ==
  /\ ending = "kill"
  /\ ending' = "save"
  /\ worker' = [j \in Jobs |->
                  IF /\ j \in Session
                     /\ snapshot[j].status \in Active
                     /\ snapshot[j].pid
                  THEN AfterSignal(worker[j]) ELSE worker[j]]
  /\ UNCHANGED <<storeVars, disp, told, outcome, mirror, cancel, target,
                 snapshot>>

\* It saves what it read, without the session's jobs.
SessionSave ==
  /\ ending = "save"
  /\ ending' = "done"
  /\ Save([j \in Jobs |-> IF j \in Session THEN Gone ELSE snapshot[j]])
  /\ UNCHANGED <<fresh, disp, told, worker, outcome, mirror, cancel, target,
                 snapshot>>

----------------------------------------------------------------------------
Dispatch(j) ==
  Enqueue(j) \/ Spawn(j) \/ MarkUnconfirmed(j) \/ RecordPid(j)
  \/ FailDispatch(j)

Work(j) ==
  ReadRequest(j) \/ StartRunning(j) \/ RunnerEnds(j) \/ RecordEnd(j)
  \/ FailLate(j) \/ MarkTerminated(j)

Next ==
  \/ \E j \in Jobs :
       \/ RunForeground(j) \/ Dispatch(j) \/ SpawnUnconfirmed(j)
       \/ DispatcherDies(j)
       \/ Work(j) \/ Progress(j) \/ Signalled(j) \/ WorkerDies(j)
       \/ Mirror(j) \/ GraceEnds(j)
       \/ CancelSelect(j) \/ CancelKill(j) \/ CancelRecord(j)
  \/ Reap \/ ReaperDies
  \/ SessionLoad \/ SessionKill \/ SessionSave

Spec == Init /\ [][Next]_vars

(***************************************************************************)
(* Fairness: a process takes its next step, a turn ends (the watchdogs of  *)
(* captureTurn and the request timeout see to it), time passes, and the    *)
(* user goes on asking for the status, which reaps.                        *)
(***************************************************************************)
FairSpec ==
  /\ Spec
  /\ \A j \in Jobs : /\ WF_vars(Dispatch(j)) /\ WF_vars(Work(j))
                     /\ WF_vars(GraceEnds(j))
  /\ WF_vars(Reap)

----------------------------------------------------------------------------
\* Properties.

\* No step of any process is left to take for j.
Quiet(j) ==
  /\ disp[j] = "done" /\ ~Alive(j)
  /\ cancel[j] \in {"none", "done"} /\ ending \in {"none", "done"}
  /\ j \notin mirror /\ index[j].status \notin Active

\* Not in the index yet, and still to be put there.
Unlisted(j) ==
  \/ disp[j] \in {"file", "index"}
  \/ worker[j] \in {"start_file", "start_index"}

\* What the contract knows of j.
StatusOf(j) == IF index[j] = Gone /\ ~Unlisted(j) THEN "dropped"
               ELSE index[j].status

\* Each job goes queued, running, terminal, and never back or on to another
\* end; once pruned it never comes back as a job (lib/state.mjs:477-485).
Contract == INSTANCE JobContract WITH status <- [j \in Jobs |-> StatusOf(j)]
ImplementsContract == Contract!Spec

\* The reaper fails a job only when its worker is gone, or never was: not
\* while the worker starts, runs or records its end (lib/state.mjs:575-580).
ReapsOnlyDead ==
  [][Reap => \A j \in Reapable : ~Alive(j)]_vars

\* An active job whose worker lives on is never pushed out of the index, where
\* it could no longer be seen or cancelled, unless the very save ends its
\* session (lib/state.mjs:477-485).
LiveJobsStayListed ==
  [][\A j \in Jobs :
       index[j].status \in Active /\ index'[j] = Gone
         => ~Alive(j)' \/ (SessionSave /\ j \in Session)]_vars

\* In the end the job's file says what the index says, which /result and
\* /status rely on (lib/state.mjs:721-723); of an index below its cap.
FilesAgree ==
  \A j \in Jobs :
    Quiet(j) /\ index[j] # Gone => file[j].status = index[j].status

\* No job stays queued or running for ever, whoever dies or goes unanswered.
JobsSettle ==
  \A j \in Jobs : (index[j].status \in Active) ~> (index[j].status \notin Active)
============================================================================
