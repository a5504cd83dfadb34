----------------------------- MODULE JobProofs -----------------------------
(***************************************************************************)
(* Proofs about JobLifecycle for any set of jobs and any cap, each under    *)
(* the named limit on what may go wrong that it needs:                     *)
(*   no limit  the types;                                                  *)
(*   Calm      the reaper takes no job from a live worker;                 *)
(*   Deaths    live jobs stay listed, and the index keeps JobContract;     *)
(*   Mended, UnderCap  in the end a job's file agrees with its entry.      *)
(***************************************************************************)
EXTENDS JobLifecycle, FiniteSetTheorems, TLAPS

\* A save puts in what it is given, or drops it.
LEMMA SaveIndex ==
  ASSUME NEW new \in [Jobs -> Records], Save(new)
  PROVE  /\ index' \in [Jobs -> Records]
         /\ \A j \in Jobs : index'[j] \in {new[j], Gone}
BY DEF Save, Records

\* A save leaves a job file alone or removes it.
LEMMA SaveFile ==
  ASSUME NEW new, Save(new), file \in [Jobs -> Records]
  PROVE  file' \in [Jobs -> Records]
BY DEF Save, Records

\* An upsert touches the entry of one job; pruning may drop any.
LEMMA UpsertIndex ==
  ASSUME StoreTypeOK, NEW j \in Jobs, NEW e \in Entry, Upsert(j, e)
  PROVE  /\ StoreTypeOK'
         /\ index'[j] \in {e, Gone}
         /\ \A k \in Jobs \ {j} : index'[k] \in {index[k], Gone}
         /\ fresh' = fresh \union {j}
<1> DEFINE new == [index EXCEPT ![j] = e]
<1>1. new \in [Jobs -> Records]
  BY DEF StoreTypeOK, Records
<1>2. Save(new) /\ fresh' = fresh \union {j}
  BY DEF Upsert
<1>3. /\ index' \in [Jobs -> Records]
      /\ \A k \in Jobs : index'[k] \in {new[k], Gone}
  BY <1>1, <1>2, SaveIndex
<1>4. file' \in [Jobs -> Records]
  BY <1>2, SaveFile DEF StoreTypeOK
<1> QED
  BY <1>2, <1>3, <1>4 DEF StoreTypeOK

\* Writing a job file touches nothing else of the store.
LEMMA WriteFileType ==
  ASSUME StoreTypeOK, NEW j \in Jobs, NEW e \in Entry, WriteFile(j, e)
  PROVE  StoreTypeOK' /\ index' = index /\ fresh' = fresh
BY DEF StoreTypeOK, WriteFile, Records

\* The fields of a record, which Gone has too.
LEMMA RecordFields ==
  ASSUME NEW e \in Records
  PROVE  e.pid \in BOOLEAN /\ (e # Gone => e.status \in Statuses)
<1>1. CASE e \in Entry
  <2>1. e.pid \in BOOLEAN
    BY <1>1 DEF Entry
  <2>2. e.status \in Statuses
    BY <1>1 DEF Entry
  <2> QED
    BY <2>1, <2>2
<1>2. CASE e = Gone
  <2>1. e.pid \in BOOLEAN
    BY <1>2 DEF Gone
  <2> QED
    BY <1>2, <2>1
<1> QED
  BY <1>1, <1>2 DEF Records

\* What the writers write are entries.
LEMMA EntryTypes ==
  ASSUME NEW e \in Records, NEW pid \in BOOLEAN
  PROVE  /\ PatchPid(e, pid) \in Entry
         /\ PatchNothing(e) \in Entry
         /\ \A s \in Active \union Terminal : Rec(s, pid) \in Entry
<1>1. \A s \in Statuses, q \in BOOLEAN : Rec(s, q) \in Entry
  BY DEF Rec, Entry
<1>2. e.pid \in BOOLEAN /\ (e # Gone => e.status \in Statuses)
  BY RecordFields
<1>3. "none" \in Statuses /\ Active \union Terminal \subseteq Statuses
  BY DEF Statuses
<1>4. \A q \in BOOLEAN : PatchPid(e, q) \in Entry
  BY <1>1, <1>2, <1>3 DEF PatchPid
<1> QED
  BY <1>1, <1>2, <1>3, <1>4 DEF PatchNothing

\* The file the dispatcher starts from is an entry.
LEMMA StoredType ==
  ASSUME StoreTypeOK, NEW j \in Jobs
  PROVE  StoredOrQueued(j) \in Entry
BY DEF StoreTypeOK, StoredOrQueued, Rec, Records, Entry, Gone, Statuses, Active

----------------------------------------------------------------------------
\* Type correctness.

\* The types of all but the store.
ActorTypeOK ==
  /\ disp \in [Jobs -> DispatchSteps]
  /\ told \in [Jobs -> BOOLEAN]
  /\ worker \in [Jobs -> WorkerSteps]
  /\ outcome \in [Jobs -> {"completed", "failed"}]
  /\ mirror \in SUBSET Jobs
  /\ cancel \in [Jobs -> CancelSteps]
  /\ target \in [Jobs -> BOOLEAN]
  /\ ending \in EndingSteps
  /\ snapshot \in [Jobs -> Records]

\* Every step of the actors keeps their own variables well typed.
LEMMA ActorTypeStep ==
  ASSUME StoreTypeOK, ActorTypeOK, [Next]_vars
  PROVE  ActorTypeOK'
<1> USE DEF ActorTypeOK, DispatchGoto, WorkerGoto
<1>1. ASSUME NEW j \in Jobs,
             RunForeground(j) \/ Enqueue(j) \/ Spawn(j) \/ MarkUnconfirmed(j)
             \/ RecordPid(j) \/ FailDispatch(j) \/ SpawnUnconfirmed(j)
             \/ DispatcherDies(j)
      PROVE  ActorTypeOK'
  BY <1>1
  DEF RunForeground, Enqueue, Spawn, MarkUnconfirmed, RecordPid, FailDispatch,
      SpawnUnconfirmed, DispatcherDies, DispatchSteps, WorkerSteps
<1>2. ASSUME NEW j \in Jobs,
             Work(j) \/ Progress(j) \/ Signalled(j) \/ WorkerDies(j)
      PROVE  ActorTypeOK'
  BY <1>2
  DEF Work, ReadRequest, StartRunning, RunnerEnds, RecordEnd, FailLate,
      MarkTerminated,
      Progress, Signalled, WorkerDies, AfterSignal, WorkerSteps, actorVars
<1>3. ASSUME NEW j \in Jobs, Mirror(j) \/ GraceEnds(j)
      PROVE  ActorTypeOK'
  BY <1>3 DEF Mirror, GraceEnds, actorVars
<1>4. ASSUME NEW j \in Jobs,
             CancelSelect(j) \/ CancelKill(j) \/ CancelRecord(j)
      PROVE  ActorTypeOK'
  <2>1. index[j].pid \in BOOLEAN
    BY RecordFields DEF StoreTypeOK
  <2> QED
    BY <1>4, <2>1
    DEF CancelSelect, CancelKill, CancelRecord, AfterSignal, CancelSteps,
        WorkerSteps
<1>5. CASE Reap \/ ReaperDies
  <2>1. mirror' \in SUBSET Jobs
    BY <1>5 DEF Reap, ReaperDies, Reapable
  <2> QED
    BY <1>5, <2>1 DEF Reap, ReaperDies
<1>6. CASE SessionLoad
  BY <1>6 DEF SessionLoad, EndingSteps, StoreTypeOK
<1>7. CASE SessionKill
  <2>1. \A j \in Jobs : AfterSignal(worker[j]) \in WorkerSteps
    BY DEF AfterSignal, WorkerSteps
  <2> QED
    BY <1>7, <2>1 DEF SessionKill, EndingSteps
<1>8. CASE SessionSave
  BY <1>8 DEF SessionSave, EndingSteps
<1>9. CASE UNCHANGED vars
  BY <1>9 DEF vars, actorVars
<1> QED
  BY <1>1, <1>2, <1>3, <1>4, <1>5, <1>6, <1>7, <1>8, <1>9
  DEF Next, Dispatch

\* A step that writes only a record to a job file, or upserts one, or touches
\* nothing of the store.
WritesEntry(j) ==
  \/ \E e \in Entry : WriteFile(j, e)
  \/ \E e \in Entry : Upsert(j, e)
  \/ UNCHANGED storeVars

\* Such a step keeps the store well typed.
LEMMA WritesEntryType ==
  ASSUME StoreTypeOK, NEW j \in Jobs, WritesEntry(j)
  PROVE  StoreTypeOK'
<1>1. ASSUME NEW e \in Entry, WriteFile(j, e)
      PROVE  StoreTypeOK'
  BY <1>1, WriteFileType
<1>2. ASSUME NEW e \in Entry, Upsert(j, e)
      PROVE  StoreTypeOK'
  BY <1>2, UpsertIndex
<1>3. CASE UNCHANGED storeVars
  BY <1>3 DEF StoreTypeOK, storeVars
<1> QED
  BY <1>1, <1>2, <1>3 DEF WritesEntry

\* The entries each process writes.
LEMMA WrittenEntries ==
  ASSUME StoreTypeOK, ActorTypeOK, NEW j \in Jobs
  PROVE  /\ \A s \in Active \union Terminal, q \in BOOLEAN : Rec(s, q) \in Entry
         /\ PatchNothing(index[j]) \in Entry
         /\ StoredOrQueued(j) \in Entry
         /\ PidPatch(StoredOrQueued(j), told[j]) \in Entry
         /\ PidPatch(index[j], told[j]) \in Entry
         /\ Rec(outcome[j], FALSE) \in Entry
<1>1. index[j] \in Records /\ StoredOrQueued(j) \in Records
  BY StoredType DEF StoreTypeOK, Records
<1>2. told[j] \in BOOLEAN /\ outcome[j] \in Terminal
  BY DEF ActorTypeOK, Terminal
<1>3. \A s \in Active \union Terminal, q \in BOOLEAN : Rec(s, q) \in Entry
  BY <1>1, EntryTypes
<1>4. Rec(outcome[j], FALSE) \in Entry
  BY <1>2, <1>3
<1>5. PatchNothing(index[j]) \in Entry /\ PidPatch(index[j], told[j]) \in Entry
  BY <1>1, <1>2, EntryTypes DEF PidPatch
<1>6. PidPatch(StoredOrQueued(j), told[j]) \in Entry
  BY <1>1, <1>2, EntryTypes DEF PidPatch
<1> QED
  BY <1>3, <1>4, <1>5, <1>6, StoredType

\* What each step of a dispatcher, a worker, a cancel or a mirror does to the
\* store.
LEMMA StepWritesEntry ==
  ASSUME StoreTypeOK, ActorTypeOK, NEW j \in Jobs,
         RunForeground(j) \/ Dispatch(j) \/ SpawnUnconfirmed(j)
         \/ DispatcherDies(j) \/ Work(j) \/ Progress(j) \/ Signalled(j)
         \/ WorkerDies(j) \/ Mirror(j) \/ CancelSelect(j) \/ CancelKill(j)
         \/ CancelRecord(j)
  PROVE  WritesEntry(j)
<1> USE WrittenEntries DEF WritesEntry
<1>1. \A s \in Active \union Terminal, q \in BOOLEAN : Rec(s, q) \in Entry
  OBVIOUS
<1>2. /\ Rec("queued", FALSE) \in Entry /\ Rec("running", TRUE) \in Entry
      /\ Rec("failed", FALSE) \in Entry /\ Rec("cancelled", FALSE) \in Entry
  BY <1>1 DEF Active, Terminal
<1>3. CASE RunForeground(j) \/ Spawn(j) \/ SpawnUnconfirmed(j)
           \/ DispatcherDies(j)
  BY <1>3 DEF RunForeground, Spawn, SpawnUnconfirmed, DispatcherDies
<1>4. CASE Enqueue(j) \/ MarkUnconfirmed(j)
  BY <1>2, <1>4 DEF Enqueue, MarkUnconfirmed
<1>5. CASE RecordPid(j) \/ FailDispatch(j)
  BY <1>2, <1>5 DEF RecordPid, FailDispatch
<1>6. CASE ReadRequest(j) \/ RunnerEnds(j) \/ Signalled(j) \/ WorkerDies(j)
  BY <1>6 DEF ReadRequest, RunnerEnds, Signalled, WorkerDies
<1>7. CASE StartRunning(j) \/ RecordEnd(j)
  BY <1>2, <1>7 DEF StartRunning, RecordEnd
<1>8. CASE MarkTerminated(j) \/ Progress(j) \/ FailLate(j)
  BY <1>2, <1>8 DEF MarkTerminated, Progress, FailLate
<1>9. CASE Mirror(j) \/ CancelRecord(j)
  BY <1>2, <1>9 DEF Mirror, CancelRecord
<1>10. CASE CancelSelect(j) \/ CancelKill(j)
  BY <1>10 DEF CancelSelect, CancelKill
<1> QED
  BY <1>3, <1>4, <1>5, <1>6, <1>7, <1>8, <1>9, <1>10 DEF Dispatch, Work

\* The index the reaper saves.
ReapedIndex == [j \in Jobs |-> IF j \in Reapable THEN Rec("failed", FALSE)
                                                 ELSE index[j]]

\* What the reaper saves is an index.
LEMMA ReapedIndexType ==
  ASSUME StoreTypeOK
  PROVE  ReapedIndex \in [Jobs -> Records]
<1>1. Rec("failed", FALSE) \in Records
  BY DEF Rec, Records, Entry, Statuses, Terminal
<1> QED
  BY <1>1 DEF ReapedIndex, StoreTypeOK

\* Every step keeps the store well typed.
LEMMA StoreTypeStep ==
  ASSUME StoreTypeOK, ActorTypeOK, [Next]_vars
  PROVE  StoreTypeOK'
<1>1. ASSUME NEW j \in Jobs, WritesEntry(j)
      PROVE  StoreTypeOK'
  BY <1>1, WritesEntryType
<1>2. ASSUME NEW j \in Jobs, GraceEnds(j)
      PROVE  StoreTypeOK'
  BY <1>2 DEF GraceEnds, StoreTypeOK
<1>3. CASE Reap
  <2>1. Save(ReapedIndex) /\ fresh' = fresh
    BY <1>3 DEF Reap, ReapedIndex
  <2>2. index' \in [Jobs -> Records]
    BY <2>1, ReapedIndexType, SaveIndex
  <2>3. file' \in [Jobs -> Records]
    BY <2>1, SaveFile DEF StoreTypeOK
  <2> QED
    BY <2>1, <2>2, <2>3 DEF StoreTypeOK
<1>4. CASE SessionSave
  <2> DEFINE new == [j \in Jobs |-> IF j \in Session THEN Gone ELSE snapshot[j]]
  <2>1. Save(new) /\ fresh' = fresh
    BY <1>4 DEF SessionSave
  <2>2. new \in [Jobs -> Records]
    BY DEF ActorTypeOK, Records
  <2>3. index' \in [Jobs -> Records]
    BY <2>1, <2>2, SaveIndex
  <2>4. file' \in [Jobs -> Records]
    BY <2>1, SaveFile DEF StoreTypeOK
  <2> QED
    BY <2>1, <2>3, <2>4 DEF StoreTypeOK
<1>5. CASE ReaperDies \/ SessionLoad \/ SessionKill \/ UNCHANGED vars
  BY <1>5
  DEF ReaperDies, SessionLoad, SessionKill, vars, storeVars, StoreTypeOK
<1> QED
  BY <1>1, <1>2, <1>3, <1>4, <1>5, StepWritesEntry DEF Next

\* The store and the processes stay well typed.
THEOREM TypeInvariant == Spec => []TypeOK
<1>1. Init => StoreTypeOK /\ ActorTypeOK
  BY DEF Init, StoreInit, StoreTypeOK, ActorTypeOK, Records, DispatchSteps,
         WorkerSteps, CancelSteps, EndingSteps
<1>2. StoreTypeOK /\ ActorTypeOK /\ [Next]_vars => StoreTypeOK' /\ ActorTypeOK'
  BY StoreTypeStep, ActorTypeStep
<1>3. TypeOK <=> StoreTypeOK /\ ActorTypeOK
  BY DEF TypeOK, ActorTypeOK
<1> QED
  BY <1>1, <1>2, <1>3, PTL DEF Spec

----------------------------------------------------------------------------
\* The reaper takes no job from a live worker.

Starting == {"spawned", "start_file", "start_index"}

\* No interference but dead processes and cancels.
Calm == Freedoms \intersect {"ambiguous", "slow", "session_end"} = {}

\* A worker exists only once the dispatcher has spawned it, and the dispatcher
\* that gets as far as the pid knows it.
DispatchInv(j) ==
  /\ disp[j] \notin {"mark_file", "mark_index"}
  /\ disp[j] \in {"file", "index", "spawn", "fail_file", "fail_index"}
       => worker[j] = "none"
  /\ disp[j] \in {"pid_file", "pid_index"} => told[j] \/ worker[j] = "none"

\* What the index says of a job against what its worker does.
EntryInv(j) ==
  /\ disp[j] \in {"file", "index"} => index[j].status \notin Active
  /\ index[j].status = "running"
       => index[j].pid /\ worker[j] \notin Starting \union {"none"}
  /\ index[j].status = "queued"
       => worker[j] \in Starting \union {"none", "dead"}
  /\ index[j].status = "queued" /\ ~index[j].pid
     /\ (disp[j] # "done" \/ worker[j] \in Starting)
       => j \in fresh

ReapInv ==
  /\ \A j \in Jobs : DispatchInv(j)
  /\ \A j \in Jobs : EntryInv(j)
  /\ ending = "none"

\* The dispatcher and its worker stay in step.
LEMMA DispatchStep ==
  ASSUME Calm, ActorTypeOK, \A k \in Jobs : DispatchInv(k), [Next]_vars
  PROVE  \A k \in Jobs : DispatchInv(k)'
<1> SUFFICES ASSUME NEW k \in Jobs PROVE DispatchInv(k)'
  OBVIOUS
<1> USE DEF ActorTypeOK, DispatchInv, DispatchGoto, WorkerGoto
<1>1. ASSUME NEW j \in Jobs, RunForeground(j) \/ Dispatch(j) \/ DispatcherDies(j)
      PROVE  DispatchInv(k)'
  BY <1>1
  DEF RunForeground, Dispatch, Enqueue, Spawn, MarkUnconfirmed, RecordPid,
      FailDispatch, DispatcherDies
<1>2. ASSUME NEW j \in Jobs, Work(j) \/ Progress(j) \/ Signalled(j) \/ WorkerDies(j)
      PROVE  DispatchInv(k)'
  BY <1>2
  DEF Work, ReadRequest, StartRunning, RunnerEnds, RecordEnd, FailLate,
      MarkTerminated,
      Progress, Signalled, WorkerDies, AfterSignal, Alive, actorVars
<1>3. ASSUME NEW j \in Jobs,
             Mirror(j) \/ GraceEnds(j) \/ CancelSelect(j) \/ CancelKill(j)
             \/ CancelRecord(j)
      PROVE  DispatchInv(k)'
  BY <1>3
  DEF Mirror, GraceEnds, CancelSelect, CancelKill, CancelRecord, AfterSignal,
      actorVars
<1>4. CASE Reap \/ ReaperDies \/ UNCHANGED vars
  BY <1>4 DEF Reap, ReaperDies, vars, actorVars
<1>5. CASE SessionKill \/ SessionSave
  <2>1. \A j \in Jobs : AfterSignal(worker[j]) = "none" <=> worker[j] = "none"
    BY DEF AfterSignal
  <2> QED
    BY <1>5, <2>1 DEF SessionKill, SessionSave
<1>6. ~SessionLoad /\ \A j \in Jobs : ~SpawnUnconfirmed(j)
  BY DEF Calm, SessionLoad, SpawnUnconfirmed
<1> QED
  BY <1>1, <1>2, <1>3, <1>4, <1>5, <1>6 DEF Next

\* The fields of what is written.
LEMMA WrittenFields ==
  /\ \A status, pid : Rec(status, pid).status = status /\ Rec(status, pid).pid = pid
  /\ \A e, pid : /\ PatchPid(e, pid).pid = pid
                 /\ PatchPid(e, pid).status \in {e.status, "none"}
  /\ Gone.status = "gone"
BY DEF Rec, PatchPid, Gone

\* A job whose entry is kept or dropped, and whose processes do not move,
\* or move on to what the entry allows, stays as it was.
LEMMA EntryKept ==
  ASSUME NEW k \in Jobs, EntryInv(k), index'[k] \in {index[k], Gone},
         k \in fresh => k \in fresh',
         disp'[k] = disp[k] \/ (disp[k] \notin {"file", "index"} /\ disp'[k] = "done"),
         worker'[k] = worker[k] \/ (worker[k] # "none" /\ worker'[k] = "dead")
  PROVE  EntryInv(k)'
<1>1. Gone.status = "gone"
  BY DEF Gone
<1>2. CASE index'[k] = Gone
  BY <1>1, <1>2 DEF EntryInv, Active
<1>3. CASE index'[k] = index[k]
  BY <1>3 DEF EntryInv, Starting
<1> QED
  BY <1>2, <1>3

\* An entry that has come to its end asks nothing of the processes.
LEMMA EntryEnded ==
  ASSUME NEW k, NEW s \in Terminal, index'[k] \in {Rec(s, FALSE), Gone}
  PROVE  EntryInv(k)'
<1>1. Rec(s, FALSE).status = s /\ Gone.status = "gone"
  BY WrittenFields
<1>2. index'[k].status = s \/ index'[k].status = "gone"
  BY <1>1
<1>3. index'[k].status \notin Active
  BY <1>2 DEF Terminal, Active
<1> QED
  BY <1>3 DEF EntryInv, Active

\* The jobs a step is not about.
LEMMA Bystanders ==
  ASSUME StoreTypeOK, ActorTypeOK, NEW j \in Jobs, NEW k \in Jobs \ {j},
         EntryInv(k), WritesEntry(j),
         disp'[k] = disp[k], worker'[k] = worker[k]
  PROVE  EntryInv(k)'
<1>1. ASSUME NEW e \in Entry, WriteFile(j, e)
      PROVE  index' = index /\ fresh' = fresh
  BY <1>1, WriteFileType
<1>2. ASSUME NEW e \in Entry, Upsert(j, e)
      PROVE  index'[k] \in {index[k], Gone} /\ fresh \subseteq fresh'
  BY <1>2, UpsertIndex
<1>3. index'[k] \in {index[k], Gone} /\ fresh \subseteq fresh'
  BY <1>1, <1>2 DEF WritesEntry, storeVars
<1> QED
  BY <1>3, EntryKept

\* The dispatcher keeps the entry of its job.
LEMMA DispatcherKeepsEntry ==
  ASSUME StoreTypeOK, ActorTypeOK, NEW j \in Jobs, DispatchInv(j), EntryInv(j),
         RunForeground(j) \/ Dispatch(j) \/ DispatcherDies(j)
  PROVE  EntryInv(j)'
<1> USE DEF ActorTypeOK, DispatchGoto, WorkerGoto
<1>1. CASE RunForeground(j) \/ Spawn(j) \/ DispatcherDies(j)
  BY <1>1
  DEF RunForeground, Spawn, DispatcherDies, storeVars, EntryInv, Starting, Active
<1>2. CASE Enqueue(j) /\ disp[j] = "file"
  BY <1>2 DEF Enqueue, WriteFile, EntryInv
<1>3. CASE Enqueue(j) /\ disp[j] = "index"
  <2>1. Rec("queued", FALSE) \in Entry
    BY DEF Rec, Entry, Statuses, Active
  <2>2. index'[j] \in {Rec("queued", FALSE), Gone} /\ j \in fresh'
    BY <1>3, <2>1, UpsertIndex DEF Enqueue
  <2>3. worker'[j] = "none" /\ disp'[j] = "spawn"
    BY <1>3 DEF Enqueue, DispatchInv
  <2> QED
    BY <2>2, <2>3, WrittenFields DEF EntryInv, Active
<1>4. ~MarkUnconfirmed(j)
  BY DEF MarkUnconfirmed, DispatchInv
<1>5. CASE RecordPid(j) /\ disp[j] = "pid_file"
  BY <1>5 DEF RecordPid, WriteFile, EntryInv
<1>6. CASE RecordPid(j) /\ disp[j] = "pid_index"
  <2>1. PidPatch(index[j], told[j]) \in Entry
    BY WrittenEntries
  <2>2. index'[j] \in {PidPatch(index[j], told[j]), Gone} /\ j \in fresh'
    BY <1>6, <2>1, UpsertIndex DEF RecordPid
  <2>3. worker'[j] = worker[j] /\ disp'[j] = "done"
    BY <1>6 DEF RecordPid
  <2>4. told[j] \/ worker[j] = "none"
    BY <1>6 DEF DispatchInv
  <2> QED
    BY <2>2, <2>3, <2>4, WrittenFields DEF EntryInv, PidPatch, Active
<1>7. CASE FailDispatch(j) /\ disp[j] = "fail_file"
  BY <1>7 DEF FailDispatch, WriteFile, EntryInv
<1>8. CASE FailDispatch(j) /\ disp[j] = "fail_index"
  <2>1. Rec("failed", FALSE) \in Entry
    BY DEF Rec, Entry, Statuses, Terminal
  <2>2. index'[j] \in {Rec("failed", FALSE), Gone}
    BY <1>8, <2>1, UpsertIndex DEF FailDispatch
  <2>3. "failed" \in Terminal
    BY DEF Terminal
  <2> QED
    BY <2>2, <2>3, EntryEnded
<1> QED
  BY <1>1, <1>2, <1>3, <1>4, <1>5, <1>6, <1>7, <1>8
  DEF Dispatch, Enqueue, RecordPid, FailDispatch

\* The worker keeps the entry of its job.
LEMMA WorkerKeepsEntry ==
  ASSUME StoreTypeOK, ActorTypeOK, NEW j \in Jobs, DispatchInv(j), EntryInv(j),
         Work(j) \/ Progress(j) \/ Signalled(j) \/ WorkerDies(j)
  PROVE  EntryInv(j)'
<1> USE DEF ActorTypeOK, DispatchGoto, WorkerGoto
<1>1. CASE ReadRequest(j) \/ RunnerEnds(j) \/ Signalled(j) \/ WorkerDies(j)
  BY <1>1
  DEF ReadRequest, RunnerEnds, Signalled, WorkerDies, storeVars, EntryInv,
      Starting, AfterSignal, Alive
<1>2. CASE (StartRunning(j) /\ worker[j] = "start_file")
           \/ (RecordEnd(j) /\ worker[j] = "end_file")
           \/ (MarkTerminated(j) /\ worker[j] = "term_file")
  <2>1. /\ index' = index /\ fresh' = fresh /\ disp' = disp
        /\ \/ /\ worker[j] = "start_file"
              /\ worker'[j] = "start_index"
           \/ /\ worker[j] \in {"end_file", "term_file"}
              /\ worker'[j] \in {"end_index", "term_index"}
    <3>1. CASE StartRunning(j) /\ worker[j] = "start_file"
      <4>1. /\ index' = index /\ fresh' = fresh /\ disp' = disp
            /\ worker' = [worker EXCEPT ![j] = "start_index"]
        BY <3>1, Zenon DEF StartRunning, WriteFile
      <4> QED
        BY <3>1, <4>1
    <3>2. CASE RecordEnd(j) /\ worker[j] = "end_file"
      BY <3>2 DEF RecordEnd, WriteFile
    <3>3. CASE MarkTerminated(j) /\ worker[j] = "term_file"
      BY <3>3 DEF MarkTerminated, WriteFile
    <3> QED
      BY <1>2, <3>1, <3>2, <3>3
  <2> QED
    BY <2>1 DEF EntryInv, Starting
<1>3. CASE StartRunning(j) /\ worker[j] = "start_index"
  <2>1. Rec("running", TRUE) \in Entry
    BY DEF Rec, Entry, Statuses, Active
  <2>2. index'[j] \in {Rec("running", TRUE), Gone}
    BY <1>3, <2>1, UpsertIndex DEF StartRunning
  <2>3. worker'[j] = "running" /\ disp'[j] = disp[j]
    BY <1>3 DEF StartRunning
  <2>4. disp[j] \notin {"file", "index"}
    BY <1>3 DEF DispatchInv
  <2>5. index'[j] = Gone \/ (index'[j].status = "running" /\ index'[j].pid)
    BY <2>2 DEF Rec
  <2> QED
    BY <2>3, <2>4, <2>5, WrittenFields DEF EntryInv, Starting, Active
<1>4. CASE (RecordEnd(j) /\ worker[j] = "end_index") \/ FailLate(j)
  <2>1. Rec(outcome[j], FALSE) \in Entry
    BY WrittenEntries
  <2>2. index'[j] \in {Rec(outcome[j], FALSE), Gone}
    BY <1>4, <2>1, UpsertIndex DEF RecordEnd, FailLate
  <2>3. outcome[j] \in Terminal
    BY DEF Terminal
  <2> QED
    BY <2>2, <2>3, EntryEnded
<1>5. CASE MarkTerminated(j) /\ worker[j] = "term_index"
  <2>1. Rec("failed", FALSE) \in Entry
    BY DEF Rec, Entry, Statuses, Terminal
  <2>2. index'[j] \in {Rec("failed", FALSE), Gone}
    BY <1>5, <2>1, UpsertIndex DEF MarkTerminated
  <2>3. "failed" \in Terminal
    BY DEF Terminal
  <2> QED
    BY <2>2, <2>3, EntryEnded
<1>6. CASE Progress(j)
  <2>1. PatchNothing(index[j]) \in Entry
    BY WrittenEntries
  <2>2. index'[j] \in {PatchNothing(index[j]), Gone}
    BY <1>6, <2>1, UpsertIndex DEF Progress
  <2>3. worker'[j] = "running" /\ disp'[j] = disp[j] /\ worker[j] = "running"
    BY <1>6 DEF Progress, actorVars
  <2> QED
    BY <2>2, <2>3, WrittenFields DEF EntryInv, Starting, Active, PatchNothing
<1> QED
  BY <1>1, <1>2, <1>3, <1>4, <1>5, <1>6
  DEF Work, StartRunning, RecordEnd, MarkTerminated

\* So do cancels and the mirror, which write cancelled and failed only.
LEMMA CancelKeepsEntry ==
  ASSUME StoreTypeOK, ActorTypeOK, NEW j \in Jobs, EntryInv(j),
         Mirror(j) \/ CancelSelect(j) \/ CancelKill(j) \/ CancelRecord(j)
  PROVE  EntryInv(j)'
<1>1. CASE Mirror(j) \/ CancelSelect(j)
  BY <1>1
  DEF Mirror, CancelSelect, WriteFile, storeVars, EntryInv
<1>2. CASE CancelKill(j)
  BY <1>2
  DEF CancelKill, AfterSignal, WorkerGoto, ActorTypeOK, storeVars, EntryInv,
      Starting
<1>3. CASE CancelRecord(j) /\ cancel[j] = "file"
  BY <1>3 DEF CancelRecord, WriteFile, EntryInv
<1>4. CASE CancelRecord(j) /\ cancel[j] = "index"
  <2>1. Rec("cancelled", FALSE) \in Entry
    BY DEF Rec, Entry, Statuses, Terminal
  <2>2. index'[j] \in {Rec("cancelled", FALSE), Gone}
    BY <1>4, <2>1, UpsertIndex DEF CancelRecord
  <2>3. "cancelled" \in Terminal
    BY DEF Terminal
  <2> QED
    BY <2>2, <2>3, EntryEnded
<1> QED
  BY <1>1, <1>2, <1>3, <1>4 DEF CancelRecord

\* Every step keeps what the reaper relies on.
LEMMA ReapStep ==
  ASSUME Calm, StoreTypeOK, ActorTypeOK, ReapInv, [Next]_vars
  PROVE  ReapInv'
<1>1. \A k \in Jobs : DispatchInv(k)'
  BY DispatchStep DEF ReapInv
<1>2. ending' = "none"
  <2>1. ending = "none" /\ ~SessionLoad /\ ~SessionKill /\ ~SessionSave
    BY DEF ReapInv, Calm, SessionLoad, SessionKill, SessionSave
  <2>2. CASE Reap \/ ReaperDies \/ UNCHANGED vars
    BY <2>1, <2>2 DEF Reap, ReaperDies, vars, actorVars
  <2>3. ASSUME NEW j \in Jobs,
               RunForeground(j) \/ Dispatch(j) \/ SpawnUnconfirmed(j)
               \/ DispatcherDies(j)
        PROVE  ending' = ending
    BY <2>3
    DEF RunForeground, Dispatch, Enqueue, Spawn, MarkUnconfirmed, RecordPid,
        FailDispatch, SpawnUnconfirmed, DispatcherDies
  <2>4. ASSUME NEW j \in Jobs,
               Work(j) \/ Progress(j) \/ Signalled(j) \/ WorkerDies(j)
        PROVE  ending' = ending
    BY <2>4
    DEF Work, ReadRequest, StartRunning, RunnerEnds, RecordEnd, FailLate,
      MarkTerminated,
        Progress, Signalled, WorkerDies, actorVars
  <2>5. ASSUME NEW j \in Jobs,
               Mirror(j) \/ GraceEnds(j) \/ CancelSelect(j) \/ CancelKill(j)
               \/ CancelRecord(j)
        PROVE  ending' = ending
    BY <2>5
    DEF Mirror, GraceEnds, CancelSelect, CancelKill, CancelRecord, actorVars
  <2> QED
    BY <2>1, <2>2, <2>3, <2>4, <2>5 DEF Next
<1>3. ASSUME NEW k \in Jobs
      PROVE  EntryInv(k)'
  <2> USE <1>3
  <2>1. EntryInv(k) /\ DispatchInv(k)
    BY DEF ReapInv
  <2>2. ASSUME NEW j \in Jobs,
               RunForeground(j) \/ Dispatch(j) \/ DispatcherDies(j)
        PROVE  EntryInv(k)'
    <3>1. j # k => disp'[k] = disp[k] /\ worker'[k] = worker[k]
      BY <2>2
      DEF RunForeground, Dispatch, Enqueue, Spawn, MarkUnconfirmed, RecordPid,
          FailDispatch, DispatcherDies, DispatchGoto, WorkerGoto, ActorTypeOK
    <3>2. WritesEntry(j)
      BY <2>2, StepWritesEntry
    <3> QED
      BY <2>1, <2>2, <3>1, <3>2, DispatcherKeepsEntry, Bystanders
  <2>3. ASSUME NEW j \in Jobs,
               Work(j) \/ Progress(j) \/ Signalled(j) \/ WorkerDies(j)
        PROVE  EntryInv(k)'
    <3>1. j # k => disp'[k] = disp[k] /\ worker'[k] = worker[k]
      BY <2>3
      DEF Work, ReadRequest, StartRunning, RunnerEnds, RecordEnd,
          FailLate, MarkTerminated, Progress, Signalled, WorkerDies, WorkerGoto, actorVars,
          ActorTypeOK
    <3>2. WritesEntry(j)
      BY <2>3, StepWritesEntry
    <3> QED
      BY <2>1, <2>3, <3>1, <3>2, WorkerKeepsEntry, Bystanders
  <2>4. ASSUME NEW j \in Jobs,
               Mirror(j) \/ CancelSelect(j) \/ CancelKill(j) \/ CancelRecord(j)
        PROVE  EntryInv(k)'
    <3>1. j # k => disp'[k] = disp[k] /\ worker'[k] = worker[k]
      BY <2>4
      DEF Mirror, CancelSelect, CancelKill, CancelRecord, WorkerGoto, ActorTypeOK
    <3>2. WritesEntry(j)
      BY <2>4, StepWritesEntry
    <3> QED
      BY <2>1, <2>4, <3>1, <3>2, CancelKeepsEntry, Bystanders
  <2>5. ASSUME NEW j \in Jobs, GraceEnds(j)
        PROVE  EntryInv(k)'
    <3>1. disp[j] = "done" /\ worker[j] \notin Starting
      BY <2>5 DEF GraceEnds, Calm, Starting
    <3> QED
      BY <2>1, <2>5, <3>1 DEF GraceEnds, EntryInv, actorVars
  <2>6. CASE Reap
    <3>1. index'[k] \in {ReapedIndex[k], Gone}
      <4>1. Save(ReapedIndex)
        BY <2>6 DEF Reap, ReapedIndex
      <4> QED
        BY <4>1, ReapedIndexType, SaveIndex
    <3>2. CASE k \in Reapable
      <4>1. index'[k] \in {Rec("failed", FALSE), Gone}
        BY <3>1, <3>2 DEF ReapedIndex
      <4>2. "failed" \in Terminal
        BY DEF Terminal
      <4> QED
        BY <4>1, <4>2, EntryEnded
    <3>3. CASE k \notin Reapable
      <4>1. index'[k] \in {index[k], Gone}
        BY <3>1, <3>3 DEF ReapedIndex
      <4>2. fresh' = fresh /\ disp' = disp /\ worker' = worker
        BY <2>6 DEF Reap
      <4> QED
        BY <2>1, <4>1, <4>2, EntryKept
    <3> QED
      BY <3>2, <3>3
  <2>7. CASE ReaperDies \/ UNCHANGED vars
    BY <2>1, <2>7 DEF ReaperDies, vars, storeVars, actorVars, EntryInv
  <2>8. /\ ~SessionLoad /\ ~SessionKill /\ ~SessionSave
        /\ \A j \in Jobs : ~SpawnUnconfirmed(j)
    BY DEF ReapInv, Calm, SessionLoad, SessionKill, SessionSave, SpawnUnconfirmed
  <2> QED
    BY <2>2, <2>3, <2>4, <2>5, <2>6, <2>7, <2>8 DEF Next
<1> QED
  BY <1>1, <1>2, <1>3 DEF ReapInv

\* What the reaper would take has no live worker.
LEMMA ReapableAreDead ==
  ASSUME StoreTypeOK, ActorTypeOK, ReapInv, NEW j \in Reapable
  PROVE  ~Alive(j)
<1>1. EntryInv(j) /\ ShouldReap(j)
  BY DEF ReapInv, Reapable
<1>2. CASE index[j].status = "running"
  BY <1>1, <1>2 DEF EntryInv, ShouldReap, EntryAlive
<1>3. CASE index[j].status = "queued"
  <2>1. worker[j] \in Starting \union {"none", "dead"}
    BY <1>1, <1>3 DEF EntryInv
  <2>2. CASE worker[j] \in Starting
    <3>1. ~index[j].pid => j \in fresh
      BY <1>1, <1>3, <2>2 DEF EntryInv
    <3> QED
      BY <1>1, <1>3, <3>1 DEF ShouldReap, EntryAlive
  <2> QED
    BY <2>1, <2>2 DEF Alive
<1> QED
  BY <1>1, <1>2, <1>3 DEF ShouldReap, Active

\* The reaper takes no job from a live worker, whatever dies and whatever is
\* cancelled, as long as the broker answers, a dispatch is over within its
\* grace period and no SessionEnd hook interferes.
THEOREM ReaperSpares == Calm /\ Spec => ReapsOnlyDead
<1>1. Init => StoreTypeOK /\ ActorTypeOK /\ ReapInv
  <2>1. Init => StoreTypeOK /\ ActorTypeOK
    BY DEF Init, StoreInit, StoreTypeOK, ActorTypeOK, Records, DispatchSteps,
           WorkerSteps, CancelSteps, EndingSteps
  <2>2. Init => \A j \in Jobs : index[j].status = "gone"
    BY DEF Init, StoreInit, Gone
  <2> QED
    BY <2>1, <2>2 DEF Init, ReapInv, DispatchInv, EntryInv, Active
<1>2. Calm /\ StoreTypeOK /\ ActorTypeOK /\ ReapInv /\ [Next]_vars
        => StoreTypeOK' /\ ActorTypeOK' /\ ReapInv'
  BY StoreTypeStep, ActorTypeStep, ReapStep
<1>3. StoreTypeOK /\ ActorTypeOK /\ ReapInv
        => [Reap => \A j \in Reapable : ~Alive(j)]_vars
  BY ReapableAreDead
<1>4. Calm => []Calm
  OBVIOUS
<1> QED
  BY <1>1, <1>2, <1>3, <1>4, PTL DEF Spec, ReapsOnlyDead

----------------------------------------------------------------------------
\* What a step does to one job, while nothing but deaths disturbs it.

\* Processes may die, nothing else interferes.
Deaths == Freedoms \subseteq {"crash", "worker_crash", "killed"}

\* An entry that a write is not about: an active one is kept, any other may
\* be pruned.
Kept(k) == \/ index'[k] = index[k]
           \/ index'[k] = Gone /\ index[k].status \notin Active

\* An entry the write puts in: an active one is kept, any other may be pruned
\* by the very write.
PutIn(k, e) == \/ index'[k] = e
               \/ index'[k] = Gone /\ e.status \notin Active

Untouched(k) == Kept(k) /\ disp'[k] = disp[k] /\ worker'[k] = worker[k]

DispatcherStep(k) ==
  \/ /\ disp[k] = "file" /\ disp'[k] = "done"
     /\ worker'[k] = "start_file" /\ index'[k] = index[k]
  \/ /\ disp[k] = "file" /\ disp'[k] = "index"
     /\ worker'[k] = worker[k] /\ index'[k] = index[k]
  \/ /\ disp[k] = "index" /\ disp'[k] = "spawn"
     /\ worker'[k] = worker[k] /\ index'[k] = Rec("queued", FALSE)
  \/ /\ disp[k] = "spawn" /\ worker[k] = "none"
     /\ \/ disp'[k] = "pid_file" /\ worker'[k] \in {"none", "spawned"}
        \/ disp'[k] = "fail_file" /\ worker'[k] = "none"
     /\ index'[k] = index[k]
  \/ /\ \/ disp[k] = "pid_file" /\ disp'[k] = "pid_index"
        \/ disp[k] = "fail_file" /\ disp'[k] = "fail_index"
        \/ disp'[k] = "done"
     /\ worker'[k] = worker[k] /\ index'[k] = index[k]
  \/ /\ disp[k] = "pid_index" /\ disp'[k] = "done"
     /\ worker'[k] = worker[k] /\ PutIn(k, PatchPid(index[k], told[k]))
  \/ /\ disp[k] = "fail_index" /\ disp'[k] = "done"
     /\ worker'[k] = worker[k] /\ PutIn(k, Rec("failed", FALSE))

WorkerStep(k) ==
  /\ disp'[k] = disp[k]
  /\ \/ /\ \/ worker[k] = "spawned" /\ worker'[k] = "start_file"
           \/ worker[k] = "start_file" /\ worker'[k] = "start_index"
           \/ worker[k] = "running" /\ worker'[k] \in {"end_file", "term_file"}
           \/ worker[k] = "end_file" /\ worker'[k] = "end_index"
           \/ worker[k] = "term_file" /\ worker'[k] = "term_index"
           \/ worker[k] # "none" /\ worker'[k] = "dead"
        /\ index'[k] = index[k]
     \/ /\ worker[k] = "start_index" /\ worker'[k] = "running"
        /\ index'[k] = Rec("running", TRUE)
     \/ /\ worker[k] = "running" /\ worker'[k] = "running"
        /\ PutIn(k, PatchNothing(index[k]))
     \/ /\ worker[k] \in {"end_index", "term_index"} /\ worker'[k] = "dead"
        /\ \E s \in {"completed", "failed"} : PutIn(k, Rec(s, FALSE))

ReaperStep(k) ==
  /\ disp'[k] = disp[k] /\ worker'[k] = worker[k]
  /\ ShouldReap(k) /\ ~Alive(k)
  /\ PutIn(k, Rec("failed", FALSE))

JobStep(k) ==
  Untouched(k) \/ DispatcherStep(k) \/ WorkerStep(k) \/ ReaperStep(k)

\* A save drops nothing active that it is given.
LEMMA SaveKeeps ==
  ASSUME NEW new \in [Jobs -> Records], Save(new)
  PROVE  \A k \in Jobs : \/ index'[k] = new[k]
                         \/ index'[k] = Gone /\ new[k].status \notin Active
<1>1. PICK kept \in SUBSET Jobs :
        /\ ActiveOf(new) \subseteq kept
        /\ index' = [k \in Jobs |-> IF k \in kept THEN new[k] ELSE Gone]
  BY DEF Save, Pruned
<1>2. ASSUME NEW k \in Jobs, k \notin kept
      PROVE  new[k].status \notin Active
  BY <1>1, <1>2 DEF ActiveOf
<1> QED
  BY <1>1, <1>2

LEMMA UpsertKeeps ==
  ASSUME StoreTypeOK, NEW j \in Jobs, NEW e \in Entry, Upsert(j, e)
  PROVE  PutIn(j, e) /\ \A k \in Jobs \ {j} : Kept(k)
<1> DEFINE new == [index EXCEPT ![j] = e]
<1>1. new \in [Jobs -> Records] /\ Save(new)
  BY DEF StoreTypeOK, Records, Upsert
<1>2. new[j] = e /\ \A k \in Jobs \ {j} : new[k] = index[k]
  BY DEF StoreTypeOK
<1> HIDE DEF new
<1>3. \A k \in Jobs : \/ index'[k] = new[k]
                      \/ index'[k] = Gone /\ new[k].status \notin Active
  BY <1>1, SaveKeeps
<1> QED
  BY <1>2, <1>3 DEF PutIn, Kept

\* The jobs a step of j is not about.
LEMMA OthersUntouched ==
  ASSUME StoreTypeOK, ActorTypeOK, NEW j \in Jobs, NEW k \in Jobs \ {j},
         WritesEntry(j), disp'[k] = disp[k], worker'[k] = worker[k]
  PROVE  JobStep(k)
<1>1. ASSUME NEW e \in Entry, WriteFile(j, e)
      PROVE  Kept(k)
  BY <1>1 DEF WriteFile, Kept
<1>2. ASSUME NEW e \in Entry, Upsert(j, e)
      PROVE  Kept(k)
  BY <1>2, UpsertKeeps
<1>3. ASSUME UNCHANGED storeVars
      PROVE  Kept(k)
  BY <1>3 DEF storeVars, Kept
<1> QED
  BY <1>1, <1>2, <1>3 DEF WritesEntry, JobStep, Untouched

LEMMA DispatcherSteps ==
  ASSUME StoreTypeOK, ActorTypeOK, NEW j \in Jobs, DispatchInv(j),
         RunForeground(j) \/ Dispatch(j) \/ DispatcherDies(j)
  PROVE  DispatcherStep(j)
<1> USE DEF ActorTypeOK, DispatchGoto, WorkerGoto
<1>1. CASE RunForeground(j) \/ Spawn(j) \/ DispatcherDies(j)
  BY <1>1 DEF RunForeground, Spawn, DispatcherDies, storeVars, DispatcherStep
<1>2. CASE Enqueue(j) /\ disp[j] = "file"
  BY <1>2 DEF Enqueue, WriteFile, DispatcherStep
<1>3. CASE Enqueue(j) /\ disp[j] = "index"
  <2>1. Rec("queued", FALSE) \in Entry
    BY DEF Rec, Entry, Statuses, Active
  <2>2. PutIn(j, Rec("queued", FALSE))
    BY <1>3, <2>1, UpsertKeeps DEF Enqueue
  <2>3. index'[j] = Rec("queued", FALSE)
    BY <2>2, WrittenFields DEF PutIn, Active
  <2>4. worker'[j] = worker[j] /\ disp'[j] = "spawn"
    BY <1>3 DEF Enqueue
  <2> QED
    BY <1>3, <2>3, <2>4 DEF DispatcherStep
<1>4. ~MarkUnconfirmed(j)
  BY DEF MarkUnconfirmed, DispatchInv
<1>5. CASE RecordPid(j) /\ disp[j] = "pid_file"
  BY <1>5 DEF RecordPid, WriteFile, DispatcherStep
<1>6. CASE RecordPid(j) /\ disp[j] = "pid_index"
  <2>1. PidPatch(index[j], told[j]) \in Entry
    BY WrittenEntries
  <2>2. PutIn(j, PatchPid(index[j], told[j]))
    BY <1>6, <2>1, UpsertKeeps DEF RecordPid, PidPatch
  <2>3. worker'[j] = worker[j] /\ disp'[j] = "done"
    BY <1>6 DEF RecordPid
  <2> QED
    BY <1>6, <2>2, <2>3 DEF DispatcherStep
<1>7. CASE FailDispatch(j) /\ disp[j] = "fail_file"
  BY <1>7 DEF FailDispatch, WriteFile, DispatcherStep
<1>8. CASE FailDispatch(j) /\ disp[j] = "fail_index"
  <2>1. Rec("failed", FALSE) \in Entry
    BY DEF Rec, Entry, Statuses, Terminal
  <2>2. PutIn(j, Rec("failed", FALSE))
    BY <1>8, <2>1, UpsertKeeps DEF FailDispatch
  <2>3. worker'[j] = worker[j] /\ disp'[j] = "done"
    BY <1>8 DEF FailDispatch
  <2> QED
    BY <1>8, <2>2, <2>3 DEF DispatcherStep
<1> QED
  BY <1>1, <1>2, <1>3, <1>4, <1>5, <1>6, <1>7, <1>8
  DEF Dispatch, Enqueue, RecordPid, FailDispatch

LEMMA WorkersSteps ==
  ASSUME Deaths, StoreTypeOK, ActorTypeOK, NEW j \in Jobs,
         Work(j) \/ Progress(j) \/ Signalled(j) \/ WorkerDies(j)
  PROVE  WorkerStep(j)
<1> USE DEF ActorTypeOK, WorkerGoto
<1>1. CASE ReadRequest(j) \/ RunnerEnds(j) \/ Signalled(j) \/ WorkerDies(j)
  BY <1>1
  DEF ReadRequest, RunnerEnds, Signalled, WorkerDies, storeVars, AfterSignal,
      Alive, WorkerStep
<1>2. CASE StartRunning(j) /\ worker[j] = "start_file"
  <2>1. /\ index' = index /\ disp' = disp
        /\ worker' = [worker EXCEPT ![j] = "start_index"]
    BY <1>2, Zenon DEF StartRunning, WriteFile
  <2> QED
    BY <1>2, <2>1 DEF WorkerStep
<1>3. CASE RecordEnd(j) /\ worker[j] = "end_file"
  BY <1>3 DEF RecordEnd, WriteFile, WorkerStep
<1>4. CASE MarkTerminated(j) /\ worker[j] = "term_file"
  BY <1>4 DEF MarkTerminated, WriteFile, WorkerStep
<1>5. CASE StartRunning(j) /\ worker[j] = "start_index"
  <2>1. Rec("running", TRUE) \in Entry
    BY DEF Rec, Entry, Statuses, Active
  <2>2. PutIn(j, Rec("running", TRUE))
    BY <1>5, <2>1, UpsertKeeps DEF StartRunning
  <2>3. index'[j] = Rec("running", TRUE)
    BY <2>2, WrittenFields DEF PutIn, Active
  <2>4. worker'[j] = "running" /\ disp'[j] = disp[j]
    BY <1>5 DEF StartRunning
  <2> QED
    BY <1>5, <2>3, <2>4 DEF WorkerStep
<1>6. CASE RecordEnd(j) /\ worker[j] = "end_index"
  <2>1. PutIn(j, Rec(outcome[j], FALSE))
    BY <1>6, WrittenEntries, UpsertKeeps DEF RecordEnd
  <2>2. worker'[j] = "dead" /\ disp'[j] = disp[j]
    BY <1>6 DEF RecordEnd
  <2>3. outcome[j] \in {"completed", "failed"}
    OBVIOUS
  <2> QED
    BY <1>6, <2>1, <2>2, <2>3 DEF WorkerStep
<1>7. CASE MarkTerminated(j) /\ worker[j] = "term_index"
  <2>1. Rec("failed", FALSE) \in Entry
    BY DEF Rec, Entry, Statuses, Terminal
  <2>2. PutIn(j, Rec("failed", FALSE))
    BY <1>7, <2>1, UpsertKeeps DEF MarkTerminated
  <2>3. worker'[j] = "dead" /\ disp'[j] = disp[j]
    BY <1>7 DEF MarkTerminated
  <2> QED
    BY <1>7, <2>2, <2>3 DEF WorkerStep
<1>8. CASE Progress(j)
  <2>1. PutIn(j, PatchNothing(index[j]))
    BY <1>8, WrittenEntries, UpsertKeeps DEF Progress
  <2>2. worker'[j] = "running" /\ disp'[j] = disp[j] /\ worker[j] = "running"
    BY <1>8 DEF Progress, actorVars
  <2> QED
    BY <2>1, <2>2 DEF WorkerStep
<1>9. ~FailLate(j)
  BY DEF Deaths, FailLate
<1> QED
  BY <1>1, <1>2, <1>3, <1>4, <1>5, <1>6, <1>7, <1>8, <1>9
  DEF Work, StartRunning, RecordEnd, MarkTerminated

\* No cancel is ever asked for.
NoCancel == \A k \in Jobs : cancel[k] = "none"

LEMMA NoCancelStep ==
  ASSUME "cancel" \notin Freedoms, ActorTypeOK, NoCancel, [Next]_vars
  PROVE  NoCancel'
<1>1. \A j \in Jobs : ~CancelSelect(j) /\ ~CancelKill(j) /\ ~CancelRecord(j)
  BY DEF NoCancel, CancelSelect, CancelKill, CancelRecord
<1>2. UNCHANGED cancel
  BY <1>1
  DEF Next, RunForeground, Dispatch, Enqueue, Spawn, MarkUnconfirmed, RecordPid,
      FailDispatch, SpawnUnconfirmed, DispatcherDies, Work, ReadRequest,
      StartRunning, RunnerEnds, RecordEnd, FailLate, MarkTerminated, Progress,
      Signalled, WorkerDies, Mirror, GraceEnds, Reap, ReaperDies, SessionLoad,
      SessionKill, SessionSave, vars, actorVars
<1> QED
  BY <1>2 DEF NoCancel

\* What every step does to every job.
LEMMA JobSteps ==
  ASSUME Deaths, StoreTypeOK, ActorTypeOK, ReapInv, NoCancel, [Next]_vars,
         NEW k \in Jobs
  PROVE  JobStep(k)
<1>1. ASSUME NEW j \in Jobs, RunForeground(j) \/ Dispatch(j) \/ DispatcherDies(j)
      PROVE  JobStep(k)
  <2>1. j # k => disp'[k] = disp[k] /\ worker'[k] = worker[k]
    BY <1>1
    DEF RunForeground, Dispatch, Enqueue, Spawn, MarkUnconfirmed, RecordPid,
        FailDispatch, DispatcherDies, DispatchGoto, WorkerGoto, ActorTypeOK
  <2>2. WritesEntry(j)
    BY <1>1, StepWritesEntry
  <2> QED
    BY <1>1, <2>1, <2>2, DispatcherSteps, OthersUntouched DEF JobStep, ReapInv
<1>2. ASSUME NEW j \in Jobs,
             Work(j) \/ Progress(j) \/ Signalled(j) \/ WorkerDies(j)
      PROVE  JobStep(k)
  <2>1. j # k => disp'[k] = disp[k] /\ worker'[k] = worker[k]
    BY <1>2
    DEF Work, ReadRequest, StartRunning, RunnerEnds, RecordEnd, FailLate,
        MarkTerminated, Progress, Signalled, WorkerDies, WorkerGoto, actorVars,
        ActorTypeOK
  <2>2. WritesEntry(j)
    BY <1>2, StepWritesEntry
  <2> QED
    BY <1>2, <2>1, <2>2, WorkersSteps, OthersUntouched DEF JobStep
<1>3. ASSUME NEW j \in Jobs, Mirror(j) \/ GraceEnds(j)
      PROVE  JobStep(k)
  BY <1>3
  DEF Mirror, GraceEnds, WriteFile, storeVars, actorVars, JobStep, Untouched,
      Kept
<1>4. CASE Reap
  <2>1. Save(ReapedIndex) /\ UNCHANGED <<disp, worker>>
    BY <1>4 DEF Reap, ReapedIndex
  <2>2. \/ index'[k] = ReapedIndex[k]
        \/ index'[k] = Gone /\ ReapedIndex[k].status \notin Active
    BY <2>1, ReapedIndexType, SaveKeeps
  <2>3. CASE k \in Reapable
    <3>1. PutIn(k, Rec("failed", FALSE))
      BY <2>2, <2>3 DEF ReapedIndex, PutIn
    <3>2. ShouldReap(k) /\ ~Alive(k)
      BY <2>3, ReapableAreDead DEF Reapable
    <3> QED
      BY <2>1, <3>1, <3>2 DEF JobStep, ReaperStep
  <2>4. CASE k \notin Reapable
    <3>1. Kept(k)
      BY <2>2, <2>4 DEF ReapedIndex, Kept
    <3> QED
      BY <2>1, <3>1 DEF JobStep, Untouched
  <2> QED
    BY <2>3, <2>4
<1>5. CASE ReaperDies \/ UNCHANGED vars
  BY <1>5 DEF ReaperDies, vars, storeVars, actorVars, JobStep, Untouched, Kept
<1>6. /\ ~SessionLoad /\ ~SessionKill /\ ~SessionSave
      /\ \A j \in Jobs : ~SpawnUnconfirmed(j)
  BY DEF ReapInv, Deaths, SessionLoad, SessionKill, SessionSave, SpawnUnconfirmed
<1>7. \A j \in Jobs : ~CancelSelect(j) /\ ~CancelKill(j) /\ ~CancelRecord(j)
  BY DEF Deaths, NoCancel, CancelSelect, CancelKill, CancelRecord
<1> QED
  BY <1>1, <1>2, <1>3, <1>4, <1>5, <1>6, <1>7 DEF Next

\* Such a life is calm, and starts that way.
LEMMA DeathsAreCalm == Deaths => Calm /\ "cancel" \notin Freedoms
BY DEF Deaths, Calm

LEMMA InitReapInv == Init => StoreTypeOK /\ ActorTypeOK /\ ReapInv /\ NoCancel
<1>1. Init => StoreTypeOK /\ ActorTypeOK
  BY DEF Init, StoreInit, StoreTypeOK, ActorTypeOK, Records, DispatchSteps,
         WorkerSteps, CancelSteps, EndingSteps
<1>2. Init => \A j \in Jobs : index[j].status = "gone"
  BY DEF Init, StoreInit, Gone
<1> QED
  BY <1>1, <1>2 DEF Init, ReapInv, NoCancel, DispatchInv, EntryInv, Active

\* A patch leaves an active entry its status.
LEMMA PatchKeepsActive ==
  ASSUME NEW e, e.status \in Active, NEW pid
  PROVE  PatchPid(e, pid) = Rec(e.status, pid)
<1>1. e # Gone
  BY WrittenFields DEF Active
<1> QED
  BY <1>1 DEF PatchPid

LEMMA PatchKeeps ==
  ASSUME NEW k, NEW pid, PutIn(k, PatchPid(index[k], pid)),
         index[k].status \in Active
  PROVE  index'[k].status = index[k].status
BY PatchKeepsActive, WrittenFields DEF PutIn

\* An active job whose worker lives on stays in the index, however many jobs
\* there are, whatever the cap and whoever dies.
THEOREM LiveJobsListed == Deaths /\ Spec => LiveJobsStayListed
<1> DEFINE I == StoreTypeOK /\ ActorTypeOK /\ ReapInv /\ NoCancel
<1>1. Deaths /\ I /\ [Next]_vars => I'
  BY DeathsAreCalm, StoreTypeStep, ActorTypeStep, ReapStep, NoCancelStep
<1>2. ASSUME Deaths, I, [Next]_vars
      PROVE  \A j \in Jobs : index[j].status \in Active /\ index'[j] = Gone
                               => ~Alive(j)'
  <2> SUFFICES ASSUME NEW j \in Jobs, index[j].status \in Active,
                      index'[j] = Gone
               PROVE  ~Alive(j)'
    OBVIOUS
  <2>1. JobStep(j)
    BY <1>2, JobSteps
  <2>2. /\ index'[j] # index[j]
        /\ index'[j] # Rec("queued", FALSE) /\ index'[j] # Rec("running", TRUE)
    <3>1. /\ Gone.status = "gone" /\ Rec("queued", FALSE).status = "queued"
          /\ Rec("running", TRUE).status = "running"
      BY WrittenFields
    <3> QED
      BY <3>1 DEF Active
  <2>3. CASE Untouched(j)
    BY <2>2, <2>3 DEF Untouched, Kept
  <2>4. CASE DispatcherStep(j)
    <3>1. ~PutIn(j, PatchPid(index[j], told[j]))
      BY PatchKeeps, WrittenFields DEF Active
    <3>2. disp[j] = "fail_index" /\ worker'[j] = worker[j]
      BY <2>2, <2>4, <3>1 DEF DispatcherStep, Active
    <3> QED
      BY <1>2, <3>2 DEF ReapInv, DispatchInv, Alive
  <2>5. CASE WorkerStep(j)
    <3>1. ~PutIn(j, PatchNothing(index[j]))
      BY PatchKeeps, WrittenFields DEF Active, PatchNothing
    <3> QED
      BY <2>2, <2>5, <3>1 DEF WorkerStep, Active, Alive
  <2>6. CASE ReaperStep(j)
    BY <2>6 DEF ReaperStep, Alive
  <2> QED
    BY <2>1, <2>3, <2>4, <2>5, <2>6 DEF JobStep
<1>3. Deaths /\ I /\ [Next]_vars
        => [\A j \in Jobs : index[j].status \in Active /\ index'[j] = Gone
              => ~Alive(j)' \/ (SessionSave /\ j \in Session)]_vars
  BY <1>2
<1>4. Deaths => []Deaths
  OBVIOUS
<1> QED
  BY <1>1, <1>3, <1>4, InitReapInv, PTL DEF Spec, LiveJobsStayListed

----------------------------------------------------------------------------
\* The index keeps its contract.

\* Where a job is in its life, and what its entry then says.
StageInv(k) ==
  /\ disp[k] \in {"file", "index"} => index[k] = Gone
  /\ /\ disp[k] \in {"spawn", "fail_file", "fail_index", "pid_file",
                     "pid_index"}
     /\ worker[k] = "none"
     => index[k] = Rec("queued", FALSE)
  /\ worker[k] = "spawned" => index[k].status = "queued"
  /\ worker[k] \in {"start_file", "start_index"}
       => \/ index[k].status = "queued"
          \/ index[k] = Gone /\ disp[k] = "done"
  /\ worker[k] \in {"running", "end_file", "end_index", "term_file",
                    "term_index"}
       => index[k].status = "running"

LEMMA StageStep ==
  ASSUME StoreTypeOK, ActorTypeOK, NEW k \in Jobs, DispatchInv(k), EntryInv(k),
         StageInv(k), JobStep(k)
  PROVE  StageInv(k)'
<1> USE DEF StageInv
<1>1. /\ Gone.status = "gone"
      /\ Rec("queued", FALSE).status = "queued" /\ ~Rec("queued", FALSE).pid
      /\ Rec("running", TRUE).status = "running"
  BY WrittenFields
<1>2. CASE Untouched(k)
  BY <1>1, <1>2 DEF Untouched, Kept, Active
<1>3. CASE DispatcherStep(k)
  <2>1. CASE disp[k] = "pid_index" /\ PutIn(k, PatchPid(index[k], told[k]))
    <3>1. index[k].status \in Active => index'[k].status = index[k].status
      BY <2>1, PatchKeeps
    <3>2. disp'[k] = "done" /\ worker'[k] = worker[k]
      BY <1>3, <2>1 DEF DispatcherStep
    <3> QED
      BY <1>1, <2>1, <3>1, <3>2 DEF Active
  <2>2. CASE disp[k] = "fail_index"
    BY <1>3, <2>2 DEF DispatcherStep, DispatchInv
  <2>3. CASE disp[k] = "spawn"
    BY <1>1, <1>3, <2>3 DEF DispatcherStep
  <2>4. CASE disp[k] \in {"file", "index"}
    BY <1>1, <1>3, <2>4 DEF DispatcherStep, DispatchInv
  <2>5. CASE /\ worker'[k] = worker[k] /\ index'[k] = index[k]
             /\ disp[k] \in {"pid_file", "fail_file"} \/ disp'[k] = "done"
    BY <1>1, <1>3, <2>5 DEF DispatcherStep, DispatchInv
  <2> QED
    BY <1>3, <2>1, <2>2, <2>3, <2>4, <2>5 DEF DispatcherStep
<1>4. CASE WorkerStep(k)
  <2>1. CASE worker[k] = "running" /\ worker'[k] = "running"
    <3>1. PutIn(k, PatchPid(index[k], index[k].pid))
      BY <1>4, <2>1 DEF WorkerStep, PatchNothing
    <3>2. index[k].status \in Active => index'[k].status = index[k].status
      BY <3>1, PatchKeeps
    <3>3. disp'[k] = disp[k] /\ disp[k] \notin {"file", "index"}
      BY <1>4, <2>1 DEF WorkerStep, DispatchInv
    <3> QED
      BY <2>1, <3>2, <3>3 DEF Active
  <2>2. CASE worker'[k] = "dead"
    <3>1. worker[k] # "none"
      BY <1>4, <2>2 DEF WorkerStep
    <3>2. disp'[k] = disp[k] /\ disp[k] \notin {"file", "index"}
      BY <1>4, <3>1 DEF WorkerStep, DispatchInv
    <3> QED
      BY <2>2, <3>2
  <2>3. CASE ~(worker[k] = "running" /\ worker'[k] = "running")
             /\ worker'[k] # "dead"
    <3>1. /\ disp'[k] = disp[k]
          /\ \/ /\ \/ worker[k] = "spawned" /\ worker'[k] = "start_file"
                   \/ worker[k] = "start_file" /\ worker'[k] = "start_index"
                   \/ worker[k] = "running" /\ worker'[k] \in {"end_file", "term_file"}
                   \/ worker[k] = "end_file" /\ worker'[k] = "end_index"
                   \/ worker[k] = "term_file" /\ worker'[k] = "term_index"
                /\ index'[k] = index[k]
             \/ /\ worker[k] = "start_index" /\ worker'[k] = "running"
                /\ index'[k] = Rec("running", TRUE)
      BY <1>4, <2>3 DEF WorkerStep
    <3>2. disp[k] \notin {"file", "index"}
      BY <3>1 DEF DispatchInv
    <3> QED
      BY <1>1, <3>1, <3>2
  <2> QED
    BY <2>1, <2>2, <2>3
<1>5. CASE ReaperStep(k)
  <2>1. index[k].status \in Active /\ worker[k] \in {"none", "dead"}
    BY <1>5 DEF ReaperStep, ShouldReap, Alive
  <2>2. disp[k] \notin {"file", "index"}
    BY <1>1, <2>1 DEF Active
  <2>3. worker[k] = "none" => disp[k] \notin {"spawn", "fail_file",
                                "fail_index", "pid_file", "pid_index"}
    BY <1>1, <1>5 DEF ReaperStep, ShouldReap, EntryInv
  <2>4. disp'[k] = disp[k] /\ worker'[k] = worker[k]
    BY <1>5 DEF ReaperStep
  <2> QED
    BY <2>1, <2>2, <2>3, <2>4
<1> QED
  BY <1>2, <1>3, <1>4, <1>5 DEF JobStep

\* A step of the contract, for one job.
ContractStep(s, t) ==
  \/ s = "gone" /\ t = "queued"
  \/ s \in {"gone", "queued"} /\ t = "running"
  \/ s \in {"queued", "running"} /\ t \in {"completed", "failed", "cancelled"}
  \/ t = "dropped"
  \/ s = "dropped" /\ t = "none"
  \/ t = s

\* What the contract sees of a step: an entry that stays Gone, or goes.
LEMMA StatusStep ==
  ASSUME StoreTypeOK, ActorTypeOK, NEW k \in Jobs, DispatchInv(k),
         StageInv(k), JobStep(k)
  PROVE  ContractStep(StatusOf(k), StatusOf(k)')
<1> DEFINE s == StatusOf(k)
           t == StatusOf(k)'
<1>1. /\ Gone.status = "gone"
      /\ Rec("queued", FALSE).status = "queued"
      /\ Rec("running", TRUE).status = "running"
      /\ \A x : Rec(x, FALSE).status = x
  BY WrittenFields
<1>2. Unlisted(k) => index[k] = Gone \/ index[k].status = "queued"
  BY DEF Unlisted, StageInv
<1>3. /\ s = IF index[k] = Gone /\ ~Unlisted(k) THEN "dropped"
             ELSE index[k].status
      /\ t = IF index'[k] = Gone /\ ~Unlisted(k)' THEN "dropped"
             ELSE index'[k].status
  BY DEF StatusOf
<1>4. ASSUME index'[k] = index[k], index[k] = Gone => (Unlisted(k)' => Unlisted(k))
      PROVE  ContractStep(s, t)
  BY <1>3, <1>4 DEF ContractStep
<1>5. CASE Untouched(k)
  <2>1. Unlisted(k)' <=> Unlisted(k)
    BY <1>5 DEF Untouched, Unlisted
  <2>2. CASE index'[k] = index[k]
    BY <1>4, <2>1, <2>2
  <2>3. CASE index'[k] = Gone /\ index[k].status \notin Active
    BY <1>1, <1>2, <1>3, <2>1, <2>3 DEF ContractStep, Active
  <2> QED
    BY <1>5, <2>2, <2>3 DEF Untouched, Kept
<1>6. CASE DispatcherStep(k)
  <2>1. CASE disp[k] = "pid_index" /\ PutIn(k, PatchPid(index[k], told[k]))
             /\ disp'[k] = "done" /\ worker'[k] = worker[k]
    <3>1. CASE index[k].status \in Active
      <4>1. index'[k].status = index[k].status
        BY <2>1, <3>1, PatchKeeps
      <4>2. index[k] # Gone /\ index'[k] # Gone
        BY <1>1, <3>1, <4>1 DEF Active
      <4> QED
        BY <1>3, <4>1, <4>2 DEF ContractStep
    <3>2. CASE index[k].status \notin Active
      <4>1. ~Unlisted(k) /\ ~Unlisted(k)'
        BY <1>1, <1>2, <2>1, <3>2 DEF Unlisted, StageInv, Active
      <4>2. index'[k] \in {PatchPid(index[k], told[k]), Gone}
        BY <2>1 DEF PutIn
      <4>3. CASE index'[k] = Gone
        BY <1>3, <4>1, <4>3 DEF ContractStep
      <4>4. CASE index'[k] = PatchPid(index[k], told[k])
        <5>1. index'[k].status = IF index[k] = Gone THEN "none"
                                 ELSE index[k].status
          BY <4>4, WrittenFields DEF PatchPid
        <5>2. index[k] # Gone => index[k].status # "gone"
          <6>1. index[k] # Gone => index[k].status \in Statuses
            BY RecordFields DEF StoreTypeOK
          <6> QED
            BY <6>1 DEF Statuses, Active, Terminal
        <5> QED
          BY <1>1, <1>3, <4>1, <5>1, <5>2 DEF ContractStep
      <4> QED
        BY <4>2, <4>3, <4>4
    <3> QED
      BY <3>1, <3>2
  <2>2. CASE disp[k] = "fail_index" /\ PutIn(k, Rec("failed", FALSE))
             /\ disp'[k] = "done" /\ worker'[k] = worker[k]
    <3>1. worker[k] = "none" /\ index[k].status = "queued"
      BY <1>1, <2>2 DEF DispatchInv, StageInv
    <3>2. ~Unlisted(k)'
      BY <2>2, <3>1 DEF Unlisted
    <3>3. s = "queued"
      BY <1>1, <1>3, <3>1
    <3>4. t \in {"failed", "dropped"}
      BY <1>1, <1>3, <2>2, <3>2 DEF PutIn
    <3> QED
      BY <3>3, <3>4 DEF ContractStep
  <2>3. CASE disp[k] = "index" /\ index'[k] = Rec("queued", FALSE)
    <3>1. index[k] = Gone /\ Unlisted(k)
      BY <2>3 DEF StageInv, Unlisted
    <3> QED
      BY <1>1, <1>3, <2>3, <3>1 DEF ContractStep
  <2>4. CASE index'[k] = index[k]
    <3>1. Unlisted(k)' => Unlisted(k) \/ index[k] # Gone
      <4>1. CASE disp[k] = "file"
        BY <4>1 DEF Unlisted
      <4>2. CASE disp[k] = "index"
        BY <4>2 DEF Unlisted
      <4>3. CASE disp[k] \notin {"file", "index"}
        BY <1>6, <4>3 DEF DispatcherStep, Unlisted
      <4> QED
        BY <4>1, <4>2, <4>3
    <3> QED
      BY <1>4, <2>4, <3>1
  <2> QED
    BY <1>6, <2>1, <2>2, <2>3, <2>4 DEF DispatcherStep
<1>7. CASE WorkerStep(k)
  <2>1. disp'[k] = disp[k]
    BY <1>7 DEF WorkerStep
  <2>2. CASE index'[k] = index[k]
             /\ (\/ worker[k] = "spawned" /\ worker'[k] = "start_file"
                 \/ worker[k] = "start_file" /\ worker'[k] = "start_index"
                 \/ worker'[k] \notin {"start_file", "start_index"})
    <3>1. worker[k] = "spawned" => index[k] # Gone
      BY <1>1 DEF StageInv
    <3>2. Unlisted(k)' => Unlisted(k) \/ index[k] # Gone
      BY <2>1, <2>2, <3>1 DEF Unlisted
    <3> QED
      BY <1>4, <2>2, <3>2
  <2>3. CASE worker[k] = "start_index" /\ index'[k] = Rec("running", TRUE)
    <3>1. Unlisted(k) /\ s \in {"gone", "queued"}
      BY <1>1, <1>2, <1>3, <2>3 DEF Unlisted
    <3>2. t = "running"
      BY <1>1, <1>3, <2>3
    <3> QED
      BY <3>1, <3>2 DEF ContractStep
  <2>4. CASE worker[k] = "running" /\ PutIn(k, PatchNothing(index[k]))
    <3>1. index[k].status = "running"
      BY <2>4 DEF StageInv
    <3>2. index'[k].status = "running"
      BY <2>4, <3>1, PatchKeeps DEF PatchNothing, Active
    <3> QED
      BY <1>1, <1>3, <3>1, <3>2 DEF ContractStep
  <2>5. CASE /\ worker[k] \in {"end_index", "term_index"} /\ worker'[k] = "dead"
             /\ \E x \in {"completed", "failed"} : PutIn(k, Rec(x, FALSE))
    <3>1. index[k].status = "running" /\ s = "running"
      BY <1>1, <1>3, <2>5 DEF StageInv
    <3>2. ~Unlisted(k)'
      BY <2>1, <2>5 DEF Unlisted, DispatchInv
    <3>3. t \in {"completed", "failed", "dropped"}
      BY <1>1, <1>3, <2>5, <3>2 DEF PutIn
    <3> QED
      BY <3>1, <3>3 DEF ContractStep
  <2> QED
    BY <1>7, <2>2, <2>3, <2>4, <2>5 DEF WorkerStep
<1>8. CASE ReaperStep(k)
  <2>1. index[k].status \in {"queued", "running"}
    BY <1>8 DEF ReaperStep, ShouldReap, Active
  <2>2. index[k] # Gone /\ worker[k] \in {"none", "dead"}
    BY <1>1, <1>8, <2>1 DEF ReaperStep, Alive
  <2>3. ~Unlisted(k)'
    BY <1>8, <2>2 DEF ReaperStep, Unlisted, StageInv
  <2>4. t \in {"failed", "dropped"}
    BY <1>1, <1>3, <1>8, <2>3 DEF ReaperStep, PutIn
  <2> QED
    BY <1>3, <2>1, <2>2, <2>4 DEF ContractStep
<1> QED
  BY <1>5, <1>6, <1>7, <1>8 DEF JobStep

\* The index keeps its contract with those who read it, however many jobs
\* there are, whatever the cap, and whichever processes die at whatever step.
THEOREM IndexKeepsContract == Deaths /\ Spec => ImplementsContract
<1> DEFINE I == /\ StoreTypeOK /\ ActorTypeOK /\ ReapInv /\ NoCancel
                /\ \A k \in Jobs : StageInv(k)
<1>1. Init => I
  <2>1. Init => \A k \in Jobs : StageInv(k)
    BY DEF Init, StoreInit, StageInv
  <2> QED
    BY <2>1, InitReapInv
<1>2. ASSUME Deaths, I, [Next]_vars, NEW k \in Jobs
      PROVE  StageInv(k)' /\ ContractStep(StatusOf(k), StatusOf(k)')
  <2>1. DispatchInv(k) /\ EntryInv(k)
    BY <1>2 DEF ReapInv
  <2>2. JobStep(k)
    BY <1>2, JobSteps
  <2> QED
    BY <1>2, <2>1, <2>2, StageStep, StatusStep
<1>3. Deaths /\ I /\ [Next]_vars => I'
  <2>1. ASSUME Deaths, I, [Next]_vars
        PROVE  (\A k \in Jobs : StageInv(k))'
    BY <1>2, <2>1
  <2> QED
    BY <2>1, DeathsAreCalm, StoreTypeStep, ActorTypeStep, ReapStep, NoCancelStep
<1>4. Init => Contract!Init
  <2>1. Init => \A j \in Jobs : StatusOf(j) = "gone"
    BY DEF Init, StoreInit, StatusOf, Unlisted, Gone
  <2> QED
    BY <2>1 DEF Contract!Init
<1>5. Deaths /\ I /\ [Next]_vars => [Contract!Next]_([j \in Jobs |-> StatusOf(j)])
  <2>1. ASSUME Deaths, I, [Next]_vars
        PROVE  Contract!Next
    <3> SUFFICES ASSUME NEW k \in Jobs
                 PROVE  \/ Contract!Enqueue(k) \/ Contract!Start(k)
                        \/ Contract!End(k) \/ Contract!Drop(k)
                        \/ Contract!Patch(k) \/ Contract!Stay(k)
      BY DEF Contract!Next
    <3>1. ContractStep(StatusOf(k), StatusOf(k)')
      BY <1>2, <2>1
    <3> QED
      BY <3>1
      DEF ContractStep, Contract!Enqueue, Contract!Start, Contract!End,
          Contract!Drop, Contract!Patch, Contract!Stay
  <2> QED
    BY <2>1
<1>6. Deaths => []Deaths
  OBVIOUS
<1> QED
  BY <1>1, <1>3, <1>4, <1>5, <1>6, PTL DEF Spec, ImplementsContract, Contract!Spec

----------------------------------------------------------------------------
\* The files and the index agree.

\* The dispatch may go wrong in every way, a worker may be killed while it
\* runs or fail late; the dispatcher and the reaper do all of their steps,
\* and no one cancels or ends the session.
Mended == Freedoms \subseteq {"killed", "late_failure", "ambiguous", "slow"}

\* The index does not reach its cap, so that nothing is pruned.
UnderCap == Cardinality(Jobs) <= MaxJobs

\* What index and file say of a job between any two steps.  A worker that may
\* die without a word, or is not there, leaves them so that the reaper and the
\* mirror it still owes make them agree.
FileInv(k) ==
  /\ index[k].status \in {"gone", "queued", "running", "completed", "failed"}
  /\ disp[k] \in {"file", "index"} => index[k].status = "gone"
  /\ disp[k] = "index" => file[k].status \in {"queued", "failed"}
  /\ disp[k] \notin {"file", "index", "done"}
       => index[k].status # "gone" /\ file[k].status # "gone"
  /\ disp[k] \in {"file", "index", "fail_file", "fail_index"}
       => worker[k] = "none"
  /\ disp[k] = "fail_index" => file[k].status = "failed"
  /\ worker[k] = "none" => index[k].status # "completed"
  /\ worker[k] = "start_index" => file[k].status \in {"running", "failed"}
  /\ worker[k] = "running" => index[k].status # "gone"
  /\ worker[k] = "end_index" => file[k].status = outcome[k]
  /\ worker[k] = "term_index" => file[k].status = "failed"
  /\ worker[k] \in {"none", "spawned", "running", "dead"} =>
       /\ index[k].status \in Active
            => file[k].status \in {"queued", "running", "failed"}
       /\ index[k].status = "failed"
            => \/ file[k].status = "failed"
               \/ k \in mirror /\ file[k].status \in {"queued", "running"}
       /\ index[k].status = "completed" => file[k].status = "completed"

NoEnding == ending = "none"

\* Below the cap a save puts in all that it is given, and removes no file.
LEMMA SaveWhole ==
  ASSUME UnderCap, StoreTypeOK, NEW new \in [Jobs -> Records], Save(new),
         \A k \in Jobs : index[k] # Gone => new[k] # Gone
  PROVE  index' = new /\ file' = file
<1> DEFINE A == ActiveOf(new)
           B == InactiveOf(new)
<1>1. PICK kept \in SUBSET Jobs :
        /\ Pruned(new, kept)
        /\ index' = [j \in Jobs |-> IF j \in kept THEN new[j] ELSE Gone]
        /\ file' = [j \in Jobs |-> IF index[j] # Gone /\ j \notin kept
                                   THEN Gone ELSE file[j]]
  BY DEF Save
<1>2. A \subseteq Jobs /\ B \subseteq Jobs /\ A \cap B = {}
  BY DEF ActiveOf, InactiveOf, Active, Terminal
<1>3. /\ IsFiniteSet(Jobs) /\ IsFiniteSet(A) /\ IsFiniteSet(B)
      /\ IsFiniteSet(A \cup B)
  BY <1>2, JobsAssumption, FS_Subset
<1>4. Cardinality(A \cup B) = Cardinality(A) + Cardinality(B)
  <2>1. Cardinality(A \cup B)
          = Cardinality(A) + Cardinality(B) - Cardinality(A \cap B)
    BY <1>3, FS_Union
  <2>2. Cardinality(A \cap B) = 0
    BY <1>2, FS_EmptySet
  <2>3. Cardinality(A) \in Nat /\ Cardinality(B) \in Nat
    BY <1>3, FS_CardinalityType
  <2> HIDE DEF A, B
  <2> QED
    BY <2>1, <2>2, <2>3
<1>5. Cardinality(A \cup B) <= Cardinality(Jobs)
  <2>1. A \cup B \subseteq Jobs
    BY <1>2
  <2> QED
    BY <1>3, <2>1, FS_Subset
<1>6. Cardinality(B) <= Budget(new)
  <2>1. /\ Cardinality(A) \in Nat /\ Cardinality(B) \in Nat
        /\ Cardinality(Jobs) \in Nat /\ MaxJobs \in Nat
    BY <1>3, FS_CardinalityType, MaxJobsAssumption
  <2>2. Cardinality(Jobs) <= MaxJobs
    BY DEF UnderCap
  <2>3. Budget(new) = IF MaxJobs - Cardinality(A) < 0 THEN 0
                      ELSE MaxJobs - Cardinality(A)
    BY DEF Budget
  <2> HIDE DEF A, B
  <2> QED
    BY <1>4, <1>5, <2>1, <2>2, <2>3
<1>7. kept = A \cup B
  BY <1>1, <1>6 DEF Pruned
<1>8. ASSUME NEW j \in Jobs, j \notin kept
      PROVE  new[j] = Gone
  <2>1. new[j].status \notin Active \cup Terminal \cup {"none"}
    BY <1>7, <1>8 DEF ActiveOf, InactiveOf
  <2>2. new[j] \in Records
    OBVIOUS
  <2> QED
    BY <2>1, <2>2, RecordFields DEF Statuses
<1>9. index' = new
  BY <1>1, <1>8
<1>10. file' = file
  BY <1>1, <1>8 DEF StoreTypeOK
<1> QED
  BY <1>9, <1>10

LEMMA UpsertWhole ==
  ASSUME UnderCap, StoreTypeOK, NEW j \in Jobs, NEW e \in Entry, Upsert(j, e)
  PROVE  /\ index'[j] = e /\ file' = file
         /\ \A k \in Jobs : k # j => index'[k] = index[k]
<1> DEFINE new == [index EXCEPT ![j] = e]
<1>1. new \in [Jobs -> Records] /\ Save(new)
  BY DEF StoreTypeOK, Records, Upsert
<1>2. e # Gone
  <2>1. e.status \in Statuses
    BY DEF Entry
  <2> QED
    BY <2>1 DEF Gone, Statuses, Active, Terminal
<1>3. \A k \in Jobs : index[k] # Gone => new[k] # Gone
  BY <1>2 DEF StoreTypeOK
<1> HIDE DEF new
<1>4. index' = new /\ file' = file
  BY <1>1, <1>3, SaveWhole
<1> QED
  BY <1>4 DEF new, StoreTypeOK

\* A job none of whose records and processes change, but that may come to be
\* mirrored, stays as it was.
LEMMA FileKept ==
  ASSUME NEW k \in Jobs, FileInv(k), k \in mirror => k \in mirror',
         index'[k] = index[k], file'[k] = file[k], disp'[k] = disp[k],
         worker'[k] = worker[k], outcome'[k] = outcome[k]
  PROVE  FileInv(k)'
BY DEF FileInv

\* The statuses of what is written.
LEMMA WrittenStatus ==
  ASSUME StoreTypeOK, ActorTypeOK, NEW j \in Jobs
  PROVE  /\ Rec("queued", FALSE).status = "queued"
         /\ Rec("running", TRUE).status = "running"
         /\ Rec("failed", FALSE).status = "failed"
         /\ Rec(outcome[j], FALSE).status = outcome[j]
         /\ index[j].status # "gone" =>
              /\ PidPatch(index[j], told[j]).status = index[j].status
              /\ PatchNothing(index[j]).status = index[j].status
         /\ file[j].status # "gone" =>
              /\ StoredOrQueued(j).status = file[j].status
              /\ PidPatch(StoredOrQueued(j), told[j]).status = file[j].status
<1>1. Gone.status = "gone"
  BY WrittenFields
<1>2. /\ Rec("queued", FALSE).status = "queued"
      /\ Rec("running", TRUE).status = "running"
      /\ Rec("failed", FALSE).status = "failed"
      /\ Rec(outcome[j], FALSE).status = outcome[j]
  BY WrittenFields
<1>3. \A e, p : e # Gone => PatchPid(e, p).status = e.status
  BY WrittenFields DEF PatchPid
<1>4. index[j].status # "gone" =>
        /\ PidPatch(index[j], told[j]).status = index[j].status
        /\ PatchNothing(index[j]).status = index[j].status
  BY <1>1, <1>3 DEF PidPatch, PatchNothing
<1>5. file[j].status # "gone" =>
        /\ StoredOrQueued(j).status = file[j].status
        /\ PidPatch(StoredOrQueued(j), told[j]).status = file[j].status
  BY <1>1, <1>3 DEF PidPatch, StoredOrQueued
<1> QED
  BY <1>2, <1>4, <1>5

LEMMA DispatcherKeepsFile ==
  ASSUME UnderCap, Mended, StoreTypeOK, ActorTypeOK, NEW j \in Jobs,
         FileInv(j),
         RunForeground(j) \/ Dispatch(j) \/ SpawnUnconfirmed(j)
         \/ DispatcherDies(j)
  PROVE  FileInv(j)'
<1> USE DEF FileInv, DispatchGoto, WorkerGoto
<1>1. CASE RunForeground(j) \/ Spawn(j) \/ SpawnUnconfirmed(j)
  BY <1>1 DEF RunForeground, Spawn, SpawnUnconfirmed, storeVars, ActorTypeOK
<1>2. CASE Enqueue(j) /\ disp[j] = "file"
  <2>1. /\ file'[j] = Rec("queued", FALSE) /\ index' = index
        /\ disp'[j] = "index"
        /\ UNCHANGED <<worker, outcome, mirror>>
    BY <1>2 DEF Enqueue, WriteFile, StoreTypeOK, ActorTypeOK
  <2> QED
    BY <1>2, <2>1, WrittenStatus DEF Active
<1>3. CASE Enqueue(j) /\ disp[j] = "index"
  <2>1. Upsert(j, Rec("queued", FALSE)) /\ Rec("queued", FALSE) \in Entry
    BY <1>3, WrittenEntries DEF Enqueue, Active
  <2>2. /\ index'[j] = Rec("queued", FALSE) /\ file' = file
        /\ disp'[j] = "spawn"
        /\ UNCHANGED <<worker, outcome, mirror>>
    BY <1>3, <2>1, UpsertWhole DEF Enqueue, ActorTypeOK
  <2> QED
    BY <1>3, <2>2, WrittenStatus DEF Active
<1>4. CASE MarkUnconfirmed(j) /\ disp[j] = "mark_file"
  <2>1. /\ file'[j] = StoredOrQueued(j) /\ index' = index
        /\ disp'[j] = "mark_index"
        /\ UNCHANGED <<worker, outcome, mirror>>
    BY <1>4 DEF MarkUnconfirmed, WriteFile, StoreTypeOK, ActorTypeOK
  <2>2. file'[j].status = file[j].status
    BY <1>4, <2>1, WrittenStatus
  <2> QED
    BY <1>4, <2>1, <2>2
<1>5. CASE MarkUnconfirmed(j) /\ disp[j] = "mark_index"
  <2>1. Upsert(j, PatchNothing(index[j])) /\ PatchNothing(index[j]) \in Entry
    BY <1>5, WrittenEntries DEF MarkUnconfirmed
  <2>2. /\ index'[j] = PatchNothing(index[j]) /\ file' = file
        /\ disp'[j] = "pid_file"
        /\ UNCHANGED <<worker, outcome, mirror>>
    BY <1>5, <2>1, UpsertWhole DEF MarkUnconfirmed, ActorTypeOK
  <2>3. index'[j].status = index[j].status
    BY <1>5, <2>2, WrittenStatus
  <2> QED
    BY <1>5, <2>2, <2>3
<1>6. CASE RecordPid(j) /\ disp[j] = "pid_file"
  <2>1. /\ file'[j] = PidPatch(StoredOrQueued(j), told[j]) /\ index' = index
        /\ disp'[j] = "pid_index"
        /\ UNCHANGED <<worker, outcome, mirror>>
    BY <1>6 DEF RecordPid, WriteFile, StoreTypeOK, ActorTypeOK
  <2>2. file'[j].status = file[j].status
    BY <1>6, <2>1, WrittenStatus
  <2> QED
    BY <1>6, <2>1, <2>2
<1>7. CASE RecordPid(j) /\ disp[j] = "pid_index"
  <2>1. Upsert(j, PidPatch(index[j], told[j])) /\ PidPatch(index[j], told[j]) \in Entry
    BY <1>7, WrittenEntries DEF RecordPid
  <2>2. /\ index'[j] = PidPatch(index[j], told[j]) /\ file' = file
        /\ disp'[j] = "done"
        /\ UNCHANGED <<worker, outcome, mirror>>
    BY <1>7, <2>1, UpsertWhole DEF RecordPid, ActorTypeOK
  <2>3. index'[j].status = index[j].status
    BY <1>7, <2>2, WrittenStatus
  <2> QED
    BY <1>7, <2>2, <2>3
<1>8. CASE FailDispatch(j) /\ disp[j] = "fail_file"
  <2>1. /\ file'[j] = Rec("failed", FALSE) /\ index' = index
        /\ disp'[j] = "fail_index"
        /\ UNCHANGED <<worker, outcome, mirror>>
    BY <1>8 DEF FailDispatch, WriteFile, StoreTypeOK, ActorTypeOK
  <2> QED
    BY <1>8, <2>1, WrittenStatus
<1>9. CASE FailDispatch(j) /\ disp[j] = "fail_index"
  <2>1. Upsert(j, Rec("failed", FALSE)) /\ Rec("failed", FALSE) \in Entry
    BY <1>9, WrittenEntries DEF FailDispatch, Terminal
  <2>2. /\ index'[j] = Rec("failed", FALSE) /\ file' = file
        /\ disp'[j] = "done"
        /\ UNCHANGED <<worker, outcome, mirror>>
    BY <1>9, <2>1, UpsertWhole DEF FailDispatch, ActorTypeOK
  <2> QED
    BY <1>9, <2>2, WrittenStatus DEF Active
<1>10. ~DispatcherDies(j)
  BY DEF Mended, DispatcherDies
<1> QED
  BY <1>1, <1>2, <1>3, <1>4, <1>5, <1>6, <1>7, <1>8, <1>9, <1>10
  DEF Dispatch, Enqueue, MarkUnconfirmed, RecordPid, FailDispatch

LEMMA WorkerKeepsFile ==
  ASSUME UnderCap, Mended, StoreTypeOK, ActorTypeOK, NEW j \in Jobs,
         FileInv(j),
         Work(j) \/ Progress(j) \/ Signalled(j) \/ WorkerDies(j)
  PROVE  FileInv(j)'
<1> USE DEF FileInv, DispatchGoto, WorkerGoto
<1>1. CASE ReadRequest(j) \/ RunnerEnds(j) \/ Signalled(j)
  BY <1>1 DEF ReadRequest, RunnerEnds, Signalled, AfterSignal, storeVars,
              ActorTypeOK
<1>2. CASE WorkerDies(j)
  <2>1. worker[j] \in {"spawned", "running"}
    BY <1>2 DEF WorkerDies, Mended
  <2> QED
    BY <1>2, <2>1 DEF WorkerDies, storeVars, ActorTypeOK
<1>3. CASE StartRunning(j) /\ worker[j] = "start_file"
  <2>1. /\ file'[j] = Rec("running", TRUE) /\ index' = index
        /\ worker'[j] = "start_index"
        /\ UNCHANGED <<disp, outcome, mirror>>
    BY <1>3 DEF StartRunning, WriteFile, StoreTypeOK, ActorTypeOK
  <2> QED
    BY <1>3, <2>1, WrittenStatus
<1>4. CASE StartRunning(j) /\ worker[j] = "start_index"
  <2>1. Upsert(j, Rec("running", TRUE)) /\ Rec("running", TRUE) \in Entry
    BY <1>4, WrittenEntries DEF StartRunning, Active
  <2>2. /\ index'[j] = Rec("running", TRUE) /\ file' = file
        /\ worker'[j] = "running"
        /\ UNCHANGED <<disp, outcome, mirror>>
    BY <1>4, <2>1, UpsertWhole DEF StartRunning, ActorTypeOK
  <2> QED
    BY <1>4, <2>2, WrittenStatus DEF Active
<1>5. CASE RecordEnd(j) /\ worker[j] = "end_file"
  <2>1. /\ file'[j] = Rec(outcome[j], FALSE) /\ index' = index
        /\ worker'[j] = "end_index"
        /\ UNCHANGED <<disp, outcome, mirror>>
    BY <1>5 DEF RecordEnd, WriteFile, StoreTypeOK, ActorTypeOK
  <2>2. outcome[j] # "gone"
    BY DEF ActorTypeOK
  <2> QED
    BY <1>5, <2>1, <2>2, WrittenStatus
<1>6. CASE (RecordEnd(j) /\ worker[j] = "end_index") \/ FailLate(j)
  <2>1. Upsert(j, Rec(outcome[j], FALSE)) /\ Rec(outcome[j], FALSE) \in Entry
    BY <1>6, WrittenEntries DEF RecordEnd, FailLate
  <2>2. /\ index'[j] = Rec(outcome[j], FALSE) /\ file' = file
        /\ worker[j] = "end_index" /\ worker'[j] \in {"dead", "term_file"}
        /\ UNCHANGED <<disp, outcome, mirror>>
    BY <1>6, <2>1, UpsertWhole DEF RecordEnd, FailLate, ActorTypeOK
  <2>3. outcome[j] \in {"completed", "failed"}
    BY DEF ActorTypeOK
  <2> QED
    BY <2>2, <2>3, WrittenStatus DEF Active
<1>7. CASE MarkTerminated(j) /\ worker[j] = "term_file"
  <2>1. /\ file'[j] = Rec("failed", FALSE) /\ index' = index
        /\ worker'[j] = "term_index"
        /\ UNCHANGED <<disp, outcome, mirror>>
    BY <1>7 DEF MarkTerminated, WriteFile, StoreTypeOK, ActorTypeOK
  <2> QED
    BY <1>7, <2>1, WrittenStatus
<1>8. CASE MarkTerminated(j) /\ worker[j] = "term_index"
  <2>1. Upsert(j, Rec("failed", FALSE)) /\ Rec("failed", FALSE) \in Entry
    BY <1>8, WrittenEntries DEF MarkTerminated, Terminal
  <2>2. /\ index'[j] = Rec("failed", FALSE) /\ file' = file
        /\ worker'[j] = "dead"
        /\ UNCHANGED <<disp, outcome, mirror>>
    BY <1>8, <2>1, UpsertWhole DEF MarkTerminated, ActorTypeOK
  <2> QED
    BY <1>8, <2>2, WrittenStatus DEF Active
<1>9. CASE Progress(j)
  <2>1. Upsert(j, PatchNothing(index[j])) /\ PatchNothing(index[j]) \in Entry
    BY <1>9, WrittenEntries DEF Progress
  <2>2. /\ index'[j] = PatchNothing(index[j]) /\ file' = file
        /\ worker[j] = "running"
        /\ UNCHANGED <<disp, worker, outcome, mirror>>
    BY <1>9, <2>1, UpsertWhole DEF Progress, actorVars
  <2>3. index'[j].status = index[j].status
    BY <2>2, WrittenStatus
  <2> QED
    BY <2>2, <2>3
<1> QED
  BY <1>1, <1>2, <1>3, <1>4, <1>5, <1>6, <1>7, <1>8, <1>9
  DEF Work, StartRunning, RecordEnd, MarkTerminated


\* The jobs a step of j is not about.
LEMMA OthersKeepFile ==
  ASSUME UnderCap, StoreTypeOK, ActorTypeOK, NEW j \in Jobs, NEW k \in Jobs \ {j},
         FileInv(k), WritesEntry(j), mirror' = mirror, disp'[k] = disp[k],
         worker'[k] = worker[k], outcome'[k] = outcome[k]
  PROVE  FileInv(k)'
<1>1. index'[k] = index[k] /\ file'[k] = file[k]
  <2>1. ASSUME NEW e \in Entry, WriteFile(j, e)
        PROVE  index'[k] = index[k] /\ file'[k] = file[k]
    BY <2>1 DEF WriteFile, StoreTypeOK
  <2>2. ASSUME NEW e \in Entry, Upsert(j, e)
        PROVE  index'[k] = index[k] /\ file'[k] = file[k]
    BY <2>2, UpsertWhole
  <2>3. ASSUME UNCHANGED storeVars
        PROVE  index'[k] = index[k] /\ file'[k] = file[k]
    BY <2>3 DEF storeVars
  <2> QED
    BY <2>1, <2>2, <2>3 DEF WritesEntry
<1> QED
  BY <1>1, FileKept

LEMMA ReaperKeepsFile ==
  ASSUME UnderCap, StoreTypeOK, ActorTypeOK, NEW k \in Jobs, FileInv(k),
         Reap \/ \E j \in Jobs : Mirror(j)
  PROVE  FileInv(k)'
<1>1. CASE Reap
  <2>1. /\ Save(ReapedIndex)
        /\ mirror' = mirror \union Reapable
        /\ UNCHANGED <<disp, worker, outcome>>
    BY <1>1 DEF Reap, ReapedIndex
  <2>2. \A j \in Jobs : index[j] # Gone => ReapedIndex[j] # Gone
    <3>1. Rec("failed", FALSE) # Gone
      BY DEF Rec, Gone
    <3> QED
      BY <3>1 DEF ReapedIndex
  <2>3. index' = ReapedIndex /\ file' = file
    BY <2>1, <2>2, ReapedIndexType, SaveWhole
  <2>4. CASE k \in Reapable
    <3>1. index'[k] = Rec("failed", FALSE)
      BY <2>3, <2>4 DEF ReapedIndex
    <3>2. index'[k].status = "failed"
      BY <3>1, WrittenFields
    <3>3. index[k].status \in Active
      BY <2>4 DEF Reapable, ShouldReap
    <3>4. k \in mirror'
      BY <2>1, <2>4
    <3> QED
      BY <2>1, <2>3, <3>2, <3>3, <3>4 DEF FileInv, Active
  <2>5. CASE k \notin Reapable
    <3>1. index'[k] = index[k]
      BY <2>3, <2>5 DEF ReapedIndex
    <3> QED
      BY <2>1, <2>3, <3>1, FileKept
  <2> QED
    BY <2>4, <2>5
<1>2. ASSUME NEW j \in Jobs, Mirror(j)
      PROVE  FileInv(k)'
  <2>1. /\ j \in mirror /\ mirror' = mirror \ {j}
        /\ index' = index
        /\ UNCHANGED <<disp, worker, outcome>>
    BY <1>2 DEF Mirror, WriteFile, storeVars
  <2>2. file'[k] = file[k] \/ k = j
    BY <1>2 DEF Mirror, WriteFile, storeVars, StoreTypeOK
  <2>3. CASE k # j
    BY <2>1, <2>2, <2>3, FileKept
  <2>4. CASE k = j /\ FileSettled(file[k])
    <3>1. file' = file
      BY <1>2, <2>4 DEF Mirror, storeVars
    <3> QED
      BY <2>1, <2>4, <3>1 DEF FileInv, FileSettled
  <2>5. CASE k = j /\ ~FileSettled(file[k])
    <3>1. file'[k] = Rec("failed", FALSE)
      BY <1>2, <2>5 DEF Mirror, WriteFile, StoreTypeOK
    <3>2. file'[k].status = "failed"
      BY <3>1, WrittenFields
    <3>3. outcome[k] \in {"completed", "failed"}
      BY DEF ActorTypeOK
    <3> QED
      BY <2>1, <2>5, <3>2, <3>3 DEF FileInv, FileSettled
  <2> QED
    BY <2>3, <2>4, <2>5
<1> QED
  BY <1>1, <1>2

LEMMA FileStep ==
  ASSUME UnderCap, Mended, StoreTypeOK, ActorTypeOK, NoCancel, NoEnding,
         [Next]_vars, NEW k \in Jobs, FileInv(k)
  PROVE  FileInv(k)'
<1>1. ASSUME NEW j \in Jobs,
             RunForeground(j) \/ Dispatch(j) \/ SpawnUnconfirmed(j)
             \/ DispatcherDies(j)
      PROVE  FileInv(k)'
  <2>1. /\ j # k => disp'[k] = disp[k] /\ worker'[k] = worker[k]
        /\ UNCHANGED <<outcome, mirror>>
    BY <1>1
    DEF RunForeground, Dispatch, Enqueue, Spawn, MarkUnconfirmed, RecordPid,
        FailDispatch, SpawnUnconfirmed, DispatcherDies, DispatchGoto,
        WorkerGoto, ActorTypeOK
  <2>2. WritesEntry(j)
    BY <1>1, StepWritesEntry
  <2> QED
    BY <1>1, <2>1, <2>2, DispatcherKeepsFile, OthersKeepFile
<1>2. ASSUME NEW j \in Jobs,
             Work(j) \/ Progress(j) \/ Signalled(j) \/ WorkerDies(j)
      PROVE  FileInv(k)'
  <2>1. /\ j # k => /\ disp'[k] = disp[k] /\ worker'[k] = worker[k]
                    /\ outcome'[k] = outcome[k]
        /\ UNCHANGED mirror
    BY <1>2
    DEF Work, ReadRequest, StartRunning, RunnerEnds, RecordEnd, FailLate,
        MarkTerminated, Progress, Signalled, WorkerDies, WorkerGoto, actorVars,
        ActorTypeOK
  <2>2. WritesEntry(j)
    BY <1>2, StepWritesEntry
  <2> QED
    BY <1>2, <2>1, <2>2, WorkerKeepsFile, OthersKeepFile
<1>3. CASE Reap \/ \E j \in Jobs : Mirror(j)
  BY <1>3, ReaperKeepsFile
<1>4. CASE UNCHANGED vars \/ \E j \in Jobs : GraceEnds(j)
  <2>1. UNCHANGED <<index, file, disp, worker, outcome, mirror>>
    BY <1>4 DEF vars, storeVars, actorVars, GraceEnds
  <2> QED
    BY <2>1, FileKept
<1>5. /\ \A j \in Jobs : ~CancelSelect(j) /\ ~CancelKill(j) /\ ~CancelRecord(j)
      /\ ~ReaperDies /\ ~SessionLoad /\ ~SessionKill /\ ~SessionSave
  BY DEF Mended, NoCancel, NoEnding, CancelSelect, CancelKill, CancelRecord,
         ReaperDies, SessionLoad, SessionKill, SessionSave
<1> QED
  BY <1>1, <1>2, <1>3, <1>4, <1>5 DEF Next

LEMMA NoEndingStep ==
  ASSUME Mended, NoEnding, [Next]_vars
  PROVE  NoEnding'
<1>1. ~SessionLoad /\ ~SessionKill /\ ~SessionSave
  BY DEF Mended, NoEnding, SessionLoad, SessionKill, SessionSave
<1>2. UNCHANGED ending
  BY <1>1
  DEF Next, RunForeground, Dispatch, Enqueue, Spawn, MarkUnconfirmed, RecordPid,
      FailDispatch, SpawnUnconfirmed, DispatcherDies, Work, ReadRequest,
      StartRunning, RunnerEnds, RecordEnd, FailLate, MarkTerminated, Progress,
      Signalled, WorkerDies, Mirror, GraceEnds, Reap, ReaperDies, CancelSelect,
      CancelKill, CancelRecord, vars, actorVars
<1> QED
  BY <1>2 DEF NoEnding

\* In the end the file of a job says what its index entry says, however many
\* jobs there are below the cap, and however their dispatch and their worker
\* failed.
THEOREM FilesAlwaysAgree == UnderCap /\ Mended /\ Spec => []FilesAgree
<1> DEFINE I == /\ StoreTypeOK /\ ActorTypeOK /\ NoCancel /\ NoEnding
                /\ \A k \in Jobs : FileInv(k)
<1>1. Init => I
  <2>1. Init => \A k \in Jobs : FileInv(k)
    BY DEF Init, StoreInit, FileInv, Gone, Active
  <2>2. Init => NoEnding
    BY DEF Init, NoEnding
  <2> QED
    BY <2>1, <2>2, InitReapInv
<1>2. Mended /\ UnderCap /\ I /\ [Next]_vars => I'
  <2>1. ASSUME Mended, UnderCap, I, [Next]_vars
        PROVE  (\A k \in Jobs : FileInv(k))'
    BY <2>1, FileStep
  <2>2. Mended => "cancel" \notin Freedoms
    BY DEF Mended
  <2> QED
    BY <2>1, <2>2, StoreTypeStep, ActorTypeStep, NoCancelStep, NoEndingStep
<1>3. I => FilesAgree
  <2> SUFFICES ASSUME I, NEW k \in Jobs, Quiet(k), index[k] # Gone
               PROVE  file[k].status = index[k].status
    BY DEF FilesAgree
  <2>1. index[k].status \notin Active
    BY DEF Quiet
  <2>2. worker[k] \in {"none", "dead"} /\ disp[k] = "done" /\ k \notin mirror
    BY DEF Quiet, Alive
  <2>3. index[k].status # "gone"
    BY RecordFields DEF StoreTypeOK, Statuses, Active, Terminal
  <2>4. FileInv(k)
    OBVIOUS
  <2> QED
    BY <2>1, <2>2, <2>3, <2>4 DEF FileInv, Quiet, Active
<1>4. (Mended => []Mended) /\ (UnderCap => []UnderCap)
  OBVIOUS
<1> QED
  BY <1>1, <1>2, <1>3, <1>4, PTL DEF Spec
============================================================================
