------------------------------- MODULE Evolve -------------------------------
(***************************************************************************)
(* The daily-evolve command in one checkout: the processes that run it, by  *)
(* hand and from the scheduler, and the files they share.                   *)
(*                                                                         *)
(* A run registers itself in the run ledger, works without any lock, and    *)
(* finalizes its entry (handleDailyEvolve).  Each of the two legs holds the *)
(* ledger's lock, a file created with O_EXCL that anyone may remove once it *)
(* is older than sixty seconds.  --self-evolve reviews, --probe probes, and *)
(* action-executor.mjs is a command of its own; these use files of their    *)
(* own, without a lock.                                                     *)
(*                                                                         *)
(* A file is replaced by rename, so it is read whole; what it holds may     *)
(* still be torn by hand, or of a newer schema than this code knows.        *)
(***************************************************************************)
EXTENDS EvolveActions

CONSTANTS Processes,
          Plans,       \* what each process is started for, from which day,
                       \* and what the state files hold then
          Days,        \* the days things happen on, ascending
          MaxTries,    \* 200 attempts at the lock
          MaxAlive,    \* processes at a time
          MaxFaults    \* kills, and times a live owner outsleeps its lock

ASSUME EvolveAssumption ==
  /\ {MaxTries, MaxAlive, MaxFaults} \subseteq Nat
  /\ Days \in Seq(Nat)
  /\ \A i, k \in DOMAIN Days : i <= k => Days[i] <= Days[k]

\* A plan names a day, what the files hold then, and a job for each process.
ASSUME PlansAssumption ==
  \A plan \in Plans :
    /\ plan.from \in DOMAIN Days
    /\ plan.files \in {"absent", "torn", "newer", "ok"}
    /\ \A p \in Processes :
         /\ plan.job[p].kind \in {"run", "review", "act", "probe"}
         /\ plan.job[p].kind = "run" =>
              plan.job[p].budget \in Nat /\ ForkList(plan.job[p].forks)

None == [none |-> TRUE]
WeeklyDays == 7
Statuses == {"running", "success", "partial", "failure"}

VARIABLES clock,     \* today is Days[clock]
          lock,      \* the lock file: None, or who made it and if it is old
          ledger,    \* daily-evolve-runs-YYYY.json
          baseline,  \* daily-evolve-cost-baseline.json
          cache,     \* daily-evolve-pr-cache.json
          log,       \* daily-evolve-self-evolve-log.json
          digest,    \* the digest of each day
          pc,        \* where each process is
          job,       \* what it is started for
          leg,       \* the lock's turn a run is in
          tries,     \* its attempts at the lock
          seen,      \* what it read of the file it is about to replace
          out,       \* what it found out
          exit,      \* its exit code, -1 before
          robbed,    \* those whose lock was removed while they held it
          raced,     \* a cache was replaced that was not the one read
          drafts,    \* every draft proposed: its key and its day
          faults

shared == <<lock, ledger, baseline, cache, log, digest>>
local  == <<pc, job, leg, tries, seen, out, exit>>
ghost  == <<robbed, raced, drafts>>
vars   == <<clock, shared, local, ghost, faults>>

Today == Days[clock]

File(state, entries) == [state |-> state, entries |-> entries]

NoOut == [day |-> -1, records |-> {}, calls |-> 0, looked |-> {},
          units |-> 0, status |-> "running"]

Init ==
  /\ lock = None /\ ledger = <<>>
  /\ \E plan \in Plans :
       /\ clock = plan.from /\ job = plan.job
       /\ baseline = File(plan.files, <<>>)
       /\ cache = File(plan.files, {})
       /\ log = File(plan.files, <<>>)
  /\ digest = [d \in {Days[i] : i \in DOMAIN Days} |-> None]
  /\ pc = [p \in Processes |-> "off"]
  /\ leg = [p \in Processes |-> "register"]
  /\ tries = [p \in Processes |-> 0]
  /\ seen = [p \in Processes |-> None]
  /\ out = [p \in Processes |-> NoOut]
  /\ exit = [p \in Processes |-> -1]
  /\ robbed = {} /\ raced = FALSE /\ drafts = {}
  /\ faults = 0

----------------------------------------------------------------------------
\* Helpers

Alive(p) == pc[p] \notin {"off", "done", "dead"}

Goto(p, where) == pc' = [pc EXCEPT ![p] = where]

\* Its memory is gone with it.
Quit(p, code) ==
  /\ Goto(p, "done")
  /\ exit' = [exit EXCEPT ![p] = code]
  /\ seen' = [seen EXCEPT ![p] = None]
  /\ tries' = [tries EXCEPT ![p] = 0]

\* loadBaselines, loadCache, loadLog: a torn file starts afresh, its copy
\* beside it; a newer one throws.
Refuses(file) == file.state = "newer"

Loaded(file, empty) == IF file.state = "ok" THEN file.entries ELSE empty

----------------------------------------------------------------------------
\* A process starts

Begins(j) ==
  CASE j.kind = "run"    -> "wait"
    [] j.kind = "review" -> "review"
    [] j.kind = "act"    -> "load"
    [] j.kind = "probe"  -> "probe"

\* CODEX_PLUGIN_DAILY_EVOLVE_DISABLED: tested before the mode is.
Disabled(j) == j.kind # "act" /\ j.disabled

\* Turned away: by the switch, or for a phase there is no code for.
Turned(j) == Disabled(j) \/ (j.kind = "run" /\ j.phase > 5)

Start(p) ==
  /\ pc[p] = "off"
  /\ Cardinality({q \in Processes : Alive(q)}) < MaxAlive
  /\ LET j == job[p]
     IN IF Turned(j)
        THEN Quit(p, IF Disabled(j) THEN 0 ELSE 1) /\ UNCHANGED out
        ELSE /\ Goto(p, Begins(j))
             /\ out' = [out EXCEPT ![p].day =
                  IF j.kind = "run" THEN Today ELSE @]
             /\ UNCHANGED <<exit, seen, tries>>
  /\ UNCHANGED <<clock, shared, job, leg, ghost, faults>>

----------------------------------------------------------------------------
\* The ledger's lock

Owner(p) == [by |-> p, leg |-> leg[p], old |-> FALSE]

Holds(p) == pc[p] \in {"read", "write", "release"}

\* Mutant: any lock in the way is old.
StaleAlways(l) == TRUE

Stale(l) == l.old

\* An attempt more, up to the bound.
Attempts(p) == IF tries[p] < MaxTries THEN tries[p] + 1 ELSE tries[p]

\* Mutant: it tries for ever.
TooManyNever(n) == FALSE

\* _acquireDailyEvolveLock throws; in the second leg the entry stays as it is.
TooMany(n) == n >= MaxTries

\* O_EXCL; the file in the way is looked at, and waited for or stolen.
TryLock(p) ==
  /\ pc[p] = "wait"
  /\ IF lock = None
     THEN /\ lock' = Owner(p)
          /\ Goto(p, "read")
          /\ tries' = [tries EXCEPT ![p] = 0]
          /\ UNCHANGED <<seen, exit>>
     ELSE /\ UNCHANGED lock
          /\ IF ~Stale(lock) /\ TooMany(Attempts(p))
             THEN Quit(p, 1)
             ELSE /\ Goto(p, IF Stale(lock) THEN "steal" ELSE "wait")
                  /\ tries' = [tries EXCEPT ![p] = Attempts(p)]
                  /\ UNCHANGED <<seen, exit>>
  /\ UNCHANGED <<clock, ledger, baseline, cache, log, digest, job, leg, out,
                 ghost, faults>>

\* statSync and unlinkSync are two steps: what is unlinked is what is there.
Steal(p) ==
  /\ pc[p] = "steal"
  /\ lock' = None
  /\ robbed' = robbed \union
       {q \in Processes : lock # None /\ lock.by = q /\ Holds(q)}
  /\ IF TooMany(tries[p]) THEN Quit(p, 1)
     ELSE Goto(p, "wait") /\ UNCHANGED <<tries, seen, exit>>
  /\ UNCHANGED <<clock, ledger, baseline, cache, log, digest, job, leg, out,
                 raced, drafts, faults>>

\* A bound: the ledger parses.  (One that does not makes a leg throw, which
\* releases the lock, and the process exit with 1; nothing is written.)
ReadLedger(p) ==
  /\ pc[p] = "read"
  /\ seen' = [seen EXCEPT ![p] = [runs |-> ledger]]
  /\ Goto(p, "write")
  /\ UNCHANGED <<clock, shared, job, leg, tries, out, exit, ghost, faults>>

Entry(p) == [run |-> p, status |-> out[p].status, units |-> out[p].units,
             records |-> Cardinality(out[p].records)]

\* Mutant: the final entry is appended to the running one.
FinalizedTwice(runs, p) == Append(runs, Entry(p))

\* The entry of the run, wherever it is; a lost one is appended again.
Finalized(runs, p) ==
  IF \E i \in DOMAIN runs : runs[i].run = p
  THEN [i \in DOMAIN runs |-> IF runs[i].run = p THEN Entry(p) ELSE runs[i]]
  ELSE Append(runs, Entry(p))

WriteLedger(p) ==
  /\ pc[p] = "write"
  /\ ledger' = IF leg[p] = "register" THEN Append(seen[p].runs, Entry(p))
               ELSE Finalized(seen[p].runs, p)
  /\ seen' = [seen EXCEPT ![p] = None]
  /\ Goto(p, "release")
  /\ UNCHANGED <<clock, lock, baseline, cache, log, digest, job, leg, tries,
                 out, exit, ghost, faults>>

Code(status) ==
  CASE status = "failure" -> 1 [] status = "partial" -> 2 [] OTHER -> 0

\* _releaseDailyEvolveLock: only a lock with its own token is removed.
Release(p) ==
  /\ pc[p] = "release"
  /\ lock' = IF lock # None /\ lock.by = p /\ lock.leg = leg[p] THEN None
             ELSE lock
  /\ IF leg[p] = "register"
     THEN Goto(p, "collect") /\ UNCHANGED <<exit, seen, tries>>
     ELSE Quit(p, Code(out[p].status))
  /\ UNCHANGED <<clock, ledger, baseline, cache, log, digest, job, leg, out,
                 ghost, faults>>

----------------------------------------------------------------------------
\* The pipeline of a run

\* Whatever throws in it makes the run a failure, which is then finalized.
Finalize(p, status) ==
  /\ Goto(p, "wait")
  /\ leg' = [leg EXCEPT ![p] = "finalize"]
  /\ out' = [out EXCEPT ![p].status = status]

RunJobs == {j \in {plan.job[p] : plan \in Plans, p \in Processes} :
              j.kind = "run"}

\* aggregate, analyze and, from phase 2, forkResearch: for each invocation,
\* the records, the forks looked at, the calls and the units they cost.
Collected ==
  [j \in RunJobs |->
     IF j.phase >= 2
     THEN [records |-> Analyzed(j.world, j.skipGhApi) \union
                         ForkRecords(j.forks, j.budget),
           looked |-> Enriched(j.forks, j.budget),
           calls |-> ApiCalls(j.forks, j.budget),
           units |-> AdviceCost(j.forks, j.budget)]
     ELSE [records |-> Analyzed(j.world, j.skipGhApi),
           looked |-> {}, calls |-> 0, units |-> 0]]

\* These and, up to the baseline it reads, triage.
Collect(p) ==
  /\ pc[p] = "collect"
  /\ LET j == job[p]
         found == [out[p] EXCEPT !.records = Collected[j].records,
                                 !.looked = Collected[j].looked,
                                 !.calls = Collected[j].calls,
                                 !.units = Collected[j].units]
         triages == j.phase >= 1 /\ WorthTriage(found.records)
     IN /\ IF triages /\ Refuses(baseline)
           THEN /\ Goto(p, "wait")
                /\ leg' = [leg EXCEPT ![p] = "finalize"]
                /\ out' = [out EXCEPT ![p] = [found EXCEPT
                             !.status = "failure"]]
                /\ UNCHANGED seen
           ELSE /\ out' = [out EXCEPT ![p] = found]
                /\ Goto(p, IF triages THEN "charge" ELSE "digest")
                /\ seen' = [seen EXCEPT ![p] =
                     IF triages THEN [units |-> Loaded(baseline, <<>>)]
                     ELSE None]
                /\ UNCHANGED leg
  /\ UNCHANGED <<clock, shared, job, tries, exit, ghost, faults>>

\* The rest of triage: over the cap nothing is charged.
Charge(p) ==
  /\ pc[p] = "charge"
  /\ IF CapExceeded(seen[p].units)
     THEN UNCHANGED <<baseline, out>>
     ELSE /\ baseline' = File("ok", Charged(seen[p].units))
          /\ out' = [out EXCEPT ![p].units = @ + TurnUnits]
  /\ Goto(p, "digest")
  /\ UNCHANGED <<clock, lock, ledger, cache, log, digest, job, leg, tries,
                 seen, exit, ghost, faults>>

\* What triage made of the records of p, none below phase 1.
TriagedOf(p) ==
  IF job[p].phase < 1 THEN {}
  ELSE Triaged(out[p].records, WorthTriage(out[p].records)
                               /\ ~CapExceeded(seen[p].units))

\* execute and write.  None of a run's own autonomous_safe records asks for a
\* draft, so the cache is read, at most.
Digest(p) ==
  /\ pc[p] = "digest"
  /\ LET j == job[p]
         acts == j.phase >= 4
         triaged == TriagedOf(p)
     IN IF acts /\ Refuses(cache)
        THEN Finalize(p, "failure") /\ UNCHANGED digest
        ELSE /\ digest' = [digest EXCEPT ![out[p].day] =
                  [by |-> p, failures |-> Surfaced(j.world),
                   auth |-> HealthMessage(j.setup),
                   records |-> out[p].records]]
             /\ Goto(p, "wait")
             /\ leg' = [leg EXCEPT ![p] = "finalize"]
             /\ out' = [out EXCEPT
                  ![p].status = IF Surfaced(j.world) = {} THEN "success"
                                ELSE "partial",
                  ![p].units = @ + (IF acts THEN L5Cost(triaged) ELSE 0)]
  /\ seen' = [seen EXCEPT ![p] = None]
  /\ UNCHANGED <<clock, lock, ledger, baseline, cache, log, job, tries, exit,
                 ghost, faults>>

----------------------------------------------------------------------------
\* action-executor.mjs as a command, on a file of triaged records

LoadCache(p) ==
  /\ pc[p] = "load"
  /\ IF Refuses(cache)
     THEN Quit(p, 1)
     ELSE /\ seen' = [seen EXCEPT ![p] =
               [read |-> cache, live |-> Live(Loaded(cache, {}), Today)]]
          /\ Goto(p, "propose")
          /\ UNCHANGED <<exit, tries>>
  /\ out' = [out EXCEPT ![p].day = Today]
  /\ UNCHANGED <<clock, shared, job, leg, ghost, faults>>

\* The cache is saved when there is a new draft.
Propose(p) ==
  /\ pc[p] = "propose"
  /\ LET records == job[p].records
         live == seen[p].live
         today == out[p].day
         picked == Candidates(records, live)
     IN /\ IF picked = {} THEN UNCHANGED <<cache, raced>>
           ELSE /\ cache' = File("ok", CacheAfter(records, live, today))
                /\ raced' = (raced \/ cache # seen[p].read)
        /\ drafts' = drafts \union
             {[key |-> DedupeKey(records[i].record), day |-> today, by |-> p] :
                i \in picked}
  /\ Quit(p, 0)
  /\ UNCHANGED <<clock, lock, ledger, baseline, log, digest, job, leg, out,
                 robbed, faults>>

----------------------------------------------------------------------------
\* self-evolve.mjs

Weekly(entries) == {i \in DOMAIN entries : entries[i].type = "weekly"}

\* Mutant: the newest entry counts, whatever its type.
DueByNewest(entries, today) ==
  \/ entries = <<>>
  \/ entries[Len(entries)].type # "weekly"
  \/ today - entries[Len(entries)].day >= WeeklyDays

\* shouldFireWeekly: the last weekly entry is a week old.
Due(entries, today) ==
  \A i \in Weekly(entries) :
    (\A k \in Weekly(entries) : k <= i) => today - entries[i].day >= WeeklyDays

Review(p) ==
  /\ pc[p] = "review"
  /\ LET entries == Loaded(log, <<>>)
     IN IF Refuses(log) THEN Quit(p, 1)
        ELSE IF ~job[p].force /\ ~Due(entries, Today) THEN Quit(p, 0)
        ELSE /\ seen' = [seen EXCEPT ![p] = [entries |-> entries]]
             /\ Goto(p, "log")
             /\ UNCHANGED <<exit, tries>>
  /\ out' = [out EXCEPT ![p].day = Today]
  /\ UNCHANGED <<clock, shared, job, leg, ghost, faults>>

\* The report of the week is written, then the log.
SaveLog(p) ==
  /\ pc[p] = "log"
  /\ log' = File("ok", Append(seen[p].entries, [type |-> job[p].type,
                                        day |-> out[p].day,
                                        forced |-> job[p].force]))
  /\ Quit(p, 0)
  /\ UNCHANGED <<clock, lock, ledger, baseline, cache, digest, job, leg, out,
                 ghost, faults>>

----------------------------------------------------------------------------
\* schedule-setup.mjs

\* probeAndRegister: it prints what the user is to register, and keeps nothing.
Probe(p) ==
  /\ pc[p] = "probe"
  /\ Quit(p, 0)
  /\ UNCHANGED <<clock, shared, job, leg, out, ghost, faults>>

----------------------------------------------------------------------------
\* The environment

Crash(p) ==
  /\ Alive(p) /\ faults < MaxFaults
  /\ faults' = faults + 1
  /\ Goto(p, "dead")
  /\ seen' = [seen EXCEPT ![p] = None]
  /\ tries' = [tries EXCEPT ![p] = 0]
  /\ UNCHANGED <<clock, shared, job, leg, out, exit, ghost>>

\* The lock becomes a minute old: its owner died, or the machine slept.
Age ==
  /\ lock # None /\ ~lock.old
  /\ LET held == lock.by \in {p \in Processes : Holds(p)}
     IN /\ held => faults < MaxFaults
        /\ faults' = IF held THEN faults + 1 ELSE faults
  /\ lock' = [lock EXCEPT !.old = TRUE]
  /\ UNCHANGED <<clock, ledger, baseline, cache, log, digest, local, ghost>>

\* A bound: no process lives past midnight.
Tick ==
  /\ clock < Len(Days) /\ \A p \in Processes : ~Alive(p)
  /\ clock' = clock + 1
  /\ UNCHANGED <<shared, local, ghost, faults>>

Step(p) ==
  \/ TryLock(p) \/ Steal(p) \/ ReadLedger(p) \/ WriteLedger(p) \/ Release(p)
  \/ Collect(p) \/ Charge(p) \/ Digest(p)
  \/ LoadCache(p) \/ Propose(p)
  \/ Review(p) \/ SaveLog(p)
  \/ Probe(p)

Next ==
  \/ \E p \in Processes : Start(p) \/ Step(p) \/ Crash(p)
  \/ Age \/ Tick

Spec == Init /\ [][Next]_vars

\* A process that is started is scheduled.
FairSpec == Spec /\ \A p \in Processes : WF_vars(Step(p))

----------------------------------------------------------------------------
\* Properties

Places == {"off", "done", "dead", "wait", "steal", "read", "write", "release",
           "collect", "charge", "digest", "load", "propose", "review", "log",
           "probe"}

\* The shape of the state; and the costs kept are the last seven.
TypeOK ==
  /\ clock \in 1..Len(Days)
  /\ lock = None \/ lock \in [by : Processes, leg : {"register", "finalize"},
                              old : BOOLEAN]
  /\ \A i \in DOMAIN ledger :
       ledger[i].run \in Processes /\ ledger[i].status \in Statuses
  /\ baseline.state \in {"absent", "torn", "newer", "ok"}
  /\ Len(baseline.entries) <= BaselinesKept
  /\ pc \in [Processes -> Places]
  /\ leg \in [Processes -> {"register", "finalize"}]
  /\ tries \in [Processes -> 0..MaxTries]
  /\ exit \in [Processes -> {-1, 0, 1, 2}]
  /\ robbed \subseteq Processes /\ raced \in BOOLEAN

Ran(p) == pc[p] # "off" /\ job[p].kind = "run" /\ ~Turned(job[p])

\* However legs interleave, and whoever steals a lock, no run is listed twice
\* (the finalize leg finds its entry by its id, codex-companion.mjs:3339).
OneEntryPerRun ==
  \A i, k \in DOMAIN ledger : ledger[i].run = ledger[k].run => i = k

Registered(p) ==
  Ran(p) /\ (leg[p] = "finalize" \/ pc[p] \in {"release", "collect"})

\* Nothing but a lock taken from a live owner, after a kill or a sleep, can
\* lose an entry to another run's write; one that was finalized stays as its
\* run left it (the lost update the lock is there for,
\* codex-companion.mjs:3081).
LedgerKeeps ==
  faults = 0 \/ robbed = {} =>
    \A p \in Processes :
      /\ Registered(p) => \E i \in DOMAIN ledger : ledger[i].run = p
      /\ Ran(p) /\ exit[p] \in {0, 2} =>
           \E i \in DOMAIN ledger : ledger[i] = Entry(p)

Failed(w) == w.down \union (IF Torn(w) THEN {"telemetry"} ELSE {})

Good(s) == /\ s.answers /\ s.available /\ s.verified /\ s.ready
           /\ ~s.transient /\ ~s.stale /\ s.loggedIn = "yes"

\* The records of the sources that answered.
Owed == [j \in RunJobs |->
           UNION {RecordsOf(j.world, s, j.skipGhApi) :
                    s \in Sources \ Failed(j.world)}]

\* Every source is accounted for, whatever else the run did or another run
\* wrote that day: by its failure, in the digest and the exit code, or by its
\* records, of which the failure of another costs none; and a login that is
\* not good is told (safeCall, source-aggregator.mjs:343,
\* codex-companion.mjs:3298, digest-writer.mjs:213).
SourcesAccounted ==
  /\ \A p \in Processes :
       Ran(p) /\ exit[p] \in {0, 2} =>
         (exit[p] = 2) <=> (Failed(job[p].world) # {})
  /\ \A d \in DOMAIN digest :
       digest[d] # None =>
         LET j == job[digest[d].by]
         IN /\ digest[d].failures = Failed(j.world)
            /\ Owed[j] \subseteq digest[d].records
            /\ (digest[d].auth = "none") <=> Good(j.setup)

\* The fork research keeps to its budget (the list itself it always asks
\* for), and spends it on the forks with the most stars
\* (fork-research.mjs:271).
ForksWithinBudget ==
  \A p \in Processes :
    Ran(p) /\ out[p].calls > 0 =>
      LET forks == job[p].forks
          budget == job[p].budget
      IN /\ out[p].calls <= budget \/ out[p].calls = 1
         /\ \A k \in out[p].looked, i \in Eligible(forks) \ out[p].looked :
              forks[k].stars >= forks[i].stars

\* Unless one execution saved the cache over another's, a draft is not
\* proposed again within the seven days of its cache entry
\* (action-executor.mjs:142).
DraftedOnce ==
  raced \/ \A d, e \in drafts :
             d # e /\ d.key = e.key =>
               d.day - e.day >= CacheDays \/ e.day - d.day >= CacheDays

\* No weekly entry but a forced one follows the weekly entry before it by
\* less than a week, whatever was reviewed in between and however reviews
\* overlap (shouldFireWeekly, self-evolve-policy.mjs:200).
WeeklySpaced ==
  LET entries == log.entries
  IN \A i, k \in Weekly(entries) :
       /\ i < k /\ ~entries[k].forced
       /\ \A n \in Weekly(entries) : ~(i < n /\ n < k)
       => entries[k].day - entries[i].day >= WeeklyDays

\* What the cache and the log remember for a week keeps its distance.
WeekKept == DraftedOnce /\ WeeklySpaced

\* Every process that is started ends, whoever died with the lock
\* (two hundred attempts, codex-companion.mjs:3088).
RunsEnd == \A p \in Processes : Alive(p) ~> ~Alive(p)
============================================================================
