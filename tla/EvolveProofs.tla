---------------------------- MODULE EvolveProofs ----------------------------
(***************************************************************************)
(* Theorems about Evolve, for every number of processes and days, all plans *)
(* and limits, and any number of kills and of owners that outsleep their    *)
(* lock.                                                                    *)
(***************************************************************************)
EXTENDS Evolve, FiniteSetTheorems, SequenceTheorems, TLAPS

----------------------------------------------------------------------------
(* The inductive invariants.                                               *)

Legs  == {"register", "finalize"}
Kinds == {"run", "review", "act", "probe"}

OutFields == {"day", "records", "calls", "looked", "units", "status"}

Locks == [by : Processes, leg : Legs, old : BOOLEAN]

\* Where the processes are.
Moves ==
  /\ pc \in [Processes -> Places]
  /\ leg \in [Processes -> Legs]
  /\ tries \in [Processes -> 0..MaxTries]
  /\ DOMAIN seen = Processes
  /\ exit \in [Processes -> {-1, 0, 1, 2}]

\* What they found out.
Findings ==
  /\ DOMAIN out = Processes
  /\ \A p \in Processes :
       DOMAIN out[p] = OutFields /\ out[p].status \in Statuses

\* What they share, and what they are started for.
Setting ==
  /\ clock \in DOMAIN Days
  /\ \E plan \in Plans : job = plan.job
  /\ lock = None \/ lock \in Locks
  /\ faults \in Nat
  /\ robbed \subseteq Processes /\ raced \in BOOLEAN

Shape == Moves /\ Findings /\ Setting

RunPlaces == {"wait", "steal", "read", "write", "release", "collect",
              "charge", "digest"}

\* Each place belongs to the processes of one kind.
KindInv ==
  \A p \in Processes :
    /\ pc[p] \in RunPlaces => job[p].kind = "run" /\ ~Turned(job[p])
    /\ pc[p] \in {"load", "propose"} => job[p].kind = "act"
    /\ pc[p] \in {"review", "log"} => job[p].kind = "review"
    /\ pc[p] = "probe" => job[p].kind = "probe"
    /\ pc[p] = "off" => exit[p] = -1 /\ leg[p] = "register"
    /\ exit[p] # -1 => pc[p] = "done"
    /\ leg[p] = "finalize" => pc[p] \notin {"collect", "charge", "digest"}

\* A list of runs, with its elements for a range.
IsList(s) == s \in Seq({s[i] : i \in DOMAIN s})

Lists(s, p) == \E i \in DOMAIN s : s[i].run = p

OnceEach(s) == \A i, k \in DOMAIN s : s[i].run = s[k].run => i = k

RunList(s) ==
  /\ IsList(s) /\ OnceEach(s)
  /\ \A i \in DOMAIN s : s[i].run \in Processes /\ s[i].status \in Statuses

\* A run that has not registered.
Unregistered(p) ==
  leg[p] = "register" /\ pc[p] \in {"off", "wait", "steal", "read", "write"}

\* Every list of runs, the one in the file and those somebody may write, has
\* each run once, and no run before it registers.
ListInv ==
  /\ RunList(ledger)
  /\ \A q \in Processes : pc[q] = "write" => RunList(seen[q].runs)
  /\ \A p \in Processes : Unregistered(p) =>
       /\ ~Lists(ledger, p)
       /\ \A q \in Processes : pc[q] = "write" => ~Lists(seen[q].runs, p)

\* Without a fault no lock becomes old; and while no lock was taken from its
\* owner, who holds it is named by it.
LockInv ==
  /\ faults = 0 =>
       /\ robbed = {}
       /\ \A p \in Processes : pc[p] \notin {"steal", "dead"}
       /\ lock # None => ~lock.old /\ Holds(lock.by)
  /\ robbed = {} =>
       \A p \in Processes :
         Holds(p) => lock # None /\ lock.by = p /\ lock.leg = leg[p]

\* A run past its registration.
Entered(p) ==
  Ran(p) /\ (leg[p] = "finalize"
             \/ pc[p] \in {"release", "collect", "charge", "digest"})

\* A run that has finalized its entry.
Closed(p) ==
  \/ pc[p] = "release" /\ leg[p] = "finalize"
  \/ Ran(p) /\ exit[p] \in {0, 2}

\* While no lock was taken from its owner, what is written back is what is
\* there, and so the entries stay.
KeepInv ==
  robbed = {} =>
    /\ \A q \in Processes : pc[q] = "write" => seen[q].runs = ledger
    /\ \A p \in Processes :
         /\ Entered(p) => Lists(ledger, p)
         /\ Closed(p) => \E i \in DOMAIN ledger : ledger[i] = Entry(p)

\* The status a pipeline that did not throw ends with.
Ending(w) == IF Failed(w) = {} THEN "success" ELSE "partial"

Told(d) ==
  /\ d.by \in Processes /\ job[d.by].kind = "run"
  /\ LET j == job[d.by]
     IN /\ d.failures = Failed(j.world)
        /\ Owed[j] \subseteq d.records
        /\ (d.auth = "none") <=> Good(j.setup)

\* What a run knows of its sources is in its records, its status, its exit
\* code and the digests.
SourceInv ==
  /\ \A p \in Processes :
       /\ pc[p] \in {"charge", "digest"} =>
            Owed[job[p]] \subseteq out[p].records
       /\ Ran(p) /\ leg[p] = "finalize" =>
            out[p].status \in {"failure", Ending(job[p].world)}
       /\ Ran(p) /\ exit[p] \in {0, 2} =>
            (exit[p] = 2) <=> (Failed(job[p].world) # {})
  /\ \A d \in DOMAIN digest : digest[d] = None \/ Told(digest[d])

\* A run has looked at no fork, or at those its budget allows.
ForkInv ==
  \A p \in Processes : job[p].kind = "run" =>
    \/ out[p].calls = 0
    \/ /\ out[p].looked = Enriched(job[p].forks, job[p].budget)
       /\ out[p].calls = ApiCalls(job[p].forks, job[p].budget)

Spaced(entries) ==
  \A i, k \in Weekly(entries) :
    /\ i < k /\ ~entries[k].forced
    /\ \A n \in Weekly(entries) : ~(i < n /\ n < k)
    => entries[k].day - entries[i].day >= WeeklyDays

\* Every log somebody may write back keeps its distances, with the entry that
\* is to be appended.
LogInv ==
  /\ IsList(log.entries) /\ Spaced(log.entries)
  /\ \A p \in Processes : pc[p] = "log" =>
       /\ IsList(seen[p].entries) /\ Spaced(seen[p].entries)
       /\ job[p].force \/ Due(seen[p].entries, out[p].day)

\* A draft is in the cache for a week, unless executions overlapped.
Remembered(d) ==
  \/ Today - d.day >= CacheDays
  \/ /\ cache.state = "ok"
     /\ \E e \in cache.entries : e.key = d.key /\ e.day = d.day

CacheInv ==
  /\ \A d \in drafts : d.day \in Int /\ d.day <= Today
  /\ \A p \in Processes : pc[p] = "propose" =>
       /\ out[p].day = Today
       /\ seen[p].live = Live(Loaded(seen[p].read, {}), Today)
  /\ ~raced => DraftedOnce /\ \A d \in drafts : Remembered(d)

\* The costs kept, and those a run is about to charge to.
BaseInv ==
  /\ baseline.state \in {"absent", "torn", "newer", "ok"}
  /\ baseline.entries \in Seq(Nat)
  /\ Len(baseline.entries) <= BaselinesKept
  /\ \A p \in Processes : pc[p] = "charge" => seen[p].units \in Seq(Nat)

EvolveInv ==
  /\ Shape /\ KindInv /\ ListInv /\ LockInv /\ KeepInv /\ SourceInv
  /\ ForkInv /\ LogInv /\ CacheInv /\ BaseInv

----------------------------------------------------------------------------
(* The shape of the state, and the places of each kind of process.         *)

\* What the assumption on the plans says of a process's job.
LEMMA JobFacts ==
  ASSUME Shape, NEW p \in Processes
  PROVE  /\ job[p].kind \in Kinds
         /\ job[p].kind = "run" =>
              /\ job[p].budget \in Nat /\ ForkList(job[p].forks)
              /\ job[p] \in RunJobs
<1>1. PICK plan \in Plans : job = plan.job
  BY DEF Shape, Setting
<1>2. QED
  BY <1>1, PlansAssumption DEF Kinds, RunJobs

\* A lock is not the absence of one.
LEMMA LockIsThere ==
  ASSUME NEW p, NEW l, NEW o
  PROVE  [by |-> p, leg |-> l, old |-> o] # None
<1>1. DOMAIN None = {"none"}
  BY DEF None
<1>2. "by" \in DOMAIN [by |-> p, leg |-> l, old |-> o]
  OBVIOUS
<1>3. QED
  BY <1>1, <1>2

\* Ending and going on keep a process in its types.
LEMMA QuitMoves ==
  ASSUME Moves, NEW p \in Processes, NEW code \in {-1, 0, 1, 2},
         Quit(p, code)
  PROVE  /\ pc' \in [Processes -> Places]
         /\ tries' \in [Processes -> 0..MaxTries]
         /\ DOMAIN seen' = Processes
         /\ exit' \in [Processes -> {-1, 0, 1, 2}]
<1>1. 0 \in 0..MaxTries
  BY EvolveAssumption
<1>2. QED
  BY <1>1 DEF Quit, Goto, Moves, Places

LEMMA GotoMoves ==
  ASSUME Moves, NEW p \in Processes, NEW where \in Places, Goto(p, where)
  PROVE  pc' \in [Processes -> Places]
BY DEF Moves, Goto

LEMMA BeginsSomewhere ==
  ASSUME NEW j, j.kind \in Kinds
  PROVE  /\ Begins(j) = IF j.kind = "run" THEN "wait"
                        ELSE IF j.kind = "review" THEN "review"
                        ELSE IF j.kind = "act" THEN "load" ELSE "probe"
         /\ Begins(j) \in Places
<1>1. CASE j.kind = "run"
  BY <1>1 DEF Begins, Places
<1>2. CASE j.kind = "review"
  BY <1>2 DEF Begins, Places
<1>3. CASE j.kind = "act"
  BY <1>3 DEF Begins, Places
<1>4. CASE j.kind = "probe"
  BY <1>4 DEF Begins, Places
<1>5. QED
  BY <1>1, <1>2, <1>3, <1>4 DEF Kinds

LEMMA StepMoves ==
  ASSUME Shape, [Next]_vars
  PROVE  Moves'
<1> USE DEF Shape, Moves
<1>0. \A code \in {0, 1, 2} : code \in {-1, 0, 1, 2}
  OBVIOUS
<1>1. ASSUME NEW p \in Processes, Start(p)
      PROVE  Moves'
  <2>1. Begins(job[p]) \in Places
    BY JobFacts, BeginsSomewhere
  <2>2. CASE Turned(job[p])
    <3>1. Quit(p, IF Disabled(job[p]) THEN 0 ELSE 1) /\ UNCHANGED leg
      BY <1>1, <2>2 DEF Start
    <3>2. (IF Disabled(job[p]) THEN 0 ELSE 1) \in {-1, 0, 1, 2}
      OBVIOUS
    <3> HIDE DEF Moves
    <3>3. /\ pc' \in [Processes -> Places]
          /\ tries' \in [Processes -> 0..MaxTries]
          /\ DOMAIN seen' = Processes
          /\ exit' \in [Processes -> {-1, 0, 1, 2}]
      BY <3>1, <3>2, QuitMoves
    <3>4. QED
      BY <3>1, <3>3 DEF Moves
  <2>3. CASE ~Turned(job[p])
    BY <1>1, <2>1, <2>3 DEF Start, Goto
  <2>4. QED
    BY <2>2, <2>3
<1>2. ASSUME NEW p \in Processes, TryLock(p)
      PROVE  Moves'
  <2>1. Attempts(p) \in 0..MaxTries
    BY EvolveAssumption DEF Attempts
  <2>2. 0 \in 0..MaxTries
    BY EvolveAssumption
  <2>3. QED
    BY <1>2, <2>1, <2>2 DEF TryLock, Quit, Goto, Places
<1>3. ASSUME NEW p \in Processes, Steal(p)
      PROVE  Moves'
  <2>1. UNCHANGED leg
    BY <1>3 DEF Steal
  <2>2. CASE Quit(p, 1)
    BY <2>1, <2>2, QuitMoves
  <2>3. CASE Goto(p, "wait") /\ UNCHANGED <<tries, seen, exit>>
    BY <2>1, <2>3 DEF Goto, Places
  <2>4. QED
    BY <1>3, <2>2, <2>3 DEF Steal
<1>4. ASSUME NEW p \in Processes, ReadLedger(p)
      PROVE  Moves'
  BY <1>4 DEF ReadLedger, Goto, Places
<1>5. ASSUME NEW p \in Processes, WriteLedger(p)
      PROVE  Moves'
  BY <1>5 DEF WriteLedger, Goto, Places
<1>6. ASSUME NEW p \in Processes, Release(p)
      PROVE  Moves'
  <2>1. UNCHANGED leg
    BY <1>6 DEF Release
  <2>2. Code(out[p].status) \in {-1, 0, 1, 2}
    BY DEF Code
  <2>3. CASE Quit(p, Code(out[p].status))
    BY <2>1, <2>2, <2>3, QuitMoves
  <2>4. CASE Goto(p, "collect") /\ UNCHANGED <<tries, seen, exit>>
    BY <2>1, <2>4 DEF Goto, Places
  <2>5. QED
    BY <1>6, <2>3, <2>4 DEF Release
<1>7. ASSUME NEW p \in Processes, Collect(p)
      PROVE  Moves'
  <2>1. /\ UNCHANGED <<tries, exit>>
        /\ leg' = leg \/ leg' = [leg EXCEPT ![p] = "finalize"]
        /\ Goto(p, "wait") \/ Goto(p, "charge") \/ Goto(p, "digest")
        /\ DOMAIN seen' = Processes
    BY <1>7 DEF Collect
  <2>2. QED
    BY <2>1 DEF Goto, Places, Legs
<1>8. ASSUME NEW p \in Processes, Charge(p)
      PROVE  Moves'
  BY <1>8 DEF Charge, Goto, Places
<1>9. ASSUME NEW p \in Processes, Digest(p)
      PROVE  Moves'
  <2>1. /\ UNCHANGED <<tries, exit>>
        /\ leg' = [leg EXCEPT ![p] = "finalize"] /\ Goto(p, "wait")
        /\ DOMAIN seen' = Processes
    BY <1>9 DEF Digest, Finalize
  <2>2. QED
    BY <2>1 DEF Goto, Places, Legs
<1>10. ASSUME NEW p \in Processes,
              UNCHANGED leg,
              \/ \E code \in {0, 1} : Quit(p, code)
              \/ /\ Goto(p, "propose") \/ Goto(p, "log")
                 /\ UNCHANGED <<exit, tries>> /\ DOMAIN seen' = Processes
       PROVE  Moves'
  <2>1. CASE \E code \in {0, 1} : Quit(p, code)
    BY <1>10, <2>1, QuitMoves
  <2>2. CASE /\ Goto(p, "propose") \/ Goto(p, "log")
             /\ UNCHANGED <<exit, tries>> /\ DOMAIN seen' = Processes
    BY <1>10, <2>2 DEF Goto, Places
  <2>3. QED
    BY <1>10, <2>1, <2>2
<1>11. ASSUME NEW p \in Processes, LoadCache(p)
       PROVE  Moves'
  BY <1>10, <1>11 DEF LoadCache
<1>12. ASSUME NEW p \in Processes, Propose(p)
       PROVE  Moves'
  BY <1>10, <1>12 DEF Propose
<1>13. ASSUME NEW p \in Processes, Review(p)
       PROVE  Moves'
  BY <1>10, <1>13 DEF Review
<1>14. ASSUME NEW p \in Processes, SaveLog(p)
       PROVE  Moves'
  BY <1>10, <1>14 DEF SaveLog
<1>15. ASSUME NEW p \in Processes, Probe(p)
       PROVE  Moves'
  BY <1>10, <1>15 DEF Probe
<1>16. ASSUME NEW p \in Processes, Crash(p)
       PROVE  Moves'
  BY <1>16, EvolveAssumption DEF Crash, Goto, Places
<1>17. CASE Age \/ Tick \/ UNCHANGED vars
  BY <1>17 DEF Age, Tick, vars, local
<1>18. QED
  BY <1>1, <1>2, <1>3, <1>4, <1>5, <1>6, <1>7, <1>8, <1>9, <1>11, <1>12,
     <1>13, <1>14, <1>15, <1>16, <1>17 DEF Next, Step

\* a is b but for the fields in S.
SameBut(a, b, S) ==
  DOMAIN a = OutFields /\ \A f \in OutFields \ S : a[f] = b[f]

\* Only process p found something out.
OutOf(p) ==
  DOMAIN out' = Processes /\ \A q \in Processes \ {p} : out'[q] = out[q]

LEMMA DayOut ==
  ASSUME Findings, NEW p \in Processes, NEW d,
         out' = [out EXCEPT ![p].day = d]
  PROVE  OutOf(p) /\ SameBut(out'[p], out[p], {"day"}) /\ out'[p].day = d
BY DEF Findings, OutFields, SameBut, OutOf

LEMMA UnitsOut ==
  ASSUME Findings, NEW p \in Processes, NEW n,
         out' = [out EXCEPT ![p].units = n]
  PROVE  OutOf(p) /\ SameBut(out'[p], out[p], {"units"})
BY DEF Findings, OutFields, SameBut, OutOf

LEMMA StatusOut ==
  ASSUME Findings, NEW p \in Processes, NEW s, NEW n,
         \/ out' = [out EXCEPT ![p].status = s]
         \/ out' = [out EXCEPT ![p].status = s, ![p].units = n]
  PROVE  /\ OutOf(p) /\ SameBut(out'[p], out[p], {"status", "units"})
         /\ out'[p].status = s
BY DEF Findings, OutFields, SameBut, OutOf

LEMMA StartOut ==
  ASSUME Shape, NEW p \in Processes, Start(p)
  PROVE  /\ OutOf(p)
         /\ SameBut(out'[p], out[p], {"day"})
<1>1. CASE UNCHANGED out
  BY <1>1 DEF Shape, Findings, OutOf, SameBut
<1>2. CASE out' # out
  <2>1. \E d : out' = [out EXCEPT ![p].day = d]
    BY <1>2 DEF Start
  <2>2. QED
    BY <2>1, DayOut DEF Shape
<1>3. QED
  BY <1>1, <1>2

\* A command that is not a run takes the day.
LEMMA LoadOut ==
  ASSUME Shape, KindInv, NEW p \in Processes, LoadCache(p) \/ Review(p)
  PROVE  /\ OutOf(p) /\ SameBut(out'[p], out[p], {"day"})
         /\ out'[p].day = Today
<1>1. out' = [out EXCEPT ![p].day = Today]
  BY DEF LoadCache, Review
<1>2. QED
  BY <1>1, DayOut DEF Shape

LEMMA ChargeOut ==
  ASSUME Shape, KindInv, NEW p \in Processes, Charge(p)
  PROVE  OutOf(p) /\ SameBut(out'[p], out[p], {"units"})
<1>1. job[p].kind = "run"
  BY DEF KindInv, Charge, RunPlaces
<1>2. CASE UNCHANGED out
  BY <1>1, <1>2 DEF Shape, Findings, OutOf, SameBut
<1>3. CASE out' # out
  <2>1. out' = [out EXCEPT ![p].units = @ + TurnUnits]
    BY <1>3 DEF Charge
  <2>2. \E n : out' = [out EXCEPT ![p].units = n]
    BY <2>1
  <2>3. QED
    BY <1>1, <2>2, UnitsOut DEF Shape
<1>4. QED
  BY <1>2, <1>3

\* A digest that is written ends as its sources say.
LEMMA DigestOut ==
  ASSUME Shape, KindInv, NEW p \in Processes, Digest(p)
  PROVE  /\ OutOf(p) /\ SameBut(out'[p], out[p], {"status", "units"})
         /\ \/ out'[p].status = "failure" /\ UNCHANGED digest
            \/ /\ out'[p].status = Ending(job[p].world)
               /\ digest' = [digest EXCEPT ![out[p].day] =
                    [by |-> p, failures |-> Surfaced(job[p].world),
                     auth |-> HealthMessage(job[p].setup),
                     records |-> out[p].records]]
<1>1. job[p].kind = "run"
  BY DEF KindInv, Digest, RunPlaces
<1>2. CASE job[p].phase >= 4 /\ Refuses(cache)
  <2>1. out' = [out EXCEPT ![p].status = "failure"] /\ UNCHANGED digest
    BY <1>2 DEF Digest, Finalize
  <2>2. QED
    BY <1>1, <2>1, StatusOut DEF Shape
<1>3. CASE ~(job[p].phase >= 4 /\ Refuses(cache))
  <2> DEFINE s == IF Surfaced(job[p].world) = {} THEN "success" ELSE "partial"
  <2>1. s = Ending(job[p].world)
    BY DEF Ending, Surfaced, Failed, Errors
  <2>2. /\ \E n : out' = [out EXCEPT ![p].status = s, ![p].units = n]
        /\ digest' = [digest EXCEPT ![out[p].day] =
             [by |-> p, failures |-> Surfaced(job[p].world),
              auth |-> HealthMessage(job[p].setup),
              records |-> out[p].records]]
    BY <1>3 DEF Digest
  <2> HIDE DEF s
  <2>3. Findings
    BY <1>1 DEF Shape
  <2>4. PICK n : out' = [out EXCEPT ![p].status = s, ![p].units = n]
    BY <2>2
  <2>5. /\ OutOf(p) /\ SameBut(out'[p], out[p], {"status", "units"})
        /\ out'[p].status = s
    BY <2>3, <2>4, StatusOut
  <2>6. QED
    BY <2>1, <2>2, <2>5
<1>4. QED
  BY <1>2, <1>3

\* What a run has collected.
LEMMA CollectOut ==
  ASSUME Shape, KindInv, NEW p \in Processes, Collect(p)
  PROVE  /\ OutOf(p) /\ DOMAIN out'[p] = OutFields
         /\ out'[p].day = out[p].day
         /\ out'[p].records = Collected[job[p]].records
         /\ out'[p].looked = Collected[job[p]].looked
         /\ out'[p].calls = Collected[job[p]].calls
         /\ \/ /\ pc'[p] = "wait" /\ leg' = [leg EXCEPT ![p] = "finalize"]
               /\ out'[p].status = "failure"
            \/ /\ pc'[p] \in {"charge", "digest"} /\ UNCHANGED leg
               /\ out'[p].status = out[p].status
<1> DEFINE c == Collected[job[p]]
           found == [out[p] EXCEPT !.records = c.records, !.looked = c.looked,
                                   !.calls = c.calls, !.units = c.units]
<1>1. job[p].kind = "run"
  BY DEF KindInv, Collect, RunPlaces
<1>2. DOMAIN out[p] = OutFields
  BY <1>1 DEF Shape, Findings
<1>3. /\ DOMAIN found = OutFields
      /\ found.day = out[p].day /\ found.status = out[p].status
      /\ found.records = c.records /\ found.looked = c.looked
      /\ found.calls = c.calls
  <2> HIDE DEF c
  <2>1. QED
    BY <1>2 DEF OutFields
<1>4. /\ pc' = [pc EXCEPT ![p] = pc'[p]]
      /\ \/ /\ pc'[p] = "wait" /\ leg' = [leg EXCEPT ![p] = "finalize"]
            /\ out' = [out EXCEPT ![p] = [found EXCEPT !.status = "failure"]]
         \/ /\ pc'[p] \in {"charge", "digest"} /\ UNCHANGED leg
            /\ out' = [out EXCEPT ![p] = found]
  <2> HIDE DEF found
  <2>1. QED
    BY DEF Collect, Goto, Shape, Moves, found, c
<1>5. /\ DOMAIN [found EXCEPT !.status = "failure"] = OutFields
      /\ [found EXCEPT !.status = "failure"].day = found.day
      /\ [found EXCEPT !.status = "failure"].status = "failure"
      /\ [found EXCEPT !.status = "failure"].records = found.records
      /\ [found EXCEPT !.status = "failure"].looked = found.looked
      /\ [found EXCEPT !.status = "failure"].calls = found.calls
  <2> HIDE DEF found
  <2>1. QED
    BY <1>3 DEF OutFields
<1> DEFINE failed == [found EXCEPT !.status = "failure"]
<1>6. out' = [out EXCEPT ![p] = failed] \/ out' = [out EXCEPT ![p] = found]
  BY <1>4
<1> HIDE DEF failed, found
<1>7. OutOf(p)
  BY <1>6 DEF OutOf, Shape, Findings
<1>8. QED
  BY <1>3, <1>4, <1>5, <1>7 DEF Shape, Findings, failed

\* What each action leaves alone.
LEMMA Frames ==
  ASSUME NEW p
  PROVE  /\ Start(p) =>
              UNCHANGED <<clock, lock, ledger, baseline, cache, log, digest,
                          job, leg, robbed, raced, drafts, faults>>
         /\ TryLock(p) =>
              UNCHANGED <<clock, ledger, baseline, cache, log, digest, job, leg,
                          out, robbed, raced, drafts, faults>>
         /\ Steal(p) =>
              UNCHANGED <<clock, ledger, baseline, cache, log, digest, job, leg,
                          out, raced, drafts, faults>>
         /\ ReadLedger(p) =>
              UNCHANGED <<clock, lock, ledger, baseline, cache, log, digest,
                          job, leg, tries, out, exit, robbed, raced, drafts,
                          faults>>
         /\ WriteLedger(p) =>
              UNCHANGED <<clock, lock, baseline, cache, log, digest, job, leg,
                          tries, out, exit, robbed, raced, drafts, faults>>
         /\ Release(p) =>
              UNCHANGED <<clock, ledger, baseline, cache, log, digest, job, leg,
                          out, robbed, raced, drafts, faults>>
         /\ Collect(p) =>
              UNCHANGED <<clock, lock, ledger, baseline, cache, log, digest,
                          job, tries, exit, robbed, raced, drafts, faults>>
         /\ Charge(p) =>
              UNCHANGED <<clock, lock, ledger, cache, log, digest, job, leg,
                          tries, seen, exit, robbed, raced, drafts, faults>>
         /\ Digest(p) =>
              UNCHANGED <<clock, lock, ledger, baseline, cache, log, job, tries,
                          exit, robbed, raced, drafts, faults>>
         /\ LoadCache(p) =>
              UNCHANGED <<clock, lock, ledger, baseline, cache, log, digest,
                          job, leg, robbed, raced, drafts, faults>>
         /\ Propose(p) =>
              UNCHANGED <<clock, lock, ledger, baseline, log, digest, job, leg,
                          out, robbed, faults>>
         /\ Review(p) =>
              UNCHANGED <<clock, lock, ledger, baseline, cache, log, digest,
                          job, leg, robbed, raced, drafts, faults>>
         /\ SaveLog(p) =>
              UNCHANGED <<clock, lock, ledger, baseline, cache, digest, job,
                          leg, out, robbed, raced, drafts, faults>>
         /\ Probe(p) =>
              UNCHANGED <<clock, lock, ledger, baseline, cache, log, digest,
                          job, leg, out, robbed, raced, drafts, faults>>
         /\ Crash(p) =>
              UNCHANGED <<clock, lock, ledger, baseline, cache, log, digest,
                          job, leg, out, exit, robbed, raced, drafts>>
         /\ Age =>
              UNCHANGED <<clock, ledger, baseline, cache, log, digest, pc, job,
                          leg, tries, seen, out, exit, robbed, raced, drafts>>
         /\ Tick =>
              UNCHANGED <<lock, ledger, baseline, cache, log, digest, pc, job,
                          leg, tries, seen, out, exit, robbed, raced, drafts,
                          faults>>
BY DEF Start, TryLock, Steal, ReadLedger, WriteLedger, Release, Collect,
   Charge, Digest, LoadCache, Propose, Review, SaveLog, Probe, Crash, Age,
   Tick, shared, local, ghost

\* Who changes what.
LEMMA Changes ==
  ASSUME [Next]_vars
  PROVE  /\ UNCHANGED job
         /\ UNCHANGED clock \/ Tick
         /\ UNCHANGED faults \/ Age \/ \E p \in Processes : Crash(p)
         /\ UNCHANGED robbed \/ \E p \in Processes : Steal(p)
         /\ \/ UNCHANGED <<cache, raced, drafts>>
            \/ \E p \in Processes : Propose(p)
         /\ \/ UNCHANGED lock \/ Age
            \/ \E p \in Processes : TryLock(p) \/ Steal(p) \/ Release(p)
         /\ UNCHANGED ledger \/ \E p \in Processes : WriteLedger(p)
         /\ UNCHANGED log \/ \E p \in Processes : SaveLog(p)
         /\ UNCHANGED digest \/ \E p \in Processes : Digest(p)
         /\ UNCHANGED baseline \/ \E p \in Processes : Charge(p)
         /\ UNCHANGED leg \/ \E p \in Processes : Collect(p) \/ Digest(p)
         /\ \/ UNCHANGED out
            \/ \E p \in Processes :
                 \/ Start(p) \/ Collect(p) \/ Charge(p) \/ Digest(p)
                 \/ LoadCache(p) \/ Review(p)
BY Frames DEF Next, Step, vars, shared, local, ghost

LEMMA StepFindings ==
  ASSUME Shape, KindInv, [Next]_vars
  PROVE  Findings'
<1>1. UNCHANGED job
  BY Changes
<1>2. ASSUME NEW p \in Processes, OutOf(p),
             DOMAIN out'[p] = OutFields, out'[p].status \in Statuses
      PROVE  Findings'
  BY <1>1, <1>2 DEF OutOf, Shape, Findings
<1>3. ASSUME NEW p \in Processes, OutOf(p), NEW S,
             SameBut(out'[p], out[p], S), "status" \notin S
      PROVE  Findings'
  <2>1. DOMAIN out'[p] = OutFields /\ out'[p].status = out[p].status
    BY <1>3 DEF SameBut, OutFields
  <2>2. QED
    BY <1>2, <1>3, <2>1 DEF Shape, Findings
<1>4. ASSUME NEW p \in Processes, Start(p)
      PROVE  Findings'
  BY <1>3, <1>4, StartOut
<1>5. ASSUME NEW p \in Processes, Collect(p)
      PROVE  Findings'
  <2>1. out[p].status \in Statuses
    BY DEF Shape, Findings
  <2>2. QED
    BY <1>2, <1>5, <2>1, CollectOut DEF Statuses
<1>6. ASSUME NEW p \in Processes, Charge(p)
      PROVE  Findings'
  BY <1>3, <1>6, ChargeOut
<1>7. ASSUME NEW p \in Processes, Digest(p)
      PROVE  Findings'
  <2>1. DOMAIN out'[p] = OutFields /\ OutOf(p)
    BY <1>7, DigestOut DEF SameBut
  <2>2. out'[p].status \in Statuses
    BY <1>7, DigestOut DEF Statuses, Ending
  <2>3. QED
    BY <1>2, <2>1, <2>2
<1>8. ASSUME NEW p \in Processes, LoadCache(p) \/ Review(p)
      PROVE  Findings'
  BY <1>3, <1>8, LoadOut
<1>10. CASE UNCHANGED out
  BY <1>1, <1>10 DEF Shape, Findings
<1>11. QED
  BY <1>4, <1>5, <1>6, <1>7, <1>8, <1>10, Changes

LEMMA StepSetting ==
  ASSUME Shape, [Next]_vars
  PROVE  Setting'
<1>1. /\ clock' \in DOMAIN Days
      /\ \E plan \in Plans : job' = plan.job
  <2>1. UNCHANGED job
    BY Changes
  <2>2. UNCHANGED clock \/ Tick
    BY Changes
  <2>3. ASSUME Tick
        PROVE  clock' \in DOMAIN Days
    BY <2>3, EvolveAssumption DEF Tick, Shape, Setting
  <2>4. QED
    BY <2>1, <2>2, <2>3 DEF Shape, Setting
<1>2. lock' = None \/ lock' \in Locks
  <2>1. ASSUME NEW p \in Processes, TryLock(p)
        PROVE  lock' = lock \/ lock' \in Locks
    <3>1. Owner(p) \in Locks
      BY DEF Owner, Locks, Shape, Moves
    <3>2. QED
      BY <2>1, <3>1 DEF TryLock
  <2>2. ASSUME NEW p \in Processes, Steal(p) \/ Release(p)
        PROVE  lock' \in {None, lock}
    BY <2>2 DEF Steal, Release
  <2>3. ASSUME Age
        PROVE  lock' \in Locks
    <3>1. lock \in Locks /\ lock' = [lock EXCEPT !.old = TRUE]
      BY <2>3 DEF Age, Shape, Setting
    <3>2. QED
      BY <3>1 DEF Locks
  <2>4. \/ UNCHANGED lock \/ Age
        \/ \E p \in Processes : TryLock(p) \/ Steal(p) \/ Release(p)
    BY Changes
  <2>5. QED
    BY <2>1, <2>2, <2>3, <2>4 DEF Shape, Setting
<1>3. faults' \in Nat
  <2>1. UNCHANGED faults \/ faults' = faults + 1
    BY Changes DEF Crash, Age
  <2>2. QED
    BY <2>1 DEF Shape, Setting
<1>4. robbed' \subseteq Processes
  <2>1. \/ UNCHANGED robbed
        \/ \E p \in Processes : Steal(p)
    BY Changes
  <2>2. QED
    BY <2>1 DEF Steal, Shape, Setting
<1>5. raced' \in BOOLEAN
  <2>1. \/ UNCHANGED raced
        \/ \E p \in Processes : Propose(p)
    BY Changes
  <2>2. ASSUME NEW p \in Processes, Propose(p)
        PROVE  raced' \in BOOLEAN
    BY <2>2 DEF Propose, Shape, Setting
  <2>3. QED
    BY <2>1, <2>2 DEF Shape, Setting
<1>6. QED
  BY <1>1, <1>2, <1>3, <1>4, <1>5 DEF Setting

LEMMA StepShape ==
  ASSUME Shape, KindInv, [Next]_vars
  PROVE  Shape'
BY StepMoves, StepFindings, StepSetting DEF Shape

\* Ending and going on, process by process.
LEMMA QuitEffect ==
  ASSUME Shape, NEW p \in Processes, NEW c, Quit(p, c)
  PROVE  /\ pc'[p] = "done" /\ exit'[p] = c /\ seen'[p] = None
         /\ \A q \in Processes \ {p} :
              pc'[q] = pc[q] /\ exit'[q] = exit[q] /\ seen'[q] = seen[q]
BY DEF Quit, Goto, Shape, Moves

LEMMA GotoEffect ==
  ASSUME Shape, NEW p \in Processes, NEW where, Goto(p, where)
  PROVE  /\ pc'[p] = where
         /\ \A q \in Processes \ {p} : pc'[q] = pc[q]
BY DEF Goto, Shape, Moves

\* What a process does leaves where the others are.
LEMMA OthersStay ==
  ASSUME Shape, KindInv, NEW p \in Processes,
         Start(p) \/ Step(p) \/ Crash(p), NEW q \in Processes \ {p}
  PROVE  /\ pc'[q] = pc[q] /\ leg'[q] = leg[q] /\ exit'[q] = exit[q]
         /\ seen'[q] = seen[q] /\ out'[q] = out[q]
<1>1. out'[q] = out[q]
  <2>1. CASE Start(p)
    BY <2>1, StartOut DEF OutOf
  <2>2. CASE Collect(p)
    BY <2>2, CollectOut DEF OutOf
  <2>3. CASE Charge(p)
    BY <2>3, ChargeOut DEF OutOf
  <2>4. CASE Digest(p)
    BY <2>4, DigestOut DEF OutOf
  <2>5. CASE LoadCache(p) \/ Review(p)
    BY <2>5, LoadOut DEF OutOf
  <2>6. QED
    BY <2>1, <2>2, <2>3, <2>4, <2>5, Frames DEF Step
<1>2. \A c : Quit(p, c) =>
        pc'[q] = pc[q] /\ exit'[q] = exit[q] /\ seen'[q] = seen[q]
  BY QuitEffect
<1>3. \A w : Goto(p, w) => pc'[q] = pc[q]
  BY GotoEffect
<1>4. pc'[q] = pc[q] /\ exit'[q] = exit[q] /\ seen'[q] = seen[q]
  <2>1. CASE Start(p)
    BY <2>1, <1>2, <1>3 DEF Start
  <2>2. CASE TryLock(p)
    BY <2>2, <1>2, <1>3 DEF TryLock
  <2>3. CASE Steal(p)
    BY <2>3, <1>2, <1>3 DEF Steal
  <2>4. CASE ReadLedger(p) \/ WriteLedger(p)
    BY <2>4, <1>3 DEF ReadLedger, WriteLedger, Shape, Moves
  <2>5. CASE Release(p)
    BY <2>5, <1>2, <1>3 DEF Release
  <2>6. CASE Collect(p)
    <3>1. /\ Goto(p, "wait") \/ Goto(p, "charge") \/ Goto(p, "digest")
          /\ seen' = seen \/ \E v : seen' = [seen EXCEPT ![p] = v]
      BY <2>6 DEF Collect
    <3>2. QED
      BY <2>6, <1>3, <3>1, Frames DEF Shape, Moves
  <2>7. CASE Charge(p)
    BY <2>7, <1>3, Frames DEF Charge
  <2>8. CASE Digest(p)
    BY <2>8, <1>3, Frames DEF Digest, Finalize, Shape, Moves
  <2>9. CASE LoadCache(p)
    BY <2>9, <1>2, <1>3 DEF LoadCache, Shape, Moves
  <2>10. CASE Propose(p) \/ SaveLog(p) \/ Probe(p)
    BY <2>10, <1>2 DEF Propose, SaveLog, Probe
  <2>11. CASE Review(p)
    BY <2>11, <1>2, <1>3 DEF Review, Shape, Moves
  <2>12. CASE Crash(p)
    BY <2>12, <1>3 DEF Crash, Shape, Moves
  <2>13. QED
    BY <2>1, <2>2, <2>3, <2>4, <2>5, <2>6, <2>7, <2>8, <2>9, <2>10, <2>11,
       <2>12 DEF Step
<1>5. leg'[q] = leg[q]
  <2>1. CASE Collect(p)
    BY <2>1, CollectOut DEF Shape, Moves
  <2>2. CASE Digest(p)
    BY <2>2 DEF Digest, Finalize, Shape, Moves
  <2>3. QED
    BY <2>1, <2>2, Frames DEF Step
<1>6. QED
  BY <1>1, <1>4, <1>5

\* Nothing else moves a process.
LEMMA WhoSteps ==
  ASSUME [Next]_vars
  PROVE  \/ \E p \in Processes : Start(p) \/ Step(p) \/ Crash(p)
         \/ UNCHANGED <<pc, leg, tries, seen, out, exit>>
BY Frames DEF Next, vars, local

\* Where each action takes its process.
LEMMA OwnMoves ==
  ASSUME Shape, NEW p \in Processes
  PROVE  /\ Start(p) =>
              /\ pc[p] = "off"
              /\ \/ pc'[p] = "done" /\ Turned(job[p])
                 \/ /\ pc'[p] = Begins(job[p]) /\ ~Turned(job[p])
                    /\ exit' = exit
         /\ TryLock(p) =>
              /\ pc[p] = "wait"
              /\ \/ pc'[p] = "read" /\ lock = None /\ lock' = Owner(p)
                 \/ lock # None /\ lock' = lock /\ pc'[p] = "wait"
                 \/ lock # None /\ lock' = lock /\ pc'[p] = "steal" /\ lock.old
                 \/ /\ lock # None /\ lock' = lock
                    /\ pc'[p] = "done" /\ exit'[p] = 1
              /\ pc'[p] = "done" \/ exit' = exit
         /\ Steal(p) =>
              /\ pc[p] = "steal"
              /\ \/ pc'[p] = "wait" /\ exit' = exit
                 \/ pc'[p] = "done" /\ exit'[p] = 1
         /\ ReadLedger(p) =>
              pc[p] = "read" /\ pc'[p] = "write" /\ seen'[p].runs = ledger
         /\ WriteLedger(p) => pc[p] = "write" /\ pc'[p] = "release"
         /\ Release(p) =>
              /\ pc[p] = "release"
              /\ \/ /\ pc'[p] = "collect" /\ leg[p] = "register"
                    /\ exit' = exit
                 \/ /\ pc'[p] = "done" /\ leg[p] # "register"
                    /\ exit'[p] = Code(out[p].status)
         /\ Collect(p) =>
              /\ pc[p] = "collect"
              /\ \/ pc'[p] = "wait" /\ leg'[p] = "finalize"
                 \/ pc'[p] \in {"charge", "digest"} /\ leg' = leg
         /\ Charge(p) => pc[p] = "charge" /\ pc'[p] = "digest"
         /\ Digest(p) =>
              pc[p] = "digest" /\ pc'[p] = "wait" /\ leg'[p] = "finalize"
         /\ LoadCache(p) =>
              /\ pc[p] = "load"
              /\ (pc'[p] = "propose" /\ exit' = exit) \/ pc'[p] = "done"
         /\ Propose(p) => pc[p] = "propose" /\ pc'[p] = "done"
         /\ Review(p) =>
              /\ pc[p] = "review"
              /\ (pc'[p] = "log" /\ exit' = exit) \/ pc'[p] = "done"
         /\ SaveLog(p) => pc[p] = "log" /\ pc'[p] = "done"
         /\ Probe(p) => pc[p] = "probe" /\ pc'[p] = "done"
         /\ Crash(p) => Alive(p) /\ pc'[p] = "dead"
<1>1. \A c : Quit(p, c) => pc'[p] = "done" /\ exit'[p] = c
  BY QuitEffect
<1>2. \A w : Goto(p, w) => pc'[p] = w
  BY GotoEffect
<1>3. ASSUME Start(p)
      PROVE  /\ pc[p] = "off"
             /\ \/ pc'[p] = "done" /\ Turned(job[p])
                \/ /\ pc'[p] = Begins(job[p]) /\ ~Turned(job[p])
                   /\ exit' = exit
  BY <1>1, <1>2, <1>3 DEF Start
<1>4. ASSUME TryLock(p)
      PROVE  /\ pc[p] = "wait"
             /\ \/ pc'[p] = "read" /\ lock = None /\ lock' = Owner(p)
                \/ lock # None /\ lock' = lock /\ pc'[p] = "wait"
                \/ lock # None /\ lock' = lock /\ pc'[p] = "steal" /\ lock.old
                \/ /\ lock # None /\ lock' = lock
                   /\ pc'[p] = "done" /\ exit'[p] = 1
             /\ pc'[p] = "done" \/ exit' = exit
  <2>1. CASE lock = None
    BY <1>2, <1>4, <2>1 DEF TryLock
  <2>2. CASE lock # None /\ Quit(p, 1) /\ lock' = lock
    BY <1>1, <1>4, <2>2 DEF TryLock
  <2>3. CASE /\ lock # None /\ lock' = lock /\ exit' = exit
             /\ Goto(p, IF Stale(lock) THEN "steal" ELSE "wait")
    BY <1>2, <1>4, <2>3 DEF TryLock, Stale
  <2>4. QED
    BY <1>4, <2>1, <2>2, <2>3 DEF TryLock
<1>5. ASSUME Steal(p)
      PROVE  /\ pc[p] = "steal"
             /\ \/ pc'[p] = "wait" /\ exit' = exit
                \/ pc'[p] = "done" /\ exit'[p] = 1
  BY <1>1, <1>2, <1>5 DEF Steal
<1>6. ASSUME Release(p)
      PROVE  /\ pc[p] = "release"
             /\ \/ /\ pc'[p] = "collect" /\ leg[p] = "register"
                   /\ exit' = exit
                \/ /\ pc'[p] = "done" /\ leg[p] # "register"
                   /\ exit'[p] = Code(out[p].status)
  BY <1>1, <1>2, <1>6 DEF Release
<1>7. ReadLedger(p) =>
        pc[p] = "read" /\ pc'[p] = "write" /\ seen'[p].runs = ledger
  BY <1>2 DEF ReadLedger, Shape, Moves
<1>8. ASSUME Collect(p)
      PROVE  /\ pc[p] = "collect"
             /\ \/ pc'[p] = "wait" /\ leg'[p] = "finalize"
                \/ pc'[p] \in {"charge", "digest"} /\ leg' = leg
  <2>1. /\ pc[p] = "collect"
        /\ \/ Goto(p, "wait") /\ leg' = [leg EXCEPT ![p] = "finalize"]
           \/ (Goto(p, "charge") \/ Goto(p, "digest")) /\ leg' = leg
    BY <1>8 DEF Collect
  <2>2. QED
    BY <1>2, <2>1 DEF Shape, Moves
<1>9. ASSUME Digest(p)
      PROVE  pc[p] = "digest" /\ pc'[p] = "wait" /\ leg'[p] = "finalize"
  <2>1. /\ pc[p] = "digest" /\ Goto(p, "wait")
        /\ leg' = [leg EXCEPT ![p] = "finalize"]
    BY <1>9 DEF Digest, Finalize
  <2>2. QED
    BY <1>2, <2>1 DEF Shape, Moves
<1>10. LoadCache(p) =>
         /\ pc[p] = "load"
         /\ (pc'[p] = "propose" /\ exit' = exit) \/ pc'[p] = "done"
  BY <1>1, <1>2 DEF LoadCache
<1>11. Review(p) =>
         /\ pc[p] = "review"
         /\ (pc'[p] = "log" /\ exit' = exit) \/ pc'[p] = "done"
  BY <1>1, <1>2 DEF Review
<1>12. /\ WriteLedger(p) => pc[p] = "write" /\ pc'[p] = "release"
       /\ Charge(p) => pc[p] = "charge" /\ pc'[p] = "digest"
       /\ Crash(p) => Alive(p) /\ pc'[p] = "dead"
  BY <1>2 DEF WriteLedger, Charge, Crash
<1>13. /\ Propose(p) => pc[p] = "propose" /\ pc'[p] = "done"
       /\ SaveLog(p) => pc[p] = "log" /\ pc'[p] = "done"
       /\ Probe(p) => pc[p] = "probe" /\ pc'[p] = "done"
  BY <1>1 DEF Propose, SaveLog, Probe
<1>14. QED
  BY <1>3, <1>4, <1>5, <1>6, <1>7, <1>8, <1>9, <1>10, <1>11, <1>12, <1>13

LEMMA StepKind ==
  ASSUME Shape, KindInv, [Next]_vars
  PROVE  KindInv'
<1>1. UNCHANGED job
  BY Changes
<1>2. ASSUME NEW p \in Processes, Start(p) \/ Step(p) \/ Crash(p)
      PROVE  KindInv'
  <2>1. \A q \in Processes \ {p} :
          pc'[q] = pc[q] /\ leg'[q] = leg[q] /\ exit'[q] = exit[q]
    BY <1>2, OthersStay
  <2> DEFINE Fits ==
        /\ pc'[p] \in RunPlaces => job[p].kind = "run" /\ ~Turned(job[p])
        /\ pc'[p] \in {"load", "propose"} => job[p].kind = "act"
        /\ pc'[p] \in {"review", "log"} => job[p].kind = "review"
        /\ pc'[p] = "probe" => job[p].kind = "probe"
        /\ pc'[p] # "off"
        /\ exit'[p] # -1 => pc'[p] = "done"
        /\ leg'[p] = "finalize" => pc'[p] \notin {"collect", "charge", "digest"}
  <2>2. ASSUME Start(p)
        PROVE  Fits
    <3>1. job[p].kind \in Kinds
      BY JobFacts
    <3>2. UNCHANGED leg /\ leg[p] = "register" /\ exit[p] = -1
      BY <2>2, Frames DEF KindInv, Start
    <3>3. CASE pc'[p] = "done"
      BY <3>2, <3>3 DEF RunPlaces
    <3>4. CASE /\ pc'[p] = Begins(job[p]) /\ ~Turned(job[p])
               /\ exit' = exit
      BY <3>1, <3>2, <3>4, BeginsSomewhere DEF RunPlaces, Kinds
    <3>5. QED
      BY <2>2, <3>3, <3>4, OwnMoves
  <2>3. ASSUME Step(p) \/ Crash(p)
        PROVE  Fits
    <3>1. CASE pc'[p] \in {"done", "dead"}
      <4>1. CASE Crash(p)
        BY <4>1, OwnMoves, Frames DEF KindInv, Alive, RunPlaces
      <4>2. CASE ~Crash(p)
        BY <2>3, <4>2, <3>1, OwnMoves DEF RunPlaces, Step
      <4>3. QED
        BY <4>1, <4>2
    <3>2. CASE TryLock(p) \/ Steal(p)
      BY <3>1, <3>2, OwnMoves, Frames DEF RunPlaces, KindInv
    <3>3. CASE ReadLedger(p) \/ WriteLedger(p)
      BY <3>3, OwnMoves, Frames DEF RunPlaces, KindInv
    <3>4. CASE Release(p)
      BY <3>1, <3>4, OwnMoves, Frames DEF RunPlaces, KindInv
    <3>5. CASE Collect(p) \/ Charge(p) \/ Digest(p)
      BY <3>5, OwnMoves, Frames DEF RunPlaces, KindInv
    <3>6. CASE LoadCache(p) \/ Propose(p) \/ Review(p) \/ SaveLog(p) \/ Probe(p)
      BY <3>1, <3>6, OwnMoves, Frames DEF RunPlaces, KindInv
    <3>7. CASE Crash(p)
      BY <3>1, <3>7, OwnMoves
    <3>8. QED
      BY <2>3, <3>2, <3>3, <3>4, <3>5, <3>6, <3>7 DEF Step
  <2>4. Fits
    BY <1>2, <2>2, <2>3
  <2> HIDE DEF Fits
  <2>5. ASSUME NEW q \in Processes
        PROVE  /\ pc'[q] \in RunPlaces => job[q].kind = "run" /\ ~Turned(job[q])
               /\ pc'[q] \in {"load", "propose"} => job[q].kind = "act"
               /\ pc'[q] \in {"review", "log"} => job[q].kind = "review"
               /\ pc'[q] = "probe" => job[q].kind = "probe"
               /\ pc'[q] = "off" => exit'[q] = -1 /\ leg'[q] = "register"
               /\ exit'[q] # -1 => pc'[q] = "done"
               /\ leg'[q] = "finalize" =>
                    pc'[q] \notin {"collect", "charge", "digest"}
    <3>1. CASE q = p
      BY <2>4, <3>1 DEF Fits
    <3>2. CASE q # p
      BY <2>1, <3>2 DEF KindInv
    <3>3. QED
      BY <3>1, <3>2
  <2>6. QED
    BY <1>1, <2>5 DEF KindInv
<1>3. CASE UNCHANGED <<pc, leg, tries, seen, out, exit>>
  BY <1>1, <1>3 DEF KindInv
<1>4. QED
  BY <1>2, <1>3, WhoSteps

----------------------------------------------------------------------------
(* Lists.                                                                  *)

LEMMA SequencesAreLists ==
  ASSUME NEW S, NEW s \in Seq(S)
  PROVE  IsList(s) /\ DOMAIN s = 1..Len(s) /\ Len(s) \in Nat
<1>1. s \in [1..Len(s) -> {s[i] : i \in DOMAIN s}] /\ Len(s) \in Nat
  OBVIOUS
<1>2. QED
  BY <1>1 DEF IsList

LEMMA ListDomain ==
  ASSUME NEW s, IsList(s)
  PROVE  DOMAIN s = 1..Len(s) /\ Len(s) \in Nat
BY SequencesAreLists DEF IsList

LEMMA AppendedList ==
  ASSUME NEW s, IsList(s), NEW e
  PROVE  /\ IsList(Append(s, e))
         /\ Len(Append(s, e)) = Len(s) + 1
         /\ DOMAIN Append(s, e) = 1..(Len(s) + 1)
         /\ \A i \in 1..Len(s) : Append(s, e)[i] = s[i]
         /\ Append(s, e)[Len(s) + 1] = e
<1> DEFINE S == {s[i] : i \in DOMAIN s} \cup {e}
<1>1. s \in Seq(S) /\ e \in S
  BY DEF IsList
<1> HIDE DEF S
<1>2. Append(s, e) \in Seq(S)
  BY <1>1
<1>3. /\ Len(Append(s, e)) = Len(s) + 1
      /\ \A i \in 1..Len(s) : Append(s, e)[i] = s[i]
      /\ Append(s, e)[Len(s) + 1] = e
  BY <1>1
<1>4. QED
  BY <1>2, <1>3, SequencesAreLists

LEMMA MappedList ==
  ASSUME NEW s, IsList(s), NEW t, t = [i \in DOMAIN s |-> t[i]]
  PROVE  IsList(t)
<1> DEFINE S == {t[i] : i \in DOMAIN s}
<1>1. DOMAIN s = 1..Len(s) /\ Len(s) \in Nat
  BY ListDomain
<1>2. t \in [1..Len(s) -> S]
  BY <1>1
<1> HIDE DEF S
<1>3. t \in Seq(S)
  BY <1>1, <1>2
<1>4. QED
  BY <1>3, SequencesAreLists

\* t is the list s with the entry of p, new or in the place of its old one.
Enlists(s, t, p) ==
  /\ RunList(t)
  /\ \E k \in DOMAIN t : t[k] = Entry(p)
  /\ \A i \in DOMAIN s : s[i].run # p => \E k \in DOMAIN t : t[k] = s[i]
  /\ \A q \in Processes \ {p} : Lists(t, q) => Lists(s, q)

LEMMA AppendEnlists ==
  ASSUME NEW s, RunList(s), NEW p \in Processes, out[p].status \in Statuses,
         ~Lists(s, p)
  PROVE  Enlists(s, Append(s, Entry(p)), p)
<1> DEFINE t == Append(s, Entry(p))
           n == Len(s)
<1>1. /\ IsList(s) /\ DOMAIN s = 1..n /\ n \in Nat
      /\ IsList(t) /\ DOMAIN t = 1..(n + 1)
      /\ \A i \in 1..n : t[i] = s[i]
      /\ t[n + 1] = Entry(p)
  BY ListDomain, AppendedList DEF RunList
<1>2. Entry(p).run = p /\ Entry(p).status \in Statuses
  BY DEF Entry
<1>3. \A i \in 1..n : s[i].run # p
  BY <1>1 DEF Lists
<1> HIDE DEF t, n
<1>4. RunList(t)
  <2>1. OnceEach(t)
    BY <1>1, <1>2, <1>3 DEF OnceEach, RunList
  <2>2. \A i \in DOMAIN t : t[i].run \in Processes /\ t[i].status \in Statuses
    BY <1>1, <1>2 DEF RunList
  <2>3. QED
    BY <1>1, <2>1, <2>2 DEF RunList
<1>5. \A q \in Processes \ {p} : Lists(t, q) => Lists(s, q)
  BY <1>1, <1>2 DEF Lists
<1>6. \A i \in DOMAIN s : \E k \in DOMAIN t : t[k] = s[i]
  BY <1>1
<1>7. QED
  BY <1>1, <1>4, <1>5, <1>6 DEF Enlists, t

LEMMA FinalizedEnlists ==
  ASSUME NEW s, RunList(s), NEW p \in Processes, out[p].status \in Statuses
  PROVE  Enlists(s, Finalized(s, p), p)
<1>1. CASE ~Lists(s, p)
  BY <1>1, AppendEnlists DEF Finalized, Lists
<1>2. CASE Lists(s, p)
  <2> DEFINE t == [i \in DOMAIN s |-> IF s[i].run = p THEN Entry(p) ELSE s[i]]
  <2>1. Finalized(s, p) = t
    BY <1>2 DEF Finalized, Lists
  <2>2. Entry(p).run = p /\ Entry(p).status \in Statuses
    BY DEF Entry
  <2>3. /\ DOMAIN t = DOMAIN s
        /\ \A i \in DOMAIN s :
             IF s[i].run = p THEN t[i] = Entry(p) ELSE t[i] = s[i]
    OBVIOUS
  <2>4. IsList(t)
    BY MappedList DEF RunList
  <2> HIDE DEF t
  <2>5. RunList(t)
    <3>1. \A i \in DOMAIN t : t[i].run = s[i].run
      BY <2>2, <2>3
    <3>2. QED
      BY <2>2, <2>3, <2>4, <3>1 DEF RunList, OnceEach
  <2>6. \E k \in DOMAIN t : t[k] = Entry(p)
    BY <1>2, <2>3 DEF Lists
  <2>7. \A q \in Processes \ {p} : Lists(t, q) => Lists(s, q)
    BY <2>2, <2>3 DEF Lists
  <2>8. QED
    BY <2>1, <2>3, <2>5, <2>6, <2>7 DEF Enlists
<1>3. QED
  BY <1>1, <1>2

----------------------------------------------------------------------------
(* The ledger.                                                             *)

\* What a write makes of the list that was read.
LEMMA WriteEnlists ==
  ASSUME Shape, KindInv, ListInv, NEW p \in Processes, WriteLedger(p)
  PROVE  /\ pc[p] = "write" /\ RunList(seen[p].runs)
         /\ Enlists(seen[p].runs, ledger', p)
<1>1. pc[p] = "write"
  BY DEF WriteLedger
<1>2. out[p].status \in Statuses
  BY <1>1 DEF KindInv, Shape, Findings, RunPlaces
<1>3. RunList(seen[p].runs)
  BY <1>1 DEF ListInv
<1>4. CASE leg[p] = "register"
  <2>1. ~Lists(seen[p].runs, p)
    BY <1>1, <1>4 DEF ListInv, Unregistered
  <2>2. ledger' = Append(seen[p].runs, Entry(p))
    BY <1>4 DEF WriteLedger
  <2>3. QED
    BY <1>1, <1>2, <1>3, <2>1, <2>2, AppendEnlists
<1>5. CASE leg[p] # "register"
  <2>1. ledger' = Finalized(seen[p].runs, p)
    BY <1>5 DEF WriteLedger
  <2>2. QED
    BY <1>1, <1>2, <1>3, <2>1, FinalizedEnlists
<1>6. QED
  BY <1>4, <1>5

\* Who is about to write has just read the ledger.
LEMMA WritersRead ==
  ASSUME Shape, KindInv, NEW p \in Processes, Start(p) \/ Step(p) \/ Crash(p),
         pc'[p] = "write"
  PROVE  seen'[p].runs = ledger
<1>1. CASE ReadLedger(p)
  BY <1>1, OwnMoves
<1>2. CASE Start(p)
  <2>1. Begins(job[p]) # "write"
    BY JobFacts, BeginsSomewhere
  <2>2. QED
    BY <1>2, <2>1, OwnMoves
<1>3. CASE ~ReadLedger(p) /\ ~Start(p)
  BY <1>3, OwnMoves DEF Step
<1>4. QED
  BY <1>1, <1>2, <1>3

LEMMA StepList ==
  ASSUME Shape, KindInv, ListInv, [Next]_vars
  PROVE  ListInv'
<1>1. ASSUME NEW p \in Processes, WriteLedger(p)
      PROVE  ListInv'
  <2>1. /\ RunList(seen[p].runs) /\ pc[p] = "write"
        /\ Enlists(seen[p].runs, ledger', p)
    BY <1>1, WriteEnlists
  <2>2. pc'[p] = "release"
    BY <1>1, OwnMoves
  <2>3. \A q \in Processes \ {p} :
          pc'[q] = pc[q] /\ leg'[q] = leg[q] /\ seen'[q] = seen[q]
    BY <1>1, OthersStay DEF Step
  <2>4. RunList(ledger)'
    BY <2>1 DEF Enlists, RunList, IsList, OnceEach
  <2>5. \A q \in Processes : pc'[q] = "write" => RunList(seen'[q].runs)
    BY <2>2, <2>3 DEF ListInv
  <2>6. ASSUME NEW q \in Processes, Unregistered(q)'
        PROVE  /\ ~Lists(ledger', q)
               /\ \A r \in Processes : pc'[r] = "write" =>
                    ~Lists(seen'[r].runs, q)
    <3>1. q # p /\ Unregistered(q)
      BY <2>2, <2>3, <2>6 DEF Unregistered
    <3>2. QED
      BY <2>1, <2>2, <2>3, <3>1 DEF ListInv, Enlists
  <2>7. QED
    BY <2>4, <2>5, <2>6 DEF ListInv, RunList, IsList, OnceEach, Lists
<1>2. ASSUME NEW p \in Processes, Start(p) \/ Step(p) \/ Crash(p),
             ~WriteLedger(p)
      PROVE  ListInv'
  <2>1. UNCHANGED ledger
    BY <1>2, Frames DEF Step
  <2>2. \A q \in Processes \ {p} :
          pc'[q] = pc[q] /\ leg'[q] = leg[q] /\ seen'[q] = seen[q]
    BY <1>2, OthersStay
  <2>3. pc'[p] = "write" => seen'[p].runs = ledger
    BY <1>2, WritersRead
  <2>4. Unregistered(p)' => Unregistered(p)
    <3>1. CASE Start(p)
      BY <3>1, OwnMoves, Frames DEF Unregistered, KindInv
    <3>2. CASE Collect(p) \/ Digest(p)
      BY <3>2, OwnMoves DEF Unregistered
    <3>3. CASE ~Start(p) /\ ~Collect(p) /\ ~Digest(p)
      BY <1>2, <3>3, OwnMoves, Frames DEF Unregistered, Step
    <3>4. QED
      BY <3>1, <3>2, <3>3
  <2>5. \A q \in Processes : Unregistered(q)' => Unregistered(q)
    BY <2>2, <2>4 DEF Unregistered
  <2>6. \A q \in Processes : pc'[q] = "write" =>
          \/ seen'[q].runs = ledger
          \/ pc[q] = "write" /\ seen'[q].runs = seen[q].runs
    BY <2>2, <2>3
  <2>7. RunList(ledger)'
    BY <2>1 DEF ListInv, RunList, IsList, OnceEach
  <2>8. \A q \in Processes : pc'[q] = "write" => RunList(seen'[q].runs)
    BY <2>6 DEF ListInv
  <2>9. ASSUME NEW q \in Processes, Unregistered(q)'
        PROVE  /\ ~Lists(ledger', q)
               /\ \A r \in Processes : pc'[r] = "write" =>
                    ~Lists(seen'[r].runs, q)
    BY <2>1, <2>5, <2>6, <2>9 DEF ListInv
  <2>10. QED
    BY <2>7, <2>8, <2>9 DEF ListInv, RunList, IsList, OnceEach, Lists
<1>3. CASE UNCHANGED <<pc, leg, tries, seen, out, exit>>
  <2>1. UNCHANGED ledger
    BY <1>1, <1>3, OwnMoves, Changes
  <2>2. RunList(ledger)'
    BY <2>1 DEF ListInv, RunList, IsList, OnceEach
  <2>3. \A q \in Processes : pc'[q] = "write" => RunList(seen'[q].runs)
    BY <1>3 DEF ListInv
  <2>4. ASSUME NEW q \in Processes, Unregistered(q)'
        PROVE  /\ ~Lists(ledger', q)
               /\ \A r \in Processes : pc'[r] = "write" =>
                    ~Lists(seen'[r].runs, q)
    BY <1>3, <2>1, <2>4 DEF ListInv, Unregistered
  <2>5. QED
    BY <2>2, <2>3, <2>4 DEF ListInv, RunList, IsList, OnceEach, Lists
<1>4. QED
  BY <1>1, <1>2, <1>3, WhoSteps

LEMMA LockFields ==
  ASSUME Shape, lock # None
  PROVE  lock \in Locks /\ lock.by \in Processes /\ lock.leg \in Legs
BY DEF Shape, Setting, Locks

LEMMA OwnerFields ==
  ASSUME NEW p
  PROVE  /\ Owner(p).by = p /\ Owner(p).leg = leg[p] /\ Owner(p).old = FALSE
         /\ Owner(p) # None
BY LockIsThere DEF Owner

\* Who holds the lock got it, or goes on with it.
LEMMA HoldersStay ==
  ASSUME Shape, KindInv, NEW p \in Processes, Start(p) \/ Step(p) \/ Crash(p)
  PROVE  /\ \A q \in Processes \ {p} : Holds(q)' = Holds(q)
         /\ Holds(p)' =>
              \/ TryLock(p) /\ lock = None /\ lock' = Owner(p)
              \/ Holds(p) /\ (ReadLedger(p) \/ WriteLedger(p))
         /\ Holds(p) =>
              ReadLedger(p) \/ WriteLedger(p) \/ Release(p) \/ Crash(p)
<1>1. \A q \in Processes \ {p} : Holds(q)' = Holds(q)
  BY OthersStay DEF Holds
<1>2. Holds(p)' =>
        \/ TryLock(p) /\ lock = None /\ lock' = Owner(p)
        \/ Holds(p) /\ (ReadLedger(p) \/ WriteLedger(p))
  <2>1. CASE Start(p)
    <3>1. pc'[p] \in {"done", "wait", "review", "load", "probe"}
      BY <2>1, OwnMoves, JobFacts, BeginsSomewhere
    <3>2. QED
      BY <3>1 DEF Holds
  <2>2. CASE ~Start(p)
    BY <2>2, OwnMoves DEF Holds, Step
  <2>3. QED
    BY <2>1, <2>2
<1>3. Holds(p) => ReadLedger(p) \/ WriteLedger(p) \/ Release(p) \/ Crash(p)
  BY OwnMoves DEF Holds, Step
<1>4. QED
  BY <1>1, <1>2, <1>3

\* While nobody was robbed, a holder is who the lock names.
LEMMA StepHolds ==
  ASSUME Shape, KindInv, LockInv, [Next]_vars, robbed' = {},
         NEW q \in Processes, Holds(q)'
  PROVE  lock' # None /\ lock'.by = q /\ lock'.leg = leg'[q]
<1>1. robbed = {}
  <2>1. ASSUME NEW p \in Processes, Steal(p)
        PROVE  robbed = {}
    BY <2>1 DEF Steal
  <2>2. QED
    BY <2>1, Changes
<1>2. \A r \in Processes :
        Holds(r) => lock # None /\ lock.by = r /\ lock.leg = leg[r]
  BY <1>1 DEF LockInv
<1>3. ASSUME NEW p \in Processes, Start(p) \/ Step(p) \/ Crash(p), q = p
      PROVE  lock' # None /\ lock'.by = q /\ lock'.leg = leg'[q]
  <2>1. CASE TryLock(p) /\ lock' = Owner(p)
    BY <1>3, <2>1, OwnerFields, Frames
  <2>2. CASE Holds(p) /\ (ReadLedger(p) \/ WriteLedger(p))
    BY <1>2, <1>3, <2>2, Frames
  <2>3. QED
    BY <1>3, <2>1, <2>2, HoldersStay
<1>4. ASSUME NEW p \in Processes, Start(p) \/ Step(p) \/ Crash(p), q # p
      PROVE  lock' # None /\ lock'.by = q /\ lock'.leg = leg'[q]
  <2>1. /\ Holds(q) /\ lock # None /\ lock.by = q /\ lock.leg = leg[q]
        /\ leg'[q] = leg[q]
    BY <1>2, <1>4, HoldersStay, OthersStay
  <2>2. CASE TryLock(p)
    BY <2>1, <2>2, OwnMoves
  <2>3. CASE Steal(p)
    <3>1. q \in robbed'
      BY <2>1, <2>3 DEF Steal
    <3>2. QED
      BY <3>1
  <2>4. CASE Release(p)
    <3>1. lock.by # p
      BY <1>4, <2>1
    <3>2. lock' = lock
      BY <2>4, <3>1 DEF Release
    <3>3. QED
      BY <2>1, <3>2
  <2>5. CASE ~TryLock(p) /\ ~Steal(p) /\ ~Release(p)
    BY <1>4, <2>1, <2>5, Frames DEF Step
  <2>6. QED
    BY <2>2, <2>3, <2>4, <2>5
<1>5. CASE Age
  <2>1. UNCHANGED <<pc, leg>>
    BY <1>5, Frames
  <2>2. lock # None /\ lock.by = q /\ lock.leg = leg[q]
    BY <1>2, <2>1 DEF Holds
  <2>3. lock \in Locks /\ lock' = [lock EXCEPT !.old = TRUE]
    BY <1>5, <2>2, LockFields DEF Age
  <2>4. lock' = [by |-> lock.by, leg |-> lock.leg, old |-> TRUE]
    BY <2>3 DEF Locks
  <2>5. QED
    BY <2>1, <2>2, <2>4, LockIsThere
<1>6. CASE Tick \/ UNCHANGED vars
  <2>1. UNCHANGED <<pc, leg, lock>>
    BY <1>6, Frames DEF vars, shared, local
  <2>2. QED
    BY <1>2, <2>1 DEF Holds
<1>7. QED
  BY <1>3, <1>4, <1>5, <1>6 DEF Next

LEMMA StepFaultless ==
  ASSUME Shape, KindInv, LockInv, [Next]_vars, faults' = 0
  PROVE  /\ robbed' = {}
         /\ \A p \in Processes : pc'[p] \notin {"steal", "dead"}
         /\ lock' # None => ~lock'.old /\ Holds(lock.by)'
<1>1. faults = 0 /\ UNCHANGED faults
  <2>1. UNCHANGED faults \/ faults' = faults + 1
    BY Changes DEF Crash, Age
  <2>2. QED
    BY <2>1 DEF Shape, Setting
<1>2. /\ robbed = {}
      /\ \A p \in Processes : pc[p] \notin {"steal", "dead"}
      /\ lock # None => ~lock.old /\ Holds(lock.by)
      /\ \A p \in Processes :
           Holds(p) => lock # None /\ lock.by = p /\ lock.leg = leg[p]
  BY <1>1 DEF LockInv
<1>3. ASSUME NEW p \in Processes
      PROVE  ~Crash(p) /\ ~Steal(p)
  <2>1. ~Crash(p)
    BY <1>1 DEF Crash
  <2>2. ~Steal(p)
    BY <1>2 DEF Steal
  <2>3. QED
    BY <2>1, <2>2
<1>4. robbed' = {}
  BY <1>2, <1>3, Changes
<1>5. ASSUME NEW p \in Processes, Start(p) \/ Step(p)
      PROVE  /\ pc'[p] \notin {"steal", "dead"}
             /\ lock' # None => ~lock'.old /\ Holds(lock.by)'
  <2>1. pc'[p] \notin {"steal", "dead"}
    <3>1. CASE Start(p)
      BY <3>1, OwnMoves, JobFacts, BeginsSomewhere
    <3>2. CASE TryLock(p)
      BY <1>2, <3>2, OwnMoves
    <3>3. CASE ~Start(p) /\ ~TryLock(p)
      BY <1>3, <1>5, <3>3, OwnMoves DEF Step
    <3>4. QED
      BY <3>1, <3>2, <3>3
  <2>2. ASSUME lock' # None
        PROVE  ~lock'.old /\ Holds(lock.by)'
    <3>1. CASE TryLock(p) /\ lock = None
      <4>1. pc'[p] = "read" /\ lock' = Owner(p)
        BY <3>1, OwnMoves
      <4>2. QED
        BY <4>1, OwnerFields DEF Holds
    <3>2. CASE Release(p)
      <4>1. Holds(p)
        BY <3>2, OwnMoves DEF Holds
      <4>2. lock # None /\ lock.by = p /\ lock.leg = leg[p]
        BY <1>2, <4>1
      <4>3. lock' = None
        BY <3>2, <4>2 DEF Release
      <4>4. QED
        BY <2>2, <4>3
    <3>3. CASE ~Release(p) /\ lock' = lock
      <4>1. Holds(lock.by) /\ lock.by \in Processes /\ ~lock.old
        BY <1>2, <2>2, <3>3, LockFields
      <4>2. CASE lock.by # p
        BY <1>5, <3>3, <4>1, <4>2, HoldersStay
      <4>3. CASE lock.by = p
        <5>1. ReadLedger(p) \/ WriteLedger(p)
          BY <1>3, <1>5, <3>3, <4>1, <4>3, HoldersStay
        <5>2. pc'[p] \in {"write", "release"}
          BY <5>1, OwnMoves
        <5>3. QED
          BY <3>3, <4>1, <4>3, <5>2 DEF Holds
      <4>4. QED
        BY <4>2, <4>3
    <3>4. QED
      BY <1>3, <1>5, <3>1, <3>2, <3>3, OwnMoves, Frames DEF Step
  <2>3. QED
    BY <2>1, <2>2
<1>6. ASSUME NEW p \in Processes, Start(p) \/ Step(p), NEW q \in Processes
      PROVE  pc'[q] \notin {"steal", "dead"}
  BY <1>2, <1>5, <1>6, OthersStay
<1>7. ~Age
  <2>1. SUFFICES ASSUME Age PROVE FALSE
    OBVIOUS
  <2>2. lock # None /\ ~(lock.by \in {p \in Processes : Holds(p)})
    BY <1>1, <2>1 DEF Age
  <2>3. QED
    BY <1>2, <2>2, LockFields
<1>8. CASE Tick \/ UNCHANGED vars
  <2>1. UNCHANGED <<pc, lock>>
    BY <1>8, Frames DEF vars, shared, local
  <2>2. QED
    BY <1>2, <1>4, <2>1 DEF Holds
<1>9. QED
  BY <1>3, <1>4, <1>5, <1>6, <1>7, <1>8 DEF Next

LEMMA StepLock ==
  ASSUME Shape, KindInv, LockInv, [Next]_vars
  PROVE  LockInv'
<1>1. (faults = 0)' =>
        /\ robbed' = {}
        /\ \A p \in Processes : pc'[p] \notin {"steal", "dead"}
        /\ lock' # None => ~lock'.old /\ Holds(lock.by)'
  BY StepFaultless
<1>2. robbed' = {} => \A p \in Processes :
        Holds(p)' => lock' # None /\ lock'.by = p /\ lock'.leg = leg'[p]
  BY StepHolds
<1>3. QED
  BY <1>1, <1>2 DEF LockInv, None

\* A process that steps is not one that has ended.
LEMMA SteppersLive ==
  ASSUME Shape, NEW p \in Processes, Start(p) \/ Step(p) \/ Crash(p)
  PROVE  pc[p] \notin {"done", "dead"}
BY OwnMoves DEF Step, Alive

\* A run enters the ledger, and closes its entry, by a write alone.
LEMMA EnteredByWrite ==
  ASSUME Shape, KindInv, NEW p \in Processes, Start(p) \/ Step(p) \/ Crash(p),
         ~WriteLedger(p), Entered(p)'
  PROVE  Entered(p)
<1>1. UNCHANGED job
  BY Changes, Frames DEF Step
<1>2. CASE Start(p)
  <2>1. leg'[p] = "register"
    BY <1>2, OwnMoves, Frames DEF KindInv
  <2>2. pc'[p] \in {"done", "wait", "review", "load", "probe"}
    BY <1>2, OwnMoves, JobFacts, BeginsSomewhere
  <2>3. QED
    BY <2>1, <2>2 DEF Entered
<1>3. CASE ~Start(p)
  <2>1. Ran(p)
    BY <1>1, <1>3, OwnMoves DEF Entered, Ran, Step, Alive
  <2>2. CASE pc[p] \in {"release", "collect", "charge", "digest"}
    BY <2>1, <2>2 DEF Entered
  <2>3. CASE pc[p] \notin {"release", "collect", "charge", "digest"}
    <3>1. UNCHANGED leg
      BY <1>3, <2>3, OwnMoves, Frames DEF Step
    <3>2. pc'[p] \notin {"release", "collect", "charge", "digest"}
      BY <1>3, <2>3, OwnMoves DEF Step
    <3>3. QED
      BY <2>1, <3>1, <3>2 DEF Entered
  <2>4. QED
    BY <2>2, <2>3
<1>4. QED
  BY <1>2, <1>3

LEMMA ClosedByWrite ==
  ASSUME Shape, KindInv, NEW p \in Processes, Start(p) \/ Step(p) \/ Crash(p),
         ~WriteLedger(p), Closed(p)'
  PROVE  Closed(p) /\ Release(p)
<1>1. UNCHANGED job
  BY Changes, Frames DEF Step
<1>2. pc'[p] # "release"
  <2>1. CASE Start(p)
    BY <2>1, OwnMoves, JobFacts, BeginsSomewhere
  <2>2. CASE ~Start(p)
    BY <2>2, OwnMoves DEF Step
  <2>3. QED
    BY <2>1, <2>2
<1>3. Ran(p)' /\ exit'[p] \in {0, 2}
  BY <1>2 DEF Closed
<1>4. job[p].kind = "run" /\ ~Turned(job[p])
  BY <1>1, <1>3 DEF Ran, Turned
<1>5. exit' # exit
  <2>1. exit[p] = -1
    BY SteppersLive DEF KindInv
  <2>2. QED
    BY <1>3, <2>1
<1>6. /\ ~Start(p) /\ ~LoadCache(p) /\ ~Propose(p) /\ ~Review(p)
      /\ ~SaveLog(p) /\ ~Probe(p)
  BY <1>4, <1>5, OwnMoves DEF KindInv
<1>7. ~TryLock(p) /\ ~Steal(p)
  BY <1>3, <1>5, OwnMoves
<1>8. Release(p)
  BY <1>5, <1>6, <1>7, Frames DEF Step
<1>9. QED
  BY <1>5, <1>8, OwnMoves DEF Closed, Shape, Moves, Legs

LEMMA StepKeep ==
  ASSUME Shape, KindInv, ListInv, LockInv, KeepInv, [Next]_vars
  PROVE  KeepInv'
<1> SUFFICES ASSUME robbed' = {}
             PROVE  /\ \A q \in Processes :
                         pc'[q] = "write" => seen'[q].runs = ledger'
                    /\ \A q \in Processes :
                         /\ Entered(q)' => Lists(ledger, q)'
                         /\ Closed(q)' =>
                              \E i \in DOMAIN ledger' : ledger'[i] = Entry(q)'
  BY DEF KeepInv
<1>1. robbed = {}
  <2>1. ASSUME NEW p \in Processes, Steal(p)
        PROVE  robbed = {}
    BY <2>1 DEF Steal
  <2>2. QED
    BY <2>1, Changes
<1>2. /\ \A q \in Processes : pc[q] = "write" => seen[q].runs = ledger
      /\ \A q \in Processes :
           /\ Entered(q) => Lists(ledger, q)
           /\ Closed(q) => \E i \in DOMAIN ledger : ledger[i] = Entry(q)
  BY <1>1 DEF KeepInv
<1>3. UNCHANGED job
  BY Changes
<1>4. ASSUME NEW p \in Processes, WriteLedger(p), NEW q \in Processes
      PROVE  /\ pc'[q] = "write" => seen'[q].runs = ledger'
             /\ Entered(q)' => Lists(ledger, q)'
             /\ Closed(q)' => \E i \in DOMAIN ledger' : ledger'[i] = Entry(q)'
  <2>1. pc[p] = "write" /\ pc'[p] = "release" /\ out' = out
    BY <1>4, OwnMoves, Frames
  <2>2. Enlists(ledger, ledger', p)
    BY <1>2, <1>4, <2>1, WriteEnlists
  <2>3. Entry(q)' = Entry(q) /\ Entry(p).run = p /\ Entry(q).run = q
    BY <2>1 DEF Entry
  <2>4. CASE q = p
    <3>1. \E k \in DOMAIN ledger' : ledger'[k] = Entry(q)
      BY <2>2, <2>4 DEF Enlists
    <3>2. QED
      BY <2>1, <2>3, <2>4, <3>1 DEF Lists
  <2>5. CASE q # p
    <3>1. pc'[q] = pc[q] /\ leg'[q] = leg[q] /\ exit'[q] = exit[q]
      BY <1>4, <2>5, OthersStay DEF Step
    <3>2. pc'[q] # "write"
      <4>1. pc[q] = "write" => lock.by = q
        BY <1>1 DEF LockInv, Holds
      <4>2. lock.by = p
        BY <1>1, <2>1 DEF LockInv, Holds
      <4>3. QED
        BY <2>5, <3>1, <4>1, <4>2
    <3>3. Entered(q)' => Entered(q)
      BY <1>3, <3>1 DEF Entered, Ran, Turned
    <3>4. Closed(q)' => Closed(q)
      BY <1>3, <3>1 DEF Closed, Ran, Turned
    <3>5. \A i \in DOMAIN ledger : ledger[i].run = q =>
            \E k \in DOMAIN ledger' : ledger'[k] = ledger[i]
      BY <2>2, <2>5 DEF Enlists
    <3>6. Entered(q) => Lists(ledger, q)'
      BY <1>2, <3>5 DEF Lists
    <3>7. Closed(q) => \E i \in DOMAIN ledger' : ledger'[i] = Entry(q)'
      BY <1>2, <2>3, <3>5
    <3>8. QED
      BY <3>2, <3>3, <3>4, <3>6, <3>7
  <2>6. QED
    BY <2>4, <2>5
<1>5. ASSUME NEW p \in Processes, Start(p) \/ Step(p) \/ Crash(p),
             ~WriteLedger(p), NEW q \in Processes
      PROVE  /\ pc'[q] = "write" => seen'[q].runs = ledger'
             /\ Entered(q)' => Lists(ledger, q)'
             /\ Closed(q)' => \E i \in DOMAIN ledger' : ledger'[i] = Entry(q)'
  <2>1. UNCHANGED ledger
    BY <1>5, Frames DEF Step
  <2>2. CASE q = p
    <3>1. Entered(q)' => Entered(q)
      BY <1>5, <2>2, EnteredByWrite
    <3>2. Closed(q)' => Closed(q) /\ Entry(q)' = Entry(q)
      BY <1>5, <2>2, ClosedByWrite, Frames DEF Entry
    <3>3. pc'[q] = "write" => seen'[q].runs = ledger
      BY <1>5, <2>2, WritersRead
    <3>4. QED
      BY <1>2, <2>1, <3>1, <3>2, <3>3 DEF Lists
  <2>3. CASE q # p
    <3>1. /\ pc'[q] = pc[q] /\ leg'[q] = leg[q] /\ exit'[q] = exit[q]
          /\ seen'[q] = seen[q] /\ out'[q] = out[q]
      BY <1>5, <2>3, OthersStay
    <3>2. Entry(q)' = Entry(q)
      BY <3>1 DEF Entry
    <3>3. Entered(q)' => Entered(q)
      BY <1>3, <3>1 DEF Entered, Ran, Turned
    <3>4. Closed(q)' => Closed(q)
      BY <1>3, <3>1 DEF Closed, Ran, Turned
    <3>5. QED
      BY <1>2, <2>1, <3>1, <3>2, <3>3, <3>4 DEF Lists
  <2>4. QED
    BY <2>2, <2>3
<1>6. ASSUME UNCHANGED <<pc, leg, tries, seen, out, exit>>, NEW q \in Processes
      PROVE  /\ pc'[q] = "write" => seen'[q].runs = ledger'
             /\ Entered(q)' => Lists(ledger, q)'
             /\ Closed(q)' => \E i \in DOMAIN ledger' : ledger'[i] = Entry(q)'
  <2>1. UNCHANGED ledger
    BY <1>6, OwnMoves, Changes
  <2>2. Entry(q)' = Entry(q)
    BY <1>6 DEF Entry
  <2>3. Entered(q)' => Entered(q)
    BY <1>3, <1>6 DEF Entered, Ran, Turned
  <2>4. Closed(q)' => Closed(q)
    BY <1>3, <1>6 DEF Closed, Ran, Turned
  <2>5. QED
    BY <1>2, <1>6, <2>1, <2>2, <2>3, <2>4 DEF Lists
<1>7. QED
  BY <1>4, <1>5, <1>6, WhoSteps

----------------------------------------------------------------------------
(* The sources.                                                            *)

\* The records of the sources that answered are among those collected.
LEMMA CollectedOwed ==
  ASSUME NEW j \in RunJobs
  PROVE  Owed[j] \subseteq Collected[j].records
<1>1. \A s \in Sources \ Failed(j.world) : Kept(j.world, s)
  BY DEF Failed, Kept, Errors
<1>2. Owed[j] = UNION {RecordsOf(j.world, s, j.skipGhApi) :
                         s \in Sources \ Failed(j.world)}
  BY DEF Owed
<1>3. Owed[j] \subseteq Analyzed(j.world, j.skipGhApi)
  <2> DEFINE R(s) == RecordsOf(j.world, s, j.skipGhApi)
  <2>1. /\ Owed[j] = UNION {R(s) : s \in Sources \ Failed(j.world)}
        /\ Analyzed(j.world, j.skipGhApi) =
             UNION {R(s) : s \in {s \in Sources : Kept(j.world, s)}}
    BY <1>2 DEF Analyzed
  <2> HIDE DEF R
  <2>2. QED
    BY <1>1, <2>1
<1>4. CASE j.phase >= 2
  <2>1. Collected[j].records = Analyzed(j.world, j.skipGhApi)
                                 \cup ForkRecords(j.forks, j.budget)
    BY <1>4 DEF Collected
  <2>2. QED
    BY <1>3, <2>1
<1>5. CASE ~(j.phase >= 2)
  <2>1. Collected[j].records = Analyzed(j.world, j.skipGhApi)
    BY <1>5 DEF Collected
  <2>2. QED
    BY <1>3, <2>1
<1>6. QED
  BY <1>4, <1>5

\* A login is reported exactly when it is not good.
LEMMA BadLoginTold ==
  ASSUME NEW s
  PROVE  (HealthMessage(s) = "none") <=> Good(s)
<1>1. (Health(s) = "ready") <=> Good(s)
  BY DEF Health, Good
<1>2. Health(s) # "none"
  BY DEF Health
<1>3. QED
  BY <1>1, <1>2 DEF HealthMessage

\* The part of SourceInv about one process.
SourcesOf(p) ==
  /\ pc[p] \in {"charge", "digest"} => Owed[job[p]] \subseteq out[p].records
  /\ Ran(p) /\ leg[p] = "finalize" =>
       out[p].status \in {"failure", Ending(job[p].world)}
  /\ Ran(p) /\ exit[p] \in {0, 2} =>
       (exit[p] = 2) <=> (Failed(job[p].world) # {})

LEMMA StepSourcesOf ==
  ASSUME Shape, KindInv, SourceInv, NEW p \in Processes,
         Start(p) \/ Step(p) \/ Crash(p)
  PROVE  SourcesOf(p)'
<1>1. UNCHANGED job
  BY Changes, Frames DEF Step
<1>2. SourcesOf(p)
  BY DEF SourceInv, SourcesOf
<1>3. pc'[p] \in {"charge", "digest"} => Owed[job[p]] \subseteq out'[p].records
  <2>1. CASE Start(p)
    BY <2>1, OwnMoves, JobFacts, BeginsSomewhere
  <2>2. CASE Collect(p)
    <3>1. job[p] \in RunJobs
      BY <2>2, JobFacts, OwnMoves DEF KindInv, RunPlaces
    <3>2. QED
      BY <2>2, <3>1, CollectOut, CollectedOwed
  <2>3. CASE Charge(p)
    <3>1. out'[p].records = out[p].records
      BY <2>3, ChargeOut DEF SameBut, OutFields
    <3>2. QED
      BY <1>2, <2>3, <3>1, OwnMoves DEF SourcesOf
  <2>4. CASE ~Start(p) /\ ~Collect(p) /\ ~Charge(p)
    BY <2>4, OwnMoves DEF Step
  <2>5. QED
    BY <2>1, <2>2, <2>3, <2>4
<1>4. Ran(p)' /\ leg'[p] = "finalize" =>
        out'[p].status \in {"failure", Ending(job[p].world)}
  <2> SUFFICES ASSUME Ran(p)', leg'[p] = "finalize"
               PROVE  out'[p].status \in {"failure", Ending(job[p].world)}
    OBVIOUS
  <2>1. job[p].kind = "run"
    BY <1>1 DEF Ran
  <2>2. CASE Start(p)
    BY <2>2, OwnMoves, Frames DEF KindInv
  <2>3. CASE Digest(p)
    BY <2>3, DigestOut
  <2>4. CASE Collect(p)
    BY <2>4, CollectOut, OwnMoves DEF KindInv
  <2>5. CASE Charge(p)
    BY <2>5, OwnMoves, Frames DEF KindInv
  <2>6. CASE LoadCache(p) \/ Review(p) \/ Probe(p)
    BY <2>1, <2>6, OwnMoves DEF KindInv
  <2>7. CASE /\ ~Start(p) /\ ~Digest(p) /\ ~Collect(p) /\ ~Charge(p)
             /\ ~LoadCache(p) /\ ~Review(p) /\ ~Probe(p)
    <3>1. UNCHANGED <<leg, out>>
      BY <2>7, Frames DEF Step
    <3>2. Ran(p)
      BY <1>1, <2>7, OwnMoves DEF Ran, Step, Alive, Turned
    <3>3. QED
      BY <1>2, <3>1, <3>2 DEF SourcesOf
  <2>8. QED
    BY <2>2, <2>3, <2>4, <2>5, <2>6, <2>7
<1>5. Ran(p)' /\ exit'[p] \in {0, 2} =>
        (exit'[p] = 2) <=> (Failed(job[p].world) # {})
  <2> SUFFICES ASSUME Ran(p)', exit'[p] \in {0, 2}
               PROVE  (exit'[p] = 2) <=> (Failed(job[p].world) # {})
    OBVIOUS
  <2>1. ~WriteLedger(p)
    BY SteppersLive, Frames DEF KindInv
  <2>2. Release(p)
    BY <2>1, ClosedByWrite DEF Closed
  <2>3. exit'[p] = Code(out[p].status) /\ leg[p] = "finalize"
    <3>1. exit[p] = -1
      BY SteppersLive DEF KindInv
    <3>2. QED
      BY <2>2, <3>1, OwnMoves DEF Shape, Moves, Legs
  <2>4. Ran(p)
    BY <1>1, <2>2, OwnMoves DEF Ran, Turned
  <2>5. out[p].status \in {"failure", Ending(job[p].world)}
    BY <1>2, <2>3, <2>4 DEF SourcesOf
  <2>6. /\ Code("failure") = 1 /\ Code("success") = 0 /\ Code("partial") = 2
    BY DEF Code
  <2>7. QED
    BY <2>3, <2>5, <2>6 DEF Ending
<1>6. QED
  BY <1>1, <1>3, <1>4, <1>5 DEF SourcesOf

LEMMA StepSource ==
  ASSUME Shape, KindInv, SourceInv, [Next]_vars
  PROVE  SourceInv'
<1>1. UNCHANGED job
  BY Changes
<1>2. ASSUME NEW q \in Processes
      PROVE  SourcesOf(q)'
  <2>1. ASSUME NEW p \in Processes, Start(p) \/ Step(p) \/ Crash(p), q # p
        PROVE  SourcesOf(q)'
    <3>1. /\ pc'[q] = pc[q] /\ leg'[q] = leg[q] /\ exit'[q] = exit[q]
          /\ out'[q] = out[q]
      BY <2>1, OthersStay
    <3>2. SourcesOf(q)
      BY DEF SourceInv, SourcesOf
    <3>3. Ran(q)' => Ran(q)
      BY <1>1, <3>1 DEF Ran, Turned
    <3>4. QED
      BY <1>1, <3>1, <3>2, <3>3 DEF SourcesOf
  <2>2. CASE UNCHANGED <<pc, leg, tries, seen, out, exit>>
    <3>1. SourcesOf(q)
      BY DEF SourceInv, SourcesOf
    <3>2. Ran(q)' => Ran(q)
      BY <1>1, <2>2 DEF Ran, Turned
    <3>3. QED
      BY <1>1, <2>2, <3>1, <3>2 DEF SourcesOf
  <2>3. QED
    BY <2>1, <2>2, StepSourcesOf, WhoSteps
<1>3. ASSUME NEW d \in DOMAIN digest'
      PROVE  digest'[d] = None \/ Told(digest'[d])
  <2>1. ASSUME NEW p \in Processes, Digest(p)
        PROVE  digest'[d] = None \/ Told(digest'[d])
    <3> DEFINE r == [by |-> p, failures |-> Surfaced(job[p].world),
                     auth |-> HealthMessage(job[p].setup),
                     records |-> out[p].records]
    <3>1. UNCHANGED digest \/ digest' = [digest EXCEPT ![out[p].day] = r]
      BY <2>1, DigestOut
    <3>2. Told(r)
      <4>1. job[p].kind = "run" /\ Owed[job[p]] \subseteq out[p].records
        BY <2>1, OwnMoves DEF KindInv, RunPlaces, SourceInv
      <4>2. Surfaced(job[p].world) = Failed(job[p].world)
        BY DEF Surfaced, Errors, Failed
      <4>3. QED
        BY <4>1, <4>2, BadLoginTold DEF Told
    <3> HIDE DEF r
    <3>3. d \in DOMAIN digest /\ (digest'[d] = r \/ digest'[d] = digest[d])
      BY <3>1
    <3>4. QED
      BY <3>2, <3>3 DEF SourceInv
  <2>2. CASE UNCHANGED digest
    BY <2>2 DEF SourceInv
  <2>3. QED
    BY <2>1, <2>2, Changes
<1>4. ASSUME NEW d \in DOMAIN digest'
      PROVE  (digest[d] = None \/ Told(digest[d]))'
  BY <1>1, <1>3 DEF Told
<1>5. QED
  BY <1>1, <1>2, <1>4 DEF SourceInv, SourcesOf

----------------------------------------------------------------------------
(* The forks.                                                              *)

\* The order of research is a strict order of all forks.
LEMMA FirstOrders ==
  ASSUME NEW forks, ForkList(forks), NEW i \in DOMAIN forks,
         NEW k \in DOMAIN forks
  PROVE  /\ ~First(forks, i, i)
         /\ i # k => First(forks, i, k) \/ First(forks, k, i)
         /\ \A m \in DOMAIN forks :
              First(forks, i, k) /\ First(forks, k, m) => First(forks, i, m)
<1>1. \A m \in DOMAIN forks : forks[m].stars \in Int /\ forks[m].pushed \in Int
  BY DEF ForkList
<1>2. DOMAIN forks \subseteq Int
  BY DEF ForkList
<1>3. ~First(forks, i, i)
  BY <1>1, <1>2 DEF First
<1>4. i # k => First(forks, i, k) \/ First(forks, k, i)
  BY <1>1, <1>2 DEF First
<1>5. ASSUME NEW m \in DOMAIN forks, First(forks, i, k), First(forks, k, m)
      PROVE  First(forks, i, m)
  <2>1. i \in Int /\ k \in Int /\ m \in Int
    BY <1>2
  <2>2. /\ forks[i].stars \in Int /\ forks[k].stars \in Int
        /\ forks[m].stars \in Int /\ forks[i].pushed \in Int
        /\ forks[k].pushed \in Int /\ forks[m].pushed \in Int
    BY <1>1
  <2>3. QED
    BY <1>5, <2>1, <2>2 DEF First
<1>6. QED
  BY <1>3, <1>4, <1>5

\* The forks that cost a call before fork k.
Before(forks, k) ==
  {i \in Eligible(forks) : First(forks, i, k) /\ forks[i].named}

LEMMA BeforeIsFinite ==
  ASSUME NEW forks, ForkList(forks), NEW S, S \subseteq DOMAIN forks
  PROVE  IsFiniteSet(S) /\ Cardinality(S) \in Nat
<1>1. IsFiniteSet(DOMAIN forks)
  BY FS_Interval DEF ForkList
<1>2. QED
  BY <1>1, FS_Subset, FS_CardinalityType

\* A fork has fewer calls before it than a later one has.
LEMMA BeforeGrows ==
  ASSUME NEW forks, ForkList(forks), NEW i \in Eligible(forks),
         NEW k \in Eligible(forks), First(forks, i, k)
  PROVE  /\ Cardinality(Before(forks, i)) <= Cardinality(Before(forks, k))
         /\ forks[i].named =>
              Cardinality(Before(forks, i)) < Cardinality(Before(forks, k))
<1> DEFINE S == Before(forks, i)
           T == Before(forks, k)
<1>1. Eligible(forks) \subseteq DOMAIN forks
  BY DEF Eligible
<1>2. S \subseteq T
  BY <1>1, FirstOrders DEF Before
<1>3. i \notin S
  BY <1>1, FirstOrders DEF Before
<1>4. forks[i].named => i \in T
  BY DEF Before
<1>5. S \subseteq DOMAIN forks /\ T \subseteq DOMAIN forks
  BY <1>1 DEF Before
<1> HIDE DEF S, T
<1>6. /\ IsFiniteSet(S) /\ Cardinality(S) \in Nat
      /\ IsFiniteSet(T) /\ Cardinality(T) \in Nat
  BY <1>5, BeforeIsFinite
<1>7. Cardinality(S) <= Cardinality(T)
  BY <1>2, <1>6, FS_Subset
<1>8. ASSUME forks[i].named
      PROVE  Cardinality(S) < Cardinality(T)
  <2>1. S \cup {i} \subseteq T
    BY <1>2, <1>4, <1>8
  <2>2. Cardinality(S \cup {i}) = Cardinality(S) + 1
    BY <1>3, <1>6, FS_AddElement
  <2>3. Cardinality(S \cup {i}) <= Cardinality(T)
    BY <1>6, <2>1, FS_Subset
  <2>4. QED
    BY <1>6, <2>2, <2>3
<1>9. QED
  BY <1>7, <1>8 DEF S, T

\* The calls stay within the budget, but for the list itself.
LEMMA CallsWithinBudget ==
  ASSUME NEW forks, ForkList(forks), NEW budget \in Nat
  PROVE  ApiCalls(forks, budget) <= budget \/ ApiCalls(forks, budget) = 1
<1> DEFINE N == {k \in Enriched(forks, budget) : forks[k].named}
           rank == [k \in N |-> Cardinality(Before(forks, k))]
<1>1. ApiCalls(forks, budget) = 1 + Cardinality(N)
  BY DEF ApiCalls
<1>2. N \subseteq DOMAIN forks /\ N \subseteq Eligible(forks)
  BY DEF Enriched, Eligible
<1>3. \A k \in N : /\ Cardinality(Before(forks, k)) \in Nat
                   /\ 1 + Cardinality(Before(forks, k)) < budget
  <2>1. \A k : Before(forks, k) \subseteq DOMAIN forks
    BY DEF Before, Eligible
  <2>2. QED
    BY <2>1, BeforeIsFinite DEF Enriched, Within, CallsBefore, Before
<1>4. ASSUME NEW x \in N, NEW y \in N, x # y
      PROVE  rank[x] # rank[y]
  <2>1. forks[x].named /\ forks[y].named
    OBVIOUS
  <2>2. First(forks, x, y) \/ First(forks, y, x)
    BY <1>2, <1>4, FirstOrders
  <2>3. \/ Cardinality(Before(forks, x)) < Cardinality(Before(forks, y))
        \/ Cardinality(Before(forks, y)) < Cardinality(Before(forks, x))
    BY <1>2, <2>1, <2>2, BeforeGrows
  <2>4. QED
    BY <1>3, <2>3
<1>5. CASE N = {}
  BY <1>1, <1>5, FS_EmptySet
<1>6. CASE N # {}
  <2>1. IsFiniteSet(N) /\ Cardinality(N) \in Nat
    BY <1>2, BeforeIsFinite
  <2>2. budget - 2 \in Nat
    BY <1>3, <1>6
  <2>3. /\ IsFiniteSet(0..(budget - 2))
        /\ Cardinality(0..(budget - 2)) = budget - 1
    BY <2>2, FS_Interval
  <2>4. rank \in [N -> 0..(budget - 2)]
    BY <1>3
  <2> HIDE DEF N, rank
  <2>5. ~(Cardinality(0..(budget - 2)) < Cardinality(N))
    BY <1>4, <2>1, <2>3, <2>4, FS_PigeonHole
  <2>6. Cardinality(N) <= budget - 1
    BY <2>1, <2>3, <2>5
  <2>7. QED
    BY <1>1, <2>1, <2>6
<1>7. QED
  BY <1>5, <1>6

\* The budget goes to the forks with the most stars.
LEMMA BudgetToTheBest ==
  ASSUME NEW forks, ForkList(forks), NEW budget \in Nat,
         NEW k \in Enriched(forks, budget),
         NEW i \in Eligible(forks) \ Enriched(forks, budget)
  PROVE  forks[k].stars >= forks[i].stars
<1>1. k \in Eligible(forks) /\ Eligible(forks) \subseteq DOMAIN forks
  BY DEF Enriched, Eligible
<1>2. forks[k].stars \in Nat /\ forks[i].stars \in Nat
  BY <1>1 DEF ForkList
<1>3. /\ Before(forks, i) \subseteq DOMAIN forks
      /\ Before(forks, k) \subseteq DOMAIN forks
  BY <1>1 DEF Before
<1>4. /\ Cardinality(Before(forks, i)) \in Nat
      /\ Cardinality(Before(forks, k)) \in Nat
  BY <1>3, BeforeIsFinite
<1>5. 1 + Cardinality(Before(forks, k)) < budget
  BY DEF Enriched, Within, CallsBefore, Before
<1>6. ~(1 + Cardinality(Before(forks, i)) < budget)
  BY DEF Enriched, Within, CallsBefore, Before
<1>7. ~First(forks, i, k)
  BY <1>1, <1>4, <1>5, <1>6, BeforeGrows
<1>8. QED
  BY <1>2, <1>7 DEF First

LEMMA StepFork ==
  ASSUME Shape, KindInv, ForkInv, [Next]_vars
  PROVE  ForkInv'
<1>1. UNCHANGED job
  BY Changes
<1>2. ASSUME NEW q \in Processes, job[q].kind = "run"
      PROVE  \/ out'[q].calls = 0
             \/ /\ out'[q].looked = Enriched(job[q].forks, job[q].budget)
                /\ out'[q].calls = ApiCalls(job[q].forks, job[q].budget)
  <2>1. \/ out[q].calls = 0
        \/ /\ out[q].looked = Enriched(job[q].forks, job[q].budget)
           /\ out[q].calls = ApiCalls(job[q].forks, job[q].budget)
    BY <1>2 DEF ForkInv
  <2>2. CASE Collect(q)
    <3>1. job[q] \in RunJobs
      BY <1>2, JobFacts
    <3>2. /\ out'[q].looked = Collected[job[q]].looked
          /\ out'[q].calls = Collected[job[q]].calls
      BY <2>2, CollectOut
    <3>3. CASE job[q].phase >= 2
      BY <3>1, <3>2, <3>3 DEF Collected
    <3>4. CASE ~(job[q].phase >= 2)
      BY <3>1, <3>2, <3>4 DEF Collected
    <3>5. QED
      BY <3>3, <3>4
  <2>3. CASE \E S : /\ SameBut(out'[q], out[q], S)
                    /\ S \subseteq {"day", "units", "status"}
    BY <2>1, <2>3 DEF SameBut, OutFields
  <2>4. CASE Probe(q)
    BY <1>2, <2>4, OwnMoves DEF KindInv
  <2>5. CASE out'[q] = out[q]
    BY <2>1, <2>5
  <2>6. CASE Start(q) \/ Step(q) \/ Crash(q)
    <3>1. CASE Start(q)
      BY <1>2, <2>3, <3>1, StartOut
    <3>2. CASE LoadCache(q) \/ Review(q)
      BY <2>3, <3>2, LoadOut
    <3>3. CASE Charge(q)
      BY <2>3, <3>3, ChargeOut
    <3>4. CASE Digest(q)
      <4>1. SameBut(out'[q], out[q], {"status", "units"})
        BY <3>4, DigestOut
      <4>2. QED
        BY <2>3, <4>1
    <3>5. QED
      BY <2>2, <2>4, <2>5, <2>6, <3>1, <3>2, <3>3, <3>4, Frames DEF Step
  <2>7. QED
    BY <2>5, <2>6, WhoSteps, OthersStay
<1>3. QED
  BY <1>1, <1>2 DEF ForkInv

----------------------------------------------------------------------------
(* The reviews.                                                            *)

\* An entry that was due, or forced, keeps the distance.
LEMMA AppendSpaced ==
  ASSUME NEW s, IsList(s), Spaced(s), NEW e,
         e.forced \/ Due(s, e.day)
  PROVE  IsList(Append(s, e)) /\ Spaced(Append(s, e))
<1> DEFINE t == Append(s, e)
           n == Len(s)
<1>1. /\ DOMAIN s = 1..n /\ n \in Nat
      /\ IsList(t) /\ DOMAIN t = 1..(n + 1)
      /\ \A i \in 1..n : t[i] = s[i]
      /\ t[n + 1] = e
  BY ListDomain, AppendedList
<1> HIDE DEF t, n
<1>2. ASSUME NEW i \in Weekly(t), NEW k \in Weekly(t),
             i < k, ~t[k].forced,
             \A m \in Weekly(t) : ~(i < m /\ m < k)
      PROVE  t[k].day - t[i].day >= WeeklyDays
  <2>1. i \in 1..(n + 1) /\ k \in 1..(n + 1) /\ i \in 1..n
    BY <1>1, <1>2 DEF Weekly
  <2>2. \A m \in 1..n : m \in Weekly(t) <=> m \in Weekly(s)
    BY <1>1 DEF Weekly
  <2>3. i \in Weekly(s) /\ t[i] = s[i]
    BY <1>1, <1>2, <2>1, <2>2
  <2>4. CASE k = n + 1
    <3>1. Due(s, e.day) /\ t[k] = e
      BY <1>1, <1>2, <2>4
    <3>2. \A m \in Weekly(s) : m <= i
      <4>1. SUFFICES ASSUME NEW m \in Weekly(s) PROVE m <= i
        OBVIOUS
      <4>2. m \in 1..n
        BY <1>1 DEF Weekly
      <4>3. m \in Weekly(t)
        BY <2>2, <4>2
      <4>4. QED
        BY <1>1, <1>2, <2>1, <2>4, <4>2, <4>3
    <3>3. e.day - s[i].day >= WeeklyDays
      BY <2>3, <3>1, <3>2 DEF Due
    <3>4. QED
      BY <2>3, <3>1, <3>3
  <2>5. CASE k # n + 1
    <3>1. k \in 1..n
      BY <1>1, <2>1, <2>5
    <3>2. k \in Weekly(s) /\ t[k] = s[k]
      BY <1>1, <1>2, <2>2, <3>1
    <3>3. \A m \in Weekly(s) : ~(i < m /\ m < k)
      <4>1. \A m \in Weekly(s) : m \in 1..n
        BY <1>1 DEF Weekly
      <4>2. QED
        BY <1>2, <2>2, <4>1
    <3>4. s[k].day - s[i].day >= WeeklyDays
      BY <1>2, <2>3, <3>2, <3>3 DEF Spaced
    <3>5. QED
      BY <2>3, <3>2, <3>4
  <2>6. QED
    BY <2>4, <2>5
<1>3. Spaced(t)
  BY <1>2 DEF Spaced
<1>4. QED
  BY <1>1, <1>3 DEF t

LEMMA StepLog ==
  ASSUME Shape, KindInv, LogInv, [Next]_vars
  PROVE  LogInv'
<1>1. UNCHANGED job
  BY Changes
<1>2. IsList(log'.entries) /\ Spaced(log'.entries)
  <2>1. ASSUME NEW p \in Processes, SaveLog(p)
        PROVE  IsList(log'.entries) /\ Spaced(log'.entries)
    <3> DEFINE e == [type |-> job[p].type, day |-> out[p].day,
                     forced |-> job[p].force]
    <3>1. log' = [state |-> "ok", entries |-> Append(seen[p].entries, e)]
      BY <2>1 DEF SaveLog, File
    <3>2. log'.entries = Append(seen[p].entries, e)
      BY <3>1
    <3>3. /\ IsList(seen[p].entries) /\ Spaced(seen[p].entries)
          /\ job[p].force \/ Due(seen[p].entries, out[p].day)
      BY <2>1, OwnMoves DEF LogInv
    <3>4. e.forced = job[p].force /\ e.day = out[p].day
      OBVIOUS
    <3> HIDE DEF e
    <3>5. QED
      BY <3>2, <3>3, <3>4, AppendSpaced
  <2>2. CASE UNCHANGED log
    BY <2>2 DEF LogInv
  <2>3. QED
    BY <2>1, <2>2, Changes
<1>3. ASSUME NEW q \in Processes, pc'[q] = "log"
      PROVE  /\ IsList(seen'[q].entries) /\ Spaced(seen'[q].entries)
             /\ job[q].force \/ Due(seen'[q].entries, out'[q].day)
  <2>1. CASE Review(q)
    <3> DEFINE entries == Loaded(log, <<>>)
    <3>1. /\ seen' = [seen EXCEPT ![q] = [entries |-> entries]]
          /\ job[q].force \/ Due(entries, Today)
      <4>1. ~(\E c : Quit(q, c))
        BY <1>3, QuitEffect
      <4>2. QED
        BY <2>1, <4>1 DEF Review
    <3>2. seen'[q].entries = entries
      BY <3>1 DEF Shape, Moves
    <3>3. out'[q].day = Today
      BY <2>1, LoadOut
    <3>4. IsList(entries) /\ Spaced(entries)
      <4>1. IsList(<<>>) /\ Spaced(<<>>)
        BY DEF IsList, Spaced, Weekly
      <4>2. QED
        BY <4>1 DEF Loaded, LogInv
    <3>5. QED
      BY <3>1, <3>2, <3>3, <3>4
  <2>2. CASE /\ pc[q] = "log" /\ seen'[q] = seen[q] /\ out'[q] = out[q]
    BY <2>2 DEF LogInv
  <2>3. ASSUME NEW p \in Processes, Start(p) \/ Step(p) \/ Crash(p), p # q
        PROVE  pc[q] = "log" /\ seen'[q] = seen[q] /\ out'[q] = out[q]
    BY <1>3, <2>3, OthersStay
  <2>4. CASE Start(q) \/ Step(q) \/ Crash(q)
    <3>1. ~Start(q)
      BY <1>3, OwnMoves, JobFacts, BeginsSomewhere
    <3>2. QED
      BY <1>3, <2>1, <2>4, <3>1, OwnMoves DEF Step
  <2>5. QED
    BY <1>3, <2>2, <2>3, <2>4, WhoSteps
<1>4. QED
  BY <1>1, <1>2, <1>3 DEF LogInv, IsList, Spaced, Weekly, Due

----------------------------------------------------------------------------
(* The drafts.                                                             *)

LEMMA DaysAreNumbers ==
  ASSUME Shape
  PROVE  Today \in Nat /\ CacheDays \in Nat
<1>1. Days \in Seq(Nat) /\ clock \in DOMAIN Days
  BY EvolveAssumption DEF Shape, Setting
<1>2. Today \in Nat
  BY <1>1 DEF Today
<1>3. CacheDays \in Nat
  BY ActionsAssumption
<1>4. QED
  BY <1>2, <1>3

\* A draft that is proposed is not in the cache, and is put there.
LEMMA CandidatesAreNew ==
  ASSUME NEW records, NEW live, NEW today,
         NEW i \in Candidates(records, live)
  PROVE  /\ \A e \in live : e.key # DedupeKey(records[i].record)
         /\ \E e \in CacheAfter(records, live, today) :
              e.key = DedupeKey(records[i].record) /\ e.day = today
         /\ live \subseteq CacheAfter(records, live, today)
<1> DEFINE e == [key |-> DedupeKey(records[i].record), day |-> today]
<1>1. e \in CacheAfter(records, live, today)
  BY DEF CacheAfter
<1>2. DedupeKey(records[i].record) \notin {d.key : d \in live}
  BY DEF Candidates
<1>3. live \subseteq CacheAfter(records, live, today)
  BY DEF CacheAfter
<1>4. QED
  BY <1>1, <1>2, <1>3

\* What a proposal adds to the drafts.
LEMMA ProposeEffect ==
  ASSUME Shape, CacheInv, NEW p \in Processes, Propose(p), ~raced'
  PROVE  /\ ~raced
         /\ \/ UNCHANGED <<cache, drafts>>
            \/ \E live, after :
                 /\ live = Live(Loaded(cache, {}), Today)
                 /\ cache' = File("ok", after) /\ live \subseteq after
                 /\ drafts \subseteq drafts'
                 /\ \A d \in drafts' \ drafts :
                      /\ d.day = Today /\ d.by = p
                      /\ d = [key |-> d.key, day |-> Today, by |-> p]
                      /\ \A e \in live : e.key # d.key
                      /\ \E e \in after : e.key = d.key /\ e.day = Today
<1> DEFINE records == job[p].records
           live == seen[p].live
           today == out[p].day
           picked == Candidates(records, live)
           new == {[key |-> DedupeKey(records[i].record), day |-> today,
                    by |-> p] : i \in picked}
<1>1. /\ pc[p] = "propose"
      /\ IF picked = {} THEN UNCHANGED <<cache, raced>>
         ELSE /\ cache' = File("ok", CacheAfter(records, live, today))
              /\ raced' = (raced \/ cache # seen[p].read)
      /\ drafts' = drafts \cup new
  BY DEF Propose
<1>2. today = Today /\ live = Live(Loaded(seen[p].read, {}), Today)
  BY <1>1 DEF CacheInv
<1>3. CASE picked = {}
  <2>1. new = {}
    BY <1>3
  <2>2. QED
    BY <1>1, <1>3, <2>1
<1>4. CASE picked # {}
  <2> DEFINE after == CacheAfter(records, live, today)
  <2>1. ~raced /\ cache = seen[p].read /\ cache' = File("ok", after)
    BY <1>1, <1>4
  <2>2. live = Live(Loaded(cache, {}), Today)
    BY <1>2, <2>1
  <2>3. live \subseteq after
    BY <1>4, CandidatesAreNew
  <2>4. ASSUME NEW d \in drafts' \ drafts
        PROVE  /\ d.day = Today /\ d.by = p
               /\ d = [key |-> d.key, day |-> Today, by |-> p]
               /\ \A e \in live : e.key # d.key
               /\ \E e \in after : e.key = d.key /\ e.day = Today
    <3>1. d \in new
      BY <1>1
    <3>2. PICK i \in picked :
            d = [key |-> DedupeKey(records[i].record), day |-> today, by |-> p]
      BY <3>1
    <3>3. /\ \A e \in live : e.key # DedupeKey(records[i].record)
          /\ \E e \in after :
               e.key = DedupeKey(records[i].record) /\ e.day = today
      <4> HIDE DEF records, live, today
      <4>1. i \in Candidates(records, live)
        BY <3>2
      <4>2. QED
        BY <4>1, CandidatesAreNew
    <3>4. d.key = DedupeKey(records[i].record) /\ d.day = today /\ d.by = p
      BY <3>2
    <3>5. QED
      BY <1>2, <3>2, <3>3, <3>4
  <2>5. drafts \subseteq drafts'
    BY <1>1
  <2> HIDE DEF live, after
  <2>6. QED
    BY <2>1, <2>2, <2>3, <2>4, <2>5
<1>5. QED
  BY <1>3, <1>4

LEMMA StepDrafts ==
  ASSUME Shape, CacheInv, NEW p \in Processes, Propose(p), ~raced'
  PROVE  DraftedOnce' /\ \A d \in drafts' : Remembered(d)'
<1>1. UNCHANGED clock /\ Today' = Today
  BY Frames DEF Today
<1>2. /\ ~raced
      /\ \A d, e \in drafts : d # e /\ d.key = e.key =>
           d.day - e.day >= CacheDays \/ e.day - d.day >= CacheDays
      /\ \A d \in drafts : Remembered(d)
      /\ \A d \in drafts : d.day \in Int /\ d.day <= Today
  BY ProposeEffect DEF CacheInv, DraftedOnce
<1>3. Today \in Nat /\ CacheDays \in Nat
  BY DaysAreNumbers
<1>4. CASE UNCHANGED <<cache, drafts>>
  BY <1>1, <1>2, <1>4 DEF DraftedOnce, Remembered
<1>5. ASSUME NEW live, NEW after,
             live = Live(Loaded(cache, {}), Today),
             cache' = File("ok", after), live \subseteq after,
             drafts \subseteq drafts',
             \A d \in drafts' \ drafts :
               /\ d.day = Today /\ d.by = p
               /\ d = [key |-> d.key, day |-> Today, by |-> p]
               /\ \A e \in live : e.key # d.key
               /\ \E e \in after : e.key = d.key /\ e.day = Today
      PROVE  DraftedOnce' /\ \A d \in drafts' : Remembered(d)'
  <2>1. ASSUME NEW d \in drafts
        PROVE  \/ Today - d.day >= CacheDays
               \/ \E e \in live : e.key = d.key /\ e.day = d.day
    <3>1. CASE Today - d.day >= CacheDays
      BY <3>1
    <3>2. CASE ~(Today - d.day >= CacheDays)
      <4>1. Today - d.day < CacheDays
        BY <1>2, <1>3, <3>2
      <4>2. PICK e \in cache.entries :
              cache.state = "ok" /\ e.key = d.key /\ e.day = d.day
        BY <1>2, <3>2 DEF Remembered
      <4>3. e \in live
        BY <1>5, <4>1, <4>2 DEF Live, Loaded
      <4>4. QED
        BY <4>2, <4>3
    <3>3. QED
      BY <3>1, <3>2
  <2>2. cache'.state = "ok" /\ cache'.entries = after
    BY <1>5 DEF File
  <2>3. ASSUME NEW d \in drafts'
        PROVE  Remembered(d)'
    BY <1>1, <1>5, <2>1, <2>2 DEF Remembered
  <2>4. ASSUME NEW d \in drafts' \ drafts, NEW e \in drafts, d.key = e.key
        PROVE  d.day - e.day >= CacheDays
    BY <1>5, <2>1, <2>4
  <2>5. ASSUME NEW d \in drafts' \ drafts, NEW e \in drafts' \ drafts,
               d.key = e.key
        PROVE  d = e
    BY <1>5, <2>5
  <2>6. \A d, e \in drafts' : d # e /\ d.key = e.key =>
          d.day - e.day >= CacheDays \/ e.day - d.day >= CacheDays
    BY <1>2, <2>4, <2>5
  <2>7. QED
    BY <2>3, <2>6 DEF DraftedOnce
<1>6. QED
  BY <1>4, <1>5, ProposeEffect

LEMMA StepCache ==
  ASSUME Shape, KindInv, CacheInv, [Next]_vars
  PROVE  CacheInv'
<1>1. Today \in Nat /\ CacheDays \in Nat
  BY DaysAreNumbers
<1>2. Today' \in Nat /\ Today <= Today'
  <2>1. CASE UNCHANGED clock
    BY <1>1, <2>1 DEF Today
  <2>2. CASE Tick
    <3>1. clock \in DOMAIN Days /\ clock + 1 \in DOMAIN Days
          /\ clock <= clock + 1 /\ clock' = clock + 1
      BY <2>2, EvolveAssumption DEF Tick, Shape, Setting
    <3>2. Days[clock] <= Days[clock + 1] /\ Days[clock + 1] \in Nat
      BY <3>1, EvolveAssumption
    <3>3. QED
      BY <3>1, <3>2 DEF Today
  <2>3. QED
    BY <2>1, <2>2, Changes
<1>3. \A d \in drafts' : d.day \in Int /\ d.day <= Today'
  <2>1. ASSUME NEW p \in Processes, Propose(p), NEW d \in drafts'
        PROVE  d.day \in Int /\ d.day <= Today'
    <3>1. out[p].day = Today
      BY <2>1 DEF Propose, CacheInv
    <3>2. d \in drafts \/ d.day = out[p].day
      BY <2>1 DEF Propose
    <3>3. QED
      BY <1>1, <1>2, <3>1, <3>2 DEF CacheInv
  <2>2. CASE UNCHANGED drafts
    BY <1>1, <1>2, <2>2 DEF CacheInv
  <2>3. QED
    BY <2>1, <2>2, Changes
<1>4. ASSUME NEW q \in Processes, pc'[q] = "propose"
      PROVE  /\ out'[q].day = Today'
             /\ seen'[q].live = Live(Loaded(seen'[q].read, {}), Today')
  <2>1. UNCHANGED clock /\ Today' = Today
    <3>1. ~Tick
      BY <1>4, Frames DEF Tick, Alive
    <3>2. QED
      BY <3>1, Changes DEF Today
  <2>2. CASE LoadCache(q)
    <3>1. seen' = [seen EXCEPT ![q] =
             [read |-> cache, live |-> Live(Loaded(cache, {}), Today)]]
      <4>1. ~Quit(q, 1)
        BY <1>4, QuitEffect
      <4>2. QED
        BY <2>2, <4>1 DEF LoadCache
    <3>2. /\ seen'[q].read = cache
          /\ seen'[q].live = Live(Loaded(cache, {}), Today)
      BY <3>1 DEF Shape, Moves
    <3>3. QED
      BY <2>1, <2>2, <3>2, LoadOut
  <2>3. CASE pc[q] = "propose" /\ seen'[q] = seen[q] /\ out'[q] = out[q]
    BY <2>1, <2>3 DEF CacheInv
  <2>4. ASSUME NEW p \in Processes, Start(p) \/ Step(p) \/ Crash(p), p # q
        PROVE  pc[q] = "propose" /\ seen'[q] = seen[q] /\ out'[q] = out[q]
    BY <1>4, <2>4, OthersStay
  <2>5. CASE Start(q) \/ Step(q) \/ Crash(q)
    <3>1. ~Start(q)
      BY <1>4, OwnMoves, JobFacts, BeginsSomewhere
    <3>2. QED
      BY <1>4, <2>2, <2>5, <3>1, OwnMoves DEF Step
  <2>6. QED
    BY <1>4, <2>3, <2>4, <2>5, WhoSteps
<1>5. ~raced' => DraftedOnce' /\ \A d \in drafts' : Remembered(d)'
  <2>1. ASSUME UNCHANGED <<cache, raced, drafts>>, ~raced'
        PROVE  DraftedOnce' /\ \A d \in drafts' : Remembered(d)'
    <3>1. DraftedOnce'
      BY <2>1 DEF CacheInv, DraftedOnce
    <3>2. ASSUME NEW d \in drafts
          PROVE  Remembered(d)'
      BY <1>1, <1>2, <2>1 DEF CacheInv, Remembered
    <3>3. QED
      BY <2>1, <3>1, <3>2
  <2>2. QED
    BY <2>1, StepDrafts, Changes
<1>6. QED
  BY <1>3, <1>4, <1>5 DEF CacheInv

----------------------------------------------------------------------------
(* The cost baseline.                                                      *)

\* Of the costs the last ones are kept.
LEMMA ChargedFits ==
  ASSUME NEW units \in Seq(Nat)
  PROVE  /\ Charged(units) \in Seq(Nat)
         /\ Len(Charged(units)) <= BaselinesKept
<1> DEFINE next == Append(units, TurnUnits)
           n == Len(next)
<1>1. next \in Seq(Nat) /\ n \in Nat
  BY DEF TurnUnits
<1>2. BaselinesKept \in Nat
  BY ActionsAssumption
<1>3. Charged(units) = IF n > BaselinesKept
                       THEN SubSeq(next, n - BaselinesKept + 1, n) ELSE next
  BY DEF Charged
<1> HIDE DEF next, n
<1>4. CASE n > BaselinesKept
  <2> DEFINE m == n - BaselinesKept + 1
  <2>1. m \in Int /\ m >= 1 /\ m <= n + 1 /\ n - m + 1 = BaselinesKept
    BY <1>1, <1>2, <1>4
  <2>2. \A i \in m..n : next[i] \in Nat
    <3>1. \A i \in 1..n : next[i] \in Nat
      BY <1>1 DEF n
    <3>2. QED
      BY <1>1, <2>1, <3>1
  <2> HIDE DEF m
  <2>3. /\ SubSeq(next, m, n) \in Seq(Nat)
        /\ Len(SubSeq(next, m, n)) = IF m <= n THEN n - m + 1 ELSE 0
    BY <1>1, <2>1, <2>2, SubSeqProperties
  <2>4. Len(SubSeq(next, m, n)) <= BaselinesKept
    BY <1>1, <1>2, <2>1, <2>3
  <2>5. QED
    BY <1>3, <1>4, <2>3, <2>4 DEF m
<1>5. CASE ~(n > BaselinesKept)
  BY <1>1, <1>2, <1>3, <1>5 DEF n
<1>6. QED
  BY <1>4, <1>5

LEMMA StepBase ==
  ASSUME Shape, KindInv, BaseInv, [Next]_vars
  PROVE  BaseInv'
<1>1. /\ baseline'.state \in {"absent", "torn", "newer", "ok"}
      /\ baseline'.entries \in Seq(Nat)
      /\ Len(baseline'.entries) <= BaselinesKept
  <2>1. ASSUME NEW p \in Processes, Charge(p)
        PROVE  \/ UNCHANGED baseline
               \/ /\ seen[p].units \in Seq(Nat)
                  /\ baseline' = [state |-> "ok",
                                  entries |-> Charged(seen[p].units)]
    BY <2>1 DEF Charge, BaseInv, File
  <2>2. ASSUME NEW p \in Processes, seen[p].units \in Seq(Nat),
               baseline' = [state |-> "ok", entries |-> Charged(seen[p].units)]
        PROVE  /\ baseline'.state \in {"absent", "torn", "newer", "ok"}
               /\ baseline'.entries \in Seq(Nat)
               /\ Len(baseline'.entries) <= BaselinesKept
    BY <2>2, ChargedFits
  <2>3. CASE UNCHANGED baseline
    BY <2>3 DEF BaseInv
  <2>4. QED
    BY <2>1, <2>2, <2>3, Changes
<1>2. ASSUME NEW q \in Processes, pc'[q] = "charge"
      PROVE  seen'[q].units \in Seq(Nat)
  <2>1. CASE Collect(q)
    <3>1. seen' = [seen EXCEPT ![q] = [units |-> Loaded(baseline, <<>>)]]
      <4>1. ~Goto(q, "wait") /\ ~Goto(q, "digest")
        BY <1>2, GotoEffect
      <4>2. QED
        BY <2>1, <4>1 DEF Collect
    <3>2. seen'[q].units = Loaded(baseline, <<>>)
      BY <3>1 DEF Shape, Moves
    <3>3. QED
      BY <3>2 DEF Loaded, BaseInv
  <2>2. ASSUME NEW p \in Processes, Start(p) \/ Step(p) \/ Crash(p), p # q
        PROVE  pc[q] = "charge" /\ seen'[q] = seen[q]
    BY <1>2, <2>2, OthersStay
  <2>3. CASE Start(q) \/ Step(q) \/ Crash(q)
    <3>1. ~Start(q)
      BY <1>2, OwnMoves, JobFacts, BeginsSomewhere
    <3>2. QED
      BY <1>2, <2>1, <2>3, <3>1, OwnMoves DEF Step
  <2>4. CASE pc[q] = "charge" /\ seen'[q] = seen[q]
    BY <2>4 DEF BaseInv
  <2>5. QED
    BY <1>2, <2>2, <2>3, <2>4, WhoSteps
<1>3. QED
  BY <1>1, <1>2 DEF BaseInv

----------------------------------------------------------------------------
(* The theorems.                                                           *)

LEMMA InitInv == Init => EvolveInv
<1> SUFFICES ASSUME Init PROVE EvolveInv
  OBVIOUS
<1>1. PICK plan \in Plans :
        /\ clock = plan.from /\ job = plan.job
        /\ baseline = File(plan.files, <<>>)
        /\ cache = File(plan.files, {})
        /\ log = File(plan.files, <<>>)
  BY DEF Init
<1>2. /\ lock = None /\ ledger = <<>>
      /\ \A d \in DOMAIN digest : digest[d] = None
      /\ pc = [p \in Processes |-> "off"]
      /\ leg = [p \in Processes |-> "register"]
      /\ tries = [p \in Processes |-> 0]
      /\ seen = [p \in Processes |-> None]
      /\ out = [p \in Processes |-> NoOut]
      /\ exit = [p \in Processes |-> -1]
      /\ robbed = {} /\ raced = FALSE /\ drafts = {} /\ faults = 0
  BY DEF Init
<1>3. /\ DOMAIN NoOut = OutFields /\ NoOut.status = "running"
      /\ NoOut.calls = 0
  BY DEF NoOut, OutFields
<1>4. Shape
  <2>1. Moves
    BY <1>2, EvolveAssumption DEF Moves, Places, Legs
  <2>2. Findings
    BY <1>2, <1>3 DEF Findings, Statuses
  <2>3. Setting
    BY <1>1, <1>2, PlansAssumption DEF Setting
  <2>4. QED
    BY <2>1, <2>2, <2>3 DEF Shape
<1>5. KindInv
  BY <1>2 DEF KindInv, RunPlaces
<1>6. IsList(<<>>) /\ RunList(<<>>) /\ Spaced(<<>>) /\ \A p : ~Lists(<<>>, p)
  BY DEF IsList, RunList, OnceEach, Spaced, Weekly, Lists
<1>7. ListInv
  <2>1. RunList(ledger) /\ \A p : ~Lists(ledger, p)
    BY <1>2, <1>6
  <2>2. QED
    BY <1>2, <2>1 DEF ListInv
<1>8. LockInv /\ KeepInv
  BY <1>2 DEF LockInv, KeepInv, Holds, Entered, Closed, Ran
<1>9. SourceInv
  BY <1>2 DEF SourceInv, Ran
<1>10. ForkInv
  BY <1>2, <1>3 DEF ForkInv
<1>11. LogInv
  <2>1. log.entries = <<>>
    BY <1>1 DEF File
  <2>2. QED
    BY <1>2, <1>6, <2>1 DEF LogInv
<1>12. CacheInv
  BY <1>2 DEF CacheInv, DraftedOnce
<1>13. BaseInv
  <2>1. baseline.state = plan.files /\ baseline.entries = <<>>
    BY <1>1 DEF File
  <2>2. BaselinesKept \in Nat
    BY ActionsAssumption
  <2>3. QED
    BY <1>2, <2>1, <2>2, PlansAssumption DEF BaseInv
<1>14. QED
  BY <1>4, <1>5, <1>7, <1>8, <1>9, <1>10, <1>11, <1>12, <1>13 DEF EvolveInv

\* Places, lists, lock, findings and files of daily-evolve always agree.
THEOREM EvolveInvariant == Spec => []EvolveInv
<1>1. EvolveInv /\ [Next]_vars => EvolveInv'
  BY StepShape, StepKind, StepList, StepLock, StepKeep, StepSource, StepFork,
     StepLog, StepCache, StepBase DEF EvolveInv
<1>2. QED
  BY <1>1, InitInv, PTL DEF Spec

\* The variables keep to their types; the costs kept are the last ones.
THEOREM TypeInvariant == Spec => []TypeOK
<1>1. ASSUME EvolveInv
      PROVE  TypeOK
  <2>1. Shape /\ ListInv /\ BaseInv
    BY <1>1 DEF EvolveInv
  <2>2. clock \in 1..Len(Days)
    BY <2>1, EvolveAssumption DEF Shape, Setting
  <2>3. \A i \in DOMAIN ledger :
          ledger[i].run \in Processes /\ ledger[i].status \in Statuses
    BY <2>1 DEF ListInv, RunList
  <2>4. /\ baseline.state \in {"absent", "torn", "newer", "ok"}
        /\ Len(baseline.entries) <= BaselinesKept
    BY <2>1 DEF BaseInv
  <2>5. lock = None \/ lock \in [by : Processes, leg : {"register", "finalize"},
                                 old : BOOLEAN]
    BY <2>1 DEF Shape, Setting, Locks, Legs
  <2>6. /\ pc \in [Processes -> Places]
        /\ leg \in [Processes -> {"register", "finalize"}]
        /\ tries \in [Processes -> 0..MaxTries]
        /\ exit \in [Processes -> {-1, 0, 1, 2}]
        /\ robbed \subseteq Processes /\ raced \in BOOLEAN
    BY <2>1 DEF Shape, Moves, Setting, Legs
  <2>7. QED
    BY <2>2, <2>3, <2>4, <2>5, <2>6 DEF TypeOK
<1>2. QED
  BY <1>1, EvolveInvariant, PTL

\* However the legs of runs interleave and whoever takes a lock from whom, the
\* ledger has no run twice (codex-companion.mjs:3339).
THEOREM RunsListedOnce == Spec => []OneEntryPerRun
<1>1. EvolveInv => OneEntryPerRun
  BY DEF EvolveInv, ListInv, RunList, OnceEach, OneEntryPerRun
<1>2. QED
  BY <1>1, EvolveInvariant, PTL

\* While no lock is taken from a live owner, no entry is lost and each stays
\* as its run left it (codex-companion.mjs:3081).
THEOREM EntriesKept == Spec => []LedgerKeeps
<1>1. ASSUME EvolveInv
      PROVE  LedgerKeeps
  <2>1. faults = 0 => robbed = {}
    BY <1>1 DEF EvolveInv, LockInv
  <2>2. ASSUME robbed = {}, NEW p \in Processes
        PROVE  /\ Registered(p) => \E i \in DOMAIN ledger : ledger[i].run = p
               /\ Ran(p) /\ exit[p] \in {0, 2} =>
                    \E i \in DOMAIN ledger : ledger[i] = Entry(p)
    BY <1>1, <2>2 DEF EvolveInv, KeepInv, Registered, Entered, Closed, Lists
  <2>3. QED
    BY <2>1, <2>2 DEF LedgerKeeps
<1>2. QED
  BY <1>1, EvolveInvariant, PTL

\* Every source is accounted for by its records or its failure, and a login
\* that is not good is told (source-aggregator.mjs:343).
THEOREM SourcesTold == Spec => []SourcesAccounted
<1>1. ASSUME EvolveInv
      PROVE  SourcesAccounted
  <2>1. SourceInv
    BY <1>1 DEF EvolveInv
  <2>2. QED
    BY <2>1 DEF SourceInv, Told, SourcesAccounted
<1>2. QED
  BY <1>1, EvolveInvariant, PTL

\* Whatever forks GitHub lists, the research keeps to its budget and spends it
\* on those with the most stars (fork-research.mjs:271).
THEOREM BudgetKept == Spec => []ForksWithinBudget
<1>1. ASSUME EvolveInv
      PROVE  ForksWithinBudget
  <2>1. SUFFICES ASSUME NEW p \in Processes, Ran(p), out[p].calls > 0
                 PROVE  LET forks == job[p].forks
                            budget == job[p].budget
                        IN /\ out[p].calls <= budget \/ out[p].calls = 1
                           /\ \A k \in out[p].looked,
                                 i \in Eligible(forks) \ out[p].looked :
                                forks[k].stars >= forks[i].stars
    BY DEF ForksWithinBudget
  <2>2. job[p].kind = "run" /\ out[p].calls # 0
    BY <2>1 DEF Ran
  <2>3. /\ out[p].looked = Enriched(job[p].forks, job[p].budget)
        /\ out[p].calls = ApiCalls(job[p].forks, job[p].budget)
    BY <1>1, <2>2 DEF EvolveInv, ForkInv
  <2>4. ForkList(job[p].forks) /\ job[p].budget \in Nat
    BY <1>1, <2>2, JobFacts DEF EvolveInv
  <2>5. QED
    BY <2>3, <2>4, CallsWithinBudget, BudgetToTheBest
<1>2. QED
  BY <1>1, EvolveInvariant, PTL

\* A draft is not proposed again within its week, unless executions saved the
\* cache over each other; a weekly review that is not forced keeps its week
\* (action-executor.mjs:142, self-evolve-policy.mjs:200).
THEOREM WeeksKept == Spec => []WeekKept
<1>1. ASSUME EvolveInv
      PROVE  WeekKept
  <2>1. DraftedOnce
    BY <1>1 DEF EvolveInv, CacheInv, DraftedOnce
  <2>2. Spaced(log.entries)
    BY <1>1 DEF EvolveInv, LogInv
  <2>3. WeeklySpaced
    BY <2>2 DEF Spaced, WeeklySpaced
  <2>4. QED
    BY <2>1, <2>3 DEF WeekKept
<1>2. QED
  BY <1>1, EvolveInvariant, PTL

============================================================================
