------------------------------ MODULE DirLock ------------------------------
(***************************************************************************)
(* The cross-process lock of lib/state.mjs: a directory made with mkdir    *)
(* that holds an `owner` file with the pid of its maker.  The state lock   *)
(* (.lock) and the broker lock (.broker.lock) are two instances of it.     *)
(*                                                                         *)
(* Every file system call is a step of its own, since any process may run  *)
(* between two of them: mkdir, then the write of the owner file; a waiter  *)
(* reads the owner file, then judges the directory stale (its owner gone,  *)
(* or older than STALE_LOCK_MS), then removes whatever is there.           *)
(*                                                                         *)
(* The lock is not exclusive: a waiter may look between mkdir and the      *)
(* owner file, the directory it judged may be another one by the time it   *)
(* removes it, and a live holder may keep the lock over STALE_LOCK_MS.     *)
(* Two history variables, which no guard reads, record who has lost the    *)
(* lock that way and whose reading is outdated, so that the properties can *)
(* say exactly how much of the exclusion is left.                          *)
(***************************************************************************)
EXTENDS Integers

CONSTANTS Procs,    \* processes that use the lock
          NoProc,   \* no pid in the owner file, or no owner file
          MaxTries  \* LOCK_RETRY_COUNT

ASSUME ProcAssumption == NoProc \notin Procs
ASSUME TriesAssumption == MaxTries \in Nat \ {0}

VARIABLES
  dir,    \* the lock directory: there, its owner file, and older than 30 s
  pc,     \* where each process is in its use of the lock
  seen,   \* the owner a waiter has read
  tries,  \* the attempts of the current acquisition that failed
  alive,  \* isPidRunning of each process's pid
  \* History.
  robbed,  \* those who took the lock and lost it through one of the gaps
  outdated \* waiters whose reading is of a directory that has since changed

history == <<robbed, outdated>>
vars == <<dir, pc, seen, tries, alive, robbed, outdated>>

MaybeProc == Procs \union {NoProc}
Directory == [there : BOOLEAN, owner : MaybeProc, old : BOOLEAN]
NoDir     == [there |-> FALSE, owner |-> NoProc, old |-> FALSE]
Steps     == {"idle", "trying", "made", "holding", "reading", "judging",
              "removing", "crashed"}

TypeOK ==
  /\ dir \in Directory
  /\ pc \in [Procs -> Steps]
  /\ seen \in [Procs -> MaybeProc]
  /\ tries \in [Procs -> 0 .. MaxTries]
  /\ alive \in [Procs -> BOOLEAN]
  /\ robbed \subseteq Procs
  /\ outdated \subseteq Procs

Init ==
  /\ dir = NoDir
  /\ pc = [p \in Procs |-> "idle"]
  /\ seen = [p \in Procs |-> NoProc]
  /\ tries = [p \in Procs |-> 0]
  /\ alive = [p \in Procs |-> TRUE]
  /\ robbed = {}
  /\ outdated = {}

----------------------------------------------------------------------------
Goto(p, step) == pc' = [pc EXCEPT ![p] = step]

At(steps) == {p \in Procs : pc[p] \in steps}
Waiters == At({"judging", "removing"})
Takers  == At({"made", "holding"})

\* What waiter p is about to remove is not a stale lock it has read: it read
\* an earlier directory, or this one before its owner file was there, or the
\* directory is over STALE_LOCK_MS old although its owner is alive.
ThroughGap(p) ==
  /\ pc[p] = "removing"
  /\ p \in outdated \/ seen[p] = NoProc \/ dir.old

\* Who loses the lock when p removes or overwrites whatever directory is
\* there: everyone else who took it, if p does so through a gap or has lost
\* the lock itself and does not know it.
RobbedBy(p) ==
  IF p \in robbed \/ ThroughGap(p) THEN Takers \ {p} ELSE {}

\* Every reading but p's own is now of an earlier directory.
Outdate(p) == outdated' = (outdated \union Waiters) \ {p}

Start(p) ==
  /\ pc[p] = "idle"
  /\ Goto(p, "trying")
  /\ tries' = [tries EXCEPT ![p] = 0]
  /\ UNCHANGED <<dir, seen, alive, history>>

\* Mutant: mkdir does not mind that the directory exists.
MkdirRecursive(p) ==
  /\ pc[p] = "trying"
  /\ Goto(p, "made")
  /\ dir' = IF dir.there THEN dir ELSE [NoDir EXCEPT !.there = TRUE]
  /\ Outdate(p)
  /\ UNCHANGED <<seen, tries, alive, robbed>>

\* mkdir: it makes the directory, or fails with EEXIST.
Mkdir(p) ==
  /\ pc[p] = "trying"
  /\ IF dir.there
     THEN Goto(p, "reading") /\ UNCHANGED <<dir, outdated>>
     ELSE /\ Goto(p, "made")
          /\ dir' = [NoDir EXCEPT !.there = TRUE]
          /\ Outdate(p)
  /\ UNCHANGED <<seen, tries, alive, robbed>>

\* The owner file is written into whatever directory is there now, be it
\* another's; without one the write throws and the caller's operation fails.
\* Creating the file refreshes the directory's mtime, overwriting does not.
WriteOwner(p) ==
  /\ pc[p] = "made"
  /\ IF dir.there
     THEN /\ Goto(p, "holding")
          /\ dir' = [there |-> TRUE, owner |-> p,
                     old |-> IF dir.owner = NoProc THEN FALSE ELSE dir.old]
          /\ robbed' = robbed \union RobbedBy(p)
          /\ Outdate(p)
     ELSE /\ Goto(p, "idle")
          /\ robbed' = robbed \ {p}
          /\ UNCHANGED <<dir, outdated>>
  /\ UNCHANGED <<seen, tries, alive>>

ReadOwner(p) ==
  /\ pc[p] = "reading"
  /\ seen' = [seen EXCEPT ![p] = dir.owner]
  /\ outdated' = outdated \ {p}
  /\ Goto(p, "judging")
  /\ UNCHANGED <<dir, tries, alive, robbed>>

\* Mutant: one attempt too many.
NextTryOnceMore(p) ==
  /\ tries' = [tries EXCEPT ![p] = @ + 1]
  /\ seen' = [seen EXCEPT ![p] = NoProc]
  /\ Goto(p, IF tries[p] < MaxTries THEN "trying" ELSE "idle")

\* The attempt failed: another one after LOCK_RETRY_DELAY_MS, or the caller's
\* operation fails with a timeout.  The reading is forgotten.
NextTry(p) ==
  /\ tries' = [tries EXCEPT ![p] = @ + 1]
  /\ seen' = [seen EXCEPT ![p] = NoProc]
  /\ Goto(p, IF tries[p] + 1 < MaxTries THEN "trying" ELSE "idle")

OwnerAlive(p) == seen[p] # NoProc /\ alive[seen[p]]

\* Mutant: the age does not count.
StaleByOwner(p) == dir.there /\ ~OwnerAlive(p)

Stale(p) == dir.there /\ (OwnerAlive(p) => dir.old)

Judge(p) ==
  /\ pc[p] = "judging"
  /\ \/ /\ Stale(p)
        /\ Goto(p, "removing")
        /\ UNCHANGED <<tries, seen, outdated>>
     \/ ~Stale(p) /\ NextTry(p) /\ outdated' = outdated \ {p}
  /\ UNCHANGED <<dir, alive, robbed>>

Remove(p) ==
  /\ pc[p] = "removing"
  /\ dir' = NoDir
  /\ robbed' = (robbed \ {p}) \union RobbedBy(p)
  /\ Outdate(p)
  /\ NextTry(p)
  /\ UNCHANGED alive

\* The holder is done: it removes whatever directory is there, be it
\* another's.
Release(p) ==
  /\ pc[p] = "holding"
  /\ dir' = NoDir
  /\ robbed' = (robbed \ {p}) \union RobbedBy(p)
  /\ Outdate(p)
  /\ Goto(p, "idle")
  /\ UNCHANGED <<seen, tries, alive>>

----------------------------------------------------------------------------
\* The environment.

Crash(p) ==
  /\ pc[p] # "crashed"
  /\ Goto(p, "crashed")
  /\ alive' = [alive EXCEPT ![p] = FALSE]
  /\ robbed' = robbed \ {p}
  /\ outdated' = outdated \ {p}
  /\ UNCHANGED <<dir, seen, tries>>

\* Another program gets, or gives up, the pid of a crashed process.
PidReuse(p) ==
  /\ pc[p] = "crashed"
  /\ alive' = [alive EXCEPT ![p] = ~@]
  /\ UNCHANGED <<dir, pc, seen, tries, history>>

\* STALE_LOCK_MS pass since the directory was last touched.
GrowOld ==
  /\ dir.there /\ ~dir.old
  /\ dir' = [dir EXCEPT !.old = TRUE]
  /\ UNCHANGED <<pc, seen, tries, alive, history>>

----------------------------------------------------------------------------
Work(p) ==
  \/ Mkdir(p) \/ WriteOwner(p) \/ ReadOwner(p) \/ Judge(p) \/ Remove(p)
  \/ Release(p)

Next ==
  \/ \E p \in Procs : Start(p) \/ Work(p) \/ Crash(p) \/ PidReuse(p)
  \/ GrowOld

Spec == Init /\ [][Next]_vars

\* A process that began goes on until it is done or crashes; time passes.
FairSpec == Spec /\ (\A p \in Procs : WF_vars(Work(p))) /\ WF_vars(GrowOld)

----------------------------------------------------------------------------
\* Properties.

\* Two processes are inside the locked section of withStateLock or
\* withBrokerLock at once only if one of them has lost its directory, and then
\* to a waiter that removed it through one of the three gaps (it judged an
\* earlier directory, looked before the owner file was written, or found it
\* over STALE_LOCK_MS old), or to a process that had itself lost its own.
MutualExclusion ==
  \A p, q \in At({"holding"}) \ robbed : p = q

\* A directory nobody alive is going to remove.
Orphan == dir.there /\ Takers = {}

\* A crashed process does not lock the others out for ever, wherever it
\* crashed and whoever has its pid now: as long as waiters keep looking at the
\* lock, an orphaned directory is removed.
OrphanCleared ==
  []<>(At({"judging"}) # {}) => (Orphan ~> ~Orphan)

\* What the directory tells of the processes: who took the lock and was not
\* robbed has its directory and is the only one, and a reading that is not
\* outdated is of the directory that is there.
LockInv ==
  /\ \A p \in Procs : pc[p] # "crashed" => alive[p]
  /\ robbed \subseteq Takers
  /\ outdated \subseteq Waiters
  /\ \A p \in Takers \ robbed : dir.there
  /\ \A p \in At({"holding"}) \ robbed : dir.owner = p
  /\ \A p \in At({"made"}) \ robbed : dir.owner = NoProc
  /\ \A p, q \in Takers \ robbed : p = q
  /\ \A q \in Waiters \ outdated : seen[q] = dir.owner
  /\ \A q \in At({"removing"}) \ outdated :
       seen[q] = NoProc \/ dir.old \/ pc[seen[q]] = "crashed"
============================================================================
