--------------------------- MODULE DirLockProofs ---------------------------
(***************************************************************************)
(* Proofs about DirLock for any set of processes and any number of tries:  *)
(* type correctness, and that two processes hold the lock at once only     *)
(* after one of them was robbed of it through one of the lock's three      *)
(* gaps.  That is not inductive: LockInv adds what the directory tells of  *)
(* the processes.                                                          *)
(***************************************************************************)
EXTENDS DirLock, TLAPS

\* A process under way has tries left.  With TypeOK it is inductive.
TriesLeft ==
  \A p \in Procs :
    pc[p] \in {"trying", "reading", "judging", "removing"}
      => tries[p] < MaxTries

\* Every step of the lock keeps the types and leaves tries to those who go on.
LEMMA TypeStep ==
  ASSUME TypeOK, TriesLeft, [Next]_vars
  PROVE  TypeOK' /\ TriesLeft'
<1> USE ProcAssumption, TriesAssumption
    DEF At, Takers, Waiters, Outdate, RobbedBy, history
<1>1. ASSUME NEW p \in Procs, Start(p)
      PROVE  TypeOK' /\ TriesLeft'
  BY <1>1 DEF TypeOK, TriesLeft, Start, Goto, Steps
<1>2. ASSUME NEW p \in Procs, Mkdir(p)
      PROVE  TypeOK' /\ TriesLeft'
  <2>1. dir' \in Directory /\ outdated' \subseteq Procs
    BY <1>2 DEF TypeOK, Mkdir, Directory, NoDir, MaybeProc
  <2>2. pc' \in [Procs -> Steps] /\ TriesLeft'
    BY <1>2 DEF TypeOK, TriesLeft, Mkdir, Goto, Steps
  <2> QED
    BY <1>2, <2>1, <2>2 DEF TypeOK, Mkdir
<1>3. ASSUME NEW p \in Procs, WriteOwner(p)
      PROVE  TypeOK' /\ TriesLeft'
  <2>1. dir' \in Directory
    <3>1. CASE dir.there
      <4> DEFINE old == IF dir.owner = NoProc THEN FALSE ELSE dir.old
      <4>1. old \in BOOLEAN
        BY DEF TypeOK, Directory
      <4>2. dir' = [there |-> TRUE, owner |-> p, old |-> old]
        BY <1>3, <3>1 DEF WriteOwner
      <4> HIDE DEF old
      <4> QED
        BY <4>1, <4>2 DEF Directory, MaybeProc
    <3>2. CASE ~dir.there
      BY <1>3, <3>2 DEF TypeOK, WriteOwner
    <3> QED
      BY <3>1, <3>2
  <2>2. robbed' \subseteq Procs /\ outdated' \subseteq Procs
    BY <1>3 DEF TypeOK, WriteOwner
  <2>3. pc' \in [Procs -> Steps] /\ TriesLeft'
    BY <1>3 DEF TypeOK, TriesLeft, WriteOwner, Goto, Steps
  <2> QED
    BY <1>3, <2>1, <2>2, <2>3 DEF TypeOK, WriteOwner
<1>4. ASSUME NEW p \in Procs, ReadOwner(p)
      PROVE  TypeOK' /\ TriesLeft'
  BY <1>4 DEF TypeOK, TriesLeft, ReadOwner, Goto, Steps, Directory
<1>5. ASSUME NEW p \in Procs, Judge(p)
      PROVE  TypeOK' /\ TriesLeft'
  BY <1>5 DEF TypeOK, TriesLeft, Judge, NextTry, Goto, Steps,
              MaybeProc
<1>6. ASSUME NEW p \in Procs, Remove(p)
      PROVE  TypeOK' /\ TriesLeft'
  BY <1>6 DEF TypeOK, TriesLeft, Remove, NextTry, Goto, Steps, Directory,
              NoDir, MaybeProc
<1>7. ASSUME NEW p \in Procs, Release(p)
      PROVE  TypeOK' /\ TriesLeft'
  BY <1>7 DEF TypeOK, TriesLeft, Release, Goto, Steps, Directory, NoDir,
              MaybeProc
<1>8. ASSUME NEW p \in Procs, Crash(p)
      PROVE  TypeOK' /\ TriesLeft'
  BY <1>8 DEF TypeOK, TriesLeft, Crash, Goto, Steps
<1>9. ASSUME NEW p \in Procs, PidReuse(p)
      PROVE  TypeOK' /\ TriesLeft'
  BY <1>9 DEF TypeOK, TriesLeft, PidReuse
<1>10. CASE GrowOld
  BY <1>10 DEF TypeOK, TriesLeft, GrowOld, Directory
<1>11. CASE UNCHANGED vars
  BY <1>11 DEF TypeOK, TriesLeft, vars
<1> QED
  BY <1>1, <1>2, <1>3, <1>4, <1>5, <1>6, <1>7, <1>8, <1>9, <1>10, <1>11
  DEF Next, Work

\* The lock's variables stay well typed (lib/state.mjs:369-413).
THEOREM TypeInvariant == Spec => []TypeOK
<1>1. Init => TypeOK /\ TriesLeft
  BY TriesAssumption
  DEF Init, TypeOK, TriesLeft, Directory, NoDir, MaybeProc, Steps
<1>2. TypeOK /\ TriesLeft /\ [Next]_vars => TypeOK' /\ TriesLeft'
  BY TypeStep
<1> QED
  BY <1>1, <1>2, PTL DEF Spec

----------------------------------------------------------------------------
\* Every step keeps LockInv, whatever gap it goes through.
LEMMA LockStep ==
  ASSUME TypeOK, LockInv, [Next]_vars
  PROVE  LockInv'
<1> USE ProcAssumption
    DEF TypeOK, LockInv, Goto, At, Takers, Waiters, Outdate, history
<1>1. ASSUME NEW p \in Procs, Start(p)
      PROVE  LockInv'
  BY <1>1 DEF Start
<1>2. ASSUME NEW p \in Procs, Mkdir(p)
      PROVE  LockInv'
  <2>1. CASE dir.there
    <3>1. Takers' = Takers /\ Waiters' = Waiters /\ UNCHANGED dir
      BY <1>2, <2>1 DEF Mkdir
    <3>2. At({"made"})' = At({"made"}) /\ At({"holding"})' = At({"holding"})
          /\ At({"removing"})' = At({"removing"})
      BY <1>2, <2>1 DEF Mkdir
    <3>3. \A q \in Procs : pc[q] = "crashed" <=> pc'[q] = "crashed"
      BY <1>2, <2>1 DEF Mkdir
    <3> QED
      BY <1>2, <2>1, <3>1, <3>2, <3>3 DEF Mkdir, MaybeProc
  <2>2. CASE ~dir.there
    \* Whoever took the lock before has been robbed of it.
    <3>1. Takers \subseteq robbed
      BY <2>2
    <3>2. Waiters' = Waiters /\ outdated' = Waiters
      BY <1>2, <2>2 DEF Mkdir
    <3> QED
      BY <1>2, <2>2, <3>1, <3>2 DEF Mkdir, NoDir, Directory
  <2> QED
    BY <2>1, <2>2
<1>3. ASSUME NEW p \in Procs, WriteOwner(p)
      PROVE  LockInv'
  <2>1. CASE ~dir.there
    <3>1. Takers \subseteq robbed
      BY <2>1
    <3>2. robbed' = robbed \ {p} /\ Takers' = Takers \ {p}
      BY <1>3, <2>1 DEF WriteOwner
    <3>3. Waiters' = Waiters /\ At({"removing"})' = At({"removing"})
      BY <1>3, <2>1 DEF WriteOwner
    <3>4. \A q \in Procs : pc[q] = "crashed" <=> pc'[q] = "crashed"
      BY <1>3, <2>1 DEF WriteOwner
    <3> QED
      BY <1>3, <2>1, <3>1, <3>2, <3>3, <3>4 DEF WriteOwner, MaybeProc
  <2>2. CASE dir.there
    <3>1. outdated' = Waiters'
      BY <1>3, <2>2 DEF WriteOwner
    \* Whoever else took the lock was robbed of it before, or is so now.
    <3>2. (Takers \ robbed)' = IF p \in robbed THEN {} ELSE {p}
      BY <1>3, <2>2 DEF WriteOwner, RobbedBy, ThroughGap
    <3>3. dir'.there /\ dir'.owner = p
      BY <1>3, <2>2 DEF WriteOwner, Directory
    <3>4. (robbed \subseteq Takers)'
      BY <1>3, <2>2 DEF WriteOwner, RobbedBy, ThroughGap
    <3> QED
      BY <1>3, <2>2, <3>1, <3>2, <3>3, <3>4 DEF WriteOwner
  <2> QED
    BY <2>1, <2>2
<1>4. ASSUME NEW p \in Procs, ReadOwner(p)
      PROVE  LockInv'
  BY <1>4 DEF ReadOwner
<1>5. ASSUME NEW p \in Procs, Judge(p)
      PROVE  LockInv'
  <2>1. CASE Stale(p) /\ Goto(p, "removing") /\ UNCHANGED <<tries, seen,
                                                            outdated>>
    \* The owner it read is gone, or the directory is old.
    <3>1. seen[p] = NoProc \/ dir.old \/ pc[seen[p]] = "crashed"
      BY <2>1 DEF Stale, OwnerAlive, MaybeProc
    <3> QED
      BY <1>5, <2>1, <3>1 DEF Judge, MaybeProc
  <2>2. CASE NextTry(p) /\ outdated' = outdated \ {p}
    BY <1>5, <2>2 DEF Judge, NextTry
  <2> QED
    BY <1>5, <2>1, <2>2 DEF Judge
<1>6. ASSUME NEW p \in Procs, Remove(p)
      PROVE  LockInv'
  <2>1. outdated' = Waiters'
    BY <1>6 DEF Remove, NextTry
  \* Who still has the lock would be the owner p read, and alive.
  <2>2. CASE ~ThroughGap(p)
    <3>1. seen[p] = dir.owner /\ pc[seen[p]] = "crashed" /\ seen[p] # NoProc
      BY <1>6, <2>2 DEF Remove, ThroughGap
    <3>2. Takers \subseteq robbed
      BY <3>1
    <3> QED
      BY <1>6, <2>1, <2>2, <3>2 DEF Remove, NextTry, RobbedBy
  <2>3. CASE ThroughGap(p)
    <3>1. robbed' = Takers'
      BY <1>6, <2>3 DEF Remove, NextTry, RobbedBy
    <3> QED
      BY <1>6, <2>1, <3>1 DEF Remove, NextTry
  <2> QED
    BY <2>2, <2>3
<1>7. ASSUME NEW p \in Procs, Release(p)
      PROVE  LockInv'
  <2>1. outdated' = Waiters'
    BY <1>7 DEF Release
  <2>2. (Takers \ robbed)' = {}
    BY <1>7 DEF Release, RobbedBy, ThroughGap
  <2>3. (robbed \subseteq Takers)'
    BY <1>7 DEF Release, RobbedBy, ThroughGap
  <2> QED
    BY <1>7, <2>1, <2>2, <2>3 DEF Release
<1>8. ASSUME NEW p \in Procs, Crash(p)
      PROVE  LockInv'
  BY <1>8 DEF Crash
<1>9. ASSUME NEW p \in Procs, PidReuse(p)
      PROVE  LockInv'
  BY <1>9 DEF PidReuse
<1>10. CASE GrowOld
  BY <1>10 DEF GrowOld, Directory
<1>11. CASE UNCHANGED vars
  BY <1>11 DEF vars
<1> QED
  BY <1>1, <1>2, <1>3, <1>4, <1>5, <1>6, <1>7, <1>8, <1>9, <1>10, <1>11
  DEF Next, Work

\* Two processes are inside the locked section together only after a waiter
\* took the directory from one of them by what it had read of an earlier one,
\* by looking between its mkdir and its owner file, or because it was over
\* STALE_LOCK_MS old, or after one robbed like that went on as if it were not:
\* the three gaps are all there is, in any order, with any number of
\* processes, crashes and reused pids (lib/state.mjs:369-400).
THEOREM Exclusion == Spec => []MutualExclusion
<1>1. Init => LockInv
  BY DEF Init, LockInv, At, Takers, Waiters
<1>2. TypeOK /\ LockInv /\ [Next]_vars => LockInv'
  BY LockStep
<1>3. LockInv => MutualExclusion
  BY DEF LockInv, MutualExclusion, At, Takers
<1> QED
  BY <1>1, <1>2, <1>3, TypeInvariant, PTL DEF Spec
============================================================================
