------------------------ MODULE BrokerSessionProofs ------------------------
(***************************************************************************)
(* Theorems about BrokerSession, for every number of commands, hooks and   *)
(* brokers, whichever of the commands restart a broker or die.             *)
(***************************************************************************)
EXTENDS BrokerSession, FiniteSetTheorems, TLAPS

----------------------------------------------------------------------------
(* The inductive invariant.                                                *)

\* A client is in the critical section of ensureBrokerSession.
Inside(c) == pc[c] \in {"probing", "made", "waiting"}

\* Inside it broker.json names the broker that was loaded, or none: only a
\* client inside writes it, and the session-end hook can but clear it.
LockInv ==
  \A c \in Clients :
    /\ Inside(c) => lock = c
    /\ pc[c] = "probing" => record \in {None, got[c]}
    /\ pc[c] \in {"made", "waiting"} => record = None

\* What is named has been made; what has not been made has no directory.
BornInv ==
  /\ \A a \in Actors : got[a] # None => phase[got[a]] # "unborn"
  /\ record # None => phase[record] # "unborn"
  /\ \A b \in Brokers :
       phase[b] = "unborn" => files[b] = {} /\ b \notin aged

\* A broker that is made and not yet spawned is known to its client alone,
\* and its directory is new.
MadeInv ==
  \A c \in Clients : pc[c] = "made" =>
    /\ got[c] # None
    /\ phase[got[c]] = "made"
    /\ files[got[c]] = {"dir"}
    /\ got[c] \notin aged
    /\ \A a \in Actors \ {c} : got[a] # got[c]

\* A broker that runs has its files; one that has yet to write its pid file
\* has a directory that no sweep takes for dead.
FilesInv ==
  \A b \in Brokers :
    /\ phase[b] = "spawned" => files[b] = {"dir"} /\ b \notin aged
    /\ phase[b] = "starting" => {"dir", "pid"} \subseteq files[b]
    /\ phase[b] = "serving" => {"dir", "pid", "socket"} \subseteq files[b]

\* A broker that runs is the one of broker.json, or a client inside is
\* waiting for it, or it is abandoned.
UpInv ==
  \A b \in Up \ abandoned :
    b = record \/ \E c \in Clients : pc[c] = "waiting" /\ got[c] = b

SessionInv == LockInv /\ BornInv /\ MadeInv /\ FilesInv /\ UpInv

----------------------------------------------------------------------------
(* The processes and their files.                                          *)

\* Ending a process leaves it in no phase in which it runs, and what was not
\* spawned as it was.
LEMMA KilledIsDown ==
  ASSUME NEW b, phase[b] \in Phases
  PROVE  /\ Killed(b) \in Phases
         /\ Killed(b) \notin {"spawned", "starting", "serving"}
         /\ Killed(b) \in {"unborn", "made"} <=> phase[b] \in {"unborn", "made"}
         /\ Killed(b) \in {"unborn", "made"} => Killed(b) = phase[b]
<1>1. CASE phase[b] \in {"unborn", "made"}
  BY <1>1 DEF Killed, Phases
<1>2. CASE phase[b] = "serving"
  BY <1>2 DEF Killed, Phases
<1>3. CASE phase[b] \notin {"unborn", "made", "serving"}
  BY <1>3 DEF Killed, Phases
<1>4. QED
  BY <1>1, <1>2, <1>3

\* What a teardown of b does to each broker.
LEMMA TeardownEffect ==
  ASSUME TypeOK, NEW b \in Brokers \cup {None}, Teardown(b)
  PROVE  /\ phase' \in [Brokers -> Phases]
         /\ files' \in [Brokers -> SUBSET {"dir", "pid", "socket"}]
         /\ \A d \in Brokers :
              \/ phase'[d] = phase[d] /\ files'[d] = files[d] /\ d # b
              \/ d = b /\ phase'[d] = Killed(d) /\ files'[d] = {}
<1>1. CASE b = None
  <2>1. b \notin Brokers
    BY <1>1, SessionAssumption DEF Brokers, None
  <2>2. QED
    BY <1>1, <2>1 DEF Teardown, TypeOK
<1>2. CASE b # None
  <2>1. b \in Brokers /\ phase[b] \in Phases
    BY <1>2 DEF TypeOK
  <2>2. Killed(b) \in Phases
    BY <2>1, KilledIsDown
  <2>3. /\ phase' = [phase EXCEPT ![b] = Killed(b)]
        /\ files' = [files EXCEPT ![b] = {}]
    BY <1>2 DEF Teardown
  <2>4. QED
    BY <2>1, <2>2, <2>3 DEF TypeOK
<1>3. QED
  BY <1>1, <1>2

\* A sweep takes the whole directory of a dead broker and nothing else.
LEMMA SweptEffect ==
  ASSUME NEW f \in [Brokers -> SUBSET {"dir", "pid", "socket"}]
  PROVE  /\ Swept(f) \in [Brokers -> SUBSET {"dir", "pid", "socket"}]
         /\ \A b \in Brokers :
              \/ Swept(f)[b] = f[b]
              \/ Swept(f)[b] = {} /\ Dead(b)
<1>1. \A b \in Brokers :
        Swept(f)[b] = IF "dir" \in f[b] /\ Dead(b) THEN {} ELSE f[b]
  BY DEF Swept
<1>2. Swept(f) \in [Brokers -> SUBSET {"dir", "pid", "socket"}]
  BY <1>1 DEF Swept
<1>3. QED
  BY <1>1, <1>2

\* What Replace does: it makes the broker b, and ends and sweeps others.
LEMMA ReplaceEffect ==
  ASSUME TypeOK, NEW c \in Clients, Replace(c)
  PROVE  \E b \in Brokers :
           /\ phase[b] = "unborn"
           /\ phase'[b] = "made" /\ files'[b] = {"dir"}
           /\ got' = [got EXCEPT ![c] = b]
           /\ phase' \in [Brokers -> Phases]
           /\ files' \in [Brokers -> SUBSET {"dir", "pid", "socket"}]
           /\ \A d \in Brokers \ {b} :
                \/ d = got[c] /\ phase'[d] = Killed(d) /\ files'[d] = {}
                \/ /\ d # got[c]
                   /\ phase'[d] = phase[d]
                   /\ files'[d] = files[d] \/ (files'[d] = {} /\ Dead(d))
<1> DEFINE old == got[c]
           kept == IF old = None THEN files ELSE [files EXCEPT ![old] = {}]
<1>1. PICK b \in Brokers :
        /\ phase[b] = "unborn"
        /\ phase' = [d \in Brokers |-> IF d = b THEN "made"
                                       ELSE IF d = old THEN Killed(d)
                                       ELSE phase[d]]
        /\ files' = [Swept(kept) EXCEPT ![b] = {"dir"}]
        /\ got' = [got EXCEPT ![c] = b]
  BY DEF Replace
<1>2. kept \in [Brokers -> SUBSET {"dir", "pid", "socket"}]
  BY DEF TypeOK
<1>3. \A d \in Brokers : kept[d] = IF d = old THEN {} ELSE files[d]
  <2>1. None \notin Brokers
    BY SessionAssumption DEF Brokers, None
  <2>2. QED
    BY <2>1 DEF TypeOK
<1> DEFINE swept == Swept(kept)
<1>4. /\ swept \in [Brokers -> SUBSET {"dir", "pid", "socket"}]
      /\ \A d \in Brokers : swept[d] = kept[d] \/ (swept[d] = {} /\ Dead(d))
  BY <1>2, SweptEffect
<1>5. \A d \in Brokers : phase[d] \in Phases /\ Killed(d) \in Phases
  BY KilledIsDown DEF TypeOK
<1>6. phase' \in [Brokers -> Phases]
  <2>1. "made" \in Phases
    BY DEF Phases
  <2>2. QED
    BY <1>1, <1>5, <2>1
<1> HIDE DEF kept, swept
<1>7. files' = [swept EXCEPT ![b] = {"dir"}]
  BY <1>1 DEF swept
<1>8. files' \in [Brokers -> SUBSET {"dir", "pid", "socket"}]
  BY <1>4, <1>7
<1>9. ASSUME NEW d \in Brokers \ {b}
      PROVE  \/ d = got[c] /\ phase'[d] = Killed(d) /\ files'[d] = {}
             \/ /\ d # got[c]
                /\ phase'[d] = phase[d]
                /\ files'[d] = files[d] \/ (files'[d] = {} /\ Dead(d))
  <2>1. files'[d] = swept[d]
    BY <1>4, <1>7
  <2>2. phase'[d] = IF d = old THEN Killed(d) ELSE phase[d]
    BY <1>1
  <2>3. QED
    BY <1>3, <1>4, <2>1, <2>2
<1>10. phase'[b] = "made" /\ files'[b] = {"dir"}
  BY <1>1, <1>4, <1>7
<1>11. QED
  BY <1>1, <1>6, <1>8, <1>9, <1>10

----------------------------------------------------------------------------
(* Type correctness.                                                       *)

\* None is not a client, a client no hook, and a broker has a number.
LEMMA Sorts ==
  /\ None \notin Brokers
  /\ None \notin Clients
  /\ Clients \subseteq Actors /\ Enders \subseteq Actors
  /\ \A c \in Clients, e \in Enders : c # e
BY SessionAssumption DEF Brokers, None, Actors

\* What a teardown that throws does: it ends a broker that is known, and the
\* one who began it.
LEMMA ThrowEffect ==
  ASSUME TypeOK, NEW a \in Actors, NEW b \in Brokers, TeardownThrows(a, b)
  PROVE  /\ phase' = [phase EXCEPT ![b] = Killed(b)]
         /\ files' = [files EXCEPT ![b] = @ \ {"pid"}]
         /\ pc' = [pc EXCEPT ![a] = "failed"]
         /\ got' = [got EXCEPT ![a] = None]
         /\ lock' = IF lock = a THEN None ELSE lock
         /\ UNCHANGED <<record, restarted, aged, conn, active, abandoned>>
         /\ b = record \/ (got[a] = b /\ pc[a] # "made")
BY DEF TeardownThrows, TearsDown, At, sockets

\* A client inside that is past the probe has made a broker.
HasBroker == \A c \in Clients : pc[c] \in {"made", "waiting"} => got[c] # None

LEMMA StepHasBroker ==
  ASSUME TypeOK, HasBroker, [Next]_vars
  PROVE  HasBroker'
<1> USE Sorts
<1>1. ASSUME NEW c \in Clients, Ensure(c)
      PROVE  HasBroker'
  <2>1. CASE Replace(c)
    <3>1. \E b \in Brokers : got' = [got EXCEPT ![c] = b]
      BY <2>1 DEF Replace
    <3>2. pc' = [pc EXCEPT ![c] = "made"]
      BY <2>1 DEF Replace, At
    <3>3. QED
      BY <3>1, <3>2 DEF HasBroker, TypeOK
  <2>2. CASE ~Replace(c)
    BY <1>1, <2>2 DEF Ensure, Acquire, GiveUp, Reuse, SpawnBroker, Ready,
                      NotReady, At, HasBroker, TypeOK
  <2>3. QED
    BY <2>1, <2>2
<1>2. ASSUME NEW c \in Clients, Use(c) \/ FindStale(c) \/ Crash(c)
      PROVE  HasBroker'
  <2>1. \E p \in Places \ {"made", "waiting"} : pc' = [pc EXCEPT ![c] = p]
    BY <1>2 DEF Use, Connect, Leave, Restart, FindStale, Crash, At, Places
  <2>2. \A a \in Actors : a # c => got'[a] = got[a]
    BY <1>2 DEF Use, Connect, Leave, Restart, FindStale, Crash, Hangup, TypeOK
  <2>3. QED
    BY <2>1, <2>2 DEF HasBroker, TypeOK
<1>3. ASSUME NEW e \in Enders, End(e)
      PROVE  HasBroker'
  <2>1. \A c \in Clients : pc'[c] = pc[c] /\ got'[c] = got[c]
    BY <1>3 DEF End, EndLoad, EndAsk, EndTeardown, At, TypeOK
  <2>2. QED
    BY <2>1 DEF HasBroker
<1>4. ASSUME NEW b \in Brokers, NEW c \in Clients, Accept(b, c)
      PROVE  HasBroker'
  BY <1>4 DEF Accept, At, HasBroker, TypeOK
<1>5. CASE UNCHANGED client
  BY <1>5 DEF client, HasBroker
<1>6. ASSUME NEW b \in Brokers, Start(b) \/ Stop(b) \/ ChildExits(b) \/ Age(b)
      PROVE  UNCHANGED client
  BY <1>6 DEF Start, WritePidFile, Listen, StartFails, Stop, Rest, IdleOut,
              StopListening, Exit, ChildExits, Age
<1>7. ASSUME NEW a \in Actors, NEW b \in Brokers, TeardownThrows(a, b)
      PROVE  HasBroker'
  BY <1>7, ThrowEffect DEF HasBroker, TypeOK
<1>8. QED
  BY <1>1, <1>2, <1>3, <1>4, <1>5, <1>6, <1>7
  DEF Next, BreakLock, SweepElsewhere, vars

LEMMA StepType ==
  ASSUME TypeOK, HasBroker, [Next]_vars
  PROVE  TypeOK'
<1> USE Sorts
<1>1. ASSUME NEW c \in Clients, Ensure(c)
      PROVE  TypeOK'
  <2>1. CASE Acquire(c)
    BY <2>1 DEF Acquire, At, TypeOK, Places, process, sockets
  <2>2. CASE Reuse(c)
    BY <2>2 DEF Reuse, At, Unlock, TypeOK, Places, process, sockets
  <2>3. CASE Replace(c)
    <3>1. /\ phase' \in [Brokers -> Phases]
          /\ files' \in [Brokers -> SUBSET {"dir", "pid", "socket"}]
          /\ \E b \in Brokers : got' = [got EXCEPT ![c] = b]
      BY <2>3, ReplaceEffect
    <3>2. got' \in [Actors -> Brokers \cup {None}]
      BY <3>1 DEF TypeOK
    <3>3. pc' \in [Actors -> Places]
      BY <2>3 DEF Replace, At, TypeOK, Places
    <3>4. QED
      BY <2>3, <3>1, <3>2, <3>3 DEF Replace, TypeOK, sockets
  <2>4. CASE SpawnBroker(c)
    BY <2>4 DEF SpawnBroker, At, TypeOK, Places, Phases, sockets
  <2>5. CASE Ready(c)
    BY <2>5 DEF Ready, At, Unlock, TypeOK, Places, process, sockets, Listening
  <2>6. CASE NotReady(c)
    <3>1. got[c] \in Brokers \cup {None} /\ Teardown(got[c])
      BY <2>6 DEF NotReady, TypeOK
    <3>2. /\ phase' \in [Brokers -> Phases]
          /\ files' \in [Brokers -> SUBSET {"dir", "pid", "socket"}]
      BY <3>1, TeardownEffect
    <3>3. QED
      BY <2>6, <3>2 DEF NotReady, At, Unlock, TypeOK, Places, sockets
  <2>7. CASE GiveUp(c)
    BY <2>7 DEF GiveUp, At, TypeOK, Places, process, sockets
  <2>8. QED
    BY <1>1, <2>1, <2>2, <2>3, <2>4, <2>5, <2>6, <2>7 DEF Ensure
<1>2. ASSUME NEW c \in Clients, Use(c)
      PROVE  TypeOK'
  <2>1. CASE Connect(c)
    <3>1. CASE Listening(got[c])
      <4>1. /\ conn' = [conn EXCEPT ![got[c]] = @ \cup {c}]
            /\ active' = active \cup {got[c]}
            /\ pc' = [pc EXCEPT ![c] = "connected"]
            /\ UNCHANGED <<got, record, lock, restarted, phase, files, aged,
                           abandoned>>
        BY <2>1, <3>1 DEF Connect, At, process
      <4>2. got[c] \in Brokers
        BY <3>1 DEF Listening, TypeOK
      <4>3. QED
        BY <4>1, <4>2 DEF TypeOK, Places
    <3>2. CASE ~Listening(got[c])
      BY <2>1, <3>2 DEF Connect, At, TypeOK, Places, process, sockets
    <3>3. QED
      BY <3>1, <3>2
  <2>2. CASE Leave(c)
    BY <2>2 DEF Leave, Hangup, At, TypeOK, Places, process
  <2>3. CASE Restart(c)
    <3>1. /\ phase' \in [Brokers -> Phases]
          /\ files' \in [Brokers -> SUBSET {"dir", "pid", "socket"}]
      BY <2>3, TeardownEffect DEF Restart, TypeOK
    <3>2. QED
      BY <2>3, <3>1 DEF Restart, At, TypeOK, Places, sockets
  <2>4. QED
    BY <1>2, <2>1, <2>2, <2>3 DEF Use
<1>3. ASSUME NEW c \in Clients, FindStale(c)
      PROVE  TypeOK'
  BY <1>3 DEF FindStale, Hangup, At, TypeOK, Places, process
<1>4. ASSUME NEW c \in Clients, Crash(c)
      PROVE  TypeOK'
  <2>1. pc[c] = "waiting" => got[c] \in Brokers
    BY DEF HasBroker, TypeOK
  <2>2. QED
    BY <1>4, <2>1 DEF Crash, At, TypeOK, Places, process, sockets
<1>5. CASE BreakLock
  BY <1>5 DEF BreakLock, Unlock, TypeOK, client, process, sockets
<1>6. CASE SweepElsewhere
  BY <1>6, SweptEffect DEF SweepElsewhere, TypeOK, client, sockets
<1>7. ASSUME NEW e \in Enders, End(e)
      PROVE  TypeOK'
  <2>1. CASE EndLoad(e)
    BY <2>1 DEF EndLoad, At, TypeOK, Places, process, sockets
  <2>2. CASE EndAsk(e)
    BY <2>2 DEF EndAsk, At, TypeOK, Places, Phases, sockets
  <2>3. CASE EndTeardown(e)
    <3>1. got[e] \in Brokers \cup {None} /\ Teardown(got[e])
      BY <2>3 DEF EndTeardown, TypeOK
    <3>2. /\ phase' \in [Brokers -> Phases]
          /\ files' \in [Brokers -> SUBSET {"dir", "pid", "socket"}]
      BY <3>1, TeardownEffect
    <3>3. abandoned' \subseteq Brokers
      BY <2>3 DEF EndTeardown, TypeOK
    <3>4. QED
      BY <2>3, <3>2, <3>3 DEF EndTeardown, At, TypeOK, Places, sockets
  <2>4. QED
    BY <1>7, <2>1, <2>2, <2>3 DEF End
<1>8. ASSUME NEW b \in Brokers, Start(b) \/ Stop(b) \/ ChildExits(b) \/ Age(b)
      PROVE  TypeOK'
  <2>1. CASE Start(b)
    BY <2>1 DEF Start, WritePidFile, Listen, StartFails, TypeOK, Phases,
                client, process, sockets
  <2>2. CASE Stop(b)
    BY <2>2 DEF Stop, Rest, IdleOut, StopListening, Exit, TypeOK, Phases,
                client, process, sockets
  <2>3. CASE ChildExits(b) \/ Age(b)
    BY <2>3 DEF ChildExits, Age, TypeOK, Phases, client, sockets
  <2>4. QED
    BY <1>8, <2>1, <2>2, <2>3
<1>9. ASSUME NEW b \in Brokers, NEW c \in Clients, Accept(b, c)
      PROVE  TypeOK'
  BY <1>9 DEF Accept, At, TypeOK, Places, process
<1>10. CASE UNCHANGED vars
  BY <1>10 DEF vars, client, process, sockets, TypeOK
<1>11. ASSUME NEW a \in Actors, NEW b \in Brokers, TeardownThrows(a, b)
       PROVE  TypeOK'
  <2>1. Killed(b) \in Phases
    BY KilledIsDown DEF TypeOK
  <2>2. QED
    BY <1>11, <2>1, ThrowEffect DEF TypeOK, Places
<1>12. QED
  BY <1>1, <1>2, <1>3, <1>4, <1>5, <1>6, <1>7, <1>8, <1>9, <1>10, <1>11
  DEF Next

\* The variables keep their types.
THEOREM TypeInvariant == Spec => []TypeOK
<1>1. Init => TypeOK /\ HasBroker
  BY Sorts DEF Init, TypeOK, HasBroker, Places, Phases
<1>2. TypeOK /\ HasBroker /\ [Next]_vars => TypeOK' /\ HasBroker'
  BY StepType, StepHasBroker
<1>3. QED
  BY <1>1, <1>2, PTL DEF Spec

----------------------------------------------------------------------------
(* The critical section.                                                   *)

\* The steps of a broker process, and of its surroundings, leave the clients,
\* the lock and broker.json alone.
LEMMA ProcessSteps ==
  ASSUME NEW b \in Brokers, Start(b) \/ Stop(b) \/ ChildExits(b) \/ Age(b)
  PROVE  UNCHANGED <<record, lock, pc, got, abandoned>>
BY DEF Start, WritePidFile, Listen, StartFails, Stop, Rest, IdleOut,
       StopListening, Exit, ChildExits, Age, client

\* What a client does with its broker, outside of the critical section.
LEMMA UseEffect ==
  ASSUME TypeOK, NEW c \in Clients, Use(c) \/ FindStale(c)
  PROVE  /\ ~Inside(c)
         /\ \E p \in Places : /\ p \notin {"probing", "made", "waiting"}
                              /\ pc' = [pc EXCEPT ![c] = p]
         /\ got'[c] \in {got[c], None}
         /\ \A a \in Actors : a # c => got'[a] = got[a]
         /\ UNCHANGED <<lock, aged, abandoned>>
         /\ record' \in {record, None}
<1> USE Sorts DEF Inside, TypeOK, Places, process, sockets
<1>1. CASE Connect(c)
  BY <1>1 DEF Connect, At
<1>2. CASE Leave(c)
  BY <1>2 DEF Leave, Hangup, At
<1>3. CASE FindStale(c)
  BY <1>3 DEF FindStale, Hangup, At
<1>4. CASE Restart(c)
  BY <1>4 DEF Restart, At
<1>5. QED
  BY <1>1, <1>2, <1>3, <1>4 DEF Use

\* What the session-end hook does to clients and broker.json.
LEMMA EndEffect ==
  ASSUME TypeOK, NEW e \in Enders, End(e)
  PROVE  /\ \A c \in Clients : pc'[c] = pc[c] /\ got'[c] = got[c]
         /\ got'[e] \in {got[e], record, None}
         /\ \A a \in Actors : a # e => got'[a] = got[a]
         /\ record' \in {record, None}
         /\ UNCHANGED <<lock, aged>>
BY Sorts DEF End, EndLoad, EndAsk, EndTeardown, At, TypeOK, process

LEMMA StepLock ==
  ASSUME TypeOK, LockInv, [Next]_vars
  PROVE  LockInv'
<1> USE Sorts
<1> USE DEF LockInv, Inside
<1>1. ASSUME NEW c \in Clients, Ensure(c)
      PROVE  LockInv'
  <2>1. CASE Acquire(c)
    BY <2>1 DEF Acquire, At, TypeOK
  <2>2. CASE Reuse(c)
    BY <2>2 DEF Reuse, At, Unlock, TypeOK
  <2>3. CASE Replace(c)
    BY <2>3 DEF Replace, At, TypeOK
  <2>4. CASE SpawnBroker(c)
    BY <2>4 DEF SpawnBroker, At, TypeOK
  <2>5. CASE Ready(c)
    BY <2>5 DEF Ready, At, Unlock, TypeOK
  <2>6. CASE NotReady(c)
    BY <2>6 DEF NotReady, At, Unlock, TypeOK
  <2>7. CASE GiveUp(c)
    BY <2>7 DEF GiveUp, At, TypeOK
  <2>8. QED
    BY <1>1, <2>1, <2>2, <2>3, <2>4, <2>5, <2>6, <2>7 DEF Ensure
<1>2. ASSUME NEW c \in Clients, Use(c) \/ FindStale(c)
      PROVE  LockInv'
  BY <1>2, UseEffect DEF TypeOK
<1>3. ASSUME NEW c \in Clients, Crash(c)
      PROVE  LockInv'
  BY <1>3 DEF Crash, At, TypeOK
<1>4. CASE BreakLock
  BY <1>4 DEF BreakLock, Unlock, client
<1>5. ASSUME NEW e \in Enders, End(e)
      PROVE  LockInv'
  BY <1>5, EndEffect
<1>6. ASSUME NEW b \in Brokers, NEW c \in Clients, Accept(b, c)
      PROVE  LockInv'
  BY <1>6 DEF Accept, At, TypeOK
<1>7. CASE UNCHANGED <<record, lock, pc, got, abandoned>>
  BY <1>7
<1>8. ASSUME NEW a \in Actors, NEW b \in Brokers, TeardownThrows(a, b)
      PROVE  LockInv'
  BY <1>8, ThrowEffect DEF TypeOK
<1>9. QED
  BY <1>1, <1>2, <1>3, <1>4, <1>5, <1>6, <1>7, <1>8, ProcessSteps
  DEF Next, SweepElsewhere, vars, client

----------------------------------------------------------------------------
(* The life of one broker.                                                 *)

\* Someone may tear the broker b down: broker.json or a process names it.
Known(b) == b = record \/ \E a \in Actors : got[a] = b /\ pc[a] # "made"

\* What a step may do to a broker, its directory and the age of that.
BrokerStep(b) ==
  \/ /\ phase'[b] = phase[b]
     /\ files'[b] = files[b] \/ (files'[b] = {} /\ Dead(b))
     /\ b \in aged' => b \in aged
  \/ /\ Known(b)
     /\ phase'[b] = Killed(b) /\ files'[b] \subseteq files[b]
     /\ b \in aged' => b \in aged
  \/ /\ phase[b] = "unborn" /\ phase'[b] = "made"
     /\ files'[b] = {"dir"}
     /\ b \in aged' => b \in aged
  \/ /\ \E c \in Clients :
          pc[c] = "made" /\ got[c] = b /\ pc'[c] = "waiting"
     /\ phase'[b] = "spawned" /\ files'[b] = files[b]
     /\ b \in aged' => b \in aged
  \/ /\ phase[b] = "spawned" /\ phase'[b] = "starting"
     /\ files'[b] = {"dir", "pid"}
  \/ /\ phase[b] = "starting" /\ phase'[b] = "serving"
     /\ files'[b] = files[b] \cup {"socket"}
  \/ /\ phase[b] \notin {"unborn", "made", "spawned"}
     /\ phase'[b] \notin {"unborn", "made", "spawned", "starting", "serving"}
  \/ /\ phase'[b] = phase[b] /\ phase[b] # "spawned"
     /\ files'[b] = files[b] /\ files[b] # {}
     /\ \A c \in Clients : ~(pc[c] = "made" /\ got[c] = b)

LEMMA TeardownSteps ==
  ASSUME TypeOK, NEW d \in Brokers \cup {None}, Teardown(d), UNCHANGED aged,
         d # None => Known(d)
  PROVE  \A b \in Brokers : BrokerStep(b)
BY TeardownEffect, Sorts DEF BrokerStep

\* A sweep, or no change at all, is such a step too.
LEMMA SweepSteps ==
  ASSUME TypeOK, UNCHANGED <<phase, aged>>,
         files' = files \/ files' = Swept(files)
  PROVE  \A b \in Brokers : BrokerStep(b)
BY SweptEffect DEF BrokerStep, TypeOK

LEMMA BrokerSteps ==
  ASSUME TypeOK, [Next]_vars
  PROVE  \A b \in Brokers : BrokerStep(b)
<1> USE Sorts
<1>1. CASE UNCHANGED process
  BY <1>1, SweepSteps DEF process
<1>2. ASSUME NEW c \in Clients, Ensure(c)
      PROVE  \A b \in Brokers : BrokerStep(b)
  <2>1. CASE Replace(c)
    <3>1. UNCHANGED aged
      BY <2>1 DEF Replace
    <3>2. got[c] \in Brokers => Known(got[c])
      BY <2>1 DEF Known, Replace
    <3>3. QED
      BY <2>1, <3>1, <3>2, ReplaceEffect DEF BrokerStep
  <2>2. CASE NotReady(c)
    <3>1. got[c] \in Brokers \cup {None} /\ Known(got[c])
      BY <2>2 DEF NotReady, Known, TypeOK
    <3>2. QED
      BY <2>2, <3>1, TeardownSteps DEF NotReady
  <2>3. CASE SpawnBroker(c)
    BY <2>3 DEF SpawnBroker, At, BrokerStep, TypeOK
  <2>4. QED
    BY <1>1, <1>2, <2>1, <2>2, <2>3
    DEF Ensure, Acquire, GiveUp, Reuse, Ready
<1>3. ASSUME NEW c \in Clients, Use(c) \/ FindStale(c) \/ Crash(c)
      PROVE  \A b \in Brokers : BrokerStep(b)
  <2>1. CASE Restart(c)
    <3>1. record \in Brokers \cup {None} /\ Known(record)
      BY DEF Known, TypeOK
    <3>2. QED
      BY <2>1, <3>1, TeardownSteps DEF Restart
  <2>2. QED
    BY <1>1, <1>3, <2>1 DEF Use, Connect, Leave, FindStale, Crash
<1>4. ASSUME NEW e \in Enders, End(e)
      PROVE  \A b \in Brokers : BrokerStep(b)
  <2>1. CASE EndTeardown(e)
    <3>1. got[e] \in Brokers \cup {None} /\ Known(got[e])
      BY <2>1 DEF EndTeardown, Known, TypeOK
    <3>2. QED
      BY <2>1, <3>1, TeardownSteps DEF EndTeardown
  <2>2. CASE EndAsk(e)
    BY <1>1, <2>2 DEF EndAsk, Listening, BrokerStep, TypeOK, process
  <2>3. QED
    BY <1>1, <1>4, <2>1, <2>2 DEF End, EndLoad
<1>5. ASSUME NEW d \in Brokers, Start(d)
      PROVE  \A b \in Brokers : BrokerStep(b)
  BY <1>5 DEF Start, WritePidFile, Listen, StartFails, BrokerStep, TypeOK
<1>6. ASSUME NEW d \in Brokers, Stop(d)
      PROVE  \A b \in Brokers : BrokerStep(b)
  <2>1. CASE Rest(d)
    BY <1>1, <2>1 DEF Rest
  <2>2. CASE IdleOut(d)
    BY <2>2 DEF IdleOut, BrokerStep, TypeOK
  <2>3. CASE StopListening(d)
    BY <2>3 DEF StopListening, BrokerStep, TypeOK
  <2>4. CASE Exit(d)
    BY <2>4 DEF Exit, BrokerStep, TypeOK
  <2>5. QED
    BY <1>6, <2>1, <2>2, <2>3, <2>4 DEF Stop
<1>7. ASSUME NEW d \in Brokers, ChildExits(d)
      PROVE  \A b \in Brokers : BrokerStep(b)
  BY <1>7 DEF ChildExits, BrokerStep, TypeOK
<1>8. ASSUME NEW d \in Brokers, Age(d)
      PROVE  \A b \in Brokers : BrokerStep(b)
  BY <1>8 DEF Age, BrokerStep, TypeOK
<1>9. CASE SweepElsewhere
  BY <1>9, SweepSteps DEF SweepElsewhere
<1>10. ASSUME NEW a \in Actors, NEW d \in Brokers, TeardownThrows(a, d)
       PROVE  \A b \in Brokers : BrokerStep(b)
  <2>1. Known(d)
    BY <1>10, ThrowEffect DEF Known
  <2>2. QED
    BY <1>10, <2>1, ThrowEffect DEF BrokerStep, TypeOK
<1>11. QED
  BY <1>1, <1>2, <1>3, <1>4, <1>5, <1>6, <1>7, <1>8, <1>9, <1>10
  DEF Next, BreakLock, Accept, vars

----------------------------------------------------------------------------
(* What is named has been made, and what runs has its files.               *)

\* Who may be named after a step.
LEMMA NameSteps ==
  ASSUME TypeOK, [Next]_vars
  PROVE  \/ /\ \A a \in Actors : got'[a] \in {got[a], record, None}
            /\ \/ record' \in {record, None}
               \/ \E c \in Clients : record' = got[c]
         \/ \E c \in Clients : Replace(c)
<1> USE Sorts
<1> USE DEF TypeOK
<1>1. ASSUME NEW c \in Clients, Ensure(c), ~Replace(c)
      PROVE  /\ \A a \in Actors : got'[a] \in {got[a], record, None}
             /\ record' \in {record, None, got[c]}
  BY <1>1 DEF Ensure, Acquire, GiveUp, Reuse, SpawnBroker, Ready, NotReady
<1>2. ASSUME NEW c \in Clients, Use(c) \/ FindStale(c)
      PROVE  /\ \A a \in Actors : got'[a] \in {got[a], record, None}
             /\ record' \in {record, None}
  BY <1>2, UseEffect
<1>3. ASSUME NEW c \in Clients, Crash(c)
      PROVE  /\ \A a \in Actors : got'[a] \in {got[a], record, None}
             /\ record' = record
  BY <1>3 DEF Crash
<1>4. ASSUME NEW e \in Enders, End(e)
      PROVE  /\ \A a \in Actors : got'[a] \in {got[a], record, None}
             /\ record' \in {record, None}
  BY <1>4, EndEffect
<1>5. CASE UNCHANGED <<record, got>>
  BY <1>5
<1>6. ASSUME NEW e \in Actors, NEW b \in Brokers, TeardownThrows(e, b)
      PROVE  /\ \A a \in Actors : got'[a] \in {got[a], record, None}
             /\ record' = record
  BY <1>6, ThrowEffect
<1>7. QED
  BY <1>1, <1>2, <1>3, <1>4, <1>5, <1>6, ProcessSteps
  DEF Next, BreakLock, SweepElsewhere, Accept, vars, client

LEMMA StepBorn ==
  ASSUME TypeOK, BornInv, MadeInv, [Next]_vars
  PROVE  BornInv'
<1> USE Sorts
<1>1. \A b \in Brokers : phase'[b] = "unborn" =>
        phase[b] = "unborn" /\ files'[b] = {} /\ b \notin aged'
  <2> TAKE b \in Brokers
  <2>1. BrokerStep(b)
    BY BrokerSteps
  <2>2. phase[b] \in Phases
    BY DEF TypeOK
  <2>3. phase[b] = "unborn" => files[b] = {} /\ b \notin aged
    BY DEF BornInv
  <2>4. ASSUME NEW c \in Clients, pc[c] = "made", got[c] = b
        PROVE  phase[b] = "made"
    BY <2>4 DEF MadeInv
  <2>5. Killed(b) = "unborn" => phase[b] = "unborn"
    BY <2>2, KilledIsDown
  <2>6. QED
    BY <2>1, <2>3, <2>4, <2>5 DEF BrokerStep
<1>2. CASE \E c \in Clients : Replace(c)
  <2>1. PICK c \in Clients : Replace(c)
    BY <1>2
  <2>2. PICK b \in Brokers : phase'[b] = "made" /\ got' = [got EXCEPT ![c] = b]
    BY <2>1, ReplaceEffect
  <2>3. record' = None
    BY <2>1 DEF Replace
  <2>4. \A a \in Actors : got'[a] # None => phase'[got'[a]] # "unborn"
    BY <1>1, <2>2 DEF BornInv, TypeOK
  <2>5. QED
    BY <1>1, <2>3, <2>4 DEF BornInv
<1>3. CASE ~\E c \in Clients : Replace(c)
  <2>1. \A a \in Actors : got'[a] # None => phase'[got'[a]] # "unborn"
    BY <1>1, <1>3, NameSteps DEF BornInv, TypeOK
  <2>2. record' # None => phase'[record'] # "unborn"
    BY <1>1, <1>3, NameSteps DEF BornInv, TypeOK
  <2>3. QED
    BY <1>1, <2>1, <2>2 DEF BornInv
<1>4. QED
  BY <1>2, <1>3

LEMMA StepFiles ==
  ASSUME TypeOK, MadeInv, FilesInv, [Next]_vars
  PROVE  FilesInv'
<1> SUFFICES ASSUME NEW b \in Brokers
             PROVE  /\ phase'[b] = "spawned" => files'[b] = {"dir"} /\ b \notin aged'
                    /\ phase'[b] = "starting" => {"dir", "pid"} \subseteq files'[b]
                    /\ phase'[b] = "serving" =>
                         {"dir", "pid", "socket"} \subseteq files'[b]
  BY DEF FilesInv
<1>1. BrokerStep(b)
  BY BrokerSteps
<1>2. /\ phase[b] = "spawned" => files[b] = {"dir"} /\ b \notin aged
      /\ phase[b] = "starting" => {"dir", "pid"} \subseteq files[b]
      /\ phase[b] = "serving" => {"dir", "pid", "socket"} \subseteq files[b]
  BY DEF FilesInv
<1>3. phase[b] \in {"spawned", "starting", "serving"} => ~Dead(b)
  BY <1>2 DEF Dead, Alive
<1>4. Killed(b) \notin {"spawned", "starting", "serving"}
  BY KilledIsDown DEF TypeOK
<1>5. ASSUME NEW c \in Clients, pc[c] = "made", got[c] = b
      PROVE  files[b] = {"dir"} /\ b \notin aged
  BY <1>5 DEF MadeInv
<1>6. QED
  BY <1>1, <1>2, <1>3, <1>4, <1>5 DEF BrokerStep

LEMMA StepMade ==
  ASSUME TypeOK, HasBroker, LockInv, BornInv, MadeInv, [Next]_vars
  PROVE  MadeInv'
<1> SUFFICES ASSUME NEW c \in Clients, pc'[c] = "made"
             PROVE  /\ got'[c] # None
                    /\ phase'[got'[c]] = "made"
                    /\ files'[got'[c]] = {"dir"}
                    /\ got'[c] \notin aged'
                    /\ \A a \in Actors \ {c} : got'[a] # got'[c]
  BY DEF MadeInv
<1> USE Sorts
<1>1. CASE Replace(c)
  <2>1. PICK b \in Brokers :
          /\ phase[b] = "unborn"
          /\ phase'[b] = "made" /\ files'[b] = {"dir"}
          /\ got' = [got EXCEPT ![c] = b]
    BY <1>1, ReplaceEffect
  <2>2. got'[c] = b /\ \A a \in Actors \ {c} : got'[a] = got[a]
    BY <2>1 DEF TypeOK
  <2>3. b \notin aged'
    BY <1>1, <2>1 DEF Replace, BornInv
  <2>4. \A a \in Actors : got[a] # b
    BY <2>1 DEF BornInv, TypeOK
  <2>5. QED
    BY <2>1, <2>2, <2>3, <2>4
<1>2. CASE ~Replace(c)
  <2>1. pc[c] = "made" /\ got'[c] = got[c]
    <3>1. ASSUME NEW d \in Clients, Ensure(d)
          PROVE  pc[c] = "made" /\ got'[c] = got[c]
      <4>1. CASE Replace(d)
        <5>1. d # c
          BY <1>2, <4>1
        <5>2. pc' = [pc EXCEPT ![d] = "made"]
          BY <4>1 DEF Replace, At
        <5>3. \E b \in Brokers : got' = [got EXCEPT ![d] = b]
          BY <4>1, ReplaceEffect
        <5>4. QED
          BY <5>1, <5>2, <5>3 DEF TypeOK
      <4>2. QED
        BY <3>1, <4>1 DEF Ensure, Acquire, GiveUp, Reuse, SpawnBroker, Ready,
                          NotReady, At, TypeOK
    <3>2. ASSUME NEW d \in Clients, Use(d) \/ FindStale(d)
          PROVE  pc[c] = "made" /\ got'[c] = got[c]
      BY <3>2, UseEffect DEF TypeOK
    <3>3. ASSUME NEW d \in Clients, Crash(d)
          PROVE  pc[c] = "made" /\ got'[c] = got[c]
      BY <3>3 DEF Crash, At, TypeOK
    <3>4. ASSUME NEW e \in Enders, End(e)
          PROVE  pc[c] = "made" /\ got'[c] = got[c]
      BY <3>4, EndEffect
    <3>5. ASSUME NEW b \in Brokers, NEW d \in Clients, Accept(b, d)
          PROVE  pc[c] = "made" /\ got'[c] = got[c]
      BY <3>5 DEF Accept, At, TypeOK
    <3>6. CASE UNCHANGED <<pc, got>>
      BY <3>6
    <3>7. ASSUME NEW a \in Actors, NEW b \in Brokers, TeardownThrows(a, b)
          PROVE  pc[c] = "made" /\ got'[c] = got[c]
      BY <3>7, ThrowEffect DEF TypeOK
    <3>8. QED
      BY <3>1, <3>2, <3>3, <3>4, <3>5, <3>6, <3>7, ProcessSteps
      DEF Next, BreakLock, SweepElsewhere, vars, client
  <2> DEFINE b == got[c]
  <2>2. /\ b \in Brokers /\ phase[b] = "made" /\ files[b] = {"dir"}
        /\ b \notin aged
        /\ \A a \in Actors \ {c} : got[a] # b
    BY <2>1 DEF MadeInv, TypeOK
  <2>3. record = None /\ lock = c
    BY <2>1 DEF LockInv, Inside
  <2>4. \A d \in Clients \ {c} : ~Replace(d)
    BY <2>3 DEF Replace, LockInv, Inside
  <2>5. \A a \in Actors \ {c} : got'[a] # b
    BY <1>2, <2>2, <2>3, <2>4, NameSteps
  <2>6. phase'[b] = "made" /\ files'[b] = {"dir"} /\ b \notin aged'
    <3>1. BrokerStep(b)
      BY <2>2, BrokerSteps
    <3>2. ~Dead(b)
      BY <2>2 DEF Dead
    <3>3. ~Known(b)
      BY <2>1, <2>2, <2>3 DEF Known
    <3>4. \A d \in Clients : ~(got[d] = b /\ pc'[d] = "waiting")
      BY <2>2
    <3>5. QED
      BY <2>1, <2>2, <3>1, <3>2, <3>3, <3>4 DEF BrokerStep
  <2>7. QED
    BY <2>1, <2>2, <2>5, <2>6
<1>3. QED
  BY <1>1, <1>2

----------------------------------------------------------------------------
(* One broker runs.                                                        *)

\* A broker that is torn down no longer runs.
LEMMA TeardownEnds ==
  ASSUME TypeOK, NEW b \in Brokers, Teardown(b)
  PROVE  phase'[b] \notin {"spawned", "starting", "serving"}
BY TeardownEffect, KilledIsDown, Sorts DEF TypeOK

\* broker.json loses a broker that still runs only to the session-end hook
\* that had loaded another one.
LEMMA RecordKept ==
  ASSUME TypeOK, LockInv, [Next]_vars, record # None, record' # record,
         phase'[record] \in {"spawned", "starting", "serving"}
  PROVE  record \in abandoned'
<1> USE Sorts
<1>1. record \in Brokers
  BY DEF TypeOK
<1>2. ASSUME NEW c \in Clients, Ensure(c)
      PROVE  FALSE
  <2>1. CASE Replace(c)
    <3>1. record = got[c]
      BY <2>1 DEF Replace, LockInv
    <3>2. PICK b \in Brokers :
            /\ phase'[b] = "made"
            /\ \A d \in Brokers \ {b} : d = got[c] => phase'[d] = Killed(d)
      BY <2>1, ReplaceEffect
    <3>3. QED
      BY <1>1, <3>1, <3>2, KilledIsDown DEF TypeOK
  <2>2. CASE Ready(c)
    BY <2>2 DEF Ready, LockInv
  <2>3. QED
    BY <1>2, <2>1, <2>2
    DEF Ensure, Acquire, GiveUp, Reuse, SpawnBroker, NotReady
<1>3. ASSUME NEW c \in Clients, Use(c) \/ FindStale(c)
      PROVE  FALSE
  <2>1. CASE Restart(c)
    BY <1>1, <2>1, TeardownEnds DEF Restart
  <2>2. QED
    BY <1>3, <2>1 DEF Use, Connect, Leave, FindStale
<1>4. ASSUME NEW e \in Enders, End(e)
      PROVE  record \in abandoned'
  <2>1. CASE EndTeardown(e)
    <3>1. CASE record = got[e]
      BY <1>1, <2>1, <3>1, TeardownEnds DEF EndTeardown
    <3>2. CASE record # got[e]
      BY <2>1, <3>2 DEF EndTeardown
    <3>3. QED
      BY <3>1, <3>2
  <2>2. QED
    BY <1>4, <2>1 DEF End, EndLoad, EndAsk
<1>5. \A a \in Actors, b \in Brokers : ~TeardownThrows(a, b)
  BY ThrowEffect
<1>6. QED
  BY <1>2, <1>3, <1>4, <1>5, ProcessSteps
  DEF Next, Crash, BreakLock, SweepElsewhere, Accept, vars, client

\* A client that waits for a broker that still runs gives it up only to
\* broker.json, or when it dies.
LEMMA WaitKept ==
  ASSUME TypeOK, HasBroker, [Next]_vars, NEW c \in Clients, pc[c] = "waiting",
         phase'[got[c]] \in {"spawned", "starting", "serving"}
  PROVE  \/ pc'[c] = "waiting" /\ got'[c] = got[c]
         \/ record' = got[c]
         \/ got[c] \in abandoned'
<1> USE Sorts
<1>1. got[c] \in Brokers
  BY DEF HasBroker, TypeOK
<1> DEFINE Stays == pc'[c] = "waiting" /\ got'[c] = got[c]
<1>2. ASSUME NEW d \in Clients, Ensure(d)
      PROVE  Stays \/ record' = got[c]
  <2>1. CASE d = c
    <3>1. CASE NotReady(c)
      BY <1>1, <3>1, TeardownEnds DEF NotReady
    <3>2. CASE Ready(c)
      BY <3>2 DEF Ready
    <3>3. QED
      BY <1>2, <2>1, <3>1, <3>2
      DEF Ensure, Acquire, GiveUp, Reuse, Replace, SpawnBroker
  <2>2. CASE d # c
    <3>1. CASE Replace(d)
      <4>1. pc' = [pc EXCEPT ![d] = "made"]
        BY <3>1 DEF Replace, At
      <4>2. \E b \in Brokers : got' = [got EXCEPT ![d] = b]
        BY <3>1, ReplaceEffect
      <4>3. QED
        BY <2>2, <4>1, <4>2 DEF TypeOK
    <3>2. QED
      BY <1>2, <2>2, <3>1
      DEF Ensure, Acquire, GiveUp, Reuse, SpawnBroker, Ready, NotReady, At,
          TypeOK
  <2>3. QED
    BY <2>1, <2>2
<1>3. ASSUME NEW d \in Clients, Use(d) \/ FindStale(d)
      PROVE  Stays
  BY <1>3, UseEffect DEF Inside, TypeOK
<1>4. ASSUME NEW d \in Clients, Crash(d)
      PROVE  Stays \/ got[c] \in abandoned'
  BY <1>4 DEF Crash, At, TypeOK
<1>5. ASSUME NEW e \in Enders, End(e)
      PROVE  Stays
  BY <1>5, EndEffect
<1>6. ASSUME NEW b \in Brokers, NEW d \in Clients, Accept(b, d)
      PROVE  Stays
  BY <1>6 DEF Accept, At, TypeOK
<1>7. CASE UNCHANGED <<pc, got>>
  BY <1>7
<1>8. ASSUME NEW a \in Actors, NEW b \in Brokers, TeardownThrows(a, b)
      PROVE  Stays
  <2>1. CASE a = c
    \* The broker it gives up is the one it tears down.
    <3>1. b = got[c]
      BY <1>8, <2>1 DEF TeardownThrows, TearsDown
    <3>2. phase'[b] = Killed(b)
      BY <1>8, ThrowEffect DEF TypeOK
    <3>3. QED
      BY <1>1, <3>1, <3>2, KilledIsDown DEF TypeOK
  <2>2. CASE a # c
    BY <1>8, <2>2, ThrowEffect DEF TypeOK
  <2>3. QED
    BY <2>1, <2>2
<1>9. QED
  BY <1>2, <1>3, <1>4, <1>5, <1>6, <1>7, <1>8, ProcessSteps
  DEF Next, BreakLock, SweepElsewhere, vars, client

LEMMA AbandonedStay ==
  ASSUME [Next]_vars
  PROVE  abandoned \subseteq abandoned'
BY ProcessSteps
DEF Next, Ensure, Acquire, GiveUp, Reuse, Replace, SpawnBroker, Ready,
    NotReady, Use, Connect, Leave, Restart, FindStale, Crash, BreakLock,
    SweepElsewhere, End, EndLoad, EndAsk, EndTeardown, TeardownThrows, Accept,
    vars

LEMMA StepUp ==
  ASSUME TypeOK, HasBroker, LockInv, UpInv, [Next]_vars
  PROVE  UpInv'
<1> DEFINE Runs(b) == phase'[b] \in {"spawned", "starting", "serving"}
<1> SUFFICES ASSUME NEW b \in Brokers, Runs(b), b \notin abandoned'
             PROVE  \/ b = record'
                    \/ \E c \in Clients : pc'[c] = "waiting" /\ got'[c] = b
  BY DEF UpInv, Up
<1> USE Sorts
<1>1. Killed(b) \notin {"spawned", "starting", "serving"}
  BY KilledIsDown DEF TypeOK
<1>2. \/ phase[b] \in {"spawned", "starting", "serving"}
      \/ \E c \in Clients : pc[c] = "made" /\ got[c] = b /\ pc'[c] = "waiting"
  BY <1>1, BrokerSteps DEF BrokerStep
<1>3. CASE \E c \in Clients :
             pc[c] = "made" /\ got[c] = b /\ pc'[c] = "waiting"
  <2>1. PICK c \in Clients : pc[c] = "made" /\ got[c] = b /\ pc'[c] = "waiting"
    BY <1>3
  <2>2. got'[c] = got[c]
    <3>1. \A d \in Clients : ~Replace(d)
      BY <2>1 DEF Replace, LockInv, Inside
    <3>2. record = None
      BY <2>1 DEF LockInv
    <3>3. HasBroker' /\ got'[c] \in {got[c], record, None}
      BY <3>1, NameSteps, StepHasBroker
    <3>4. QED
      BY <2>1, <3>2, <3>3 DEF HasBroker
  <2>3. QED
    BY <2>1, <2>2
<1>4. CASE phase[b] \in {"spawned", "starting", "serving"}
  <2>1. \/ b = record
        \/ \E c \in Clients : pc[c] = "waiting" /\ got[c] = b
    BY <1>4, AbandonedStay DEF UpInv, Up
  <2>2. CASE b = record
    BY <2>2, RecordKept
  <2>3. CASE \E c \in Clients : pc[c] = "waiting" /\ got[c] = b
    BY <2>3, WaitKept
  <2>4. QED
    BY <2>1, <2>2, <2>3
<1>5. QED
  BY <1>2, <1>3, <1>4

----------------------------------------------------------------------------
(* The theorems.                                                           *)

\* The critical section, what is named and made, the files of what runs and
\* who answers for it always agree.
THEOREM SessionInvariant == Spec => []SessionInv
<1>1. Init => TypeOK /\ HasBroker /\ SessionInv
  BY Sorts DEF Init, TypeOK, HasBroker, SessionInv, LockInv, Inside, BornInv,
     MadeInv, FilesInv, UpInv, Up, Places, Phases
<1>2. TypeOK /\ HasBroker /\ SessionInv /\ [Next]_vars
      => TypeOK' /\ HasBroker' /\ SessionInv'
  BY StepType, StepHasBroker, StepLock, StepBorn, StepMade, StepFiles, StepUp
  DEF SessionInv
<1>3. QED
  BY <1>1, <1>2, PTL DEF Spec

\* However many commands start, reuse and restart brokers, and whoever dies,
\* two brokers run only where one lost its broker.json.
THEOREM OneBrokerRuns == Spec => []SoleBroker
<1>1. ASSUME TypeOK, SessionInv
      PROVE  SoleBroker
  <2> DEFINE S == Up \ abandoned
  <2>1. \A b, d \in S : b = d
    <3>1. S \subseteq Brokers
      BY DEF Up
    <3>2. \A b \in S : b = record \/ \E c \in Clients :
                                       pc[c] = "waiting" /\ got[c] = b
      BY <1>1 DEF SessionInv, UpInv
    <3>3. \A c \in Clients :
            pc[c] = "waiting" => record = None /\ lock = c
      BY <1>1 DEF SessionInv, LockInv, Inside
    <3>4. QED
      BY <3>1, <3>2, <3>3, Sorts
  <2>2. CASE S = {}
    BY <2>2, FS_EmptySet DEF SoleBroker
  <2>3. CASE S # {}
    <3>1. PICK b : S = {b}
      BY <2>1, <2>3
    <3>2. Cardinality(S) = 1
      BY <3>1, FS_Singleton
    <3>3. QED
      BY <3>2 DEF SoleBroker
  <2>4. QED
    BY <2>2, <2>3
<1>2. QED
  BY <1>1, TypeInvariant, SessionInvariant, PTL

\* No sweep and no teardown, under whatever lock, takes the directory of a
\* broker that is about to start or serves.
THEOREM DirectoriesStand == Spec => []DirectoryStands
<1>1. SessionInv => DirectoryStands
  BY DEF SessionInv, FilesInv, DirectoryStands, Up
<1>2. QED
  BY <1>1, SessionInvariant, PTL

============================================================================
