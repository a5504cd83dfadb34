--------------------------- MODULE BrokerSession ---------------------------
(***************************************************************************)
(* The life of the shared broker processes of a workspace                  *)
(* (lib/broker-lifecycle.mjs): commands and hooks that make sure a broker  *)
(* runs (ensureBrokerSession), under the broker lock of the workspace;     *)
(* the session-end hook, which ends the broker without that lock; the      *)
(* restart after a stale login (codex.mjs); the sweep of the session       *)
(* directories of dead brokers; and the broker process itself, from its    *)
(* start to its idle exit (app-server-broker.mjs).                         *)
(*                                                                         *)
(* A step is what runs between two awaits.  A broker stands for its        *)
(* process id, its endpoint and its session directory, all of them new     *)
(* with every spawn.  The lock is the one DirLock specifies: waited for    *)
(* for two seconds at most, taken from a holder that died, and taken to be *)
(* exclusive here (DirLock says when it is not).  Other workspaces have    *)
(* locks of their own: all that shows of them here is their sweep.         *)
(***************************************************************************)
EXTENDS Naturals, FiniteSets

CONSTANTS
  Clients,       \* commands and hooks that want a broker
  Enders,        \* session-end hooks
  Restarters,    \* clients whose login may turn out stale in the broker
  Crashers,      \* bound: clients that may die inside the critical section
  MaxBrokers     \* bound: brokers spawned over the whole run

Brokers == 1 .. MaxBrokers
None == 0

ASSUME SessionAssumption ==
  /\ None \notin Clients
  /\ Clients \cap Enders = {}
  /\ Restarters \subseteq Clients
  /\ Crashers \subseteq Clients
  /\ MaxBrokers \in Nat \ {0}

VARIABLES
  record,      \* the broker that broker.json names, or None
  lock,        \* who holds the broker lock, or None
  pc,          \* where a client or an ender is
  got,         \* the broker a client or an ender has loaded or spawned
  restarted,   \* clients that have restarted the broker once
  phase,       \* where a broker process is
  files,       \* what of a broker's session directory exists
  aged,        \* brokers whose session directory is past the grace
  conn,        \* the broker's sockets
  active,      \* brokers whose idle grace has not passed
  abandoned    \* history: running brokers that lost their record

client == <<pc, got, restarted>>
process == <<phase, files, aged>>
sockets == <<conn, active>>
vars == <<record, lock, client, process, sockets, abandoned>>

Actors == Clients \cup Enders
Phases == {"unborn", "made", "spawned", "starting", "serving", "idling",
           "draining", "closing", "gone"}
Places == {"idle", "probing", "made", "waiting", "probed", "ensured",
           "connected", "stale", "asking", "ending", "direct", "failed",
           "done", "crashed"}

Init ==
  /\ record = None
  /\ lock = None
  /\ pc = [a \in Actors |-> "idle"]
  /\ got = [a \in Actors |-> None]
  /\ restarted = {}
  /\ phase = [b \in Brokers |-> "unborn"]
  /\ files = [b \in Brokers |-> {}]
  /\ aged = {}
  /\ conn = [b \in Brokers |-> {}]
  /\ active = {}
  /\ abandoned = {}

----------------------------------------------------------------------------
(* The processes and their files.                                          *)

\* A connect succeeds as soon as the kernel takes it: also while a broker
\* that shuts down still awaits the end of its app-server.
Listening(b) ==
  /\ b # None
  /\ phase[b] \in {"serving", "idling", "draining"}
  /\ "socket" \in files[b]

\* What SIGTERM makes of a process: before its handlers are there it dies,
\* a serving broker shuts down, and one that already does exits at once.
Killed(b) ==
  CASE phase[b] \in {"unborn", "made"} -> phase[b]
    [] phase[b] = "serving" -> "draining"
    [] OTHER -> "gone"

\* Mutant: files are removed, the process runs on.
TeardownOfFiles(b) ==
  /\ UNCHANGED phase
  /\ IF b = None THEN UNCHANGED files ELSE files' = [files EXCEPT ![b] = {}]

\* teardownBrokerSession: kill the process, remove what it has on disk.
Teardown(b) ==
  IF b = None
    THEN UNCHANGED <<phase, files>>
    ELSE /\ phase' = [phase EXCEPT ![b] = Killed(b)]
         /\ files' = [files EXCEPT ![b] = {}]

\* a is about to tear down the broker b.
TearsDown(a, b) ==
  /\ b # None
  /\ \/ pc[a] = "probing" /\ got[a] = b /\ ~Listening(b)
     \/ pc[a] \in {"waiting", "ending"} /\ got[a] = b
     \/ pc[a] = "stale" /\ lock = None /\ record = b

Alive(b) ==
  phase[b] \in {"starting", "serving", "idling", "draining", "closing"}

\* Mutant: no grace for a directory without a pid file.
DeadAtOnce(b) == "pid" \in files[b] => ~Alive(b)

\* classifySessionDir: without a pid file a directory is dead once it is
\* old enough, with one when no such process runs.
Dead(b) ==
  IF "pid" \in files[b] THEN ~Alive(b) ELSE b \in aged

\* sweepDeadBrokerSessionDirs, with the directories of all workspaces.
Swept(f) ==
  [b \in Brokers |-> IF "dir" \in f[b] /\ Dead(b) THEN {} ELSE f[b]]

----------------------------------------------------------------------------
(* ensureBrokerSession.                                                    *)

At(c, place) == pc' = [pc EXCEPT ![c] = place]
Unlock == lock' = None

\* The lock is ours: load broker.json.
Acquire(c) ==
  /\ pc[c] = "idle"
  /\ lock = None
  /\ lock' = c
  /\ got' = [got EXCEPT ![c] = record]
  /\ At(c, "probing")
  /\ UNCHANGED <<record, restarted, process, sockets, abandoned>>

\* withBrokerLockAsync throws after LOCK_RETRY_COUNT attempts, two seconds: no
\* longer than a holder may wait for its broker, and far less than it takes
\* until an orphan whose pid is in use again is stale.  Nothing goes on
\* without a broker then: the command fails, and so does a restart; the hook
\* that only warms the broker lets it be.
GiveUp(c) ==
  /\ pc[c] \in {"idle", "stale"}
  /\ lock # None
  /\ got' = [got EXCEPT ![c] = None]
  /\ At(c, "failed")
  /\ UNCHANGED <<record, lock, restarted, process, sockets, abandoned>>

\* The recorded broker accepts a connection: it is the one to use.
Reuse(c) ==
  /\ pc[c] = "probing"
  /\ Listening(got[c])
  /\ At(c, "probed")
  /\ Unlock
  /\ UNCHANGED <<record, got, restarted, process, sockets, abandoned>>

\* It does not: end what is left of it, clear broker.json, sweep, and make
\* the directory of a new one.
Replace(c) ==
  LET old == got[c]
      kept == IF old = None THEN files ELSE [files EXCEPT ![old] = {}]
  IN
  /\ pc[c] = "probing"
  /\ ~Listening(old)
  /\ \E b \in Brokers :
       /\ phase[b] = "unborn"
       /\ \A d \in Brokers : d < b => phase[d] # "unborn"
       /\ phase' = [d \in Brokers |-> IF d = b THEN "made"
                                      ELSE IF d = old THEN Killed(d)
                                      ELSE phase[d]]
       /\ files' = [Swept(kept) EXCEPT ![b] = {"dir"}]
       /\ got' = [got EXCEPT ![c] = b]
  /\ record' = None
  /\ At(c, "made")
  /\ UNCHANGED <<lock, restarted, aged, sockets, abandoned>>

\* spawnBrokerProcess, after the import it awaits.
SpawnBroker(c) ==
  /\ pc[c] = "made"
  /\ phase' = [phase EXCEPT ![got[c]] = "spawned"]
  /\ At(c, "waiting")
  /\ UNCHANGED <<record, lock, got, restarted, files, aged, sockets,
                 abandoned>>

\* The endpoint answers in time: write broker.json.
Ready(c) ==
  /\ pc[c] = "waiting"
  /\ Listening(got[c])
  /\ record' = got[c]
  /\ At(c, "probed")
  /\ Unlock
  /\ UNCHANGED <<got, restarted, process, sockets, abandoned>>

\* Mutant: the early return leaves the lock.
NotReadyKeepsLock(c) ==
  /\ pc[c] = "waiting"
  /\ Teardown(got[c])
  /\ got' = [got EXCEPT ![c] = None]
  /\ At(c, "direct")
  /\ UNCHANGED <<record, lock, restarted, aged, sockets, abandoned>>

\* It does not: end the broker, and go on without one.
NotReady(c) ==
  /\ pc[c] = "waiting"
  /\ Teardown(got[c])
  /\ got' = [got EXCEPT ![c] = None]
  /\ At(c, "direct")
  /\ Unlock
  /\ UNCHANGED <<record, restarted, aged, sockets, abandoned>>

\* A client dies inside the critical section; the lock it leaves is broken
\* when the next one finds it.
Crash(c) ==
  /\ c \in Crashers
  /\ pc[c] \in {"probing", "made", "waiting"}
  /\ At(c, "crashed")
  /\ got' = [got EXCEPT ![c] = None]
  /\ abandoned' = abandoned \cup (IF pc[c] = "waiting" THEN {got[c]} ELSE {})
  /\ UNCHANGED <<record, lock, restarted, process, sockets>>

BreakLock ==
  /\ lock # None
  /\ pc[lock] = "crashed"
  /\ Unlock
  /\ UNCHANGED <<record, client, process, sockets, abandoned>>

----------------------------------------------------------------------------
(* What a client does with the broker it was given.                        *)

\* The broker may have begun to shut down since the probe: then there is
\* nothing to connect to, or, while it still listens, a broker that will
\* refuse every turn; a connection made then is not ended by the shutdown.
Connect(c) ==
  /\ pc[c] \in {"probed", "ensured"}
  /\ IF Listening(got[c])
       THEN /\ conn' = [conn EXCEPT ![got[c]] = @ \cup {c}]
            /\ active' = active \cup {got[c]}
            /\ At(c, "connected")
            /\ UNCHANGED got
       ELSE /\ got' = [got EXCEPT ![c] = None]
            /\ At(c, "direct")
            /\ UNCHANGED sockets
  /\ UNCHANGED <<record, lock, restarted, process, abandoned>>

\* Mutant: a closed socket stays in the set.
HangupUncounted(c) ==
  /\ UNCHANGED conn
  /\ got' = [got EXCEPT ![c] = None]

Hangup(c) ==
  /\ conn' = [conn EXCEPT ![got[c]] = @ \ {c}]
  /\ got' = [got EXCEPT ![c] = None]

\* Its work is over, or the broker has ended the connection.
Leave(c) ==
  /\ pc[c] = "connected"
  /\ Hangup(c)
  /\ At(c, "done")
  /\ UNCHANGED <<record, lock, restarted, process, active, abandoned>>

\* probeAuthWithStaleRetry: the broker still has the old login.
FindStale(c) ==
  /\ c \in Restarters \ restarted
  /\ pc[c] = "connected"
  /\ restarted' = restarted \cup {c}
  /\ Hangup(c)
  /\ At(c, "stale")
  /\ UNCHANGED <<record, lock, process, active, abandoned>>

\* restartStaleBrokerSession: all of it while the lock is held.
Restart(c) ==
  /\ pc[c] = "stale"
  /\ lock = None
  /\ Teardown(record)
  /\ record' = None
  /\ At(c, "idle")
  /\ UNCHANGED <<lock, got, restarted, aged, sockets, abandoned>>

----------------------------------------------------------------------------
(* The session-end hook: handleSessionEnd takes no lock.                   *)

EndLoad(e) ==
  /\ pc[e] = "idle"
  /\ got' = [got EXCEPT ![e] = record]
  /\ At(e, IF record = None THEN "ending" ELSE "asking")
  /\ UNCHANGED <<record, lock, restarted, process, sockets, abandoned>>

\* broker/shutdown; it is awaited for five seconds at most, and an endpoint
\* that is gone answers with an error.
EndAsk(e) ==
  /\ pc[e] = "asking"
  /\ \/ /\ Listening(got[e])
        /\ phase' = [phase EXCEPT ![got[e]] = "draining"]
     \/ UNCHANGED phase
  /\ At(e, "ending")
  /\ UNCHANGED <<record, lock, got, restarted, files, aged, sockets,
                 abandoned>>

\* The broker that was loaded is torn down; broker.json is cleared whatever
\* it names by now.
EndTeardown(e) ==
  /\ pc[e] = "ending"
  /\ Teardown(got[e])
  /\ record' = None
  /\ abandoned' = abandoned \cup ({record} \ {None, got[e]})
  /\ got' = [got EXCEPT ![e] = None]
  /\ At(e, "done")
  /\ UNCHANGED <<lock, restarted, aged, sockets>>

----------------------------------------------------------------------------
\* A teardown throws: the pid file it has just seen is removed before it does
\* so itself, by the broker, which is exiting, or by another that tears the
\* same broker down.  The rest of the directory stays, broker.json is not
\* cleared, a lock that was taken is released, the command or hook fails.
TeardownThrows(a, b) ==
  /\ TearsDown(a, b)
  /\ "pid" \in files[b]
  /\ \/ phase[b] = "closing" /\ conn[b] = {}
     \/ \E o \in Actors \ {a} : TearsDown(o, b)
  /\ phase' = [phase EXCEPT ![b] = Killed(b)]
  /\ files' = [files EXCEPT ![b] = @ \ {"pid"}]
  /\ got' = [got EXCEPT ![a] = None]
  /\ At(a, "failed")
  /\ lock' = IF lock = a THEN None ELSE lock
  /\ UNCHANGED <<record, restarted, aged, sockets, abandoned>>

----------------------------------------------------------------------------
(* The broker process.                                                     *)

WritePidFile(b) ==
  /\ phase[b] = "spawned"
  /\ phase' = [phase EXCEPT ![b] = "starting"]
  /\ files' = [files EXCEPT ![b] = {"dir", "pid"}]
  /\ UNCHANGED <<record, lock, client, aged, sockets, abandoned>>

\* The app-server answered initialize; the idle clock has been running
\* since the process started.
Listen(b) ==
  /\ phase[b] = "starting"
  /\ phase' = [phase EXCEPT ![b] = "serving"]
  /\ files' = [files EXCEPT ![b] = @ \cup {"socket"}]
  /\ active' = active \cup {b}
  /\ UNCHANGED <<record, lock, client, aged, conn, abandoned>>

\* The app-server does not start: the broker exits, its pid file stays.
StartFails(b) ==
  /\ phase[b] = "starting"
  /\ phase' = [phase EXCEPT ![b] = "gone"]
  /\ UNCHANGED <<record, lock, client, files, aged, sockets, abandoned>>

\* The connection event of a probe, which the kernel took when the client
\* saw it succeed: any connection is activity.
Accept(b, c) ==
  /\ phase[b] = "serving"
  /\ pc[c] = "probed"
  /\ got[c] = b
  /\ active' = active \cup {b}
  /\ At(c, "ensured")
  /\ UNCHANGED <<record, lock, got, restarted, process, conn, abandoned>>

\* Ten minutes without a connection.  A client needs far less than that from
\* its probe to its connection, a broker to take a connection.
Rest(b) ==
  /\ phase[b] = "serving"
  /\ b \in active
  /\ conn[b] = {}
  /\ \A c \in Clients :
       got[c] = b => pc[c] \notin {"waiting", "probed", "ensured"}
  /\ active' = active \ {b}
  /\ UNCHANGED <<record, lock, client, process, conn, abandoned>>

\* A tick of the idle watchdog finds no socket and the grace over.
IdleOut(b) ==
  /\ phase[b] = "serving"
  /\ conn[b] = {}
  /\ b \notin active
  /\ phase' = [phase EXCEPT ![b] = "idling"]
  /\ UNCHANGED <<record, lock, client, files, aged, conn, active,
                 abandoned>>

\* The app-server behind the broker exits.
ChildExits(b) ==
  /\ phase[b] = "serving"
  /\ phase' = [phase EXCEPT ![b] = "draining"]
  /\ UNCHANGED <<record, lock, client, files, aged, sockets, abandoned>>

\* shutdown: the app-server is closed, now the server stops to listen; its
\* close waits for the sockets there are.
StopListening(b) ==
  /\ phase[b] \in {"idling", "draining"}
  /\ phase' = [phase EXCEPT ![b] = "closing"]
  /\ files' = [files EXCEPT ![b] = @ \ {"socket"}]
  /\ active' = active \ {b}
  /\ UNCHANGED <<record, lock, client, aged, conn, abandoned>>

\* The last socket is closed: the pid file goes, and the process.
Exit(b) ==
  /\ phase[b] = "closing"
  /\ conn[b] = {}
  /\ phase' = [phase EXCEPT ![b] = "gone"]
  /\ files' = [files EXCEPT ![b] = @ \ {"pid"}]
  /\ UNCHANGED <<record, lock, client, aged, sockets, abandoned>>

\* A minute has passed for a session directory without a pid file.  A
\* process that is spawned has written its own long before that.
Age(b) ==
  /\ b \notin aged
  /\ files[b] = {"dir"}
  /\ phase[b] # "spawned"
  /\ \A c \in Clients : ~(pc[c] = "made" /\ got[c] = b)
  /\ aged' = aged \cup {b}
  /\ UNCHANGED <<record, lock, client, phase, files, sockets, abandoned>>

\* A command of another workspace, under another lock, spawns a broker.
SweepElsewhere ==
  /\ Swept(files) # files
  /\ files' = Swept(files)
  /\ UNCHANGED <<record, lock, client, phase, aged, sockets, abandoned>>

----------------------------------------------------------------------------

Ensure(c) ==
  \/ Acquire(c) \/ GiveUp(c) \/ Reuse(c) \/ Replace(c) \/ SpawnBroker(c)
  \/ Ready(c) \/ NotReady(c)

Use(c) == Connect(c) \/ Leave(c) \/ Restart(c)
End(e) == EndLoad(e) \/ EndAsk(e) \/ EndTeardown(e)
Start(b) == WritePidFile(b) \/ Listen(b) \/ StartFails(b)
Stop(b) == Rest(b) \/ IdleOut(b) \/ StopListening(b) \/ Exit(b)

Next ==
  \/ \E c \in Clients : Ensure(c) \/ Use(c) \/ FindStale(c) \/ Crash(c)
  \/ BreakLock
  \/ SweepElsewhere
  \/ \E e \in Enders : End(e)
  \/ \E a \in Actors, b \in Brokers : TeardownThrows(a, b)
  \/ \E b \in Brokers :
       \/ Start(b) \/ Stop(b) \/ ChildExits(b) \/ Age(b)
       \/ \E c \in Clients : Accept(b, c)

\* Commands run, a connection is taken, processes start and stop; nothing
\* says that a client crashes, that a child exits or that a minute passes.
Fairness ==
  /\ \A c \in Clients : WF_vars(Ensure(c)) /\ WF_vars(Use(c))
  /\ WF_vars(BreakLock)
  /\ \A e \in Enders : WF_vars(End(e))
  /\ \A b \in Brokers : WF_vars(Start(b)) /\ WF_vars(Stop(b))

Spec == Init /\ [][Next]_vars /\ Fairness

----------------------------------------------------------------------------
(* Properties.                                                             *)

TypeOK ==
  /\ record \in Brokers \cup {None}
  /\ lock \in Clients \cup {None}
  /\ pc \in [Actors -> Places]
  /\ got \in [Actors -> Brokers \cup {None}]
  /\ restarted \subseteq Restarters
  /\ phase \in [Brokers -> Phases]
  /\ files \in [Brokers -> SUBSET {"dir", "pid", "socket"}]
  /\ aged \subseteq Brokers
  /\ conn \in [Brokers -> SUBSET Clients]
  /\ active \cup abandoned \subseteq Brokers

Up == {b \in Brokers : phase[b] \in {"spawned", "starting", "serving"}}

\* Two commands never leave two brokers running, however
\* their starts, stale records and restarts interleave
\* (broker-lifecycle.mjs:317-327): a second one runs only where a client
\* died before it wrote broker.json, or the session-end hook cleared a
\* record it had not loaded.
SoleBroker == Cardinality(Up \ abandoned) <= 1

\* The sweep, which runs for every workspace under the lock of one of them,
\* and the teardowns never take the session directory of a broker that is
\* about to start or serves (broker-lifecycle.mjs:22-32).
DirectoryStands ==
  \A b \in Up :
    /\ "dir" \in files[b]
    /\ phase[b] = "serving" => {"pid", "socket"} \subseteq files[b]

\* A command that wants a broker is not held up for ever: it gets one, goes on
\* without, or fails, as it does when the lock is not free for two seconds.
\* And nobody keeps the lock: whoever has it lets it go on every path,
\* however its broker hangs, or dies and has it broken
\* (broker-lifecycle.mjs:317-394).
EnsureEnds ==
  \A c \in Clients :
    /\ pc[c] \in {"idle", "probing", "made", "waiting", "stale"} ~>
         pc[c] \in {"probed", "ensured", "connected", "direct", "failed",
                   "done", "crashed"}
    /\ lock = c ~> lock # c

\* A broker that no broker.json names any more ends by itself: the idle
\* watchdog is its only way out (app-server-broker.mjs:585-590).
OrphansExit ==
  \A b \in Brokers : b \in abandoned ~> phase[b] = "gone"
============================================================================
