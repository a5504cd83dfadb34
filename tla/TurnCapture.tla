---------------------------- MODULE TurnCapture ----------------------------
(***************************************************************************)
(* One turn as a client of the app-server sees it: captureTurn in           *)
(* lib/codex.mjs sends turn/start or review/start, gathers what the         *)
(* notifications say of the turn and of the turns of its subagents, and     *)
(* settles one promise: by turn/completed, by inference once the final      *)
(* answer is there and the subagents are done, by an error notification,    *)
(* by the finalizing timer or by the watchdog on silence.                   *)
(*                                                                         *)
(* What the app-server sends travels on one connection, in order, and it   *)
(* never waits for the client, so sending and handling a message are one   *)
(* step; the response to the request comes among the notifications.  A     *)
(* message is handled in one synchronous stretch; the continuation behind  *)
(* an await runs later, so more messages of the same chunk may be handled  *)
(* before it.                                                              *)
(*                                                                         *)
(* The constant Freedoms selects what may go wrong:                        *)
(*   "stale"    an earlier turn of the thread still talks;                 *)
(*   "refuse"   the app-server refuses the request;                        *)
(*   "expire"   the request meets its deadline of 30 minutes;              *)
(*   "silence"  no message comes for the watchdog's ten minutes;           *)
(*   "loss"     the connection ends.                                       *)
(***************************************************************************)
EXTENDS Naturals, Sequences

CONSTANTS Root, Subs,   \* the thread of the turn, and those of subagents
          MaxBuffered,  \* MAX_BUFFERED_NOTIFICATIONS
          Freedoms

ASSUME ThreadsAssumption == Root \notin Subs
ASSUME BoundsAssumption == MaxBuffered \in Nat \ {0}
ASSUME FreedomsAssumption ==
  Freedoms \subseteq {"stale", "refuse", "expire", "silence", "loss"}

VARIABLES
  server,     \* the start request at the app-server
  connection, \* "open" or "lost"
  request,    \* the start request at the client
  pc,         \* where captureTurn stands
  cap,        \* the TurnCaptureState
  heard       \* every notification sent and handed to the client so far

vars == <<server, connection, request, pc, cap, heard>>

Threads == {Root} \union Subs
Timers  == {"inferred", "finalizing", "watchdog"}

Msg(kind, thread, sub, turn) ==
  [kind |-> kind, thread |-> thread, sub |-> sub, turn |-> turn]

Own(kind)           == Msg(kind, Root, Root, "own")
Stale(kind)         == Msg(kind, Root, Root, "stale")
OfSub(kind, s)      == Msg(kind, s, s, "own")
AboutSub(kind, s)   == Msg(kind, Root, s, "own")

OwnEnds == {Own("error"), Own("turn/completed")}

\* A call to a subagent may start without naming it ("collab/unnamed").
Notifications ==
  {Own("turn/started"), Own("answer"), Stale("turn/completed")} \union OwnEnds
  \union {OfSub(k, s) : k \in {"turn/started", "answer", "error",
                              "turn/completed"}, s \in Subs}
  \union {AboutSub(k, s) : k \in {"thread/started", "collab/started",
                           "collab/unnamed", "collab/completed"}, s \in Subs}

Outcomes == {"none", "completed", "inferred", "error", "finalizing", "watchdog"}

States ==
  [known : BOOLEAN,                  \* turnId
   registered : SUBSET Threads,      \* threadIds
   tracked : [Threads -> {"none", "own", "stale"}], \* threadTurnIds
   buffer : Seq(Notifications),      \* bufferedNotifications
   dropped : BOOLEAN,                \* the buffer has overflown
   answered : BOOLEAN,               \* finalAnswerSeen
   collaborations : SUBSET Subs,     \* pendingCollaborations
   active : SUBSET Subs,             \* activeSubagentTurns
   timers : SUBSET Timers,           \* the timers that are armed
   watched : BOOLEAN,                \* watchdogMs is set: not for reviews
   outcome : Outcomes]

TypeOK ==
  /\ heard \in SUBSET Notifications
  /\ server \in {"asked", "running", "replied"}
  /\ connection \in {"open", "lost"}
  /\ request \in {"pending", "answered", "final", "refused", "expired", "lost"}
  /\ pc \in {"starting", "waiting", "ended", "gone"}
  /\ cap \in States
  /\ Len(cap.buffer) <= MaxBuffered

----------------------------------------------------------------------------
\* The operators of the TurnCaptureState.

Settled(c) == c.outcome # "none"

CreateTurnCaptureState(watched) ==
  [known |-> FALSE, registered |-> {Root},
   tracked |-> [t \in Threads |-> "none"], buffer |-> <<>>, dropped |-> FALSE,
   answered |-> FALSE, collaborations |-> {}, active |-> {}, timers |-> {},
   watched |-> watched, outcome |-> "none"]

\* Mutant: the watchdog waits for the turn id.
ArmWatchdogLate(c) ==
  IF c.watched /\ c.known /\ ~Settled(c)
  THEN [c EXCEPT !.timers = @ \union {"watchdog"}] ELSE c

ArmWatchdog(c) ==
  IF c.watched /\ ~Settled(c) THEN [c EXCEPT !.timers = @ \union {"watchdog"}]
                              ELSE c

ArmFinalizing(c) ==
  IF Settled(c) THEN c ELSE [c EXCEPT !.timers = @ \union {"finalizing"}]

\* Mutant: subagents that still work are overlooked.
DrainedOfCalls(c) == c.answered /\ c.collaborations = {}

Drained(c) == c.answered /\ c.collaborations = {} /\ c.active = {}

ScheduleInferred(c) ==
  IF ~Settled(c) /\ Drained(c) THEN [c EXCEPT !.timers = @ \union {"inferred"}]
                               ELSE c

\* completeTurn and failTurn: the latter leaves the watchdog armed.
CompleteTurn(c, outcome) ==
  IF Settled(c) THEN c ELSE [c EXCEPT !.outcome = outcome, !.timers = {}]

FailTurn(c, outcome) ==
  IF Settled(c) THEN c
  ELSE [c EXCEPT !.outcome = outcome, !.timers = @ \ {"inferred", "finalizing"}]

RegisterThread(c, t) == [c EXCEPT !.registered = @ \union {t}]

\* Mutant: any turn of the thread counts.
BelongsByThread(c, m) == m.kind # "thread/started" /\ m.thread \in c.registered

\* thread/started has no params.threadId.
BelongsToTurn(c, m) ==
  /\ m.kind # "thread/started"
  /\ m.thread \in c.registered
  /\ c.tracked[m.thread] \in {"none", m.turn}

\* collabAgentToolCall items of the root thread, and final answers.
RecordItem(c, m) ==
  CASE m.kind = "collab/started" ->
         RegisterThread([c EXCEPT !.collaborations = @ \union {m.sub}], m.sub)
    [] m.kind = "collab/unnamed" ->
         [c EXCEPT !.collaborations = @ \union {m.sub}]
    [] m.kind = "collab/completed" ->
         RegisterThread(
           ScheduleInferred([c EXCEPT !.collaborations = @ \ {m.sub}]), m.sub)
    [] m.kind = "answer" /\ m.thread = Root ->
         ArmFinalizing(ScheduleInferred([c EXCEPT !.answered = TRUE]))
    [] m.kind = "answer" /\ m.thread # Root -> ArmFinalizing(c)

TurnStarted(c, m) ==
  [c EXCEPT !.registered = @ \union {m.thread},
            !.tracked[m.thread] = m.turn,
            !.active = IF m.thread = Root THEN @ ELSE @ \union {m.thread}]

TurnCompleted(c, m) ==
  IF m.thread = Root THEN CompleteTurn(c, "completed")
  ELSE ScheduleInferred([c EXCEPT !.active = @ \ {m.thread}])

\* An error of any of the threads fails the turn.
ApplyTurnNotification(c, m) ==
  CASE m.kind = "thread/started" -> RegisterThread(c, m.sub)
    [] m.kind = "turn/started"   -> TurnStarted(c, m)
    [] m.kind = "error"          -> FailTurn(c, "error")
    [] m.kind = "turn/completed" -> TurnCompleted(c, m)
    [] OTHER                     -> RecordItem(c, m)

ApplyIfBelongs(c, m) ==
  IF BelongsToTurn(c, m) THEN ApplyTurnNotification(c, m) ELSE c

\* A full buffer loses its oldest message.
Buffer(c, m) ==
  IF Len(c.buffer) >= MaxBuffered
  THEN [c EXCEPT !.buffer = Append(Tail(@), m), !.dropped = TRUE]
  ELSE [c EXCEPT !.buffer = Append(@, m)]

\* turnNotificationHandler.
Notified(c, m) ==
  LET kicked == ArmWatchdog(c)
  IN  IF ~c.known THEN Buffer(kicked, m)
      ELSE IF m.kind = "thread/started" THEN ApplyTurnNotification(kicked, m)
      ELSE ApplyIfBelongs(kicked, m)

\* Mutant: what came before the response is forgotten.
ReplayNothing(c) == c

\* The state after the first i messages of the buffer.
Replayed(c) ==
  LET after[i \in 0..Len(c.buffer)] ==
        IF i = 0 THEN c ELSE ApplyIfBelongs(after[i - 1], c.buffer[i])
  IN  after

Replay(c) == Replayed(c)[Len(c.buffer)]

----------------------------------------------------------------------------
Init ==
  /\ heard = {}
  /\ server = "asked" /\ connection = "open" /\ request = "pending"
  /\ pc = "starting"
  /\ \E watched \in BOOLEAN :
       cap = ArmWatchdog(CreateTurnCaptureState(watched))

----------------------------------------------------------------------------
\* The app-server.

\* The call of the subagent s has started.
Called(s) ==
  {AboutSub("collab/started", s), AboutSub("collab/unnamed", s)}
    \intersect heard # {}

\* When it may send m: a subagent is started by a collaboration call.
MaySend(m) ==
  /\ m \notin heard
  /\ CASE m.turn = "stale" -> "stale" \in Freedoms
       [] m.kind = "thread/started" -> server # "asked"
       [] OTHER ->
            /\ server # "asked"
            /\ m.thread = Root => OwnEnds \intersect heard = {}
            /\ m.kind \in {"collab/started", "collab/unnamed"}
                 => ~Called(m.sub)
            /\ m.kind = "collab/completed" => Called(m.sub)
            /\ m.thread # Root =>
                 IF m.kind = "turn/started" THEN Called(m.thread)
                 ELSE /\ OfSub("turn/started", m.thread) \in heard
                      /\ OfSub("turn/completed", m.thread) \notin heard

ServerTakes ==
  /\ server = "asked" /\ connection = "open"
  /\ server' = "running"
  /\ UNCHANGED <<connection, request, pc, cap, heard>>

----------------------------------------------------------------------------
\* The client.

Listening == pc \in {"starting", "waiting"}

\* handleLine: the response settles the request if it is still pending.  It
\* carries the state of the turn at that moment.
Answered ==
  /\ Listening /\ connection = "open"
  /\ \E reply \in {"answered", "final", "refused"} :
       /\ IF reply = "refused" THEN server = "asked" /\ "refuse" \in Freedoms
                               ELSE server = "running"
       /\ reply = "final" => Own("turn/completed") \in heard
       /\ request' = IF request = "pending" THEN reply ELSE request
  /\ server' = "replied"
  /\ UNCHANGED <<connection, pc, cap, heard>>

\* handleLine: a notification goes to the handler.
Notify(m) ==
  /\ Listening /\ connection = "open"
  /\ request # "refused"
  /\ MaySend(m)
  /\ cap' = Notified(cap, m)
  /\ heard' = heard \union {m}
  /\ UNCHANGED <<server, connection, request, pc>>

\* handleExit: every pending request is rejected.
Lose ==
  /\ "loss" \in Freedoms
  /\ Listening /\ connection = "open"
  /\ connection' = "lost"
  /\ request' = IF request = "pending" THEN "lost" ELSE request
  /\ UNCHANGED <<server, pc, cap, heard>>

\* The sweep of the pending requests (ensureTimeoutSweep).
Expire ==
  /\ "expire" \in Freedoms
  /\ Listening /\ request = "pending"
  /\ request' = "expired"
  /\ UNCHANGED <<server, connection, pc, cap, heard>>

\* The response is there: the turn id is known and the buffer replayed.
Begin ==
  /\ pc = "starting" /\ request \in {"answered", "final"}
  /\ LET known == [cap EXCEPT !.known = TRUE, !.tracked[Root] = "own"]
         replayed == [Replay(known) EXCEPT !.buffer = <<>>]
     IN  cap' = IF request = "final" THEN CompleteTurn(replayed, "completed")
                                     ELSE replayed
  /\ pc' = "waiting"
  /\ UNCHANGED <<server, connection, request, heard>>

\* The finally block.
Cleaned(c) == [c EXCEPT !.timers = @ \ {"inferred", "watchdog"}]

\* startRequest throws.
StartFails ==
  /\ pc = "starting" /\ request \in {"refused", "expired", "lost"}
  /\ pc' = "ended"
  /\ cap' = Cleaned(cap)
  /\ UNCHANGED <<server, connection, request, heard>>

\* The awaited completion is settled.
Finish ==
  /\ pc = "waiting" /\ Settled(cap)
  /\ pc' = "ended"
  /\ cap' = Cleaned(cap)
  /\ UNCHANGED <<server, connection, request, heard>>

\* The quarter of a second after the last step of the turn is over.
InferredFires ==
  /\ Listening /\ "inferred" \in cap.timers
  /\ LET fired == [cap EXCEPT !.timers = @ \ {"inferred"}]
     IN  cap' = IF Drained(fired) THEN CompleteTurn(fired, "inferred") ELSE fired
  /\ UNCHANGED <<server, connection, request, pc, heard>>

FinalizingFires ==
  /\ Listening /\ "finalizing" \in cap.timers
  /\ cap' = FailTurn([cap EXCEPT !.timers = @ \ {"finalizing"}], "finalizing")
  /\ UNCHANGED <<server, connection, request, pc, heard>>

\* The watchdog rejects the completion.  While the response is still awaited
\* nobody has taken the completion up: an unhandled rejection, which ends the
\* process.
WatchdogFires ==
  /\ "silence" \in Freedoms
  /\ Listening /\ "watchdog" \in cap.timers
  /\ IF Settled(cap)
     THEN /\ cap' = [cap EXCEPT !.timers = @ \ {"watchdog"}]
          /\ UNCHANGED pc
     ELSE /\ cap' = [cap EXCEPT !.timers = {}, !.outcome = "watchdog"]
          /\ pc' = IF pc = "starting" THEN "gone" ELSE pc
  /\ UNCHANGED <<server, connection, request, heard>>

\* Every timer is unref'd: without a connection nothing keeps the process.
LoopEmpties ==
  /\ pc = "waiting" /\ connection = "lost" /\ ~Settled(cap)
  /\ pc' = "gone"
  /\ UNCHANGED <<server, connection, request, cap, heard>>

----------------------------------------------------------------------------
Next ==
  \/ ServerTakes \/ Answered \/ \E m \in Notifications : Notify(m)
  \/ Lose \/ Expire
  \/ Begin \/ StartFails \/ Finish
  \/ InferredFires \/ FinalizingFires \/ WatchdogFires \/ LoopEmpties

Spec == Init /\ [][Next]_vars

(***************************************************************************)
(* Fairness: the client continues behind its awaits, and its timers and    *)
(* the sweep of the requests fire.  Nothing is assumed of the app-server.  *)
(***************************************************************************)
FairSpec ==
  /\ Spec
  /\ WF_vars(Begin \/ StartFails \/ Finish)
  /\ WF_vars(InferredFires) /\ WF_vars(FinalizingFires)
  /\ WF_vars(WatchdogFires) /\ WF_vars(Expire) /\ WF_vars(LoopEmpties)

----------------------------------------------------------------------------
\* Properties.

\* The end of the turn is not missed, however early its notification came:
\* once the response is handled, a turn/completed or error of the turn has
\* settled the capture, unless the buffer has overflown (codex.mjs:838-845,
\* 872-881).
EndNotMissed ==
  pc = "waiting" /\ heard \intersect OwnEnds # {} /\ ~cap.dropped
    => Settled(cap)

\* Only the turn's own completion completes it, and only its own error or that
\* of a subagent it knows of fails it: never a message of an earlier turn that
\* still runs on the thread, nor of a thread nobody has named to the capture
\* (codex.mjs:620-628, 765-776).
EndIsOwn ==
  /\ cap.outcome = "completed" => Own("turn/completed") \in heard
  /\ cap.outcome = "error"
       => \/ Own("error") \in heard
          \/ \E s \in Subs \intersect cap.registered :
               OfSub("error", s) \in heard

\* The subagents named by the call that started them whose turn the client has
\* heard to start, not to end.
HeardActive ==
  {s \in Subs : /\ AboutSub("collab/started", s) \in heard
                /\ OfSub("turn/started", s) \in heard
                /\ OfSub("turn/completed", s) \notin heard}

\* A capture is settled once, whatever fires or arrives afterwards; and by
\* inference only after the final answer and while no subagent is known to be
\* at work, unless the buffer has overflown (codex.mjs:597-618).  One whose call
\* did not name it is not known to work until it is named.
SettledOnce ==
  [][cap'.outcome # cap.outcome =>
       /\ ~Settled(cap)
       /\ cap'.outcome = "inferred" /\ ~cap.dropped
            => Own("answer") \in heard /\ HeardActive = {}]_vars

\* With a watchdog the capture comes to an end, whatever the app-server does
\* or fails to do.
CaptureEnds == cap.watched ~> ~Listening
============================================================================
