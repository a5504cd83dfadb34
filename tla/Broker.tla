------------------------------- MODULE Broker -------------------------------
(***************************************************************************)
(* The message loop of app-server-broker.mjs: client sockets, the busy     *)
(* gate, requests awaited from the one app-server, routing of              *)
(* turn/completed and of the app-server's own requests, and the close of a *)
(* socket.  Each socket's lines are handled strictly one after another (the *)
(* dataChain promise), but handlers of different sockets interleave at     *)
(* every await, and a socket's queued lines are still handled after it     *)
(* closed.                                                                 *)
(*                                                                         *)
(* The clients and the app-server are external.  What a client may do      *)
(* beyond "start one turn at a time, stay connected until it completed" is *)
(* selected by the constant Freedoms:                                      *)
(*   "early_close"  disconnect while a line or a turn is unfinished (a     *)
(*                  watchdog, an inferred completion, a killed process);   *)
(*   "supersede"    start the next turn when the previous one has ended    *)
(*                  but its turn/completed has not been delivered;         *)
(*   "plain_error"  a plain request of the stream's owner is refused;      *)
(*   "timeout"      a request whose turn did start is failed by the        *)
(*                  30-minute request timeout.                             *)
(* The bounds MaxLines (lines per socket) and MaxServerRequests bound the  *)
(* model only.                                                             *)
(***************************************************************************)
EXTENDS TurnOwnership, Sequences, FiniteSets

CONSTANTS Freedoms, MaxLines, MaxServerRequests

ASSUME FreedomsAssumption ==
  Freedoms \subseteq {"early_close", "supersede", "plain_error", "timeout"}
ASSUME BoundsAssumption == MaxLines \in Nat /\ MaxServerRequests \in Nat

VARIABLES
  conn,            \* conn[s]: "open" or "closed"
  chain,           \* chain[s]: lines received from s and not yet handled
  inflight,        \* inflight[s]: the line whose response s's loop awaits
  started,         \* sockets whose awaited line has started a turn
  running,         \* turns running in the app-server
  outbox,          \* turns that ended, their turn/completed not yet handled
  serverRequests,  \* app-server requests forwarded to clients, by id
  sent             \* sent[s]: lines s has written so far

brokerVars == <<conn, chain, inflight, started, running, outbox,
                serverRequests, sent>>
vars == <<ownershipVars, brokerVars>>

StreamLines ==
  {l \in [method : {"turn", "review"}, src : Threads, thread : Threads] :
     l.method = "turn" => l.src = l.thread}
PlainLines == [method : {"plain", "control", "spawn"}]
ReplyLines == [method : {"reply"}, id : Nat]
Lines      == StreamLines \union PlainLines \union ReplyLines
Idle       == [method |-> "idle"]
Turns      == [socket : Sockets, thread : Threads]
ServerRequest == [socket : Sockets,
                  status : {"pending", "resolved", "rejected"}]

Streaming(l) == l.method \in {"turn", "review"}
TurnOf(s, l) == [socket |-> s, thread |-> l.thread]

\* The turns the app-server has not finished with, from the broker's view.
Unfinished == running \union {outbox[i] : i \in DOMAIN outbox}

TypeOK ==
  /\ OwnershipTypeOK
  /\ conn \in [Sockets -> {"open", "closed"}]
  /\ chain \in [Sockets -> Seq(Lines)]
  /\ inflight \in [Sockets -> StreamLines \union PlainLines \union {Idle}]
  /\ started \in SUBSET Sockets
  /\ running \in SUBSET Turns
  /\ outbox \in Seq(Turns)
  /\ serverRequests \in Seq(ServerRequest)
  /\ sent \in [Sockets -> Nat]

Init ==
  /\ OwnershipInit
  /\ conn = [s \in Sockets |-> "open"]
  /\ chain = [s \in Sockets |-> <<>>]
  /\ inflight = [s \in Sockets |-> Idle]
  /\ started = {}
  /\ running = {}
  /\ outbox = <<>>
  /\ serverRequests = <<>>
  /\ sent = [s \in Sockets |-> 0]

----------------------------------------------------------------------------
\* The client side of a socket (external).

OwnTurns(s)    == {t \in Unfinished : t.socket = s}
OwnLines(s)    == {chain[s][i] : i \in DOMAIN chain[s]} \union {inflight[s]}
AwaitsTurn(s)  == \E l \in OwnLines(s) : Streaming(l)

\* A client starts one turn at a time and serialises the turns of a thread.
MayStartTurn(s, l) ==
  /\ ~AwaitsTurn(s)
  /\ \/ OwnTurns(s) = {}
     \/ /\ "supersede" \in Freedoms
        /\ \A t \in OwnTurns(s) :
             t \notin running /\ t.thread \notin {l.src, l.thread}

\* A line of the client enters the socket's dataChain.
SendLine(s, l) ==
  /\ conn[s] = "open"
  /\ sent[s] < MaxLines
  /\ Streaming(l) => MayStartTurn(s, l)
  /\ l.method = "reply" => /\ l.id \in DOMAIN serverRequests
                           /\ serverRequests[l.id].socket = s
  /\ chain' = [chain EXCEPT ![s] = Append(@, l)]
  /\ sent' = [sent EXCEPT ![s] = @ + 1]
  /\ UNCHANGED <<ownershipVars, conn, inflight, started, running, outbox,
                 serverRequests>>

\* The lines a client may write now.
ClientLines == StreamLines \union PlainLines
                 \union [method : {"reply"}, id : DOMAIN serverRequests]

----------------------------------------------------------------------------
\* The broker's message loop.

\* The thread ids known of a streaming request: buildStreamThreadIds.
BuildStreamThreadIds(l, hasResult) ==
  {l.src} \union IF l.method = "review" /\ hasResult THEN {l.thread} ELSE {}

\* The head line of s can be handled: the previous one is fully handled.
NextLine(s, l) ==
  /\ inflight[s] = Idle
  /\ chain[s] # <<>>
  /\ l = Head(chain[s])
  /\ chain' = [chain EXCEPT ![s] = Tail(@)]

MayControl(s, l) == l.method = "control" /\ CanRunTurnControl(s)

\* broker/spawnWorker is the broker's own method: it is served before the gate.
Ungated(s, l) == l.method = "spawn" \/ MayControl(s, l)

\* The gate answers BROKER_BUSY; nothing else happens.
AnswerBusy(s) ==
  \E l \in StreamLines \union PlainLines :
    /\ NextLine(s, l)
    /\ IsBusyFor(s) /\ ~Ungated(s, l)
    /\ UNCHANGED <<ownershipVars, conn, inflight, started, running, outbox,
                   serverRequests, sent>>

\* turn/interrupt or turn/steer against another socket's parked stream goes
\* straight to the app-server, and spawnWorker to the broker's own child
\* process: both are awaited without touching the ownership.
BeginControl(s) ==
  \E l \in PlainLines :
    /\ NextLine(s, l)
    /\ Ungated(s, l)
    /\ inflight' = [inflight EXCEPT ![s] = [method |-> "control"]]
    /\ UNCHANGED <<ownershipVars, conn, started, running, outbox,
                   serverRequests, sent>>

\* Any other request: claim, then await the app-server.  A turn-control
\* line that takes this path is awaited like a plain one.
BeginGated(s) ==
  \E l \in StreamLines \union PlainLines :
    /\ NextLine(s, l)
    /\ ~Ungated(s, l)
    /\ ~IsBusyFor(s)
    /\ BeginRequest(s, Streaming(l), IF Streaming(l)
                                     THEN BuildStreamThreadIds(l, FALSE)
                                     ELSE {})
    /\ inflight' = [inflight EXCEPT ![s] = IF Streaming(l) THEN l
                                           ELSE [method |-> "plain"]]
    /\ UNCHANGED <<conn, started, running, outbox, serverRequests, sent>>

\* The app-server accepts s's streaming request: its turn starts running.
AppStart(s) ==
  /\ Streaming(inflight[s])
  /\ s \notin started
  /\ started' = started \union {s}
  /\ running' = running \union {TurnOf(s, inflight[s])}
  /\ UNCHANGED <<ownershipVars, conn, chain, inflight, outbox,
                 serverRequests, sent>>

\* The app-server's messages are read in the order it wrote them: what it
\* reported before it answered s, the end of s's earlier turns, has been
\* handled when its answer is.
EarlierReported(s) ==
  \A i \in DOMAIN outbox :
    outbox[i].socket = s => outbox[i] = TurnOf(s, inflight[s])

\* Mutant: the loop of s goes on awaiting.
StillAwaiting(s) == UNCHANGED inflight /\ started' = started \ {s}

DoneAwaiting(s) ==
  /\ inflight' = [inflight EXCEPT ![s] = Idle]
  /\ started' = started \ {s}

\* The awaited response arrives: send it, settle.
Settle(s) ==
  /\ inflight[s] # Idle
  /\ Streaming(inflight[s]) => s \in started /\ EarlierReported(s)
  /\ IF inflight[s].method = "control"
     THEN UNCHANGED ownershipVars
     ELSE SettleRequest(s, Streaming(inflight[s]),
                        IF Streaming(inflight[s])
                        THEN BuildStreamThreadIds(inflight[s], TRUE)
                        ELSE NoIds)
  /\ DoneAwaiting(s)
  /\ UNCHANGED <<conn, chain, running, outbox, serverRequests, sent>>

\* The app-server may refuse this awaited request (or the request times out).
MayFail(s) ==
  \/ Streaming(inflight[s]) /\ s \notin started /\ EarlierReported(s)
  \/ Streaming(inflight[s]) /\ "timeout" \in Freedoms
  \/ inflight[s].method = "control"
  \/ /\ inflight[s].method = "plain"
     /\ "plain_error" \in Freedoms \/ activeStreamSocket # s

\* The awaited request is rejected: send the error, fail.
Fail(s) ==
  /\ inflight[s] # Idle
  /\ MayFail(s)
  /\ IF inflight[s].method = "control"
     THEN UNCHANGED ownershipVars
     ELSE FailRequest(s)
  /\ DoneAwaiting(s)
  /\ UNCHANGED <<conn, chain, running, outbox, serverRequests, sent>>

\* A turn ends in the app-server; its turn/completed is on its way.
TurnEnds(t) ==
  /\ t \in running
  /\ running' = running \ {t}
  /\ outbox' = Append(outbox, t)
  /\ UNCHANGED <<ownershipVars, conn, chain, inflight, started,
                 serverRequests, sent>>

\* routeNotification for a turn/completed: to the target if there is one,
\* dropped otherwise.
RouteCompleted ==
  /\ outbox # <<>>
  /\ outbox' = Tail(outbox)
  /\ IF NotificationTarget = NoSocket
     THEN UNCHANGED ownershipVars
     ELSE HandleTurnCompleted(NotificationTarget, Head(outbox).thread)
  /\ UNCHANGED <<conn, chain, inflight, started, running, serverRequests,
                 sent>>

----------------------------------------------------------------------------
\* Requests of the app-server (approvals, user input), and their replies.

\* forwardServerRequest for a request raised by turn t.  Without a live
\* target it throws and the app-server gets an error: no state changes.
ForwardServerRequest(t) ==
  /\ t \in running
  /\ Len(serverRequests) < MaxServerRequests
  /\ ServerRequestTarget # NoSocket
  /\ conn[ServerRequestTarget] = "open"
  /\ serverRequests' = Append(serverRequests,
                              [socket |-> ServerRequestTarget,
                               status |-> "pending"])
  /\ UNCHANGED <<ownershipVars, conn, chain, inflight, started, running,
                 outbox, sent>>

\* Mutant: only the socket is compared; an answered request matches too.
IsRequestOf(i, s) == serverRequests[i].socket = s

IsPendingOf(i, s) == serverRequests[i] = [socket |-> s, status |-> "pending"]

\* A reply line: resolves the pending request of this socket, if any.
HandleReply(s) ==
  \E i \in DOMAIN serverRequests :
    /\ NextLine(s, [method |-> "reply", id |-> i])
    /\ serverRequests' =
         IF IsPendingOf(i, s)
         THEN [serverRequests EXCEPT ![i].status = "resolved"]
         ELSE serverRequests
    /\ UNCHANGED <<ownershipVars, conn, inflight, started, running, outbox,
                   sent>>

\* The sweep rejects a request whose five minutes have passed.
ServerRequestTimeout(i) ==
  /\ i \in DOMAIN serverRequests
  /\ serverRequests[i].status = "pending"
  /\ serverRequests' = [serverRequests EXCEPT ![i].status = "rejected"]
  /\ UNCHANGED <<ownershipVars, conn, chain, inflight, started, running,
                 outbox, sent>>

\* Mutant: the close forgets the requests that wait on the socket.
RejectNothing(s) == UNCHANGED serverRequests

RejectSocketServerRequests(s) ==
  serverRequests' =
    [i \in DOMAIN serverRequests |->
       IF IsPendingOf(i, s)
       THEN [serverRequests[i] EXCEPT !.status = "rejected"]
       ELSE serverRequests[i]]

\* The client has nothing left that it waits for.
Finished(s) == OwnTurns(s) = {} /\ OwnLines(s) = {Idle}

\* The close (or error) event of a socket.
CloseSocket(s) ==
  /\ conn[s] = "open"
  /\ "early_close" \in Freedoms \/ Finished(s)
  /\ conn' = [conn EXCEPT ![s] = "closed"]
  /\ RejectSocketServerRequests(s)
  /\ ReleaseSocket(s)
  /\ UNCHANGED <<chain, inflight, started, running, outbox, sent>>

----------------------------------------------------------------------------
HandleLine(s) ==
  AnswerBusy(s) \/ BeginControl(s) \/ BeginGated(s) \/ HandleReply(s)

Answer(s) == Settle(s) \/ Fail(s)

Next ==
  \/ \E s \in Sockets :
       \/ \E l \in ClientLines : SendLine(s, l)
       \/ HandleLine(s)
       \/ AppStart(s)
       \/ Answer(s)
       \/ CloseSocket(s)
  \/ \E t \in running : TurnEnds(t) \/ ForwardServerRequest(t)
  \/ RouteCompleted
  \/ \E i \in DOMAIN serverRequests : ServerRequestTimeout(i)

Spec == Init /\ [][Next]_vars

(***************************************************************************)
(* Fairness: Node's event loop runs every ready handler, and the           *)
(* app-server eventually answers each request and ends each turn (the      *)
(* request timeout of 30 minutes backs the former).  Clients are not fair. *)
(***************************************************************************)
Fairness ==
  /\ \A s \in Sockets : WF_vars(HandleLine(s)) /\ WF_vars(Answer(s))
  /\ WF_vars(\E t \in running : TurnEnds(t))
  /\ WF_vars(RouteCompleted)

FairSpec == Spec /\ Fairness

----------------------------------------------------------------------------
\* Properties.

\* At most one turn runs in the app-server at any time, whoever started it
\* (the claim of broker-turn-ownership.mjs:3-4).
AtMostOneTurn == Cardinality(running) <= 1

\* A socket that owns the stream still has something outstanding that will
\* release it: its streaming request, or a turn of its own not yet reported
\* complete.  Otherwise every other client is answered BROKER_BUSY for good
\* (broker-turn-ownership.mjs:7-10).
StreamBacked ==
  activeStreamSocket # NoSocket =>
    \/ Streaming(inflight[activeStreamSocket])
    \/ OwnTurns(activeStreamSocket) # {}

\* The slots never outlive the request they were taken for, whatever clients
\* do: a request slot belongs to a socket whose request is still awaited, a
\* provisional claim to a socket whose streaming request is, and what a claim
\* pushed aside was that same socket's stream.
RequestSlotBacked ==
  activeRequestSocket # NoSocket =>
    inflight[activeRequestSocket] \in StreamLines \union {[method |-> "plain"]}
ClaimBacked ==
  pendingStreamClaim.socket # NoSocket =>
    /\ Streaming(inflight[pendingStreamClaim.socket])
    /\ activeStreamSocket = pendingStreamClaim.socket
SupersededBacked ==
  supersededStream.socket # NoSocket =>
    supersededStream.socket = pendingStreamClaim.socket
SlotsBacked == RequestSlotBacked /\ ClaimBacked /\ SupersededBacked

\* No request of the app-server waits on a client that has gone.
PendingHasClient ==
  \A i \in DOMAIN serverRequests :
    serverRequests[i].status = "pending"
      => conn[serverRequests[i].socket] = "open"

\* A request of the app-server is answered once: a reply that comes after
\* the timeout, or a close after the reply, does not answer it again.
AnsweredOnce ==
  [][\A i \in DOMAIN serverRequests :
       serverRequests[i].status # "pending"
         => serverRequests'[i] = serverRequests[i]]_serverRequests

\* What a turn sends goes to the client that started the turn: its requests,
\* and its turn/completed as long as that client is connected
\* (broker-turn-ownership.mjs:162-181).
MessagesReachStarter ==
  [][/\ outbox # <<>> /\ outbox' = Tail(outbox)
          => \/ NotificationTarget = Head(outbox).socket
             \/ conn[Head(outbox).socket] = "closed"
     /\ \A t \in running :
          ForwardServerRequest(t) => ServerRequestTarget = t.socket]_vars

\* The broker implements the exclusive slot of ExclusiveTurn: the holder is
\* the stream owner, and the slot is freed only when the holder's turn was
\* refused or has ended.
TurnPhase ==
  IF activeStreamSocket = NoSocket THEN "free"
  ELSE IF \E t \in running : t.socket = activeStreamSocket THEN "running"
  ELSE IF /\ Streaming(inflight[activeStreamSocket])
          /\ activeStreamSocket \notin started
       THEN "asked"
  ELSE "over"

Slot == INSTANCE ExclusiveTurn WITH
  holder <- activeStreamSocket, phase <- TurnPhase
ImplementsExclusiveTurn == Slot!Spec

\* A stream owner is eventually released: no client can keep the others out
\* for ever.
StreamReleased ==
  \A s \in Sockets : (activeStreamSocket = s) ~> (activeStreamSocket # s)

\* Every line a client writes is eventually handled and answered.
LinesHandled ==
  \A s \in Sockets : (chain[s] # <<>>) ~> (chain[s] = <<>> /\ inflight[s] = Idle)

============================================================================
