---------------------------- MODULE BrokerProofs ----------------------------
(***************************************************************************)
(* Theorems about Broker, for every number of sockets, threads and lines   *)
(* and for every set of client freedoms.                                   *)
(***************************************************************************)
EXTENDS Broker, SequenceTheorems, FiniteSetTheorems, TLAPS

----------------------------------------------------------------------------
\* Each ownership transition preserves the types of the ownership slots.

LEMMA NullTypes ==
  /\ NoStream \in Stream /\ NoClaim \in Claim
  /\ NoSocket \in MaybeSocket /\ NoIds \in MaybeIds
BY DEF NoStream, NoClaim, Claim, Stream, MaybeSocket, MaybeIds

LEMMA BeginRequestType ==
  ASSUME OwnershipTypeOK, NEW s \in Sockets, NEW streaming \in BOOLEAN,
         NEW expected \in SUBSET Threads, BeginRequest(s, streaming, expected)
  PROVE  OwnershipTypeOK'
<1>1. s \in MaybeSocket
  BY DEF MaybeSocket
<1>2. [socket |-> s, completed |-> FALSE, expected |-> expected] \in Claim
  BY <1>1 DEF Claim
<1>3. [socket |-> activeStreamSocket, threadIds |-> activeStreamThreadIds]
        \in Stream
  BY DEF OwnershipTypeOK, Stream
<1>4. CASE streaming
  BY <1>1, <1>2, <1>3, <1>4, NullTypes DEF OwnershipTypeOK, BeginRequest
<1>5. CASE ~streaming
  BY <1>1, <1>5 DEF OwnershipTypeOK, BeginRequest
<1>6. QED
  BY <1>4, <1>5

LEMMA ClearRequestType ==
  ASSUME OwnershipTypeOK, NEW s, ClearRequest(s)
  PROVE  activeRequestSocket' \in MaybeSocket
BY NullTypes DEF OwnershipTypeOK, ClearRequest

LEMMA SettleRequestType ==
  ASSUME OwnershipTypeOK, NEW s \in Sockets, NEW streaming \in BOOLEAN,
         NEW ids \in MaybeIds, SettleRequest(s, streaming, ids)
  PROVE  OwnershipTypeOK'
<1>1. s \in MaybeSocket
  BY DEF MaybeSocket
<1>2. CASE streaming
  BY <1>1, <1>2, NullTypes, ClearRequestType DEF OwnershipTypeOK, SettleRequest
<1>3. CASE ~streaming
  BY <1>3, ClearRequestType DEF OwnershipTypeOK, SettleRequest
<1>4. QED
  BY <1>2, <1>3

LEMMA FailRequestType ==
  ASSUME OwnershipTypeOK, NEW s \in Sockets, FailRequest(s)
  PROVE  OwnershipTypeOK'
<1>1. supersededStream.socket \in MaybeSocket
      /\ supersededStream.threadIds \in MaybeIds
  BY DEF OwnershipTypeOK, Stream
<1>2. QED
  BY <1>1, NullTypes, ClearRequestType DEF OwnershipTypeOK, FailRequest, RestoreSuperseded

LEMMA HandleTurnCompletedType ==
  ASSUME OwnershipTypeOK, NEW target \in Sockets, NEW thread \in Threads,
         HandleTurnCompleted(target, thread)
  PROVE  OwnershipTypeOK'
<1>1. [pendingStreamClaim EXCEPT !.completed = TRUE] \in Claim
  BY DEF OwnershipTypeOK, Claim
<1>2. QED
  BY <1>1, NullTypes, ClearRequestType
  DEF OwnershipTypeOK, HandleTurnCompleted, ownershipVars

LEMMA ReleaseSocketType ==
  ASSUME OwnershipTypeOK, NEW s \in Sockets, ReleaseSocket(s)
  PROVE  OwnershipTypeOK'
BY NullTypes, ClearRequestType DEF OwnershipTypeOK, ReleaseSocket

LEMMA OwnershipUnchanged ==
  ASSUME OwnershipTypeOK, UNCHANGED ownershipVars
  PROVE  OwnershipTypeOK'
BY DEF OwnershipTypeOK, ownershipVars

----------------------------------------------------------------------------
\* The lines.

LEMMA StreamLineFacts ==
  ASSUME NEW l \in StreamLines
  PROVE  /\ l.src \in Threads /\ l.thread \in Threads
         /\ Streaming(l)
         /\ l # Idle /\ l.method # "control" /\ l.method # "plain"
         /\ BuildStreamThreadIds(l, TRUE) \in SUBSET Threads
         /\ BuildStreamThreadIds(l, FALSE) \in SUBSET Threads
BY DEF StreamLines, Streaming, Idle, BuildStreamThreadIds

LEMMA PlainLineFacts ==
  ASSUME NEW l \in PlainLines
  PROVE  /\ ~Streaming(l) /\ l # Idle
         /\ l.method \in {"plain", "control", "spawn"}
BY DEF PlainLines, Streaming, Idle

LEMMA IdleFacts == ~Streaming(Idle) /\ Idle.method = "idle"
BY DEF Streaming, Idle

----------------------------------------------------------------------------
LEMMA InitTypeOK == Init => TypeOK
<1> SUFFICES ASSUME Init PROVE TypeOK
  OBVIOUS
<1>1. OwnershipTypeOK
  BY DEF Init, OwnershipInit, OwnershipTypeOK, NoStream, NoClaim, Claim,
         Stream, MaybeSocket, MaybeIds
<1>2. QED
  BY <1>1 DEF Init, TypeOK

\* Handling the head of a chain leaves a chain of lines.
LEMMA NextLineType ==
  ASSUME TypeOK, NEW s \in Sockets, NEW l, NextLine(s, l)
  PROVE  chain' \in [Sockets -> Seq(Lines)]
BY DEF TypeOK, NextLine

\* Settling one forwarded request, or those of one socket, keeps the list
\* well typed.
LEMMA SetStatusType ==
  ASSUME NEW q \in Seq(ServerRequest), NEW i \in DOMAIN q,
         NEW v \in {"pending", "resolved", "rejected"}
  PROVE  [q EXCEPT ![i].status = v] \in Seq(ServerRequest)
<1>1. i \in 1..Len(q) /\ q[i] \in ServerRequest
  BY LenProperties, ElementOfSeq
<1>2. [q[i] EXCEPT !.status = v] \in ServerRequest
  BY <1>1 DEF ServerRequest
<1>3. [q EXCEPT ![i] = [q[i] EXCEPT !.status = v]] \in Seq(ServerRequest)
  BY <1>1, <1>2, ExceptSeq
<1>4. QED
  BY <1>3

LEMMA RejectType ==
  ASSUME serverRequests \in Seq(ServerRequest), NEW s,
         RejectSocketServerRequests(s)
  PROVE  serverRequests' \in Seq(ServerRequest)
<1> DEFINE n == Len(serverRequests)
           r(i) == [serverRequests[i] EXCEPT !.status = "rejected"]
<1>1. n \in Nat /\ DOMAIN serverRequests = 1..n
      /\ \A i \in 1..n : serverRequests[i] \in ServerRequest
  BY LenProperties, ElementOfSeq
<1>2. \A i \in 1..n : r(i) \in ServerRequest
  BY <1>1 DEF ServerRequest
<1>3. serverRequests' \in [1..n -> ServerRequest]
  BY <1>1, <1>2 DEF IsPendingOf, RejectSocketServerRequests
<1>4. QED
  BY <1>1, <1>3, SeqDef

LEMMA StepTypeOK == TypeOK /\ [Next]_vars => TypeOK'
<1> SUFFICES ASSUME TypeOK, [Next]_vars PROVE TypeOK'
  OBVIOUS
<1> USE DEF TypeOK
<1>1. ASSUME NEW s \in Sockets, NEW l \in ClientLines, SendLine(s, l)
      PROVE  TypeOK'
  <2>1. l \in Lines
    BY DEF ClientLines, Lines, ReplyLines
  <2>2. chain' \in [Sockets -> Seq(Lines)]
    BY <1>1, <2>1 DEF SendLine
  <2>3. sent' \in [Sockets -> Nat]
    BY <1>1 DEF SendLine
  <2>4. QED
    BY <1>1, <2>2, <2>3, OwnershipUnchanged DEF SendLine
<1>2. ASSUME NEW s \in Sockets, AnswerBusy(s)
      PROVE  TypeOK'
  BY <1>2, NextLineType, OwnershipUnchanged DEF AnswerBusy
<1>3. ASSUME NEW s \in Sockets, BeginControl(s)
      PROVE  TypeOK'
  <2>1. inflight' \in [Sockets -> StreamLines \union PlainLines \union {Idle}]
    BY <1>3 DEF BeginControl, PlainLines
  <2>2. QED
    BY <1>3, <2>1, NextLineType, OwnershipUnchanged DEF BeginControl
<1>4. ASSUME NEW s \in Sockets, BeginGated(s)
      PROVE  TypeOK'
  <2>1. PICK l \in StreamLines \union PlainLines :
          /\ NextLine(s, l)
          /\ BeginRequest(s, Streaming(l), IF Streaming(l)
                                           THEN BuildStreamThreadIds(l, FALSE)
                                           ELSE {})
          /\ inflight' = [inflight EXCEPT ![s] = IF Streaming(l) THEN l
                                                 ELSE [method |-> "plain"]]
          /\ UNCHANGED <<conn, started, running, outbox, serverRequests, sent>>
    BY <1>4 DEF BeginGated
  <2>2. Streaming(l) \in BOOLEAN
    BY DEF Streaming
  <2>3. (IF Streaming(l) THEN BuildStreamThreadIds(l, FALSE) ELSE {})
          \in SUBSET Threads
    BY StreamLineFacts, PlainLineFacts
  <2>4. OwnershipTypeOK'
    BY <2>1, <2>2, <2>3, BeginRequestType
  <2>5. inflight' \in [Sockets -> StreamLines \union PlainLines \union {Idle}]
    <3>1. (IF Streaming(l) THEN l ELSE [method |-> "plain"])
            \in StreamLines \union PlainLines
      BY PlainLineFacts DEF PlainLines
    <3>2. QED
      BY <2>1, <3>1
  <2>6. QED
    BY <2>1, <2>4, <2>5, NextLineType
<1>5. ASSUME NEW s \in Sockets, HandleReply(s)
      PROVE  TypeOK'
  <2>1. serverRequests' \in Seq(ServerRequest)
    BY <1>5, SetStatusType DEF HandleReply, IsPendingOf
  <2>2. QED
    BY <1>5, <2>1, NextLineType, OwnershipUnchanged DEF HandleReply
<1>6. ASSUME NEW s \in Sockets, AppStart(s)
      PROVE  TypeOK'
  <2>1. inflight[s] \in StreamLines
    BY <1>6, PlainLineFacts, IdleFacts DEF AppStart
  <2>2. TurnOf(s, inflight[s]) \in Turns
    BY <2>1, StreamLineFacts DEF TurnOf, Turns
  <2>3. QED
    BY <1>6, <2>2, OwnershipUnchanged DEF AppStart
<1>7. ASSUME NEW s \in Sockets, Settle(s)
      PROVE  TypeOK'
  <2>1. OwnershipTypeOK'
    <3>1. CASE inflight[s].method = "control"
      BY <1>7, <3>1, OwnershipUnchanged DEF Settle
    <3>2. CASE inflight[s].method # "control"
      <4>1. (IF Streaming(inflight[s])
             THEN BuildStreamThreadIds(inflight[s], TRUE) ELSE NoIds)
               \in MaybeIds
        BY StreamLineFacts, PlainLineFacts, IdleFacts DEF MaybeIds
      <4>2. Streaming(inflight[s]) \in BOOLEAN
        BY DEF Streaming
      <4>3. QED
        BY <1>7, <3>2, <4>1, <4>2, SettleRequestType DEF Settle
    <3>3. QED
      BY <3>1, <3>2
  <2>2. QED
    BY <1>7, <2>1 DEF Settle, DoneAwaiting
<1>8. ASSUME NEW s \in Sockets, Fail(s)
      PROVE  TypeOK'
  <2>1. OwnershipTypeOK'
    BY <1>8, FailRequestType, OwnershipUnchanged DEF Fail
  <2>2. QED
    BY <1>8, <2>1 DEF Fail, DoneAwaiting
<1>9. ASSUME NEW s \in Sockets, CloseSocket(s)
      PROVE  TypeOK'
  <2>1. serverRequests' \in Seq(ServerRequest)
    BY <1>9, RejectType DEF CloseSocket
  <2>2. QED
    BY <1>9, <2>1, ReleaseSocketType DEF CloseSocket
<1>10. ASSUME NEW t \in running, TurnEnds(t)
       PROVE  TypeOK'
  BY <1>10, OwnershipUnchanged DEF TurnEnds
<1>11. ASSUME NEW t \in running, ForwardServerRequest(t)
       PROVE  TypeOK'
  <2>1. ServerRequestTarget \in Sockets
    BY <1>11 DEF ForwardServerRequest, ServerRequestTarget, OwnershipTypeOK,
                 MaybeSocket
  <2>2. serverRequests' \in Seq(ServerRequest)
    BY <1>11, <2>1 DEF ForwardServerRequest, ServerRequest
  <2>3. QED
    BY <1>11, <2>2, OwnershipUnchanged DEF ForwardServerRequest
<1>12. ASSUME RouteCompleted
       PROVE  TypeOK'
  <2>1. outbox' \in Seq(Turns) /\ Head(outbox) \in Turns
    BY <1>12 DEF RouteCompleted
  <2>2. NotificationTarget \in MaybeSocket /\ Head(outbox).thread \in Threads
    BY <2>1 DEF NotificationTarget, OwnershipTypeOK, MaybeSocket, Turns
  <2>3. OwnershipTypeOK'
    BY <1>12, <2>2, OwnershipUnchanged, HandleTurnCompletedType
    DEF RouteCompleted, MaybeSocket
  <2>4. QED
    BY <1>12, <2>1, <2>3 DEF RouteCompleted
<1>13. ASSUME NEW i \in DOMAIN serverRequests, ServerRequestTimeout(i)
       PROVE  TypeOK'
  <2>1. serverRequests' \in Seq(ServerRequest)
    BY <1>13, SetStatusType DEF ServerRequestTimeout
  <2>2. QED
    BY <1>13, <2>1, OwnershipUnchanged DEF ServerRequestTimeout
<1>14. CASE UNCHANGED vars
  BY <1>14, OwnershipUnchanged DEF vars, brokerVars
<1>15. QED
  BY <1>1, <1>2, <1>3, <1>4, <1>5, <1>6, <1>7, <1>8, <1>9, <1>10, <1>11,
     <1>12, <1>13, <1>14 DEF Next, HandleLine, Answer

\* Every variable of the broker keeps its type.
THEOREM TypeInvariant == Spec => []TypeOK
BY InitTypeOK, StepTypeOK, PTL DEF Spec

----------------------------------------------------------------------------
\* The slots are backed by awaited requests.

\* What SlotsBacked depends on, besides the chains and the app-server.
slotVars == <<ownershipVars, inflight>>

LEMMA SlotsUnchanged ==
  ASSUME SlotsBacked, UNCHANGED slotVars
  PROVE  SlotsBacked'
BY DEF SlotsBacked, RequestSlotBacked, ClaimBacked, SupersededBacked,
       slotVars, ownershipVars

\* A socket that awaits nothing, or a turn-control request, is in no slot.
LEMMA ControlUnslotted ==
  ASSUME SlotsBacked, NEW s \in Sockets,
         inflight[s].method \in {"idle", "control"}
  PROVE  activeRequestSocket # s /\ pendingStreamClaim.socket # s
<1>1. s # NoSocket /\ ~Streaming(inflight[s])
  BY SocketAssumption DEF Streaming
<1>2. inflight[s] \notin StreamLines
  BY StreamLineFacts, <1>1
<1>3. inflight[s] # [method |-> "plain"]
  OBVIOUS
<1>4. activeRequestSocket # s
  BY <1>1, <1>2, <1>3 DEF SlotsBacked, RequestSlotBacked
<1>5. QED
  BY <1>1, <1>4 DEF SlotsBacked, ClaimBacked

\* The gate lets s begin only when no claim is pending and the stream is
\* free or its own.
LEMMA GateOpen ==
  ASSUME TypeOK, SlotsBacked, NEW s \in Sockets, ~IsBusyFor(s)
  PROVE  /\ pendingStreamClaim.socket = NoSocket
         /\ supersededStream.socket = NoSocket
         /\ activeStreamSocket \in {NoSocket, s}
BY SocketAssumption DEF TypeOK, OwnershipTypeOK, Stream, SlotsBacked, ClaimBacked,
       SupersededBacked, IsBusyFor

LEMMA BeginKeepsSlots ==
  ASSUME TypeOK, SlotsBacked, NEW s \in Sockets, BeginGated(s)
  PROVE  SlotsBacked'
<1>1. PICK l \in StreamLines \union PlainLines :
        /\ ~IsBusyFor(s)
        /\ BeginRequest(s, Streaming(l), IF Streaming(l)
                                         THEN BuildStreamThreadIds(l, FALSE)
                                         ELSE {})
        /\ inflight[s] = Idle
        /\ inflight' = [inflight EXCEPT ![s] = IF Streaming(l) THEN l
                                               ELSE [method |-> "plain"]]
  BY DEF BeginGated, NextLine
<1>2. /\ inflight'[s] = IF Streaming(l) THEN l ELSE [method |-> "plain"]
      /\ \A u \in Sockets : u # s => inflight'[u] = inflight[u]
  BY <1>1 DEF TypeOK
<1>3. RequestSlotBacked'
  BY <1>1, <1>2, PlainLineFacts DEF BeginRequest, RequestSlotBacked
<1>4. (ClaimBacked /\ SupersededBacked)'
  <2>1. CASE Streaming(l)
    BY <1>1, <1>2, <2>1, GateOpen, SocketAssumption
    DEF BeginRequest, ClaimBacked, SupersededBacked, NoStream
  <2>2. CASE ~Streaming(l)
    BY <1>1, <2>2, GateOpen
    DEF BeginRequest, ClaimBacked, SupersededBacked
  <2>3. QED
    BY <2>1, <2>2
<1>5. QED
  BY <1>3, <1>4 DEF SlotsBacked

\* After its response s awaits nothing, and no slot names s as awaiting.
LEMMA AnswerKeepsSlots ==
  ASSUME TypeOK, SlotsBacked, NEW s \in Sockets, Settle(s) \/ Fail(s)
  PROVE  SlotsBacked'
<1>1. \A u \in Sockets : u # s => inflight'[u] = inflight[u]
  BY DEF Settle, Fail, DoneAwaiting, TypeOK
<1>2. /\ activeRequestSocket \in MaybeSocket
      /\ pendingStreamClaim.socket \in MaybeSocket
      /\ supersededStream.socket \in MaybeSocket
  BY DEF TypeOK, OwnershipTypeOK, Claim, Stream
<1> USE DEF SlotsBacked, RequestSlotBacked, ClaimBacked, SupersededBacked,
            MaybeSocket
<1>3. CASE inflight[s].method = "control"
  <2>1. UNCHANGED ownershipVars
    BY <1>3 DEF Settle, Fail
  <2>2. activeRequestSocket # s /\ pendingStreamClaim.socket # s
    BY <1>3, ControlUnslotted
  <2>3. QED
    BY <1>1, <1>2, <2>1, <2>2 DEF ownershipVars
<1>4. CASE inflight[s].method # "control" /\ Settle(s)
  <2>1. PICK ids : SettleRequest(s, Streaming(inflight[s]), ids)
    BY <1>4 DEF Settle
  <2>2. CASE Streaming(inflight[s])
    BY <1>1, <1>2, <2>1, <2>2
    DEF SettleRequest, ClearRequest, NoClaim, NoStream
  <2>3. CASE ~Streaming(inflight[s])
    BY <1>1, <1>2, <2>1, <2>3, SocketAssumption
    DEF SettleRequest, ClearRequest
  <2>4. QED
    BY <2>2, <2>3
<1>5. CASE inflight[s].method # "control" /\ Fail(s)
  <2>1. FailRequest(s)
    BY <1>5 DEF Fail
  <2>2. QED
    BY <1>1, <1>2, <2>1, SocketAssumption
    DEF FailRequest, RestoreSuperseded, ClearRequest, NoClaim, NoStream
<1>6. QED
  BY <1>3, <1>4, <1>5

LEMMA CloseKeepsSlots ==
  ASSUME TypeOK, SlotsBacked, NEW s \in Sockets, CloseSocket(s)
  PROVE  SlotsBacked'
BY SocketAssumption
DEF CloseSocket, ReleaseSocket, ClearRequest, SlotsBacked, RequestSlotBacked,
    ClaimBacked, SupersededBacked, NoClaim, NoStream, TypeOK

LEMMA RouteKeepsSlots ==
  ASSUME TypeOK, SlotsBacked, RouteCompleted
  PROVE  SlotsBacked'
<1>1. CASE UNCHANGED ownershipVars
  BY <1>1, SlotsUnchanged DEF RouteCompleted, slotVars
<1>2. CASE \E target, thread : HandleTurnCompleted(target, thread)
  <2>1. PICK target, thread : HandleTurnCompleted(target, thread)
    BY <1>2
  <2>2. UNCHANGED inflight
    BY DEF RouteCompleted
  <2>3. pendingStreamClaim \in Claim
    BY DEF TypeOK, OwnershipTypeOK
  <2>4. pendingStreamClaim'.socket = pendingStreamClaim.socket
    BY <2>1, <2>3 DEF HandleTurnCompleted, Claim, ownershipVars
  <2>5. supersededStream'.socket \in {NoSocket, supersededStream.socket}
    BY <2>1 DEF HandleTurnCompleted, NoStream, ownershipVars
  <2>6. activeRequestSocket' \in {NoSocket, activeRequestSocket}
    BY <2>1 DEF HandleTurnCompleted, ClearRequest, ownershipVars
  <2>7. \/ activeStreamSocket' = activeStreamSocket
        \/ activeStreamSocket # pendingStreamClaim.socket
    BY <2>1 DEF HandleTurnCompleted, ownershipVars
  <2>8. QED
    BY <2>2, <2>4, <2>5, <2>6, <2>7
    DEF SlotsBacked, RequestSlotBacked, ClaimBacked, SupersededBacked
<1>3. QED
  BY <1>1, <1>2 DEF RouteCompleted

LEMMA StepSlots == TypeOK /\ SlotsBacked /\ [Next]_vars => SlotsBacked'
<1> SUFFICES ASSUME TypeOK, SlotsBacked, [Next]_vars PROVE SlotsBacked'
  OBVIOUS
<1>1. ASSUME NEW s \in Sockets, NEW l \in ClientLines, SendLine(s, l)
      PROVE  SlotsBacked'
  BY <1>1, SlotsUnchanged DEF SendLine, slotVars
<1>2. ASSUME NEW s \in Sockets, AnswerBusy(s) \/ HandleReply(s)
      PROVE  SlotsBacked'
  BY <1>2, SlotsUnchanged DEF AnswerBusy, HandleReply, slotVars
<1>3. ASSUME NEW s \in Sockets, BeginControl(s)
      PROVE  SlotsBacked'
  <2>1. inflight[s] = Idle /\ UNCHANGED ownershipVars
        /\ inflight' = [inflight EXCEPT ![s] = [method |-> "control"]]
    BY <1>3 DEF BeginControl, NextLine
  <2>2. \A u \in Sockets : u # s => inflight'[u] = inflight[u]
    BY <2>1 DEF TypeOK
  <2>3. activeRequestSocket # s /\ pendingStreamClaim.socket # s
    BY <2>1, IdleFacts, ControlUnslotted
  <2>4. /\ activeRequestSocket \in MaybeSocket
        /\ pendingStreamClaim.socket \in MaybeSocket
    BY DEF TypeOK, OwnershipTypeOK, Claim
  <2>5. QED
    BY <2>1, <2>2, <2>3, <2>4
    DEF SlotsBacked, RequestSlotBacked, ClaimBacked, SupersededBacked,
        ownershipVars, MaybeSocket
<1>4. ASSUME NEW s \in Sockets, AppStart(s)
      PROVE  SlotsBacked'
  BY <1>4, SlotsUnchanged DEF AppStart, slotVars
<1>5. ASSUME NEW t \in running, TurnEnds(t) \/ ForwardServerRequest(t)
      PROVE  SlotsBacked'
  BY <1>5, SlotsUnchanged DEF TurnEnds, ForwardServerRequest, slotVars
<1>6. ASSUME NEW i \in DOMAIN serverRequests, ServerRequestTimeout(i)
      PROVE  SlotsBacked'
  BY <1>6, SlotsUnchanged DEF ServerRequestTimeout, slotVars
<1>7. CASE UNCHANGED vars
  BY <1>7, SlotsUnchanged DEF vars, brokerVars, slotVars
<1>8. QED
  BY <1>1, <1>2, <1>3, <1>4, <1>5, <1>6, <1>7, BeginKeepsSlots,
     AnswerKeepsSlots, CloseKeepsSlots, RouteKeepsSlots
  DEF Next, HandleLine, Answer

\* Whatever clients do, no ownership slot outlives the awaited request it was
\* taken for: the request slot cannot leak, and a provisional claim, with the
\* stream it pushed aside, always belongs to a streaming request in flight.
THEOREM SlotsInvariant == Spec => []SlotsBacked
<1>1. Init => SlotsBacked
  BY DEF Init, OwnershipInit, SlotsBacked, RequestSlotBacked, ClaimBacked,
         SupersededBacked, NoClaim, NoStream
<1>2. QED
  BY <1>1, StepSlots, TypeInvariant, PTL DEF Spec

----------------------------------------------------------------------------
\* Clients that stay until their turn completed.

\* A client may at most start its next turn before it is told of the last.
Staying == Freedoms \subseteq {"supersede"}

\* A claim has pushed aside a stream whose turn has yet to be reported.
Late == supersededStream.socket # NoSocket

\* The turn of a stream whose start was answered: running, or over and its
\* completion the only one under way.
SettledTurn(t) ==
  /\ t.socket = activeStreamSocket
  /\ t.thread \in activeStreamThreadIds
  /\ \/ running = {t} /\ Len(outbox) = 0
     \/ running = {} /\ Len(outbox) = 1 /\ outbox[1] = t

SettledInv ==
  pendingStreamClaim.socket = NoSocket =>
    IF activeStreamSocket = NoSocket
    THEN running = {} /\ Len(outbox) = 0
    ELSE /\ activeStreamThreadIds # NoIds
         /\ \E t \in Turns : SettledTurn(t)

\* The completion of the stream that s pushed aside comes first, and is told
\* apart from that of the turn s asked for.
LateFirst(s) ==
  /\ Len(outbox) > 0
  /\ outbox[1].socket = s
  /\ supersededStream.threadIds # NoIds
  /\ outbox[1].thread \in supersededStream.threadIds
  /\ outbox[1].thread \notin {inflight[s].src, inflight[s].thread}

Before == IF Late THEN 1 ELSE 0

\* How far the turn has come that s, whose claim is pending, asked for.
Asked(s)   == /\ s \notin started /\ ~pendingStreamClaim.completed
              /\ running = {} /\ Len(outbox) = Before
Running(s) == /\ s \in started /\ ~pendingStreamClaim.completed
              /\ running = {TurnOf(s, inflight[s])} /\ Len(outbox) = Before
Ended(s)   == /\ s \in started /\ ~pendingStreamClaim.completed
              /\ running = {} /\ Len(outbox) = Before + 1
              /\ outbox[Before + 1] = TurnOf(s, inflight[s])
Told(s)    == /\ s \in started /\ pendingStreamClaim.completed
              /\ running = {} /\ Len(outbox) = 0 /\ ~Late

ClaimOf(s) ==
  /\ activeRequestSocket = s
  /\ pendingStreamClaim.expected = {inflight[s].src}
  /\ Late => LateFirst(s)
  /\ Asked(s) \/ Running(s) \/ Ended(s) \/ Told(s)

ClaimInv ==
  pendingStreamClaim.socket # NoSocket => ClaimOf(pendingStreamClaim.socket)

\* The slots: a request of another socket is awaited only while no stream is
\* owned, a streaming line only under a claim.
OwnerInv ==
  /\ activeStreamSocket # NoSocket
       => activeRequestSocket \in {NoSocket, activeStreamSocket}
  /\ ~Late => supersededStream = NoStream
  /\ \A s \in Sockets : Streaming(inflight[s]) => pendingStreamClaim.socket = s
  /\ \A s \in started : Streaming(inflight[s])

\* What a client waited for when it wrote a streaming line still holds when
\* the line is handled.
QueuedLine(s, l) ==
  /\ ~Streaming(inflight[s])
  /\ \A t \in running : t.socket # s
  /\ \A i \in 1..Len(outbox) :
       outbox[i].socket = s => outbox[i].thread \notin {l.src, l.thread}

QueueInv ==
  \A s \in Sockets : \A i \in 1..Len(chain[s]) :
    Streaming(chain[s][i]) =>
      /\ QueuedLine(s, chain[s][i])
      /\ \A k \in 1..Len(chain[s]) : Streaming(chain[s][k]) => k = i

StayInv == SettledInv /\ ClaimInv /\ OwnerInv /\ QueueInv

----------------------------------------------------------------------------
\* How the steps of the broker treat StayInv.

LEMMA SlotsUntouched ==
  ASSUME SettledInv, ClaimInv, OwnerInv,
         UNCHANGED <<ownershipVars, inflight, started, running, outbox>>
  PROVE  SettledInv' /\ ClaimInv' /\ OwnerInv'
BY DEF SettledInv, SettledTurn, ClaimInv, ClaimOf, LateFirst, Late, Before,
       Asked, Running, Ended, Told, OwnerInv, ownershipVars

\* Queued lines stay valid when every line that may be queued does.
LEMMA QueueKept ==
  ASSUME TypeOK, QueueInv, UNCHANGED chain,
         \A s \in Sockets, l \in StreamLines : QueuedLine(s, l) => QueuedLine(s, l)'
  PROVE  QueueInv'
<1>1. \A s \in Sockets : \A i \in 1..Len(chain[s]) :
        Streaming(chain[s][i]) => chain[s][i] \in StreamLines
  <2>1. \A l \in Lines : Streaming(l) => l \in StreamLines
    BY DEF Lines, PlainLines, ReplyLines, Streaming
  <2>2. \A s \in Sockets : chain[s] \in Seq(Lines)
    BY DEF TypeOK
  <2>3. QED
    BY <2>1, <2>2, ElementOfSeq
<1>2. ASSUME NEW s \in Sockets, NEW i \in 1..Len(chain[s]),
             Streaming(chain[s][i])
      PROVE  QueuedLine(s, chain[s][i])'
  <2>1. PICK l \in StreamLines : l = chain[s][i]
    BY <1>1, <1>2
  <2>2. QueuedLine(s, l)
    BY <1>2, <2>1 DEF QueueInv
  <2>3. QueuedLine(s, l)'
    BY <2>2
  <2>4. QED
    BY <2>1, <2>3
<1>3. QED
  BY <1>2 DEF QueueInv

\* The same when s's loop takes the head of its chain.
LEMMA QueueTail ==
  ASSUME TypeOK, QueueInv, NEW s \in Sockets, NEW h, NextLine(s, h),
         \A u \in Sockets, l \in StreamLines :
           u # s \/ ~Streaming(h) => (QueuedLine(u, l) => QueuedLine(u, l)')
  PROVE  /\ QueueInv'
         /\ Streaming(h) => QueuedLine(s, h)
<1>1. \A l \in Lines : Streaming(l) => l \in StreamLines
  BY DEF Lines, PlainLines, ReplyLines, Streaming
<1>2. \A u \in Sockets : chain[u] \in Seq(Lines) /\ Len(chain[u]) \in Nat
  BY LenProperties DEF TypeOK
<1>3. chain[s] # <<>> /\ h = chain[s][1] /\ 1 \in 1..Len(chain[s])
  <2>1. chain[s] # <<>> /\ h = Head(chain[s])
    BY DEF NextLine
  <2>2. Len(chain[s]) # 0
    BY <1>2, <2>1, EmptySeq
  <2>3. QED
    BY <1>2, <2>1, <2>2, HeadTailProperties
<1>4. chain'[s] = Tail(chain[s]) /\ \A u \in Sockets : u # s => chain'[u] = chain[u]
  BY DEF NextLine, TypeOK
<1>5. /\ Len(chain'[s]) = Len(chain[s]) - 1
      /\ \A i \in 1..Len(chain'[s]) : chain'[s][i] = chain[s][i+1]
  BY <1>2, <1>3, <1>4, HeadTailProperties
<1>6. Streaming(h) => QueuedLine(s, h)
  BY <1>3 DEF QueueInv
<1>7. \A u \in Sockets : \A i \in 1..Len(chain[u]) :
        Streaming(chain[u][i]) => chain[u][i] \in StreamLines
  BY <1>1, <1>2, ElementOfSeq
<1>8. ASSUME NEW u \in Sockets, NEW i \in 1..Len(chain'[u]),
             Streaming(chain'[u][i])
      PROVE  /\ QueuedLine(u, chain[u][i])' 
             /\ \A k \in 1..Len(chain'[u]) : Streaming(chain'[u][k]) => k = i
  <2>1. CASE u # s
    <3>1. PICK l \in StreamLines : l = chain[u][i] /\ l = chain'[u][i]
      BY <1>4, <1>7, <1>8, <2>1
    <3>2. QueuedLine(u, l)
      BY <1>4, <1>8, <2>1, <3>1 DEF QueueInv
    <3>3. QueuedLine(u, l)'
      BY <2>1, <3>2
    <3>4. QED
      BY <1>4, <1>8, <2>1, <3>1, <3>3 DEF QueueInv
  <2>2. CASE u = s
    <3>0. i \in 1..Len(chain'[s])
      BY <1>8, <2>2
    <3>1. i + 1 \in 1..Len(chain[s]) /\ chain'[s][i] = chain[s][i+1]
      BY <1>2, <1>5, <3>0
    <3>2. ~Streaming(h)
      BY <1>3, <1>8, <2>2, <3>1 DEF QueueInv
    <3>3. PICK l \in StreamLines : l = chain'[s][i] /\ QueuedLine(s, l)'
      <4>1. PICK l \in StreamLines : l = chain[s][i+1]
        BY <1>7, <1>8, <2>2, <3>1
      <4>2. QueuedLine(s, l)
        BY <1>8, <2>2, <3>1, <4>1 DEF QueueInv
      <4>3. QED
        BY <3>1, <3>2, <4>1, <4>2
    <3>4. \A k \in 1..Len(chain'[s]) : Streaming(chain'[s][k]) => k = i
      BY <1>2, <1>5, <1>8, <2>2, <3>1 DEF QueueInv
    <3>5. QED
      BY <2>2, <3>1, <3>3, <3>4
  <2>3. QED
    BY <2>1, <2>2
<1>9. QED
  BY <1>6, <1>8 DEF QueueInv

\* A step that leaves ownership, turns and lines alone.
LEMMA StayUntouched ==
  ASSUME TypeOK, StayInv,
         UNCHANGED <<ownershipVars, inflight, started, running, outbox, chain>>
  PROVE  StayInv'
<1>1. \A u \in Sockets, l \in StreamLines : QueuedLine(u, l) => QueuedLine(u, l)'
  BY DEF QueuedLine
<1>2. QED
  BY <1>1, QueueKept, SlotsUntouched DEF StayInv

\* A streaming line is queued only by a client whose turns have all ended,
\* the late one on another thread.
LEMMA SendKeepsStay ==
  ASSUME Staying, TypeOK, StayInv, NEW s \in Sockets, NEW l \in ClientLines,
         SendLine(s, l)
  PROVE  StayInv'
<1>1. /\ UNCHANGED <<ownershipVars, inflight, started, running, outbox>>
      /\ chain' = [chain EXCEPT ![s] = Append(@, l)]
      /\ Streaming(l) => MayStartTurn(s, l)
  BY DEF SendLine
<1>2. l \in Lines /\ (Streaming(l) => l \in StreamLines)
  <2>1. DOMAIN serverRequests \subseteq Nat
    BY LenProperties DEF TypeOK
  <2>2. QED
    BY <2>1 DEF ClientLines, Lines, PlainLines, ReplyLines, Streaming
<1>3. \A u \in Sockets : chain[u] \in Seq(Lines) /\ Len(chain[u]) \in Nat
      /\ DOMAIN chain[u] = 1..Len(chain[u])
  BY LenProperties DEF TypeOK
<1>4. /\ Len(chain'[s]) = Len(chain[s]) + 1
      /\ \A i \in 1..Len(chain[s]) : chain'[s][i] = chain[s][i]
      /\ chain'[s][Len(chain[s]) + 1] = l
      /\ \A u \in Sockets : u # s => chain'[u] = chain[u]
  <2>1. chain'[s] = Append(chain[s], l)
        /\ \A u \in Sockets : u # s => chain'[u] = chain[u]
    BY <1>1 DEF TypeOK
  <2>2. QED
    BY <1>2, <1>3, <2>1, AppendProperties
<1>5. ASSUME Streaming(l)
      PROVE  /\ QueuedLine(s, l)
             /\ \A i \in 1..Len(chain[s]) : ~Streaming(chain[s][i])
  <2>1. /\ ~Streaming(inflight[s])
        /\ \A i \in 1..Len(chain[s]) : ~Streaming(chain[s][i])
    BY <1>1, <1>3, <1>5 DEF MayStartTurn, AwaitsTurn, OwnLines
  <2>2. DOMAIN outbox = 1..Len(outbox)
    BY LenProperties DEF TypeOK
  <2>3. /\ \A t \in running : t \in Unfinished
        /\ \A i \in 1..Len(outbox) : outbox[i] \in Unfinished
    BY <2>2 DEF Unfinished
  <2>4. \A t \in Unfinished : t.socket = s
          => t \notin running /\ t.thread \notin {l.src, l.thread}
    BY <1>1, <1>5 DEF MayStartTurn, OwnTurns
  <2>5. QED
    BY <2>1, <2>3, <2>4 DEF QueuedLine
<1>6. QueueInv'
  <2>1. \A u \in Sockets, k \in StreamLines : QueuedLine(u, k) => QueuedLine(u, k)'
    BY <1>1 DEF QueuedLine
  <2>2. ASSUME NEW u \in Sockets, NEW i \in 1..Len(chain'[u]),
               Streaming(chain'[u][i])
        PROVE  /\ QueuedLine(u, chain[u][i])'
               /\ \A k \in 1..Len(chain'[u]) : Streaming(chain'[u][k]) => k = i
    <3>1. CASE u # s
      BY <1>1, <1>4, <2>2, <3>1 DEF QueueInv, StayInv, QueuedLine
    <3>2. CASE u = s /\ i = Len(chain[s]) + 1
      <4>1. Streaming(l) /\ chain'[s][i] = l
        BY <1>4, <2>2, <3>2
      <4>2. \A k \in 1..Len(chain[s]) : ~Streaming(chain'[s][k])
        BY <1>4, <1>5, <4>1
      <4>3. QueuedLine(s, l)'
        BY <1>1, <1>5, <4>1 DEF QueuedLine
      <4>4. \A k \in 1..Len(chain'[s]) : k \in 1..Len(chain[s]) \/ k = i
        BY <1>3, <1>4, <3>2
      <4>5. QED
        BY <3>2, <4>1, <4>2, <4>3, <4>4
    <3>3. CASE u = s /\ i # Len(chain[s]) + 1
      <4>0. i \in 1..Len(chain'[s])
        BY <2>2, <3>3
      <4>1. i \in 1..Len(chain[s]) /\ Len(chain[s]) \in Nat
        BY <1>3, <1>4, <3>3, <4>0
      <4>2. chain'[s][i] = chain[s][i] /\ Streaming(chain[s][i])
        BY <1>4, <2>2, <3>3, <4>1
      <4>3. ~Streaming(l)
        BY <1>5, <4>1, <4>2
      <4>4. QueuedLine(s, chain[s][i])
            /\ \A k \in 1..Len(chain[s]) : Streaming(chain[s][k]) => k = i
        BY <4>1, <4>2 DEF QueueInv, StayInv
      <4>5. \A k \in 1..Len(chain'[s]) : Streaming(chain'[s][k]) => k = i
        <5>1. \A k \in 1..Len(chain'[s]) :
                k \in 1..Len(chain[s]) \/ k = Len(chain[s]) + 1
          BY <1>4, <4>1
        <5>2. QED
          BY <1>4, <4>3, <4>4, <5>1
      <4>6. QueuedLine(s, chain[s][i])'
        BY <1>1, <4>2, <4>4 DEF QueuedLine
      <4>7. QED
        BY <3>3, <4>5, <4>6
    <3>4. QED
      BY <3>1, <3>2, <3>3
  <2>3. QED
    BY <2>2 DEF QueueInv
<1>7. QED
  BY <1>1, <1>6, SlotsUntouched DEF StayInv

\* A line answered at once leaves the turn alone.
LEMMA SkipKeepsStay ==
  ASSUME TypeOK, StayInv, NEW s \in Sockets, AnswerBusy(s) \/ HandleReply(s)
  PROVE  StayInv'
<1>1. UNCHANGED <<ownershipVars, inflight, started, running, outbox>>
  BY DEF AnswerBusy, HandleReply
<1>2. \E h : NextLine(s, h)
  BY DEF AnswerBusy, HandleReply
<1>3. \A u \in Sockets, l \in StreamLines : QueuedLine(u, l) => QueuedLine(u, l)'
  BY <1>1 DEF QueuedLine
<1>4. QED
  BY <1>1, <1>2, <1>3, QueueTail, SlotsUntouched DEF StayInv

\* What s awaits changes, but no turn is asked for or answered.
LEMMA PlainKeepsSlots ==
  ASSUME TypeOK, SlotsBacked, SettledInv, ClaimInv, OwnerInv, NEW s \in Sockets,
         ~Streaming(inflight[s]), ~Streaming(inflight'[s]),
         \A u \in Sockets : u # s => inflight'[u] = inflight[u],
         UNCHANGED <<activeStreamSocket, activeStreamThreadIds,
                     pendingStreamClaim, supersededStream, running, outbox>>,
         started' = started \/ started' = started \ {s},
         \/ activeRequestSocket' = activeRequestSocket
         \/ activeRequestSocket' = s /\ ~IsBusyFor(s)
         \/ activeRequestSocket = s /\ activeRequestSocket' = NoSocket
  PROVE  SettledInv' /\ ClaimInv' /\ OwnerInv'
<1>1. s \notin started /\ started' = started
  BY DEF OwnerInv
<1>2. pendingStreamClaim.socket \in MaybeSocket /\ pendingStreamClaim.socket # s
  BY SocketAssumption DEF TypeOK, OwnershipTypeOK, Claim, SlotsBacked, ClaimBacked
<1>3. activeRequestSocket' # activeRequestSocket
        => pendingStreamClaim.socket = NoSocket
  <2>1. CASE activeRequestSocket' = s /\ ~IsBusyFor(s)
    BY <2>1, GateOpen
  <2>2. CASE activeRequestSocket = s /\ activeRequestSocket' = NoSocket
    BY <1>2, <2>2 DEF ClaimInv, ClaimOf
  <2>3. QED
    BY <2>1, <2>2
<1>4. SettledInv'
  BY DEF SettledInv, SettledTurn
<1>5. ClaimInv'
  BY <1>1, <1>2, <1>3 
  DEF ClaimInv, ClaimOf, LateFirst, Late, Before, Asked, Running, Ended, Told,
      MaybeSocket
<1>6. activeStreamSocket' # NoSocket
        => activeRequestSocket' \in {NoSocket, activeStreamSocket'}
  BY GateOpen DEF OwnerInv
<1>7. \A u \in Sockets : Streaming(inflight'[u]) => pendingStreamClaim'.socket = u
  BY DEF OwnerInv
<1>8. \A u \in started' : Streaming(inflight'[u])
  BY <1>1 DEF OwnerInv, TypeOK
<1>9. OwnerInv'
  BY <1>6, <1>7, <1>8 DEF OwnerInv, Late
<1>10. QED
  BY <1>4, <1>5, <1>9

LEMMA ControlKeepsStay ==
  ASSUME TypeOK, SlotsBacked, StayInv, NEW s \in Sockets, BeginControl(s)
  PROVE  StayInv'
<1>1. PICK l \in PlainLines : NextLine(s, l)
  BY DEF BeginControl
<1>2. /\ inflight[s] = Idle
      /\ inflight' = [inflight EXCEPT ![s] = [method |-> "control"]]
      /\ UNCHANGED <<ownershipVars, started, running, outbox>>
  BY DEF BeginControl, NextLine
<1>3. ~Streaming(inflight[s]) /\ ~Streaming(inflight'[s])
      /\ \A u \in Sockets : u # s => inflight'[u] = inflight[u]
  BY <1>2 DEF TypeOK, Streaming, Idle
<1>4. SettledInv' /\ ClaimInv' /\ OwnerInv'
  BY <1>2, <1>3, PlainKeepsSlots DEF StayInv, ownershipVars
<1>5. \A u \in Sockets, k \in StreamLines : QueuedLine(u, k) => QueuedLine(u, k)'
  BY <1>2, <1>3 DEF QueuedLine
<1>6. QueueInv'
  BY <1>1, <1>5, QueueTail DEF StayInv
<1>7. QED
  BY <1>4, <1>6 DEF StayInv

\* A streaming line that passes the gate: the stream is free, or the owner's
\* turn is over and its completion, still under way, is told apart.
LEMMA BeginStream ==
  ASSUME TypeOK, SlotsBacked, StayInv, NEW s \in Sockets, NEW l \in StreamLines,
         inflight[s] = Idle, ~IsBusyFor(s), QueuedLine(s, l),
         BeginRequest(s, TRUE, BuildStreamThreadIds(l, FALSE)),
         inflight' = [inflight EXCEPT ![s] = l],
         UNCHANGED <<started, running, outbox>>
  PROVE  SettledInv' /\ ClaimInv' /\ OwnerInv'
<1>1. /\ pendingStreamClaim.socket = NoSocket
      /\ activeStreamSocket \in {NoSocket, s}
  BY GateOpen
<1>2. /\ inflight'[s] = l
      /\ \A u \in Sockets : u # s => inflight'[u] = inflight[u]
  BY DEF TypeOK
<1>3. /\ activeRequestSocket' = s /\ activeStreamSocket' = s
      /\ pendingStreamClaim' = [socket |-> s, completed |-> FALSE,
                                expected |-> {l.src}]
      /\ supersededStream' = IF activeStreamSocket = NoSocket THEN NoStream
                             ELSE [socket |-> s, threadIds |-> activeStreamThreadIds]
  BY <1>1 DEF BeginRequest, BuildStreamThreadIds
<1>4. s # NoSocket
  BY SocketAssumption
<1>5. SettledInv'
  BY <1>3, <1>4 DEF SettledInv
<1>6. OwnerInv'
  <2>1. \A u \in Sockets : Streaming(inflight'[u]) => u = s
    BY <1>1, <1>2, SocketAssumption DEF StayInv, OwnerInv
  <2>2. \A u \in started' : Streaming(inflight'[u])
    BY <1>2, StreamLineFacts DEF StayInv, OwnerInv, TypeOK
  <2>3. QED
    BY <1>3, <1>4, <2>1, <2>2 DEF OwnerInv, Late, NoStream
<1>7. s \notin started
  BY IdleFacts DEF StayInv, OwnerInv
<1>8. CASE activeStreamSocket = NoSocket
  <2>1. running = {} /\ Len(outbox) = 0
    BY <1>1, <1>8 DEF StayInv, SettledInv
  <2>2. supersededStream' = NoStream /\ ~Late'
    BY <1>3, <1>8 DEF Late, NoStream
  <2>3. Asked(s)' /\ Before' = 0
    BY <1>3, <1>7, <2>1, <2>2 DEF Asked, Before
  <2>4. ClaimOf(s)'
    BY <1>2, <1>3, <2>2, <2>3 DEF ClaimOf
  <2>5. QED
    BY <1>3, <1>5, <1>6, <2>4 DEF ClaimInv
<1>9. CASE activeStreamSocket = s
  <2>1. PICK t \in Turns : SettledTurn(t) /\ activeStreamThreadIds # NoIds
    BY <1>1, <1>4, <1>9 DEF StayInv, SettledInv
  <2>2. t.socket = s /\ running = {} /\ Len(outbox) = 1 /\ outbox[1] = t
    BY <1>9, <2>1 DEF SettledTurn, QueuedLine
  <2>3. t.thread \in activeStreamThreadIds /\ t.thread \notin {l.src, l.thread}
    BY <2>1, <2>2 DEF SettledTurn, QueuedLine
  <2>4. supersededStream' = [socket |-> s, threadIds |-> activeStreamThreadIds]
    BY <1>3, <1>4, <1>9
  <2>5. Late' /\ Before' = 1
    BY <1>4, <2>4 DEF Late, Before
  <2>6. LateFirst(s)'
    BY <1>2, <2>1, <2>2, <2>3, <2>4 DEF LateFirst
  <2>7. Asked(s)'
    BY <1>3, <1>7, <2>2, <2>5 DEF Asked
  <2>8. ClaimOf(s)'
    BY <1>2, <1>3, <2>6, <2>7 DEF ClaimOf
  <2>9. QED
    BY <1>3, <1>5, <1>6, <2>8 DEF ClaimInv
<1>10. QED
  BY <1>1, <1>8, <1>9

LEMMA BeginKeepsStay ==
  ASSUME TypeOK, SlotsBacked, StayInv, NEW s \in Sockets, BeginGated(s)
  PROVE  StayInv'
<1>1. PICK l \in StreamLines \union PlainLines :
        /\ NextLine(s, l)
        /\ ~IsBusyFor(s)
        /\ BeginRequest(s, Streaming(l), IF Streaming(l)
                                         THEN BuildStreamThreadIds(l, FALSE)
                                         ELSE {})
        /\ inflight' = [inflight EXCEPT ![s] = IF Streaming(l) THEN l
                                               ELSE [method |-> "plain"]]
        /\ UNCHANGED <<started, running, outbox>>
  BY DEF BeginGated
<1>2. inflight[s] = Idle
  BY <1>1 DEF NextLine
<1>3. \A u \in Sockets : u # s => inflight'[u] = inflight[u]
  BY <1>1 DEF TypeOK
<1>4. CASE Streaming(l)
  <2>1. l \in StreamLines
    BY <1>4, PlainLineFacts
  <2>2. \A u \in Sockets, k \in StreamLines :
          u # s => (QueuedLine(u, k) => QueuedLine(u, k)')
    BY <1>1, <1>3 DEF QueuedLine
  <2>3. QueueInv' /\ QueuedLine(s, l)
    BY <1>1, <1>4, <2>2, QueueTail DEF StayInv
  <2>4. SettledInv' /\ ClaimInv' /\ OwnerInv'
    BY <1>1, <1>2, <1>4, <2>1, <2>3, BeginStream
  <2>5. QED
    BY <2>3, <2>4 DEF StayInv
<1>5. CASE ~Streaming(l)
  <2>1. ~Streaming(inflight[s]) /\ ~Streaming(inflight'[s])
    BY <1>1, <1>2, <1>5, IdleFacts DEF TypeOK, Streaming
  <2>2. \A u \in Sockets, k \in StreamLines : QueuedLine(u, k) => QueuedLine(u, k)'
    BY <1>1, <1>3, <2>1 DEF QueuedLine
  <2>3. QueueInv'
    BY <1>1, <2>2, QueueTail DEF StayInv
  <2>4. /\ activeRequestSocket' = s
        /\ UNCHANGED <<activeStreamSocket, activeStreamThreadIds,
                       pendingStreamClaim, supersededStream>>
    BY <1>1, <1>5 DEF BeginRequest
  <2>5. SettledInv' /\ ClaimInv' /\ OwnerInv'
    BY <1>1, <1>3, <2>1, <2>4, PlainKeepsSlots DEF StayInv
  <2>6. QED
    BY <2>3, <2>5 DEF StayInv
<1>6. QED
  BY <1>4, <1>5

\* The socket of a streaming request in flight owns stream, claim and slot.
LEMMA ClaimantFacts ==
  ASSUME TypeOK, SlotsBacked, StayInv, NEW s \in Sockets, Streaming(inflight[s])
  PROVE  /\ pendingStreamClaim.socket = s /\ s # NoSocket
         /\ activeStreamSocket = s
         /\ ClaimOf(s)
         /\ inflight[s] \in StreamLines
<1>1. pendingStreamClaim.socket = s /\ s # NoSocket
  BY SocketAssumption DEF StayInv, OwnerInv
<1>2. activeStreamSocket = s
  BY <1>1 DEF SlotsBacked, ClaimBacked
<1>3. ClaimOf(s)
  BY <1>1 DEF StayInv, ClaimInv
<1>4. inflight[s] \in StreamLines
  BY PlainLineFacts, IdleFacts DEF TypeOK
<1>5. QED
  BY <1>1, <1>2, <1>3, <1>4

LEMMA StartKeepsStay ==
  ASSUME TypeOK, SlotsBacked, StayInv, NEW s \in Sockets, AppStart(s)
  PROVE  StayInv'
<1>1. /\ Streaming(inflight[s]) /\ s \notin started
      /\ started' = started \union {s}
      /\ running' = running \union {TurnOf(s, inflight[s])}
      /\ UNCHANGED <<ownershipVars, chain, inflight, outbox>>
  BY DEF AppStart
<1>2. /\ pendingStreamClaim.socket = s /\ s # NoSocket
      /\ ClaimOf(s) /\ Asked(s)
  BY <1>1, ClaimantFacts DEF ClaimOf, Running, Ended, Told
<1>3. Running(s)' /\ (Late <=> Late') /\ (Late => LateFirst(s)')
  BY <1>1, <1>2
  DEF Asked, Running, Late, Before, LateFirst, ClaimOf, TurnOf, ownershipVars
<1>4. ClaimInv'
  BY <1>1, <1>2, <1>3 DEF ClaimInv, ClaimOf, ownershipVars
<1>5. SettledInv'
  BY <1>1, <1>2 DEF SettledInv, ownershipVars
<1>6. OwnerInv'
  BY <1>1 DEF StayInv, OwnerInv, Late, ownershipVars
<1>7. \A u \in Sockets, l \in StreamLines : QueuedLine(u, l) => QueuedLine(u, l)'
  BY <1>1 DEF QueuedLine, TurnOf
<1>8. QueueInv'
  BY <1>1, <1>7, QueueKept DEF StayInv
<1>9. QED
  BY <1>4, <1>5, <1>6, <1>8 DEF StayInv

\* When s is answered, what the app-server reported before is handled: no
\* earlier stream of s is left.
LEMMA AnsweredInOrder ==
  ASSUME TypeOK, SlotsBacked, StayInv, NEW s \in Sockets,
         Streaming(inflight[s]), EarlierReported(s)
  PROVE  ~Late /\ supersededStream = NoStream /\ Before = 0
<1>1. ClaimOf(s) /\ inflight[s] \in StreamLines
  BY ClaimantFacts
<1>2. Len(outbox) \in Nat /\ DOMAIN outbox = 1..Len(outbox)
  BY LenProperties DEF TypeOK
<1>3. SUFFICES ASSUME Late PROVE FALSE
  BY DEF Before, StayInv, OwnerInv
<1>4. LateFirst(s)
  BY <1>1, <1>3 DEF ClaimOf
<1>5. 1 \in DOMAIN outbox
  BY <1>2, <1>4 DEF LateFirst
<1>6. outbox[1] = TurnOf(s, inflight[s])
  BY <1>4, <1>5 DEF LateFirst, EarlierReported
<1>7. QED
  BY <1>4, <1>6 DEF LateFirst, TurnOf

\* The line s awaited is no longer awaited; no turn starts or ends.
LEMMA DoneKeepsQueue ==
  ASSUME TypeOK, StayInv, NEW s \in Sockets, DoneAwaiting(s),
         UNCHANGED <<chain, running, outbox>>
  PROVE  /\ QueueInv'
         /\ inflight'[s] = Idle
         /\ \A u \in Sockets : u # s => inflight'[u] = inflight[u]
<1>1. /\ inflight'[s] = Idle
      /\ \A u \in Sockets : u # s => inflight'[u] = inflight[u]
  BY DEF DoneAwaiting, TypeOK
<1>2. \A u \in Sockets, l \in StreamLines : QueuedLine(u, l) => QueuedLine(u, l)'
  BY <1>1, IdleFacts DEF QueuedLine
<1>3. QED
  BY <1>1, <1>2, QueueKept DEF StayInv

\* After the answer of a streaming request no claim is left, and nothing is
\* awaited that needs one.
LEMMA AnswerKeepsOwner ==
  ASSUME TypeOK, SlotsBacked, StayInv, NEW s \in Sockets,
         Streaming(inflight[s]), DoneAwaiting(s), ClearRequest(s),
         pendingStreamClaim' = NoClaim, supersededStream' = NoStream
  PROVE  OwnerInv' /\ ClaimInv'
<1>1. /\ pendingStreamClaim.socket = s /\ activeRequestSocket = s
      /\ s # NoSocket
  BY ClaimantFacts DEF ClaimOf
<1>2. /\ inflight'[s] = Idle
      /\ \A u \in Sockets : u # s => inflight'[u] = inflight[u]
  BY DEF DoneAwaiting, TypeOK
<1>3. \A u \in Sockets : ~Streaming(inflight'[u])
  BY <1>1, <1>2, IdleFacts DEF StayInv, OwnerInv
<1>4. started' = {}
  <2>1. \A u \in started : Streaming(inflight[u]) /\ u \in Sockets
    BY DEF StayInv, OwnerInv, TypeOK
  <2>2. \A u \in started : u = s
    BY <1>1, <2>1 DEF StayInv, OwnerInv
  <2>3. QED
    BY <2>2 DEF DoneAwaiting
<1>5. activeRequestSocket' = NoSocket
  BY <1>1 DEF ClearRequest
<1>6. QED
  BY <1>3, <1>4, <1>5 DEF OwnerInv, ClaimInv, NoClaim

LEMMA PlainAnswerKeepsStay ==
  ASSUME TypeOK, SlotsBacked, StayInv, NEW s \in Sockets,
         ~Streaming(inflight[s]), DoneAwaiting(s),
         UNCHANGED <<chain, running, outbox, activeStreamSocket,
                     activeStreamThreadIds, pendingStreamClaim,
                     supersededStream>>,
         ClearRequest(s) \/ UNCHANGED activeRequestSocket
  PROVE  StayInv'
<1>1. /\ QueueInv'
      /\ inflight'[s] = Idle
      /\ \A u \in Sockets : u # s => inflight'[u] = inflight[u]
  BY DoneKeepsQueue
<1>2. ~Streaming(inflight'[s]) /\ started' = started \ {s}
  BY <1>1, IdleFacts DEF DoneAwaiting
<1>3. \/ activeRequestSocket' = activeRequestSocket
      \/ activeRequestSocket = s /\ activeRequestSocket' = NoSocket
  BY DEF ClearRequest
<1>4. SettledInv' /\ ClaimInv' /\ OwnerInv'
  BY <1>1, <1>2, <1>3, PlainKeepsSlots DEF StayInv
<1>5. QED
  BY <1>1, <1>4 DEF StayInv

LEMMA SettleKeepsStay ==
  ASSUME TypeOK, SlotsBacked, StayInv, NEW s \in Sockets, Settle(s)
  PROVE  StayInv'
<1>1. /\ inflight[s] # Idle /\ DoneAwaiting(s)
      /\ UNCHANGED <<chain, running, outbox>>
  BY DEF Settle
<1>2. CASE ~Streaming(inflight[s])
  <2>1. /\ UNCHANGED <<activeStreamSocket, activeStreamThreadIds,
                       pendingStreamClaim, supersededStream>>
        /\ ClearRequest(s) \/ UNCHANGED activeRequestSocket
    BY <1>2 DEF Settle, SettleRequest, ownershipVars
  <2>2. QED
    BY <1>1, <1>2, <2>1, PlainAnswerKeepsStay
<1>3. CASE Streaming(inflight[s])
  <2> DEFINE l == inflight[s]
             ids == BuildStreamThreadIds(l, TRUE)
  <2>1. /\ s \in started
        /\ SettleRequest(s, TRUE, ids)
        /\ EarlierReported(s)
    <3>1. l \in StreamLines /\ l.method # "control"
      BY <1>3, ClaimantFacts, StreamLineFacts
    <3>2. QED
      BY <1>3, <3>1 DEF Settle
  <2>2. /\ pendingStreamClaim.socket = s /\ s # NoSocket
        /\ ClaimOf(s) /\ l \in StreamLines
    BY <1>3, ClaimantFacts
  <2>3. ~Late /\ Before = 0
    BY <1>3, <2>1, AnsweredInOrder
  <2>4. OwnerInv' /\ ClaimInv'
    BY <1>1, <1>3, <2>1, AnswerKeepsOwner DEF SettleRequest
  <2>5. pendingStreamClaim'.socket = NoSocket
    BY <2>1 DEF SettleRequest, NoClaim
  <2>6. l.thread \in ids /\ ids # NoIds /\ TurnOf(s, l) \in Turns
        /\ TurnOf(s, l).socket = s /\ TurnOf(s, l).thread = l.thread
    BY <2>2, ThreadAssumption
    DEF BuildStreamThreadIds, StreamLines, NoIds, TurnOf, Turns
  <2>7. SettledInv'
    <3>1. CASE Told(s)
      <4>1. activeStreamSocket' = NoSocket
        BY <2>1, <2>2, <3>1 DEF SettleRequest, CompletedEarly, Told
      <4>2. QED
        BY <1>1, <2>5, <3>1, <4>1 DEF SettledInv, Told
    <3>2. CASE Running(s) \/ Ended(s)
      <4>1. activeStreamSocket' = s /\ activeStreamThreadIds' = ids
        BY <2>1, <3>2 DEF SettleRequest, CompletedEarly, Running, Ended
      <4>2. PICK t \in Turns : t = TurnOf(s, l)
        BY <2>6
      <4>3. \E x \in Turns : SettledTurn(x)'
        <5>1. \/ running = {t} /\ Len(outbox) = 0
              \/ running = {} /\ Len(outbox) = 1 /\ outbox[1] = t
          BY <2>3, <3>2, <4>2 DEF Running, Ended
        <5>2. SettledTurn(t)'
          BY <1>1, <2>6, <4>1, <4>2, <5>1 DEF SettledTurn
        <5>3. QED
          BY <4>2, <5>2
      <4>4. QED
        BY <2>2, <2>6, <4>1, <4>3 DEF SettledInv
    <3>3. QED
      BY <2>1, <2>2, <3>1, <3>2 DEF ClaimOf, Asked
  <2>8. QED
    BY <1>1, <2>4, <2>7, DoneKeepsQueue DEF StayInv
<1>4. QED
  BY <1>2, <1>3

\* A start is refused before the turn runs, and then nothing is left of s.
LEMMA FailKeepsStay ==
  ASSUME Staying, TypeOK, SlotsBacked, StayInv, NEW s \in Sockets, Fail(s)
  PROVE  StayInv'
<1>1. /\ inflight[s] # Idle /\ DoneAwaiting(s) /\ MayFail(s)
      /\ UNCHANGED <<chain, running, outbox>>
  BY DEF Fail
<1>2. CASE ~Streaming(inflight[s])
  <2>1. pendingStreamClaim.socket # s
    BY <1>2, SocketAssumption DEF SlotsBacked, ClaimBacked
  <2>2. inflight[s].method = "control" \/ activeStreamSocket # s
    BY <1>1, <1>2 DEF MayFail, Staying
  <2>3. /\ UNCHANGED <<activeStreamSocket, activeStreamThreadIds,
                       pendingStreamClaim, supersededStream>>
        /\ ClearRequest(s) \/ UNCHANGED activeRequestSocket
    BY <2>1, <2>2 DEF Fail, FailRequest, ownershipVars
  <2>4. QED
    BY <1>1, <1>2, <2>3, PlainAnswerKeepsStay
<1>3. CASE Streaming(inflight[s])
  <2>1. /\ pendingStreamClaim.socket = s /\ s # NoSocket
        /\ ClaimOf(s) /\ inflight[s] \in StreamLines
    BY <1>3, ClaimantFacts
  <2>2. /\ s \notin started /\ EarlierReported(s)
        /\ FailRequest(s)
    BY <1>1, <2>1, StreamLineFacts DEF MayFail, Fail, Staying
  <2>3. ~Late /\ supersededStream = NoStream /\ Before = 0
    BY <1>3, <2>2, AnsweredInOrder
  <2>4. /\ pendingStreamClaim' = NoClaim /\ supersededStream' = NoStream
        /\ activeStreamSocket' = NoSocket /\ ClearRequest(s)
    BY <2>1, <2>2, <2>3 DEF FailRequest, RestoreSuperseded, NoStream
  <2>5. OwnerInv' /\ ClaimInv'
    BY <1>1, <1>3, <2>4, AnswerKeepsOwner
  <2>6. running = {} /\ Len(outbox) = 0
    BY <2>1, <2>2, <2>3 DEF ClaimOf, Asked, Running, Ended, Told
  <2>7. SettledInv'
    BY <1>1, <2>4, <2>6 DEF SettledInv
  <2>8. QED
    BY <1>1, <2>5, <2>7, DoneKeepsQueue DEF StayInv
<1>4. QED
  BY <1>2, <1>3

\* The turn that ends is the one turn there is.
LEMMA EndKeepsStay ==
  ASSUME TypeOK, SlotsBacked, StayInv, NEW t \in running, TurnEnds(t)
  PROVE  StayInv'
<1>1. /\ running' = running \ {t} /\ outbox' = Append(outbox, t)
      /\ UNCHANGED <<ownershipVars, chain, inflight, started>>
  BY DEF TurnEnds
<1>2. /\ Len(outbox') = Len(outbox) + 1 /\ Len(outbox) \in Nat
      /\ \A i \in 1..Len(outbox) : outbox'[i] = outbox[i]
      /\ outbox'[Len(outbox) + 1] = t
  BY <1>1, AppendProperties, LenProperties DEF TypeOK
<1>3. ASSUME NEW u \in Sockets, NEW l \in StreamLines, QueuedLine(u, l)
      PROVE  QueuedLine(u, l)'
  <2>1. t.socket # u
    BY <1>3 DEF QueuedLine
  <2>2. \A i \in 1..Len(outbox') : i \in 1..Len(outbox) \/ outbox'[i] = t
    BY <1>2
  <2>3. \A i \in 1..Len(outbox') :
          outbox'[i].socket = u => outbox'[i].thread \notin {l.src, l.thread}
    BY <1>2, <1>3, <2>1, <2>2 DEF QueuedLine
  <2>4. QED
    BY <1>1, <1>3, <2>3 DEF QueuedLine
<1>4. QueueInv'
  BY <1>1, <1>3, QueueKept DEF StayInv
<1>5. OwnerInv'
  BY <1>1 DEF StayInv, OwnerInv, Late, ownershipVars
<1>6. SettledInv'
  <2>1. SUFFICES ASSUME pendingStreamClaim.socket = NoSocket
                 PROVE  SettledInv'
    BY <1>1 DEF SettledInv, ownershipVars
  <2>2. activeStreamSocket # NoSocket /\ activeStreamThreadIds # NoIds
    BY <2>1 DEF StayInv, SettledInv
  <2>3. PICK x \in Turns : SettledTurn(x)
    BY <2>1, <2>2 DEF StayInv, SettledInv
  <2>4. running = {t} /\ x = t /\ Len(outbox) = 0
    BY <2>3 DEF SettledTurn
  <2>5. SettledTurn(x)'
    BY <1>1, <1>2, <2>3, <2>4 DEF SettledTurn, ownershipVars
  <2>6. QED
    BY <1>1, <2>2, <2>5 DEF SettledInv, ownershipVars
<1>7. ClaimInv'
  <2> DEFINE s == pendingStreamClaim.socket
  <2>1. SUFFICES ASSUME s # NoSocket PROVE ClaimOf(s)'
    BY <1>1 DEF ClaimInv, ownershipVars
  <2>2. ClaimOf(s)
    BY <2>1 DEF StayInv, ClaimInv
  <2>3. Running(s) /\ running = {t} /\ t = TurnOf(s, inflight[s])
    BY <2>2 DEF ClaimOf, Asked, Running, Ended, Told
  <2>4. (Late <=> Late') /\ Before' = Before /\ Before \in {0, 1}
    BY <1>1 DEF Late, Before, ownershipVars
  <2>5. Ended(s)'
    BY <1>1, <1>2, <2>3, <2>4 DEF Running, Ended, TurnOf, ownershipVars
  <2>6. Late => LateFirst(s)'
    BY <1>1, <1>2, <2>2 DEF ClaimOf, LateFirst, ownershipVars
  <2>7. QED
    BY <1>1, <2>2, <2>4, <2>5, <2>6 DEF ClaimOf, ownershipVars
<1>8. QED
  BY <1>4, <1>5, <1>6, <1>7 DEF StayInv

\* What is reported under a claim goes to its socket: the late completion of
\* the stream it pushed aside first, then its own.
LEMMA RouteUnderClaim ==
  ASSUME TypeOK, SlotsBacked, StayInv, RouteCompleted,
         pendingStreamClaim.socket # NoSocket
  PROVE  /\ SettledInv' /\ ClaimInv' /\ OwnerInv'
         /\ NotificationTarget = Head(outbox).socket
<1> DEFINE s == pendingStreamClaim.socket
           thread == Head(outbox).thread
<1>1. /\ s \in Sockets /\ activeStreamSocket = s /\ activeRequestSocket = s
      /\ Streaming(inflight[s]) /\ ClaimOf(s) /\ inflight[s] \in StreamLines
  <2>1. s \in Sockets
    BY DEF TypeOK, OwnershipTypeOK, Claim, MaybeSocket
  <2>2. Streaming(inflight[s]) /\ ClaimOf(s)
    BY DEF SlotsBacked, ClaimBacked, StayInv, ClaimInv
  <2>3. QED
    BY <2>1, <2>2, ClaimantFacts DEF ClaimOf
<1>2. NotificationTarget = s
  BY <1>1 DEF NotificationTarget
<1>3. /\ outbox # <<>> /\ outbox' = Tail(outbox)
      /\ HandleTurnCompleted(s, thread)
      /\ UNCHANGED <<inflight, started, running>>
  BY <1>2 DEF RouteCompleted
<1>4. /\ Len(outbox) \in Nat /\ Len(outbox) > 0
      /\ Head(outbox) = outbox[1] /\ Len(outbox') = Len(outbox) - 1
      /\ \A i \in 1..Len(outbox') : outbox'[i] = outbox[i+1]
  BY <1>3, EmptySeq, LenProperties, HeadTailProperties DEF TypeOK
<1>5. /\ UNCHANGED <<activeRequestSocket, activeStreamSocket,
                     activeStreamThreadIds>>
      /\ IF BelongsToSuperseded(thread)
         THEN supersededStream' = NoStream /\ UNCHANGED pendingStreamClaim
         ELSE /\ pendingStreamClaim' =
                   [pendingStreamClaim EXCEPT !.completed = TRUE]
              /\ UNCHANGED supersededStream
  BY <1>1, <1>3 DEF HandleTurnCompleted
<1>6. CASE Late
  <2>1. LateFirst(s) /\ pendingStreamClaim.expected = {inflight[s].src}
    BY <1>1, <1>6 DEF ClaimOf
  <2>2. BelongsToSuperseded(thread) /\ outbox[1].socket = s
    BY <1>4, <2>1 DEF LateFirst, BelongsToSuperseded
  <2>3. supersededStream' = NoStream /\ UNCHANGED pendingStreamClaim /\ ~Late'
    BY <1>5, <2>2 DEF Late, NoStream
  <2>4. Before = 1 /\ Before' = 0
    BY <1>6, <2>3 DEF Before
  <2>5. Asked(s)' \/ Running(s)' \/ Ended(s)'
    <3>1. CASE Asked(s)
      BY <1>3, <1>4, <2>3, <2>4, <3>1 DEF Asked
    <3>2. CASE Running(s)
      BY <1>3, <1>4, <2>3, <2>4, <3>2 DEF Running, TurnOf
    <3>3. CASE Ended(s)
      <4>1. Len(outbox) = 2 /\ outbox[2] = TurnOf(s, inflight[s])
        BY <2>4, <3>3 DEF Ended
      <4>2. Len(outbox') = 1 /\ outbox'[1] = outbox[2]
        BY <1>4, <4>1
      <4>3. QED
        BY <1>3, <2>3, <2>4, <3>3, <4>1, <4>2 DEF Ended, TurnOf
    <3>4. QED
      BY <1>1, <1>6, <3>1, <3>2, <3>3 DEF ClaimOf, Told
  <2>6. ClaimOf(s)'
    BY <1>1, <1>3, <1>5, <2>1, <2>3, <2>5 DEF ClaimOf
  <2>7. QED
    BY <1>1, <1>2, <1>3, <1>4, <1>5, <2>2, <2>3, <2>6
    DEF ClaimInv, SettledInv, StayInv, OwnerInv
<1>7. CASE ~Late
  <2>1. Ended(s) /\ Before = 0 /\ Len(outbox) = 1
        /\ outbox[1] = TurnOf(s, inflight[s])
    BY <1>1, <1>4, <1>7 DEF ClaimOf, Asked, Running, Ended, Told, Before
  <2>2. outbox[1].socket = s
    BY <2>1 DEF TurnOf
  <2>3. ~BelongsToSuperseded(thread)
    BY <1>7 DEF BelongsToSuperseded, StayInv, OwnerInv, NoStream
  <2>4. /\ pendingStreamClaim' = [pendingStreamClaim EXCEPT !.completed = TRUE]
        /\ UNCHANGED supersededStream
    BY <1>5, <2>3
  <2>5. /\ pendingStreamClaim'.socket = s /\ pendingStreamClaim'.completed
        /\ pendingStreamClaim'.expected = pendingStreamClaim.expected
    BY <2>4 DEF TypeOK, OwnershipTypeOK, Claim
  <2>6. Told(s)' /\ ~Late'
    BY <1>3, <1>4, <1>7, <2>1, <2>4, <2>5 DEF Told, Ended, Late
  <2>7. ClaimOf(s)'
    BY <1>1, <1>3, <1>5, <2>5, <2>6 DEF ClaimOf
  <2>8. QED
    BY <1>1, <1>2, <1>3, <1>4, <1>5, <2>2, <2>4, <2>5, <2>7
    DEF ClaimInv, SettledInv, StayInv, OwnerInv, Late
<1>8. QED
  BY <1>6, <1>7

\* Without a claim it is the stream owner's completion, which frees the stream.
LEMMA RouteToOwner ==
  ASSUME TypeOK, SlotsBacked, StayInv, RouteCompleted,
         pendingStreamClaim.socket = NoSocket
  PROVE  /\ SettledInv' /\ ClaimInv' /\ OwnerInv'
         /\ NotificationTarget = Head(outbox).socket
         /\ activeStreamSocket # NoSocket /\ running = {}
         /\ activeStreamSocket' = NoSocket
<1> DEFINE s == activeStreamSocket
           thread == Head(outbox).thread
<1>1. outbox # <<>> /\ outbox' = Tail(outbox)
      /\ UNCHANGED <<inflight, started, running>>
  BY DEF RouteCompleted
<1>2. /\ Len(outbox) \in Nat /\ Len(outbox) > 0
      /\ Head(outbox) = outbox[1] /\ Len(outbox') = Len(outbox) - 1
  BY <1>1, EmptySeq, LenProperties, HeadTailProperties DEF TypeOK
<1>3. s # NoSocket /\ s \in Sockets
  BY <1>2 DEF StayInv, SettledInv, TypeOK, OwnershipTypeOK, MaybeSocket
<1>4. PICK t \in Turns : SettledTurn(t)
  BY <1>3 DEF StayInv, SettledInv
<1>5. running = {} /\ Len(outbox) = 1 /\ outbox[1] = t /\ t.socket = s
      /\ t.thread \in activeStreamThreadIds
  BY <1>2, <1>4 DEF SettledTurn
<1>6. NotificationTarget = s
  BY <1>3 DEF NotificationTarget, StayInv, OwnerInv
<1>7. HandleTurnCompleted(s, thread) /\ ~OtherThread(thread)
  BY <1>2, <1>3, <1>5, <1>6 DEF RouteCompleted, OtherThread
<1>8. /\ activeStreamSocket' = NoSocket /\ ClearRequest(s)
      /\ UNCHANGED <<pendingStreamClaim, supersededStream>>
  BY <1>3, <1>7 DEF HandleTurnCompleted
<1>9. activeRequestSocket' \in {NoSocket, s}
  BY <1>3, <1>8 DEF ClearRequest, StayInv, OwnerInv
<1>10. SettledInv' /\ ClaimInv'
  BY <1>1, <1>2, <1>5, <1>8 DEF SettledInv, ClaimInv
<1>11. OwnerInv'
  BY <1>1, <1>8 DEF StayInv, OwnerInv, Late
<1>12. QED
  BY <1>2, <1>3, <1>5, <1>6, <1>8, <1>10, <1>11

LEMMA RouteKeepsStay ==
  ASSUME TypeOK, SlotsBacked, StayInv, RouteCompleted
  PROVE  StayInv'
<1>1. /\ outbox # <<>> /\ outbox' = Tail(outbox)
      /\ UNCHANGED <<chain, inflight, running>>
  BY DEF RouteCompleted
<1>2. /\ Len(outbox) \in Nat /\ Len(outbox) > 0 /\ Len(outbox') = Len(outbox) - 1
      /\ \A i \in 1..Len(outbox') : outbox'[i] = outbox[i+1]
  BY <1>1, EmptySeq, LenProperties, HeadTailProperties DEF TypeOK
<1>3. \A i \in 1..Len(outbox') : i + 1 \in 1..Len(outbox)
  BY <1>2
<1>4. \A u \in Sockets, l \in StreamLines : QueuedLine(u, l) => QueuedLine(u, l)'
  BY <1>1, <1>2, <1>3 DEF QueuedLine
<1>5. QueueInv'
  BY <1>1, <1>4, QueueKept DEF StayInv
<1>6. QED
  BY <1>5, RouteUnderClaim, RouteToOwner DEF StayInv

\* A client that closes owns nothing any more.
LEMMA FinishedOwnsNothing ==
  ASSUME TypeOK, SlotsBacked, StayInv, NEW s \in Sockets, Finished(s)
  PROVE  /\ s \notin {activeRequestSocket, activeStreamSocket,
                      pendingStreamClaim.socket, supersededStream.socket}
         /\ s # NoSocket
<1>1. inflight[s] = Idle
  BY DEF Finished, OwnLines
<1>2. activeRequestSocket # s /\ pendingStreamClaim.socket # s /\ s # NoSocket
  BY <1>1, IdleFacts, ControlUnslotted, SocketAssumption
<1>3. supersededStream.socket # s
  BY <1>2 DEF SlotsBacked, SupersededBacked
<1>4. activeStreamSocket # s
  <2>1. CASE pendingStreamClaim.socket = NoSocket
    <3>1. SUFFICES ASSUME activeStreamSocket = s PROVE FALSE
      OBVIOUS
    <3>2. PICK t \in Turns : SettledTurn(t)
      BY <1>2, <2>1, <3>1 DEF StayInv, SettledInv
    <3>3. t.socket = s /\ t \in Unfinished
      <4>1. DOMAIN outbox = 1..Len(outbox)
        BY LenProperties DEF TypeOK
      <4>2. QED
        BY <3>1, <3>2, <4>1 DEF SettledTurn, Unfinished
    <3>4. QED
      BY <3>3 DEF Finished, OwnTurns
  <2>2. CASE pendingStreamClaim.socket # NoSocket
    BY <1>2, <2>2 DEF SlotsBacked, ClaimBacked
  <2>3. QED
    BY <2>1, <2>2
<1>5. QED
  BY <1>2, <1>3, <1>4

LEMMA CloseKeepsStay ==
  ASSUME Staying, TypeOK, SlotsBacked, StayInv, NEW s \in Sockets, CloseSocket(s)
  PROVE  StayInv'
<1>1. Finished(s)
  BY DEF CloseSocket, Staying
<1>2. UNCHANGED ownershipVars
  BY <1>1, FinishedOwnsNothing
  DEF CloseSocket, ReleaseSocket, ClearRequest, ownershipVars
<1>3. QED
  BY <1>2, StayUntouched DEF CloseSocket

LEMMA StepStay ==
  ASSUME Staying, TypeOK, SlotsBacked, StayInv, [Next]_vars
  PROVE  StayInv'
<1>1. ASSUME NEW t \in running, ForwardServerRequest(t)
      PROVE  StayInv'
  BY <1>1, StayUntouched DEF ForwardServerRequest
<1>2. ASSUME NEW i \in DOMAIN serverRequests, ServerRequestTimeout(i)
      PROVE  StayInv'
  BY <1>2, StayUntouched DEF ServerRequestTimeout
<1>3. CASE UNCHANGED vars
  BY <1>3, StayUntouched DEF vars, brokerVars
<1>4. QED
  BY <1>1, <1>2, <1>3, SendKeepsStay, SkipKeepsStay, ControlKeepsStay,
     BeginKeepsStay, StartKeepsStay, SettleKeepsStay, FailKeepsStay,
     EndKeepsStay, RouteKeepsStay, CloseKeepsStay
  DEF Next, HandleLine, Answer

LEMMA InitStay == Init => StayInv
<1> SUFFICES ASSUME Init PROVE StayInv
  OBVIOUS
<1>1. SettledInv /\ ClaimInv
  BY EmptySeq DEF Init, OwnershipInit, SettledInv, ClaimInv, NoClaim
<1>2. OwnerInv
  BY IdleFacts DEF Init, OwnershipInit, OwnerInv, Late
<1>3. QueueInv
  BY EmptySeq DEF Init, QueueInv
<1>4. QED
  BY <1>1, <1>2, <1>3 DEF StayInv

\* While clients stay until they are told that their turn completed, the
\* ownership slots, the turn that runs and the completions under way always
\* agree.
THEOREM StayInvariant == Staying /\ Spec => []StayInv
<1>1. Staying /\ TypeOK /\ SlotsBacked /\ StayInv /\ [Next]_vars => StayInv'
  BY StepStay
<1>2. Staying => []Staying
  OBVIOUS
<1>3. QED
  BY <1>1, <1>2, InitStay, TypeInvariant, SlotsInvariant, PTL DEF Spec

----------------------------------------------------------------------------
\* What clients that stay can rely on.

\* Every turn that runs is the stream owner's.
LEMMA OneRuns ==
  ASSUME TypeOK, SlotsBacked, StayInv
  PROVE  /\ running = {} \/ \E t \in Turns : running = {t}
         /\ \A t \in running : activeStreamSocket = t.socket
                                 /\ activeStreamSocket # NoSocket
<1>1. CASE pendingStreamClaim.socket = NoSocket
  BY <1>1 DEF StayInv, SettledInv, SettledTurn
<1>2. CASE pendingStreamClaim.socket # NoSocket
  <2>1. PICK s \in Sockets :
          /\ s = pendingStreamClaim.socket /\ activeStreamSocket = s
          /\ Streaming(inflight[s])
    BY <1>2 DEF SlotsBacked, ClaimBacked, TypeOK, OwnershipTypeOK, Claim,
                MaybeSocket
  <2>2. ClaimOf(s) /\ inflight[s] \in StreamLines
    BY <2>1, ClaimantFacts
  <2>3. TurnOf(s, inflight[s]) \in Turns /\ TurnOf(s, inflight[s]).socket = s
    BY <2>2 DEF TurnOf, Turns, StreamLines
  <2>4. QED
    BY <1>2, <2>1, <2>2, <2>3 DEF ClaimOf, Asked, Running, Ended, Told
<1>3. QED
  BY <1>1, <1>2

\* At most one turn runs in the app-server, however many clients, threads and
\* lines there are, while no client leaves before its turn completed.
THEOREM ExclusiveTurns == Staying /\ Spec => []AtMostOneTurn
<1>1. TypeOK /\ SlotsBacked /\ StayInv => AtMostOneTurn
  <2> SUFFICES ASSUME TypeOK, SlotsBacked, StayInv
               PROVE  Cardinality(running) <= 1
    BY DEF AtMostOneTurn
  <2>1. CASE running = {}
    BY <2>1, FS_EmptySet
  <2>2. CASE \E t \in Turns : running = {t}
    <3>1. PICK t : running = {t}
      BY <2>2
    <3>2. Cardinality({t}) = 1
      BY FS_Singleton
    <3>3. QED
      BY <3>1, <3>2
  <2>3. QED
    BY <2>1, <2>2, OneRuns
<1>2. QED
  BY <1>1, TypeInvariant, SlotsInvariant, StayInvariant, PTL

\* The stream of such clients is never left owned for good: its owner has a
\* request in flight or a turn whose completion is still to come.
THEOREM StreamAlwaysBacked == Staying /\ Spec => []StreamBacked
<1>1. ASSUME TypeOK, SlotsBacked, StayInv, activeStreamSocket # NoSocket,
             pendingStreamClaim.socket = NoSocket
      PROVE  OwnTurns(activeStreamSocket) # {}
  <2>1. PICK t \in Turns : SettledTurn(t)
    BY <1>1 DEF StayInv, SettledInv
  <2>2. DOMAIN outbox = 1..Len(outbox)
    BY <1>1, LenProperties DEF TypeOK
  <2>3. t \in OwnTurns(activeStreamSocket)
    BY <2>1, <2>2 DEF SettledTurn, OwnTurns, Unfinished
  <2>4. QED
    BY <2>3
<1>2. TypeOK /\ SlotsBacked /\ StayInv => StreamBacked
  BY <1>1 DEF StreamBacked, SlotsBacked, ClaimBacked
<1>3. QED
  BY <1>2, TypeInvariant, SlotsInvariant, StayInvariant, PTL

\* Only the routing of a completion shortens the outbox.
LEMMA OutboxShrinks ==
  ASSUME TypeOK, [Next]_vars, outbox # <<>>, outbox' = Tail(outbox)
  PROVE  RouteCompleted
<1>1. Len(outbox) \in Nat /\ Len(Tail(outbox)) = Len(outbox) - 1
  BY LenProperties, HeadTailProperties DEF TypeOK
<1>2. Tail(outbox) # outbox
  <2>1. SUFFICES ASSUME Tail(outbox) = outbox PROVE FALSE
    OBVIOUS
  <2>2. Len(outbox) = Len(outbox) - 1
    BY <1>1, <2>1, Zenon
  <2>3. QED
    BY <1>1, <2>2
<1>3. ASSUME NEW t \in running, TurnEnds(t)
      PROVE  FALSE
  <2>1. outbox' = Append(outbox, t) /\ Len(Append(outbox, t)) = Len(outbox) + 1
    BY <1>3, AppendProperties DEF TurnEnds, TypeOK
  <2>2. Len(Tail(outbox)) = Len(outbox) + 1
    BY <2>1
  <2>3. QED
    BY <1>1, <2>2
<1>4. ASSUME NEW s \in Sockets,
             \/ \E l \in ClientLines : SendLine(s, l)
             \/ HandleLine(s) \/ AppStart(s) \/ Answer(s) \/ CloseSocket(s)
      PROVE  UNCHANGED outbox
  BY <1>4
  DEF SendLine, HandleLine, AnswerBusy, BeginControl, BeginGated, HandleReply,
      AppStart, Answer, Settle, Fail, CloseSocket
<1>5. ASSUME NEW t \in running, ForwardServerRequest(t)
      PROVE  UNCHANGED outbox
  BY <1>5 DEF ForwardServerRequest
<1>6. ASSUME NEW i \in DOMAIN serverRequests, ServerRequestTimeout(i)
      PROVE  UNCHANGED outbox
  BY <1>6 DEF ServerRequestTimeout
<1>7. CASE UNCHANGED vars
  BY <1>2, <1>7 DEF vars, brokerVars
<1>8. QED
  BY <1>2, <1>3, <1>4, <1>5, <1>6, <1>7 DEF Next

\* What a turn sends, its completion and its own requests, reaches the client
\* that started it, when clients stay until their turn completed.
THEOREM MessagesArrive == Staying /\ Spec => MessagesReachStarter
<1>1. ASSUME TypeOK, SlotsBacked, StayInv, [Next]_vars
      PROVE  /\ outbox # <<>> /\ outbox' = Tail(outbox)
                  => NotificationTarget = Head(outbox).socket
             /\ \A t \in running : ServerRequestTarget = t.socket
  <2>1. outbox # <<>> /\ outbox' = Tail(outbox)
          => NotificationTarget = Head(outbox).socket
    BY <1>1, OutboxShrinks, RouteUnderClaim, RouteToOwner
  <2>2. \A t \in running : ServerRequestTarget = t.socket
    BY <1>1, OneRuns DEF ServerRequestTarget
  <2>3. QED
    BY <2>1, <2>2
<1>2. TypeOK /\ SlotsBacked /\ StayInv /\ [Next]_vars
        => [/\ outbox # <<>> /\ outbox' = Tail(outbox)
                 => \/ NotificationTarget = Head(outbox).socket
                    \/ conn[Head(outbox).socket] = "closed"
            /\ \A t \in running :
                 ForwardServerRequest(t) => ServerRequestTarget = t.socket]_vars
  BY <1>1
<1>3. QED
  BY <1>2, TypeInvariant, SlotsInvariant, StayInvariant, PTL
  DEF Spec, MessagesReachStarter

----------------------------------------------------------------------------
\* The broker implements the exclusive slot.

\* The phase of the slot in terms of the turn that runs and the claim.
PhaseShape ==
  /\ TurnPhase = IF activeStreamSocket = NoSocket THEN "free"
                 ELSE IF running # {} THEN "running"
                 ELSE IF pendingStreamClaim.socket \notin started \union {NoSocket}
                      THEN "asked" ELSE "over"
  /\ running # {} => activeStreamSocket # NoSocket
  /\ pendingStreamClaim.socket # NoSocket
       => activeStreamSocket = pendingStreamClaim.socket

LEMMA PhaseFacts == TypeOK /\ SlotsBacked /\ StayInv => PhaseShape
<1> SUFFICES ASSUME TypeOK, SlotsBacked, StayInv PROVE PhaseShape
  OBVIOUS
<1>1. /\ running # {} => activeStreamSocket # NoSocket
      /\ \A t \in running : t.socket = activeStreamSocket
  BY OneRuns
<1>2. pendingStreamClaim.socket # NoSocket
        => /\ activeStreamSocket = pendingStreamClaim.socket
           /\ Streaming(inflight[activeStreamSocket])
  BY DEF SlotsBacked, ClaimBacked
<1>3. activeStreamSocket # NoSocket /\ Streaming(inflight[activeStreamSocket])
        => pendingStreamClaim.socket = activeStreamSocket
  BY DEF StayInv, OwnerInv, TypeOK, OwnershipTypeOK, MaybeSocket
<1>4. QED
  BY <1>1, <1>2, <1>3 DEF PhaseShape, TurnPhase

LEMMA PhaseFactsNext == TypeOK' /\ SlotsBacked' /\ StayInv' => PhaseShape'
BY PhaseFacts, PTL

LEMMA SamePhase ==
  ASSUME PhaseShape, PhaseShape',
         UNCHANGED <<activeStreamSocket, running>>,
         pendingStreamClaim'.socket = pendingStreamClaim.socket,
         started' = started
  PROVE  UNCHANGED Slot!turnVars
BY DEF PhaseShape, Slot!turnVars

\* A plain line or its answer does not move the slot.
LEMMA PlainSlot ==
  ASSUME TypeOK, SlotsBacked, StayInv, PhaseShape, PhaseShape',
         NEW s \in Sockets, ~Streaming(inflight[s]),
         UNCHANGED <<activeStreamSocket, running, pendingStreamClaim>>,
         started' \in {started, started \ {s}}
  PROVE  UNCHANGED Slot!turnVars
<1>1. s \notin started
  BY DEF StayInv, OwnerInv
<1>2. QED
  BY <1>1, SamePhase

LEMMA BeginSlot ==
  ASSUME TypeOK, SlotsBacked, StayInv, PhaseShape, PhaseShape',
         NEW s \in Sockets, BeginGated(s)
  PROVE  [Slot!Next]_(Slot!turnVars)
<1>1. PICK l \in StreamLines \union PlainLines :
        /\ NextLine(s, l)
        /\ ~IsBusyFor(s)
        /\ BeginRequest(s, Streaming(l), IF Streaming(l)
                                         THEN BuildStreamThreadIds(l, FALSE)
                                         ELSE {})
        /\ UNCHANGED <<started, running>>
  BY DEF BeginGated
<1>2. ~Streaming(inflight[s]) /\ s # NoSocket
  BY <1>1, IdleFacts, SocketAssumption DEF NextLine
<1>3. CASE ~Streaming(l)
  BY <1>1, <1>2, <1>3, PlainSlot DEF BeginRequest
<1>4. CASE Streaming(l)
  <2>1. /\ pendingStreamClaim.socket = NoSocket
        /\ activeStreamSocket \in {NoSocket, s}
    BY <1>1, GateOpen
  <2>2. activeStreamSocket' = s /\ pendingStreamClaim'.socket = s
    BY <1>1, <1>4 DEF BeginRequest
  <2>3. s \notin started
    BY <1>2 DEF StayInv, OwnerInv
  <2>4. QueuedLine(s, l)
    <3>1. chain[s] \in Seq(Lines) /\ chain[s] # <<>> /\ l = Head(chain[s])
      BY <1>1 DEF NextLine, TypeOK
    <3>2. Len(chain[s]) \in Nat \ {0} /\ Head(chain[s]) = chain[s][1]
      BY <3>1, EmptySeq, HeadTailProperties
    <3>3. 1 \in 1..Len(chain[s]) /\ Streaming(chain[s][1])
      BY <1>4, <3>1, <3>2
    <3>4. QED
      BY <3>1, <3>2, <3>3 DEF StayInv, QueueInv
  <2>5. running = {}
    BY <2>1, <2>4, OneRuns DEF QueuedLine
  <2>6. TurnPhase' = "asked"
    BY <1>1, <1>2, <2>2, <2>3, <2>5 DEF PhaseShape
  <2>7. CASE activeStreamSocket = NoSocket
    <3>1. TurnPhase = "free"
      BY <2>7 DEF PhaseShape
    <3>2. Slot!Ask(s)
      BY <2>2, <2>6, <3>1 DEF Slot!Ask
    <3>3. QED
      BY <3>2 DEF Slot!Next
  <2>8. CASE activeStreamSocket = s
    <3>1. TurnPhase = "over"
      BY <1>2, <2>1, <2>5, <2>8 DEF PhaseShape
    <3>2. Slot!Again
      BY <2>2, <2>6, <2>8, <3>1 DEF Slot!Again
    <3>3. QED
      BY <3>2 DEF Slot!Next
  <2>9. QED
    BY <2>1, <2>7, <2>8
<1>5. QED
  BY <1>3, <1>4

LEMMA StartSlot ==
  ASSUME TypeOK, SlotsBacked, StayInv, PhaseShape, PhaseShape',
         NEW s \in Sockets, AppStart(s)
  PROVE  [Slot!Next]_(Slot!turnVars)
<1>1. /\ Streaming(inflight[s]) /\ s \notin started
      /\ running' # {}
      /\ UNCHANGED ownershipVars
  BY DEF AppStart
<1>2. /\ pendingStreamClaim.socket = s /\ s # NoSocket
      /\ activeStreamSocket = s /\ running = {}
  BY <1>1, ClaimantFacts DEF ClaimOf, Asked, Running, Ended, Told
<1>3. TurnPhase = "asked" /\ TurnPhase' = "running"
  BY <1>1, <1>2 DEF PhaseShape, ownershipVars
<1>4. Slot!Start
  BY <1>1, <1>3 DEF Slot!Start, ownershipVars
<1>5. QED
  BY <1>4 DEF Slot!Next

LEMMA SettleSlot ==
  ASSUME TypeOK, SlotsBacked, StayInv, PhaseShape, PhaseShape',
         NEW s \in Sockets, Settle(s)
  PROVE  [Slot!Next]_(Slot!turnVars)
<1>1. DoneAwaiting(s) /\ UNCHANGED running
  BY DEF Settle
<1>2. CASE ~Streaming(inflight[s])
  <2>1. UNCHANGED <<activeStreamSocket, pendingStreamClaim>>
    BY <1>2 DEF Settle, SettleRequest, ownershipVars
  <2>2. QED
    BY <1>1, <1>2, <2>1, PlainSlot DEF DoneAwaiting
<1>3. CASE Streaming(inflight[s])
  <2>1. /\ pendingStreamClaim.socket = s /\ s # NoSocket
        /\ activeStreamSocket = s /\ s \in started
    BY <1>3, ClaimantFacts DEF Settle
  <2>2. /\ pendingStreamClaim'.socket = NoSocket
        /\ CompletedEarly(s) => activeStreamSocket' = NoSocket
        /\ ~CompletedEarly(s) => activeStreamSocket' = s
    <3>1. inflight[s].method # "control"
      BY <1>3, ClaimantFacts, StreamLineFacts
    <3>2. SettleRequest(s, TRUE, BuildStreamThreadIds(inflight[s], TRUE))
      BY <1>3, <3>1 DEF Settle
    <3>3. pendingStreamClaim'.socket = NoSocket
      BY <3>2 DEF SettleRequest, NoClaim
    <3>4. CompletedEarly(s) => activeStreamSocket' = NoSocket
      BY <3>2, Zenon DEF SettleRequest
    <3>5. ~CompletedEarly(s) => activeStreamSocket' = s
      BY <3>2, Zenon DEF SettleRequest
    <3>6. QED
      BY <3>3, <3>4, <3>5
  <2>3. CASE ~CompletedEarly(s)
    BY <1>1, <2>1, <2>2, <2>3 DEF PhaseShape, Slot!turnVars
  <2>4. CASE CompletedEarly(s)
    <3>1. running = {}
      BY <1>3, <2>4, ClaimantFacts
      DEF CompletedEarly, ClaimOf, Asked, Running, Ended, Told
    <3>2. TurnPhase = "over" /\ TurnPhase' = "free"
      BY <1>1, <2>1, <2>2, <2>4, <3>1 DEF PhaseShape
    <3>3. Slot!Free
      BY <2>2, <2>4, <3>2 DEF Slot!Free
    <3>4. QED
      BY <3>3 DEF Slot!Next
  <2>5. QED
    BY <2>3, <2>4
<1>4. QED
  BY <1>2, <1>3

LEMMA FailSlot ==
  ASSUME Staying, TypeOK, SlotsBacked, StayInv, PhaseShape, PhaseShape',
         NEW s \in Sockets, Fail(s)
  PROVE  [Slot!Next]_(Slot!turnVars)
<1>1. DoneAwaiting(s) /\ MayFail(s) /\ inflight[s] # Idle /\ UNCHANGED running
  BY DEF Fail
<1>2. CASE ~Streaming(inflight[s])
  <2>1. pendingStreamClaim.socket # s
    BY <1>2, SocketAssumption DEF SlotsBacked, ClaimBacked
  <2>2. inflight[s].method = "control" \/ activeStreamSocket # s
    BY <1>1, <1>2 DEF MayFail, Staying
  <2>3. UNCHANGED <<activeStreamSocket, pendingStreamClaim>>
    BY <2>1, <2>2 DEF Fail, FailRequest, ownershipVars
  <2>4. QED
    BY <1>1, <1>2, <2>3, PlainSlot DEF DoneAwaiting
<1>3. CASE Streaming(inflight[s])
  <2>1. /\ pendingStreamClaim.socket = s /\ s # NoSocket
        /\ activeStreamSocket = s /\ ClaimOf(s) /\ inflight[s] \in StreamLines
    BY <1>3, ClaimantFacts
  <2>2. s \notin started /\ EarlierReported(s) /\ FailRequest(s)
    BY <1>1, <2>1, StreamLineFacts DEF MayFail, Fail, Staying
  <2>3. supersededStream = NoStream
    BY <1>3, <2>2, AnsweredInOrder
  <2>4. activeStreamSocket' = NoSocket
    BY <2>1, <2>2, <2>3 DEF FailRequest, RestoreSuperseded, NoStream
  <2>5. running = {}
    BY <2>1, <2>2 DEF ClaimOf, Asked, Running, Ended, Told
  <2>6. TurnPhase = "asked" /\ TurnPhase' = "free"
    BY <1>1, <2>1, <2>2, <2>4, <2>5 DEF PhaseShape
  <2>7. Slot!Free
    BY <2>4, <2>6 DEF Slot!Free
  <2>8. QED
    BY <2>7 DEF Slot!Next
<1>4. QED
  BY <1>2, <1>3

LEMMA EndSlot ==
  ASSUME TypeOK, SlotsBacked, StayInv, PhaseShape, PhaseShape',
         NEW t \in running, TurnEnds(t)
  PROVE  [Slot!Next]_(Slot!turnVars)
<1>1. running' = running \ {t} /\ UNCHANGED <<ownershipVars, started>>
  BY DEF TurnEnds
<1>2. running' = {} /\ activeStreamSocket # NoSocket
  BY <1>1, OneRuns
<1>3. pendingStreamClaim.socket # NoSocket => pendingStreamClaim.socket \in started
  BY DEF StayInv, ClaimInv, ClaimOf, Asked, Running, Ended, Told
<1>4. TurnPhase = "running" /\ TurnPhase' = "over"
  BY <1>1, <1>2, <1>3 DEF PhaseShape, ownershipVars
<1>5. Slot!Over
  BY <1>1, <1>4 DEF Slot!Over, ownershipVars
<1>6. QED
  BY <1>5 DEF Slot!Next

LEMMA RouteSlot ==
  ASSUME TypeOK, SlotsBacked, StayInv, PhaseShape, PhaseShape', RouteCompleted
  PROVE  [Slot!Next]_(Slot!turnVars)
<1>1. UNCHANGED <<started, running>>
  BY DEF RouteCompleted
<1>2. CASE pendingStreamClaim.socket = NoSocket
  <2>1. /\ activeStreamSocket # NoSocket /\ running = {}
        /\ activeStreamSocket' = NoSocket
    BY <1>2, RouteToOwner
  <2>2. TurnPhase = "over" /\ TurnPhase' = "free"
    BY <1>1, <1>2, <2>1 DEF PhaseShape
  <2>3. Slot!Free
    BY <2>1, <2>2 DEF Slot!Free
  <2>4. QED
    BY <2>3 DEF Slot!Next
<1>3. CASE pendingStreamClaim.socket # NoSocket
  <2> DEFINE s == pendingStreamClaim.socket
  <2>1. activeStreamSocket = s /\ activeRequestSocket = s /\ NotificationTarget = s
    BY <1>3 DEF SlotsBacked, ClaimBacked, StayInv, ClaimInv, ClaimOf,
                NotificationTarget
  <2>2. HandleTurnCompleted(s, Head(outbox).thread)
    BY <1>3, <2>1 DEF RouteCompleted
  <2>3. activeStreamSocket' = activeStreamSocket /\ pendingStreamClaim'.socket = s
    BY <2>1, <2>2 DEF HandleTurnCompleted, TypeOK, OwnershipTypeOK, Claim,
                      ownershipVars
  <2>4. QED
    BY <1>1, <2>3, SamePhase
<1>4. QED
  BY <1>2, <1>3

LEMMA SlotStep ==
  ASSUME Staying, TypeOK, SlotsBacked, StayInv, PhaseShape, PhaseShape',
         [Next]_vars
  PROVE  [Slot!Next]_(Slot!turnVars)
<1>1. ASSUME UNCHANGED <<ownershipVars, started, running>>
      PROVE  UNCHANGED Slot!turnVars
  BY <1>1, SamePhase DEF ownershipVars
<1>2. ASSUME NEW s \in Sockets,
             \/ \E l \in ClientLines : SendLine(s, l)
             \/ AnswerBusy(s) \/ HandleReply(s) \/ BeginControl(s)
      PROVE  UNCHANGED Slot!turnVars
  BY <1>1, <1>2 DEF SendLine, AnswerBusy, HandleReply, BeginControl
<1>3. ASSUME NEW s \in Sockets, CloseSocket(s)
      PROVE  UNCHANGED Slot!turnVars
  <2>1. Finished(s)
    BY <1>3 DEF CloseSocket, Staying
  <2>2. UNCHANGED ownershipVars
    BY <1>3, <2>1, FinishedOwnsNothing
    DEF CloseSocket, ReleaseSocket, ClearRequest, ownershipVars
  <2>3. QED
    BY <1>1, <1>3, <2>2 DEF CloseSocket
<1>4. ASSUME NEW t \in running, ForwardServerRequest(t)
      PROVE  UNCHANGED Slot!turnVars
  BY <1>1, <1>4 DEF ForwardServerRequest
<1>5. ASSUME NEW i \in DOMAIN serverRequests, ServerRequestTimeout(i)
      PROVE  UNCHANGED Slot!turnVars
  BY <1>1, <1>5 DEF ServerRequestTimeout
<1>6. CASE UNCHANGED vars
  BY <1>1, <1>6 DEF vars, brokerVars
<1>7. QED
  BY <1>2, <1>3, <1>4, <1>5, <1>6, BeginSlot, StartSlot, SettleSlot, FailSlot,
     EndSlot, RouteSlot
  DEF Next, HandleLine, Answer

\* While clients stay until their turn completed, the broker is the exclusive
\* slot of ExclusiveTurn: it is taken only when free, its turn starts or is
\* refused, and it is freed only after a refusal or the end of the turn.
THEOREM BrokerIsExclusive == Staying /\ Spec => ImplementsExclusiveTurn
<1>1. Init => Slot!Init
  BY DEF Init, OwnershipInit, Slot!Init, TurnPhase
<1>2. Staying /\ TypeOK /\ SlotsBacked /\ StayInv
      /\ TypeOK' /\ SlotsBacked' /\ StayInv' /\ [Next]_vars
        => [Slot!Next]_(Slot!turnVars)
  <2> SUFFICES ASSUME Staying, TypeOK, SlotsBacked, StayInv,
                      TypeOK', SlotsBacked', StayInv', [Next]_vars
               PROVE  [Slot!Next]_(Slot!turnVars)
    OBVIOUS
  <2>1. PhaseShape
    BY PhaseFacts
  <2>2. PhaseShape'
    BY PhaseFactsNext
  <2>3. QED
    BY <2>1, <2>2, SlotStep
<1>3. Staying => []Staying
  OBVIOUS
<1>4. QED
  BY <1>1, <1>2, <1>3, TypeInvariant, SlotsInvariant, StayInvariant, PTL
  DEF Spec, ImplementsExclusiveTurn, Slot!Spec

----------------------------------------------------------------------------
\* The app-server's own requests, whatever clients do.

LEMMA StepAnswers ==
  ASSUME TypeOK, PendingHasClient, [Next]_vars
  PROVE  /\ PendingHasClient'
         /\ \A i \in DOMAIN serverRequests :
              serverRequests[i].status # "pending"
                => serverRequests'[i] = serverRequests[i]
<1> DEFINE Answered == \A i \in DOMAIN serverRequests :
                         serverRequests[i].status # "pending"
                           => serverRequests'[i] = serverRequests[i]
<1>1. ASSUME UNCHANGED <<conn, serverRequests>>
      PROVE  PendingHasClient' /\ Answered
  BY <1>1 DEF PendingHasClient
<1>2. /\ DOMAIN serverRequests = 1..Len(serverRequests)
      /\ Len(serverRequests) \in Nat
      /\ \A i \in DOMAIN serverRequests : serverRequests[i] \in ServerRequest
  BY LenProperties, ElementOfSeq DEF TypeOK
<1>3. ASSUME NEW i \in DOMAIN serverRequests, NEW v \in {"resolved", "rejected"},
             serverRequests[i].status = "pending", UNCHANGED conn,
             serverRequests' = [serverRequests EXCEPT ![i].status = v]
      PROVE  PendingHasClient' /\ Answered
  <2>1. /\ DOMAIN serverRequests' = DOMAIN serverRequests
        /\ \A k \in DOMAIN serverRequests :
             k # i => serverRequests'[k] = serverRequests[k]
        /\ serverRequests'[i].status = v
    BY <1>2, <1>3 DEF ServerRequest
  <2>2. QED
    BY <1>3, <2>1 DEF PendingHasClient
<1>4. ASSUME NEW s \in Sockets, HandleReply(s)
      PROVE  PendingHasClient' /\ Answered
  <2>1. PICK i \in DOMAIN serverRequests :
          serverRequests' = IF IsPendingOf(i, s)
                            THEN [serverRequests EXCEPT ![i].status = "resolved"]
                            ELSE serverRequests
    BY <1>4 DEF HandleReply
  <2>2. UNCHANGED conn
    BY <1>4 DEF HandleReply
  <2>3. CASE IsPendingOf(i, s)
    <3>1. serverRequests[i].status = "pending"
      BY <2>3 DEF IsPendingOf
    <3>2. serverRequests' = [serverRequests EXCEPT ![i].status = "resolved"]
      BY <2>1, <2>3
    <3>3. QED
      BY <1>3, <2>2, <3>1, <3>2
  <2>4. CASE ~IsPendingOf(i, s)
    BY <1>1, <2>1, <2>2, <2>4
  <2>5. QED
    BY <2>3, <2>4
<1>5. ASSUME NEW i \in DOMAIN serverRequests, ServerRequestTimeout(i)
      PROVE  PendingHasClient' /\ Answered
  BY <1>3, <1>5 DEF ServerRequestTimeout
<1>6. ASSUME NEW t \in running, ForwardServerRequest(t)
      PROVE  PendingHasClient' /\ Answered
  <2>1. ServerRequestTarget \in Sockets /\ conn[ServerRequestTarget] = "open"
    BY <1>6 DEF ForwardServerRequest, ServerRequestTarget, TypeOK,
                OwnershipTypeOK, MaybeSocket
  <2> DEFINE r == [socket |-> ServerRequestTarget, status |-> "pending"]
  <2>2. r \in ServerRequest
    BY <2>1 DEF ServerRequest
  <2>3. serverRequests' = Append(serverRequests, r) /\ UNCHANGED conn
    BY <1>6 DEF ForwardServerRequest
  <2>4. /\ \A k \in 1..Len(serverRequests) :
             serverRequests'[k] = serverRequests[k]
        /\ serverRequests'[Len(serverRequests) + 1] = r
        /\ DOMAIN serverRequests' = 1..(Len(serverRequests) + 1)
    BY <2>2, <2>3, AppendProperties, LenProperties DEF TypeOK
  <2>5. \A k \in 1..(Len(serverRequests) + 1) :
          k \in 1..Len(serverRequests) \/ k = Len(serverRequests) + 1
    BY <1>2
  <2>6. QED
    BY <1>2, <2>1, <2>3, <2>4, <2>5 DEF PendingHasClient
<1>7. ASSUME NEW s \in Sockets, CloseSocket(s)
      PROVE  PendingHasClient' /\ Answered
  <2>1. /\ DOMAIN serverRequests' = DOMAIN serverRequests
        /\ \A i \in DOMAIN serverRequests :
             serverRequests'[i] = IF IsPendingOf(i, s)
                                  THEN [serverRequests[i] EXCEPT !.status = "rejected"]
                                  ELSE serverRequests[i]
    BY <1>7 DEF CloseSocket, RejectSocketServerRequests
  <2>2. \A u \in Sockets : u # s => conn'[u] = conn[u]
    BY <1>7 DEF CloseSocket, TypeOK
  <2>3. ASSUME NEW i \in DOMAIN serverRequests, serverRequests'[i].status = "pending"
        PROVE  conn'[serverRequests'[i].socket] = "open"
    <3>1. serverRequests[i] \in ServerRequest
      BY <1>2
    <3>2. ~IsPendingOf(i, s)
      BY <2>1, <2>3, <3>1 DEF ServerRequest
    <3>3. serverRequests'[i] = serverRequests[i]
      BY <2>1, <3>2
    <3>4. serverRequests[i].socket # s
      BY <2>3, <3>1, <3>2, <3>3 DEF IsPendingOf, ServerRequest
    <3>5. QED
      BY <2>2, <2>3, <3>1, <3>3, <3>4 DEF PendingHasClient, ServerRequest
  <2>4. QED
    BY <2>1, <2>3 DEF PendingHasClient, IsPendingOf
<1>8. CASE UNCHANGED vars
  BY <1>1, <1>8 DEF vars, brokerVars
<1>9. ASSUME NEW s \in Sockets,
             \/ \E l \in ClientLines : SendLine(s, l)
             \/ AnswerBusy(s) \/ BeginControl(s) \/ BeginGated(s)
             \/ AppStart(s) \/ Answer(s)
      PROVE  UNCHANGED <<conn, serverRequests>>
  BY <1>9
  DEF SendLine, AnswerBusy, BeginControl, BeginGated, AppStart, Answer, Settle,
      Fail
<1>10. ASSUME NEW t \in running, TurnEnds(t)
       PROVE  UNCHANGED <<conn, serverRequests>>
  BY <1>10 DEF TurnEnds
<1>11. CASE RouteCompleted
  BY <1>1, <1>11 DEF RouteCompleted
<1>12. QED
  BY <1>1, <1>4, <1>5, <1>6, <1>7, <1>8, <1>9, <1>10, <1>11
  DEF Next, HandleLine

\* No request of the app-server waits on a client that has gone, whatever
\* clients do and however many there are.
THEOREM PendingInvariant == Spec => []PendingHasClient
<1>1. Init => PendingHasClient
  BY EmptySeq DEF Init, PendingHasClient
<1>2. TypeOK /\ PendingHasClient /\ [Next]_vars => PendingHasClient'
  BY StepAnswers
<1>3. QED
  BY <1>1, <1>2, TypeInvariant, PTL DEF Spec

\* A request of the app-server is answered once: by its client's reply, the
\* five-minute timeout or the close of the socket, whichever comes first.
THEOREM OneAnswer == Spec => AnsweredOnce
<1>1. TypeOK /\ PendingHasClient /\ [Next]_vars
        => [\A i \in DOMAIN serverRequests :
              serverRequests[i].status # "pending"
                => serverRequests'[i] = serverRequests[i]]_serverRequests
  BY StepAnswers
<1>2. QED
  BY <1>1, TypeInvariant, PendingInvariant, PTL DEF Spec, AnsweredOnce

============================================================================
