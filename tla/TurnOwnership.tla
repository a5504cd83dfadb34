--------------------------- MODULE TurnOwnership ---------------------------
(***************************************************************************)
(* The turn-ownership state machine of the shared app-server broker        *)
(* (lib/broker-turn-ownership.mjs).  The broker multiplexes one codex      *)
(* app-server over many client sockets; these five variables decide which  *)
(* socket may start a request and which one is told about notifications.   *)
(*                                                                         *)
(* Each operator below is one method of the object createTurnOwnership     *)
(* returns: a predicate or target when the method only reads, an action on *)
(* ownershipVars when it writes.  JavaScript's null is NoSocket for a      *)
(* socket, NoIds for a set of thread ids, and the record NoClaim/NoStream  *)
(* for the two structured slots.                                           *)
(***************************************************************************)
EXTENDS Naturals

CONSTANTS Sockets,   \* client connections, one identity per connection
          NoSocket,  \* "no socket"
          Threads,   \* codex thread ids
          NoThread   \* the member of the set that stands for null

ASSUME SocketAssumption == NoSocket \notin Sockets
ASSUME ThreadAssumption == NoThread \notin Threads

\* "The set of thread ids is not known (yet)."
NoIds == {NoThread}

VARIABLES
  activeRequestSocket,    \* the socket whose request awaits its response
  activeStreamSocket,     \* the socket that owns the streaming turn
  activeStreamThreadIds,  \* the threads of that turn
  pendingStreamClaim,     \* claim of a streaming request still in flight
  supersededStream        \* the stream that claim pushed aside

ownershipVars == <<activeRequestSocket, activeStreamSocket,
                   activeStreamThreadIds, pendingStreamClaim,
                   supersededStream>>

MaybeSocket == Sockets \union {NoSocket}
MaybeIds    == (SUBSET Threads) \union {NoIds}
Claim       == [socket : MaybeSocket, completed : BOOLEAN,
                expected : SUBSET Threads]
Stream      == [socket : MaybeSocket, threadIds : MaybeIds]

NoClaim  == [socket |-> NoSocket, completed |-> FALSE, expected |-> {}]
NoStream == [socket |-> NoSocket, threadIds |-> NoIds]

OwnershipTypeOK ==
  /\ activeRequestSocket \in MaybeSocket
  /\ activeStreamSocket \in MaybeSocket
  /\ activeStreamThreadIds \in MaybeIds
  /\ pendingStreamClaim \in Claim
  /\ supersededStream \in Stream

OwnershipInit ==
  /\ activeRequestSocket = NoSocket
  /\ activeStreamSocket = NoSocket
  /\ activeStreamThreadIds = NoIds
  /\ pendingStreamClaim = NoClaim
  /\ supersededStream = NoStream

----------------------------------------------------------------------------
\* Queries.

\* Mutant: a parked stream of another socket no longer makes s wait.
IsBusyForIgnoringStream(s) ==
  \/ pendingStreamClaim.socket = s
  \/ activeRequestSocket \notin {NoSocket, s}

IsBusyFor(s) ==
  \/ pendingStreamClaim.socket = s
  \/ activeRequestSocket \notin {NoSocket, s}
  \/ activeStreamSocket \notin {NoSocket, s}

CanRunTurnControl(s) ==
  /\ activeStreamSocket \notin {NoSocket, s}
  /\ activeRequestSocket = NoSocket

NotificationTarget ==
  IF activeRequestSocket # NoSocket THEN activeRequestSocket
                                    ELSE activeStreamSocket

ServerRequestTarget ==
  IF activeStreamSocket # NoSocket THEN activeStreamSocket
                                   ELSE activeRequestSocket

----------------------------------------------------------------------------
\* Transitions.

\* Mutant: the request slot is left behind.
ClearRequestForgotten(s) == UNCHANGED activeRequestSocket

ClearRequest(s) ==
  activeRequestSocket' =
    IF activeRequestSocket = s THEN NoSocket ELSE activeRequestSocket

BeginRequest(s, streaming, expected) ==
  /\ activeRequestSocket' = s
  /\ IF streaming
     THEN /\ supersededStream' =
               IF activeStreamSocket = NoSocket THEN NoStream
               ELSE [socket |-> activeStreamSocket,
                     threadIds |-> activeStreamThreadIds]
          /\ activeStreamSocket' = s
          /\ activeStreamThreadIds' = NoIds
          /\ pendingStreamClaim' = [socket |-> s, completed |-> FALSE,
                                    expected |-> expected]
     ELSE UNCHANGED <<activeStreamSocket, activeStreamThreadIds,
                      pendingStreamClaim, supersededStream>>

\* Mutant: a completion that came before the response is forgotten.
CompletedEarlyForgotten(s) == FALSE

CompletedEarly(s) ==
  pendingStreamClaim.socket = s /\ pendingStreamClaim.completed

SettleRequest(s, streaming, ids) ==
  /\ ClearRequest(s)
  /\ IF streaming
     THEN /\ pendingStreamClaim' = NoClaim
          /\ supersededStream' = NoStream
          /\ activeStreamSocket' = IF CompletedEarly(s) THEN NoSocket ELSE s
          /\ activeStreamThreadIds' = IF CompletedEarly(s) THEN NoIds ELSE ids
     ELSE UNCHANGED <<activeStreamSocket, activeStreamThreadIds,
                      pendingStreamClaim, supersededStream>>

\* Mutant: the stream record itself is put in the socket slot.
RestoreSupersededWhole ==
  /\ activeStreamSocket' = supersededStream
  /\ activeStreamThreadIds' = supersededStream.threadIds
  /\ supersededStream' = NoStream

RestoreSuperseded ==
  /\ activeStreamSocket' = supersededStream.socket
  /\ activeStreamThreadIds' = supersededStream.threadIds
  /\ supersededStream' = NoStream

FailRequest(s) ==
  /\ ClearRequest(s)
  /\ \/ /\ pendingStreamClaim.socket = s
        /\ pendingStreamClaim' = NoClaim
        /\ RestoreSuperseded
     \/ /\ pendingStreamClaim.socket # s
        /\ activeStreamSocket = s
        /\ activeStreamSocket' = NoSocket
        /\ activeStreamThreadIds' = NoIds
        /\ UNCHANGED <<pendingStreamClaim, supersededStream>>
     \/ /\ pendingStreamClaim.socket # s
        /\ activeStreamSocket # s
        /\ UNCHANGED <<activeStreamSocket, activeStreamThreadIds,
                       pendingStreamClaim, supersededStream>>

\* Mutant: every completion is taken for the claim's own.
BelongsToNobody(thread) == FALSE

\* The completion is the late one of the stream the claim pushed aside.
BelongsToSuperseded(thread) ==
  /\ supersededStream.threadIds # NoIds
  /\ thread \in supersededStream.threadIds
  /\ thread \notin pendingStreamClaim.expected

\* A completion on a thread the parked stream does not know is not its own.
OtherThread(thread) ==
  activeStreamThreadIds # NoIds /\ thread \notin activeStreamThreadIds

HandleTurnCompleted(target, thread) ==
  \/ /\ \/ activeStreamSocket # target
        \/ pendingStreamClaim.socket # target /\ OtherThread(thread)
     /\ UNCHANGED ownershipVars
  \/ /\ activeStreamSocket = target
     /\ pendingStreamClaim.socket = target
     /\ IF BelongsToSuperseded(thread)
        THEN supersededStream' = NoStream /\ UNCHANGED pendingStreamClaim
        ELSE /\ pendingStreamClaim' =
                  [pendingStreamClaim EXCEPT !.completed = TRUE]
             /\ UNCHANGED supersededStream
     /\ UNCHANGED <<activeRequestSocket, activeStreamSocket,
                    activeStreamThreadIds>>
  \/ /\ activeStreamSocket = target
     /\ pendingStreamClaim.socket # target
     /\ ~OtherThread(thread)
     /\ activeStreamSocket' = NoSocket
     /\ activeStreamThreadIds' = NoIds
     /\ ClearRequest(target)
     /\ UNCHANGED <<pendingStreamClaim, supersededStream>>

ReleaseSocket(s) ==
  /\ ClearRequest(s)
  /\ activeStreamSocket' =
       IF activeStreamSocket = s THEN NoSocket ELSE activeStreamSocket
  /\ activeStreamThreadIds' =
       IF activeStreamSocket = s THEN NoIds ELSE activeStreamThreadIds
  /\ pendingStreamClaim' =
       IF pendingStreamClaim.socket = s THEN NoClaim ELSE pendingStreamClaim
  /\ supersededStream' =
       IF supersededStream.socket = s THEN NoStream ELSE supersededStream

============================================================================
