-------------------------- MODULE TurnCaptureProofs --------------------------
(***************************************************************************)
(* Proofs about TurnCapture for any set of subagents, any length of the     *)
(* buffer and any freedoms: the types, and how a turn is settled.           *)
(***************************************************************************)
EXTENDS TurnCapture, FiniteSetTheorems, TLAPS

\* Induction over 0..n, from the pigeonhole principle: were some i missing, the
\* steps from each number of S below it to the next would be too few.
LEMMA Induction ==
  ASSUME NEW n \in Nat, NEW S, 0 \in S,
         \A i \in 0..n : i \in S /\ i # n => i + 1 \in S
  PROVE  0..n \subseteq S
<1> SUFFICES ASSUME NEW k \in 0..n, k \notin S
             PROVE  FALSE
  OBVIOUS
<1> DEFINE A == (0..k) \cap S
           f == [i \in A |-> i + 1]
<1>1. IsFiniteSet(0..k)
  BY FS_Interval
<1>2. IsFiniteSet(A) /\ IsFiniteSet(A \ {0})
  BY <1>1, FS_Subset
<1>3. 0 \in A
  OBVIOUS
<1>4. f \in [A -> A \ {0}]
  <2> SUFFICES ASSUME NEW i \in A
               PROVE  i + 1 \in A \ {0}
    OBVIOUS
  <2>1. i \in 0..n /\ i # k /\ i # n /\ i \in S
    OBVIOUS
  <2>2. i + 1 \in S
    BY <2>1
  <2> QED
    BY <2>1, <2>2
<1>5. Cardinality(A \ {0}) < Cardinality(A)
  <2>1. Cardinality(A) \in Nat
    BY <1>2, FS_CardinalityType
  <2>2. Cardinality(A \ {0}) = Cardinality(A) - 1
    BY <1>2, <1>3, FS_RemoveElement
  <2> HIDE DEF A
  <2> QED
    BY <2>1, <2>2
<1>6. \A x, y \in A : x # y => f[x] # f[y]
  OBVIOUS
<1> HIDE DEF A, f
<1>7. \E x, y \in A : x # y /\ f[x] = f[y]
  BY <1>2, <1>4, <1>5, FS_PigeonHole
<1> QED
  BY <1>6, <1>7

----------------------------------------------------------------------------
\* The replay of the buffer, message by message.

\* f gives the state after each of the first n messages of c's buffer.
Replays(f, c, n) ==
  f = [i \in 0..n |-> IF i = 0 THEN c
                      ELSE ApplyIfBelongs(f[i - 1], c.buffer[i])]

LEMMA ReplaysExist ==
  ASSUME NEW c, NEW n \in Nat
  PROVE  \E f : Replays(f, c, n)
<1> DEFINE S == {i \in 0..n : \E f : Replays(f, c, i)}
<1>1. 0 \in S
  <2>1. Replays([i \in 0..0 |-> c], c, 0)
    BY DEF Replays
  <2> QED
    BY <2>1
<1>2. ASSUME NEW i \in 0..n, i \in S, i # n
      PROVE  i + 1 \in S
  <2>1. PICK f : Replays(f, c, i)
    BY <1>2
  <2> DEFINE next == ApplyIfBelongs(f[i], c.buffer[i + 1])
             g == [k \in 0..(i + 1) |-> IF k = i + 1 THEN next ELSE f[k]]
  <2>2. \A k \in 0..i : f[k] = IF k = 0 THEN c
                               ELSE ApplyIfBelongs(f[k - 1], c.buffer[k])
    BY <2>1 DEF Replays
  <2>3. \A k \in 0..(i + 1) :
          g[k] = IF k = 0 THEN c ELSE ApplyIfBelongs(g[k - 1], c.buffer[k])
    <3> SUFFICES ASSUME NEW k \in 0..(i + 1)
                 PROVE  g[k] = IF k = 0 THEN c
                               ELSE ApplyIfBelongs(g[k - 1], c.buffer[k])
      OBVIOUS
    <3>1. CASE k = i + 1
      <4>1. g[k] = next /\ k # 0 /\ k - 1 = i /\ g[k - 1] = f[i]
        BY <3>1
      <4> QED
        BY <3>1, <4>1
    <3>2. CASE k # i + 1
      <4>1. k \in 0..i
        BY <3>2
      <4>2. g[k] = f[k]
        BY <3>2
      <4>3. k # 0 => g[k - 1] = f[k - 1]
        BY <3>2
      <4> HIDE DEF g
      <4> QED
        BY <2>2, <4>1, <4>2, <4>3
    <3> QED
      BY <3>1, <3>2
  <2>4. Replays(g, c, i + 1)
    <3>1. g = [k \in 0..(i + 1) |-> g[k]]
      OBVIOUS
    <3> HIDE DEF g
    <3> QED
      BY <2>3, <3>1 DEF Replays
  <2>5. i + 1 \in 0..n
    BY <1>2
  <2> QED
    BY <2>4, <2>5
<1> HIDE DEF S
<1>3. 0..n \subseteq S
  BY <1>1, <1>2, Induction
<1>4. n \in S
  BY <1>3
<1> QED
  BY <1>4 DEF S

\* The replay starts from the state it is given and handles one message more
\* at each step.
LEMMA ReplaySteps ==
  ASSUME NEW c, Len(c.buffer) \in Nat
  PROVE  /\ Replayed(c)[0] = c
         /\ \A i \in 1..Len(c.buffer) :
              Replayed(c)[i] =
                ApplyIfBelongs(Replayed(c)[i - 1], c.buffer[i])
<1>1. PICK f : Replays(f, c, Len(c.buffer))
  BY ReplaysExist
<1>2. Replays(Replayed(c), c, Len(c.buffer))
  BY <1>1 DEF Replayed, Replays
<1> DEFINE r == Replayed(c)
<1>3. \A i \in 0..Len(c.buffer) :
        r[i] = IF i = 0 THEN c ELSE ApplyIfBelongs(r[i - 1], c.buffer[i])
  <2> HIDE DEF r
  <2>1. Replays(r, c, Len(c.buffer))
    BY <1>2 DEF r
  <2> QED
    BY <2>1 DEF Replays
<1> HIDE DEF r
<1>4. r[0] = c
  BY <1>3
<1>5. \A i \in 1..Len(c.buffer) :
        r[i] = ApplyIfBelongs(r[i - 1], c.buffer[i])
  BY <1>3
<1> QED
  BY <1>4, <1>5 DEF r

----------------------------------------------------------------------------
\* The messages.

LEMMA Kinds ==
  ASSUME NEW m \in Notifications
  PROVE  /\ m.kind \in {"thread/started", "turn/started", "answer", "error",
                        "turn/completed", "collab/started",
                        "collab/unnamed", "collab/completed"}
         /\ m.thread \in Threads /\ m.sub \in Threads
         /\ m.turn \in {"own", "stale"}
         /\ m.turn = "stale" => m.kind = "turn/completed" /\ m.thread = Root
         /\ m.kind = "error" /\ m.thread = Root => m = Own("error")
         /\ m.kind = "turn/completed" /\ m.thread = Root /\ m.turn = "own"
              => m = Own("turn/completed")
         /\ m.kind = "answer" /\ m.thread = Root => m = Own("answer")
         /\ m.kind \in {"collab/started", "collab/unnamed", "collab/completed"}
              => m.thread = Root /\ m.sub \in Subs
         /\ m.kind \in {"turn/started", "error", "turn/completed"}
              /\ m.thread # Root
              => m.thread \in Subs /\ m = OfSub(m.kind, m.thread)
<1> USE ThreadsAssumption DEF Own, Stale, OfSub, AboutSub, Msg, Threads
<1>1. CASE m \in {Own("turn/started"), Own("answer"), Stale("turn/completed")}
                 \union OwnEnds
  BY <1>1 DEF OwnEnds
<1>2. ASSUME NEW s \in Subs,
             m \in {OfSub(k, s) : k \in {"turn/started", "answer", "error",
                                         "turn/completed"}}
      PROVE  /\ m.kind \in {"turn/started", "answer", "error", "turn/completed"}
             /\ m.thread = s /\ m.sub = s /\ m.turn = "own"
             /\ m = OfSub(m.kind, s)
  BY <1>2
<1>3. ASSUME NEW s \in Subs,
             m \in {AboutSub(k, s) : k \in {"thread/started",
                       "collab/started", "collab/unnamed", "collab/completed"}}
      PROVE  /\ m.kind \in {"thread/started", "collab/started",
                            "collab/unnamed", "collab/completed"}
             /\ m.thread = Root /\ m.sub = s /\ m.turn = "own"
  BY <1>3
<1>4. \/ m \in {Own("turn/started"), Own("answer"), Stale("turn/completed")}
               \union OwnEnds
      \/ \E s \in Subs : m \in {OfSub(k, s) : k \in {"turn/started", "answer",
                                            "error", "turn/completed"}}
      \/ \E s \in Subs : m \in {AboutSub(k, s) : k \in {"thread/started",
                       "collab/started", "collab/unnamed", "collab/completed"}}
  BY DEF Notifications
<1> QED
  BY <1>1, <1>2, <1>3, <1>4

LEMMA MsgFields ==
  \A k, s : /\ AboutSub(k, s).kind = k /\ AboutSub(k, s).sub = s
            /\ AboutSub(k, s).thread = Root /\ AboutSub(k, s).turn = "own"
BY DEF AboutSub, Msg

----------------------------------------------------------------------------
\* What the operators of the capture do.

\* Of two states, what only the timers and the outcome may tell apart.
SameTurn(c, d) ==
  /\ d.known = c.known /\ d.registered = c.registered
  /\ d.tracked = c.tracked /\ d.buffer = c.buffer /\ d.dropped = c.dropped
  /\ d.answered = c.answered /\ d.collaborations = c.collaborations
  /\ d.active = c.active /\ d.watched = c.watched

LEMMA TimerSteps ==
  ASSUME NEW c \in States
  PROVE  \A d \in {ArmWatchdog(c), ArmFinalizing(c), ScheduleInferred(c),
                   Cleaned(c)} :
           d \in States /\ SameTurn(c, d) /\ d.outcome = c.outcome
BY DEF States, SameTurn, ArmWatchdog, ArmFinalizing, ScheduleInferred, Cleaned,
       Timers

LEMMA EndSteps ==
  ASSUME NEW c \in States, NEW o \in Outcomes \ {"none"}
  PROVE  \A d \in {CompleteTurn(c, o), FailTurn(c, o)} :
           /\ d \in States /\ SameTurn(c, d)
           /\ d.outcome = IF Settled(c) THEN c.outcome ELSE o
<1>1. CASE Settled(c)
  BY <1>1 DEF SameTurn, CompleteTurn, FailTurn
<1>2. CASE ~Settled(c)
  <2> DEFINE e == [c EXCEPT !.outcome = o]
  <2>1. /\ CompleteTurn(c, o) = [e EXCEPT !.timers = {}]
        /\ FailTurn(c, o) =
             [e EXCEPT !.timers = @ \ {"inferred", "finalizing"}]
    BY <1>2 DEF CompleteTurn, FailTurn
  <2>2. e \in States /\ SameTurn(c, e) /\ e.outcome = o
    BY DEF States, SameTurn
  <2> HIDE DEF e
  <2> QED
    BY <1>2, <2>1, <2>2 DEF States, SameTurn
<1> QED
  BY <1>1, <1>2

\* What a notification may change of a capture.
Advances(c, d, m) ==
  /\ d \in States
  /\ d.known = c.known /\ d.buffer = c.buffer /\ d.dropped = c.dropped
  /\ d.watched = c.watched
  /\ c.registered \subseteq d.registered
  /\ \A t \in Threads : d.tracked[t] \in {c.tracked[t], m.turn}
  /\ m.kind = "turn/completed" => d.tracked = c.tracked
  /\ d.answered => c.answered \/ m = Own("answer")
  /\ \A s \in c.active \ d.active : m = OfSub("turn/completed", s)
  /\ \/ d.outcome = c.outcome
     \/ /\ ~Settled(c)
        /\ \/ d.outcome = "error" /\ m.kind = "error"
           \/ /\ d.outcome = "completed" /\ m.kind = "turn/completed"
              /\ m.thread = Root

LEMMA RecordItemAdvances ==
  ASSUME NEW c \in States, NEW m \in Notifications,
         m.kind \in {"collab/started", "collab/unnamed", "collab/completed",
                     "answer"}
  PROVE  /\ Advances(c, RecordItem(c, m), m)
         /\ m.kind = "collab/started" => m.sub \in RecordItem(c, m).registered
<1>1. CASE m.kind = "collab/started"
  <2> DEFINE e == [c EXCEPT !.collaborations = @ \union {m.sub}]
  <2>1. e \in States
    BY <1>1, Kinds DEF States
  <2>2. RecordItem(c, m) = [e EXCEPT !.registered = @ \union {m.sub}]
    BY <1>1 DEF RecordItem, RegisterThread
  <2>3. /\ e.known = c.known /\ e.registered = c.registered
        /\ e.tracked = c.tracked /\ e.buffer = c.buffer
        /\ e.dropped = c.dropped /\ e.answered = c.answered
        /\ e.active = c.active /\ e.watched = c.watched
        /\ e.outcome = c.outcome
    BY DEF States
  <2> HIDE DEF e
  <2> QED
    BY <1>1, <2>1, <2>2, <2>3, Kinds DEF Advances, States
<1>2. CASE m.kind = "collab/completed"
  <2> DEFINE e == [c EXCEPT !.collaborations = @ \ {m.sub}]
             f == ScheduleInferred(e)
  <2>1. e \in States
    BY DEF States
  <2>2. RecordItem(c, m) = RegisterThread(f, m.sub)
    BY <1>2 DEF RecordItem
  <2>3. f \in States /\ SameTurn(e, f) /\ f.outcome = e.outcome
    BY <2>1, TimerSteps
  <2>4. RegisterThread(f, m.sub) = [f EXCEPT !.registered = @ \union {m.sub}]
    BY DEF RegisterThread
  <2>5. /\ e.known = c.known /\ e.registered = c.registered
        /\ e.tracked = c.tracked /\ e.buffer = c.buffer
        /\ e.dropped = c.dropped /\ e.answered = c.answered
        /\ e.active = c.active /\ e.watched = c.watched
        /\ e.outcome = c.outcome
    BY DEF States
  <2> HIDE DEF e, f
  <2> QED
    BY <1>2, <2>2, <2>3, <2>4, <2>5, Kinds DEF Advances, States, SameTurn
<1>3. CASE m.kind = "answer" /\ m.thread = Root
  <2> DEFINE e == [c EXCEPT !.answered = TRUE]
             f == ScheduleInferred(e)
             g == ArmFinalizing(f)
  <2>1. e \in States
    BY DEF States
  <2>2. RecordItem(c, m) = g
    BY <1>3 DEF RecordItem
  <2>3. f \in States /\ SameTurn(e, f) /\ f.outcome = e.outcome
    BY <2>1, TimerSteps
  <2>5. /\ e.known = c.known /\ e.registered = c.registered
        /\ e.tracked = c.tracked /\ e.buffer = c.buffer
        /\ e.dropped = c.dropped
        /\ e.active = c.active /\ e.watched = c.watched
        /\ e.outcome = c.outcome
    BY DEF States
  <2> HIDE DEF e, f
  <2>4. g \in States /\ SameTurn(f, g) /\ g.outcome = f.outcome
    BY <2>3, TimerSteps
  <2> HIDE DEF g
  <2> QED
    BY <1>3, <2>2, <2>3, <2>4, <2>5, Kinds DEF Advances, SameTurn
<1>4. CASE m.kind = "answer" /\ m.thread # Root
  <2>1. RecordItem(c, m) = ArmFinalizing(c)
    BY <1>4 DEF RecordItem
  <2> QED
    BY <1>4, <2>1, TimerSteps DEF Advances, SameTurn
<1>5. CASE m.kind = "collab/unnamed"
  <2>1. RecordItem(c, m) = [c EXCEPT !.collaborations = @ \union {m.sub}]
    BY <1>5 DEF RecordItem
  <2> QED
    BY <1>5, <2>1, Kinds DEF Advances, States
<1> QED
  BY <1>1, <1>2, <1>3, <1>4, <1>5


\* The arms of applyTurnNotification.
LEMMA ApplyArms ==
  ASSUME NEW c, NEW m \in Notifications
  PROVE  /\ m.kind = "thread/started"
              => ApplyTurnNotification(c, m) = RegisterThread(c, m.sub)
         /\ m.kind = "turn/started"
              => ApplyTurnNotification(c, m) = TurnStarted(c, m)
         /\ m.kind = "error"
              => ApplyTurnNotification(c, m) = FailTurn(c, "error")
         /\ m.kind = "turn/completed"
              => ApplyTurnNotification(c, m) = TurnCompleted(c, m)
         /\ m.kind \in {"collab/started", "collab/unnamed", "collab/completed",
                        "answer"}
              => ApplyTurnNotification(c, m) = RecordItem(c, m)
<1>1. CASE m.kind = "thread/started"
  BY <1>1 DEF ApplyTurnNotification
<1>2. CASE m.kind = "turn/started"
  BY <1>2 DEF ApplyTurnNotification
<1>3. CASE m.kind = "error"
  BY <1>3 DEF ApplyTurnNotification
<1>4. CASE m.kind = "turn/completed"
  BY <1>4 DEF ApplyTurnNotification
<1>5. CASE m.kind \in {"collab/started", "collab/unnamed", "collab/completed",
                       "answer"}
  BY <1>5 DEF ApplyTurnNotification
<1> QED
  BY <1>1, <1>2, <1>3, <1>4, <1>5, Kinds

\* A notification that is applied advances the capture; an end of the turn
\* settles it, a call registers its subagent and a turn of one is noted.
LEMMA ApplyAdvances ==
  ASSUME NEW c \in States, NEW m \in Notifications, NEW d,
         d = ApplyTurnNotification(c, m)
  PROVE  /\ Advances(c, d, m)
         /\ m \in OwnEnds => Settled(d)
         /\ m.kind = "collab/started" => m.sub \in d.registered
         /\ m.kind = "turn/started" /\ m.thread # Root
              => m.thread \in d.active
<1>1. CASE m.kind = "thread/started"
  <2>1. d = [c EXCEPT !.registered = @ \union {m.sub}]
    BY <1>1, ApplyArms DEF RegisterThread
  <2>2. m \notin OwnEnds
    BY <1>1 DEF OwnEnds, Own, Msg
  <2> QED
    BY <1>1, <2>1, <2>2, Kinds DEF Advances, States
<1>2. CASE m.kind = "turn/started"
  <2> DEFINE e == [c EXCEPT !.registered = @ \union {m.thread}]
             f == [e EXCEPT !.tracked[m.thread] = m.turn]
  <2>0. d = TurnStarted(c, m)
    BY <1>2, ApplyArms
  <2>1. d = [f EXCEPT !.active = IF m.thread = Root THEN c.active
                                 ELSE c.active \union {m.thread}]
    BY <2>0, Zenon DEF TurnStarted
  <2>2. /\ e \in States
        /\ e.registered = c.registered \union {m.thread}
        /\ e.known = c.known /\ e.tracked = c.tracked
        /\ e.buffer = c.buffer /\ e.dropped = c.dropped
        /\ e.answered = c.answered /\ e.active = c.active
        /\ e.watched = c.watched /\ e.outcome = c.outcome
    BY Kinds DEF States
  <2> HIDE DEF e
  <2>3. m.turn = "own" /\ m.thread \in Threads
    BY <1>2, Kinds
  <2>4. /\ f \in States
        /\ f.tracked = [c.tracked EXCEPT ![m.thread] = m.turn]
        /\ f.registered = e.registered
        /\ f.known = c.known
        /\ f.buffer = c.buffer /\ f.dropped = c.dropped
        /\ f.answered = c.answered /\ f.active = c.active
        /\ f.watched = c.watched /\ f.outcome = c.outcome
    BY <2>2, <2>3 DEF States
  <2> HIDE DEF f
  <2>5. c.tracked \in [Threads -> {"none", "own", "stale"}]
    BY DEF States
  <2>6. \A t \in Threads : f.tracked[t] \in {c.tracked[t], m.turn}
    BY <2>4, <2>5
  <2>7. m \notin OwnEnds
    BY <1>2 DEF OwnEnds, Own, Msg
  <2>8. m.thread # Root => m.thread \in Subs
    BY <1>2, Kinds
  <2>9. /\ d \in States
        /\ d.active = IF m.thread = Root THEN c.active
                      ELSE c.active \union {m.thread}
        /\ d.tracked = f.tracked
        /\ d.registered = f.registered
        /\ d.known = f.known
        /\ d.buffer = f.buffer /\ d.dropped = f.dropped
        /\ d.answered = f.answered
        /\ d.watched = f.watched /\ d.outcome = f.outcome
    BY <2>1, <2>4, <2>8 DEF States
  <2> QED
    BY <1>2, <2>2, <2>4, <2>6, <2>7, <2>9 DEF Advances
<1>3. CASE m.kind = "error"
  <2>1. d = FailTurn(c, "error")
    BY <1>3, ApplyArms
  <2>2. d \in States /\ SameTurn(c, d)
        /\ d.outcome = IF Settled(c) THEN c.outcome ELSE "error"
    BY <2>1, EndSteps DEF Outcomes
  <2>3. Settled(d)
    BY <2>2 DEF Settled
  <2> QED
    BY <1>3, <2>2, <2>3, Kinds DEF Advances, SameTurn
<1>4. CASE m.kind = "turn/completed" /\ m.thread = Root
  <2>1. d = CompleteTurn(c, "completed")
    BY <1>4, ApplyArms DEF TurnCompleted
  <2>2. d \in States /\ SameTurn(c, d)
        /\ d.outcome = IF Settled(c) THEN c.outcome ELSE "completed"
    BY <2>1, EndSteps DEF Outcomes
  <2>3. Settled(d)
    BY <2>2 DEF Settled
  <2> QED
    BY <1>4, <2>2, <2>3, Kinds DEF Advances, SameTurn
<1>5. CASE m.kind = "turn/completed" /\ m.thread # Root
  <2> DEFINE e == [c EXCEPT !.active = @ \ {m.thread}]
  <2>1. d = ScheduleInferred(e)
    BY <1>5, ApplyArms DEF TurnCompleted
  <2>2. /\ e \in States
        /\ e.active = c.active \ {m.thread} /\ e.known = c.known
        /\ e.registered = c.registered /\ e.tracked = c.tracked
        /\ e.buffer = c.buffer /\ e.dropped = c.dropped
        /\ e.answered = c.answered
        /\ e.watched = c.watched /\ e.outcome = c.outcome
    BY DEF States
  <2> HIDE DEF e
  <2>3. d \in States /\ SameTurn(e, d) /\ d.outcome = e.outcome
    BY <2>1, <2>2, TimerSteps
  <2>4. m \notin OwnEnds
    BY <1>5 DEF OwnEnds, Own, Msg
  <2>5. m = OfSub("turn/completed", m.thread)
    BY <1>5, Kinds
  <2> QED
    BY <1>5, <2>2, <2>3, <2>4, <2>5 DEF Advances, SameTurn
<1>6. CASE m.kind \in {"collab/started", "collab/unnamed", "collab/completed",
                       "answer"}
  <2>1. d = RecordItem(c, m)
    BY <1>6, ApplyArms
  <2>2. m \notin OwnEnds
    BY <1>6 DEF OwnEnds, Own, Msg
  <2> QED
    BY <1>6, <2>1, <2>2, RecordItemAdvances
<1> QED
  BY <1>1, <1>2, <1>3, <1>4, <1>5, <1>6, Kinds

\* A capture that knows its turn is settled by an end of that turn, or by the
\* error of a subagent that is registered.
OfKnownSub(c, m) ==
  \E s \in Subs \intersect c.registered : m = OfSub("error", s)

LEMMA IfBelongsAdvances ==
  ASSUME NEW c \in States, NEW m \in Notifications, NEW d,
         d \in {ApplyIfBelongs(c, m), ApplyTurnNotification(c, m)},
         BelongsToTurn(c, m) \/ m.kind = "thread/started"
           \/ d = ApplyIfBelongs(c, m)
  PROVE  /\ Advances(c, d, m) \/ d = c
         /\ d.outcome # c.outcome /\ c.tracked[Root] = "own"
              => m \in OwnEnds \/ OfKnownSub(c, m)
         /\ BelongsToTurn(c, m) =>
              /\ m \in OwnEnds => Settled(d)
              /\ m.kind = "collab/started" => m.sub \in d.registered
              /\ m.kind = "turn/started" /\ m.thread # Root
                   => m.thread \in d.active
<1>1. CASE d = ApplyTurnNotification(c, m)
           /\ (BelongsToTurn(c, m) \/ m.kind = "thread/started")
  <2>1. d.outcome # c.outcome /\ c.tracked[Root] = "own"
          => m \in OwnEnds \/ OfKnownSub(c, m)
    <3> SUFFICES ASSUME d.outcome # c.outcome, c.tracked[Root] = "own"
                 PROVE  m \in OwnEnds \/ OfKnownSub(c, m)
      OBVIOUS
    <3>1. /\ m.kind \in {"error", "turn/completed"}
          /\ m.kind = "turn/completed" => m.thread = Root
      BY <1>1, ApplyAdvances DEF Advances
    <3>2. BelongsToTurn(c, m)
      BY <1>1, <3>1
    <3>3. CASE m.thread = Root
      <4>1. m.turn = "own"
        BY <3>2, <3>3, Kinds DEF BelongsToTurn
      <4> QED
        BY <3>1, <3>3, <4>1, Kinds DEF OwnEnds
    <3>4. CASE m.thread # Root
      <4>1. m = OfSub("error", m.thread) /\ m.thread \in Subs
        BY <3>1, <3>4, Kinds
      <4>2. m.thread \in c.registered
        BY <3>2 DEF BelongsToTurn
      <4> QED
        BY <4>1, <4>2 DEF OfKnownSub
    <3> QED
      BY <3>3, <3>4
  <2> QED
    BY <1>1, <2>1, ApplyAdvances
<1>2. CASE d = c /\ ~BelongsToTurn(c, m)
  BY <1>2
<1> QED
  BY <1>1, <1>2 DEF ApplyIfBelongs

----------------------------------------------------------------------------
\* What a capture owes to the messages it has handled.

\* A subagent that c knows of has failed.
SubFailed(c, H) == \E s \in Subs \intersect c.registered : OfSub("error", s) \in H

\* c has handled the messages M of those heard, H, knowing its turn.
Handled(c, M, H) ==
  /\ c \in States /\ c.known
  /\ Root \in c.registered /\ c.tracked[Root] = "own"
  /\ \A s \in Subs : c.tracked[s] # "stale"
  /\ c.outcome = "completed" => Own("turn/completed") \in H
  /\ c.outcome = "error"
       => Own("error") \in H \/ SubFailed(c, H)
  /\ c.answered => Own("answer") \in H
  /\ M \intersect OwnEnds # {} => Settled(c)
  /\ \A s \in Subs : AboutSub("collab/started", s) \in M => s \in c.registered
  /\ \A s \in Subs :
       {AboutSub("collab/started", s), OfSub("turn/started", s)} \subseteq M
         => s \in c.active \/ OfSub("turn/completed", s) \in H

\* One more message, which for a call that names its subagent comes before the
\* turn that it starts.
LEMMA HandleOne ==
  ASSUME NEW c, NEW M, NEW H, Handled(c, M, H), NEW K, H \subseteq K,
         NEW m \in Notifications, m \in K,
         NEW N, N \subseteq M \union {m},
         \A s \in Subs : m = AboutSub("collab/started", s) /\ m \in N
                           => OfSub("turn/started", s) \notin M,
         NEW d, \/ d = ApplyIfBelongs(c, m)
                \/ /\ m.kind = "thread/started"
                   /\ d = ApplyTurnNotification(c, m)
  PROVE  Handled(d, N, K)
<1>1. /\ c \in States /\ c.known
      /\ Root \in c.registered /\ c.tracked[Root] = "own"
      /\ \A s \in Subs : c.tracked[s] # "stale"
  BY DEF Handled
<1>2. /\ Advances(c, d, m) \/ d = c
      /\ d.outcome # c.outcome => m \in OwnEnds \/ OfKnownSub(c, m)
      /\ BelongsToTurn(c, m) =>
           /\ m \in OwnEnds => Settled(d)
           /\ m.kind = "collab/started" => m.sub \in d.registered
           /\ m.kind = "turn/started" /\ m.thread # Root
                => m.thread \in d.active
  BY <1>1, IfBelongsAdvances
<1>3. /\ d \in States /\ d.known = c.known
      /\ c.registered \subseteq d.registered
      /\ \A t \in Threads : d.tracked[t] = c.tracked[t] \/ d.tracked[t] = m.turn
      /\ m.kind = "turn/completed" => d.tracked = c.tracked
      /\ d.answered => c.answered \/ m = Own("answer")
      /\ \A s \in c.active \ d.active : m = OfSub("turn/completed", s)
      /\ \/ d.outcome = c.outcome
         \/ ~Settled(c) /\ d.outcome = "error" /\ m.kind = "error"
         \/ ~Settled(c) /\ d.outcome = "completed" /\ m.kind = "turn/completed"
  BY <1>1, <1>2 DEF Advances
<1>4. d.tracked[Root] = "own" /\ \A s \in Subs : d.tracked[s] # "stale"
  BY <1>1, <1>3, Kinds DEF Threads
<1>5. /\ d.outcome = "completed" => Own("turn/completed") \in K
      /\ d.outcome = "error"
           => Own("error") \in K \/ SubFailed(d, K)
  <2>1. m \in OwnEnds /\ m.kind = "error" => m = Own("error")
    BY DEF OwnEnds, Own, Msg
  <2>2. m \in OwnEnds /\ m.kind = "turn/completed" => m = Own("turn/completed")
    BY DEF OwnEnds, Own, Msg
  <2>3. CASE d.outcome = c.outcome
    BY <1>3, <2>3 DEF Handled, SubFailed
  <2>4. CASE m \in OwnEnds /\ d.outcome # c.outcome
    BY <1>3, <2>1, <2>2, <2>4
  <2>5. CASE OfKnownSub(c, m) /\ d.outcome # c.outcome
    <3>1. PICK s \in Subs \intersect c.registered : m = OfSub("error", s)
      BY <2>5 DEF OfKnownSub
    <3>2. m.kind = "error" /\ s \in d.registered
      BY <1>3, <3>1 DEF OfSub, Msg
    <3> QED
      BY <1>3, <2>5, <3>1, <3>2 DEF SubFailed
  <2> QED
    BY <1>2, <2>3, <2>4, <2>5
<1>6. d.answered => Own("answer") \in K
  BY <1>3 DEF Handled
<1>7. N \intersect OwnEnds # {} => Settled(d)
  <2>1. Settled(c) => Settled(d)
    BY <1>3 DEF Settled
  <2>2. m \in OwnEnds => BelongsToTurn(c, m)
    BY <1>1 DEF OwnEnds, Own, Msg, BelongsToTurn
  <2> QED
    BY <1>2, <2>1, <2>2 DEF Handled
<1>8. ASSUME NEW s \in Subs, AboutSub("collab/started", s) \in N
      PROVE  s \in d.registered
  <2>1. CASE AboutSub("collab/started", s) = m
    <3>1. m.kind = "collab/started" /\ m.sub = s /\ m.thread = Root
          /\ m.turn = "own"
      BY <2>1, MsgFields
    <3>2. BelongsToTurn(c, m)
      BY <1>1, <3>1 DEF BelongsToTurn
    <3> QED
      BY <1>2, <3>1, <3>2
  <2>2. CASE AboutSub("collab/started", s) \in M
    BY <1>3, <2>2 DEF Handled
  <2> QED
    BY <1>8, <2>1, <2>2
<1>9. ASSUME NEW s \in Subs, AboutSub("collab/started", s) \in N,
             OfSub("turn/started", s) \in N, OfSub("turn/completed", s) \notin K
      PROVE  s \in d.active
  <2>0. AboutSub("collab/started", s) # OfSub("turn/started", s)
    BY DEF AboutSub, OfSub, Msg
  <2>1. CASE OfSub("turn/started", s) = m
    <3>1. m.kind = "turn/started" /\ m.thread = s /\ m.turn = "own"
      BY <2>1 DEF OfSub, Msg
    <3>2. s \in c.registered
      BY <1>9, <2>0, <2>1 DEF Handled
    <3>3. c.tracked[s] \in {"none", "own", "stale"}
      BY <1>1 DEF States, Threads
    <3>4. BelongsToTurn(c, m)
      BY <1>1, <3>1, <3>2, <3>3 DEF BelongsToTurn
    <3> QED
      BY <1>2, <3>1, <3>4, ThreadsAssumption
  <2>2. CASE OfSub("turn/started", s) \in M
    <3>1. AboutSub("collab/started", s) \in M
      BY <1>9, <2>2
    <3>2. s \in c.active
      BY <1>9, <2>2, <3>1 DEF Handled
    <3> QED
      BY <1>3, <1>9, <3>2
  <2> QED
    BY <1>9, <2>1, <2>2
<1> QED
  <2>1. /\ d \in States /\ d.known /\ Root \in d.registered
        /\ d.tracked[Root] = "own"
    BY <1>1, <1>3, <1>4
  <2>2. \A s \in Subs : AboutSub("collab/started", s) \in N => s \in d.registered
    BY <1>8
  <2>3. \A s \in Subs :
          {AboutSub("collab/started", s), OfSub("turn/started", s)} \subseteq N
            => s \in d.active \/ OfSub("turn/completed", s) \in K
    BY <1>9
  <2> QED
    BY <1>4, <1>5, <1>6, <1>7, <2>1, <2>2, <2>3, Zenon DEF Handled

----------------------------------------------------------------------------
\* The invariant.

\* What is kept of the messages heard, while the turn id is not known; unless
\* the buffer has overflown, all of them, each call that names its subagent
\* before the turn it starts.
Early ==
  /\ ~cap.known /\ cap.outcome = "none" /\ ~cap.answered
  /\ Root \in cap.registered
  /\ \A t \in Threads : cap.tracked[t] = "none"
  /\ cap.timers \subseteq {"watchdog"}
  /\ \A i \in 1..Len(cap.buffer) : cap.buffer[i] \in heard
  /\ ~cap.dropped =>
       /\ \A m \in heard : \E i \in 1..Len(cap.buffer) : cap.buffer[i] = m
       /\ \A i \in 1..Len(cap.buffer), s \in Subs :
            cap.buffer[i] = AboutSub("collab/started", s) =>
              \A k \in 1..(i - 1) :
                cap.buffer[k] # OfSub("turn/started", s)

CaptureInv ==
  /\ \A s \in Subs : OfSub("turn/started", s) \in heard => Called(s)
  /\ pc = "starting" => Early
  /\ pc = "waiting"
       => Handled(cap, IF cap.dropped THEN {} ELSE heard, heard)
  /\ request = "final" => Own("turn/completed") \in heard
  /\ EndIsOwn

LEMMA BufferSteps ==
  ASSUME NEW c \in States, Len(c.buffer) <= MaxBuffered, NEW m \in Notifications,
         NEW d, d = Buffer(c, m)
  PROVE  /\ d \in States /\ Len(d.buffer) <= MaxBuffered
         /\ d.known = c.known /\ d.registered = c.registered
         /\ d.tracked = c.tracked /\ d.answered = c.answered
         /\ d.outcome = c.outcome /\ d.timers = c.timers
         /\ c.dropped => d.dropped
         /\ \A i \in 1..Len(d.buffer) :
              d.buffer[i] = m
              \/ \E k \in 1..Len(c.buffer) : d.buffer[i] = c.buffer[k]
         /\ ~d.dropped =>
              /\ Len(d.buffer) = Len(c.buffer) + 1
              /\ d.buffer[Len(c.buffer) + 1] = m
              /\ \A i \in 1..Len(c.buffer) : d.buffer[i] = c.buffer[i]
<1>1. /\ c.buffer \in Seq(Notifications) /\ MaxBuffered \in Nat \ {0}
      /\ Len(c.buffer) \in Nat
  BY BoundsAssumption DEF States
<1>2. CASE Len(c.buffer) >= MaxBuffered
  <2> DEFINE e == [c EXCEPT !.buffer = Append(Tail(@), m)]
             b == Append(Tail(c.buffer), m)
  <2>1. d = [e EXCEPT !.dropped = TRUE]
    BY <1>2 DEF Buffer
  <2>2. c.buffer # <<>>
    BY <1>1, <1>2
  <2>3. /\ Tail(c.buffer) \in Seq(Notifications)
        /\ Len(Tail(c.buffer)) = Len(c.buffer) - 1
        /\ \A i \in 1..(Len(c.buffer) - 1) : Tail(c.buffer)[i] = c.buffer[i + 1]
    BY <1>1, <2>2
  <2>4. /\ b \in Seq(Notifications) /\ Len(b) = Len(c.buffer)
        /\ b[Len(c.buffer)] = m
        /\ \A i \in 1..(Len(c.buffer) - 1) : b[i] = c.buffer[i + 1]
    BY <1>1, <2>3
  <2>5. \A i \in 1..Len(b) :
          b[i] = m \/ \E k \in 1..Len(c.buffer) : b[i] = c.buffer[k]
    <3> SUFFICES ASSUME NEW i \in 1..Len(b)
                 PROVE  b[i] = m \/ \E k \in 1..Len(c.buffer) : b[i] = c.buffer[k]
      OBVIOUS
    <3> HIDE DEF b
    <3>1. CASE i = Len(c.buffer)
      BY <2>4, <3>1
    <3>2. CASE i # Len(c.buffer)
      <4>1. i \in 1..(Len(c.buffer) - 1) /\ i + 1 \in 1..Len(c.buffer)
        BY <1>1, <2>4, <3>2
      <4> QED
        BY <2>4, <4>1
    <3> QED
      BY <3>1, <3>2
  <2>6. e.buffer = b
    BY DEF States
  <2> HIDE DEF b
  <2>7. /\ e \in States
        /\ e.known = c.known /\ e.registered = c.registered
        /\ e.tracked = c.tracked /\ e.answered = c.answered
        /\ e.outcome = c.outcome /\ e.timers = c.timers
    BY <2>4, <2>6 DEF States
  <2> HIDE DEF e
  <2>8. /\ d \in States /\ d.dropped /\ d.buffer = e.buffer
        /\ d.known = e.known /\ d.registered = e.registered
        /\ d.tracked = e.tracked /\ d.answered = e.answered
        /\ d.outcome = e.outcome /\ d.timers = e.timers
    BY <2>1, <2>7 DEF States
  <2> QED
    BY <2>4, <2>5, <2>6, <2>7, <2>8
<1>3. CASE ~(Len(c.buffer) >= MaxBuffered)
  <2> DEFINE b == Append(c.buffer, m)
  <2>1. d = [c EXCEPT !.buffer = b]
    BY <1>3 DEF Buffer
  <2>2. /\ b \in Seq(Notifications) /\ Len(b) = Len(c.buffer) + 1
        /\ b[Len(c.buffer) + 1] = m
        /\ \A i \in 1..Len(c.buffer) : b[i] = c.buffer[i]
    BY <1>1
  <2> HIDE DEF b
  <2>3. \A i \in 1..Len(b) :
          b[i] = m \/ \E k \in 1..Len(c.buffer) : b[i] = c.buffer[k]
    <3> SUFFICES ASSUME NEW i \in 1..Len(b)
                 PROVE  b[i] = m \/ \E k \in 1..Len(c.buffer) : b[i] = c.buffer[k]
      OBVIOUS
    <3>1. i \in 1..Len(c.buffer) \/ i = Len(c.buffer) + 1
      BY <1>1, <2>2
    <3> QED
      BY <2>2, <3>1
  <2>4. /\ d \in States /\ d.buffer = b /\ d.dropped = c.dropped
        /\ d.known = c.known /\ d.registered = c.registered
        /\ d.tracked = c.tracked /\ d.answered = c.answered
        /\ d.outcome = c.outcome /\ d.timers = c.timers
    BY <2>1, <2>2 DEF States
  <2> QED
    BY <1>1, <1>3, <2>2, <2>3, <2>4
<1> QED
  BY <1>2, <1>3

\* The replay handles all that the buffer has kept.
LEMMA ReplayHandles ==
  ASSUME NEW c \in States, c.known, Root \in c.registered,
         c.tracked[Root] = "own", \A s \in Subs : c.tracked[s] = "none",
         c.outcome = "none", ~c.answered, NEW H,
         \A i \in 1..Len(c.buffer) : c.buffer[i] \in H,
         NEW dropped \in BOOLEAN,
         ~dropped =>
           /\ \A m \in H : \E i \in 1..Len(c.buffer) : c.buffer[i] = m
           /\ \A i \in 1..Len(c.buffer), s \in Subs :
                c.buffer[i] = AboutSub("collab/started", s) =>
                  \A k \in 1..(i - 1) :
                    c.buffer[k] # OfSub("turn/started", s)
  PROVE  /\ Handled(Replay(c), IF dropped THEN {} ELSE H, H)
         /\ Replay(c).dropped = c.dropped
         /\ Replay(c).outcome \in {"none", "completed", "error"}
<1> DEFINE n == Len(c.buffer)
           r == Replayed(c)
           After(i) == IF dropped THEN {} ELSE {c.buffer[k] : k \in 1..i}
           Fits(d) == /\ d.dropped = c.dropped
                      /\ d.outcome \in {"none", "completed", "error"}
           S == {i \in 0..n : Handled(r[i], After(i), H) /\ Fits(r[i])}
<1>1. n \in Nat /\ c.buffer \in Seq(Notifications)
      /\ \A i \in 1..n : c.buffer[i] \in Notifications
  BY DEF States
<1>2. r[0] = c /\ \A i \in 1..n : r[i] = ApplyIfBelongs(r[i - 1], c.buffer[i])
  BY <1>1, ReplaySteps
<1> HIDE DEF r
<1>3. 0 \in S
  <2>1. After(0) = {}
    OBVIOUS
  <2>2. Handled(c, {}, H)
    BY DEF Handled
  <2> HIDE DEF After
  <2>3. Handled(r[0], After(0), H) /\ Fits(r[0])
    BY <1>2, <2>1, <2>2
  <2> QED
    BY <1>1, <2>3
<1>4. ASSUME NEW i \in 0..n, i \in S, i # n
      PROVE  i + 1 \in S
  <2> DEFINE m == c.buffer[i + 1]
  <2>1. i + 1 \in 1..n /\ i + 1 \in 0..n /\ (i + 1) - 1 = i
    BY <1>1, <1>4
  <2>2. r[i + 1] = ApplyIfBelongs(r[i], m)
    BY <1>2, <2>1
  <2>3. Handled(r[i], After(i), H)
    BY <1>4
  <2>4. m \in Notifications /\ m \in H
    BY <1>1, <2>1
  <2>5. After(i + 1) \subseteq After(i) \union {m}
    <3>1. \A k \in 1..(i + 1) : k \in 1..i \/ k = i + 1
      BY <1>1, <2>1
    <3> QED
      BY <3>1
  <2>6. ASSUME NEW s \in Subs, m = AboutSub("collab/started", s),
               m \in After(i + 1)
        PROVE  OfSub("turn/started", s) \notin After(i)
    <3>1. ~dropped
      BY <2>6
    <3>2. \A k \in 1..((i + 1) - 1) : c.buffer[k] # OfSub("turn/started", s)
      BY <2>1, <2>6, <3>1
    <3>3. \A k \in 1..i : c.buffer[k] # OfSub("turn/started", s)
      BY <2>1, <3>2
    <3> QED
      BY <3>1, <3>3
  <2> HIDE DEF m, After
  <2>7. Handled(r[i + 1], After(i + 1), H)
    BY <2>2, <2>3, <2>4, <2>5, <2>6, HandleOne
  <2>8. Fits(r[i + 1])
    <3>1. r[i] \in States /\ Fits(r[i])
      BY <1>4, <2>3 DEF Handled
    <3>2. Advances(r[i], r[i + 1], m) \/ r[i + 1] = r[i]
      BY <2>2, <2>4, <3>1, IfBelongsAdvances
    <3> QED
      BY <3>1, <3>2 DEF Advances
  <2> HIDE DEF Fits
  <2> QED
    BY <2>1, <2>7, <2>8
<1>5. n \in S
  <2> HIDE DEF S
  <2>1. 0..n \subseteq S
    BY <1>1, <1>3, <1>4, Induction
  <2> QED
    BY <1>1, <2>1
<1>6. After(n) = IF dropped THEN {} ELSE H
  BY <1>1
<1> HIDE DEF After
<1>7. Handled(r[n], IF dropped THEN {} ELSE H, H) /\ Fits(r[n])
  BY <1>5, <1>6
<1> QED
  BY <1>7 DEF r, Replay

----------------------------------------------------------------------------
\* Type correctness, and the invariant, step by step.

LEMMA NotifiedSteps ==
  ASSUME TypeOK, CaptureInv, NEW m \in Notifications, Notify(m)
  PROVE  TypeOK' /\ CaptureInv'
<1> DEFINE kicked == ArmWatchdog(cap)
<1>1. /\ cap \in States /\ Len(cap.buffer) <= MaxBuffered
      /\ m \notin heard /\ heard' = heard \union {m}
      /\ cap' = Notified(cap, m)
      /\ pc \in {"starting", "waiting"}
      /\ UNCHANGED <<server, connection, request, pc>>
  BY DEF TypeOK, Notify, MaySend, Listening
<1>2. /\ kicked \in States /\ SameTurn(cap, kicked)
      /\ kicked.outcome = cap.outcome
  BY <1>1, TimerSteps
<1>3. /\ \A s \in Subs : m = AboutSub("collab/started", s)
                           => OfSub("turn/started", s) \notin heard
      /\ \A s \in Subs : OfSub("turn/started", s) \in heard' => Called(s)'
  <2>1. MaySend(m)
    BY DEF Notify
  <2>2. ASSUME NEW s \in Subs, m = AboutSub("collab/started", s)
        PROVE  OfSub("turn/started", s) \notin heard
    <3>1. m.kind = "collab/started" /\ m.sub = s /\ m.turn = "own"
      BY <2>2 DEF AboutSub, Msg
    <3>2. ~Called(s)
      BY <2>1, <3>1 DEF MaySend
    <3> QED
      BY <3>2 DEF CaptureInv
  <2>3. ASSUME NEW s \in Subs, OfSub("turn/started", s) \in heard'
        PROVE  Called(s)'
    <3>1. CASE OfSub("turn/started", s) \in heard
      BY <1>1, <3>1 DEF CaptureInv, Called
    <3>2. CASE OfSub("turn/started", s) = m
      <4>1. m.kind = "turn/started" /\ m.thread = s /\ m.turn = "own"
            /\ s # Root
        BY <3>2, ThreadsAssumption DEF OfSub, Msg
      <4>2. m.thread # Root => IF m.kind = "turn/started" THEN Called(m.thread)
                               ELSE TRUE
        BY <2>1, <4>1, Zenon DEF MaySend
      <4>3. Called(s)
        BY <4>1, <4>2
      <4> QED
        BY <1>1, <4>3 DEF Called
    <3> QED
      BY <1>1, <2>3, <3>1, <3>2
  <2> QED
    BY <2>2, <2>3
<1>4. CASE pc = "starting"
  <2>1. Early
    BY <1>4 DEF CaptureInv
  <2>2. cap' = Buffer(kicked, m)
    BY <1>1, <2>1 DEF Notified, Early
  <2>3. kicked.timers \subseteq {"watchdog"}
    BY <1>1, <2>1 DEF Early, ArmWatchdog, States
  <2> HIDE DEF kicked
  <2>4. /\ cap' \in States /\ Len(cap'.buffer) <= MaxBuffered
        /\ cap'.known = cap.known /\ cap'.registered = cap.registered
        /\ cap'.tracked = cap.tracked /\ cap'.answered = cap.answered
        /\ cap'.outcome = cap.outcome /\ cap'.timers = kicked.timers
        /\ cap.dropped => cap'.dropped
        /\ \A i \in 1..Len(cap'.buffer) :
             cap'.buffer[i] = m
             \/ \E k \in 1..Len(cap.buffer) : cap'.buffer[i] = cap.buffer[k]
        /\ ~cap'.dropped =>
             /\ Len(cap'.buffer) = Len(cap.buffer) + 1
             /\ cap'.buffer[Len(cap.buffer) + 1] = m
             /\ \A i \in 1..Len(cap.buffer) : cap'.buffer[i] = cap.buffer[i]
    <3>1. Len(kicked.buffer) <= MaxBuffered /\ kicked.buffer = cap.buffer
      BY <1>1, <1>2 DEF SameTurn
    <3> DEFINE d == cap'
    <3>2. d = Buffer(kicked, m)
      BY <2>2
    <3> HIDE DEF d
    <3>3. /\ d \in States /\ Len(d.buffer) <= MaxBuffered
          /\ d.known = kicked.known /\ d.registered = kicked.registered
          /\ d.tracked = kicked.tracked /\ d.answered = kicked.answered
          /\ d.outcome = kicked.outcome /\ d.timers = kicked.timers
          /\ kicked.dropped => d.dropped
          /\ \A i \in 1..Len(d.buffer) :
               d.buffer[i] = m
               \/ \E k \in 1..Len(kicked.buffer) : d.buffer[i] = kicked.buffer[k]
          /\ ~d.dropped =>
               /\ Len(d.buffer) = Len(kicked.buffer) + 1
               /\ d.buffer[Len(kicked.buffer) + 1] = m
               /\ \A i \in 1..Len(kicked.buffer) :
                    d.buffer[i] = kicked.buffer[i]
      BY <1>2, <3>1, <3>2, BufferSteps
    <3> QED
      BY <1>2, <3>1, <3>3 DEF SameTurn, d
  <2>5. Len(cap.buffer) \in Nat
    BY <1>1 DEF States
  <2>6. \A i \in 1..Len(cap'.buffer) : cap'.buffer[i] \in heard'
    BY <1>1, <2>1, <2>4 DEF Early
  <2>7. ASSUME ~cap'.dropped
        PROVE  /\ \A x \in heard' : \E i \in 1..Len(cap'.buffer) :
                                      cap'.buffer[i] = x
               /\ \A i \in 1..Len(cap'.buffer), s \in Subs :
                    cap'.buffer[i] = AboutSub("collab/started", s) =>
                      \A k \in 1..(i - 1) :
                        cap'.buffer[k] # OfSub("turn/started", s)
    <3>1. /\ \A x \in heard : \E i \in 1..Len(cap.buffer) : cap.buffer[i] = x
          /\ \A i \in 1..Len(cap.buffer), s \in Subs :
               cap.buffer[i] = AboutSub("collab/started", s) =>
                 \A k \in 1..(i - 1) :
                   cap.buffer[k] # OfSub("turn/started", s)
      BY <2>1, <2>4, <2>7 DEF Early
    <3>2. ASSUME NEW x \in heard'
          PROVE  \E i \in 1..Len(cap'.buffer) : cap'.buffer[i] = x
      <4>1. CASE x = m
        BY <2>4, <2>5, <2>7, <4>1
      <4>2. CASE x \in heard
        <5>1. PICK i \in 1..Len(cap.buffer) : cap.buffer[i] = x
          BY <3>1, <4>2
        <5> QED
          BY <2>4, <2>5, <2>7, <5>1
      <4> QED
        BY <1>1, <3>2, <4>1, <4>2
    <3>3. ASSUME NEW i \in 1..Len(cap'.buffer), NEW s \in Subs,
                 cap'.buffer[i] = AboutSub("collab/started", s),
                 NEW k \in 1..(i - 1)
          PROVE  cap'.buffer[k] # OfSub("turn/started", s)
      <4>1. k \in 1..Len(cap.buffer) /\ cap'.buffer[k] = cap.buffer[k]
        BY <2>4, <2>5, <2>7
      <4>2. CASE i = Len(cap.buffer) + 1
        <5>1. OfSub("turn/started", s) \notin heard
          BY <1>3, <2>4, <2>7, <3>3, <4>2
        <5> QED
          BY <2>1, <4>1, <5>1 DEF Early
      <4>3. CASE i # Len(cap.buffer) + 1
        <5>1. i \in 1..Len(cap.buffer) /\ cap.buffer[i] = cap'.buffer[i]
          BY <2>4, <2>5, <2>7, <4>3
        <5> QED
          BY <3>1, <3>3, <4>1, <5>1
      <4> QED
        BY <4>2, <4>3
    <3> QED
      BY <3>2, <3>3
  <2>8. Early'
    BY <1>1, <2>1, <2>3, <2>4, <2>6, <2>7 DEF Early
  <2> QED
    BY <1>1, <1>3, <1>4, <2>1, <2>4, <2>8
       DEF TypeOK, CaptureInv, EndIsOwn, Early
<1>5. CASE pc = "waiting"
  <2> DEFINE M == IF cap.dropped THEN {} ELSE heard
  <2>1. Handled(cap, M, heard)
    BY <1>5 DEF CaptureInv
  <2>2. Handled(kicked, M, heard)
    BY <1>2, <2>1 DEF Handled, SameTurn, Settled, SubFailed
  <2>3. \/ cap' = ApplyIfBelongs(kicked, m)
        \/ /\ m.kind = "thread/started"
           /\ cap' = ApplyTurnNotification(kicked, m)
    BY <1>1, <2>1 DEF Notified, Handled
  <2> HIDE DEF kicked
  <2> DEFINE N == IF cap.dropped THEN {} ELSE heard'
  <2>4. Handled(cap', N, heard')
    <3>1. /\ heard \subseteq heard' /\ m \in heard' /\ N \subseteq M \union {m}
          /\ \A s \in Subs : m = AboutSub("collab/started", s) /\ m \in N
                               => OfSub("turn/started", s) \notin M
      BY <1>1, <1>3
    <3> HIDE DEF M, N
    <3> QED
      BY <2>2, <2>3, <3>1, HandleOne
  <2>5. cap'.dropped = cap.dropped /\ cap'.buffer = cap.buffer
    <3>1. Advances(kicked, cap', m) \/ cap' = kicked
      BY <1>2, <2>3, IfBelongsAdvances
    <3> QED
      BY <1>2, <3>1 DEF Advances, SameTurn
  <2> QED
    BY <1>1, <1>3, <1>5, <2>4, <2>5
       DEF TypeOK, CaptureInv, EndIsOwn, Handled, SubFailed
<1> QED
  BY <1>1, <1>4, <1>5

LEMMA BeginSteps ==
  ASSUME TypeOK, CaptureInv, Begin
  PROVE  /\ TypeOK' /\ CaptureInv'
         /\ ~Settled(cap) /\ cap'.outcome # "inferred"
<1> DEFINE k1 == [cap EXCEPT !.known = TRUE]
           known == [k1 EXCEPT !.tracked[Root] = "own"]
           M == IF cap.dropped THEN {} ELSE heard
           replayed == [Replay(known) EXCEPT !.buffer = <<>>]
<1>1. /\ cap \in States /\ Len(cap.buffer) <= MaxBuffered /\ Early
      /\ pc = "starting" /\ pc' = "waiting" /\ request \in {"answered", "final"}
      /\ UNCHANGED <<server, connection, request, heard>>
  BY DEF TypeOK, CaptureInv, Begin
<1>2. known = [cap EXCEPT !.known = TRUE, !.tracked[Root] = "own"]
  BY Zenon
<1>3. /\ k1 \in States /\ k1.known /\ k1.tracked = cap.tracked
      /\ k1.registered = cap.registered /\ k1.buffer = cap.buffer
      /\ k1.dropped = cap.dropped /\ k1.answered = cap.answered
      /\ k1.outcome = cap.outcome
  BY <1>1 DEF States
<1>4. cap' = IF request = "final" THEN CompleteTurn(replayed, "completed")
                                  ELSE replayed
  BY <1>2 DEF Begin
<1> HIDE DEF k1
<1>5. /\ known \in States /\ known.known
      /\ known.tracked = [cap.tracked EXCEPT ![Root] = "own"]
      /\ known.registered = cap.registered /\ known.buffer = cap.buffer
      /\ known.dropped = cap.dropped /\ known.answered = cap.answered
      /\ known.outcome = cap.outcome
  BY <1>3 DEF States, Threads
<1> HIDE DEF known
<1>6. /\ known.tracked[Root] = "own"
      /\ \A s \in Subs : known.tracked[s] = "none"
  <2>1. cap.tracked \in [Threads -> {"none", "own", "stale"}]
    BY <1>1 DEF States
  <2> QED
    BY <1>1, <1>5, <2>1, ThreadsAssumption DEF Early, Threads
<1>7. /\ Handled(Replay(known), M, heard)
      /\ Replay(known).dropped = cap.dropped
      /\ Replay(known).outcome \in {"none", "completed", "error"}
  <2>1. /\ Root \in known.registered /\ known.outcome = "none"
        /\ ~known.answered /\ cap.dropped \in BOOLEAN
        /\ \A i \in 1..Len(known.buffer) : known.buffer[i] \in heard
    BY <1>1, <1>5 DEF Early, States
  <2>2. ~cap.dropped =>
          /\ \A m \in heard : \E i \in 1..Len(known.buffer) :
                                known.buffer[i] = m
          /\ \A i \in 1..Len(known.buffer), s \in Subs :
               known.buffer[i] = AboutSub("collab/started", s) =>
                 \A k \in 1..(i - 1) :
                   known.buffer[k] # OfSub("turn/started", s)
    BY <1>1, <1>5 DEF Early
  <2> QED
    BY <1>5, <1>6, <2>1, <2>2, ReplayHandles, ZenonT(60)
<1>8. /\ replayed \in States /\ replayed.buffer = <<>>
      /\ Handled(replayed, M, heard)
      /\ replayed.outcome = Replay(known).outcome
      /\ replayed.dropped = Replay(known).dropped
  <2> DEFINE c == Replay(known)
  <2>1. c \in States
    BY <1>7 DEF Handled
  <2> HIDE DEF c
  <2>2. <<>> \in Seq(Notifications)
    OBVIOUS
  <2> DEFINE d == [c EXCEPT !.buffer = <<>>]
  <2>3. /\ d \in States /\ d.buffer = <<>>
        /\ d.known = c.known /\ d.registered = c.registered
        /\ d.tracked = c.tracked /\ d.dropped = c.dropped
        /\ d.answered = c.answered /\ d.active = c.active
        /\ d.outcome = c.outcome
    BY <2>1, <2>2 DEF States
  <2>4. replayed = d
    BY DEF c
  <2> HIDE DEF d, replayed, M
  <2>5. Handled(c, M, heard)
    BY <1>7 DEF c
  <2>6. Handled(d, M, heard)
    BY <2>3, <2>5 DEF Handled, Settled, SubFailed
  <2> QED
    BY <2>3, <2>4, <2>6 DEF c
<1> HIDE DEF replayed
<1>9. ASSUME request = "final"
      PROVE  /\ cap' \in States /\ cap'.buffer = <<>>
             /\ cap'.dropped = cap.dropped /\ Handled(cap', M, heard)
             /\ cap'.outcome \in {"completed", "error"}
  <2>1. cap' = CompleteTurn(replayed, "completed")
    BY <1>4, <1>9
  <2>2. /\ cap' \in States /\ SameTurn(replayed, cap')
        /\ cap'.outcome = IF Settled(replayed) THEN replayed.outcome
                          ELSE "completed"
    BY <1>8, <2>1, EndSteps DEF Outcomes
  <2>3. cap'.outcome \in {"completed", "error"}
    BY <1>7, <1>8, <2>2 DEF Settled
  <2>4. Own("turn/completed") \in heard
    BY <1>9 DEF CaptureInv
  <2> HIDE DEF M
  <2>5. Handled(cap', M, heard)
    BY <1>8, <2>2, <2>3, <2>4 DEF Handled, SameTurn, Settled, SubFailed
  <2> QED
    BY <1>7, <1>8, <2>2, <2>3, <2>5 DEF SameTurn
<1>10. /\ cap' \in States /\ cap'.buffer = <<>>
       /\ cap'.dropped = cap.dropped /\ Handled(cap', M, heard)
       /\ cap'.outcome \in {"none", "completed", "error"}
  BY <1>4, <1>7, <1>8, <1>9
<1>11. TypeOK'
  BY <1>1, <1>10, BoundsAssumption DEF TypeOK
<1>12. CaptureInv'
  <2>1. M = IF cap'.dropped THEN {} ELSE heard'
    BY <1>1, <1>10
  <2>2. Handled(cap', M, heard') /\ (request' = "final") = (request = "final")
    BY <1>1, <1>10
  <2> HIDE DEF M
  <2>3. EndIsOwn'
    BY <2>2 DEF Handled, EndIsOwn, SubFailed
  <2> QED
    BY <1>1, <2>1, <2>2, <2>3 DEF CaptureInv, Called
<1> QED
  BY <1>1, <1>10, <1>11, <1>12 DEF Early, Settled

\* What fires, fails or ends.
LEMMA OtherSteps ==
  ASSUME TypeOK, CaptureInv,
         \/ ServerTakes \/ Answered \/ Lose \/ Expire \/ StartFails \/ Finish
         \/ InferredFires \/ FinalizingFires \/ WatchdogFires \/ LoopEmpties
         \/ UNCHANGED vars
  PROVE  TypeOK' /\ CaptureInv'
<1> USE DEF TypeOK
<1>1. CASE ServerTakes \/ Answered \/ Lose \/ Expire \/ LoopEmpties
           \/ UNCHANGED vars
  <2>1. /\ UNCHANGED <<cap, heard>>
        /\ pc' = pc \/ (pc = "waiting" /\ pc' = "gone")
        /\ request' = "final" =>
             request = "final" \/ Own("turn/completed") \in heard
        /\ TypeOK'
    BY <1>1 DEF ServerTakes, Answered, Lose, Expire, LoopEmpties, vars
  <2> QED
    BY <2>1 DEF CaptureInv, Early, EndIsOwn, Called
<1>2. CASE StartFails \/ Finish
  <2>1. /\ cap' = Cleaned(cap) /\ pc' = "ended"
        /\ UNCHANGED <<server, connection, request, heard>>
    BY <1>2 DEF StartFails, Finish
  <2>2. cap' \in States /\ SameTurn(cap, cap') /\ cap'.outcome = cap.outcome
    BY <2>1, TimerSteps
  <2> QED
    BY <2>1, <2>2 DEF CaptureInv, EndIsOwn, SameTurn, Called
<1>3. CASE InferredFires \/ FinalizingFires \/ (WatchdogFires /\ pc # "starting")
  <2>1. /\ pc = "waiting" /\ pc' = pc
        /\ UNCHANGED <<server, connection, request, heard>>
    BY <1>3 DEF InferredFires, FinalizingFires, WatchdogFires, Listening,
                CaptureInv, Early
  <2>2. /\ cap' \in States /\ SameTurn(cap, cap')
        /\ \/ cap'.outcome = cap.outcome
           \/ cap'.outcome \in {"inferred", "finalizing", "watchdog"}
        /\ Settled(cap) => Settled(cap')
    <3>1. CASE InferredFires
      <4> DEFINE fired == [cap EXCEPT !.timers = @ \ {"inferred"}]
      <4>1. fired \in States /\ SameTurn(cap, fired)
            /\ fired.outcome = cap.outcome
        BY DEF States, SameTurn
      <4>2. cap' = IF Drained(fired) THEN CompleteTurn(fired, "inferred")
                   ELSE fired
        BY <3>1 DEF InferredFires
      <4> HIDE DEF fired
      <4>3. LET d == CompleteTurn(fired, "inferred")
            IN  /\ d \in States /\ SameTurn(fired, d)
                /\ d.outcome = IF Settled(fired) THEN fired.outcome
                               ELSE "inferred"
        BY <4>1, EndSteps DEF Outcomes
      <4> QED
        BY <4>1, <4>2, <4>3 DEF SameTurn, Settled
    <3>2. CASE FinalizingFires
      <4> DEFINE fired == [cap EXCEPT !.timers = @ \ {"finalizing"}]
      <4>1. fired \in States /\ SameTurn(cap, fired)
            /\ fired.outcome = cap.outcome
        BY DEF States, SameTurn
      <4>2. cap' = FailTurn(fired, "finalizing")
        BY <3>2 DEF FinalizingFires
      <4> HIDE DEF fired
      <4>3. /\ cap' \in States /\ SameTurn(fired, cap')
            /\ cap'.outcome = IF Settled(fired) THEN fired.outcome
                              ELSE "finalizing"
        BY <4>1, <4>2, EndSteps DEF Outcomes
      <4> QED
        BY <4>1, <4>3 DEF SameTurn, Settled
    <3>3. CASE WatchdogFires /\ Settled(cap)
      <4>1. cap' = [cap EXCEPT !.timers = @ \ {"watchdog"}]
        BY <3>3 DEF WatchdogFires
      <4> QED
        BY <4>1 DEF States, SameTurn, Settled
    <3>4. CASE WatchdogFires /\ ~Settled(cap)
      <4> DEFINE fired == [cap EXCEPT !.timers = {}]
      <4>1. fired \in States /\ SameTurn(cap, fired)
        BY DEF States, SameTurn
      <4>2. cap' = [fired EXCEPT !.outcome = "watchdog"]
        BY <3>4, Zenon DEF WatchdogFires
      <4> HIDE DEF fired
      <4>3. /\ cap' \in States /\ SameTurn(fired, cap')
            /\ cap'.outcome = "watchdog"
        BY <4>1, <4>2 DEF States, SameTurn, Outcomes
      <4> QED
        BY <3>4, <4>1, <4>3 DEF SameTurn, Settled
    <3> QED
      BY <1>3, <3>1, <3>2, <3>3, <3>4
  <2>3. Handled(cap, IF cap.dropped THEN {} ELSE heard, heard)
    BY <2>1 DEF CaptureInv
  <2>4. cap'.dropped = cap.dropped /\ cap'.buffer = cap.buffer
    BY <2>2 DEF SameTurn
  <2> DEFINE M == IF cap.dropped THEN {} ELSE heard
  <2> HIDE DEF M
  <2>5. Handled(cap', M, heard)
    <3>1. Handled(cap, M, heard)
      BY <2>3 DEF M
    <3> QED
      BY <2>2, <3>1 DEF Handled, SameTurn, SubFailed
  <2>6. EndIsOwn'
    BY <2>1, <2>5 DEF Handled, EndIsOwn, SubFailed
  <2> QED
    BY <2>1, <2>2, <2>4, <2>5, <2>6 DEF CaptureInv, Called, M
<1>4. CASE WatchdogFires /\ pc = "starting"
  <2>1. /\ ~Settled(cap) /\ pc' = "gone"
        /\ UNCHANGED <<server, connection, request, heard>>
    BY <1>4 DEF WatchdogFires, CaptureInv, Early, Settled
  <2> DEFINE fired == [cap EXCEPT !.timers = {}]
  <2>2. fired \in States /\ SameTurn(cap, fired)
    BY DEF States, SameTurn
  <2>3. cap' = [fired EXCEPT !.outcome = "watchdog"]
    BY <1>4, <2>1, Zenon DEF WatchdogFires
  <2> HIDE DEF fired
  <2>4. /\ cap' \in States /\ SameTurn(fired, cap')
        /\ cap'.outcome = "watchdog"
    BY <2>2, <2>3 DEF States, SameTurn, Outcomes
  <2> QED
    BY <2>1, <2>2, <2>4 DEF CaptureInv, EndIsOwn, SameTurn, Called
<1> QED
  BY <1>1, <1>2, <1>3, <1>4

LEMMA InitCapture == Init => TypeOK /\ CaptureInv
<1> SUFFICES ASSUME Init
             PROVE  TypeOK /\ CaptureInv
  OBVIOUS
<1>1. PICK w \in BOOLEAN : cap = ArmWatchdog(CreateTurnCaptureState(w))
  BY DEF Init
<1> DEFINE c == CreateTurnCaptureState(w)
<1>2. /\ c \in States /\ c.buffer = <<>> /\ ~c.known /\ c.registered = {Root}
      /\ c.tracked = [t \in Threads |-> "none"] /\ ~c.dropped /\ ~c.answered
      /\ c.timers = {} /\ c.outcome = "none"
  BY DEF CreateTurnCaptureState, States, Threads, Timers, Outcomes
<1> HIDE DEF c
<1>3. /\ cap \in States /\ SameTurn(c, cap) /\ cap.outcome = c.outcome
  BY <1>1, <1>2, TimerSteps DEF c
<1>4. cap.timers \subseteq {"watchdog"}
  <2>1. cap = c \/ cap = [c EXCEPT !.timers = @ \union {"watchdog"}]
    BY <1>1 DEF ArmWatchdog, c
  <2> QED
    BY <1>2, <2>1 DEF States
<1>5. Early
  BY <1>2, <1>3, <1>4 DEF Init, Early, SameTurn
<1>6. TypeOK
  BY <1>2, <1>3, BoundsAssumption DEF Init, TypeOK, SameTurn
<1> QED
  BY <1>2, <1>3, <1>5, <1>6 DEF Init, CaptureInv, EndIsOwn

LEMMA CaptureStep ==
  ASSUME TypeOK, CaptureInv, [Next]_vars
  PROVE  TypeOK' /\ CaptureInv'
BY NotifiedSteps, BeginSteps, OtherSteps DEF Next

----------------------------------------------------------------------------
\* The theorems.

\* The state of a capture keeps its shape, and its buffer its bound, whatever
\* the app-server sends and in whatever order.
THEOREM TypeInvariant == Spec => []TypeOK
<1>1. TypeOK /\ CaptureInv /\ [Next]_vars => (TypeOK /\ CaptureInv)'
  BY CaptureStep
<1> QED
  BY <1>1, InitCapture, PTL DEF Spec

\* What a capture knows, it knows from messages it has heard; and it has
\* handled every one of them, those that came before the turn id included,
\* unless the buffer has overflown.
THEOREM CaptureInvariant == Spec => []CaptureInv
<1>1. TypeOK /\ CaptureInv /\ [Next]_vars => (TypeOK /\ CaptureInv)'
  BY CaptureStep
<1> QED
  BY <1>1, InitCapture, PTL DEF Spec

\* Only the turn's own completion completes a capture, and only its own error
\* or that of a subagent registered with it fails it, for any number of
\* subagents and however an earlier turn of the thread still talks.
THEOREM OwnEndOnly == Spec => []EndIsOwn
<1>1. CaptureInv => EndIsOwn
  BY DEF CaptureInv
<1> QED
  BY <1>1, CaptureInvariant, PTL

\* No end of the turn is missed, however early it came, for any number of
\* subagents and any buffer that does not overflow.
THEOREM NoEndMissed == Spec => []EndNotMissed
<1>1. CaptureInv => EndNotMissed
  BY DEF CaptureInv, EndNotMissed, Handled
<1> QED
  BY <1>1, CaptureInvariant, PTL

\* A capture is settled once; and inferred to be complete only after the final
\* answer, with no subagent known to be at work.
THEOREM SettlesOnce == Spec => SettledOnce
<1> DEFINE Sound == cap'.outcome # cap.outcome =>
                      /\ ~Settled(cap)
                      /\ cap'.outcome = "inferred" /\ ~cap.dropped
                           => Own("answer") \in heard /\ HeardActive = {}
<1>1. TypeOK /\ CaptureInv /\ [Next]_vars => [Sound]_vars
  <2> SUFFICES ASSUME TypeOK, CaptureInv, [Next]_vars,
                      cap'.outcome # cap.outcome
               PROVE  /\ ~Settled(cap)
                      /\ cap'.outcome = "inferred" /\ ~cap.dropped
                           => Own("answer") \in heard /\ HeardActive = {}
    OBVIOUS
  <2>1. cap \in States
    BY DEF TypeOK
  <2>2. ASSUME NEW m \in Notifications, Notify(m)
        PROVE  ~Settled(cap) /\ cap'.outcome # "inferred"
    <3> DEFINE kicked == ArmWatchdog(cap)
    <3>1. kicked \in States /\ SameTurn(cap, kicked)
          /\ kicked.outcome = cap.outcome
      BY <2>1, TimerSteps
    <3>2. cap' = Notified(cap, m) /\ pc \in {"starting", "waiting"}
      BY <2>2 DEF Notify, Listening
    <3> HIDE DEF kicked
    <3>3. CASE pc = "starting"
      <4>1. cap' = Buffer(kicked, m)
        BY <3>2, <3>3 DEF Notified, CaptureInv, Early, kicked
      <4>2. Len(kicked.buffer) <= MaxBuffered
        BY <3>1 DEF TypeOK, SameTurn
      <4> DEFINE d == Buffer(kicked, m)
      <4>3. d.outcome = kicked.outcome
        BY <3>1, <4>2, BufferSteps
      <4> QED
        BY <3>1, <4>1, <4>3
    <3>4. CASE pc = "waiting"
      <4>1. \/ cap' = ApplyIfBelongs(kicked, m)
            \/ /\ m.kind = "thread/started"
               /\ cap' = ApplyTurnNotification(kicked, m)
        BY <3>2, <3>4 DEF Notified, CaptureInv, Handled, kicked
      <4>2. Advances(kicked, cap', m) \/ cap' = kicked
        BY <3>1, <4>1, IfBelongsAdvances
      <4> QED
        BY <3>1, <4>2 DEF Advances, Settled
    <3> QED
      BY <3>2, <3>3, <3>4
  <2>3. CASE Begin
    BY <2>3, BeginSteps
  <2>4. CASE InferredFires
    <3> DEFINE fired == [cap EXCEPT !.timers = @ \ {"inferred"}]
    <3>1. fired \in States /\ SameTurn(cap, fired)
          /\ fired.outcome = cap.outcome
      BY <2>1 DEF States, SameTurn
    <3>2. cap' = IF Drained(fired) THEN CompleteTurn(fired, "inferred")
                 ELSE fired
      BY <2>4 DEF InferredFires
    <3> HIDE DEF fired
    <3>3. LET d == CompleteTurn(fired, "inferred")
          IN  d.outcome = IF Settled(fired) THEN fired.outcome ELSE "inferred"
      BY <3>1, EndSteps DEF Outcomes
    <3>4. Drained(fired) /\ ~Settled(cap)
      BY <3>1, <3>2, <3>3 DEF Settled
    <3>5. pc = "waiting"
      BY <2>4 DEF InferredFires, Listening, CaptureInv, Early
    <3>6. cap.answered /\ cap.active = {}
      BY <3>1, <3>4 DEF Drained, SameTurn
    <3>7. ASSUME ~cap.dropped
          PROVE  Own("answer") \in heard /\ HeardActive = {}
      <4>1. Handled(cap, heard, heard)
        BY <3>5, <3>7 DEF CaptureInv
      <4> QED
        BY <3>6, <4>1 DEF Handled, HeardActive
    <3> QED
      BY <3>4, <3>7
  <2>5. CASE FinalizingFires
    <3> DEFINE fired == [cap EXCEPT !.timers = @ \ {"finalizing"}]
    <3>1. fired \in States /\ fired.outcome = cap.outcome
      BY <2>1 DEF States
    <3>2. cap' = FailTurn(fired, "finalizing")
      BY <2>5 DEF FinalizingFires
    <3> HIDE DEF fired
    <3>3. cap'.outcome = IF Settled(fired) THEN fired.outcome ELSE "finalizing"
      BY <3>1, <3>2, EndSteps DEF Outcomes
    <3> QED
      BY <3>1, <3>3 DEF Settled
  <2>6. CASE WatchdogFires
    <3>1. CASE Settled(cap)
      <4>1. cap' = [cap EXCEPT !.timers = @ \ {"watchdog"}]
        BY <2>6, <3>1 DEF WatchdogFires
      <4> QED
        BY <2>1, <4>1 DEF States
    <3>2. CASE ~Settled(cap)
      <4> DEFINE fired == [cap EXCEPT !.timers = {}]
      <4>1. fired \in States
        BY <2>1 DEF States
      <4>2. cap' = [fired EXCEPT !.outcome = "watchdog"]
        BY <2>6, <3>2, Zenon DEF WatchdogFires
      <4> HIDE DEF fired
      <4>3. cap'.outcome = "watchdog"
        BY <4>1, <4>2 DEF States
      <4> QED
        BY <3>2, <4>3
    <3> QED
      BY <3>1, <3>2
  <2>7. CASE StartFails \/ Finish
    <3>1. cap' = Cleaned(cap)
      BY <2>7 DEF StartFails, Finish
    <3> QED
      BY <2>1, <3>1, TimerSteps
  <2>8. CASE ServerTakes \/ Answered \/ Lose \/ Expire \/ LoopEmpties
             \/ UNCHANGED vars
    BY <2>8 DEF ServerTakes, Answered, Lose, Expire, LoopEmpties, vars
  <2> QED
    BY <2>2, <2>3, <2>4, <2>5, <2>6, <2>7, <2>8 DEF Next
<1> QED
  BY <1>1, TypeInvariant, CaptureInvariant, PTL DEF Spec, SettledOnce

============================================================================
