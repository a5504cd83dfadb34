---------------------------- MODULE TurnRunProofs ----------------------------
(***************************************************************************)
(* Theorems about TurnRun, for every set of retry budgets.                 *)
(***************************************************************************)
EXTENDS TurnRun, SequenceTheorems, TLAPS

----------------------------------------------------------------------------
\* Lemmas about the list of turns and the budget.

LEMMA BudgetRange == opts \in Options => Budget \in 0 .. 2
<1> SUFFICES ASSUME opts \in Options PROVE Budget \in 0 .. 2
  OBVIOUS
<1>1. opts.raw \in Int
  BY BudgetsAssumption DEF Options
<1>2. QED
  BY <1>1 DEF Budget

LEMMA TakenFacts ==
  ASSUME TypeOK, client # "none",
         NEW end \in {"live", "completed", "failed", "model"}
  PROVE  /\ Taken(end) \in Seq(Turns)
         /\ Len(Taken(end)) = Len(turns) + 1 /\ Len(turns) \in Nat
         /\ \A i \in 1..Len(turns) : Taken(end)[i] = turns[i]
         /\ Taken(end)[Len(turns) + 1]
              = [where |-> client, model |-> model, end |-> end]
         /\ \A i \in 1..Len(Taken(end)) :
              i \in 1..Len(turns) \/ i = Len(turns) + 1
<1>1. [where |-> client, model |-> model, end |-> end] \in Turns
  BY DEF TypeOK, Turns
<1>2. Len(turns) \in Nat /\ turns \in Seq(Turns)
  BY LenProperties DEF TypeOK
<1>3. /\ Taken(end) \in Seq(Turns)
      /\ Len(Taken(end)) = Len(turns) + 1
      /\ \A i \in 1..Len(turns) : Taken(end)[i] = turns[i]
      /\ Taken(end)[Len(turns) + 1]
           = [where |-> client, model |-> model, end |-> end]
  BY <1>1, <1>2, AppendProperties DEF Taken
<1>4. \A i \in 1..Len(Taken(end)) : i \in 1..Len(turns) \/ i = Len(turns) + 1
  BY <1>2, <1>3
<1>5. QED
  BY <1>2, <1>3, <1>4

\* Closing a connection kills what runs in an app-server of one's own and
\* changes no other turn.
LEMMA ClosedFacts ==
  ASSUME TypeOK, Closed
  PROVE  /\ turns' \in Seq(Turns) /\ Len(turns') = Len(turns)
         /\ Len(turns) \in Nat
         /\ \A i \in 1..Len(turns) :
              /\ turns[i] \in Turns
              /\ turns'[i].where = turns[i].where
              /\ turns'[i].model = turns[i].model
              /\ turns[i].end # "live" => turns'[i].end = turns[i].end
              /\ turns[i].end = "live" => turns'[i].end \in {"live", "killed"}
              /\ turns[i].where = "direct" => turns'[i].end # "live"
<1>1. /\ Len(turns) \in Nat /\ DOMAIN turns = 1..Len(turns)
      /\ \A i \in 1..Len(turns) : turns[i] \in Turns
  BY LenProperties, ElementOfSeq DEF TypeOK
<1>2. \A i \in 1..Len(turns) :
        turns'[i] = IF turns[i].where = "direct" /\ turns[i].end = "live"
                    THEN [turns[i] EXCEPT !.end = "killed"] ELSE turns[i]
  BY <1>1 DEF Closed
<1>3. \A i \in 1..Len(turns) : turns'[i] \in Turns
  BY <1>1, <1>2 DEF Turns
<1>4. turns' \in [1..Len(turns) -> Turns]
  BY <1>1, <1>3 DEF Closed
<1>5. turns' \in Seq(Turns) /\ Len(turns') = Len(turns)
  BY <1>1, <1>4, SeqDef, LenProperties
<1>6. QED
  BY <1>1, <1>2, <1>5 DEF Turns

----------------------------------------------------------------------------
\* The inductive invariant.

\* A connection is open from the connect to the close.
ClientInv ==
  /\ pc \in {"connect", "recover", "resume", "done"} => client = "none"
  /\ pc \in {"thread", "turn", "close"} => client # "none"

\* A subagent never leaves its broker.
SubagentInv ==
  opts.requireBroker => ~retried /\ client # "direct" /\ spawned = {}

\* Before a turn is asked for, and after a failure that is retried, every
\* turn taken so far was turned down for its model.
Retriable == \/ pc \in {"connect", "thread", "turn"}
             \/ pc = "catch" /\ error \in {"busy", "unreachable"}

ReadyInv ==
  Retriable => /\ \A i \in 1..Len(turns) : turns[i].end = "model"
               /\ Len(turns) > 0 => model = "fallback"

\* What is left of the turns once the connection is closed.
ClosedInv ==
  pc \in {"recover", "resume", "done"} =>
    \A i \in 1..Len(turns) : turns[i].where = "direct" => turns[i].end # "live"

\* A result of success stands only where a turn, or a resume, completed.
ResultInv ==
  /\ pc = "close" => Len(turns) > 0 /\ (error = "timeout" => result # "0")
  /\ result = "0" =>
       /\ pc \in {"close", "done"}
       /\ \/ Len(turns) > 0 /\ turns[Len(turns)].end = "completed"
          \/ pc = "done" /\ resumer = "ok"

\* A failed initialize is not retried: what it leaves open is the only thing
\* the run leaves, and the run has failed but for a resume.
LeftInv ==
  \/ left = 0
  \/ /\ left = 1
     /\ pc \in {"catch", "recover", "resume", "done"}
     /\ pc = "catch" => error \notin {"busy", "unreachable"}
     /\ result = "0" => resumer = "ok"

RunInv ==
  /\ ClientInv /\ SubagentInv /\ ReadyInv /\ ClosedInv /\ ResultInv
  /\ LeftInv /\ NoTurnTwice

----------------------------------------------------------------------------
\* Every step keeps the types.

LEMMA StepTypeOK == TypeOK /\ ClientInv /\ [Next]_vars => TypeOK'
<1> SUFFICES ASSUME TypeOK, ClientInv, [Next]_vars PROVE TypeOK'
  OBVIOUS
<1>0. opts' \in Options /\ resumes' \in 0 .. Budget'
  <2>1. opts' = opts /\ Budget' = Budget /\ Budget \in 0 .. 2
    <3>1. opts' = opts
      BY DEF Next, Connect, ConnectFails, InitializeFails, Thread,
             TurnNotStarted, TurnFails, ProcessGone, TurnEnds, Close, Catch,
             Recover, ResumeEnds, vars
    <3>2. QED
      BY <3>1, BudgetRange DEF TypeOK, Budget
  <2>2. UNCHANGED resumes \/ (Recover /\ resumes' = resumes + 1 /\ resumes < Budget)
    BY DEF Next, Connect, ConnectFails, InitializeFails, Thread,
           TurnNotStarted, TurnFails, ProcessGone, TurnEnds, Close, Catch,
           Recover, MayResume, ResumeEnds, vars
  <2>3. resumes \in 0 .. Budget /\ opts \in Options
    BY DEF TypeOK
  <2>4. QED
    BY <2>1, <2>2, <2>3
<1>1. CASE Connect \/ ConnectFails \/ InitializeFails
  <2>1. spawned' \in SUBSET {"broker", "app-server", "resume"}
    BY <1>1 DEF Connect, ConnectFails, InitializeFails, OverBroker,
                OverOwnServer, TypeOK
  <2>2. QED
    BY <1>0, <1>1, <2>1
    DEF Connect, ConnectFails, InitializeFails, TypeOK, Errors
<1>2. CASE Thread
  BY <1>0, <1>2 DEF Thread, Fail, RequestErrors, TypeOK, Errors
<1>3. CASE TurnNotStarted \/ TurnFails \/ ProcessGone
  <2>0. error' \in Errors /\ pc' \in {"catch", "gone"}
    BY <1>3 DEF TurnNotStarted, TurnFails, ProcessGone, Fail, RequestErrors,
                TypeOK, Errors
  <2>1. client # "none"
    BY <1>3 DEF TurnNotStarted, TurnFails, ProcessGone, ClientInv
  <2>2. turns' \in Seq(Turns)
    BY <1>3, <2>1, TakenFacts DEF TurnNotStarted, TurnFails, ProcessGone, TypeOK
  <2>3. QED
    BY <1>0, <1>3, <2>0, <2>2 DEF TurnNotStarted, TurnFails, ProcessGone, TypeOK
<1>4. CASE TurnEnds
  <2>1. client # "none"
    BY <1>4 DEF TurnEnds, ClientInv
  <2>2. turns' \in Seq(Turns)
    BY <1>4, <2>1, TakenFacts DEF TurnEnds
  <2>3. QED
    BY <1>0, <1>4, <2>2 DEF TurnEnds, StatusOf, TypeOK, Errors
<1>5. CASE Close
  <2>1. turns' \in Seq(Turns) /\ client' = "none"
    BY <1>5, ClosedFacts DEF Close, Closed
  <2>2. QED
    BY <1>0, <1>5, <2>1 DEF Close, TypeOK
<1>6. CASE Catch
  <2>1. turns' \in Seq(Turns) /\ client' = "none"
    BY <1>6, ClosedFacts DEF Catch, Closed
  <2>2. QED
    BY <1>0, <1>6, <2>1 DEF Catch, TypeOK, Errors
<1>7. CASE Recover
  BY <1>0, <1>7 DEF Recover, MayResume, TypeOK
<1>8. CASE ResumeEnds
  BY <1>0, <1>8 DEF ResumeEnds, ResumeResult, TypeOK
<1>9. CASE UNCHANGED vars
  BY <1>0, <1>9 DEF vars, TypeOK
<1>10. QED
  BY <1>1, <1>2, <1>3, <1>4, <1>5, <1>6, <1>7, <1>8, <1>9 DEF Next

----------------------------------------------------------------------------
\* Every step keeps the invariant.

LEMMA SameTurns ==
  ASSUME NoTurnTwice, UNCHANGED turns
  PROVE  NoTurnTwice'
BY DEF NoTurnTwice

LEMMA StepConnect ==
  ASSUME TypeOK, RunInv, Connect \/ ConnectFails \/ InitializeFails
  PROVE  RunInv'
<1>1. /\ pc = "connect" /\ pc' \in {"thread", "catch"}
      /\ pc' = "thread" => client' # "none"
      /\ pc' = "catch" => client' = client
      /\ UNCHANGED <<opts, retried, model, turns, resumer, result>>
  BY DEF Connect, ConnectFails, InitializeFails
<1>2. client = "none" /\ Retriable /\ result # "0"
  BY <1>1 DEF RunInv, ClientInv, Retriable, ResultInv
<1>3. SubagentInv'
  BY <1>1, <1>2
  DEF RunInv, SubagentInv, Connect, ConnectFails, InitializeFails, OverBroker,
      OverOwnServer, WantsDirect
<1>4. ReadyInv'
  BY <1>1, <1>2 DEF RunInv, ReadyInv
\* Whoever connects has left nothing open before.
<1>5. LeftInv'
  <2>1. left = 0
    BY <1>1 DEF RunInv, LeftInv
  <2>2. \/ left' = 0
        \/ left' = 1 /\ pc' = "catch" /\ error' \in {"expired", "other"}
    BY <2>1 DEF Connect, ConnectFails, InitializeFails
  <2>3. QED
    BY <1>1, <1>2, <2>2 DEF LeftInv
<1>6. QED
  BY <1>1, <1>2, <1>3, <1>4, <1>5, SameTurns
  DEF RunInv, ClientInv, ClosedInv, ResultInv,
    LeftInv

LEMMA StepThread ==
  ASSUME TypeOK, RunInv, Thread
  PROVE  RunInv'
<1>1. /\ pc = "thread" /\ pc' \in {"turn", "catch"}
      /\ UNCHANGED <<opts, client, left, retried, model, turns, spawned, resumer,
                     result>>
  BY DEF Thread, Fail
<1>2. client # "none" /\ Retriable /\ result # "0"
  BY <1>1 DEF RunInv, ClientInv, Retriable, ResultInv
<1>3. ReadyInv'
  BY <1>1, <1>2 DEF RunInv, ReadyInv
<1>4. QED
  BY <1>1, <1>2, <1>3, SameTurns
  DEF RunInv, ClientInv, SubagentInv, ClosedInv, ResultInv,
    LeftInv

\* A turn is taken only after turns that were turned down for their model.
LEMMA TakenOnce ==
  ASSUME TypeOK, RunInv, pc = "turn",
         NEW end \in {"live", "completed", "failed", "model"},
         turns' = Taken(end)
  PROVE  /\ NoTurnTwice'
         /\ Len(turns') > 0 /\ turns'[Len(turns')].end = end
         /\ end = "model" => \A i \in 1..Len(turns') : turns'[i].end = "model"
<1>1. /\ client # "none" /\ Retriable
  BY DEF RunInv, ClientInv, Retriable
<1>2. /\ Len(turns') = Len(turns) + 1 /\ Len(turns) \in Nat
      /\ \A i \in 1..Len(turns) : turns'[i] = turns[i]
      /\ turns'[Len(turns) + 1] = [where |-> client, model |-> model, end |-> end]
      /\ \A i \in 1..Len(turns') : i \in 1..Len(turns) \/ i = Len(turns) + 1
  BY <1>1, TakenFacts
<1>3. DOMAIN turns' = 1..Len(turns')
  BY <1>1, TakenFacts, LenProperties
<1>4. /\ \A i \in 1..Len(turns) : turns[i].end = "model"
      /\ Len(turns) > 0 => model = "fallback"
  BY <1>1 DEF RunInv, ReadyInv
<1>5. ASSUME NEW i \in DOMAIN turns', NEW j \in DOMAIN turns', i < j
      PROVE  turns'[i].end = "model" /\ turns'[j].model = "fallback"
  <2>1. i \in 1..Len(turns)
    BY <1>2, <1>3, <1>5
  <2>2. turns'[i].end = "model" /\ model = "fallback"
    BY <1>2, <1>4, <2>1
  <2>3. CASE j = Len(turns) + 1
    BY <1>2, <2>2, <2>3
  <2>4. CASE j \in 1..Len(turns)
    <3>1. DOMAIN turns = 1..Len(turns)
      BY LenProperties DEF TypeOK
    <3>2. turns[j].model = "fallback"
      BY <1>5, <2>1, <2>4, <3>1 DEF RunInv, NoTurnTwice
    <3>3. QED
      BY <1>2, <2>2, <2>4, <3>2
  <2>5. QED
    BY <1>2, <1>3, <2>3, <2>4
<1>6. NoTurnTwice'
  BY <1>5 DEF NoTurnTwice
<1>7. QED
  BY <1>2, <1>4, <1>6

LEMMA StepTurnLost ==
  ASSUME TypeOK, RunInv, TurnNotStarted \/ TurnFails \/ ProcessGone
  PROVE  RunInv'
<1>1. /\ pc = "turn" /\ pc' \in {"catch", "gone"}
      /\ UNCHANGED <<opts, client, left, retried, model, spawned, resumer, result>>
  BY DEF TurnNotStarted, TurnFails, ProcessGone, Fail
<1>2. Retriable /\ result # "0"
  BY <1>1 DEF RunInv, Retriable, ResultInv
<1>3. \/ UNCHANGED turns
      \/ \E end \in {"live", "completed", "failed", "model"} :
           /\ turns' = Taken(end)
           /\ pc' = "catch" => error' \notin {"busy", "unreachable"}
  BY DEF TurnNotStarted, TurnFails, ProcessGone, Fail
<1>4. NoTurnTwice'
  BY <1>1, <1>3, SameTurns, TakenOnce DEF RunInv
<1>5. ReadyInv'
  BY <1>1, <1>2, <1>3 DEF RunInv, ReadyInv, Retriable
<1>6. QED
  BY <1>1, <1>2, <1>4, <1>5
  DEF RunInv, ClientInv, SubagentInv, ClosedInv, ResultInv,
    LeftInv

LEMMA StepTurnEnds ==
  ASSUME TypeOK, RunInv, TurnEnds
  PROVE  RunInv'
<1>1. PICK end \in {"completed", "failed"}, late \in {"none", "model", "timeout"} :
        /\ late # "none" => end = "failed"
        /\ turns' = Taken(IF late = "model" THEN "model" ELSE end)
        /\ IF FallsBack(late) /\ opts.kind = "task"
           THEN model' = "fallback" /\ UNCHANGED <<pc, error, result>>
           ELSE /\ pc' = "close"
                /\ result' = StatusOf(end)
                /\ error' = IF late = "timeout" THEN "timeout" ELSE "none"
                /\ UNCHANGED model
  BY DEF TurnEnds
<1>2. /\ pc = "turn"
      /\ UNCHANGED <<opts, client, left, retried, spawned, resumer>>
  BY DEF TurnEnds
<1> DEFINE last == IF late = "model" THEN "model" ELSE end
<1>3. /\ NoTurnTwice'
      /\ Len(turns') > 0 /\ turns'[Len(turns')].end = last
      /\ last = "model" => \A i \in 1..Len(turns') : turns'[i].end = "model"
  BY <1>1, <1>2, TakenOnce
<1>4. client # "none" /\ result # "0"
  BY <1>2 DEF RunInv, ClientInv, ResultInv
<1>5. CASE FallsBack(late) /\ opts.kind = "task"
  <2>1. late = "model" /\ model' = "fallback" /\ UNCHANGED <<pc, error, result>>
    BY <1>1, <1>5 DEF FallsBack
  <2>2. QED
    BY <1>2, <1>3, <1>4, <2>1
    DEF RunInv, ClientInv, SubagentInv, ReadyInv, ClosedInv, ResultInv,
    LeftInv
<1>6. CASE ~(FallsBack(late) /\ opts.kind = "task")
  <2>1. /\ pc' = "close" /\ result' = StatusOf(end)
        /\ error' = IF late = "timeout" THEN "timeout" ELSE "none"
    BY <1>1, <1>6
  <2>2. result' = "0" => end = "completed" /\ last = "completed"
                         /\ error' # "timeout"
    BY <1>1, <2>1 DEF StatusOf
  <2>3. QED
    BY <1>2, <1>3, <1>4, <2>1, <2>2
    DEF RunInv, ClientInv, SubagentInv, ReadyInv, Retriable, ClosedInv, ResultInv,
    LeftInv
<1>7. QED
  BY <1>5, <1>6

\* What closing the connection means for the turns.
LEMMA ClosedKeeps ==
  ASSUME TypeOK, RunInv, Closed
  PROVE  /\ NoTurnTwice' /\ client' = "none"
         /\ \A i \in 1..Len(turns') :
              turns'[i].where = "direct" => turns'[i].end # "live"
         /\ Len(turns') = Len(turns) /\ Len(turns) \in Nat
         /\ \A i \in 1..Len(turns) :
              turns[i].end # "live" => turns'[i].end = turns[i].end
<1>1. /\ turns' \in Seq(Turns) /\ Len(turns') = Len(turns)
      /\ DOMAIN turns = 1..Len(turns) /\ DOMAIN turns' = 1..Len(turns)
  BY ClosedFacts, LenProperties DEF TypeOK
<1>2. NoTurnTwice'
  BY <1>1, ClosedFacts DEF RunInv, NoTurnTwice
<1>3. QED
  BY <1>1, <1>2, ClosedFacts DEF Closed

LEMMA StepClose ==
  ASSUME TypeOK, RunInv, Close
  PROVE  RunInv'
<1> DEFINE late == IF turns[Len(turns)].end = "model" THEN "model" ELSE "none"
<1>1. /\ pc = "close" /\ Closed
      /\ UNCHANGED <<opts, left, error, spawned, resumer>>
  BY DEF Close
<1>2. Len(turns) > 0 /\ (error = "timeout" => result # "0")
  BY <1>1 DEF RunInv, ResultInv
<1>3. CASE opts.kind = "review" /\ FallsBack(late)
  <2>1. /\ pc' = "connect" /\ model' = "fallback" /\ retried' = FALSE
        /\ result' = "none"
    BY <1>3 DEF Close
  <2>2. turns[Len(turns)].end = "model"
    BY <1>3 DEF FallsBack
  <2>3. \A i \in 1..Len(turns) : turns[i].end = "model"
    <3>1. PICK n \in Nat : n = Len(turns) /\ DOMAIN turns = 1..n
      BY LenProperties DEF TypeOK
    <3>2. \A i \in 1..n : i = n \/ i < n
      OBVIOUS
    <3>3. n \in 1..n
      BY <1>2, <3>1
    <3>4. \A i \in 1..n : i < n => turns[i].end = "model"
      BY <3>1, <3>3 DEF RunInv, NoTurnTwice
    <3>5. QED
      BY <2>2, <3>1, <3>2, <3>4
  <2>4. ReadyInv'
    BY <1>1, <2>1, <2>3, ClosedKeeps DEF ReadyInv
  <2>5. QED
    BY <1>1, <2>1, <2>4, ClosedKeeps
    DEF RunInv, ClientInv, SubagentInv, ClosedInv, ResultInv,
    LeftInv
<1>4. CASE ~(opts.kind = "review" /\ FallsBack(late))
  <2>1. /\ pc' \in {"recover", "done"}
        /\ pc' = "recover" => error = "timeout"
        /\ UNCHANGED <<model, retried, result>>
    BY <1>4 DEF Close
  <2>2. ResultInv'
    BY <1>1, <1>2, <2>1, ClosedKeeps DEF RunInv, ResultInv
  <2>3. QED
    BY <1>1, <2>1, <2>2, ClosedKeeps
    DEF RunInv, ClientInv, SubagentInv, ReadyInv, Retriable, ClosedInv,
        LeftInv
<1>5. QED
  BY <1>3, <1>4

LEMMA StepCatch ==
  ASSUME TypeOK, RunInv, Catch
  PROVE  RunInv'
<1>1. /\ pc = "catch" /\ Closed
      /\ UNCHANGED <<opts, left, model, spawned, resumer>>
  BY DEF Catch
<1>2. result # "0"
  BY <1>1 DEF RunInv, ResultInv
<1>3. CASE ShouldRetryDirect
  <2>1. pc' = "connect" /\ ~opts.requireBroker /\ UNCHANGED result
        /\ error \in {"busy", "unreachable"}
    BY <1>3 DEF Catch, ShouldRetryDirect
  <2>2. ReadyInv'
    BY <1>1, <2>1, ClosedKeeps DEF RunInv, ReadyInv, Retriable
  <2>3. QED
    BY <1>1, <1>2, <2>1, <2>2, ClosedKeeps
    DEF RunInv, ClientInv, SubagentInv, ClosedInv, ResultInv,
    LeftInv
<1>4. CASE ~ShouldRetryDirect
  <2>1. /\ pc' \in {"recover", "done"} /\ result' \in {result, "thrown"}
        /\ UNCHANGED retried
    BY <1>4 DEF Catch
  <2>2. QED
    BY <1>1, <1>2, <2>1, ClosedKeeps
    DEF RunInv, ClientInv, SubagentInv, ReadyInv, Retriable, ClosedInv, ResultInv,
    LeftInv
<1>5. QED
  BY <1>3, <1>4

LEMMA StepRecovery ==
  ASSUME TypeOK, RunInv, Recover \/ ResumeEnds
  PROVE  RunInv'
<1>1. /\ pc \in {"recover", "resume"} /\ pc' \in {"recover", "resume", "done"}
      /\ UNCHANGED <<opts, client, left, retried, model, turns>>
  BY DEF Recover, ResumeEnds
<1>2. result # "0"
  BY <1>1 DEF RunInv, ResultInv
<1>3. opts.requireBroker => UNCHANGED spawned
  BY DEF Recover, ResumeEnds, MayResume
<1>4. result' = "0" => pc' = "done" /\ resumer' = "ok"
  BY <1>2 DEF Recover, ResumeEnds, ResumeResult
<1>5. QED
  BY <1>1, <1>2, <1>3, <1>4, SameTurns
  DEF RunInv, ClientInv, SubagentInv, ReadyInv, Retriable, ClosedInv, ResultInv,
    LeftInv

LEMMA StepRunInv == TypeOK /\ RunInv /\ [Next]_vars => RunInv'
<1>1. ASSUME RunInv, UNCHANGED vars PROVE RunInv'
  BY <1>1, SameTurns
  DEF vars, RunInv, ClientInv, SubagentInv, ReadyInv, Retriable, ClosedInv,
      ResultInv, LeftInv
<1>2. QED
  BY <1>1, StepConnect, StepThread, StepTurnLost, StepTurnEnds, StepClose,
     StepCatch, StepRecovery
  DEF Next

LEMMA InitRunInv == Init => TypeOK /\ RunInv
<1> SUFFICES ASSUME Init PROVE TypeOK /\ RunInv
  OBVIOUS
<1>1. TypeOK
  <2>1. resumes \in 0 .. Budget
    BY BudgetRange DEF Init
  <2>2. turns \in Seq(Turns)
    BY EmptySeq DEF Init
  <2>3. QED
    BY <2>1, <2>2 DEF Init, TypeOK, Errors
<1>2. ReadyInv /\ ClosedInv /\ NoTurnTwice
  BY EmptySeq DEF Init, ReadyInv, ClosedInv, NoTurnTwice
<1>3. ClientInv /\ SubagentInv /\ ResultInv /\ LeftInv
  BY DEF Init, ClientInv, SubagentInv, ResultInv, LeftInv
<1>4. QED
  BY <1>1, <1>2, <1>3 DEF RunInv

\* The variables of a run keep their types, and the invariant above holds in
\* every state of it.
THEOREM RunInvariant == Spec => [](TypeOK /\ RunInv)
<1>1. TypeOK /\ RunInv /\ [Next]_vars => TypeOK' /\ RunInv'
  BY StepTypeOK, StepRunInv DEF RunInv
<1>2. QED
  BY <1>1, InitRunInv, PTL DEF Spec

----------------------------------------------------------------------------
\* The properties.

\* A codex-rescue subagent spawns no broker, no app-server and no resume, on
\* any path and with any retry budget.
THEOREM SubagentStaysInside == Spec => []SubagentSpawnsNothing
<1>1. TypeOK /\ RunInv => SubagentSpawnsNothing
  BY DEF RunInv, SubagentInv, SubagentSpawnsNothing
<1>2. QED
  BY <1>1, RunInvariant, PTL

\* However often the connection is retried, the prompt becomes a second turn
\* only after the first was turned down for its model.
THEOREM TurnTakenOnce == Spec => []NoTurnTwice
<1>1. TypeOK /\ RunInv => NoTurnTwice
  BY DEF RunInv
<1>2. QED
  BY <1>1, RunInvariant, PTL

\* Success is reported only of a turn, or of a resume, that completed.
THEOREM SuccessIsEarned == Spec => []ResultTruthful
<1>1. TypeOK /\ RunInv => ResultTruthful
  BY EmptySeq DEF RunInv, ResultInv, ResultTruthful
<1>2. QED
  BY <1>1, RunInvariant, PTL

\* A finished run leaves no connection open that was initialized and no turn of
\* its own going; it leaves at most one whose initialize failed, and then only
\* a resume makes it a success.
THEOREM RunCleansUp == Spec => []OnlyUninitializedLeft
<1>1. TypeOK /\ RunInv => OnlyUninitializedLeft
  <2>1. TypeOK => DOMAIN turns = 1..Len(turns)
    BY LenProperties DEF TypeOK
  <2>2. QED
    BY <2>1 DEF RunInv, ClientInv, ClosedInv, LeftInv, OnlyUninitializedLeft
<1>2. QED
  BY <1>1, RunInvariant, PTL
=============================================================================
