------------------------------ MODULE TurnRun ------------------------------
(***************************************************************************)
(* A command that runs a prompt, a review or a steering message on an      *)
(* app-server (lib/codex.mjs, lib/app-server.mjs): it connects through the *)
(* broker of the workspace or spawns an app-server of its own, starts or   *)
(* resumes a thread, captures a turn, closes the connection, and on failure *)
(* may connect directly instead, try the fallback model, or resume a thread *)
(* that timed out with codex exec resume.                                  *)
(*                                                                         *)
(* How a capture ends is taken from TurnCapture: one of its outcomes, or a  *)
(* start request that was refused, expired or lost.                        *)
(***************************************************************************)
EXTENDS Integers, Sequences

CONSTANT Budgets  \* values of CODEX_PLUGIN_TIMEOUT_RESUME_RETRY_BUDGET

ASSUME BudgetsAssumption == Budgets \subseteq Int

VARIABLES
  opts,    \* what the caller asked for
  pc,      \* the step of the run
  client,  \* the transport of the connection withAppServer has
  left,    \* connections left open: their initialize has failed
  retried, \* the run goes on with a direct connection
  model,   \* "default" (or the caller's) or "fallback"
  error,   \* why the attempt failed
  turns,   \* the turns the app-servers have taken for the prompt
  spawned, \* what this process has spawned
  resumes, \* codex exec resume: attempts made
  resumer, \* and how the last one ended
  result   \* what the caller gets

vars == <<opts, pc, client, left, retried, model, error, turns, spawned,
          resumes, resumer, result>>

Errors == {"none", "busy", "unreachable", "timeout", "expired", "other",
           "no_broker", "subagent_busy"}

Options ==
  {o \in [kind : {"task", "review", "steer"}, requireBroker : BOOLEAN,
          direct : BOOLEAN, endpoint : BOOLEAN, explicitModel : BOOLEAN,
          resumed : BOOLEAN, raw : Budgets] :
     /\ o.requireBroker \/ o.resumed => o.kind = "task"
     /\ o.kind = "steer" => ~o.direct}

Turns == [where : {"broker", "direct"}, model : {"default", "fallback"},
          end : {"live", "completed", "failed", "model", "killed"}]

\* resolveTimeoutResumeRetryBudget.
Budget == IF opts.raw < 0 THEN 0 ELSE IF opts.raw > 2 THEN 2 ELSE opts.raw

TypeOK ==
  /\ opts \in Options
  /\ pc \in {"connect", "thread", "turn", "close", "catch", "recover",
             "resume", "done", "gone"}
  /\ client \in {"none", "broker", "direct"}
  /\ left \in Nat
  /\ retried \in BOOLEAN
  /\ model \in {"default", "fallback"}
  /\ error \in Errors
  /\ turns \in Seq(Turns)
  /\ spawned \in SUBSET {"broker", "app-server", "resume"}
  /\ resumes \in 0 .. Budget
  /\ resumer \in {"none", "running", "ok", "failed", "timeout"}
  /\ result \in {"none", "0", "1", "124", "thrown"}

Init ==
  /\ opts \in Options
  /\ pc = "connect" /\ client = "none" /\ left = 0 /\ retried = FALSE
  /\ model = "default" /\ error = "none" /\ turns = <<>> /\ spawned = {}
  /\ resumes = 0 /\ resumer = "none" /\ result = "none"

----------------------------------------------------------------------------
\* CodexAppServerClient.connect.

WantsDirect == retried \/ (~opts.requireBroker /\ opts.direct)

\* An existing broker is required, or used, or ensured.
OverBroker ==
  /\ ~WantsDirect
  /\ spawned' \in IF opts.requireBroker \/ opts.endpoint THEN {spawned}
                  ELSE {spawned, spawned \union {"broker"}}

\* An app-server of one's own, on demand or when no broker could be ensured.
OverOwnServer ==
  /\ WantsDirect \/ (~opts.requireBroker /\ ~opts.endpoint)
  /\ spawned' = spawned \union {"app-server"}

Connect ==
  /\ pc = "connect"
  /\ \/ OverBroker /\ client' = "broker"
     \/ OverOwnServer /\ client' = "direct"
  /\ pc' = "thread"
  /\ UNCHANGED <<opts, left, retried, model, error, turns, resumes, resumer,
                 result>>

\* There is no connection: no broker for a subagent, no socket or command to
\* reach, the broker lock not free in time, an app-server that exits.
ConnectFails ==
  /\ pc = "connect"
  /\ spawned' = spawned \/ OverBroker \/ OverOwnServer
  /\ \/ opts.requireBroker /\ ~retried /\ error' = "no_broker"
     \/ error' \in {"unreachable", "other"}
  /\ pc' = "catch"
  /\ UNCHANGED <<opts, client, left, retried, model, turns, resumes, resumer,
                 result>>

\* initialize is refused, expires, or its answer is garbled: connect throws,
\* so withAppServer has no client to close, and the socket or the app-server
\* stays.
InitializeFails ==
  /\ pc = "connect"
  /\ OverBroker \/ OverOwnServer
  /\ left' = left + 1
  /\ error' \in {"expired", "other"}
  /\ pc' = "catch"
  /\ UNCHANGED <<opts, client, retried, model, turns, resumes, resumer, result>>

----------------------------------------------------------------------------
\* The function that runs on the connection.

Fail(e) == error' = e /\ pc' = "catch"

RequestErrors == {"expired", "other"}
                 \union IF client = "broker" THEN {"busy"} ELSE {}

\* thread/start and thread/name/set, or thread/resume; a steering message
\* needs none.
Thread ==
  /\ pc = "thread"
  /\ \/ pc' = "turn" /\ UNCHANGED error
     \/ opts.kind # "steer" /\ \E e \in RequestErrors : Fail(e)
  /\ UNCHANGED <<opts, client, left, retried, model, turns, spawned, resumes,
                 resumer, result>>

Taken(end) == Append(turns, [where |-> client, model |-> model, end |-> end])

\* The start request is refused by the broker or the app-server, or it is
\* lost or expires: then the app-server may have taken it.
TurnNotStarted ==
  /\ pc = "turn"
  /\ \/ \E e \in RequestErrors : Fail(e) /\ UNCHANGED turns
     \/ \E e \in {"expired", "other"} : Fail(e) /\ turns' = Taken("live")
  /\ UNCHANGED <<opts, client, left, retried, model, spawned, resumes, resumer,
                 result>>

\* An error notification, the finalizing timer, or the watchdog: only its
\* error names the thread.
TurnFails ==
  /\ pc = "turn"
  /\ \/ /\ \E e \in {"expired", "other"} : Fail(e)
        /\ turns' = Taken("failed")
     \/ /\ \E e \in {"other", "timeout"} : Fail(e)
        /\ turns' = Taken("live")
  /\ UNCHANGED <<opts, client, left, retried, model, spawned, resumes, resumer,
                 result>>

\* The capture takes the process with it.
ProcessGone ==
  /\ pc = "turn"
  /\ pc' = "gone"
  /\ turns' \in {turns, Taken("live")}
  /\ UNCHANGED <<opts, client, left, retried, model, error, spawned, resumes,
                 resumer, result>>

FallsBack(late) ==
  ~opts.explicitModel /\ model = "default" /\ late = "model"

\* buildResultStatus.
StatusOf(end) == IF end = "completed" THEN "0" ELSE "1"

\* The turn is over; an error may have been reported besides.  A task that
\* wants the fallback starts the turn again on the same thread.
TurnEnds ==
  /\ pc = "turn"
  /\ \E end \in {"completed", "failed"},
        late \in {"none", "model", "timeout"} :
       /\ late # "none" => end = "failed"
       /\ turns' = Taken(IF late = "model" THEN "model" ELSE end)
       /\ IF FallsBack(late) /\ opts.kind = "task"
          THEN model' = "fallback" /\ UNCHANGED <<pc, error, result>>
          ELSE /\ pc' = "close"
               /\ result' = StatusOf(end)
               /\ error' = IF late = "timeout" THEN "timeout" ELSE "none"
               /\ UNCHANGED model
  /\ UNCHANGED <<opts, client, left, retried, spawned, resumes, resumer>>

----------------------------------------------------------------------------
\* withAppServer.

\* close(): an app-server of one's own ends, with its turns.
Closed ==
  /\ client' = "none"
  /\ turns' = [i \in DOMAIN turns |->
                 IF turns[i].where = "direct" /\ turns[i].end = "live"
                 THEN [turns[i] EXCEPT !.end = "killed"] ELSE turns[i]]

\* The function has returned.  A review whose model was too new runs again as
\* a whole; a task whose error tells of a timeout is recovered.
Close ==
  /\ pc = "close"
  /\ Closed
  /\ LET late == IF turns[Len(turns)].end = "model" THEN "model" ELSE "none" IN
       IF opts.kind = "review" /\ FallsBack(late)
       THEN /\ pc' = "connect"
            /\ model' = "fallback" /\ retried' = FALSE /\ result' = "none"
       ELSE /\ pc' = IF opts.kind = "task" /\ error = "timeout" THEN "recover"
                                                               ELSE "done"
            /\ UNCHANGED <<model, retried, result>>
  /\ UNCHANGED <<opts, left, error, spawned, resumes, resumer>>

\* Mutant: every failure over the broker is retried.
ShouldRetryAlways == ~retried /\ ~opts.requireBroker /\ client = "broker"

\* Mutant: a connect that fails is retried whatever it failed with.
ShouldRetryConnect ==
  ~retried /\ ~opts.requireBroker /\ client # "direct"

ShouldRetryDirect ==
  /\ ~retried
  /\ ~opts.requireBroker
  /\ \/ client = "broker" /\ error = "busy" /\ opts.kind # "steer"
     \/ (client = "broker" \/ opts.endpoint) /\ error = "unreachable"

IsTimeout(e) == e \in {"timeout", "expired"}

\* The connection is closed, then the function runs once more on a direct
\* one, or the error goes to the caller, which recovers a task's timeout.
Catch ==
  /\ pc = "catch"
  /\ Closed
  /\ IF ShouldRetryDirect
     THEN /\ pc' = "connect" /\ retried' = TRUE /\ error' = "none"
          /\ UNCHANGED result
     ELSE /\ error' = IF opts.requireBroker /\ error = "busy"
                      THEN "subagent_busy" ELSE error
          /\ IF opts.kind = "task" /\ IsTimeout(error)
             THEN pc' = "recover" /\ UNCHANGED result
             ELSE pc' = "done" /\ result' = "thrown"
          /\ UNCHANGED retried
  /\ UNCHANGED <<opts, left, model, spawned, resumes, resumer>>

----------------------------------------------------------------------------
\* recoverTimedOutAppServerTurn and resumeTimedOutThread.

ThreadKnown == error = "timeout" \/ opts.resumed

\* Mutant: a subagent resumes as well.
MayResumeAnywhere == ThreadKnown /\ resumes < Budget

MayResume == ~opts.requireBroker /\ ThreadKnown /\ resumes < Budget

Recover ==
  /\ pc = "recover"
  /\ IF MayResume
     THEN /\ pc' = "resume"
          /\ resumes' = resumes + 1
          /\ spawned' = spawned \union {"resume"}
          /\ resumer' = "running"
          /\ UNCHANGED result
     ELSE /\ pc' = "done" /\ result' = "124"
          /\ UNCHANGED <<resumes, resumer, spawned>>
  /\ UNCHANGED <<opts, client, left, retried, model, error, turns>>

\* Mutant: a resume that was killed counts as an answer.
ResumeResultLenient(outcome) == IF outcome = "failed" THEN "1" ELSE "0"

ResumeResult(outcome) == CASE outcome = "ok"     -> "0"
                           [] outcome = "failed" -> "1"
                           [] outcome = "timeout" -> "none"

\* The child exits, fails to start, or is sent SIGTERM; whichever is first
\* settles the attempt, and only a timeout leads to the next.
ResumeEnds ==
  /\ pc = "resume"
  /\ \E outcome \in {"ok", "failed", "timeout"} :
       /\ resumer' = outcome
       /\ result' = ResumeResult(outcome)
       /\ pc' = IF ResumeResult(outcome) = "none" THEN "recover" ELSE "done"
  /\ UNCHANGED <<opts, client, left, retried, model, error, turns, spawned,
                 resumes>>

----------------------------------------------------------------------------
Next ==
  \/ Connect \/ ConnectFails \/ InitializeFails
  \/ Thread \/ TurnNotStarted \/ TurnFails \/ ProcessGone \/ TurnEnds
  \/ Close \/ Catch \/ Recover \/ ResumeEnds

Spec == Init /\ [][Next]_vars

----------------------------------------------------------------------------
\* Properties.

\* A codex-rescue subagent spawns nothing itself, on no path: no broker, no
\* app-server, no resume (codex.mjs:912-918, 2262-2266).
SubagentSpawnsNothing == opts.requireBroker => spawned = {}

\* The prompt becomes a second turn only when the first was turned down for
\* its model, never because the connection is retried (codex.mjs:1678-1684).
NoTurnTwice ==
  \A i, j \in DOMAIN turns :
    i < j => turns[i].end = "model" /\ turns[j].model = "fallback"

\* Success is reported only of a turn that completed, or of a resume that did.
ResultTruthful ==
  pc = "done" /\ result = "0"
    => \/ turns # <<>> /\ turns[Len(turns)].end = "completed"
       \/ resumer = "ok"

\* When the run is over, every connection that was initialized is closed and
\* no turn goes on in an app-server of its own.  A connection whose initialize
\* failed is left open for as long as the process lives, and keeps it alive;
\* that happens at most once in a run, which goes on with nothing but a resume
\* and succeeds by nothing else (codex.mjs:921-985, app-server.mjs:812-816).
OnlyUninitializedLeft ==
  pc = "done" =>
    /\ client = "none"
    /\ \A i \in DOMAIN turns :
         turns[i].where = "direct" => turns[i].end # "live"
    /\ left <= 1
    /\ left = 1 /\ result = "0" => resumer = "ok"
============================================================================
