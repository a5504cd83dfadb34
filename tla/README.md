# A formal model of the opnd-codex plugin

The plugin lets Claude Code hand work to the Codex app-server. Many short-lived
Node processes (slash commands, hooks, background workers) share two things: one
*broker* process per workspace that multiplexes a single app-server, and one
*state directory* with an index of jobs, a file per job and two directory locks.
What is hard to test in it is what these processes do to each other in between
two file operations, two awaits or two messages. This directory holds TLA+ models
of those parts, TLC runs of them, and TLAPS proofs.

Paths are relative to `plugins/opnd-codex/scripts/` unless they say otherwise.

## 1. Inventory

| component | code | state it keeps | operations | what makes it hard |
|---|---|---|---|---|
| turn ownership | `lib/broker-turn-ownership.mjs` | five slots: request owner, stream owner and its threads, provisional claim, superseded stream | busy check, begin / settle / fail a request, turn completed, socket released | responses and notifications arrive in either order; a claim may replace the stream of the turn before |
| broker | `app-server-broker.mjs` | sockets, a promise chain of lines per socket, forwarded server requests | handle a line, route notifications and server requests, close, sweep, shut down, idle watchdog | handlers of several sockets interleave at every await; queued lines survive their socket |
| directory locks | `lib/state.mjs` 311-469 | lock directory, `owner` file | acquire (mkdir, write owner), judge stale, remove, release | crash at any step, pid reuse, verdict and removal are separate |
| job store | `lib/state.mjs` 471-785 | index `state.json`, job files | locked updates, prune, reap dead jobs | index and file are never written together; the cap; liveness judged by pid and age |
| job lifecycle | `codex-companion.mjs`, `lib/tracked-jobs.mjs`, `session-lifecycle-hook.mjs` | one job's record in both places, worker process | enqueue, spawn (directly or by the broker), run, progress, end, signal, cancel, session end | five kinds of process write the same record; lost answers; deaths |
| approvals | `codex-companion.mjs` 354-540, `lib/approvals.mjs` | approvals list in file and index | request, wait and look, decide, time out, cancel | read-then-replace of a whole list by several processes |
| broker session | `lib/broker-lifecycle.mjs`, `session-lifecycle-hook.mjs` | `broker.json`, pid file, endpoint | ensure, reuse, tear down, sweep | spawn under a lock, idle exit against connect, stale pids |
| turn capture | `lib/codex.mjs` | per-turn capture state, handler stack | start turn, buffer notifications, complete, infer completion, watchdog | notifications before the turn id is known; nested subagent turns |
| app-server client | `lib/app-server.mjs`, `lib/codex.mjs` 896-979, 1621-2365 | pending requests by id, one connection | connect, request, response, timeout, exit; direct retry, fallback model, resume after a timeout | late answers, transport end, retries of what may have run |
| job selection (not modelled) | `lib/job-control.mjs` | none (a snapshot of the index) | resolve a job for result, cancel, status, resume | ambiguity rules |
| telemetry, log tail, jsonl (not modelled) | `lib/telemetry.mjs`, `lib/log-tail.mjs`, `lib/jsonl.mjs` | append-only files | append, rotate, tail | rotation against append |
| stop-review gate, hooks | `stop-review-gate-hook.mjs`, `session-lifecycle-hook.mjs` | none of their own | run a review before stop; warm up; clean up jobs | time limits of hooks |
| daily evolve | `daily-evolve/`, `codex-companion.mjs` 3060-3360 | run ledger with its lock; cost baseline, draft cache, review log, digests without one | collect, judge, research forks, triage, propose, digest; weekly review; scheduler probe | runs by hand and by cron at once, runs that die at the lock, torn and newer state files |
| helpers, rendering, release scripts | `lib/git.mjs`, `lib/render.mjs`, ... | none | text and calls of other programs | nothing concurrent |

How they interact: a command or worker connects to the broker's socket and writes
JSON lines; the broker forwards requests to the app-server one stream at a time
and routes its notifications and requests to the stream's owner. A background job
is enqueued in index and file, its worker is spawned by the broker or directly,
and everyone else (status, cancel, approve, the reaper, SessionEnd) reads and
writes the same two places under the state lock. The approval requests that the
broker routes to a worker end up in the worker's job record and wait there.

What makes each correct, in a line: the broker runs one turn at a time and never
leaves its slot with a client that is gone; every message reaches the client it
is for; a lock excludes but for the gaps between its system calls, and survives
crashes; a job goes queued, running and to one end, everybody sees the same end, no live job is reaped or forgotten, and no
job stays active for ever; the app-server is told only what was decided, and is
always told something; a workspace has one broker and a broker nobody names ends; no
turn's end is missed and no prompt runs twice; a daily-evolve run is listed once, as
it ended, and tells what failed.

`PROJECT.json` lists the hazards at their lines.

## 2. Modules

| module | what it is |
|---|---|
| `TurnOwnership` | the ownership object: one operator per method of `createTurnOwnership`, on the slots as variables. A method that only reads is a predicate or a value, one that writes an action |
| `Broker` | EXTENDS it with sockets, the line queue of each (`chain`), the awaited request (`inflight`), the app-server's turns (`running`, `outbox`) and its requests to clients; `HandleLine` is the branch structure of `processSocketChunk` up to its await, `Settle` / `Fail` what follows it |
| `ExclusiveTurn` | abstract: one slot, held from asking for a turn until it is over |
| `DirLock` | the directory lock, one action per file system call |
| `JobStore` | index, files, prune, upsert: each operator is one locked section |
| `JobLifecycle` | EXTENDS it with the dispatcher, worker, reaper, cancel and SessionEnd as interleaved processes (`disp`, `worker`, `mirror`, `cancel`, `ending`) |
| `JobContract` | abstract: a job is enqueued or started, and ends once |
| `Approvals` | the approvals of one job: worker handlers, /approve and /deny, /cancel |
| `BrokerSession` | clients, session-end hooks and broker processes of a workspace, with `broker.json` (`record`), the broker lock and the session directories (`files`) |
| `TurnCapture` | one turn at a client: `captureTurn`, the state it drives, its timers and its connection |
| `TurnRun` | one command that runs a prompt: connect, thread, turn, close, retry, recover; a turn ends in one of the ways `TurnCapture` has |
| `EvolveSources`, `EvolveForks`, `EvolveActions` | the pure parts of daily-evolve: sources and verdicts; fork research and ranking; triage, cost cap, drafts, login health |
| `Evolve` | EXTENDS them with the processes, the ledger and its lock, and the state files |
| `BrokerProofs`, `DirLockProofs`, `JobProofs`, `ApprovalProofs`, `BrokerSessionProofs`, `TurnCaptureProofs`, `TurnRunProofs`, `EvolveProofs` | theorems about the module of that name (`JobProofs`: `JobLifecycle`) |
| `MCBroker`, `MCDirLock`, `MCJobLifecycle`, `MCApprovals`, `MCBrokerSession`, `MCTurnCapture`, `MCTurnRun`, `MCEvolve` | small constants for TLC |

`map` in `PROJECT.json` ties every definition to its lines. Operators whose
comment starts with *Mutant* are plausible mistakes in the definition that
follows them; they are not used by a specification.

### Correspondence

*Broker.* A Node process runs one handler at a time to its next await, so an
action is the stretch between two awaits. The broker's `dataChain` makes the
lines of one socket strictly sequential: `NextLine` takes the head of the queue
only while nothing of that socket is awaited. A close event is not in that chain,
so `CloseSocket` may happen at any time and the remaining lines are still
handled. `null` is `NoSocket`, `NoIds`, `NoClaim` or `NoStream`. The app-server is
external: it accepts a streaming request (`AppStart`), ends turns in any order,
raises requests of a running turn, and delivers each `turn/completed` in the order
of `outbox`, before or after the response of its request.

*DirLock.* `pc` is the file system call a process is about to make; `dir` is the
directory with its owner file and whether it is older than `STALE_LOCK_MS`; `seen`
is the pid the waiter has read. `WriteOwner` writes into whatever directory is
there at that time, and `Remove` removes it, as the calls do. Nothing keeps a waiter
from looking between mkdir and the owner file, the directory from changing between
verdict and removal, or a live holder from staying over 30 s. `robbed` and `outdated`
are history variables no guard reads: who took the lock and has lost its directory
through one of these gaps, and which waiters have read a directory that has changed
since.

*Jobs.* An entry keeps the status and whether a pid is recorded, the two things
that the reaper and the commands decide on. `fresh` says `updatedAt` is within the
grace of a queued dispatch. A worker's pid is alive exactly while its step is not
`none` or `dead`. `Reap` is the one locked update of the index, `Mirror` the
writing of the files after it. A signal moves the worker to the steps of
`markJobTerminated`. The state lock is taken as exclusive here; `DirLock` says
how far that holds.

*Approvals.* A list is a status per request. `Raise`, `LookFinds` and `End` read
the file and begin one of the worker's synchronous stretches (`op`), `WriteFile`
and `WriteIndex` are its two writes; `ReadList` and `StoreDecision` are the same of
a command; the cancel keeps the list it read over an await. `decided` is a history
variable: the verdicts users have stored, and the denials of the plugin itself.

*Broker session.* A broker is a number that stands for its pid, endpoint and session
directory, all new with every spawn. `phase` follows its process: `spawned`,
`starting` (pid file written), `serving`, `idling` or `draining` (`shutdown` awaits
the app-server, the socket still accepts), `closing` (awaits the sockets), `gone`.
A client goes through `ensureBrokerSession` under the lock (`Acquire` to `Ready` or
`NotReady`), then connects. `GiveUp` is the lock's time limit of two seconds, for
`Acquire` and `Restart`: the command fails (`failed`) and does not go on without a
broker. `TeardownThrows` is a teardown whose pid file somebody else removes between its
look and its unlink, the broker as it exits or another teardown: the command or hook
fails and `broker.json` stays. `Accept` is the broker's handling of a probe's connection
event, `active` that its idle grace has not passed. The session-end hook (`EndLoad`,
`EndAsk`, `EndTeardown`) takes no lock. `abandoned` is a history variable: brokers
whose record was never written or was cleared by someone who had not loaded it.

*Turn capture.* `server` and `request` are the two ends of turn/start or review/start;
`Notify` is one call of the notification handler, `Begin` what follows the awaited
response: the turn id is known and the buffer replayed. `cap` is the
`TurnCaptureState`, with each timer a member of `timers`. The app-server sends what it
likes in an order that respects that a subagent is started by a collaboration call
(which may not name it, `collab/unnamed`) and nothing of a thread follows its end; an
earlier turn of the same thread may send its completion at any time. An error of any
registered thread fails the capture: the code asks for the root thread of completions
only. `gone` is a process that ended without a result.

*Turn run.* `pc` is the step of `withAppServer` and of what is around it. A turn ends
as `TurnCapture` allows; `turns` keeps every one an app-server has taken for the
prompt, with where and for which model, and how it went there, which the client need
not know. `left` counts the connections of `InitializeFails`: `connect` throws before
`withAppServer` has a client, so nobody closes the socket or the app-server.

*Daily evolve.* A run takes the ledger's lock twice (`leg`), works without it in
between, and ends with the exit code of its status. `seen` is what a process read of
the file it is about to replace. Files are absent, torn, of a newer schema or good.
What a run collects is computed from a record of the world (`EvolveSources`), of
forks and of the login; texts are numbers.

### What the constants switch on

Each specification has a set constant that says what may happen beyond the
orderly case. It is there so that a run, or a theorem, can say exactly what it
needs; with the whole set the model is the code. `DirLock` and `TurnRun` have none: all
their gaps and failures are always possible.

- `Broker`, `Freedoms`: `early_close` (a client leaves with a line or a turn
  unfinished), `supersede` (the next turn is asked for before the last one's end
  is delivered), `plain_error`, `timeout`.
- `JobLifecycle`, `Freedoms`: `crash`, `worker_crash`, `killed`, `ambiguous` (the
  broker spawns and does not answer), `slow` (a dispatch outlasts the grace),
  `cancel`, `session_end`, `late_failure` (the log block after a recorded end
  throws).
- `Approvals`, `Freedoms`: `concurrent`, `unanswered`, `ends`, `cancel`.
- `TurnCapture`, `Freedoms`: `stale`, `refuse`, `expire`, `silence`, `loss`.
- `BrokerSession`: `Restarters` (clients whose login may be stale), `Crashers`.
- `Evolve`: `MaxFaults`, the kills and the sleeps of an owner over its lock's minute.

## 3. Runs

Bounds: `MaxLines` lines per client and `MaxServerRequests` requests of the
app-server (`Broker`), `MaxTries` attempts at a lock (the code's
`LOCK_RETRY_COUNT`, 200 in `Evolve`), `MaxJobs` entries in the index (the code's
`MAX_JOBS`), `MaxBuffered` (the code's `MAX_BUFFERED_NOTIFICATIONS`), `MaxBrokers`
spawned over a run, `MaxAlive` processes of daily-evolve at a time. The other
constants of the Evolve modules are the code's limits, made small.

| run | instance | question and answer |
|---|---|---|
| `any` | 2 sockets, 2 threads, 2 lines each, 1 server request, every freedom | Whatever clients do, the slots never outlive the request they were taken for, no server request waits for a client that left, and each is answered once. Holds |
| `exclusive` | the same, `supersede`, fair | With clients that stay for their turn: one turn at a time, messages reach its starter, the owner is always owed something that releases it, the broker implements `ExclusiveTurn`, every owner is released and every line handled. Holds |
| `leave_wedge` | the same, 1 line, `early_close` | `StreamBacked` is violated: the response of a request is settled after its socket closed, and the closed socket owns the stream for good |
| `lock` | 3 processes, 2 attempts, every gap, fair | Two are inside at once only if one was robbed through a gap, or by one who was; the directory of a dead process is removed as long as somebody waits, whoever has its pid now. Holds |
| `contract` | 2 jobs, index of 1, all deaths | Each job keeps to `JobContract`; the reaper fails only jobs whose worker is gone or never was; a job with a live worker is never pushed out of the index. Holds |
| `files` | 2 jobs, index of 2; killed and late failing workers, unconfirmed and slow dispatches | When nothing moves any more, file and index tell the same. Holds |
| `settle` | 1 job, everything | No job stays active for ever. Holds |
| `answers` | 2 requests, 1 user at a time, everything | The app-server is told a verdict only if it was given; no request waits for ever. Holds |
| `turn` | 1 subagent, a buffer of 3, everything, with and without watchdog | A capture that has a watchdog ends; it is settled once; only its own turn's end completes it, only its own error or a known subagent's fails it, and it is inferred only when no subagent is known to work; an end that came before the response is not missed. Holds |
| `run` | every caller, resume budgets -1, 0, 2 and 3 | A subagent spawns nothing on any path; no prompt runs twice but for the fallback model; success is told of what succeeded; every initialized connection is closed, at most one whose initialize failed is left open, and no turn goes on in an app-server of one's own. Holds |
| `session` | 2 commands (one may restart, one may die), 1 session end, 3 brokers | One broker runs, but for one that lost its record; sweeps and teardowns spare starting and serving brokers; every command gets a broker, goes on without or fails, and the lock is let go on every path; a broker without a record ends. Holds |
| `evolve` | 8 plans of 3 invocations on days 0, 3 and 7, 1 fault | The ledger has each run once and as it ended; each source is accounted for by its records or its failure; the fork budget goes to the best; drafts and reviews keep their week; runs end. Holds |

Why these bounds are enough: the ownership slots relate a claim to one earlier
stream, so two sockets with two lines each already give a claim that supersedes, a
completion that overtakes its response and a third request that finds the broker
busy. Two thread ids tell a turn from a review's child thread. Three processes are
a holder, a waiter with a verdict and one that comes in between; two attempts let
each of them come back. Two jobs and an index of one is the smallest index under
pressure. Two approvals are one that is being decided and one that is written
meanwhile. One subagent is one the inference may overlook; a buffer of three holds
the start, the answer and the end of a turn and can still overflow. Budgets beyond
both limits show that they are clamped. Three brokers are the one in use, the one a
restart or a session end leads to, and one more that a death leaves behind. Three
invocations of daily-evolve are two that race for a lock or a file and one that comes
later; days 3 and 7 are within and at the end of the week of cache and review. Each
plan is a scenario of its own: ordinary runs at different phases, torn and newer
files, overlapping drafts, reviews, probes.

Runs stop where a bound or a job's end stops the system, so most do not check for
deadlock; that of `DirLock` does. Symmetry is used in runs without liveness only.

### What the passing runs leave out, and why

A property that fails under a freedom is checked without that freedom. What the code
does then is a limit worth knowing:

- `early_close` breaks `StreamBacked` (`leave_wedge`) and, since the turn of a
  client that left goes on while the slot is free, `AtMostOneTurn` and the routing
  properties too. `plain_error` and `timeout` release a stream whose turn may go on
  and break `AtMostOneTurn` and `MessagesReachStarter` in the same way.
  `exclusive` therefore has none of the three; `any` has all.
- The directory lock does let two processes in: a waiter may look between mkdir and
  the owner file (`lib/state.mjs` 373), a waiter that judged a dead owner's directory
  may remove the one made in between (390-396), and a live holder may stay over 30
  seconds. Who has lost its directory does not know it, and its own release then
  removes that of the next. `MutualExclusion` therefore speaks of those who were not
  robbed, and `ThroughGap` says which removals are of that kind; nothing else (a
  crash, a reused pid, the time limit) lets a second one in. None of the gaps
  breaks `OrphanCleared`. The other modules take the state lock and the broker lock as
  exclusive.
- A worker that dies between the file and the index of its end leaves them
  different for good (the reaper's mirror skips a file that has ended), so does a
  dispatcher that dies between the two, and a cancel races the worker's own end
  without an order between them. `files` has none of `crash`, `worker_crash` and
  `cancel`. Its index is below the cap as well: pruning a job that has ended removes
  its file (`lib/state.mjs` 522), and a dispatcher or worker that was about to write
  the end to the index then lists the job again, without a file.
- A cancel, an unconfirmed or slow dispatch and a session's end can each overwrite
  one end of a job with another, or an active entry after it ended, and put a
  worker's job among the entries that may be pruned; a session's end also saves an
  index read earlier and may drop a job enqueued meanwhile; a late failure turns a
  completed job into a failed one. `contract` therefore has all deaths and none of
  these. `ReapsOnlyDead` also holds with cancels, as the theorem says; it fails after
  an unconfirmed spawn, where the dispatcher writes `pid: null` over the pid of the
  worker that had started (`codex-companion.mjs` 1735).
- In `Approvals` a decision may be lost: a list that was read before it is written
  after it (`codex-companion.mjs` 366). `AnswerAsDecided` says that no other is put
  in its place, `RequestsAnswered` that the time limit then answers.
- The watchdog may fire while turn/start is still awaited; nobody has taken up the
  completion it rejects, and the process ends (`lib/codex.mjs` 526). A capture that
  has lost its connection and has no timer but unref'd ones also ends its process.
  `CaptureEnds` counts both as ends, and says nothing of reviews, which have no
  watchdog unless the environment sets one. A buffer that has overflown may have lost
  the end of the turn; `EndNotMissed` and the inference in `SettledOnce` exclude it.
- A subagent's error fails the whole turn (`lib/codex.mjs` 765-776), though its own end
  is still to come. A subagent whose call did not name it is unknown until it is named:
  a turn may be inferred to be over while it works.
- A connection whose `initialize` is refused or expires is not closed
  (`lib/app-server.mjs` 795-816, `lib/codex.mjs` 949): since the command only sets its
  exit code, it also keeps the process alive until the other end goes.
  `OnlyUninitializedLeft` says that there is at most one of them in a run, and that no
  turn's success comes after it but that of a resume.
- A command that finds the broker lock taken for two seconds fails, with a broker up or
  not: a holder may await 150 ms for the recorded broker and 2 s for its own, and an
  orphan lock whose pid was reused is stale after 30 s only. `withAppServer` does not go
  direct on that error (`lib/codex.mjs` 943-947). `EnsureEnds` counts it as an end, and
  besides asks that whoever has the lock lets it go.
- `SoleBroker` excludes brokers whose client died before it wrote `broker.json`, and
  those whose record a session end cleared without having loaded it; `OrphansExit`
  says that these idle out. A restart after a stale login, and a session end, may end
  a broker that others use: they see their connection closed.
- A waiter for the ledger gives up after ten seconds, but an orphan's lock is stolen
  after sixty: the entry of a run that gives up in its second leg stays `running`. The
  age of the lock is judged and the file removed in two steps, so that a live owner's
  lock may be removed after a kill or a sleep (`robbed`), and an entry lost:
  `LedgerKeeps` excludes exactly that. Cost baseline, draft cache and review log have
  no lock; `DraftedOnce` (in `WeekKept`) excludes executions that saved the cache over each other, and
  overlapping reviews may lose a log entry. A digest replaces that of the same day.

### Fairness

Node runs every ready handler, and requests to the app-server end at the latest by
the 30-minute timeout, hence weak fairness of `HandleLine`, `Answer`,
`RouteCompleted` and of turns ending; clients are not fair, they need not write or
leave. A process that uses a lock goes on or crashes, and time passes (`Work`,
`GrowOld`); nobody has to start. A dispatcher and a worker take their next step,
the grace ends, and the user goes on asking for the status, which reaps (`Reap`):
without that last one a dead job stays listed, as it does in the code. An
approval's worker looks every second and completes its writes, and acts on SIGTERM;
users decide nothing of themselves. A
client of an app-server continues behind its awaits, its timers fire and the sweep of
its requests runs; the app-server owes nothing. A command that wants a broker, a
session end and a broker process take their steps (starting, a tick of the idle
watchdog, stopping); that a child exits, a client dies or a minute passes is not
assumed. `OrphansExit` relies on clients leaving in the end, which their deadlines and
watchdogs bring about. A process of daily-evolve that was started is scheduled.

## 4. Proofs

Every invariant and every action property that a passing run checks is a theorem,
and so are both refinements. They hold for every value of the constants under the
named assumptions of the modules: the null values are not members of their sets,
the freedoms are known ones, `MaxTries` is at least 1, `Jobs` is finite and
`MaxBuffered` positive, the retry budgets are integers, days ascend, and a plan of
daily-evolve is one (`PlansAssumption`: known kinds, natural budgets, a list of
forks with natural stars and ages). Where a theorem has a hypothesis on the
freedoms, it is the one section 3 explains for the run.

| theorem of | shown for | rests on |
|---|---|---|
| `BrokerProofs!SlotsInvariant` (`SlotsBacked`) | all freedoms | inductive with the types |
| `BrokerProofs!PendingInvariant`, `OneAnswer` (`PendingHasClient`, `AnsweredOnce`) | all freedoms | inductive with the types |
| `BrokerProofs!ExclusiveTurns`, `StreamAlwaysBacked`, `MessagesArrive`, `BrokerIsExclusive` | `Staying`: `Freedoms \subseteq {"supersede"}` | `StayInv` |
| `DirLockProofs!Exclusion` (`MutualExclusion`) | every gap, any processes | `LockInv` |
| `JobProofs!ReaperSpares` (`ReapsOnlyDead`) | `Calm`: not `ambiguous`, `slow`, `session_end` | `ReapInv` |
| `JobProofs!LiveJobsListed`, `IndexKeepsContract` | `Deaths`: `crash`, `worker_crash`, `killed` | `ReapInv`, `StageInv` |
| `JobProofs!FilesAlwaysAgree` (`FilesAgree`) | `Mended`: `killed`, `late_failure`, `ambiguous`, `slow`; and `UnderCap` | `FileInv` |
| `ApprovalProofs!AnswersAreDecided` | all freedoms | lists that may still be written back |
| `BrokerSessionProofs!OneBrokerRuns`, `DirectoriesStand` | all clients, hooks, brokers | `SessionInv` |
| `TurnCaptureProofs!OwnEndOnly`, `NoEndMissed`, `SettlesOnce` | all freedoms, subagents, buffers | `CaptureInv` |
| `TurnRunProofs!SubagentStaysInside`, `TurnTakenOnce`, `SuccessIsEarned`, `RunCleansUp` (`OnlyUninitializedLeft`) | all callers and budgets | `RunInv` |
| `EvolveProofs!RunsListedOnce`, `EntriesKept`, `SourcesTold`, `BudgetKept`, `WeeksKept` | all plans, limits and faults | `EvolveInv` |

Each module also proves its type invariant. The inductive invariants were checked by
TLC on the runs' instances before they were proved. What they add, and why:

- *Broker.* `SlotsBacked` is inductive by itself. The slot theorems need `StayInv`:
  `SettledInv` (a settled stream has one turn: running, or its completion on the
  way), `ClaimInv` (a claimant's line is under way, and a completion of the stream it
  superseded comes first), `OwnerInv` (beside a stream only its owner's request is
  awaited, and a streaming one only under a claim), `QueueInv` (what a client waited
  for when it wrote a streaming line still holds when the line is handled).
  `AnsweredInOrder` is why nothing is left of the earlier stream when a request is
  answered: the app-server's messages are read in order. The lemmas go method by method of the ownership object,
  then action by action; the refinement maps the slots to the phase of `ExclusiveTurn`.
- *DirLock.* Types need that a process that tries has attempts left (`TriesLeft`).
  Exclusion is not inductive: one must know that who took the lock and was not robbed
  has its directory, named after it once the owner file is written, that there is one
  such process, and that a reading that is not outdated is of the directory that is
  there, so that its removal through no gap is that of a dead owner's.
- *Jobs.* An active entry without a pid is a fresh dispatch that is still going on,
  and one whose worker lives has its pid recorded (`ReapInv`); the dispatcher's and
  the worker's steps say how far the entry is (`StageInv`), which makes every save a
  step of `JobContract` or a stutter. `FileInv` says of file and entry, for each pair
  of steps of dispatcher and worker, which of the two is ahead and who still owes the
  other. `UnderCap` (no more jobs than the index holds) is needed: with an index that
  prunes, a job's entry can come back without its file (section 3).
- *Approvals.* Every list somebody may still write back (in the file, in the worker's
  hands, in a command's, in the cancel's) holds only verdicts that were given, that
  command's own excepted; an approval is marked cancelled only in a file that says
  the job has ended.
- *Broker session.* One client is inside the lock and `broker.json` names the broker it
  loaded or none, for the session end, which takes no lock, can but clear it (`LockInv`); what is named
  has been made, and a broker not yet spawned is known to its client alone (`BornInv`,
  `MadeInv`); what starts or
  serves has its directory (`FilesInv`); a broker that is up and not abandoned is the
  one of the record or of the client inside (`UpInv`), of which there is one.
- *Turn capture.* What a capture knows is the result of replaying the buffer, so the
  invariant speaks of it before the response (`Early`: an end among the notifications
  so far is in the buffer unless it overflew) and after (`Handled`: it has been
  handled). Replay is the recursive function `Replayed`, one call of the handler per
  buffered notification; `Induction`, for 0..n, is derived from the pigeonhole
  principle of `FiniteSetTheorems`, since the induction theorems themselves take an
  operator.
- *Turn run.* `RunInv` relates the step, the client at hand, the connections, the
  turns taken so far and the result; its part `LeftInv` says that an `initialize` that
  failed is never followed by another connection. `BudgetRange` says that no setting makes more
  than two retries.
- *Daily evolve.* `Shape` and `KindInv` say which process is where. `ListInv`: the
  ledger, and what a writer read of it, list no run twice, and lack a run that has
  not registered. `LockInv`: unless its lock was taken after a kill or a sleep, who is
  between its lock and its release is named by the lock, and then what it is about to
  write back is what is there (`KeepInv`).
  `SourceInv`, `ForkInv`, `LogInv`, `CacheInv`, `BaseInv` are about what the processes
  and the files carry. That the first forks of an order by stars fit the budget is a
  pigeonhole argument on their ranks (`CallsWithinBudget`, `BudgetToTheBest`).

Model-checked only: the properties under fairness (`StreamReleased`, `LinesHandled`,
`OrphanCleared`, `JobsSettle`, `RequestsAnswered`, `CaptureEnds`, `EnsureEnds`,
`OrphansExit`, `RunsEnd`), since fairness speaks of ENABLED, which the prover does not
reason about; and that `leave_wedge` is violated.

## 5. Not modelled

- Of the directory lock: what is between the calls inside one removal (`rmSync` of the
  directory and its file is one step). Of the broker: line size limits, and what a shutdown
  does to requests in flight; that a worker is spawned is a line that is awaited, what
  it starts is in `JobLifecycle`. Of the broker session: that the log file, too, may go
  between a teardown's look and its unlink; a pid that belongs to another process by the time of a teardown,
  an endpoint from the environment, a `broker.json` that does not parse.
- Of jobs: the contents of progress records, the task-session register, foreground
  jobs without a worker. Of approvals: texts, risk rules, answer payloads, the phase
  field, the choice of a job by session and id prefix; that a command and the worker
  refresh the index entry of a job the index no longer holds.
- Of turns: the texts and lists collected for the result, progress messages, more than
  one capture on a connection, detached reviews, a response that names no turn
  (`lib/codex.mjs` 869 allows for one; the app-server is taken to name it). Of the client: parsing of lines, auth
  and model-list requests, the transfer of a session.
- Of daily-evolve: the layout of a digest, its limits on lines and groups, its metric
  header; redaction and citation checks; what the scheduler probe finds, prints and
  stores (`Probe` only ends); a ledger that does not parse (the leg throws, the lock is
  released, the run exits with 1, unlisted or still `running`); the fork tarballs; `dateArg`, which only names the digest;
  a kill in the middle of writing several files. `Release` reads and removes the lock
  in one step, and no process lives past midnight. Exported functions nothing calls
  (rollback, escalation, attribution window, expiry streak) are left out. Modelled as
  they are: `changelogContext` finds "#1" in "#10" (`diff-analyzer.mjs` 48), a grep
  that fails makes every quoted path a gap, a draft's key contains the age of its
  TODO, `Score` and `Advice` decide which forks become records (no property is about the
  ranking as such), and no record of a run's own pipeline becomes a draft, so only
  `action-executor.mjs` as a command proposes any.
- Job selection: pure string matching over one snapshot. Telemetry and log tail:
  best-effort lines nothing depends on; two writers that both found the file full
  both rename it, and the second may put a file just begun in the place of the full
  one (`lib/telemetry.mjs` 275). The stop-review gate: one child process and the
  classification of its output by patterns.
- Rendering, prompts, git helpers, argument parsing and the release scripts: text
  in, text out, or calls of other programs.

## 6. Plan

Done, in this order because the broker's slot and the job store are what every
command depends on: `TurnOwnership`, `Broker`, `ExclusiveTurn`; `DirLock`;
`JobStore`, `JobLifecycle`, `JobContract`; `Approvals`; their first theorems. Then
`TurnCapture` and `TurnRun`; `BrokerSession`; the Evolve modules; late failures in
`JobLifecycle`.

Theorems now cover every invariant and action property of the runs. Theorems to come,
the most useful first:

1. The safety half of the liveness properties: that what must move next (an owner, a
   waiter, a client inside the lock) always has a step, stated without ENABLED, as a
   state in which a guard holds.
2. `JobLifecycle`: what `FilesAgree` becomes with the index at its cap (an entry's file
   agrees with it or is gone).

Worth modelling next: telemetry's rotation, job selection against a reference
definition, the index entry of an approval against its file.
