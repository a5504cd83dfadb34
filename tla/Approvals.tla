----------------------------- MODULE Approvals -----------------------------
(***************************************************************************)
(* The approvals of one background job.  The app-server asks the worker    *)
(* (createJobServerRequestHandler in codex-companion.mjs), which stores the *)
(* request in the job's file and its summary in the index, then looks every *)
(* second whether the file holds a decision (waitForApprovalDecision).  The *)
(* commands /approve and /deny put it there (updateApprovalDecision).      *)
(*                                                                         *)
(* Whoever changes one approval reads the list, and later writes the whole *)
(* list as it then is to the file and after that to the index              *)
(* (writeStoredJobWithApprovals): the three are separate steps, and another *)
(* process may run in between.  Within the worker they are one synchronous *)
(* stretch, so only one of its handlers is inside it.                      *)
(*                                                                         *)
(* The constant Freedoms selects what may happen beyond one request at a   *)
(* time:                                                                   *)
(*   "concurrent"  a request is raised while another one waits;            *)
(*   "unanswered"  a request waits for CODEX_PLUGIN_APPROVAL_WAIT_MS;      *)
(*   "ends"        the job ends while a request waits;                     *)
(*   "cancel"      the job is cancelled.                                   *)
(***************************************************************************)
EXTENDS Naturals

CONSTANTS Requests, \* the requests for approval of the app-server
          Commands, \* users of /approve and /deny, one at a time each
          NoRequest,
          Freedoms

ASSUME RequestsAssumption == NoRequest \notin Requests
ASSUME FreedomsAssumption ==
  Freedoms \subseteq {"concurrent", "unanswered", "ends", "cancel"}

VARIABLES
  file,    \* the approvals in the job's file
  summary, \* the approvals in the job's index entry
  ended,   \* which of "file" and "index" say that the job has ended
  asked,   \* the requests whose handler waits for a decision
  answer,  \* answer[r]: what the app-server got
  worker,  \* the worker process: "up", "stopping" (SIGTERM) or "dead"
  op,      \* the synchronous stretch the worker is in
  cmd,     \* cmd[c]: the step of a command, its request, verdict and list
  decided, \* the decisions that commands have written to the file, and the
           \* plugin's own denials
  cancel   \* the step of the cancel command, and its list

vars == <<file, summary, ended, asked, answer, worker, op, cmd, decided,
          cancel>>

Statuses == {"absent", "pending", "approved", "denied", "cancelled"}
Verdicts == {"approved", "denied"}
Answers  == {"none", "error"} \union Verdicts
Lists    == [Requests -> Statuses]
Ops      == [step : {"idle", "file", "index"},
             kind : {"append", "consume", "end"},
             request : Requests \union {NoRequest},
             reply : Answers, list : Lists]
Cmds     == [step : {"none", "read", "file", "index"},
             request : Requests \union {NoRequest},
             verdict : Verdicts, list : Lists]

NoApprovals == [r \in Requests |-> "absent"]
IdleOp == [step |-> "idle", kind |-> "append", request |-> NoRequest,
           reply |-> "none", list |-> NoApprovals]
NoCmd == [step |-> "none", request |-> NoRequest, verdict |-> "denied",
          list |-> NoApprovals]

TypeOK ==
  /\ file \in Lists
  /\ summary \in Lists
  /\ ended \in SUBSET {"file", "index"}
  /\ asked \in SUBSET Requests
  /\ answer \in [Requests -> Answers]
  /\ worker \in {"up", "stopping", "dead"}
  /\ op \in Ops
  /\ op.step # "idle" /\ op.kind # "end" => op.request \in Requests
  /\ cmd \in [Commands -> Cmds]
  /\ \A c \in Commands :
       cmd[c].step \in {"file", "index"} => cmd[c].request \in Requests
  /\ decided \in SUBSET (Requests \X Verdicts)
  /\ cancel \in [step : {"none", "kill", "file", "index", "done"}, list : Lists]

Init ==
  /\ file = NoApprovals
  /\ summary = NoApprovals
  /\ ended = {}
  /\ asked = {}
  /\ answer = [r \in Requests |-> "none"]
  /\ worker = "up"
  /\ op = IdleOp
  /\ cmd = [c \in Commands |-> NoCmd]
  /\ decided = {}
  /\ cancel = [step |-> "none", list |-> NoApprovals]

----------------------------------------------------------------------------
\* The worker.

Ready == worker = "up" /\ op.step = "idle"

\* A handler begins to write the list.
Begin(kind, r, reply, list) ==
  op' = [step |-> "file", kind |-> kind, request |-> r, reply |-> reply,
         list |-> list]

\* Mutant: the phase of the job is put where the status belongs.
NewStatusPhase(hardDeny) ==
  IF hardDeny = "hard" THEN "denied" ELSE "waiting-approval"

\* createPendingApprovalRecord: the status a new record has.
NewStatus(hardDeny) == IF hardDeny = "hard" THEN "denied" ELSE "pending"

\* A request arrives: appendPendingApproval reads the list and adds it.  What
\* classifyApprovalRisk denies by itself needs no decision.
Raise(r) ==
  /\ Ready
  /\ answer[r] = "none" /\ r \notin asked
  /\ "concurrent" \in Freedoms \/ asked = {}
  /\ \/ /\ Begin("append", r, "none", [file EXCEPT ![r] = NewStatus("ask")])
        /\ UNCHANGED decided
     \/ /\ \E reply \in {"denied", "error"} :
             Begin("append", r, reply, [file EXCEPT ![r] = NewStatus("hard")])
        /\ decided' = decided \union {<<r, "denied">>}
  /\ UNCHANGED <<file, summary, ended, asked, answer, worker, cmd, cancel>>

\* buildApprovalResponse: a decision that is not an approval declines; for a
\* method whose answer needs a payload it throws.
BuildResponse(status) == IF status = "approved" THEN "approved" ELSE "denied"

GetsError(r) ==
  /\ answer' = [answer EXCEPT ![r] = "error"]
  /\ asked' = asked \ {r}
  /\ UNCHANGED <<file, summary, ended, worker, op, cmd,
                 decided, cancel>>

\* Mutant: whatever is in the list has been decided.
Listed(r) == file[r] # "absent"

Decided(r) == file[r] \notin {"absent", "pending"}

\* A look finds that the job has ended, that the approval has disappeared, or
\* a decision that cannot be answered.
LookFails(r) ==
  /\ Ready /\ r \in asked
  /\ "file" \in ended \/ file[r] = "absent" \/ Decided(r)
  /\ GetsError(r)

\* A look finds the decision: the list is written again without its payload.
LookFinds(r) ==
  /\ Ready /\ r \in asked
  /\ "file" \notin ended /\ Decided(r)
  /\ Begin("consume", r, BuildResponse(file[r]), file)
  /\ UNCHANGED <<file, summary, ended, asked, answer, worker, cmd,
                 decided, cancel>>

\* Mutant: the wait has no limit.
NoTimeout(r) == FALSE

TimedOut(r) == "file" \notin ended /\ file[r] = "pending"

\* A look finds no decision, and the limit has passed.
LookTimesOut(r) ==
  /\ "unanswered" \in Freedoms
  /\ Ready /\ r \in asked
  /\ TimedOut(r)
  /\ GetsError(r)

\* The job ends (runTrackedJob), or is terminated (markJobTerminated): the
\* list of the file is kept as it is read here.
End ==
  /\ op.step = "idle"
  /\ \/ worker = "up" /\ (asked = {} \/ "ends" \in Freedoms)
     \/ worker = "stopping"
  /\ Begin("end", NoRequest, "none", file)
  /\ UNCHANGED <<file, summary, ended, asked, answer, worker, cmd,
                 decided, cancel>>

WriteFile ==
  /\ op.step = "file"
  /\ file' = op.list
  /\ ended' = IF op.kind = "end" THEN ended \union {"file"} ELSE ended
  /\ op' = [op EXCEPT !.step = "index"]
  /\ UNCHANGED <<summary, asked, answer, worker, cmd,
                 decided, cancel>>

\* The index, then what follows: a request waits or is answered, or the
\* process exits.
WriteIndex ==
  /\ op.step = "index"
  /\ op' = IdleOp
  /\ IF op.kind = "end"
     THEN /\ ended' = ended \union {"index"}
          /\ worker' = "dead"
          /\ asked' = {}
          /\ UNCHANGED <<summary, answer>>
     ELSE /\ summary' = op.list
          /\ answer' = [answer EXCEPT ![op.request] = op.reply]
          /\ asked' = IF op.reply = "none" THEN asked \union {op.request}
                                           ELSE asked \ {op.request}
          /\ UNCHANGED <<ended, worker>>
  /\ UNCHANGED <<file, cmd, decided, cancel>>

----------------------------------------------------------------------------
\* /approve and /deny: updateApprovalDecision.

\* The job is active in the index.
Select(c) ==
  /\ cmd[c].step = "none"
  /\ "index" \notin ended
  /\ cmd' = [cmd EXCEPT ![c].step = "read"]
  /\ UNCHANGED <<file, summary, ended, asked, answer, worker, op, decided,
                 cancel>>

\* The file is read; one pending approval matches, or none and the command
\* fails.
ReadList(c) ==
  /\ cmd[c].step = "read"
  /\ \/ \E r \in Requests, v \in Verdicts :
          /\ file[r] = "pending"
          /\ cmd' = [cmd EXCEPT ![c] =
                       [step |-> "file", request |-> r, verdict |-> v,
                        list |-> [file EXCEPT ![r] = v]]]
     \/ cmd' = [cmd EXCEPT ![c] = NoCmd]
  /\ UNCHANGED <<file, summary, ended, asked, answer, worker, op, decided,
                 cancel>>

StoreDecision(c) ==
  /\ \/ /\ cmd[c].step = "file"
        /\ file' = cmd[c].list
        /\ cmd' = [cmd EXCEPT ![c].step = "index"]
        /\ decided' = decided \union {<<cmd[c].request, cmd[c].verdict>>}
        /\ UNCHANGED summary
     \/ /\ cmd[c].step = "index"
        /\ summary' = cmd[c].list
        /\ cmd' = [cmd EXCEPT ![c] = NoCmd]
        /\ UNCHANGED <<file, decided>>
  /\ UNCHANGED <<ended, asked, answer, worker, op, cancel>>

----------------------------------------------------------------------------
\* /cancel: handleCancel.  The list is read before the interrupt is awaited.

CancelRead ==
  /\ "cancel" \in Freedoms
  /\ cancel.step = "none"
  /\ "index" \notin ended
  /\ cancel' = [step |-> "kill",
                list |-> [r \in Requests |-> IF file[r] = "pending"
                                             THEN "cancelled" ELSE file[r]]]
  /\ UNCHANGED <<file, summary, ended, asked, answer, worker, op, cmd, decided>>

\* The worker is sent SIGTERM, if its pid is known.
CancelKill ==
  /\ cancel.step = "kill"
  /\ cancel' = [cancel EXCEPT !.step = "file"]
  /\ \/ worker' = IF worker = "up" THEN "stopping" ELSE worker
     \/ UNCHANGED worker
  /\ UNCHANGED <<file, summary, ended, asked, answer, op, cmd,
                 decided>>

CancelRecord ==
  /\ \/ /\ cancel.step = "file"
        /\ file' = cancel.list
        /\ ended' = ended \union {"file"}
        /\ cancel' = [cancel EXCEPT !.step = "index"]
        /\ UNCHANGED summary
     \/ /\ cancel.step = "index"
        /\ summary' = cancel.list
        /\ ended' = ended \union {"index"}
        /\ cancel' = [step |-> "done", list |-> NoApprovals]
        /\ UNCHANGED file
  /\ UNCHANGED <<asked, answer, worker, op, cmd, decided>>

----------------------------------------------------------------------------
Look(r) == LookFails(r) \/ LookFinds(r) \/ LookTimesOut(r)
Write   == WriteFile \/ WriteIndex
Decide(c) == ReadList(c) \/ StoreDecision(c)

Next ==
  \/ \E r \in Requests : Raise(r) \/ Look(r)
  \/ End \/ Write
  \/ \E c \in Commands : Select(c) \/ Decide(c)
  \/ CancelRead \/ CancelKill \/ CancelRecord

Spec == Init /\ [][Next]_vars

(***************************************************************************)
(* Fairness: the worker goes on looking once a second and writing; a       *)
(* command goes on to its end; a SIGTERM is acted on.  Users decide         *)
(* nothing of themselves, and no turn need end.                            *)
(***************************************************************************)
FairSpec ==
  /\ Spec
  /\ \A r \in Requests : WF_vars(Look(r))
  /\ WF_vars(Write)
  /\ WF_vars(worker = "stopping" /\ End)

----------------------------------------------------------------------------
\* Properties.

\* Whatever is lost or written late, the app-server is told "approved" or
\* "denied" of a request only if a user's command decided just that and has
\* written it, or the plugin itself denied the request.
AnswerAsDecided ==
  \A r \in Requests :
    answer[r] \in Verdicts => <<r, answer[r]>> \in decided

\* No request waits for ever, even when its approval disappears, its decision
\* is overwritten or its job ends (codex-companion.mjs:103-107).
RequestsAnswered ==
  \A r \in Requests : (r \in asked) ~> (r \notin asked)
============================================================================
