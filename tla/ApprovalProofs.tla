--------------------------- MODULE ApprovalProofs ---------------------------
(* What TLAPS proves of Approvals, for any requests, users and freedoms. *)
EXTENDS Approvals, TLAPS

\* A verdict on r that someone entitled to it has given.
Given(r, v) == <<r, v>> \in decided

\* The verdicts in a list have been given, that on `own` aside, and an
\* approval is marked cancelled only once the job's file says it has ended.
Sound(list, own) ==
  \A r \in Requests :
    /\ list[r] \in Verdicts /\ r # own => Given(r, list[r])
    /\ list[r] = "cancelled" => "file" \in ended

\* The list that a command is about to write is sound but for its decision.
CmdSound(c) ==
  cmd[c].step = "file" =>
    /\ Sound(cmd[c].list, cmd[c].request)
    /\ cmd[c].list[cmd[c].request] = cmd[c].verdict

\* Every list that may be written again is sound; a command's own verdict
\* counts as given only when its list is written.
FileInv   == Sound(file, NoRequest)
OpInv     == op.step = "file" => Sound(op.list, NoRequest)
ReplyInv  == op.step # "idle" /\ op.reply \in Verdicts
               => Given(op.request, op.reply)
CmdInv    == \A c \in Commands : CmdSound(c)
CancelInv == \A r \in Requests :
               cancel.list[r] \in Verdicts => Given(r, cancel.list[r])
AnswerInv == \A r \in Requests : answer[r] \in Verdicts => Given(r, answer[r])
Inv == FileInv /\ OpInv /\ ReplyInv /\ CmdInv /\ CancelInv /\ AnswerInv

\* Record types, spelled out once.
LEMMA CmdType ==
  ASSUME TypeOK, NEW c \in Commands
  PROVE  /\ cmd[c] \in Cmds /\ cmd[c].list \in Lists
         /\ cmd[c].verdict \in Verdicts
         /\ cmd[c].request \in Requests \union {NoRequest}
BY DEF TypeOK, Cmds

\* What is given stays given, and sound lists stay sound, as decisions are
\* added and the job ends.
LEMMA SoundStays ==
  ASSUME NEW list \in Lists, NEW own, Sound(list, own),
         decided \subseteq decided', ended \subseteq ended'
  PROVE  Sound(list, own)'
BY DEF Sound, Given

\* Every step keeps the state well typed.
LEMMA TypeStep == TypeOK /\ [Next]_vars => TypeOK'
<1> SUFFICES ASSUME TypeOK, [Next]_vars PROVE TypeOK'
  OBVIOUS
<1> USE DEF Lists, Statuses, Answers, Verdicts
<1>1. ASSUME NEW r \in Requests, Raise(r) PROVE TypeOK'
  BY <1>1 DEF TypeOK, Raise, Begin, NewStatus, Ops
<1>2. ASSUME NEW r \in Requests, LookFails(r) \/ LookTimesOut(r)
      PROVE TypeOK'
  BY <1>2 DEF TypeOK, LookFails, LookTimesOut, GetsError
<1>3. ASSUME NEW r \in Requests, LookFinds(r) PROVE TypeOK'
  BY <1>3 DEF TypeOK, LookFinds, Begin, BuildResponse, Ops
<1>4. CASE End
  BY <1>4 DEF TypeOK, End, Begin, Ops
<1>5. CASE WriteFile
  <2>1. op \in Ops /\ op.list \in Lists /\ op' = [op EXCEPT !.step = "index"]
    BY <1>5 DEF TypeOK, WriteFile, Ops
  <2>2. op' \in Ops
    BY <2>1 DEF Ops
  <2> QED
    BY <1>5, <2>1, <2>2 DEF TypeOK, WriteFile
<1>6. CASE WriteIndex
  <2>1. op \in Ops /\ op.list \in Lists /\ op.reply \in Answers
        /\ op.request \in Requests \union {NoRequest}
    BY DEF TypeOK, Ops
  <2>2. IdleOp \in Ops
    BY DEF IdleOp, Ops, NoApprovals
  <2>3. IdleOp.step = "idle"
    BY DEF IdleOp
  <2>4. CASE op.kind = "end"
    BY <1>6, <2>2, <2>3, <2>4 DEF TypeOK, WriteIndex
  <2>5. CASE op.kind # "end"
    <3>1. op.request \in Requests
      BY <1>6, <2>5 DEF TypeOK, WriteIndex
    <3>2. answer' \in [Requests -> Answers] /\ asked' \in SUBSET Requests
      BY <1>6, <2>1, <2>5, <3>1 DEF TypeOK, WriteIndex
    <3>3. summary' \in Lists /\ UNCHANGED <<ended, worker, file, cmd, decided,
                                           cancel>>
      BY <1>6, <2>1, <2>5 DEF WriteIndex
    <3> QED
      BY <1>6, <2>2, <2>3, <3>2, <3>3 DEF TypeOK, WriteIndex
  <2> QED
    BY <2>4, <2>5
<1>7. ASSUME NEW c \in Commands, Select(c) PROVE TypeOK'
  <2>1. [cmd[c] EXCEPT !.step = "read"] \in Cmds
    BY DEF TypeOK, Cmds
  <2> QED
    BY <1>7, <2>1 DEF TypeOK, Select
<1>8. ASSUME NEW c \in Commands, ReadList(c) PROVE TypeOK'
  <2>1. NoCmd \in Cmds
    BY DEF NoCmd, Cmds, NoApprovals
  <2>2. ASSUME NEW r \in Requests, NEW v \in Verdicts
        PROVE [step |-> "file", request |-> r, verdict |-> v,
               list |-> [file EXCEPT ![r] = v]] \in Cmds
    BY DEF TypeOK, Cmds
  <2>3. \E x \in Cmds :
          /\ cmd' = [cmd EXCEPT ![c] = x]
          /\ x.step \in {"file", "index"} => x.request \in Requests
    <3>1. NoCmd.step = "none"
      BY DEF NoCmd
    <3> QED
      BY <1>8, <2>1, <2>2, <3>1 DEF ReadList
  <2> QED
    BY <1>8, <2>3 DEF TypeOK, ReadList
<1>9. ASSUME NEW c \in Commands, StoreDecision(c) PROVE TypeOK'
  <2>1. NoCmd \in Cmds /\ NoCmd.step = "none"
    BY DEF NoCmd, Cmds, NoApprovals
  <2>2. [cmd[c] EXCEPT !.step = "index"] \in Cmds
    BY DEF TypeOK, Cmds
  <2>3. CASE cmd[c].step = "file"
    <3>1. cmd' = [cmd EXCEPT ![c] = [cmd[c] EXCEPT !.step = "index"]]
      BY <1>9, <2>3 DEF StoreDecision
    <3>2. cmd[c].request \in Requests /\ cmd[c].verdict \in Verdicts
          /\ cmd[c].list \in Lists
      BY <2>3, CmdType DEF TypeOK
    <3>3. [cmd[c] EXCEPT !.step = "index"].request = cmd[c].request
      BY CmdType DEF Cmds
    <3>4. cmd' \in [Commands -> Cmds]
          /\ \A d \in Commands : cmd'[d].step \in {"file", "index"}
                                  => cmd'[d].request \in Requests
      BY <2>2, <3>1, <3>2, <3>3 DEF TypeOK
    <3> QED
      BY <1>9, <2>3, <3>2, <3>4 DEF TypeOK, StoreDecision
  <2>4. CASE cmd[c].step = "index"
    <3>1. cmd' = [cmd EXCEPT ![c] = NoCmd]
      BY <1>9, <2>4 DEF StoreDecision
    <3>2. cmd' \in [Commands -> Cmds]
          /\ \A d \in Commands : cmd'[d].step \in {"file", "index"}
                                  => cmd'[d].request \in Requests
      BY <2>1, <3>1 DEF TypeOK
    <3> QED
      BY <1>9, <2>4, <3>2, CmdType DEF TypeOK, StoreDecision
  <2> QED
    BY <1>9, <2>3, <2>4 DEF StoreDecision
<1>10. CASE CancelRead \/ CancelKill \/ CancelRecord
  BY <1>10 DEF TypeOK, CancelRead, CancelKill, CancelRecord, NoApprovals
<1>11. CASE UNCHANGED vars
  BY <1>11 DEF TypeOK, vars
<1> QED
  BY <1>1, <1>2, <1>3, <1>4, <1>5, <1>6, <1>7, <1>8, <1>9, <1>10, <1>11
     DEF Next, Look, Write, Decide

\* The state is well typed in every behaviour.
THEOREM TypeInvariant == Spec => []TypeOK
<1>1. Init => TypeOK
  BY DEF Init, TypeOK, Lists, NoApprovals, Statuses, Answers, Ops, Cmds,
         IdleOp, NoCmd, Verdicts
<1> QED
  BY <1>1, TypeStep, PTL DEF Spec

\* Nothing is given or sound at the start, since nothing is listed.
LEMMA InvInit == Init => Inv
BY DEF Init, Inv, FileInv, OpInv, ReplyInv, CmdInv, CmdSound, CancelInv,
       AnswerInv, Sound, Given, NoApprovals, IdleOp, NoCmd, Verdicts

\* The parts of the invariant that a step does not write stay true.
LEMMA Untouched ==
  ASSUME TypeOK, Inv, decided \subseteq decided', ended \subseteq ended'
  PROVE  /\ file' = file => FileInv'
         /\ op' = op => OpInv' /\ ReplyInv'
         /\ cmd' = cmd => CmdInv'
         /\ cancel' = cancel => CancelInv'
         /\ answer' = answer => AnswerInv'
<1>1. file' = file => FileInv'
  BY SoundStays DEF TypeOK, Inv, FileInv, Sound, Given
<1>2. op' = op => OpInv' /\ ReplyInv'
  BY DEF Inv, OpInv, ReplyInv, Sound, Given
<1>3. cmd' = cmd => CmdInv'
  BY DEF Inv, CmdInv, CmdSound, Sound, Given
<1>4. cancel' = cancel => CancelInv'
  BY DEF Inv, CancelInv, Given
<1>5. answer' = answer => AnswerInv'
  BY DEF Inv, AnswerInv, Given
<1> QED
  BY <1>1, <1>2, <1>3, <1>4, <1>5

\* The steps of the worker keep the invariant.
LEMMA WorkerStep ==
  ASSUME TypeOK, Inv,
         (\E r \in Requests : Raise(r) \/ Look(r)) \/ End \/ Write
  PROVE  Inv'
<1>1. decided \subseteq decided' /\ cmd' = cmd /\ cancel' = cancel
      /\ ended \subseteq ended'
  BY DEF Raise, Look, LookFails, LookFinds, LookTimesOut, GetsError, End,
         Write, WriteFile, WriteIndex
<1>2. CmdInv' /\ CancelInv'
  BY <1>1, Untouched
<1>3. ASSUME NEW r \in Requests, Raise(r) PROVE Inv'
  <2>1. file' = file /\ answer' = answer /\ ended' = ended
    BY <1>3 DEF Raise
  <2>2. PICK reply \in Answers, status \in Statuses :
          /\ op' = [step |-> "file", kind |-> "append", request |-> r,
                    reply |-> reply, list |-> [file EXCEPT ![r] = status]]
          /\ status # "cancelled"
          /\ status \in Verdicts => <<r, status>> \in decided'
          /\ reply \in Verdicts => <<r, reply>> \in decided'
    BY <1>3 DEF Raise, Begin, NewStatus, Answers, Statuses, Verdicts
  <2> DEFINE new == [file EXCEPT ![r] = status]
  <2>3. \A q \in Requests :
          /\ new[q] \in Verdicts => <<q, new[q]>> \in decided'
          /\ new[q] = "cancelled" => "file" \in ended
    BY <1>1, <2>2, RequestsAssumption
       DEF Inv, FileInv, Sound, Given, TypeOK, Lists
  <2>4. op'.step = "file" /\ op'.list = new
        /\ op'.request = r /\ op'.reply = reply
    BY <2>2
  <2>5. OpInv' /\ ReplyInv'
    BY <2>1, <2>2, <2>3, <2>4 DEF OpInv, ReplyInv, Sound, Given
  <2> QED
    BY <1>1, <1>2, <2>1, <2>5, Untouched DEF Inv
<1>4. ASSUME NEW r \in Requests, LookFails(r) \/ LookTimesOut(r) PROVE Inv'
  <2>1. file' = file /\ op' = op
        /\ answer' = [answer EXCEPT ![r] = "error"]
    BY <1>4 DEF LookFails, LookTimesOut, GetsError
  <2>2. AnswerInv'
    BY <1>1, <2>1 DEF Inv, AnswerInv, Given, TypeOK, Verdicts
  <2> QED
    BY <1>1, <1>2, <2>1, <2>2, Untouched DEF Inv
<1>5. ASSUME NEW r \in Requests, LookFinds(r) PROVE Inv'
  <2>1. file' = file /\ answer' = answer /\ ended' = ended
        /\ "file" \notin ended /\ Decided(r)
    BY <1>5 DEF LookFinds
  <2>2. op'.step = "file" /\ op'.list = file /\ op'.request = r
        /\ op'.reply = BuildResponse(file[r])
    BY <1>5 DEF LookFinds, Begin
  <2>3. file[r] \in Verdicts /\ BuildResponse(file[r]) = file[r]
    BY <2>1 DEF Inv, FileInv, Sound, TypeOK, Lists, Statuses, Decided,
                BuildResponse, Verdicts
  <2>4. Given(r, file[r])
    BY <2>3, RequestsAssumption DEF Inv, FileInv, Sound
  <2>5. OpInv' /\ ReplyInv'
    BY <1>1, <2>1, <2>2, <2>3, <2>4 DEF Inv, FileInv, OpInv, ReplyInv, Sound,
                                        Given
  <2> QED
    BY <1>1, <1>2, <2>1, <2>5, Untouched DEF Inv
<1>6. CASE End
  <2>1. file' = file /\ answer' = answer /\ ended' = ended
    BY <1>6 DEF End
  <2>2. op'.step = "file" /\ op'.list = file /\ op'.reply = "none"
    BY <1>6 DEF End, Begin
  <2>3. OpInv' /\ ReplyInv'
    BY <1>1, <2>1, <2>2 DEF Inv, FileInv, OpInv, ReplyInv, Sound, Given,
                            Verdicts
  <2> QED
    BY <1>1, <1>2, <2>1, <2>3, Untouched DEF Inv
<1>7. CASE WriteFile
  <2>1. op.step = "file" /\ file' = op.list /\ answer' = answer
    BY <1>7 DEF WriteFile
  <2>2. op'.step = "index" /\ op'.reply = op.reply /\ op'.request = op.request
    BY <1>7 DEF WriteFile, TypeOK, Ops
  <2>3. FileInv' /\ OpInv'
    BY <1>1, <2>1, <2>2 DEF Inv, FileInv, OpInv, Sound, Given
  <2>4. ReplyInv'
    BY <1>1, <2>1, <2>2 DEF Inv, ReplyInv, Given
  <2> QED
    BY <1>1, <1>2, <2>1, <2>3, <2>4, Untouched DEF Inv
<1>8. CASE WriteIndex
  <2>1. op.step = "index" /\ file' = file /\ op' = IdleOp
    BY <1>8 DEF WriteIndex
  <2>2. OpInv' /\ ReplyInv'
    BY <2>1 DEF OpInv, ReplyInv, IdleOp
  <2>3. AnswerInv'
    <3>1. CASE op.kind = "end"
      BY <1>1, <1>8, <3>1, Untouched DEF WriteIndex
    <3>2. CASE op.kind # "end"
      <4>1. answer' = [answer EXCEPT ![op.request] = op.reply]
            /\ op.request \in Requests
        BY <1>8, <3>2 DEF WriteIndex, TypeOK
      <4> QED
        BY <1>1, <2>1, <4>1 DEF Inv, AnswerInv, ReplyInv, Given, TypeOK
    <3> QED
      BY <3>1, <3>2
  <2> QED
    BY <1>1, <1>2, <2>1, <2>2, <2>3, Untouched DEF Inv
<1> QED
  BY <1>3, <1>4, <1>5, <1>6, <1>7, <1>8 DEF Look, Write

\* The steps of /approve and /deny keep it.
LEMMA DecideStep ==
  ASSUME TypeOK, Inv, NEW c \in Commands, Select(c) \/ Decide(c)
  PROVE  Inv'
<1>1. decided \subseteq decided' /\ ended' = ended /\ op' = op
      /\ answer' = answer /\ cancel' = cancel
  BY DEF Select, Decide, ReadList, StoreDecision
<1>2. OpInv' /\ ReplyInv' /\ AnswerInv' /\ CancelInv'
  BY <1>1, Untouched
<1>3. ASSUME NEW x \in Cmds, cmd' = [cmd EXCEPT ![c] = x],
             x.step = "file" => /\ Sound(x.list, x.request)
                                /\ x.list[x.request] = x.verdict
      PROVE  CmdInv'
  <2>1. ASSUME NEW d \in Commands PROVE CmdSound(d)'
    <3>1. CASE d = c
      <4>1. cmd'[d] = x
        BY <1>3, <3>1 DEF TypeOK
      <4> QED
        BY <1>1, <1>3, <4>1 DEF CmdSound, Sound, Given
    <3>2. CASE d # c
      <4>1. cmd'[d] = cmd[d] /\ CmdSound(d)
        BY <1>3, <3>2 DEF TypeOK, Inv, CmdInv
      <4> QED
        BY <1>1, <4>1 DEF CmdSound, Sound, Given
    <3> QED
      BY <3>1, <3>2
  <2> QED
    BY <2>1 DEF CmdInv
<1>4. NoCmd \in Cmds /\ NoCmd.step = "none"
  BY DEF NoCmd, Cmds, NoApprovals, Lists, Statuses, Verdicts
<1>5. CASE Select(c)
  <2>1. cmd' = [cmd EXCEPT ![c] = [cmd[c] EXCEPT !.step = "read"]]
        /\ file' = file
    BY <1>5 DEF Select
  <2>2. [cmd[c] EXCEPT !.step = "read"] \in Cmds
        /\ [cmd[c] EXCEPT !.step = "read"].step # "file"
    BY DEF TypeOK, Cmds
  <2> QED
    BY <1>1, <1>2, <1>3, <2>1, <2>2, Untouched DEF Inv
<1>6. CASE ReadList(c)
  <2>1. file' = file
    BY <1>6 DEF ReadList
  <2>2. cmd' = [cmd EXCEPT ![c] = NoCmd] => CmdInv'
    BY <1>3, <1>4
  <2>3. ASSUME NEW r \in Requests, NEW v \in Verdicts,
               cmd' = [cmd EXCEPT ![c] =
                         [step |-> "file", request |-> r, verdict |-> v,
                          list |-> [file EXCEPT ![r] = v]]]
        PROVE  CmdInv'
    <3> DEFINE x == [step |-> "file", request |-> r, verdict |-> v,
                     list |-> [file EXCEPT ![r] = v]]
    <3>1. x \in Cmds
      BY DEF TypeOK, Cmds, Lists, Statuses, Verdicts
    <3>2. Sound(x.list, r) /\ x.list[r] = v
      BY RequestsAssumption DEF Inv, FileInv, Sound, Given, TypeOK, Lists,
                                Verdicts
    <3> QED
      BY <1>3, <2>3, <3>1, <3>2
  <2> QED
    BY <1>1, <1>2, <1>6, <2>1, <2>2, <2>3, Untouched DEF Inv, ReadList
<1>7. CASE StoreDecision(c) /\ cmd[c].step = "file"
  <2>1. /\ file' = cmd[c].list
        /\ decided' = decided \union {<<cmd[c].request, cmd[c].verdict>>}
        /\ cmd' = [cmd EXCEPT ![c] = [cmd[c] EXCEPT !.step = "index"]]
    BY <1>7 DEF StoreDecision
  <2>2. FileInv'
    BY <1>1, <1>7, <2>1 DEF Inv, CmdInv, CmdSound, FileInv, Sound, Given
  <2>3. [cmd[c] EXCEPT !.step = "index"] \in Cmds
        /\ [cmd[c] EXCEPT !.step = "index"].step # "file"
    BY DEF TypeOK, Cmds
  <2> QED
    BY <1>2, <1>3, <2>1, <2>2, <2>3 DEF Inv
<1>8. CASE StoreDecision(c) /\ cmd[c].step = "index"
  <2>1. file' = file /\ cmd' = [cmd EXCEPT ![c] = NoCmd]
    BY <1>8 DEF StoreDecision
  <2> QED
    BY <1>1, <1>2, <1>3, <1>4, <2>1, Untouched DEF Inv
<1> QED
  BY <1>5, <1>6, <1>7, <1>8 DEF Decide, StoreDecision

\* The steps of /cancel keep it.
LEMMA CancelStep ==
  ASSUME TypeOK, Inv, CancelRead \/ CancelKill \/ CancelRecord
  PROVE  Inv'
<1>1. decided' = decided /\ cmd' = cmd /\ op' = op /\ answer' = answer
      /\ ended \subseteq ended'
  BY DEF CancelRead, CancelKill, CancelRecord
<1>2. OpInv' /\ ReplyInv' /\ CmdInv' /\ AnswerInv'
  BY <1>1, Untouched
<1>3. CASE CancelRead
  <2>1. file' = file
        /\ \A r \in Requests : cancel'.list[r] =
             IF file[r] = "pending" THEN "cancelled" ELSE file[r]
    BY <1>3 DEF CancelRead
  <2>2. CancelInv'
    BY <1>1, <2>1, RequestsAssumption
       DEF Inv, FileInv, CancelInv, Sound, Given, Verdicts
  <2> QED
    BY <1>1, <1>2, <2>1, <2>2, Untouched DEF Inv
<1>4. CASE CancelKill
  <2>1. file' = file /\ cancel'.list = cancel.list
    BY <1>4 DEF CancelKill, TypeOK
  <2>2. CancelInv'
    BY <1>1, <2>1 DEF Inv, CancelInv, Given
  <2> QED
    BY <1>1, <1>2, <2>1, <2>2, Untouched DEF Inv
<1>5. CASE CancelRecord /\ cancel.step = "file"
  <2>1. file' = cancel.list /\ "file" \in ended'
        /\ cancel'.list = cancel.list
    BY <1>5 DEF CancelRecord, TypeOK
  <2>2. FileInv' /\ CancelInv'
    BY <1>1, <2>1 DEF Inv, CancelInv, FileInv, Sound, Given
  <2> QED
    BY <1>2, <2>2 DEF Inv
<1>6. CASE CancelRecord /\ cancel.step = "index"
  <2>1. file' = file /\ cancel'.list = NoApprovals
    BY <1>6 DEF CancelRecord
  <2>2. CancelInv'
    BY <2>1 DEF CancelInv, NoApprovals, Verdicts
  <2> QED
    BY <1>1, <1>2, <2>1, <2>2, Untouched DEF Inv
<1> QED
  BY <1>3, <1>4, <1>5, <1>6 DEF CancelRecord

\* In every behaviour, whatever is overwritten, lost or late, the app-server
\* is told a verdict only if a user gave it, or the plugin itself denied.
THEOREM AnswersAreDecided == Spec => []AnswerAsDecided
<1>1. Inv /\ TypeOK /\ [Next]_vars => Inv'
  <2> SUFFICES ASSUME Inv, TypeOK, [Next]_vars PROVE Inv'
    OBVIOUS
  <2>1. CASE UNCHANGED vars
    BY <2>1, Untouched DEF vars, Inv
  <2> QED
    BY <2>1, WorkerStep, DecideStep, CancelStep DEF Next
<1>2. Inv => AnswerAsDecided
  BY DEF Inv, AnswerInv, AnswerAsDecided, Given
<1> QED
  BY <1>1, <1>2, InvInit, TypeInvariant, PTL DEF Spec
============================================================================
