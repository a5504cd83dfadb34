\* Everything may interfere: what an answer says, and that it comes.
\* All requests may be answered, so the model may stop.
SPECIFICATION FairSpec
CONSTANTS
  r1 = r1  r2 = r2  c1 = c1
  NoRequest = NoRequest
  Requests <- TwoRequests
  Commands <- OneCommand
  Freedoms <- AllFreedoms
INVARIANTS TypeOK AnswerAsDecided
PROPERTIES RequestsAnswered
CHECK_DEADLOCK FALSE
