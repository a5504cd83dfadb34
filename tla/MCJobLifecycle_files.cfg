\* Workers killed or failing late, dispatches unconfirmed or slow.
\* A job's life ends, so the model may stop.
SPECIFICATION Spec
CONSTANTS
  j1 = j1  j2 = j2
  Jobs <- TwoJobs
  MaxJobs = 2
  Freedoms <- Dispatching
  Session <- NoJobs
SYMMETRY Symmetry
INVARIANTS FilesAgree
CHECK_DEADLOCK FALSE
