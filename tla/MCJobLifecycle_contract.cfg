\* More jobs than the cap of the index, processes that die anywhere: each
\* job keeps to its contract.
\* A job's life ends, so the model may stop.
SPECIFICATION Spec
CONSTANTS
  j1 = j1  j2 = j2
  Jobs <- TwoJobs
  MaxJobs = 1
  Freedoms <- Dying
  Session <- NoJobs
SYMMETRY Symmetry
INVARIANTS TypeOK
PROPERTIES ImplementsContract LiveJobsStayListed ReapsOnlyDead
CHECK_DEADLOCK FALSE
