\* Everything may go wrong: jobs still come to an end.
\* A job's life ends, so the model may stop.
SPECIFICATION FairSpec
CONSTANTS
  j1 = j1  j2 = j2
  Jobs <- OneJob
  MaxJobs = 1
  Freedoms <- Everything
  Session <- OneJob
PROPERTIES JobsSettle
CHECK_DEADLOCK FALSE
