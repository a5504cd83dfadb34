\* Everything may go wrong: how a turn is settled, and that it is.
\* A capture ends, so the model may stop.
SPECIFICATION FairSpec
CONSTANTS
  root = root  s1 = s1
  Root = root
  Subs <- OneSub
  MaxBuffered = 3
  Freedoms <- AllFreedoms
INVARIANTS EndNotMissed EndIsOwn
PROPERTIES SettledOnce CaptureEnds
CHECK_DEADLOCK FALSE
