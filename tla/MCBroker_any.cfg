\* Any client behaviour: what the slots guarantee regardless.
\* The lines a client may write are bounded, so the model may stop.
SPECIFICATION Spec
CONSTANTS
  a = a  b = b  t1 = t1  t2 = t2
  Sockets <- MCSockets
  NoSocket = NoSocket
  Threads <- MCThreads
  NoThread = NoThread
  Freedoms <- AllFreedoms
  MaxLines = 2
  MaxServerRequests = 1
SYMMETRY Symmetry
INVARIANTS TypeOK SlotsBacked PendingHasClient
PROPERTIES AnsweredOnce
CHECK_DEADLOCK FALSE
