\* Clients that stay until their turn completed: one slot, and liveness.
\* The lines a client may write are bounded, so the model may stop.
SPECIFICATION FairSpec
CONSTANTS
  a = a  b = b  t1 = t1  t2 = t2
  Sockets <- MCSockets
  NoSocket = NoSocket
  Threads <- MCThreads
  NoThread = NoThread
  Freedoms <- Superseding
  MaxLines = 2
  MaxServerRequests = 1
INVARIANTS AtMostOneTurn StreamBacked
PROPERTIES MessagesReachStarter ImplementsExclusiveTurn StreamReleased LinesHandled
CHECK_DEADLOCK FALSE
