\* A client leaves while its request is in flight.
\* The lines a client may write are bounded, so the model may stop.
SPECIFICATION Spec
CONSTANTS
  a = a  b = b  t1 = t1  t2 = t2
  Sockets <- MCSockets
  NoSocket = NoSocket
  Threads <- MCThreads
  NoThread = NoThread
  Freedoms <- Leaving
  MaxLines = 1
  MaxServerRequests = 0
INVARIANTS StreamBacked
CHECK_DEADLOCK FALSE
