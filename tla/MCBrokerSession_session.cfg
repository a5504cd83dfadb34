SPECIFICATION Spec
CONSTANTS
  c1 = c1
  c2 = c2
  e1 = e1
  Clients <- MCClients
  Enders <- MCEnders
  Restarters <- MCRestarters
  Crashers <- MCCrashers
  MaxBrokers = 3
INVARIANTS SoleBroker DirectoryStands
PROPERTIES EnsureEnds OrphansExit
CHECK_DEADLOCK FALSE
