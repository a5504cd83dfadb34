SPECIFICATION FairSpec
CONSTANTS
  Processes = {"p1", "p2", "p3"}
  Plans <- MCPlans
  Days <- MCDays
  MaxTries = 2
  MaxAlive = 2
  MaxFaults = 1
  BlameCap = 2
  ClusterCap = 2
  TopCandidates = 2
  TopFinal = 1
  TopAusterity = 1
  AusterityAbove = 4
  FanOut = 3
  BaselinesKept = 1
  CapMultiplier = 3
  InitialUnits = 20
  DraftCap = 1
  CacheDays = 7
INVARIANTS OneEntryPerRun LedgerKeeps SourcesAccounted ForksWithinBudget WeekKept
PROPERTIES RunsEnd
CHECK_DEADLOCK FALSE
