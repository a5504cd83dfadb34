\* Crashes, pid reuse and every gap of the lock: safety and liveness.
SPECIFICATION FairSpec
CONSTANTS
  p1 = p1  p2 = p2  p3 = p3
  Procs <- ThreeProcs
  NoProc = NoProc
  MaxTries = 2
INVARIANTS MutualExclusion TypeOK
PROPERTIES OrphanCleared
