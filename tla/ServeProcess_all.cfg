CONSTANTS
  r1 = r1
  r2 = r2
  Requests = {r1, r2}
  Drain = Drain
  MissLimit = 3
SPECIFICATION FairSpec
INVARIANTS LogOutlivesReader StopLeavesNothing KilledIsOver
PROPERTIES CleanupHappens RecorderEnds
