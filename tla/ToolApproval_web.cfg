CONSTANTS
  r1 = r1  r2 = r2  k1 = k1  k2 = k2
  Requests = {r1, r2}
  Replies = {k1, k2}
  MaxCall = 2  AnyCall = FALSE  LateSends = FALSE  MaxFaults = 1
SPECIFICATION FairSpec
CHECK_DEADLOCK FALSE
INVARIANTS RunsOnce RejectedNeverRuns PausedAsks
PROPERTY ApprovedRuns
