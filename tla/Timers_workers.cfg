CONSTANTS
  Processes = {p1, p2}
  Claims = {c1, c2}
  NoClaim = NoClaim
  SlowRuns = FALSE
SPECIFICATION TimerFairSpec
INVARIANT PostedOnce
PROPERTY TimerEnds
