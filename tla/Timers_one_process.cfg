CONSTANTS
  Processes = {p1}
  Claims = {c1, c2, c3}
  NoClaim = NoClaim
  SlowRuns = TRUE
SPECIFICATION PollSpec
INVARIANT NeverRefires
PROPERTY NeverStuckRunning
