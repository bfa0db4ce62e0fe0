CONSTANTS
  b = b  c1 = c1  c2 = c2
  Cands = {b, c1, c2}
  Draw = {b, c1, c2}
  Base = b
  Budget = 3
  Eta = 2  RoundItems = 1  Tier = 4
  OnDrift = {"cooldown_halt", "cooldown_segment", "halt", "segment"}  PidReused = TRUE  MaxFaults = 2
SPECIFICATION Spec
SYMMETRY Symmetry
CHECK_DEADLOCK FALSE
INVARIANTS AttemptsUnique MeasuredOnce SlicesTile StopClosesRows
PROPERTY ClosedRoundsVisited
