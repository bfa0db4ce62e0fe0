CONSTANTS
  b1 = b1  Nobody = Nobody
  Backends = {b1}
  Grid <- Square
  Base <- Own
  Invalid <- Bad
  Samplers = {"grid", "tpe"}
  TrialBudget = 3  CtxChecks = 1  REMEASURE = 1
  MaxSweeps = 1  MaxFaults = 2
SPECIFICATION FairSpec
CHECK_DEADLOCK FALSE
INVARIANTS VerdictSound PointsEnd DoneIsComplete
PROPERTY SweepCloses
