CONSTANTS
  b1 = b1  b2 = b2  Nobody = Nobody
  Backends = {b1, b2}
  Grid <- Alone
  Base <- Own
  Invalid = {}
  Samplers = {"tpe"}
  TrialBudget = 1  CtxChecks = 1  REMEASURE = 0
  MaxSweeps = 2  MaxFaults = 2
SPECIFICATION Spec
SYMMETRY Symmetry
CHECK_DEADLOCK FALSE
INVARIANTS CardShared
