CONSTANTS
  Procs = {p1, p2}
  Runs = {r1}
  Edits = {e1}
  Wall <- PutBack
  Rules <- TwoRules
  MaxTime = 3  MaxFaults = 1
SPECIFICATION FairSpec
CHECK_DEADLOCK FALSE
INVARIANTS ClaimedOnce RowsOnce SuccessIsReal
PROPERTY RunRecorded
