SPECIFICATION Spec
CONSTANTS
  ServeReqs = {r1, r2, r3}
  ScreenReqs = {q1, q2}
  NoReq = NoReq
SYMMETRY Symmetry
INVARIANTS JobsExclude OverlapOnlySinceCheck TeardownStopsJobs
