SPECIFICATION FairSpec
CONSTANTS
  ServeReqs = {r1, r2}
  ScreenReqs = {q1}
  NoReq = NoReq
PROPERTIES StartsAnswered ShutdownEnds
