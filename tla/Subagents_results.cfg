CONSTANTS
  b1 = b1  b2 = b2  f1 = f1  k1 = k1  k2 = k2  NoActor = NoActor
  Delegs = {b1, b2, f1}
  Background = {b1, b2}
  Replies = {k1, k2}
  MaxConcurrent = 1  MaxAsync = 1  MaxSends = 1  MaxFaults = 1
SPECIFICATION FairSpec
CHECK_DEADLOCK FALSE
INVARIANTS NoResultStranded SlotsBalance
PROPERTIES Delivers ResultAnswered
