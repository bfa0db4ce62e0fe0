CONSTANTS
  Ids = {t1, t2}
  Stops = {s1}
  NoTask = NoTask
SPECIFICATION FairSpec
INVARIANTS ReplyIsListed NoEntryLeft StopAllLeavesDeaf
PROPERTY StopEndsReply
