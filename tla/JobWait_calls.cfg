\* Two waiters for one job, one sandbox or one campaign.
SPECIFICATION FairWaitSpec
CONSTANTS
  w1 = w1
  w2 = w2
  Waiters = {w1, w2}
INVARIANT VerdictIsTrue
PROPERTY EveryWaitEnds
CHECK_DEADLOCK FALSE
