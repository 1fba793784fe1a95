\* A reveal batch and a conversion share an allowance of two.
SPECIFICATION FairSpec
CONSTANTS
  p1 = p1
  p2 = p2
  p3 = p3
  gone = gone
  b1 = b1
  v1 = v1
  People = {p1, p2, p3, gone}
  Batches = {b1}
  Conversions = {v1}
  PoolPersonIDs <- Requests
  LeadsMaxBatch = 3
  Budget = 2
  Allowance = 2
  Missing = {gone}
  UsedBefore = 0
  OwnedBefore = {}
  Erasable = {p1}
INVARIANT ReportIsHonest
INVARIANT SkippedIsNotCharged
INVARIANT ShortfallIsARace
INVARIANT AccountsForEveryone
PROPERTY EveryCallReturns
