SPECIFICATION FairSpec
CONSTANTS
  w1 = w1
  w2 = w2
  c1 = c1
  c2 = c2
  i1 = i1
  i2 = i2
  NoId = NoId
  Companies <- MCTwoCompanies
  MaxStep = 0
  Workers <- MCOneWorker
  Ids <- MCOneId
  MaxAttempts = 1
  MaxCrashes = 2
  Replies = {}
  AutoFiles = TRUE
  Overlap = FALSE
  Restage = FALSE
PROPERTIES EveryClaimEnds EveryMailIsSettled
