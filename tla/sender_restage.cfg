SPECIFICATION Spec
CONSTANTS
  w1 = w1
  w2 = w2
  c1 = c1
  c2 = c2
  i1 = i1
  i2 = i2
  NoId = NoId
  Companies <- MCOneCompany
  MaxStep = 1
  Workers <- MCWorkers
  Ids <- MCIds
  MaxAttempts = 2
  MaxCrashes = 2
  Replies <- MCReplies
  AutoFiles = FALSE
  Overlap = FALSE
  Restage = TRUE
SYMMETRY Symmetric
INVARIANT AtMostOnce
