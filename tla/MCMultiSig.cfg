\* Two requests in flight, two admins, one rebuild, one restart.
CONSTANTS
  t1 = t1
  h1 = h1
  h2 = h2
  k1 = k1
  k2 = k2
  Rows = {t1}
  Signers = {k1, k2}
  Threshold <- MCThreshold
  Handlers = {h1, h2}
  Rebuildable = {t1}
  DevKeys = TRUE
  MaxBuilds = 2
  MaxPosts = 1
  MaxFaults = 1
SPECIFICATION FairSpec
INVARIANTS SentWasApproved ExecutedOnce
PROPERTY RowsEnd
