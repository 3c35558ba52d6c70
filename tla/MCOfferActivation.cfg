\* Two requests on the queue and one on the offer; any one thing goes wrong, or none.
CONSTANTS
  h1 = h1
  h2 = h2
  l1 = l1
  Handlers = {h1, h2}
  Launches = {l1}
  Slots = 2
  MaxBuilds = 2
  MaxFaults = 1
  MaxTrouble = 1
  Issuer = issuer
SPECIFICATION FairSpec
INVARIANTS ActiveInOrder InitNotAhead
PROPERTY PipelineCompletes
\* The pipeline really may stop: an offer is rejected, or stays behind for want of a retry.
CHECK_DEADLOCK FALSE
