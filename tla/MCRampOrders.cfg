\* Two orders and sweeps of one row: an order may be crowded out.
\* The orders may have ended for good.
CONSTANTS
  o1 = o1
  o2 = o2
  h1 = h1
  Orders = {o1, o2}
  Abandoned = {o2}
  Handlers = {h1}
  Cron = Cron
  BatchSize = 1
  MaxXdrs = 2
  MaxFaults = 1
SPECIFICATION FairSpec
   
PROPERTY FollowsAnchor
CHECK_DEADLOCK FALSE
