\* Two submissions of two intents by two investors, or twice by one; one restart.
CONSTANTS
  r1 = r1
  r2 = r2
  i1 = i1
  i2 = i2
  v1 = v1
  v2 = v2
  Investors = {v1, v2}
  Intents = {i1, i2}
  Requests = {r1, r2}
  Amounts = {1}
  Supply = 2
  MaxRestarts = 1
  None = None
SPECIFICATION FairSpec
INVARIANTS OneInFlight BookedTradesLanded BroadcastIsAnchored CompletedStaysBooked
PROPERTY InFlightIsResolved
