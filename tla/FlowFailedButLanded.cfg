\* Two submissions by one investor; a transaction may outlive the answer about it.
CONSTANTS
  r1 = r1
  r2 = r2
  i1 = i1
  i2 = i2
  v1 = v1
  v2 = v2
  Investors = {v1}
  Intents = {i1, i2}
  Requests = {r1, r2}
  Amounts <- MCAmounts
  Supply = 3
  MaxRestarts = 1
  None = None
SPECIFICATION FlowSpec
INVARIANT FailedDidNotLand
