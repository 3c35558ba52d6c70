\* A payment in USDC and one in XLM of the same investor, one retry, one restart.
\* The monitor stops for ever when its attempts are used up.
CONSTANTS
  p1 = p1
  p2 = p2
  m1 = m1
  h1 = h1
  h2 = h2
  Payments = {p1, p2}
  Memos = {m1}
  MemoOf <- MCMemoOf
  AssetOf <- MCAssetOf
  Handlers = {h1, h2}
  MaxAttempts = 2
  MaxRetries = 1
  MaxRestarts = 1
SPECIFICATION FairSpec
INVARIANT ForwardedOnce
PROPERTIES MonitorReturns RelayEnds
CHECK_DEADLOCK FALSE
