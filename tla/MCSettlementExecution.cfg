\* Two overlapping requests, up to three faults; liveness is about the runs with none.
CONSTANTS
  e1 = e1
  e2 = e2
  inv1 = inv1
  inv2 = inv2
  corp = corp
  issuer = issuer
  Executions = {e1, e2}
  Rows <- MCRows
  PlatformFee = 2
  DefaultBps = 2
  Company = corp
  Investors = {inv1, inv2}
  Depositors = {corp}
  Admins = {}
  Recipients = {corp}
  Payouts <- MCAmounts
  Fees <- MCAmounts
  Transfers <- MCAmounts
  Tradable = FALSE
  Accounts = {inv1, inv2, corp, issuer}
  Contract = settlement
  Issuer = issuer
  Treasury = issuer
  MaxFeeBps = 2
  Scale = 2
  MaxBatch = 1
  MaxI128 = 20
  Purse <- MCPurse
  Holding <- MCHolding
  NoOne = NoOne
  MaxFaults = 3
SPECIFICATION FairSpec
INVARIANTS ServiceTypeOK RecordedWasSettled ClosedMeansRecorded PaidInFull
PROPERTY CoveredSettles
