\* Two preparations, two submissions, safety.
CONSTANTS
  inv1 = inv1
  inv2 = inv2
  corp = corp
  treasury = treasury
  ops = ops
  MaxJobs = 2
  MaxSubmissions = 2
  Investments <- MCInvestments
  Founding = 1
  SpreadNum = 2
  SpreadDen = 5
  Expected = 1
  BatchSize = 1
  MaxTries = 2
  Accounts = {inv1, inv2, corp, treasury}
  Payer = corp
  Treasury = treasury
  Admins = {ops}
  Deployer = ops
  NoOne = NoOne
  MaxBatch = 2
  MaxI128 = 100
  Purse <- MCPurse
SPECIFICATION Spec
INVARIANTS TypeOK CounterNeverAhead ConfirmedNeverAhead RecordedWasPaid
