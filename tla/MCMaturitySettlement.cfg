\* Two investors, one of them also a depositor; negative amounts are refused.
CONSTANTS
  inv1 = inv1
  inv2 = inv2
  corp = corp
  issuer = issuer
  Accounts = {inv1, inv2, corp, issuer}
  Contract = settlement
  Investors = {inv1, inv2}
  Depositors = {corp, inv1}
  Admins = {corp, inv1}
  Recipients = {corp, inv2}
  Issuer = issuer
  Treasury = issuer
  MaxFeeBps = 1
  Scale = 2
  MaxBatch = 2
  Payouts <- MCPayouts
  Fees <- MCFees
  Transfers = {1, 2}
  Purse <- MCPurse
  Holding <- MCHolding
  MaxI128 = 3
  Tradable = TRUE
  NoOne = NoOne
SPECIFICATION Spec
INVARIANTS CountMatches DepositsBacked
PROPERTIES SettlesOnce FeeCapped
