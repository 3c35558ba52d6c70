\* One buyer, one company and the outsider; the buyer may become admin.
CONSTANTS
  buyer = buyer
  corp = corp
  stranger = stranger
  Accounts = {buyer, corp, stranger}
  Sale = sale
  Outsider = stranger
  Creator = corp
  Seller = corp
  Treasury = stranger
  Company = corp
  Fee = 1
  Deadline = 1
  MinBuy = 0
  MaxBuy = 2
  Quotes <- MCQuotes
  Purchases <- MCPurchases
  MaxI128 = 5
  Purse <- MCPurse
  Inventory = 2
  LastLedger = 2
  NoOne = NoOne
SPECIFICATION Spec
INVARIANT CapHolds
PROPERTIES PaidMeansDelivered NoUsdcKept
