\* Months of three days, one of grace, two payments up to maturity; two requests at a time.
CONSTANTS
  h1 = h1
  h2 = h2
  Requests = {h1, h2}
  Month = 3
  Frequency = 1
  PaymentDay = 0
  Maturity = 6
  Grace = 1
  Soon = 1
  LastDay = 11
  MaxFaults = 1
SPECIFICATION FairScheduleSpec
INVARIANT DefaultNeedsGrace
PROPERTIES PaidUpClears UnpaidEscalates
