SPECIFICATION FairSpec
CONSTANTS
  NUsers = 2
  NDeals = 1
  NInvoices = 2
  Amounts = {1, 2}
  Rates = {100}
  Percents = {50}
  Payments = {1, 3}
  Transfers = {2}
  MaxNet = 5
CHECK_DEADLOCK FALSE
INVARIANTS
  Conservation
PROPERTIES
  NothingWaitsForever
