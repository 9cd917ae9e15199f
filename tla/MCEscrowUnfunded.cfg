SPECIFICATION Spec
CONSTANTS
  NUsers = 2
  NDeals = 2
  NInvoices = 2
  Amounts = {2}
  Rates = {50}
  Percents = {50}
  Payments = {3}
  Transfers = {}
  MaxNet = 6
CHECK_DEADLOCK FALSE
INVARIANTS
  ActiveDealsHoldMoney
