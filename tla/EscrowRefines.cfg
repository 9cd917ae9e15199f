SPECIFICATION DisciplinedSpec
CONSTANTS
  NUsers = 2
  NDeals = 2
  NInvoices = 2
  Amounts = {2}
  Rates = {50}
  Percents = {30}
  Payments = {1, 3}
  Transfers = {2}
  MaxNet = 4
CHECK_DEADLOCK FALSE
PROPERTIES
  KeepsPromise
