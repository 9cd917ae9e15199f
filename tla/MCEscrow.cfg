SPECIFICATION Spec
CONSTANTS
  NUsers = 2
  NDeals = 2
  NInvoices = 3
  Amounts = {2}
  Rates = {50}
  Percents = {30}
  Payments = {1, 3}
  Transfers = {}
  MaxNet = 5
CHECK_DEADLOCK FALSE
INVARIANTS
  TypeOK
  EscrowBacked
  Conservation
  CommissionOnce
  InvoiceDiscipline
  OutcomesCounted
PROPERTIES
  ClosedIsFinal
