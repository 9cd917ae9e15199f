SPECIFICATION Spec
CONSTANTS
  r1 = r1
  r2 = r2
  NDeposits = 1
  Amounts = {3}
  Sums = {1, 2, 4}
  Funds = 4
  Tolerance = 1
  Requests = {r1, r2}
  MaxFaults = 1
CHECK_DEADLOCK FALSE
PROPERTIES
  RetriesNeverCredit
