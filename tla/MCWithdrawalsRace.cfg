SPECIFICATION Spec
CONSTANTS
  a1 = a1
  a2 = a2
  NWithdrawals = 2
  Amounts = {1}
  Funds = 3
  Bound = 2
  Admins = {a1, a2}
  AdminPresence = {TRUE}
  AutoModes = {FALSE}
  SweepOn = FALSE
  CarefulAdmins = FALSE
  MaxFaults = 0
CHECK_DEADLOCK FALSE
PROPERTIES
  RejectedStaysRejected
