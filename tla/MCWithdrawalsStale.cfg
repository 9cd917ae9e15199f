SPECIFICATION Spec
CONSTANTS
  a1 = a1
  a2 = a2
  NWithdrawals = 2
  Amounts = {1}
  Funds = 3
  Bound = 2
  Admins = {a1}
  AdminPresence = {TRUE}
  AutoModes = {TRUE}
  SweepOn = TRUE
  CarefulAdmins = TRUE
  MaxFaults = 0
CHECK_DEADLOCK FALSE
PROPERTIES
  SweepAbsorbsDecisions
