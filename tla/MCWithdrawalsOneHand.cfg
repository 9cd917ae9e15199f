SPECIFICATION HandSpec
CONSTANTS
  a1 = a1
  a2 = a2
  NWithdrawals = 3
  Amounts = {1, 2}
  Funds = 3
  Bound = 2
  Admins = {a1, a2}
  AdminPresence = {TRUE, FALSE}
  AutoModes = {TRUE, FALSE}
  SweepOn = TRUE
  CarefulAdmins = FALSE
  MaxFaults = 2
CHECK_DEADLOCK FALSE
INVARIANTS
  TypeOK
  LockedBacked
  NothingLost
  SweptAsDelivered
PROPERTIES
  SettledIsFinal
  PayoutsKeepPromise
  StaleReconciled
