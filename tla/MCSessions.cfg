SPECIFICATION Spec
CONSTANTS
  a1 = a1
  a2 = a2
  b1 = b1
  b2 = b2
  Secrets = {a1, a2}
  Requests = {b1, b2}
  Modes = {"up", "off"}
  MaxEpoch = 1
  Processes = {a1, a2}
  Sockets = {b1, b2}
  Cap = 1
  QueueSize = 1
  MaxEvents = 2
  MaxOutages = 1
SYMMETRY Symmetry
CHECK_DEADLOCK FALSE
INVARIANTS
  CodesAuthoriseOnce
  SessionsEnd
  CapKept
  NewestReached
  RevokedHearNothing
