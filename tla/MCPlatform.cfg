SPECIFICATION PlatformSpec
CONSTANTS
  a1 = a1
  a2 = a2
  b1 = b1
  b2 = b2
  Pins = {"p1", "0000"}
  CommonPins = {"0000"}
  MaxAttempts = 2
  LockTime = 2
  CodeTtl = 1
  IdleTime = 1
  MaxResets = 1
  Price = 1
  Funds = 1
  Requests = {"r1"}
  MaxEpoch = 1
  Ids = {1, 2, 3}
  Telegram = {1, 2}
  Codes = {1}
  Admins = {1, 2}
  Confirmations = {b1, b2}
  Limit = 1
  Window = 3
  MaxSkew = 1
  MaxRestarts = 1
  Ttl = 2
  MaxLoad = 1
  Processes = {"p1", "p2"}
  Services = {a1, a2}
  MaxActive = 1
  Users = {a1, a2}
  Deals = {"d1", "d2"}
  Handlers = {b1, b2}
  Office = {"u1", "u2", "u3"}
  Arbiters = {"u4"}
  Moves = {a1, a2}
  Approvals = {b1, b2}
  Registered = {1, 2, 3}
  ChunkSize = 2
  Booting = {a1, a2}
  MaxId = 4
  MaxTime = 1
  PageSize = 2
SYMMETRY Symmetry
CHECK_DEADLOCK FALSE
INVARIANTS
  TypesOK
  GuessesBounded
  RevokedStayRevoked
  SomeoneCanAct
  AdmittedBounded
  WritesStopSoon
  QuotaKept
  RatingFollowsReviews
  LargeMovesSeconded
  CountsBacked
  BootsSurvive
  PagesComplete
PROPERTIES
  NothingDiscarded
