SPECIFICATION Spec
CONSTANTS
  Ids = {1, 2, 3}
  Telegram = {1, 2}
  Codes = {1}
  Admins = {1}
  Requests = {"r1"}
PROPERTIES TrustNotDiscarded
CHECK_DEADLOCK FALSE
