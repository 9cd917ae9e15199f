SPECIFICATION Spec
CONSTANTS
  Processes = {p1}
PROPERTIES RetriesIdempotent
CHECK_DEADLOCK FALSE
