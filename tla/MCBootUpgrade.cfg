SPECIFICATION Spec
CONSTANTS
  Processes = {p1, p2}
SYMMETRY Symmetry
INVARIANTS UpgradesSerialized
CHECK_DEADLOCK FALSE
