SPECIFICATION Spec
CONSTANTS
  Processes = {p1, p2}
SYMMETRY Symmetry
INVARIANTS CurrenciesSeeded
CHECK_DEADLOCK FALSE
