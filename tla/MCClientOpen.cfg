SPECIFICATION Spec
CONSTANTS
  Processes = {p1, p2}
  MaxOpens = 2
  MaxCrashes = 1
INVARIANTS
  AloneItOpens
  OpenedIsComplete
CHECK_DEADLOCK FALSE
