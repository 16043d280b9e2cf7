CONSTANTS
  None = None
  Dead = Dead
  Sync = Sync
  Monitors = {m1}
  Callers = {}
  Editors = {e1, e2}
  MinGap = 1
  MaxAge = 1
  MaxClock = 1
  MaxFaults = 0
  Outlivable = {}
SPECIFICATION Spec
SYMMETRY Symmetry
INVARIANTS
  ClosurePersistedFirst
CHECK_DEADLOCK FALSE
