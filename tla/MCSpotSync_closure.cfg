CONSTANTS
  None = None
  Dead = Dead
  Sync = Sync
  Monitors = {m1}
  Callers = {c1}
  Editors = {e1}
  MinGap = 0
  MaxAge = 0
  MaxClock = 0
  MaxFaults = 0
  Outlivable = {}
SPECIFICATION FairSpec
PROPERTIES
  ClosedIsPaused
CHECK_DEADLOCK FALSE
