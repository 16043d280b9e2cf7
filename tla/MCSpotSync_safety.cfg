CONSTANTS
  None = None
  Dead = Dead
  Sync = Sync
  Monitors = {m1}
  Callers = {c1}
  Editors = {e1}
  MinGap = 1
  MaxAge = 0
  MaxClock = 1
  MaxFaults = 1
  Outlivable = {m1}
SPECIFICATION Spec
INVARIANTS
  TypeOK
  PricesFollowBalances
  PublishedClosure
PROPERTIES
  SnapshotsInOrder
  AttemptsSpaced
  BuyStoppedByEdit
CHECK_DEADLOCK FALSE
