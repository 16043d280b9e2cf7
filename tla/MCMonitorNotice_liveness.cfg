CONSTANTS
  None = None
  Dead = Dead
  Monitors = {m1}
  Workers = {w1}
  Checkers = {c1}
  Editors = {e1}
  Syncers = {}
  BuyModels = {buy_model}
  SpotModel = spot_model
  SellReasons = {take_profit}
  HourTicks = 2
  MaxAge = 0
  MaxClock = 0
  MaxVersion = 2
  MaxQueue = 1
  MaxFaults = 1
SPECIFICATION FairSpec
PROPERTIES
  LocksAreFreed
  ConditionIsReported
CHECK_DEADLOCK FALSE
