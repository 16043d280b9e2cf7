SPECIFICATION Spec
CONSTANTS
    Indicators = {"rsi", "macd", "kdj", "boll"}
    Need <- MCNeed
    Take <- MCTake
    Window <- MCWindow
    FetchLimit = 5
    StartClock = 3
    MaxClock = 6
    MaxQueue = 1
    MaxFaults = 0
    None = None
INVARIANT EvidenceIsFinal
