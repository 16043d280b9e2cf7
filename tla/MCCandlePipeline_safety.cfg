SPECIFICATION Spec
CONSTANTS
    Indicators = {"rsi", "macd", "kdj", "boll"}
    Need <- MCNeed
    Take <- MCTake
    Window <- MCWindow
    FetchLimit = 5
    StartClock = 2
    MaxClock = 7
    MaxQueue = 1
    MaxFaults = 1
    None = None
INVARIANTS
    TypeOK
    StoredInOrder
    SettledBehindNewest
    WindowsComplete
    OlderEvidenceExact
