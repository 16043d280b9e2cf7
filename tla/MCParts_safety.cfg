SPECIFICATION PartsSpec
CONSTANTS
    MaxChildren = 5
    Senders = {s1, s2, s3}
    CallLimit = 2
    CallWindow = 2
    MaxAdmitted = 12
    MaxFailures = 1
    Requests = {r1, r2}
    CodeLife = 1
    SessionLife = 2
    ZoneOffset = 1
    MaxLogins = 2
    MaxCodes = 3
    Owners = {"root", "user"}
    ListSymbols = {"b", "e"}
    Quota = 1
    MaxIds = 2
    MaxLost = 1
    New <- Asked
    c1 = c1
    c2 = c2
    c3 = c3
    Clients = {c1, c2, c3}
    UserOf <- ClientUser
    Strategies = {"st"}
    MaxSaves = 4
    Workers = {w1, w2}
    TopSymbols = {"b"}
    MaxHour = 2
    MaxOrders = 6
    ConditionCandles <- SomeConditionCandles
    ConditionDepth <- SomeConditionDepth
    ScoreCandles <- SomeScoreCandles
    ScoreDepth <- SomeScoreDepth
    ExitCandles <- SomeExitCandles
    ExitDepth = 5
    Tops = 5
    Indicators = {"macd", "kdj"}
    Need <- CandlesNeeded
    IndicatorTake <- CandlesTaken
    IndicatorWindow <- CandlesRead
    FetchLimit = 4
    StartClock = 3
    MaxClock = 5
    MaxQueue = 1
    MaxFaults = 0
    Limit = 3
    Unset = Unset
    Symbols = {"b", "e"}
    Sweepers = {w1, w2}
    MaxRecords = 2
    PageSize = 1
    Filters <- AllOrOpen
INVARIANTS
    PartsTypeOK
    OnlyForced
    
    AccountsAndSessions
    
    
    NoSaveLost
    HighsToldOnce
    OrdersFollowModels
    
    
    TornOnlyAtZero
PROPERTIES
    RecordsKept
CHECK_DEADLOCK FALSE
