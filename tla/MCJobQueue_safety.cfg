SPECIFICATION FairSpec
CONSTANTS
    MaxAttempts = 2
    MaxReconnects = 2
    MaxConnectionFailures = 2
    MaxProcessingFailures = 2
    MaxPuts = 4
    MaxFaults = 3
    MaxOutages = 1
INVARIANTS
    TypeOK
    
    
PROPERTIES
    Drains
