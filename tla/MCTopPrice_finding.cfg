SPECIFICATION Spec
CONSTANTS
    w1 = w1
    w2 = w2
    Workers <- MCWorkers
    Symbols = {"b"}
    MaxHour = 2
INVARIANT
    DiscardsOnlyRetired
CHECK_DEADLOCK FALSE
