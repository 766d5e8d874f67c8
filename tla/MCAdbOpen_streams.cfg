SPECIFICATION LiveSpec
CONSTANTS
    Openers = {o1, o2}
    MaxOpens = 2
    MaxWrites = 1
    SpuriousWakeups = {2}
    Writable = {1}
    Closable = {1}
CHECK_DEADLOCK FALSE
INVARIANTS TypeOK AwaitingMatches OpenIsFindable
PROPERTIES LifeSpec CloseArrives
