SPECIFICATION LiveSpec
CONSTANTS
    Openers = {o1}
    MaxOpens = 1
    MaxWrites = 1
    SpuriousWakeups = {}
    Writable = {1}
    Closable = {1}
CHECK_DEADLOCK FALSE
PROPERTIES OpenReturns
