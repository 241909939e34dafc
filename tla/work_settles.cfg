SPECIFICATION PartsSpec
CONSTANTS
    Plans <- AllPlans
    MaxTx = 3
    Passes = 3
    Attempts = 2
    MaxFaults = 2
    None = None
    Key = {"list"}
    Request = {r1, r2}
    READ_CACHE_MS = 1
    READ_CACHE_MAX = 1
    MaxReads = 2
    MaxWrites = 0
    MaxNow = 1
    Histories <- BoughtAndBurned
    pageLimit = 1
    maxPages = 1
    maxReads = 2
    READ_TRIES = 2
    MaxListFaults = 1
    MaxStrays = 1
INVARIANTS
    StagesOnce
    SaysWhatLanded
    FiguresTrue
PROPERTIES
    Finishes
    AllEnd
    CaughtUp
CHECK_DEADLOCK FALSE
