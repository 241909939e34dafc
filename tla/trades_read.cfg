SPECIFICATION FairSpec
CONSTANTS
    PAGE = 2
    SCAN_PAGES = 2
    INITIAL_SIGNATURES = 2
    PER_PASS = 1
    MAX_TRADES = 3
    TRADE_CHUNK = 2
    Queries <- Pages
    MaxSignatures = 4
    MaxFaults = 1
    None = None
INVARIANTS
    HistoryAsClaimed
PROPERTIES
    PageIsCut
    CatchesUp
