SPECIFICATION PartsSpec
CONSTANTS
    Server = {s1, s2}
    HOUR = 1
    BLOCKHASH = 1
    RECLAIM_FROM = 2
    RECLAIM_HOURS = 1
    RECLAIM_MAX = 1
    Part = {p1}
    p1 = p1
    MaxNow = 2
    MaxRuns = 3
    None = None
    s1 = s1
    s2 = s2
    h1 = h1
    h2 = h2
    h3 = h3
    Owner = {h1, h2, h3, vault}
    Wallets = {h1, h2, h3}
    Holdings <- Held
    minHold = 1
    Rates = {20000}
    everySecs = 1
    DAY = 24
    holdersShareBps = 6000
    reserveLamports = 20
    maxRunLamports = 36
    minTransferLamports = 3
    minBuybackLamports = 4
    RENT_EXEMPT = 8
    TRANSFERS_PER_TX = 2
    Balance = 392
    Income = 100
    MaxHours = 2
    MaxFaults = 1
    MaxMoves = 1
INVARIANTS
    HeldOffByItself
    PaidAsReported
PROPERTY
    KeepsPromise
SYMMETRY Instances
CHECK_DEADLOCK FALSE
