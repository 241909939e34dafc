SPECIFICATION PartsSpec
CONSTANTS
    RentMin = 1
    AtaRent = 2
    MIN_PULSE_LAMPORTS = 1
    MIN_PULSE = 20
    MIN_BURN = 6
    MIN_FUSION = 12
    MaxBurn = 20
    Interval = 1
    Grace = 1
    BURN_AFTER = 1
    Hooks <- BothHooks
    Fees = {40}
    MaxFees = 40
    MaxFaults = 1
    MaxSwitches = 1
    SCAN_CHUNK = 1
    MaxEpochs = 2
    MaxFailed = 2
    MaxOthers = 2
    Coin = {x, y, z}
    x = x
    y = y
    z = z
    Slow = {x}
    Filling = {y}
    Ticks = {t1, t2}
    t1 = t1
    t2 = t2
    Budget = 2
    MIGRATION_LOOKUPS = 1
    MIGRATIONS_PER_TICK = 1
    MaxChanges = 1
    MaxTroubles = 1
    None = None
PROPERTIES
    WorkDone
    AllClosed
    CoinsServed
CHECK_DEADLOCK FALSE
