SPECIFICATION PartsSpec
CONSTANTS
    MIN_COVERED = 1
    MaxSeconds = 2
    MaxEpochs = 2
    MaxFaults = 2
    Foreign = 1
    Cancels = 1
    None = None
    Wallet = {1, 2, 3, 4}
    Vault = {5}
    Order <- OwnersInOrder
    Hash <- OwnersHash
    Holdings <- SomeHoldings
    Gaps = {1}
    MAX_STEP = 2
    maxTracked = 4
    maxRecords = 2
    bucketTarget = 1
    bucketMax = 2
    OFF_CURVE_MAX = 1
    MaxSamples = 3
    MaxLosses = 1
    MaxWindows = 1
INVARIANTS
    NothingLost
    LandedServed
    WeightsEarned
PROPERTIES
    KeepsPromise
    CutSettles
