SPECIFICATION PartsSpec
CONSTANTS
    Worker = {w1, w2}
    Mint = {a, b}
    Uri = {uri1}
    UriOf <- OneUri
    OwnConfig = {a, b}
    Quantum = {b}
    MAX_EXTERNAL = 1
    maxNative = 1
    launchesPerWallet = 1
    MaxTx = 2
    MaxOps = 3
    MaxDay = 1
    MaxFaults = 1
    MaxLapses = 1
    None = None
    a = a
    b = b
    uri1 = uri1
    w1 = w1
    w2 = w2
    Caller = {c1, c2, c3}
    ProcessOf <- TwoProcesses
    MaxLeases = 3
    c1 = c1
    c2 = c2
    c3 = c3
    p1 = p1
    p2 = p2
INVARIANTS
    UriListsOneCoin
    DailyAllowance
    LaunchListed
    OneHolder
PROPERTY
    LaunchStays
SYMMETRY Workers
CHECK_DEADLOCK FALSE
