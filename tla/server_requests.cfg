SPECIFICATION PartsSpec
CONSTANTS
    a = a
    b = b
    d = d
    d2 = d2
    Art = {a, b}
    Doc = {d, d2}
    ArtOf <- ArtOfDoc
    Size <- SizeOf
    LIMIT = 4
    PENDING = 2
    SWEEP_MS = 1
    MaxNow = 4
    p1 = p1
    Instance = {s1, s2}
    Visitor = {v1, v2}
    Prefix = {p1}
    MaxRequests = 3
    PrefixOf <- OnePrefix
    AllKey = AllKey
    limit = 1
    PREFIX_FACTOR = 2
    globalLimit = 2
    SHARE = 1
    Cost = {1}
    MaxLarge = 1
    MaxFaults = 1
    Key = {"list"}
    Request = {r1, r2}
    READ_CACHE_MS = 1
    READ_CACHE_MAX = 1
    MaxReads = 2
    MaxWrites = 1
    MaxReadNow = 1
INVARIANTS
    StoresTrue
    KeptWhole
    RefusalsEarned
    RecheckIsNew
SYMMETRY Alike
CHECK_DEADLOCK FALSE
