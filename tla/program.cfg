SPECIFICATION PartsSpec
CONSTANTS
    Field = {"authority", "keeper"}
    Value = {k1, k2}
    k1 = k1
    k2 = k2
    Operator = {k1, k2}
    Lists = {l1}
    l1 = l1
    NodesLag = FALSE
    MaxChanges = 2
    MaxPending = 1
    Idle = Idle
    MAX_LOCK_DURATION = 4
    Supply = 4
    Terms <- LockTerms
    Horizon = 6
    NoCoin = NoCoin
    RentMin = 9
    AtaRent = 20
    MIN_PULSE_LAMPORTS = 10
    EPOCH_TTL = 3
    MIN_EPOCH_INTERVAL = 2
    t = t
    l = l
    a = a
    NoHooks = NoHooks
    Wallet = {t}
    Owners = {}
    Params <- LedgerParams
    Configs <- LedgerConfigs
    Trees <- LedgerTrees
    Amounts = {13}
    Spends = {2, 8, 12}
    Start = 2
    MaxNow = 6
    MaxInflow = 26
INVARIANTS
    NeverEarly
    AllOutAtEnd
    NoFault
    Paced
    EpochsExact
    VetoIsTotal
PROPERTY
    NothingUndone
SYMMETRY Keys
CHECK_DEADLOCK FALSE
