SPECIFICATION PartsSpec
CONSTANTS
    BPS = 4
    MAX_SPLITS = 2
    MAX_LOCK_DURATION = 1
    w1 = w1
    w2 = w2
    Payable = {w1, w2}
    Reserved = {key}
    NoAddress = NoAddress
    SplitShares = {0, 1, 3}
    LockShares = {2}
    Days = {0, 1, 2}
    Tokens = {0, 4}
    RentMin = 9
    AtaRent = 20
    MIN_PULSE_LAMPORTS = 10
    EPOCH_TTL = 3
    MIN_EPOCH_INTERVAL = 2
    t = t
    l = l
    a = a
    NoHooks = NoHooks
    Wallet = {t, l, a}
    Owners = {t, l, a}
    Params <- PulseParams
    Configs <- PulseConfigs
    Trees <- NoTrees
    Amounts = {12, 25}
    Spends = {}
    Start = 2
    MaxNow = 2
    MaxInflow = 37
INVARIANTS
    Solvent
    BooksBalance
    FormAccepted
PROPERTY
    DebtPaidWhole
SYMMETRY Wallets
CHECK_DEADLOCK FALSE
