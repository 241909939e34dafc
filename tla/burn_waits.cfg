SPECIFICATION FairSpec
CONSTANTS
    RentMin = 1
    AtaRent = 2
    MIN_PULSE_LAMPORTS = 1
    MIN_PULSE = 20
    MIN_BURN = 6
    MIN_FUSION = 12
    MaxBurn = 20
    Interval = 1
    Grace = 1
    BURN_AFTER = 1
    Hooks <- BurnHook
    Fees = {20}
    MaxFees = 20
    MaxFaults = 0
    MaxSwitches = 0
    None = None
PROPERTY
    ReserveSpent
CHECK_DEADLOCK FALSE
