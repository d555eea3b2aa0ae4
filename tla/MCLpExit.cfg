SPECIFICATION ExitSpec
CONSTANTS
    p1 = p1
    p2 = p2
    lp = lp
    lp2 = lp2
    NoMint = NoMint
    LpMints <- MCOneMint
    Positions <- MCTwo
    Legacies <- MCLegacies
    Amounts <- MCAmountOne
    LOCK_DAYS <- MCLockDays
    LOCK_MULTIPLIER_BPS <- MCMultiplier
    EARLY_EXIT_PENALTY_BPS <- MCPenalty
    PENALTY_BURN_BPS = 5000
    Deposits <- MCDeposits
    INITIAL_VAULT = 0
    ACC_SCALE = 12
    POOL_RENT = 2
    EMISSION_NUM = 1
    EMISSION_DEN = 3
    MAX_DEPOSITS = 1
    MAX_TIME = 0
    MAX_BUDGET = 1
CHECK_DEADLOCK FALSE
PROPERTIES FullWithdrawalSucceeds
