SPECIFICATION MCSpec
CONSTANTS
    Reqs = {r1, r2, r3}
    Wallets = {w1, w2}
    Ips = {i1}
    FAUCET_COOLDOWN = 1
    FAUCET_IP_LIMIT = 2
    MaxClock = 3
    MaxRestarts = 1
    MaxWrites = 2
    Keys = {k1, k2}
    BadKeys = {k2}
    Handlers = {h1, h2}
    NEGATIVE_TTL = 1
    NEGATIVE_MAX = 1
    CACHE_MAX = 0
    RPC_MAX = 1
    MaxVersion = 2
    MaxTime = 3
    Refreshes = {t1, t2}
    BURNED = 2
    MaxMinted = 3
    MAX_PRICE_POINTS = 4
    SAVE_EVERY = 2
    MaxRecords = 12
    MaxPriceFaults = 2
SYMMETRY MCSymmetry
CHECK_DEADLOCK FALSE
INVARIANTS ServicesInvariant FaucetLimitsHold MetadataHonest BoardAddsUp PricesKept
