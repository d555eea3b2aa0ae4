SPECIFICATION FairSpec
CONSTANTS
    Minters = {m1, m2}
    Oracles = {o1, o2}
    Slots = {1}
    MAX_SUPPLY = 3
    MAX_PER_TX = 2
    MINT_TIMEOUT = 1
    RENT = 5
    Price <- MCPrice
    MintPrices = {10}
    RARITY_LEGENDARY = 1
    BURNS_REQUIRED <- MCBurnsTwo
    U64_MAX = 1000
INVARIANTS
    MintInvariant
    RefundCoversUndelivered
PROPERTIES
    OutcomeIsFinal
    AdmissionClosesAtCap
    KeepsEscrowPromise
    RequestsResolve
