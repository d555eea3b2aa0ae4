SPECIFICATION Spec
CONSTANTS
    Minters = {m1, m2}
    Oracles = {o1}
    Slots = {1, 2}
    MAX_SUPPLY = 1
    MAX_PER_TX = 1
    MINT_TIMEOUT = 1
    RENT = 5
    Price <- MCPrice
    MintPrices = {10}
    RARITY_LEGENDARY = 1
    BURNS_REQUIRED <- MCBurnsTwo
    U64_MAX = 1000
INVARIANT
    HardCap
