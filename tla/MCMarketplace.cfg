SPECIFICATION FairSpec
CONSTANTS
    w1 = w1
    w2 = w2
    Escrow = Escrow
    Vault = Vault
    Burned = Burned
    Nobody = Nobody
    Wallets <- MCTwo
    Prices <- MCPrices
    Durations <- MCDurations
    OfferLives <- MCLives
    SNIPE_WINDOW = 2
    ROYALTY_BPS = 500
    FEE_NFT_BPS_ROYAL = 2500
    FEE_LP_BPS_ROYAL = 2500
    RENT = 1
    INITIAL_BALANCE = 181
CONSTRAINTS MCTreasuryBound MCStrayBound
CHECK_DEADLOCK FALSE
INVARIANTS MarketInvariant LamportsConserved
PROPERTIES PaysOnlyForGumball SellerIsPaid AgreedPriceHolds AuctionSettles
