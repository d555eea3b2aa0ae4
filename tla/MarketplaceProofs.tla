-------------------------- MODULE MarketplaceProofs --------------------------
(***************************************************************************)
(* Custody, owner record and payment of a gumball, for any wallets,        *)
(* prices, fees and durations: MarketInvariant and LamportsConserved hold  *)
(* in every reachable state, and every step keeps PaysOnlyForGumball,      *)
(* SellerIsPaid and AgreedPriceHolds.                                      *)
(***************************************************************************)
EXTENDS Marketplace, ArithmeticProofs

ListingType == [open : BOOLEAN, seller : Wallets \cup {Nobody}, price : Nat]
AuctionType == [open : BOOLEAN, seller : Wallets \cup {Nobody}, start_price : Nat,
                left : Nat, highest_bid : Nat,
                highest_bidder : Wallets \cup {Nobody}, lamports : Nat]
OfferType == [open : BOOLEAN, amount : Nat, left : Nat \cup {-1}, lamports : Nat]
SignedType == [kind : {"none", "buy", "accept"}, limit : Nat, buyer : Wallets \cup {Nobody}]

\* TypeOK, one part for what an action changes together.
PlacesOK ==
    /\ token \in Places
    /\ owner \in Wallets \cup {Burned}
    /\ staker \in Wallets \cup {Nobody}
    /\ strayed \in BOOLEAN
SalesOK == listing \in ListingType /\ auction \in AuctionType
OffersOK == offers \in [Wallets -> OfferType]
BalanceOK == balance \in [Wallets -> Nat]
SinksOK == sinks \in [treasury : Nat, nft_pool : Nat, lp_pool : Nat]
SignedOK == signed \in [Wallets -> SignedType]

\* What the accounts hold is enough for what they will pay, so that no balance
\* gets negative; MarketInvariant is not inductive without it.
AuctionFunded ==
    auction.open =>
      /\ auction.lamports = RENT + auction.highest_bid
      /\ auction.highest_bid # 0 => auction.highest_bidder \in Wallets
OffersFunded ==
    \A w \in Wallets : offers[w].open => offers[w].lamports = offers[w].amount + RENT
BuyersKnown ==
    \A w \in Wallets : signed[w].kind = "accept" => signed[w].buyer \in Wallets

MarketInv ==
    /\ PlacesOK /\ SalesOK /\ OffersOK /\ BalanceOK /\ SinksOK /\ SignedOK
    /\ CustodyBacked
    /\ SellerOnRecord
    /\ AuctionFunded
    /\ OffersFunded
    /\ BuyersKnown

LEMMA InvGivesInvariant == MarketInv => MarketInvariant
  BY DEF MarketInv, MarketInvariant, TypeOK, PlacesOK, SalesOK, OffersOK, BalanceOK,
         SinksOK, SignedOK, ListingType, AuctionType, OfferType, SignedType

-----------------------------------------------------------------------------
(* Money.                                                                  *)

\* A share of at most 10000 basis points, rounded down, is at most the whole.
LEMMA ShareIsBounded ==
    ASSUME NEW x \in Nat, NEW bps \in Nat, bps <= 10000
    PROVE  (x * bps) \div 10000 \in Nat /\ (x * bps) \div 10000 <= x
  <1>1. x * bps \in Nat /\ x * bps <= x * 10000
    OBVIOUS
  <1>2. PICK p \in Nat : p = x * bps
    BY <1>1
  <1>3. p <= x * 10000
    BY <1>1, <1>2
  <1>4. p \div 10000 \in Nat /\ p \div 10000 <= x
    BY <1>3
  <1> QED
    BY <1>2, <1>4

\* Two such shares together are at most the whole.
LEMMA SharesAreBounded ==
    ASSUME NEW x \in Nat, NEW a \in Nat, NEW b \in Nat, a + b <= 10000
    PROVE  /\ (x * a) \div 10000 \in Nat
           /\ (x * b) \div 10000 \in Nat
           /\ (x * a) \div 10000 + (x * b) \div 10000 <= x
  <1>1. x * a \in Nat /\ x * b \in Nat
    OBVIOUS
  <1>2. x * a + x * b = x * (a + b)
    OBVIOUS
  <1>3. x * (a + b) <= x * 10000
    OBVIOUS
  <1>4. x * a + x * b <= x * 10000
    BY <1>2, <1>3
  <1>5. PICK p \in Nat, q \in Nat : p = x * a /\ q = x * b
    BY <1>1
  <1>6. p + q <= x * 10000
    BY <1>4, <1>5
  <1>7. p \div 10000 \in Nat /\ q \div 10000 \in Nat /\ p \div 10000 + q \div 10000 <= x
    BY <1>6
  <1> QED
    BY <1>5, <1>7

LEMMA SellerAmountNat ==
    ASSUME NEW price \in Nat
    PROVE  Royalty(price) \in Nat /\ SellerAmount(price) \in Nat
  <1>1. ROYALTY_BPS \in Nat /\ ROYALTY_BPS <= 10000
    BY FeeAssumption
  <1>2. /\ (price * ROYALTY_BPS) \div 10000 \in Nat
        /\ (price * ROYALTY_BPS) \div 10000 <= price
    BY <1>1, ShareIsBounded
  <1>3. Royalty(price) \in Nat /\ Royalty(price) <= price
    BY <1>2 DEF Royalty
  <1> QED
    BY <1>3 DEF SellerAmount

\* The royalty is divided without a negative part.
LEMMA RoyaltyDivided ==
    ASSUME NEW royalty \in Nat
    PROVE  ToTreasury(royalty) \in Nat /\ ToNft(royalty) \in Nat /\ ToLp(royalty) \in Nat
  <1>1. /\ FEE_NFT_BPS_ROYAL \in Nat /\ FEE_LP_BPS_ROYAL \in Nat
        /\ FEE_NFT_BPS_ROYAL + FEE_LP_BPS_ROYAL <= 10000
    BY FeeAssumption
  <1>2. /\ (royalty * FEE_NFT_BPS_ROYAL) \div 10000 \in Nat
        /\ (royalty * FEE_LP_BPS_ROYAL) \div 10000 \in Nat
        /\ (royalty * FEE_NFT_BPS_ROYAL) \div 10000
             + (royalty * FEE_LP_BPS_ROYAL) \div 10000 <= royalty
    BY <1>1, SharesAreBounded
  <1>3. /\ ToNft(royalty) \in Nat /\ ToLp(royalty) \in Nat
        /\ ToNft(royalty) + ToLp(royalty) <= royalty
    BY <1>2 DEF ToNft, ToLp
  <1> QED
    BY <1>3 DEF ToTreasury

LEMMA PayRoyaltyType ==
    ASSUME NEW price \in Nat, SinksOK, PayRoyalty(price)
    PROVE  SinksOK'
  <1>1. /\ ToTreasury(Royalty(price)) \in Nat
        /\ ToNft(Royalty(price)) \in Nat
        /\ ToLp(Royalty(price)) \in Nat
    BY SellerAmountNat, RoyaltyDivided
  <1> QED
    BY <1>1 DEF SinksOK, PayRoyalty

LEMMA CreditType ==
    ASSUME NEW b \in [Wallets -> Nat], NEW w \in Wallets, NEW x \in Int, b[w] + x >= 0
    PROVE  /\ Credit(b, w, x) \in [Wallets -> Nat]
           /\ \A v \in Wallets \ {w} : Credit(b, w, x)[v] = b[v]
           /\ Credit(b, w, x)[w] = b[w] + x
  BY DEF Credit

\* A payment from one wallet and a receipt by another, or by the same.
LEMMA TransferType ==
    ASSUME NEW b \in [Wallets -> Nat], NEW w \in Wallets, NEW v \in Wallets,
           NEW x \in Nat, NEW y \in Nat, b[w] >= x
    PROVE  Credit(Credit(b, w, -x), v, y) \in [Wallets -> Nat]
  <1> DEFINE c == Credit(b, w, -x)
  <1>1. b[w] + (-x) >= 0 /\ -x \in Int
    OBVIOUS
  <1>2. c \in [Wallets -> Nat]
    BY <1>1, CreditType
  <1> HIDE DEF c
  <1>3. c[v] \in Nat
    BY <1>2
  <1>4. c[v] + y >= 0 /\ y \in Int
    BY <1>3
  <1>5. Credit(c, v, y) \in [Wallets -> Nat]
    BY <1>2, <1>4, CreditType
  <1> QED
    BY <1>5 DEF c

LEMMA PaysType ==
    ASSUME BalanceOK, NEW w \in Wallets, NEW x \in Nat, balance[w] >= x
    PROVE  Credit(balance, w, -x) \in [Wallets -> Nat]
  <1>1. -x \in Int /\ balance[w] + (-x) >= 0
    BY DEF BalanceOK
  <1> QED
    BY <1>1, CreditType DEF BalanceOK

LEMMA GainsType ==
    ASSUME BalanceOK, NEW w \in Wallets, NEW x \in Nat
    PROVE  Credit(balance, w, x) \in [Wallets -> Nat]
  <1>1. x \in Int /\ balance[w] + x >= 0
    BY DEF BalanceOK
  <1> QED
    BY <1>1, CreditType DEF BalanceOK

\* A sale is open only where its seller is a wallet.
LEMMA SellersAreWallets ==
    ASSUME MarketInv
    PROVE  /\ listing.open => listing.seller \in Wallets /\ token = Escrow
           /\ auction.open => auction.seller \in Wallets /\ token = Escrow
  BY PlaceAssumption
  DEF MarketInv, CustodyBacked, SellerOnRecord, PlacesOK

-----------------------------------------------------------------------------
(* Listings.                                                               *)

LEMMA ListInv ==
    ASSUME MarketInv, NEW w \in Wallets, NEW price \in Prices, list_gumball(w, price)
    PROVE  MarketInv'
  <1>1. PlacesOK'
    BY DEF MarketInv, PlacesOK, Places, list_gumball
  <1>2. SalesOK'
    BY PriceAssumption DEF MarketInv, SalesOK, ListingType, list_gumball
  <1>3. BalanceOK'
    BY PaysType, FeeAssumption DEF MarketInv, BalanceOK, list_gumball, CanPay
  <1>4. OffersOK' /\ SinksOK' /\ SignedOK' /\ OffersFunded' /\ BuyersKnown'
    BY DEF MarketInv, OffersOK, SinksOK, SignedOK, OffersFunded, BuyersKnown, list_gumball
  <1>5. CustodyBacked'
    BY PlaceAssumption DEF MarketInv, CustodyBacked, list_gumball, MaySell
  <1>6. SellerOnRecord'
    BY PlaceAssumption
    DEF MarketInv, CustodyBacked, SellerOnRecord, list_gumball, MaySell
  <1>7. AuctionFunded'
    BY DEF MarketInv, AuctionFunded, list_gumball
  <1> QED
    BY <1>1, <1>2, <1>3, <1>4, <1>5, <1>6, <1>7 DEF MarketInv

LEMMA DelistInv ==
    ASSUME MarketInv, NEW w \in Wallets, delist_gumball(w)
    PROVE  MarketInv'
  <1>1. PlacesOK'
    BY DEF MarketInv, PlacesOK, Places, delist_gumball
  <1>2. SalesOK'
    BY DEF MarketInv, SalesOK, ListingType, delist_gumball, ListingAfterDelist, NoListing
  <1>3. BalanceOK'
    BY GainsType, FeeAssumption DEF MarketInv, BalanceOK, delist_gumball
  <1>4. OffersOK' /\ SinksOK' /\ SignedOK' /\ OffersFunded' /\ BuyersKnown'
    BY DEF MarketInv, OffersOK, SinksOK, SignedOK, OffersFunded, BuyersKnown, delist_gumball
  <1>5. CustodyBacked'
    BY PlaceAssumption
    DEF MarketInv, CustodyBacked, delist_gumball, ListingAfterDelist, NoListing
  <1>6. SellerOnRecord'
    BY PlaceAssumption
    DEF MarketInv, CustodyBacked, SellerOnRecord, delist_gumball, ListingAfterDelist,
        NoListing
  <1>7. AuctionFunded'
    BY DEF MarketInv, AuctionFunded, delist_gumball
  <1> QED
    BY <1>1, <1>2, <1>3, <1>4, <1>5, <1>6, <1>7 DEF MarketInv

LEMMA BuyInv ==
    ASSUME MarketInv, NEW w \in Wallets, NEW max_price \in Nat, buy_gumball(w, max_price),
           SignedOK', BuyersKnown'
    PROVE  MarketInv'
  <1>1. PlacesOK'
    BY DEF MarketInv, PlacesOK, Places, buy_gumball
  <1>2. SalesOK'
    BY DEF MarketInv, SalesOK, ListingType, buy_gumball, NoListing
  <1>3. listing.price \in Nat /\ listing.seller \in Wallets /\ listing.open
    BY SellersAreWallets DEF MarketInv, SalesOK, ListingType, buy_gumball
  <1>4. SellerAmount(listing.price) + RENT \in Nat
    BY <1>3, SellerAmountNat, FeeAssumption
  <1>5. balance[w] >= listing.price
    BY DEF buy_gumball, CanPay
  <1>6. Credit(Credit(balance, w, -listing.price),
               listing.seller, SellerAmount(listing.price) + RENT) \in [Wallets -> Nat]
    BY <1>3, <1>4, <1>5, TransferType DEF MarketInv, BalanceOK
  <1>7. BalanceOK'
    BY <1>6 DEF BalanceOK, buy_gumball
  <1>8. SinksOK'
    BY <1>3, PayRoyaltyType DEF MarketInv, buy_gumball
  <1>9. OffersOK' /\ OffersFunded'
    BY DEF MarketInv, OffersOK, OffersFunded, buy_gumball
  <1>10. CustodyBacked'
    BY PlaceAssumption DEF MarketInv, CustodyBacked, buy_gumball, NoListing
  <1>11. SellerOnRecord'
    BY PlaceAssumption DEF MarketInv, CustodyBacked, SellerOnRecord, buy_gumball, NoListing
  <1>12. AuctionFunded'
    BY DEF MarketInv, AuctionFunded, buy_gumball
  <1> QED
    BY <1>1, <1>2, <1>7, <1>8, <1>9, <1>10, <1>11, <1>12 DEF MarketInv

-----------------------------------------------------------------------------
(* Offers.                                                                 *)

LEMMA MakeOfferInv ==
    ASSUME MarketInv, NEW w \in Wallets, NEW amount \in Prices, NEW life \in OfferLives,
           make_offer(w, amount, life)
    PROVE  MarketInv'
  <1>1. amount \in Nat /\ life \in Nat /\ RENT \in Nat /\ amount + RENT \in Nat
    BY PriceAssumption, TimeAssumption, FeeAssumption
  <1>2. PlacesOK' /\ SalesOK' /\ SinksOK' /\ SignedOK' /\ BuyersKnown'
    BY DEF MarketInv, PlacesOK, SalesOK, SinksOK, SignedOK, BuyersKnown, make_offer
  <1>3. OffersOK'
    BY <1>1 DEF MarketInv, OffersOK, OfferType, make_offer
  <1>4. OffersFunded'
    BY <1>1 DEF MarketInv, OffersOK, OffersFunded, make_offer
  <1>5. BalanceOK'
    BY <1>1, PaysType DEF MarketInv, BalanceOK, make_offer, CanPay
  <1>6. CustodyBacked' /\ SellerOnRecord' /\ AuctionFunded'
    BY DEF MarketInv, CustodyBacked, SellerOnRecord, AuctionFunded, make_offer
  <1> QED
    BY <1>2, <1>3, <1>4, <1>5, <1>6 DEF MarketInv

LEMMA CancelOfferInv ==
    ASSUME MarketInv, NEW w \in Wallets, cancel_offer(w)
    PROVE  MarketInv'
  <1>1. offers[w].lamports \in Nat
    BY DEF MarketInv, OffersOK, OfferType
  <1>2. PlacesOK' /\ SalesOK' /\ SinksOK' /\ SignedOK' /\ BuyersKnown'
    BY DEF MarketInv, PlacesOK, SalesOK, SinksOK, SignedOK, BuyersKnown, cancel_offer
  <1>3. OffersOK'
    BY DEF MarketInv, OffersOK, OfferType, cancel_offer, NoOffer
  <1>4. OffersFunded'
    BY DEF MarketInv, OffersOK, OffersFunded, cancel_offer, NoOffer
  <1>5. BalanceOK'
    BY <1>1, GainsType DEF MarketInv, BalanceOK, cancel_offer
  <1>6. CustodyBacked' /\ SellerOnRecord' /\ AuctionFunded'
    BY DEF MarketInv, CustodyBacked, SellerOnRecord, AuctionFunded, cancel_offer
  <1> QED
    BY <1>2, <1>3, <1>4, <1>5, <1>6 DEF MarketInv

LEMMA AcceptOfferInv ==
    ASSUME MarketInv, NEW w \in Wallets, NEW buyer \in Wallets, NEW min_amount \in Nat,
           accept_offer(w, buyer, min_amount), SignedOK', BuyersKnown'
    PROVE  MarketInv'
  <1>1. /\ offers[buyer].amount \in Nat
        /\ offers[buyer].lamports = offers[buyer].amount + RENT
        /\ RENT \in Nat
    <2>1. offers[buyer].amount \in Nat /\ RENT \in Nat
      BY FeeAssumption DEF MarketInv, OffersOK, OfferType
    <2>2. offers[buyer].open
      BY DEF accept_offer
    <2> QED
      BY <2>1, <2>2 DEF MarketInv, OffersFunded
  <1>2. SellerAmount(offers[buyer].amount) \in Nat
        /\ offers[buyer].lamports - offers[buyer].amount \in Nat
    BY <1>1, SellerAmountNat
  <1>3. PlacesOK'
    BY DEF MarketInv, PlacesOK, Places, accept_offer
  <1>4. SalesOK' /\ AuctionFunded'
    BY DEF MarketInv, SalesOK, AuctionFunded, accept_offer
  <1>5. OffersOK' /\ OffersFunded'
    BY DEF MarketInv, OffersOK, OffersFunded, OfferType, accept_offer, NoOffer
  <1>6. BalanceOK'
    <2>1. Credit(balance, w, SellerAmount(offers[buyer].amount)) \in [Wallets -> Nat]
      BY <1>2, GainsType DEF MarketInv
    <2>2. \A b \in [Wallets -> Nat] :
            Credit(b, buyer, offers[buyer].lamports - offers[buyer].amount) \in [Wallets -> Nat]
      BY <1>2 DEF Credit
    <2> QED
      BY <2>1, <2>2 DEF BalanceOK, accept_offer
  <1>7. SinksOK'
    BY <1>1, PayRoyaltyType DEF MarketInv, accept_offer
  <1>8. CustodyBacked'
    BY PlaceAssumption DEF MarketInv, CustodyBacked, accept_offer, MaySell
  <1>9. SellerOnRecord'
    BY PlaceAssumption DEF MarketInv, CustodyBacked, SellerOnRecord, accept_offer, MaySell
  <1> QED
    BY <1>3, <1>4, <1>5, <1>6, <1>7, <1>8, <1>9 DEF MarketInv

-----------------------------------------------------------------------------
(* Auctions.                                                               *)

LEMMA CreateAuctionInv ==
    ASSUME MarketInv, NEW w \in Wallets, NEW start_price \in Prices,
           NEW duration \in Durations, create_auction(w, start_price, duration)
    PROVE  MarketInv'
  <1>1. start_price \in Nat /\ duration \in Nat /\ RENT \in Nat
    BY PriceAssumption, TimeAssumption, FeeAssumption
  <1>2. PlacesOK'
    BY DEF MarketInv, PlacesOK, Places, create_auction
  <1>3. SalesOK'
    BY <1>1 DEF MarketInv, SalesOK, AuctionType, create_auction
  <1>4. BalanceOK'
    BY <1>1, PaysType DEF MarketInv, BalanceOK, create_auction, CanPay
  <1>5. OffersOK' /\ SinksOK' /\ SignedOK' /\ OffersFunded' /\ BuyersKnown'
    BY DEF MarketInv, OffersOK, SinksOK, SignedOK, OffersFunded, BuyersKnown, create_auction
  <1>6. CustodyBacked'
    BY PlaceAssumption DEF MarketInv, CustodyBacked, create_auction, MaySell
  <1>7. SellerOnRecord'
    BY PlaceAssumption DEF MarketInv, CustodyBacked, SellerOnRecord, create_auction, MaySell
  <1>8. AuctionFunded'
    BY <1>1 DEF AuctionFunded, create_auction
  <1> QED
    BY <1>2, <1>3, <1>4, <1>5, <1>6, <1>7, <1>8 DEF MarketInv

LEMMA BidInv ==
    ASSUME MarketInv, NEW w \in Wallets, NEW amount \in Prices, bid(w, amount)
    PROVE  MarketInv'
  <1>1. /\ amount \in Nat \ {0} /\ RENT \in Nat /\ SNIPE_WINDOW \in Nat
        /\ auction.left \in Nat /\ auction.highest_bid \in Nat /\ auction.open
    BY PriceAssumption, TimeAssumption, FeeAssumption
    DEF MarketInv, SalesOK, AuctionType, bid
  <1>2. /\ auction.lamports = RENT + auction.highest_bid
        /\ auction.highest_bid # 0 => auction.highest_bidder \in Wallets
    BY <1>1 DEF MarketInv, AuctionFunded
  <1>3. LeftAfterBid \in Nat
    BY <1>1 DEF LeftAfterBid
  <1>4. auction.lamports + amount
          - (IF auction.highest_bid = 0 THEN 0 ELSE Refund(amount)) = RENT + amount
    BY <1>1, <1>2 DEF Refund
  <1>5. auction.seller \in Wallets \cup {Nobody} /\ auction.start_price \in Nat
    BY DEF MarketInv, SalesOK, AuctionType
  <1>6. /\ auction' \in AuctionType
        /\ auction'.open = auction.open /\ auction'.seller = auction.seller
        /\ auction'.highest_bid = amount /\ auction'.highest_bidder = w
        /\ auction'.lamports = RENT + amount
    BY <1>1, <1>3, <1>4, <1>5 DEF AuctionType, bid
  <1>7. SalesOK'
    BY <1>6 DEF MarketInv, SalesOK, bid
  <1>8. AuctionFunded'
    BY <1>6 DEF AuctionFunded
  <1>9. BalanceOK'
    <2>1. CASE auction.highest_bid = 0
      BY <1>1, <2>1, PaysType DEF MarketInv, BalanceOK, bid, CanPay
    <2>2. CASE auction.highest_bid # 0
      <3>1. Credit(Credit(balance, w, -amount), auction.highest_bidder, auction.highest_bid)
              \in [Wallets -> Nat]
        BY <1>1, <1>2, <2>2, TransferType DEF MarketInv, BalanceOK, bid, CanPay
      <3> QED
        BY <2>2, <3>1 DEF BalanceOK, bid, Refund
    <2> QED
      BY <2>1, <2>2
  <1>10. /\ PlacesOK' /\ OffersOK' /\ SinksOK' /\ SignedOK'
         /\ OffersFunded' /\ BuyersKnown'
    BY DEF MarketInv, PlacesOK, OffersOK, SinksOK, SignedOK, OffersFunded, BuyersKnown, bid
  <1>11. CustodyBacked' /\ SellerOnRecord'
    BY <1>6 DEF MarketInv, CustodyBacked, SellerOnRecord, bid
  <1> QED
    BY <1>7, <1>8, <1>9, <1>10, <1>11 DEF MarketInv

LEMMA SettleInv ==
    ASSUME MarketInv, settle_auction
    PROVE  MarketInv'
  <1>1. /\ auction.open /\ auction.seller \in Wallets /\ token = Escrow
        /\ auction.highest_bid \in Nat /\ RENT \in Nat
        /\ auction.lamports = RENT + auction.highest_bid
        /\ auction.highest_bid # 0 => auction.highest_bidder \in Wallets
    BY SellersAreWallets, FeeAssumption
    DEF MarketInv, SalesOK, AuctionType, AuctionFunded, settle_auction
  <1>2. SellerAmount(auction.highest_bid) + auction.lamports - auction.highest_bid \in Nat
    BY <1>1, SellerAmountNat
  <1>3. BalanceOK'
    BY <1>1, <1>2, GainsType DEF MarketInv, BalanceOK, settle_auction
  <1>4. SinksOK'
    <2>1. CASE auction.highest_bid = 0
      BY <2>1 DEF MarketInv, SinksOK, settle_auction
    <2>2. CASE auction.highest_bid # 0
      <3>1. PayRoyalty(auction.highest_bid)
        BY <2>2 DEF settle_auction
      <3> QED
        BY <1>1, <3>1, PayRoyaltyType DEF MarketInv
    <2> QED
      BY <2>1, <2>2
  <1>5. SalesOK' /\ AuctionFunded'
    BY DEF MarketInv, SalesOK, AuctionType, AuctionFunded, settle_auction, NoAuction
  <1>6. /\ token' \in Wallets /\ staker' = staker /\ strayed' = strayed
        /\ listing' = listing /\ auction'.open = FALSE
        /\ owner' = owner \/ owner' = token'
    BY <1>1 DEF settle_auction, NoAuction
  <1>7. PlacesOK'
    BY <1>6 DEF MarketInv, PlacesOK, Places
  <1>8. CustodyBacked'
    BY <1>1, <1>6, PlaceAssumption DEF MarketInv, CustodyBacked
  <1>9. SellerOnRecord'
    BY <1>1, <1>6, PlaceAssumption DEF MarketInv, CustodyBacked, SellerOnRecord
  <1>10. OffersOK' /\ SignedOK' /\ OffersFunded' /\ BuyersKnown'
    BY DEF MarketInv, OffersOK, SignedOK, OffersFunded, BuyersKnown, settle_auction
  <1> QED
    BY <1>3, <1>4, <1>5, <1>7, <1>8, <1>9, <1>10 DEF MarketInv

-----------------------------------------------------------------------------
(* Everything else that moves the token or the owner on record.            *)

\* A step that moves the token between wallets, the vault and the fire, and no
\* money: it starts outside the escrow.
LEMMA MovesTokenInv ==
    ASSUME MarketInv, token # Escrow,
           PlacesOK', CustodyBacked', owner' = Burned <=> token' = Burned,
           UNCHANGED <<listing, auction, offers, balance, sinks, signed>>
    PROVE  MarketInv'
  <1>1. ~listing.open /\ ~auction.open
    BY DEF MarketInv, CustodyBacked
  <1>2. SellerOnRecord' /\ AuctionFunded'
    BY <1>1 DEF SellerOnRecord, AuctionFunded
  <1>3. /\ SalesOK' /\ OffersOK' /\ BalanceOK' /\ SinksOK' /\ SignedOK'
        /\ OffersFunded' /\ BuyersKnown'
    BY DEF MarketInv, SalesOK, OffersOK, BalanceOK, SinksOK, SignedOK, OffersFunded, BuyersKnown
  <1> QED
    BY <1>2, <1>3 DEF MarketInv

LEMMA TokenActionsInv ==
    ASSUME MarketInv, NEW w \in Wallets,
           \/ update_owner(w) \/ stake(w) \/ BurnGumball(w)
           \/ \E a, b \in BOOLEAN : unstake(w, a, b)
           \/ \E to \in Wallets \cup {Escrow, Vault} : TransferToken(w, to)
    PROVE  MarketInv'
  <1>1. CASE update_owner(w)
    BY <1>1, PlaceAssumption, MovesTokenInv
    DEF MarketInv, PlacesOK, Places, CustodyBacked, SellerOnRecord, update_owner
  <1>2. CASE stake(w)
    BY <1>2, PlaceAssumption, MovesTokenInv
    DEF MarketInv, PlacesOK, Places, CustodyBacked, SellerOnRecord, stake
  <1>3. ASSUME NEW a \in BOOLEAN, NEW b \in BOOLEAN, unstake(w, a, b) PROVE MarketInv'
    <2>1. PlacesOK' /\ CustodyBacked'
      BY <1>3, PlaceAssumption DEF MarketInv, PlacesOK, Places, CustodyBacked, unstake
    <2>2. CASE b
      BY <1>3, <2>1, <2>2, PlaceAssumption, MovesTokenInv
      DEF MarketInv, PlacesOK, SellerOnRecord, unstake
    <2>3. CASE ~b
      <3>1. UNCHANGED <<token, owner, listing, auction, offers, balance, sinks, signed>>
        BY <1>3, <2>3 DEF unstake
      <3> QED
        BY <2>1, <3>1
        DEF MarketInv, SalesOK, OffersOK, BalanceOK, SinksOK, SignedOK, SellerOnRecord,
            AuctionFunded, OffersFunded, BuyersKnown
    <2> QED
      BY <2>2, <2>3
  <1>4. CASE BurnGumball(w)
    BY <1>4, PlaceAssumption, MovesTokenInv
    DEF MarketInv, PlacesOK, Places, CustodyBacked, SellerOnRecord, BurnGumball, MaySell
  <1>5. CASE \E to \in Wallets \cup {Escrow, Vault} : TransferToken(w, to)
    BY <1>5, PlaceAssumption, MovesTokenInv
    DEF MarketInv, PlacesOK, Places, CustodyBacked, SellerOnRecord, TransferToken
  <1> QED
    BY <1>1, <1>2, <1>3, <1>4, <1>5

\* A step that changes what is signed and nothing else.
LEMMA OnlySignsInv ==
    ASSUME MarketInv, SignedOK', BuyersKnown',
           UNCHANGED <<token, owner, listing, auction, offers, staker, strayed, balance, sinks>>
    PROVE  MarketInv'
  BY DEF MarketInv, PlacesOK, SalesOK, OffersOK, BalanceOK, SinksOK, CustodyBacked,
         SellerOnRecord, AuctionFunded, OffersFunded

\* A wallet signs tx, or has nothing signed any more.
LEMMA SignsType ==
    ASSUME MarketInv, NEW w \in Wallets, NEW tx \in SignedType,
           tx.kind = "accept" => tx.buyer \in Wallets,
           signed' = [signed EXCEPT ![w] = tx]
    PROVE  SignedOK' /\ BuyersKnown'
  BY DEF MarketInv, SignedOK, BuyersKnown

LEMMA NoTxSigned == NoTx \in SignedType /\ NoTx.kind # "accept"
  BY DEF NoTx, SignedType

LEMMA SignBuyInv ==
    ASSUME MarketInv, NEW w \in Wallets, SignBuy(w)
    PROVE  MarketInv'
  <1> DEFINE tx == [kind |-> "buy", limit |-> listing.price, buyer |-> w]
  <1>1. listing.price \in Nat
    BY DEF MarketInv, SalesOK, ListingType
  <1>2. tx \in SignedType /\ tx.kind # "accept"
    BY <1>1 DEF SignedType
  <1>3. SignedOK' /\ BuyersKnown'
    BY <1>2, SignsType DEF SignBuy
  <1> QED
    BY <1>3, OnlySignsInv DEF SignBuy

LEMMA SignAcceptInv ==
    ASSUME MarketInv, NEW w \in Wallets, NEW buyer \in Wallets, SignAccept(w, buyer)
    PROVE  MarketInv'
  <1> DEFINE tx == [kind |-> "accept", limit |-> offers[buyer].amount, buyer |-> buyer]
  <1>1. offers[buyer].amount \in Nat
    BY DEF MarketInv, OffersOK, OfferType
  <1>2. tx \in SignedType /\ tx.buyer \in Wallets
    BY <1>1 DEF SignedType
  <1>3. SignedOK' /\ BuyersKnown'
    BY <1>2, SignsType DEF SignAccept
  <1> QED
    BY <1>3, OnlySignsInv DEF SignAccept

LEMMA LandInv ==
    ASSUME MarketInv, NEW w \in Wallets, Land(w)
    PROVE  MarketInv'
  <1>1. SignedOK' /\ BuyersKnown'
    BY NoTxSigned, SignsType DEF Land
  <1>2. /\ signed[w].limit \in Nat
        /\ signed[w].kind = "accept" => signed[w].buyer \in Wallets
    BY DEF MarketInv, SignedOK, SignedType, BuyersKnown
  <1>3. CASE buy_gumball(w, signed[w].limit)
    BY <1>1, <1>2, <1>3, BuyInv
  <1>4. CASE signed[w].kind = "accept" /\ accept_offer(w, signed[w].buyer, signed[w].limit)
    BY <1>1, <1>2, <1>4, AcceptOfferInv
  <1> QED
    BY <1>3, <1>4 DEF Land

LEMMA DropInv ==
    ASSUME MarketInv, NEW w \in Wallets, Drop(w)
    PROVE  MarketInv'
  <1>1. SignedOK' /\ BuyersKnown'
    BY NoTxSigned, SignsType DEF Drop
  <1> QED
    BY <1>1, OnlySignsInv DEF Drop

LEMMA TickInv ==
    ASSUME MarketInv, Tick
    PROVE  MarketInv'
  <1>1. auction' \in AuctionType
    BY DEF MarketInv, SalesOK, AuctionType, Tick
  <1>2. /\ auction'.open = auction.open /\ auction'.seller = auction.seller
        /\ auction'.highest_bid = auction.highest_bid
        /\ auction'.highest_bidder = auction.highest_bidder
        /\ auction'.lamports = auction.lamports
    BY DEF MarketInv, SalesOK, AuctionType, Tick
  <1>3. OffersOK'
    <2> DEFINE next(o) == IF o.left >= 0 THEN o.left - 1 ELSE -1
    <2>1. \A o \in OfferType : next(o) \in Nat \cup {-1}
      BY DEF OfferType
    <2>2. \A o \in OfferType, n \in Nat \cup {-1} : [o EXCEPT !.left = n] \in OfferType
      BY DEF OfferType
    <2>3. \A w \in Wallets : offers[w] \in OfferType
      BY DEF MarketInv, OffersOK
    <2>4. offers' = [w \in Wallets |-> [offers[w] EXCEPT !.left = next(offers[w])]]
      BY DEF Tick
    <2> HIDE DEF next
    <2>5. \A w \in Wallets : [offers[w] EXCEPT !.left = next(offers[w])] \in OfferType
      BY <2>1, <2>2, <2>3
    <2> QED
      BY <2>4, <2>5 DEF OffersOK
  <1>4. \A w \in Wallets : /\ offers'[w].open = offers[w].open
                           /\ offers'[w].amount = offers[w].amount
                           /\ offers'[w].lamports = offers[w].lamports
    BY DEF MarketInv, OffersOK, OfferType, Tick
  <1>5. SalesOK'
    BY <1>1 DEF MarketInv, SalesOK, Tick
  <1>6. AuctionFunded'
    BY <1>2 DEF MarketInv, AuctionFunded
  <1>7. OffersFunded'
    BY <1>4 DEF MarketInv, OffersFunded
  <1>8. CustodyBacked' /\ SellerOnRecord'
    BY <1>2 DEF MarketInv, CustodyBacked, SellerOnRecord, Tick
  <1>9. PlacesOK' /\ BalanceOK' /\ SinksOK' /\ SignedOK' /\ BuyersKnown'
    BY DEF MarketInv, PlacesOK, BalanceOK, SinksOK, SignedOK, BuyersKnown, Tick
  <1> QED
    BY <1>3, <1>5, <1>6, <1>7, <1>8, <1>9 DEF MarketInv

-----------------------------------------------------------------------------
(* Custody.                                                                *)

LEMMA InitInv == Init => MarketInv
  <1> SUFFICES ASSUME Init PROVE MarketInv
    OBVIOUS
  <1>1. PlacesOK /\ SalesOK
    BY DEF Init, PlacesOK, Places, SalesOK, ListingType, AuctionType, NoListing, NoAuction
  <1>2. OffersOK /\ SinksOK
    BY DEF Init, OffersOK, OfferType, NoOffer, SinksOK
  <1>3. BalanceOK /\ SignedOK
    BY FeeAssumption, NoTxSigned DEF Init, BalanceOK, SignedOK
  <1>4. CustodyBacked /\ SellerOnRecord
    BY PlaceAssumption DEF Init, CustodyBacked, SellerOnRecord, NoListing, NoAuction
  <1>5. AuctionFunded /\ OffersFunded /\ BuyersKnown
    BY DEF Init, AuctionFunded, OffersFunded, BuyersKnown, NoAuction, NoOffer, NoTx
  <1> QED
    BY <1>1, <1>2, <1>3, <1>4, <1>5 DEF MarketInv

LEMMA StepInv == MarketInv /\ [Next]_vars => MarketInv'
  <1> SUFFICES ASSUME MarketInv, [Next]_vars PROVE MarketInv'
    OBVIOUS
  <1>1. ASSUME NEW w \in Wallets, NEW p \in Prices, list_gumball(w, p) PROVE MarketInv'
    BY <1>1, ListInv
  <1>2. ASSUME NEW w \in Wallets, delist_gumball(w) PROVE MarketInv'
    BY <1>2, DelistInv
  <1>3. ASSUME NEW w \in Wallets, NEW p \in Prices, NEW l \in OfferLives, make_offer(w, p, l)
        PROVE  MarketInv'
    BY <1>3, MakeOfferInv
  <1>4. ASSUME NEW w \in Wallets, cancel_offer(w) PROVE MarketInv'
    BY <1>4, CancelOfferInv
  <1>5. ASSUME NEW w \in Wallets, NEW p \in Prices, NEW d \in Durations,
               create_auction(w, p, d)
        PROVE  MarketInv'
    BY <1>5, CreateAuctionInv
  <1>6. ASSUME NEW w \in Wallets, NEW p \in Prices, bid(w, p) PROVE MarketInv'
    BY <1>6, BidInv
  <1>7. ASSUME NEW w \in Wallets,
               \/ update_owner(w) \/ stake(w) \/ BurnGumball(w)
               \/ \E a, b \in BOOLEAN : unstake(w, a, b)
               \/ \E to \in Wallets \cup {Escrow, Vault} : TransferToken(w, to)
        PROVE  MarketInv'
    BY <1>7, TokenActionsInv
  <1>8. ASSUME NEW w \in Wallets,
               SignBuy(w) \/ Land(w) \/ Drop(w) \/ \E b \in Wallets : SignAccept(w, b)
        PROVE  MarketInv'
    BY <1>8, SignBuyInv, SignAcceptInv, LandInv, DropInv
  <1>9. CASE settle_auction \/ Tick
    BY <1>9, SettleInv, TickInv
  <1>10. CASE UNCHANGED vars
    BY <1>10, OnlySignsInv DEF vars, MarketInv, SignedOK, BuyersKnown
  <1> QED
    BY <1>1, <1>2, <1>3, <1>4, <1>5, <1>6, <1>7, <1>8, <1>9, <1>10 DEF Next

\* Over any mix of listings, offers, auctions, stakes, burns and plain
\* transfers: no open sale is without its token, its seller is the owner on
\* record, and no wallet or account is overdrawn; and until the token is put
\* into custody by hand, or an unstake names two gumballs, a token in the shared
\* escrow backs exactly one sale and one in the vault exactly one stake
\* (lib.rs:1005-1502).
THEOREM CustodySafe == Spec => []MarketInvariant
  <1>1. Init => MarketInv
    BY InitInv
  <1>2. MarketInv /\ [Next]_vars => MarketInv'
    BY StepInv
  <1>3. MarketInv => MarketInvariant
    BY InvGivesInvariant
  <1> QED
    BY <1>1, <1>2, <1>3, PTL DEF Spec

-----------------------------------------------------------------------------
(* Who pays and who is paid: a step either changes nobody's worth, or it   *)
(* is a sale, in which the wallet that ends up with the token pays the     *)
(* price and the seller receives it less the royalty.                      *)

\* The account of a closed offer is empty: what a new offer overwrites is
\* nobody's money.
ClosedOffersEmpty == \A w \in Wallets : ~offers[w].open => offers[w].lamports = 0

MoneyInv == MarketInv /\ ClosedOffersEmpty

LEMMA MoneyInit == Init => MoneyInv
  BY InitInv DEF Init, MoneyInv, ClosedOffersEmpty, NoOffer

\* Only making, cancelling and accepting an offer change what it holds.
LEMMA ClosedOffersStay ==
    ASSUME MoneyInv, [Next]_vars
    PROVE  ClosedOffersEmpty'
  <1>1. offers \in [Wallets -> OfferType] /\ ClosedOffersEmpty
    BY DEF MoneyInv, MarketInv, OffersOK
  <1>2. ASSUME UNCHANGED offers PROVE ClosedOffersEmpty'
    BY <1>1, <1>2 DEF ClosedOffersEmpty
  <1>3. ASSUME NEW w \in Wallets, offers' = [offers EXCEPT ![w] = NoOffer]
        PROVE  ClosedOffersEmpty'
    BY <1>1, <1>3 DEF ClosedOffersEmpty, NoOffer
  <1>4. ASSUME NEW w \in Wallets, NEW a \in Prices, NEW l \in OfferLives, make_offer(w, a, l)
        PROVE  ClosedOffersEmpty'
    BY <1>1, <1>4 DEF ClosedOffersEmpty, make_offer
  <1>5. ASSUME NEW w \in Wallets, Land(w)
        PROVE  UNCHANGED offers \/ \E v \in Wallets : offers' = [offers EXCEPT ![v] = NoOffer]
    <2>1. signed[w].kind = "accept" => signed[w].buyer \in Wallets
      BY DEF MoneyInv, MarketInv, BuyersKnown
    <2> QED
      BY <1>5, <2>1 DEF Land, buy_gumball, accept_offer
  <1>6. CASE Tick
    <2>1. \A w \in Wallets : /\ offers'[w].open = offers[w].open
                             /\ offers'[w].lamports = offers[w].lamports
      BY <1>1, <1>6 DEF Tick, OfferType
    <2> QED
      BY <1>1, <2>1 DEF ClosedOffersEmpty
  <1>7. CASE settle_auction \/ UNCHANGED vars
    BY <1>2, <1>7 DEF settle_auction, vars
  <1>8. ASSUME NEW w \in Wallets,
               \/ \E p \in Prices : list_gumball(w, p)
               \/ delist_gumball(w)
               \/ \E p \in Prices, d \in Durations : create_auction(w, p, d)
               \/ \E p \in Prices : bid(w, p)
               \/ update_owner(w) \/ stake(w) \/ BurnGumball(w)
               \/ \E a, b \in BOOLEAN : unstake(w, a, b)
               \/ \E to \in Wallets \cup {Escrow, Vault} : TransferToken(w, to)
               \/ SignBuy(w) \/ (\E b \in Wallets : SignAccept(w, b)) \/ Drop(w)
        PROVE  UNCHANGED offers
    BY <1>8 DEF list_gumball, delist_gumball, create_auction, bid, update_owner, stake,
                unstake, BurnGumball, TransferToken, SignBuy, SignAccept, Drop
  <1>9. ASSUME NEW w \in Wallets, cancel_offer(w) PROVE ClosedOffersEmpty'
    BY <1>3, <1>9 DEF cancel_offer
  <1> QED
    BY <1>2, <1>3, <1>4, <1>5, <1>6, <1>7, <1>8, <1>9 DEF Next

LEMMA MoneyStep == MoneyInv /\ [Next]_vars => MoneyInv'
  BY StepInv, ClosedOffersStay DEF MoneyInv

-----------------------------------------------------------------------------
(* Prices and balances.                                                    *)

\* A higher price brings the seller no less.
LEMMA SellerAmountRises ==
    ASSUME NEW x \in Nat, NEW y \in Nat, x <= y
    PROVE  SellerAmount(x) <= SellerAmount(y)
  <1>1. ROYALTY_BPS \in Nat /\ ROYALTY_BPS <= 10000
    BY FeeAssumption
  <1>2. PICK p \in Nat : p = x * ROYALTY_BPS
    BY <1>1
  <1>3. PICK q \in Nat : q = y * ROYALTY_BPS
    BY <1>1
  <1>4. PICK d \in Nat : d = y - x
    OBVIOUS
  <1>5. d * ROYALTY_BPS <= d * 10000
    BY <1>1
  <1>6. q = p + d * ROYALTY_BPS
    <2>1. y = x + d
      BY <1>4
    <2>2. (x + d) * ROYALTY_BPS = x * ROYALTY_BPS + d * ROYALTY_BPS
      BY <1>1
    <2> QED
      BY <1>2, <1>3, <2>1, <2>2
  <1>7. PICK e \in Nat : e = d * ROYALTY_BPS
    BY <1>1
  <1>8. q <= p + d * 10000
    BY <1>5, <1>6, <1>7
  <1>9. x - (p \div 10000) <= y - (q \div 10000)
    BY <1>4, <1>8
  <1> QED
    BY <1>2, <1>3, <1>9 DEF SellerAmount, Royalty

LEMMA CreditAt ==
    ASSUME NEW b \in [Wallets -> Int], NEW w \in Wallets, NEW x \in Int
    PROVE  /\ Credit(b, w, x) \in [Wallets -> Int]
           /\ \A v \in Wallets : Credit(b, w, x)[v] = b[v] + (IF v = w THEN x ELSE 0)
  BY DEF Credit

LEMMA CreditTwiceAt ==
    ASSUME NEW b \in [Wallets -> Int], NEW w \in Wallets, NEW u \in Wallets,
           NEW x \in Int, NEW y \in Int
    PROVE  \A v \in Wallets :
             Credit(Credit(b, w, x), u, y)[v]
               = b[v] + (IF v = w THEN x ELSE 0) + (IF v = u THEN y ELSE 0)
  <1>1. PICK c : c = Credit(b, w, x)
    OBVIOUS
  <1>2. /\ c \in [Wallets -> Int]
        /\ \A v \in Wallets : c[v] = b[v] + (IF v = w THEN x ELSE 0)
    BY <1>1, CreditAt
  <1>3. \A v \in Wallets : Credit(c, u, y)[v] = c[v] + (IF v = u THEN y ELSE 0)
    BY <1>2, CreditAt
  <1> QED
    BY <1>1, <1>2, <1>3

\* The amounts in Worth are numbers.
LEMMA WorthTypes ==
    ASSUME MoneyInv
    PROVE  /\ balance \in [Wallets -> Int]
           /\ \A v \in Wallets : offers[v].lamports \in Int
           /\ RENT \in Nat
           /\ auction.highest_bid \in Nat
           /\ listing.price \in Nat
           /\ \A v \in Wallets : Worth(v) \in Int
  <1>1. balance \in [Wallets -> Int]
    BY DEF MoneyInv, MarketInv, BalanceOK
  <1>2. \A v \in Wallets : offers[v].lamports \in Int
    BY DEF MoneyInv, MarketInv, OffersOK, OfferType
  <1>3. RENT \in Nat /\ auction.highest_bid \in Nat /\ listing.price \in Nat
    BY FeeAssumption DEF MoneyInv, MarketInv, SalesOK, AuctionType, ListingType
  <1>4. \A v \in Wallets : Worth(v) \in Int
    BY <1>1, <1>2, <1>3 DEF Worth
  <1> QED
    BY <1>1, <1>2, <1>3, <1>4

\* A payment to or from one wallet.
LEMMA BalanceMoves ==
    ASSUME MoneyInv, NEW w \in Wallets, NEW x \in Int, balance' = Credit(balance, w, x)
    PROVE  \A v \in Wallets : balance'[v] = balance[v] + (IF v = w THEN x ELSE 0)
  <1>1. balance \in [Wallets -> Int]
    BY WorthTypes
  <1>2. \A v \in Wallets :
          Credit(balance, w, x)[v] = balance[v] + (IF v = w THEN x ELSE 0)
    BY <1>1, CreditAt
  <1> QED
    BY <1>2

-----------------------------------------------------------------------------
(* What each step does to the wallets' worth.                              *)

\* Nothing ...
NobodysWorthMoves == \A v \in Wallets : Worth(v)' = Worth(v)

\* ... or a sale.
SaleMoves(seller, buyer, price) ==
    \A v \in Wallets :
      Worth(v)' = Worth(v) + (IF v = seller THEN SellerAmount(price) ELSE 0)
                           - (IF v = buyer THEN price ELSE 0)

LEMMA NoMoneyMoves ==
    ASSUME UNCHANGED <<listing, auction, offers, balance>>
    PROVE  NobodysWorthMoves
  BY DEF NobodysWorthMoves, Worth

LEMMA ListMoves ==
    ASSUME MoneyInv, NEW w \in Wallets, NEW price \in Prices, list_gumball(w, price)
    PROVE  NobodysWorthMoves
  <1>1. \A v \in Wallets : balance'[v] = balance[v] + (IF v = w THEN -RENT ELSE 0)
    <2>1. -RENT \in Int
      BY WorthTypes
    <2>2. balance' = Credit(balance, w, -RENT)
      BY DEF list_gumball
    <2> QED
      BY <2>1, <2>2, BalanceMoves
  <1>2. /\ ~listing.open /\ listing'.open /\ listing'.seller = w
        /\ auction' = auction /\ offers' = offers
    BY DEF list_gumball
  <1> QED
    BY <1>1, <1>2, WorthTypes DEF NobodysWorthMoves, Worth

LEMMA DelistMoves ==
    ASSUME MoneyInv, NEW w \in Wallets, delist_gumball(w)
    PROVE  NobodysWorthMoves
  <1>1. \A v \in Wallets : balance'[v] = balance[v] + (IF v = w THEN RENT ELSE 0)
    <2>1. PICK rent \in Int : rent = RENT
      BY WorthTypes
    <2>2. balance' = Credit(balance, w, rent)
      BY <2>1 DEF delist_gumball
    <2> QED
      BY <2>1, <2>2, BalanceMoves
  <1>2. /\ listing.open /\ listing.seller = w /\ ~listing'.open
        /\ auction' = auction /\ offers' = offers
    BY DEF delist_gumball, ListingAfterDelist, NoListing
  <1> QED
    BY <1>1, <1>2, WorthTypes DEF NobodysWorthMoves, Worth

LEMMA BuyMoves ==
    ASSUME MoneyInv, NEW w \in Wallets, NEW max_price \in Nat, buy_gumball(w, max_price)
    PROVE  /\ listing.seller \in Wallets
           /\ SaleMoves(listing.seller, w, listing.price)
  <1>1. listing.open /\ listing.seller \in Wallets
    BY SellersAreWallets DEF MoneyInv, buy_gumball
  <1>2. PICK price \in Nat : price = listing.price
    BY WorthTypes
  <1>3. PICK gain \in Nat : gain = SellerAmount(price)
    BY SellerAmountNat
  <1>4. balance' = Credit(Credit(balance, w, -price), listing.seller, gain + RENT)
    BY <1>2, <1>3 DEF buy_gumball
  <1>5. -price \in Int /\ gain + RENT \in Int
    BY WorthTypes
  <1>6. \A v \in Wallets :
          balance'[v] = balance[v] + (IF v = w THEN -price ELSE 0)
                                   + (IF v = listing.seller THEN gain + RENT ELSE 0)
    BY <1>1, <1>4, <1>5, WorthTypes, CreditTwiceAt
  <1>7. ~listing'.open /\ auction' = auction /\ offers' = offers
    BY DEF buy_gumball, NoListing
  <1>8. \A v \in Wallets : Worth(v)' = Worth(v) + (IF v = listing.seller THEN gain ELSE 0)
                                                - (IF v = w THEN price ELSE 0)
    <2> SUFFICES ASSUME NEW v \in Wallets
                 PROVE  Worth(v)' = Worth(v) + (IF v = listing.seller THEN gain ELSE 0)
                                             - (IF v = w THEN price ELSE 0)
      OBVIOUS
    <2>1. PICK others \in Int :
            others = offers[v].lamports
              + (IF auction.open /\ auction.seller = v THEN RENT ELSE 0)
              + (IF auction.open /\ auction.highest_bidder = v
                 THEN auction.highest_bid ELSE 0)
      BY WorthTypes
    <2>2. Worth(v) = balance[v] + others + (IF listing.seller = v THEN RENT ELSE 0)
      BY <1>1, <2>1, WorthTypes DEF Worth
    <2>3. Worth(v)' = balance'[v] + others
      BY <1>6, <1>7, <2>1, WorthTypes DEF Worth
    <2>4. PICK bal \in Int : bal = balance[v]
      BY WorthTypes
    <2>5. PICK rent \in Int : rent = RENT
      BY WorthTypes
    <2>6. balance'[v] = bal + (IF v = w THEN -price ELSE 0)
                            + (IF v = listing.seller THEN gain + rent ELSE 0)
      BY <1>6, <2>4, <2>5
    <2>7. Worth(v) = bal + others + (IF v = listing.seller THEN rent ELSE 0)
      BY <2>2, <2>4, <2>5
    <2>8. CASE v = w
      BY <2>3, <2>6, <2>7, <2>8
    <2>9. CASE v # w
      BY <2>3, <2>6, <2>7, <2>9
    <2> QED
      BY <2>8, <2>9
  <1> QED
    BY <1>1, <1>2, <1>3, <1>8 DEF SaleMoves

LEMMA MakeOfferMoves ==
    ASSUME MoneyInv, NEW w \in Wallets, NEW amount \in Prices, NEW life \in OfferLives,
           make_offer(w, amount, life)
    PROVE  NobodysWorthMoves
  <1>1. PICK x \in Nat : x = amount + RENT
    BY PriceAssumption, FeeAssumption
  <1>2. \A v \in Wallets : balance'[v] = balance[v] + (IF v = w THEN -x ELSE 0)
    <2>1. -x \in Int /\ balance' = Credit(balance, w, -x)
      BY <1>1 DEF make_offer
    <2> QED
      BY <2>1, BalanceMoves
  <1>3. offers[w].lamports = 0
    BY DEF MoneyInv, ClosedOffersEmpty, make_offer
  <1>4. \A v \in Wallets :
          offers'[v].lamports = IF v = w THEN x ELSE offers[v].lamports
    BY <1>1 DEF MoneyInv, MarketInv, OffersOK, make_offer
  <1>5. listing' = listing /\ auction' = auction
    BY DEF make_offer
  <1> QED
    BY <1>2, <1>3, <1>4, <1>5, WorthTypes DEF NobodysWorthMoves, Worth

LEMMA CancelOfferMoves ==
    ASSUME MoneyInv, NEW w \in Wallets, cancel_offer(w)
    PROVE  NobodysWorthMoves
  <1>1. \A v \in Wallets :
          balance'[v] = balance[v] + (IF v = w THEN offers[w].lamports ELSE 0)
    <2>1. PICK x \in Int : x = offers[w].lamports
      BY WorthTypes
    <2>2. balance' = Credit(balance, w, x)
      BY <2>1 DEF cancel_offer
    <2> QED
      BY <2>1, <2>2, BalanceMoves
  <1>2. \A v \in Wallets :
          offers'[v].lamports = IF v = w THEN 0 ELSE offers[v].lamports
    BY DEF MoneyInv, MarketInv, OffersOK, cancel_offer, NoOffer
  <1>3. listing' = listing /\ auction' = auction
    BY DEF cancel_offer
  <1> QED
    BY <1>1, <1>2, <1>3, WorthTypes DEF NobodysWorthMoves, Worth

LEMMA AcceptMoves ==
    ASSUME MoneyInv, NEW w \in Wallets, NEW buyer \in Wallets, NEW min_amount \in Nat,
           accept_offer(w, buyer, min_amount)
    PROVE  SaleMoves(w, buyer, offers[buyer].amount)
  <1>1. PICK price \in Nat : price = offers[buyer].amount
    BY DEF MoneyInv, MarketInv, OffersOK, OfferType
  <1>2. offers[buyer].lamports = price + RENT
    BY <1>1 DEF MoneyInv, MarketInv, OffersFunded, accept_offer
  <1>3. PICK gain \in Nat : gain = SellerAmount(price)
    BY SellerAmountNat
  <1>4. balance' = Credit(Credit(balance, w, gain), buyer, offers[buyer].lamports - price)
    BY <1>1, <1>3 DEF accept_offer
  <1>5. offers[buyer].lamports - price = RENT /\ RENT \in Int
    BY <1>2, WorthTypes
  <1>6. \A v \in Wallets :
          balance'[v] = balance[v] + (IF v = w THEN gain ELSE 0)
                                   + (IF v = buyer THEN RENT ELSE 0)
    BY <1>4, <1>5, WorthTypes, CreditTwiceAt
  <1>7. \A v \in Wallets :
          offers'[v].lamports = IF v = buyer THEN 0 ELSE offers[v].lamports
    BY DEF MoneyInv, MarketInv, OffersOK, accept_offer, NoOffer
  <1>8. listing' = listing /\ auction' = auction
    BY DEF accept_offer
  <1>9. \A v \in Wallets : Worth(v)' = Worth(v) + (IF v = w THEN gain ELSE 0)
                                                - (IF v = buyer THEN price ELSE 0)
    BY <1>2, <1>6, <1>7, <1>8, WorthTypes DEF Worth
  <1> QED
    BY <1>1, <1>3, <1>9 DEF SaleMoves

LEMMA CreateAuctionMoves ==
    ASSUME MoneyInv, NEW w \in Wallets, NEW start_price \in Prices,
           NEW duration \in Durations, create_auction(w, start_price, duration)
    PROVE  NobodysWorthMoves
  <1>1. \A v \in Wallets : balance'[v] = balance[v] + (IF v = w THEN -RENT ELSE 0)
    <2>1. -RENT \in Int
      BY WorthTypes
    <2>2. balance' = Credit(balance, w, -RENT)
      BY DEF create_auction
    <2> QED
      BY <2>1, <2>2, BalanceMoves
  <1>2. /\ ~auction.open /\ auction'.open /\ auction'.seller = w /\ auction'.highest_bid = 0
        /\ listing' = listing /\ offers' = offers
    BY DEF create_auction
  <1> QED
    BY <1>1, <1>2, WorthTypes DEF NobodysWorthMoves, Worth

\* The outbid wallet gets its bid back, so that its worth stays.
LEMMA BidMoves ==
    ASSUME MoneyInv, NEW w \in Wallets, NEW amount \in Prices, bid(w, amount)
    PROVE  NobodysWorthMoves
  <1>1. amount \in Nat
    BY PriceAssumption
  <1>2. PICK last \in Nat : last = auction.highest_bid
    BY WorthTypes
  <1>3. last # 0 => auction.highest_bidder \in Wallets
    BY <1>2 DEF MoneyInv, MarketInv, AuctionFunded, bid
  <1>4. /\ auction.open /\ auction'.open /\ auction'.seller = auction.seller
        /\ auction'.highest_bid = amount /\ auction'.highest_bidder = w
        /\ listing' = listing /\ offers' = offers
    BY DEF bid
  <1>5. \A v \in Wallets :
          balance'[v] = balance[v] + (IF v = w THEN -amount ELSE 0)
                          + (IF v = auction.highest_bidder THEN last ELSE 0)
    <2>1. CASE last = 0
      <3>1. balance' = Credit(balance, w, -amount)
        BY <1>2, <2>1 DEF bid
      <3>2. \A v \in Wallets : balance'[v] = balance[v] + (IF v = w THEN -amount ELSE 0)
        BY <1>1, <3>1, BalanceMoves
      <3> QED
        BY <2>1, <3>2, <1>1, WorthTypes
    <2>2. CASE last # 0
      <3>1. balance' = Credit(Credit(balance, w, -amount), auction.highest_bidder, last)
        BY <1>2, <2>2 DEF bid, Refund
      <3> QED
        BY <1>1, <1>3, <2>2, <3>1, WorthTypes, CreditTwiceAt
    <2> QED
      BY <2>1, <2>2
  <1> QED
    BY <1>1, <1>2, <1>4, <1>5, WorthTypes DEF NobodysWorthMoves, Worth

LEMMA SettleMoves ==
    ASSUME MoneyInv, settle_auction
    PROVE  /\ auction.open /\ auction.seller \in Wallets
           /\ auction.highest_bid = 0 => NobodysWorthMoves /\ token' = auction.seller
           /\ auction.highest_bid # 0 =>
                /\ auction.highest_bidder \in Wallets
                /\ token' = auction.highest_bidder
                /\ SaleMoves(auction.seller, auction.highest_bidder, auction.highest_bid)
  <1>1. auction.open /\ auction.seller \in Wallets
    BY SellersAreWallets DEF MoneyInv, settle_auction
  <1>2. PICK price \in Nat : price = auction.highest_bid
    BY WorthTypes
  <1>3. /\ auction.lamports = RENT + price
        /\ price # 0 => auction.highest_bidder \in Wallets
    BY <1>1, <1>2 DEF MoneyInv, MarketInv, AuctionFunded
  <1>4. PICK gain \in Nat : gain = SellerAmount(price)
    BY SellerAmountNat
  <1>5. balance' = Credit(balance, auction.seller, gain + auction.lamports - price)
    BY <1>2, <1>4 DEF settle_auction
  <1>6. gain + auction.lamports - price = gain + RENT /\ gain + RENT \in Int
    BY <1>3, WorthTypes
  <1>7. \A v \in Wallets :
          balance'[v] = balance[v] + (IF v = auction.seller THEN gain + RENT ELSE 0)
    BY <1>1, <1>5, <1>6, BalanceMoves
  <1>8. ~auction'.open /\ listing' = listing /\ offers' = offers
    BY DEF settle_auction, NoAuction
  <1>9. \A v \in Wallets :
          Worth(v)' = Worth(v) + (IF v = auction.seller THEN gain ELSE 0)
                               - (IF v = auction.highest_bidder THEN price ELSE 0)
    <2> SUFFICES ASSUME NEW v \in Wallets
                 PROVE  Worth(v)' = Worth(v)
                          + (IF v = auction.seller THEN gain ELSE 0)
                          - (IF v = auction.highest_bidder THEN price ELSE 0)
      OBVIOUS
    <2>1. PICK others \in Int :
            others = offers[v].lamports
              + (IF listing.open /\ listing.seller = v THEN RENT ELSE 0)
      BY WorthTypes
    <2>2. Worth(v) = balance[v] + others + (IF auction.seller = v THEN RENT ELSE 0)
                       + (IF auction.highest_bidder = v THEN price ELSE 0)
      BY <1>1, <1>2, <2>1, WorthTypes DEF Worth
    <2>3. Worth(v)' = balance'[v] + others
      BY <1>7, <1>8, <2>1, WorthTypes DEF Worth
    <2>4. PICK bal \in Int : bal = balance[v]
      BY WorthTypes
    <2>5. PICK rent \in Int : rent = RENT
      BY WorthTypes
    <2>6. balance'[v] = bal + (IF v = auction.seller THEN gain + rent ELSE 0)
      BY <1>7, <2>4, <2>5
    <2>7. Worth(v) = bal + others + (IF v = auction.seller THEN rent ELSE 0)
                       + (IF v = auction.highest_bidder THEN price ELSE 0)
      BY <2>2, <2>4, <2>5
    <2> QED
      BY <2>3, <2>6, <2>7
  <1>10. CASE price = 0
    <2>1. Royalty(0) = 0
      BY FeeAssumption DEF Royalty
    <2>2. gain = 0
      BY <1>4, <1>10, <2>1 DEF SellerAmount
    <2>3. NobodysWorthMoves
      BY <1>9, <1>10, <2>2, WorthTypes DEF NobodysWorthMoves
    <2> QED
      BY <1>1, <1>2, <1>10, <2>3 DEF settle_auction
  <1>11. CASE price # 0
    <2>1. token' = auction.highest_bidder
      BY <1>2, <1>11 DEF settle_auction
    <2> QED
      BY <1>1, <1>2, <1>3, <1>4, <1>9, <1>11, <2>1 DEF SaleMoves
  <1> QED
    BY <1>10, <1>11

LEMMA TickMoves ==
    ASSUME MoneyInv, Tick
    PROVE  NobodysWorthMoves
  <1>1. /\ auction'.open = auction.open /\ auction'.seller = auction.seller
        /\ auction'.highest_bid = auction.highest_bid
        /\ auction'.highest_bidder = auction.highest_bidder
        /\ listing' = listing /\ balance' = balance
    BY DEF MoneyInv, MarketInv, SalesOK, AuctionType, Tick
  <1>2. \A w \in Wallets : offers'[w].lamports = offers[w].lamports
    BY DEF MoneyInv, MarketInv, OffersOK, OfferType, Tick
  <1> QED
    BY <1>1, <1>2 DEF NobodysWorthMoves, Worth

\* A step without a sale: nobody's worth moves, no fee is taken, and a token
\* that leaves the escrow goes back to its owner on record.
NoSale ==
    /\ NobodysWorthMoves
    /\ UNCHANGED sinks
    /\ token = Escrow => token' \in {Escrow, owner}

LEMMA StepKinds ==
    ASSUME MoneyInv, [Next]_vars
    PROVE  \/ NoSale
           \/ \E w \in Wallets : /\ Land(w)
                                 /\ signed[w].kind = "buy"
                                 /\ buy_gumball(w, signed[w].limit)
           \/ \E w \in Wallets : /\ Land(w)
                                 /\ signed[w].kind = "accept"
                                 /\ accept_offer(w, signed[w].buyer, signed[w].limit)
           \/ settle_auction /\ auction.highest_bid # 0
  <1>1. /\ listing.open => owner = listing.seller
        /\ auction.open => owner = auction.seller
    BY DEF MoneyInv, MarketInv, SellerOnRecord
  <1>2. /\ Escrow \notin Wallets /\ Escrow # Vault /\ Nobody \notin Wallets
    BY PlaceAssumption
  <1>3. ASSUME NEW w \in Wallets, NEW p \in Prices, list_gumball(w, p) PROVE NoSale
    BY <1>2, <1>3, ListMoves DEF NoSale, list_gumball, MaySell
  <1>4. ASSUME NEW w \in Wallets, delist_gumball(w) PROVE NoSale
    BY <1>1, <1>4, DelistMoves DEF NoSale, delist_gumball
  <1>5. ASSUME NEW w \in Wallets, NEW p \in Prices, NEW l \in OfferLives, make_offer(w, p, l)
        PROVE  NoSale
    BY <1>5, MakeOfferMoves DEF NoSale, make_offer
  <1>6. ASSUME NEW w \in Wallets, cancel_offer(w) PROVE NoSale
    BY <1>6, CancelOfferMoves DEF NoSale, cancel_offer
  <1>7. ASSUME NEW w \in Wallets, NEW p \in Prices, NEW d \in Durations,
               create_auction(w, p, d)
        PROVE  NoSale
    BY <1>2, <1>7, CreateAuctionMoves DEF NoSale, create_auction, MaySell
  <1>8. ASSUME NEW w \in Wallets, NEW p \in Prices, bid(w, p) PROVE NoSale
    BY <1>8, BidMoves DEF NoSale, bid
  <1>9. ASSUME NEW w \in Wallets,
               \/ update_owner(w) \/ stake(w) \/ BurnGumball(w)
               \/ \E a, b \in BOOLEAN : unstake(w, a, b)
               \/ \E to \in Wallets \cup {Escrow, Vault} : TransferToken(w, to)
        PROVE  NoSale
    <2>1. token = Escrow => token' = token
      BY <1>2, <1>9
      DEF update_owner, stake, unstake, BurnGumball, MaySell, TransferToken
    <2>2. NobodysWorthMoves
      BY <1>9, NoMoneyMoves DEF update_owner, stake, unstake, BurnGumball, TransferToken
    <2>3. UNCHANGED sinks
      BY <1>9 DEF update_owner, stake, unstake, BurnGumball, TransferToken
    <2> QED
      BY <2>1, <2>2, <2>3 DEF NoSale
  <1>10. ASSUME NEW w \in Wallets,
                SignBuy(w) \/ Drop(w) \/ \E b \in Wallets : SignAccept(w, b)
         PROVE  NoSale
    BY <1>10, NoMoneyMoves DEF NoSale, SignBuy, Drop, SignAccept
  <1>11. CASE settle_auction /\ auction.highest_bid = 0
    <2>1. UNCHANGED sinks
      BY <1>11 DEF settle_auction
    <2> QED
      BY <1>1, <1>11, <2>1, SettleMoves DEF NoSale
  <1>12. CASE Tick
    BY <1>12, TickMoves DEF NoSale, Tick
  <1>13. CASE UNCHANGED vars
    BY <1>13, NoMoneyMoves DEF NoSale, vars
  <1>14. ASSUME NEW w \in Wallets, Land(w)
         PROVE  \/ signed[w].kind = "buy" /\ buy_gumball(w, signed[w].limit)
                \/ /\ signed[w].kind = "accept"
                   /\ accept_offer(w, signed[w].buyer, signed[w].limit)
    BY <1>14 DEF Land
  <1> QED
    BY <1>3, <1>4, <1>5, <1>6, <1>7, <1>8, <1>9, <1>10, <1>11, <1>12, <1>13, <1>14
    DEF Next

\* What a signed transaction carries is a price, and an accept names a wallet.
LEMMA SignedTypes ==
    ASSUME MoneyInv, NEW w \in Wallets
    PROVE  /\ signed[w].limit \in Nat
           /\ signed[w].kind = "accept" => signed[w].buyer \in Wallets
           /\ \A v \in Wallets : offers[v].amount \in Nat
  BY DEF MoneyInv, MarketInv, SignedOK, SignedType, BuyersKnown, OffersOK, OfferType

\* Only the buyer's worth can fall in a sale.
LEMMA OnlyBuyersPay ==
    ASSUME MoneyInv, NEW seller \in Wallets, NEW buyer \in Wallets, NEW price \in Nat,
           SaleMoves(seller, buyer, price), NEW v \in Wallets, Worth(v)' < Worth(v)
    PROVE  v = buyer
  <1>1. PICK gain \in Nat : gain = SellerAmount(price)
    BY SellerAmountNat
  <1>2. Worth(v)' = Worth(v) + (IF v = seller THEN gain ELSE 0)
                             - (IF v = buyer THEN price ELSE 0)
    BY <1>1 DEF SaleMoves
  <1>3. PICK x \in Int : x = Worth(v)
    BY WorthTypes
  <1> QED
    BY <1>2, <1>3

LEMMA PaysStep ==
    ASSUME MoneyInv, [Next]_vars, NEW v \in Wallets, Worth(v)' < Worth(v)
    PROVE  token' = v
  <1>1. CASE NoSale
    <2>1. Worth(v)' = Worth(v)
      BY <1>1 DEF NoSale, NobodysWorthMoves
    <2> QED
      BY <2>1, WorthTypes
  <1>2. ASSUME NEW w \in Wallets, buy_gumball(w, signed[w].limit) PROVE token' = v
    <2>1. v = w
      BY <1>2, BuyMoves, OnlyBuyersPay, WorthTypes, SignedTypes
    <2> QED
      BY <1>2, <2>1 DEF buy_gumball
  <1>3. ASSUME NEW w \in Wallets, signed[w].kind = "accept",
               accept_offer(w, signed[w].buyer, signed[w].limit)
        PROVE  token' = v
    <2>1. v = signed[w].buyer
      BY <1>3, AcceptMoves, OnlyBuyersPay, SignedTypes
    <2> QED
      BY <1>3, <2>1 DEF accept_offer
  <1>4. CASE settle_auction /\ auction.highest_bid # 0
    BY <1>4, SettleMoves, OnlyBuyersPay, WorthTypes
  <1> QED
    BY <1>1, <1>2, <1>3, <1>4, StepKinds

LEMMA SellerStep ==
    ASSUME MoneyInv, [Next]_vars, NEW w \in Wallets,
           token = Escrow, owner = w, token' \notin {Escrow, w}
    PROVE  Worth(w)' = Worth(w)
             + SellerAmount(IF listing.open THEN listing.price ELSE auction.highest_bid)
  <1>1. /\ listing.open => owner = listing.seller
        /\ auction.open => owner = auction.seller /\ ~listing.open
    BY DEF MoneyInv, MarketInv, SellerOnRecord, CustodyBacked
  <1>2. ~NoSale
    BY DEF NoSale
  <1>3. ASSUME NEW price \in Nat, NEW buyer \in Wallets, buyer # w, SaleMoves(w, buyer, price)
        PROVE  Worth(w)' = Worth(w) + SellerAmount(price)
    <2>1. PICK gain \in Nat : gain = SellerAmount(price)
      BY SellerAmountNat
    <2>2. Worth(w)' = Worth(w) + (IF w = w THEN gain ELSE 0)
                               - (IF w = buyer THEN price ELSE 0)
      BY <1>3, <2>1 DEF SaleMoves
    <2>3. Worth(w)' = Worth(w) + gain
      BY <1>3, <2>2, WorthTypes
    <2> QED
      BY <2>1, <2>3
  <1>4. ASSUME NEW u \in Wallets, buy_gumball(u, signed[u].limit)
        PROVE  /\ Worth(w)' = Worth(w) + SellerAmount(listing.price)
               /\ listing.open
    <2>1. listing.open /\ listing.seller = w /\ u # w
      BY <1>1, <1>4 DEF buy_gumball
    <2>2. SaleMoves(w, u, listing.price)
      BY <1>4, <2>1, BuyMoves, SignedTypes
    <2> QED
      BY <1>3, <2>1, <2>2, WorthTypes
  <1>5. ASSUME NEW u \in Wallets, accept_offer(u, signed[u].buyer, signed[u].limit)
        PROVE  FALSE
    BY <1>5, PlaceAssumption DEF accept_offer, MaySell
  <1>6. ASSUME settle_auction, auction.highest_bid # 0
        PROVE  /\ Worth(w)' = Worth(w) + SellerAmount(auction.highest_bid)
               /\ ~listing.open
    <2>1. /\ auction.open /\ auction.seller = w
          /\ auction.highest_bidder \in Wallets /\ auction.highest_bidder # w
          /\ SaleMoves(w, auction.highest_bidder, auction.highest_bid)
      BY <1>1, <1>6, SettleMoves
    <2> QED
      BY <1>1, <1>3, <2>1, WorthTypes
  <1> QED
    BY <1>2, <1>4, <1>5, <1>6, StepKinds

LEMMA AgreedStep ==
    ASSUME MoneyInv, [Next]_vars, NEW w \in Wallets,
           Worth(w)' # Worth(w), signed[w] # NoTx, signed'[w] = NoTx
    PROVE  \/ signed[w].kind = "buy" /\ Worth(w) - Worth(w)' <= signed[w].limit
           \/ signed[w].kind = "accept"
                /\ Worth(w)' - Worth(w) >= SellerAmount(signed[w].limit)
           \/ signed[w].kind = "accept" /\ signed[w].buyer = w
  <1>1. ~NoSale
    BY DEF NoSale, NobodysWorthMoves
  <1>2. ~settle_auction
    BY DEF settle_auction
  <1>3. ASSUME NEW u \in Wallets, Land(u) PROVE u = w
    BY <1>3 DEF Land, MoneyInv, MarketInv, SignedOK
  <1>4. PICK x \in Int : x = Worth(w)
    BY WorthTypes
  <1>5. PICK limit \in Nat : limit = signed[w].limit
    BY SignedTypes
  <1>6. ASSUME signed[w].kind = "buy", buy_gumball(w, limit)
        PROVE  Worth(w) - Worth(w)' <= limit
    <2>1. PICK price \in Nat : price = listing.price
      BY WorthTypes
    <2>2. price <= limit
      BY <1>6, <2>1 DEF buy_gumball, WithinMax
    <2>3. PICK gain \in Nat : gain = SellerAmount(price)
      BY SellerAmountNat
    <2>4. Worth(w)' = x + (IF w = listing.seller THEN gain ELSE 0)
                        - (IF w = w THEN price ELSE 0)
      BY <1>4, <1>6, <2>1, <2>3, BuyMoves DEF SaleMoves
    <2> QED
      BY <1>4, <2>2, <2>4
  <1>7. ASSUME signed[w].kind = "accept", signed[w].buyer # w,
               accept_offer(w, signed[w].buyer, limit)
        PROVE  Worth(w)' - Worth(w) >= SellerAmount(limit)
    <2>1. PICK buyer \in Wallets : buyer = signed[w].buyer
      BY <1>7, SignedTypes
    <2>2. PICK price \in Nat : price = offers[buyer].amount
      BY SignedTypes
    <2>3. limit <= price
      BY <1>7, <2>1, <2>2 DEF accept_offer, AboveMin
    <2>4. PICK gain \in Nat : gain = SellerAmount(price)
      BY SellerAmountNat
    <2>5. PICK least \in Nat : least = SellerAmount(limit)
      BY SellerAmountNat
    <2>6. least <= gain
      BY <2>3, <2>4, <2>5, SellerAmountRises
    <2>7. Worth(w)' = x + (IF w = w THEN gain ELSE 0) - (IF w = buyer THEN price ELSE 0)
      BY <1>4, <1>7, <2>1, <2>2, <2>4, AcceptMoves DEF SaleMoves
    <2>8. Worth(w)' = x + gain
      BY <1>7, <2>1, <2>7
    <2> QED
      BY <1>4, <2>5, <2>6, <2>8
  <1> QED
    BY <1>1, <1>2, <1>3, <1>5, <1>6, <1>7, StepKinds

-----------------------------------------------------------------------------
(* Lamports.  What is the wallets' adds up to all that is not the fees',   *)
(* so that a step which moves nobody's worth, or moves it by a sale, keeps *)
(* the total.                                                              *)

worthOf == [w \in Wallets |-> Worth(w)]
lamportsOf == [w \in Wallets |-> offers[w].lamports]

\* A closed auction account holds nothing.
ClosedAuctionEmpty == ~auction.open => auction.lamports = 0

TotalKept ==
    SumOver(Wallets, worthOf) + sinks.treasury + sinks.nft_pool + sinks.lp_pool
      = INITIAL_BALANCE * Cardinality(Wallets)

LamportsInv == MoneyInv /\ ClosedAuctionEmpty /\ TotalKept

LEMMA WorthNat ==
    ASSUME MoneyInv
    PROVE  /\ balance \in [Wallets -> Nat]
           /\ \A v \in Wallets : /\ balance[v] \in Nat /\ offers[v].lamports \in Nat
                                /\ Worth(v) \in Nat
                                /\ worthOf[v] = Worth(v)
                                /\ lamportsOf[v] = offers[v].lamports
           /\ RENT \in Nat /\ auction.highest_bid \in Nat /\ auction.lamports \in Nat
           /\ sinks.treasury \in Nat /\ sinks.nft_pool \in Nat /\ sinks.lp_pool \in Nat
  <1>1. balance \in [Wallets -> Nat] /\ \A v \in Wallets : offers[v].lamports \in Nat
    BY DEF MoneyInv, MarketInv, BalanceOK, OffersOK, OfferType
  <1>2. RENT \in Nat /\ auction.highest_bid \in Nat /\ auction.lamports \in Nat
    BY FeeAssumption DEF MoneyInv, MarketInv, SalesOK, AuctionType
  <1>3. \A v \in Wallets : Worth(v) \in Nat
    BY <1>1, <1>2 DEF Worth
  <1>4. sinks.treasury \in Nat /\ sinks.nft_pool \in Nat /\ sinks.lp_pool \in Nat
    BY DEF MoneyInv, MarketInv, SinksOK
  <1> QED
    BY <1>1, <1>2, <1>3, <1>4 DEF worthOf, lamportsOf

\* A sum of sums, and the sum of what one wallet alone may have.
LEMMA SumOfBoth ==
    ASSUME NEW f, NEW g, NEW h,
           \A w \in Wallets : f[w] \in Nat /\ g[w] \in Nat /\ h[w] = f[w] + g[w]
    PROVE  SumOver(Wallets, h) = SumOver(Wallets, f) + SumOver(Wallets, g)
  <1>1. 1 \in Nat /\ \A w \in Wallets : f[w] \in Nat /\ g[w] \in Nat /\ h[w] = f[w] + g[w] * 1
    OBVIOUS
  <1>2. SumOver(Wallets, h) = SumOver(Wallets, f) + SumOver(Wallets, g) * 1
    BY <1>1, WalletAssumption, SumOfShares
  <1>3. SumOver(Wallets, g) \in Nat
    BY WalletAssumption, SumIsNat
  <1> QED
    BY <1>2, <1>3

LEMMA SumOfOne ==
    ASSUME NEW u, NEW c \in Nat, NEW f, \A w \in Wallets : f[w] = IF w = u THEN c ELSE 0
    PROVE  SumOver(Wallets, f) = IF u \in Wallets THEN c ELSE 0
  <1> DEFINE z == [w \in Wallets |-> 0]
  <1>1. \A w \in Wallets : z[w] = 0
    OBVIOUS
  <1> HIDE DEF z
  <1>2. SumOver(Wallets, z) = 0
    <2>1. PICK n \in Nat : n = Cardinality(Wallets)
      BY WalletAssumption, FS_CardinalityType
    <2>2. SumOver(Wallets, z) = n * 0
      BY <1>1, <2>1, WalletAssumption, SumOfEqual
    <2> QED
      BY <2>1, <2>2
  <1>3. CASE u \in Wallets
    <2>1. /\ \A w \in Wallets : z[w] \in Nat /\ f[w] \in Nat
          /\ \A w \in Wallets \ {u} : z[w] = f[w]
          /\ f[u] = c /\ z[u] = 0
      BY <1>1, <1>3
    <2>2. SumOver(Wallets, f) + z[u] = SumOver(Wallets, z) + f[u]
      BY <1>3, <2>1, WalletAssumption, SumChange
    <2>3. SumOver(Wallets, f) \in Nat
      BY <2>1, WalletAssumption, SumIsNat
    <2> QED
      BY <1>2, <1>3, <2>1, <2>2, <2>3
  <1>4. CASE u \notin Wallets
    <2>1. \A w \in Wallets : z[w] \in Nat /\ z[w] = f[w]
      BY <1>1, <1>4
    <2>2. SumOver(Wallets, z) = SumOver(Wallets, f)
      BY <2>1, WalletAssumption, SumSame
    <2> QED
      BY <1>2, <1>4, <2>2
  <1> QED
    BY <1>3, <1>4

\* What the wallets are worth is all that is not in the fee accounts.
LEMMA WorthIsAll ==
    ASSUME MoneyInv, ClosedAuctionEmpty
    PROVE  SumOver(Wallets, worthOf)
             = SumOver(Wallets, balance) + SumOver(Wallets, lamportsOf)
                 + (IF listing.open THEN RENT ELSE 0) + auction.lamports
  <1> DEFINE fl == [w \in Wallets |-> IF w = listing.seller
                                      THEN IF listing.open THEN RENT ELSE 0 ELSE 0]
             fa == [w \in Wallets |-> IF w = auction.seller
                                      THEN IF auction.open THEN RENT ELSE 0 ELSE 0]
             fb == [w \in Wallets |-> IF w = auction.highest_bidder
                                      THEN IF auction.open THEN auction.highest_bid ELSE 0 ELSE 0]
             h1 == [w \in Wallets |-> balance[w] + offers[w].lamports]
             h2 == [w \in Wallets |-> h1[w] + fl[w]]
             h3 == [w \in Wallets |-> h2[w] + fa[w]]
  <1>1. PICK rent \in Nat, high \in Nat, l \in Nat, a \in Nat, b \in Nat :
           /\ rent = RENT /\ high = auction.highest_bid
           /\ l = (IF listing.open THEN rent ELSE 0)
           /\ a = (IF auction.open THEN rent ELSE 0)
           /\ b = (IF auction.open THEN high ELSE 0)
    BY WorthNat
  <1>2. \A w \in Wallets : /\ balance[w] \in Nat /\ lamportsOf[w] \in Nat
                           /\ fl[w] = (IF w = listing.seller THEN l ELSE 0)
                           /\ fa[w] = (IF w = auction.seller THEN a ELSE 0)
                           /\ fb[w] = (IF w = auction.highest_bidder THEN b ELSE 0)
                           /\ h1[w] = balance[w] + lamportsOf[w]
                           /\ h2[w] = h1[w] + fl[w] /\ h3[w] = h2[w] + fa[w]
    BY <1>1, WorthNat
  <1>3. \A w \in Wallets : worthOf[w] = h3[w] + fb[w]
    <2>1. SUFFICES ASSUME NEW w \in Wallets PROVE worthOf[w] = h3[w] + fb[w]
      OBVIOUS
    <2>2. h3[w] + fb[w] = balance[w] + offers[w].lamports + fl[w] + fa[w] + fb[w]
      BY <1>2, WorthNat
    <2>3. Worth(w) = balance[w] + offers[w].lamports + fl[w] + fa[w] + fb[w]
      BY DEF Worth
    <2> QED
      BY <2>2, <2>3, WorthNat
  <1> HIDE DEF fl, fa, fb, h1, h2, h3
  <1>4. \A w \in Wallets : /\ fl[w] \in Nat /\ fa[w] \in Nat /\ fb[w] \in Nat
                           /\ h1[w] \in Nat /\ h2[w] \in Nat /\ h3[w] \in Nat
    BY <1>2
  <1>5. /\ SumOver(Wallets, h1) = SumOver(Wallets, balance) + SumOver(Wallets, lamportsOf)
        /\ SumOver(Wallets, h2) = SumOver(Wallets, h1) + SumOver(Wallets, fl)
        /\ SumOver(Wallets, h3) = SumOver(Wallets, h2) + SumOver(Wallets, fa)
        /\ SumOver(Wallets, worthOf) = SumOver(Wallets, h3) + SumOver(Wallets, fb)
    <2>1. SumOver(Wallets, h1) = SumOver(Wallets, balance) + SumOver(Wallets, lamportsOf)
      BY <1>2, SumOfBoth
    <2>2. SumOver(Wallets, h2) = SumOver(Wallets, h1) + SumOver(Wallets, fl)
      BY <1>2, <1>4, SumOfBoth
    <2>3. SumOver(Wallets, h3) = SumOver(Wallets, h2) + SumOver(Wallets, fa)
      BY <1>2, <1>4, SumOfBoth
    <2>4. SumOver(Wallets, worthOf) = SumOver(Wallets, h3) + SumOver(Wallets, fb)
      BY <1>3, <1>4, SumOfBoth
    <2> QED
      BY <2>1, <2>2, <2>3, <2>4
  <1>6. /\ SumOver(Wallets, fl) = (IF listing.seller \in Wallets THEN l ELSE 0)
        /\ SumOver(Wallets, fa) = (IF auction.seller \in Wallets THEN a ELSE 0)
        /\ SumOver(Wallets, fb) = (IF auction.highest_bidder \in Wallets THEN b ELSE 0)
    <2>1. \A w \in Wallets : fl[w] = (IF w = listing.seller THEN l ELSE 0)
      BY <1>2
    <2>2. SumOver(Wallets, fl) = (IF listing.seller \in Wallets THEN l ELSE 0)
      BY <2>1, SumOfOne
    <2>3. \A w \in Wallets : fa[w] = (IF w = auction.seller THEN a ELSE 0)
      BY <1>2
    <2>4. SumOver(Wallets, fa) = (IF auction.seller \in Wallets THEN a ELSE 0)
      BY <2>3, SumOfOne
    <2>5. \A w \in Wallets : fb[w] = (IF w = auction.highest_bidder THEN b ELSE 0)
      BY <1>2
    <2>6. SumOver(Wallets, fb) = (IF auction.highest_bidder \in Wallets THEN b ELSE 0)
      BY <2>5, SumOfOne
    <2> QED
      BY <2>2, <2>4, <2>6
  <1>7. /\ listing.open => listing.seller \in Wallets
        /\ auction.open => auction.seller \in Wallets
        /\ auction.open => auction.lamports = rent + high
        /\ auction.open /\ high # 0 => auction.highest_bidder \in Wallets
        /\ ~auction.open => auction.lamports = 0
    BY <1>1, SellersAreWallets DEF MoneyInv, MarketInv, AuctionFunded, ClosedAuctionEmpty
  <1>8. /\ SumOver(Wallets, fl) = l /\ SumOver(Wallets, fa) = a /\ SumOver(Wallets, fb) = b
        /\ auction.lamports = a + b
    BY <1>1, <1>6, <1>7
  <1>9. SumOver(Wallets, balance) \in Nat /\ SumOver(Wallets, lamportsOf) \in Nat
    BY <1>2, WalletAssumption, SumIsNat
  <1> QED
    BY <1>1, <1>5, <1>8, <1>9

\* The fee accounts receive exactly the royalty, whatever is rounded.
LEMMA RoyaltyPaid ==
    ASSUME SinksOK, NEW price \in Nat, PayRoyalty(price)
    PROVE  sinks'.treasury + sinks'.nft_pool + sinks'.lp_pool
             = sinks.treasury + sinks.nft_pool + sinks.lp_pool + Royalty(price)
  <1>1. PICK r \in Nat : r = Royalty(price)
    BY SellerAmountNat
  <1>2. PICK x \in Nat, y \in Nat, z \in Nat :
           x = ToTreasury(r) /\ y = ToNft(r) /\ z = ToLp(r)
    BY <1>1, RoyaltyDivided
  <1>3. x + y + z = r
    BY <1>1, <1>2 DEF ToTreasury
  <1>4. /\ sinks'.treasury = sinks.treasury + x
        /\ sinks'.nft_pool = sinks.nft_pool + y
        /\ sinks'.lp_pool = sinks.lp_pool + z
    BY <1>1, <1>2 DEF PayRoyalty
  <1>5. PICK t \in Nat, n \in Nat, l \in Nat :
           t = sinks.treasury /\ n = sinks.nft_pool /\ l = sinks.lp_pool
    BY DEF SinksOK
  <1> QED
    BY <1>1, <1>3, <1>4, <1>5

\* A sale moves the price from the buyer to the seller and the fees.
LEMMA SaleKeepsTotal ==
    ASSUME MoneyInv, MoneyInv', TotalKept, NEW seller \in Wallets, NEW buyer \in Wallets,
           NEW price \in Nat, SaleMoves(seller, buyer, price), PayRoyalty(price)
    PROVE  TotalKept'
  <1>1. PICK r \in Nat, gain \in Nat : /\ r = Royalty(price) /\ gain = SellerAmount(price)
                                        /\ gain = price - r
    BY SellerAmountNat DEF SellerAmount
  <1>2. PICK f, g : f = worthOf /\ g = worthOf'
    OBVIOUS
  <1>3. \A v \in Wallets : /\ f[v] \in Nat /\ g[v] \in Nat
                           /\ g[v] = f[v] + (IF v = seller THEN gain ELSE 0)
                                          - (IF v = buyer THEN price ELSE 0)
    <2>1. \A v \in Wallets : f[v] \in Nat /\ f[v] = Worth(v)
      BY <1>2, WorthNat
    <2>2. \A v \in Wallets : g[v] = Worth(v)'
      BY <1>2 DEF worthOf
    <2>3. \A v \in Wallets : Worth(v)' \in Nat
      <3>1. balance' \in [Wallets -> Nat] /\ \A v \in Wallets : offers'[v].lamports \in Nat
        BY DEF MoneyInv, MarketInv, BalanceOK, OffersOK, OfferType
      <3>2. RENT \in Nat /\ auction'.highest_bid \in Nat
        BY FeeAssumption DEF MoneyInv, MarketInv, SalesOK, AuctionType
      <3> QED
        BY <3>1, <3>2 DEF Worth
    <2> QED
      BY <1>1, <2>1, <2>2, <2>3 DEF SaleMoves
  <1> DEFINE m == [v \in Wallets |-> f[v] + (IF v = seller THEN gain ELSE 0)]
  <1>4. \A v \in Wallets : m[v] \in Nat /\ m[v] = f[v] + (IF v = seller THEN gain ELSE 0)
    BY <1>3
  <1> HIDE DEF m
  <1>5. SumOver(Wallets, m) + f[seller] = SumOver(Wallets, f) + m[seller]
    <2>1. \A v \in Wallets \ {seller} : f[v] = m[v]
      BY <1>3, <1>4
    <2> QED
      BY <1>3, <1>4, <2>1, WalletAssumption, SumChange
  <1>6. SumOver(Wallets, g) + m[buyer] = SumOver(Wallets, m) + g[buyer]
    <2>1. \A v \in Wallets \ {buyer} : m[v] = g[v]
      BY <1>3, <1>4
    <2> QED
      BY <1>3, <1>4, <2>1, WalletAssumption, SumChange
  <1>7. PICK sf \in Nat, sm \in Nat, sg \in Nat :
           /\ sf = SumOver(Wallets, f) /\ sm = SumOver(Wallets, m) /\ sg = SumOver(Wallets, g)
    BY <1>3, <1>4, WalletAssumption, SumIsNat
  <1>8. sm = sf + gain
    BY <1>3, <1>4, <1>5, <1>7
  <1>9. sg + price = sm
    <2>1. g[buyer] + price = m[buyer] /\ g[buyer] \in Nat /\ m[buyer] \in Nat
      BY <1>3, <1>4
    <2> QED
      BY <1>6, <1>7, <2>1
  <1>10. sinks'.treasury + sinks'.nft_pool + sinks'.lp_pool
           = sinks.treasury + sinks.nft_pool + sinks.lp_pool + r
    BY <1>1, RoyaltyPaid DEF MoneyInv, MarketInv
  <1>11. PICK t \in Nat, n \in Nat, l \in Nat, u \in Nat, o \in Nat, k \in Nat :
            /\ t = sinks.treasury /\ n = sinks.nft_pool /\ l = sinks.lp_pool
            /\ u = sinks'.treasury /\ o = sinks'.nft_pool /\ k = sinks'.lp_pool
    BY DEF MoneyInv, MarketInv, SinksOK
  <1>12. sg + u + o + k = sf + t + n + l
    <2>1. u + o + k = t + n + l + r
      BY <1>10, <1>11
    <2>2. sg + price = sf + gain /\ gain + r = price
      BY <1>1, <1>8, <1>9
    <2> QED
      BY <2>1, <2>2
  <1> QED
    BY <1>2, <1>7, <1>11, <1>12 DEF TotalKept

LEMMA InitLamports == Init => LamportsInv
  <1>1. SUFFICES ASSUME Init PROVE LamportsInv
    OBVIOUS
  <1>2. MoneyInv
    BY <1>1, MoneyInit
  <1>3. ClosedAuctionEmpty
    BY <1>1 DEF Init, NoAuction, ClosedAuctionEmpty
  <1>4. PICK c \in Nat, k \in Nat : c = INITIAL_BALANCE /\ k = Cardinality(Wallets)
    <2>1. INITIAL_BALANCE \in Nat
      BY FeeAssumption
    <2>2. Cardinality(Wallets) \in Nat
      BY WalletAssumption, FS_CardinalityType
    <2> QED
      BY <2>1, <2>2
  <1>5. \A w \in Wallets : worthOf[w] = c
    BY <1>1, <1>4 DEF Init, worthOf, Worth, NoOffer, NoListing, NoAuction
  <1>6. SumOver(Wallets, worthOf) = k * c
    BY <1>4, <1>5, WalletAssumption, SumOfEqual
  <1>7. sinks.treasury = 0 /\ sinks.nft_pool = 0 /\ sinks.lp_pool = 0
    BY <1>1 DEF Init
  <1>8. PICK x \in Nat : x = k * c /\ x = c * k
    OBVIOUS
  <1>9. TotalKept
    BY <1>4, <1>6, <1>7, <1>8 DEF TotalKept
  <1> QED
    BY <1>2, <1>3, <1>9 DEF LamportsInv

\* Only its settlement closes an auction, and it leaves the account empty.
LEMMA ClosedAuctionStays ==
    ASSUME MoneyInv, ClosedAuctionEmpty, [Next]_vars
    PROVE  ClosedAuctionEmpty'
  <1>1. CASE auction' = auction
    BY <1>1 DEF ClosedAuctionEmpty
  <1>2. ASSUME NEW w \in Wallets, NEW p \in Prices,
               bid(w, p) \/ \E d \in Durations : create_auction(w, p, d)
        PROVE  ClosedAuctionEmpty'
    BY <1>2 DEF bid, create_auction, ClosedAuctionEmpty
  <1>3. CASE settle_auction
    BY <1>3 DEF settle_auction, NoAuction, ClosedAuctionEmpty
  <1>4. CASE Tick
    <2>1. auction'.open = auction.open /\ auction'.lamports = auction.lamports
      BY <1>4 DEF Tick, MoneyInv, MarketInv, SalesOK, AuctionType
    <2> QED
      BY <2>1 DEF ClosedAuctionEmpty
  <1>5. ASSUME NEW w \in Wallets,
               \/ \E p \in Prices : list_gumball(w, p)
               \/ delist_gumball(w)
               \/ \E p \in Prices, l \in OfferLives : make_offer(w, p, l)
               \/ cancel_offer(w) \/ Land(w)
               \/ update_owner(w) \/ stake(w) \/ BurnGumball(w)
               \/ \E a, b \in BOOLEAN : unstake(w, a, b)
               \/ \E to \in Wallets \cup {Escrow, Vault} : TransferToken(w, to)
               \/ SignBuy(w) \/ (\E b \in Wallets : SignAccept(w, b)) \/ Drop(w)
        PROVE  auction' = auction
    BY <1>5 DEF list_gumball, delist_gumball, make_offer, cancel_offer, Land, buy_gumball,
                accept_offer, update_owner, stake, unstake, BurnGumball, TransferToken,
                SignBuy, SignAccept, Drop
  <1>6. CASE UNCHANGED vars
    BY <1>1, <1>6 DEF vars
  <1> QED
    BY <1>1, <1>2, <1>3, <1>4, <1>5, <1>6 DEF Next

LEMMA LamportsStep == LamportsInv /\ [Next]_vars => LamportsInv'
  <1>1. SUFFICES ASSUME LamportsInv, [Next]_vars PROVE LamportsInv'
    OBVIOUS
  <1>2. MoneyInv /\ ClosedAuctionEmpty /\ TotalKept
    BY <1>1 DEF LamportsInv
  <1>3. MoneyInv' /\ ClosedAuctionEmpty'
    BY <1>1, <1>2, MoneyStep, ClosedAuctionStays
  <1>4. ASSUME NoSale PROVE TotalKept'
    <2>1. PICK f, g : f = worthOf /\ g = worthOf'
      OBVIOUS
    <2>2. \A v \in Wallets : f[v] \in Nat /\ f[v] = Worth(v)
      BY <1>2, <2>1, WorthNat
    <2>3. \A v \in Wallets : g[v] = Worth(v)'
      BY <2>1 DEF worthOf
    <2>4. \A v \in Wallets : f[v] \in Nat /\ f[v] = g[v]
      BY <1>4, <2>2, <2>3 DEF NoSale, NobodysWorthMoves
    <2>5. SumOver(Wallets, f) = SumOver(Wallets, g)
      BY <2>4, WalletAssumption, SumSame
    <2>6. sinks' = sinks
      BY <1>4 DEF NoSale
    <2>7. SumOver(Wallets, worthOf') = SumOver(Wallets, worthOf)
      BY <2>1, <2>5, Zenon
    <2> QED
      BY <1>2, <2>6, <2>7, Zenon DEF TotalKept
  <1>5. ASSUME NEW w \in Wallets, buy_gumball(w, signed[w].limit) PROVE TotalKept'
    <2>1. /\ listing.seller \in Wallets /\ listing.price \in Nat
          /\ SaleMoves(listing.seller, w, listing.price)
      BY <1>2, <1>5, BuyMoves, WorthTypes, SignedTypes
    <2>2. PayRoyalty(listing.price)
      BY <1>5 DEF buy_gumball
    <2> QED
      BY <1>2, <1>3, <2>1, <2>2, SaleKeepsTotal
  <1>6. ASSUME NEW w \in Wallets, signed[w].kind = "accept",
               accept_offer(w, signed[w].buyer, signed[w].limit)
        PROVE  TotalKept'
    <2>1. signed[w].buyer \in Wallets /\ signed[w].limit \in Nat
          /\ offers[signed[w].buyer].amount \in Nat
      BY <1>2, <1>6, SignedTypes
    <2>2. SaleMoves(w, signed[w].buyer, offers[signed[w].buyer].amount)
      BY <1>2, <1>6, <2>1, AcceptMoves
    <2>3. PayRoyalty(offers[signed[w].buyer].amount)
      BY <1>6 DEF accept_offer
    <2> QED
      BY <1>2, <1>3, <2>1, <2>2, <2>3, SaleKeepsTotal
  <1>7. ASSUME settle_auction, auction.highest_bid # 0 PROVE TotalKept'
    <2>1. /\ auction.seller \in Wallets /\ auction.highest_bidder \in Wallets
          /\ auction.highest_bid \in Nat
          /\ SaleMoves(auction.seller, auction.highest_bidder, auction.highest_bid)
      BY <1>2, <1>7, SettleMoves, WorthTypes
    <2>2. PayRoyalty(auction.highest_bid)
      BY <1>7 DEF settle_auction
    <2>3. PICK seller \in Wallets, buyer \in Wallets, price \in Nat :
             SaleMoves(seller, buyer, price) /\ PayRoyalty(price)
      BY <2>1, <2>2
    <2> QED
      BY <1>2, <1>3, <2>3, SaleKeepsTotal
  <1>8. TotalKept'
    <2>1. MoneyInv /\ [Next]_vars
      BY <1>1, <1>2
    <2> QED
      BY <1>4, <1>5, <1>6, <1>7, <2>1, StepKinds, Zenon
  <1> QED
    BY <1>3, <1>8 DEF LamportsInv

-----------------------------------------------------------------------------
(* The theorems about money.                                               *)

\* No lamport appears or vanishes, for any wallets, prices, fee shares and
\* mix of sales, outbids, cancellations and roundings.
THEOREM MoneyConserved == Spec => []LamportsConserved
  <1>1. ASSUME LamportsInv PROVE LamportsConserved
    <2>1. MoneyInv /\ ClosedAuctionEmpty /\ TotalKept
      BY <1>1 DEF LamportsInv
    <2>2. auction.open => auction.lamports = RENT + auction.highest_bid
      BY <2>1 DEF MoneyInv, MarketInv, AuctionFunded
    <2>3. PICK s \in Nat, b \in Nat, o \in Nat, l \in Nat, a \in Nat,
               t \in Nat, n \in Nat, p \in Nat :
             /\ s = SumOver(Wallets, worthOf)
             /\ b = SumOver(Wallets, balance) /\ o = SumOver(Wallets, lamportsOf)
             /\ l = (IF listing.open THEN RENT ELSE 0) /\ a = auction.lamports
             /\ t = sinks.treasury /\ n = sinks.nft_pool /\ p = sinks.lp_pool
      <3>1. /\ SumOver(Wallets, worthOf) \in Nat /\ SumOver(Wallets, balance) \in Nat
            /\ SumOver(Wallets, lamportsOf) \in Nat
        BY <2>1, WorthNat, WalletAssumption, SumIsNat
      <3>2. (IF listing.open THEN RENT ELSE 0) \in Nat
        BY <2>1, WorthNat
      <3> QED
        BY <2>1, <3>1, <3>2, WorthNat
    <2>4. s = b + o + l + a
      BY <2>1, <2>3, WorthIsAll
    <2>5. s + t + n + p = INITIAL_BALANCE * Cardinality(Wallets)
      BY <2>1, <2>3 DEF TotalKept
    <2>6. b + o + a + l + t + n + p = INITIAL_BALANCE * Cardinality(Wallets)
      BY <2>4, <2>5
    <2> QED
      BY <2>2, <2>3, <2>6 DEF LamportsConserved, Sum, lamportsOf
  <1>2. LamportsInv => LamportsConserved
    BY <1>1
  <1> QED
    BY <1>2, InitLamports, LamportsStep, PTL DEF Spec

LEMMA MoneySafe == Spec => []MoneyInv
  <1>1. Init => MoneyInv
    BY MoneyInit
  <1>2. MoneyInv /\ [Next]_vars => MoneyInv'
    BY MoneyStep
  <1> QED
    BY <1>1, <1>2, PTL DEF Spec

\* Whatever lists, offers, bids, refunds and late transactions come together,
\* a step that lowers what is a wallet's ends with the token in that wallet
\* (lib.rs:1086-1502): nobody pays for nothing, and no outbid or cancelled
\* escrow is lost.
THEOREM NobodyPaysForNothing == Spec => PaysOnlyForGumball
  <1>1. MoneyInv /\ [Next]_vars
          => [\A w \in Wallets : Worth(w)' < Worth(w) => token' = w]_vars
    BY PaysStep
  <1> QED
    BY <1>1, MoneySafe, PTL DEF Spec, PaysOnlyForGumball

\* The wallet whose token leaves the escrow for somebody else receives the
\* price or the highest bid less the royalty, to the lamport, whoever sends
\* the transaction (buy_gumball, settle_auction).
THEOREM SellersArePaid == Spec => SellerIsPaid
  <1>1. MoneyInv /\ [Next]_vars
          => [\A w \in Wallets :
               token = Escrow /\ owner = w /\ token' \notin {Escrow, w} =>
                 Worth(w)' = Worth(w)
                   + SellerAmount(IF listing.open THEN listing.price
                                  ELSE auction.highest_bid)]_vars
    BY SellerStep
  <1> QED
    BY <1>1, MoneySafe, PTL DEF Spec, SellerIsPaid

\* A transaction signed against a displayed price keeps to it however late it
\* lands and whatever was closed and opened again at that address meanwhile
\* (max_price and min_amount, lib.rs:1088, 1222).
THEOREM PricesHold == Spec => AgreedPriceHolds
  <1>1. MoneyInv /\ [Next]_vars
          => [\A w \in Wallets :
               Worth(w)' # Worth(w) /\ signed[w] # NoTx /\ signed'[w] = NoTx =>
                 \/ signed[w].kind = "buy" /\ Worth(w) - Worth(w)' <= signed[w].limit
                 \/ signed[w].kind = "accept"
                      /\ Worth(w)' - Worth(w) >= SellerAmount(signed[w].limit)
                 \/ signed[w].kind = "accept" /\ signed[w].buyer = w]_vars
    BY AgreedStep
  <1> QED
    BY <1>1, MoneySafe, PTL DEF Spec, AgreedPriceHolds

=============================================================================
