----------------------------- MODULE Marketplace -----------------------------
(***************************************************************************)
(* Who has a gumball and who is paid for it: fixed-price listings, offers, *)
(* English auctions, staking, burning and plain token transfers of         *)
(* programs/gumball_nft/src/lib.rs.                                        *)
(*                                                                         *)
(* Every account of the marketplace is derived from one gumball's mint, so *)
(* gumballs meet only in the wallets' lamports: one gumball is modelled.   *)
(* Listings and auctions share one escrow account for its token.           *)
(*                                                                         *)
(* A buy or an accept is signed against the price a page displays and      *)
(* lands later, or never; what it agreed to is the limit it carries.       *)
(* Time is the time left of an auction or offer (0 at the very end, -1     *)
(* after the end of an offer); the program compares the clock with nothing *)
(* else.  Rents of token and stake accounts, GUM and the traits are left   *)
(* out.                                                                    *)
(***************************************************************************)
EXTENDS FiniteSums

CONSTANTS
    Wallets,
    Prices,          \* prices of listings, offers, bids and starting prices
    Durations,       \* lengths of auctions
    OfferLives,      \* how long an offer stands
    SNIPE_WINDOW,    \* a bid this close to the end extends the auction
    ROYALTY_BPS, FEE_NFT_BPS_ROYAL, FEE_LP_BPS_ROYAL,
    RENT,            \* rent of a Listing, Offer or Auction account
    INITIAL_BALANCE, \* lamports of each wallet
    Escrow, Vault, Burned, Nobody

Places == Wallets \cup {Escrow, Vault, Burned}

ASSUME PlaceAssumption ==
    /\ Escrow \notin {Vault, Burned, Nobody}
    /\ Vault \notin {Burned, Nobody}
    /\ Burned # Nobody
    /\ Wallets \cap {Escrow, Vault, Burned, Nobody} = {}
ASSUME WalletAssumption == IsFiniteSet(Wallets)
ASSUME PriceAssumption == Prices \subseteq Nat \ {0}
ASSUME TimeAssumption ==
    Durations \cup OfferLives \subseteq Nat \ {0} /\ SNIPE_WINDOW \in Nat
ASSUME FeeAssumption ==
    /\ ROYALTY_BPS \in 0..10000
    /\ FEE_NFT_BPS_ROYAL \in Nat
    /\ FEE_LP_BPS_ROYAL \in Nat
    /\ FEE_NFT_BPS_ROYAL + FEE_LP_BPS_ROYAL <= 10000
    /\ RENT \in Nat
    /\ INITIAL_BALANCE \in Nat

VARIABLES
    token,    \* where the gumball's token is
    owner,    \* GumballData.owner
    listing,  \* the Listing account
    auction,  \* the Auction account; lamports is what it holds
    offers,   \* the Offer account of each wallet
    staker,   \* StakeAccount.owner
    strayed,  \* the token and the stake were parted, or the token was put into
              \* the escrow or the vault by hand (history)
    balance,  \* lamports of the wallets
    sinks,    \* lamports of the treasury and the two fee pools
    signed    \* per wallet, the transaction it signed that has not landed

vars == <<token, owner, listing, auction, offers, staker, strayed, balance, sinks, signed>>

NoListing == [open |-> FALSE, seller |-> Nobody, price |-> 0]
NoAuction == [open |-> FALSE, seller |-> Nobody, start_price |-> 0, left |-> 0,
              highest_bid |-> 0, highest_bidder |-> Nobody, lamports |-> 0]
NoOffer == [open |-> FALSE, amount |-> 0, left |-> -1, lamports |-> 0]
NoTx == [kind |-> "none", limit |-> 0, buyer |-> Nobody]

Init ==
    /\ token \in Wallets
    /\ owner = token
    /\ listing = NoListing
    /\ auction = NoAuction
    /\ offers = [w \in Wallets |-> NoOffer]
    /\ staker = Nobody
    /\ strayed = FALSE
    /\ balance = [w \in Wallets |-> INITIAL_BALANCE]
    /\ sinks = [treasury |-> 0, nft_pool |-> 0, lp_pool |-> 0]
    /\ signed = [w \in Wallets |-> NoTx]

-----------------------------------------------------------------------------
(* Money.                                                                  *)

Credit(b, w, x) == [b EXCEPT ![w] = @ + x]

\* The system program transfers no more than there is.
CanPay(w, x) == balance[w] >= x

Royalty(price) == (price * ROYALTY_BPS) \div 10000
SellerAmount(price) == price - Royalty(price)
ToNft(royalty) == (royalty * FEE_NFT_BPS_ROYAL) \div 10000
ToLp(royalty)  == (royalty * FEE_LP_BPS_ROYAL) \div 10000

\* Faulty: the treasury gets its half, and the rounding is lost.
ToTreasuryHalf(royalty) == royalty \div 2

ToTreasury(royalty) == royalty - ToNft(royalty) - ToLp(royalty)

PayRoyalty(price) ==
    LET royalty == Royalty(price)
    IN  sinks' = [treasury |-> sinks.treasury + ToTreasury(royalty),
                  nft_pool |-> sinks.nft_pool + ToNft(royalty),
                  lp_pool  |-> sinks.lp_pool + ToLp(royalty)]

-----------------------------------------------------------------------------
(* Listings.                                                               *)

\* Faulty: the owner on record is not compared with the seller.
MaySellByToken(w) == token = w

\* What list, accept_offer, create_auction and the burns ask of w.
MaySell(w) == token = w /\ owner = w

list_gumball(w, price) ==
    /\ MaySell(w)
    /\ ~listing.open
    /\ CanPay(w, RENT)
    /\ token' = Escrow
    /\ listing' = [open |-> TRUE, seller |-> w, price |-> price]
    /\ balance' = Credit(balance, w, -RENT)
    /\ UNCHANGED <<owner, auction, offers, staker, strayed, sinks, signed>>

\* Faulty: the Listing account stays.
ListingAfterDelistKept == listing

ListingAfterDelist == NoListing

delist_gumball(w) ==
    /\ listing.open
    /\ listing.seller = w
    /\ token' = w
    /\ listing' = ListingAfterDelist
    /\ balance' = Credit(balance, w, RENT)
    /\ UNCHANGED <<owner, auction, offers, staker, strayed, sinks, signed>>

\* Faulty: the price is not compared with what the buyer agreed to.
WithinMaxUnchecked(price, max_price) == TRUE

WithinMax(price, max_price) == price <= max_price

buy_gumball(w, max_price) ==
    /\ listing.open
    /\ WithinMax(listing.price, max_price)
    /\ CanPay(w, listing.price)
    /\ token' = w
    /\ owner' = w
    /\ balance' = Credit(Credit(balance, w, -listing.price),
                         listing.seller, SellerAmount(listing.price) + RENT)
    /\ PayRoyalty(listing.price)
    /\ listing' = NoListing
    /\ UNCHANGED <<auction, offers, staker, strayed>>

-----------------------------------------------------------------------------
(* Offers.                                                                 *)

make_offer(w, amount, life) ==
    /\ ~offers[w].open
    /\ CanPay(w, amount + RENT)
    /\ offers' = [offers EXCEPT ![w] = [open |-> TRUE, amount |-> amount,
                                        left |-> life, lamports |-> amount + RENT]]
    /\ balance' = Credit(balance, w, -(amount + RENT))
    /\ UNCHANGED <<token, owner, listing, auction, staker, strayed, sinks, signed>>

cancel_offer(w) ==
    /\ offers[w].open
    /\ balance' = Credit(balance, w, offers[w].lamports)
    /\ offers' = [offers EXCEPT ![w] = NoOffer]
    /\ UNCHANGED <<token, owner, listing, auction, staker, strayed, sinks, signed>>

AboveMin(amount, min_amount) == amount >= min_amount

accept_offer(w, buyer, min_amount) ==
    LET offer == offers[buyer]
    IN  /\ MaySell(w)
        /\ offer.open
        /\ offer.left >= 0
        /\ AboveMin(offer.amount, min_amount)
        /\ token' = buyer
        /\ owner' = buyer
        /\ balance' = Credit(Credit(balance, w, SellerAmount(offer.amount)),
                             buyer, offer.lamports - offer.amount)
        /\ PayRoyalty(offer.amount)
        /\ offers' = [offers EXCEPT ![buyer] = NoOffer]
        /\ UNCHANGED <<listing, auction, staker, strayed>>

-----------------------------------------------------------------------------
(* Auctions.                                                               *)

create_auction(w, start_price, duration) ==
    /\ MaySell(w)
    /\ ~auction.open
    /\ CanPay(w, RENT)
    /\ token' = Escrow
    /\ auction' = [open |-> TRUE, seller |-> w, start_price |-> start_price,
                   left |-> duration, highest_bid |-> 0,
                   highest_bidder |-> Nobody, lamports |-> RENT]
    /\ balance' = Credit(balance, w, -RENT)
    /\ UNCHANGED <<owner, listing, offers, staker, strayed, sinks, signed>>

MinBid ==
    IF auction.highest_bid = 0 THEN auction.start_price
    ELSE auction.highest_bid
           + (IF auction.highest_bid \div 20 > 1 THEN auction.highest_bid \div 20 ELSE 1)

\* Faulty: the previous bidder gets nothing.
RefundForgotten(amount) == 0

\* What goes back to the previous highest bidder.
Refund(amount) == auction.highest_bid

LeftAfterBid == IF auction.left < SNIPE_WINDOW THEN SNIPE_WINDOW ELSE auction.left

bid(w, amount) ==
    /\ auction.open
    /\ auction.left > 0
    /\ amount >= MinBid
    /\ CanPay(w, amount)
    /\ balance' = IF auction.highest_bid = 0 THEN Credit(balance, w, -amount)
                  ELSE Credit(Credit(balance, w, -amount),
                              auction.highest_bidder, Refund(amount))
    /\ auction' = [open |-> TRUE, seller |-> auction.seller,
                   start_price |-> auction.start_price, left |-> LeftAfterBid,
                   highest_bid |-> amount, highest_bidder |-> w,
                   lamports |-> auction.lamports + amount
                     - (IF auction.highest_bid = 0 THEN 0 ELSE Refund(amount))]
    /\ UNCHANGED <<token, owner, listing, offers, staker, strayed, sinks, signed>>

\* Faulty: an auction without bids is never over.
AuctionOverIfBid == auction.left = 0 /\ auction.highest_bid > 0

AuctionOver == auction.left = 0

\* Anybody may settle an auction that is over.
settle_auction ==
    LET amount == auction.highest_bid
    IN  /\ auction.open
        /\ AuctionOver
        /\ IF amount = 0
           THEN /\ token' = auction.seller
                /\ UNCHANGED <<owner, sinks>>
           ELSE /\ token' = auction.highest_bidder
                /\ owner' = auction.highest_bidder
                /\ PayRoyalty(amount)
        /\ balance' = Credit(balance, auction.seller,
                             SellerAmount(amount) + auction.lamports - amount)
        /\ auction' = NoAuction
        /\ UNCHANGED <<listing, offers, staker, strayed, signed>>

-----------------------------------------------------------------------------
(* Everything else that moves the token or the owner on record.            *)

\* update_owner, and reroll_cosmetics by the way: the holder goes on record.
update_owner(w) ==
    /\ token = w
    /\ owner' = w
    /\ UNCHANGED <<token, listing, auction, offers, staker, strayed, balance, sinks, signed>>

\* The stake account must not exist yet.
stake(w) ==
    /\ token = w
    /\ staker = Nobody
    /\ token' = Vault
    /\ staker' = w
    /\ UNCHANGED <<owner, strayed, listing, auction, offers, balance, sinks, signed>>

\* unstake closes one stake account and takes the token of the mint it is given
\* out of the vault, and does not compare the two: w may close the stake of this
\* gumball and take another token, or with the stake of another gumball (or an
\* LP position: unstake_lp takes any mint as well) take this token.
unstake(w, ofThis, tokenThis) ==
    /\ ofThis \/ tokenThis
    /\ ofThis => staker = w
    /\ tokenThis => token = Vault
    /\ token' = IF tokenThis THEN w ELSE token
    /\ staker' = IF ofThis THEN Nobody ELSE staker
    /\ strayed' = (strayed \/ ~(ofThis /\ tokenThis))
    /\ UNCHANGED <<owner, listing, auction, offers, balance, sinks, signed>>

\* The gumball is consumed by an upgrade.
BurnGumball(w) ==
    /\ MaySell(w)
    /\ token' = Burned
    /\ owner' = Burned
    /\ UNCHANGED <<listing, auction, offers, staker, strayed, balance, sinks, signed>>

\* A plain token transfer, which the program does not see: to a wallet, or to
\* the escrow's or the vault's account of this mint (stake_lp given this mint
\* does the latter, too).
TransferToken(w, to) ==
    /\ token = w
    /\ token' = to
    /\ strayed' = (strayed \/ to \in {Escrow, Vault})
    /\ UNCHANGED <<owner, listing, auction, offers, staker, balance, sinks, signed>>

\* The page shows a price, and the wallet signs for it.
SignBuy(w) ==
    /\ signed[w] = NoTx
    /\ listing.open
    /\ signed' = [signed EXCEPT ![w] = [kind |-> "buy", limit |-> listing.price, buyer |-> w]]
    /\ UNCHANGED <<token, owner, listing, auction, offers, staker, strayed, balance, sinks>>

SignAccept(w, buyer) ==
    /\ signed[w] = NoTx
    /\ token = w
    /\ offers[buyer].open
    /\ signed' = [signed EXCEPT ![w] =
                    [kind |-> "accept", limit |-> offers[buyer].amount, buyer |-> buyer]]
    /\ UNCHANGED <<token, owner, listing, auction, offers, staker, strayed, balance, sinks>>

\* A signed transaction lands once, at any later moment ...
Land(w) ==
    /\ \/ signed[w].kind = "buy" /\ buy_gumball(w, signed[w].limit)
       \/ signed[w].kind = "accept" /\ accept_offer(w, signed[w].buyer, signed[w].limit)
    /\ signed' = [signed EXCEPT ![w] = NoTx]

\* ... or fails, or its blockhash expires.
Drop(w) ==
    /\ signed[w] # NoTx
    /\ signed' = [signed EXCEPT ![w] = NoTx]
    /\ UNCHANGED <<token, owner, listing, auction, offers, staker, strayed, balance, sinks>>

Tick ==
    /\ auction.left > 0 \/ \E w \in Wallets : offers[w].left >= 0
    /\ auction' = [auction EXCEPT !.left = IF @ > 0 THEN @ - 1 ELSE 0]
    /\ offers' = [w \in Wallets |->
                    [offers[w] EXCEPT !.left = IF @ >= 0 THEN @ - 1 ELSE -1]]
    /\ UNCHANGED <<token, owner, listing, staker, strayed, balance, sinks, signed>>

Next ==
    \/ \E w \in Wallets :
         \/ \E p \in Prices : list_gumball(w, p)
         \/ delist_gumball(w)
         \/ \E p \in Prices, l \in OfferLives : make_offer(w, p, l)
         \/ cancel_offer(w)
         \/ \E p \in Prices, d \in Durations : create_auction(w, p, d)
         \/ \E p \in Prices : bid(w, p)
         \/ update_owner(w)
         \/ stake(w)
         \/ \E ofThis, tokenThis \in BOOLEAN : unstake(w, ofThis, tokenThis)
         \/ BurnGumball(w)
         \/ \E to \in Wallets \cup {Escrow, Vault} : TransferToken(w, to)
         \/ SignBuy(w)
         \/ \E buyer \in Wallets : SignAccept(w, buyer)
         \/ Land(w)
         \/ Drop(w)
    \/ settle_auction
    \/ Tick

Spec == Init /\ [][Next]_vars

\* Time passes, and somebody (the seller, the winner, a crank) settles an
\* auction that is over.
FairSpec == Spec /\ WF_vars(Tick) /\ WF_vars(settle_auction)

-----------------------------------------------------------------------------
(* Correctness.                                                            *)

\* The accounts are well formed; no balance goes negative.
TypeOK ==
    /\ token \in Places
    /\ owner \in Wallets \cup {Burned}
    /\ listing \in [open : BOOLEAN, seller : Wallets \cup {Nobody}, price : Nat]
    /\ auction \in [open : BOOLEAN, seller : Wallets \cup {Nobody}, start_price : Nat,
                    left : Nat, highest_bid : Nat,
                    highest_bidder : Wallets \cup {Nobody}, lamports : Nat]
    /\ offers \in [Wallets -> [open : BOOLEAN, amount : Nat, left : Nat \cup {-1},
                             lamports : Nat]]
    /\ staker \in Wallets \cup {Nobody}
    /\ strayed \in BOOLEAN
    /\ balance \in [Wallets -> Nat]
    /\ sinks \in [treasury : Nat, nft_pool : Nat, lp_pool : Nat]
    /\ signed \in [Wallets -> [kind : {"none", "buy", "accept"}, limit : Nat,
                               buyer : Wallets \cup {Nobody}]]

\* Listings and auctions share an escrow account, stakes have the vault: no
\* sale is without its token, so none can be stuck or sold twice, and as long as
\* nobody puts the token into custody by hand or names two gumballs in an
\* unstake, a token in the escrow backs exactly one sale and one in the vault
\* exactly one stake.
CustodyBacked ==
    /\ listing.open \/ auction.open => token = Escrow
    /\ ~(listing.open /\ auction.open)
    /\ ~strayed => /\ token = Escrow => listing.open \/ auction.open
                   /\ token = Vault <=> staker # Nobody

\* While a gumball is for sale its owner on record is the seller, although a
\* plain transfer leaves the record stale and update_owner is for anyone; a
\* burned gumball has no owner and an owned one is not burned.
SellerOnRecord ==
    /\ listing.open => owner = listing.seller
    /\ auction.open => owner = auction.seller
    /\ owner = Burned <=> token = Burned

\* The accounts are well formed, and token, owner record and sales agree.
MarketInvariant == TypeOK /\ CustodyBacked /\ SellerOnRecord

Sum(f) == SumOver(Wallets, f)

\* Escrowed lamports are what the accounts say, an auction holds its rent and
\* the highest bid, and no lamport appears or vanishes over any mix of sales,
\* outbids, cancellations and roundings.
LamportsConserved ==
    /\ auction.open => auction.lamports = RENT + auction.highest_bid
    /\ Sum(balance) + Sum([w \in Wallets |-> offers[w].lamports]) + auction.lamports
         + (IF listing.open THEN RENT ELSE 0)
         + sinks.treasury + sinks.nft_pool + sinks.lp_pool
       = INITIAL_BALANCE * Cardinality(Wallets)

\* What is a wallet's: its lamports, and what its own accounts and its
\* highest bid would give back to it.
Worth(w) ==
    balance[w] + offers[w].lamports
      + (IF listing.open /\ listing.seller = w THEN RENT ELSE 0)
      + (IF auction.open /\ auction.seller = w THEN RENT ELSE 0)
      + (IF auction.open /\ auction.highest_bidder = w THEN auction.highest_bid ELSE 0)

\* Nobody pays without getting the gumball: a step that lowers what is a
\* wallet's, by anybody's hand, leaves the token with that wallet.
PaysOnlyForGumball == [][\A w \in Wallets : Worth(w)' < Worth(w) => token' = w]_vars

\* A seller is paid: a token in the escrow goes back to who put it there, or
\* that wallet receives the price less the royalty.
SellerIsPaid ==
    [][\A w \in Wallets :
         token = Escrow /\ owner = w /\ token' \notin {Escrow, w} =>
            Worth(w)' = Worth(w)
              + SellerAmount(IF listing.open THEN listing.price ELSE auction.highest_bid)]_vars

\* A signed buy never costs more, and a signed accept never brings less, than
\* the page displayed, although listings and offers come back at the same
\* address with other prices.
AgreedPriceHolds ==
    [][\A w \in Wallets :
         Worth(w)' # Worth(w) /\ signed[w] # NoTx /\ signed'[w] = NoTx =>
            \/ signed[w].kind = "buy" /\ Worth(w) - Worth(w)' <= signed[w].limit
            \/ signed[w].kind = "accept"
                 /\ Worth(w)' - Worth(w) >= SellerAmount(signed[w].limit)
            \/ signed[w].kind = "accept" /\ signed[w].buyer = w]_vars

\* An auction is settled in the end, however often a bid extends it.
AuctionSettles == auction.open ~> ~auction.open

=============================================================================
