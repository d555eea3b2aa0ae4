----------------------------- MODULE GumballMint -----------------------------
(***************************************************************************)
(* The commit-reveal mint of the on-chain program                          *)
(* (programs/gumball_nft/src/lib.rs): the Machine account, the oracle's    *)
(* commitments, the mint requests that hold a minter's money until the     *)
(* oracle reveals or the request times out, and the two burns that consume *)
(* gumballs and a serial to make a rarer one.                              *)
(*                                                                         *)
(* Every instruction is one atomic transaction, so every instruction is    *)
(* one action; a require! or an account constraint is a guard.  The        *)
(* interleaving of actions is the order in which the validator runs        *)
(* transactions of different signers.                                      *)
(*                                                                         *)
(* Abstractions.  A commitment account is named by its PDA seeds, the      *)
(* oracle key and a slot; a request account by the minter and the          *)
(* commitment.  The hash pre-image check of the reveal is the fact that    *)
(* only the committed secret mints; a wrong secret changes nothing and has *)
(* no action.  Traits other than the rarity, and the SVG, are left out, and *)
(* so is who holds the token of a gumball: the burns here need only the    *)
(* owner the program has on record.                                        *)
(* Time is kept as the age of each request, up to the first age at which   *)
(* MINT_TIMEOUT has passed: the program reads the clock in no other way.   *)
(***************************************************************************)
EXTENDS Integers, Sequences, FiniteSets

CONSTANTS
    Minters,          \* wallets that mint and burn
    Oracles,          \* keys that are, or may be rotated to, the oracle
    Slots,            \* values of the slot seed of a commitment
    MAX_SUPPLY,
    MAX_PER_TX,
    MINT_TIMEOUT,
    RENT,             \* rent-exempt minimum of a MintRequest account
    Price,            \* the pricing curve, by total_minted
    MintPrices,       \* values the admin gives to set_mint_price
    RARITY_LEGENDARY, \* the highest rarity
    BURNS_REQUIRED,   \* gumballs burned per upgrade, by rarity
    U64_MAX

ASSUME SupplyAssumption == MAX_SUPPLY \in Nat /\ MAX_PER_TX \in Nat \ {0}
ASSUME TimeoutAssumption == MINT_TIMEOUT \in Nat
ASSUME LamportAssumption == RENT \in Nat /\ U64_MAX \in Nat
ASSUME PriceAssumption == Price \in [0..MAX_SUPPLY -> Nat \ {0}]
ASSUME MintPriceAssumption == MintPrices \subseteq Nat \ {0}
ASSUME RarityAssumption ==
    /\ RARITY_LEGENDARY \in Nat
    /\ BURNS_REQUIRED \in [0..(RARITY_LEGENDARY - 1) -> Nat \ {0}]

FEE_NFT_BPS_MINT == 4000
FEE_LP_BPS_MINT == 1000

VARIABLES
    machine,    \* the Machine account
    commits,    \* OracleCommit accounts
    requests,   \* MintRequest accounts
    ledger,     \* per request: what became of its money (history)
    revenue,    \* lamports received by the treasury and the two fee pools
    gumballs,   \* GumballData accounts of minted gumballs, in serial order
    blanks      \* GumballData accounts created and never filled

vars == <<machine, commits, requests, ledger, revenue, gumballs, blanks>>

Rarities == 0..RARITY_LEGENDARY
Commits == Oracles \X Slots
Requests == Minters \X Commits
CommitOf(r) == r[2]
OracleOf(c) == c[1]
NoOwner == "burned"            \* the zeroed owner field of a burned gumball

ASSUME NoOwnerAssumption == NoOwner \notin Minters

-----------------------------------------------------------------------------
(* Pricing and fee split.                                                  *)

get_mint_price(n) == Price[IF n >= MAX_SUPPLY THEN MAX_SUPPLY ELSE n]

\* The price of q mints, each at its own point of the curve.
BatchCost(n, q) ==
    LET cost[i \in 0..q] ==
            IF i = 0 THEN 0 ELSE cost[i - 1] + get_mint_price(n + i - 1)
    IN  cost[q]

ToNft(paid) == (paid * FEE_NFT_BPS_MINT) \div 10000
ToLp(paid)  == (paid * FEE_LP_BPS_MINT) \div 10000

\* Mint revenue is split 50/40/10; the treasury takes the rounding.
Distribute(paid) ==
    revenue' = [treasury |-> revenue.treasury + (paid - ToNft(paid) - ToLp(paid)),
                nft_pool |-> revenue.nft_pool + ToNft(paid),
                lp_pool  |-> revenue.lp_pool + ToLp(paid)]

-----------------------------------------------------------------------------
(* Account states.  A request account that does not exist is "none"; once  *)
(* its money went back and the account is gone it is "closed", which the   *)
(* program cannot tell from "none".                                        *)

NoRequest ==
    [status |-> "none", quantity |-> 0, remaining_quantity |-> 0,
     paid_amount |-> 0, age |-> 0, lamports |-> 0]

Pending(r) == requests[r].status = "pending"
Absent(r) == requests[r].status \in {"none", "closed"}

\* Faulty: a request expires one tick early.
TimedOutEarly(r) == requests[r].age >= MINT_TIMEOUT

TimedOut(r) == requests[r].age > MINT_TIMEOUT

Init ==
    /\ \E o \in Oracles, p \in MintPrices :
         machine = [oracle |-> o, is_active |-> FALSE, mint_price |-> p,
                    total_minted |-> 0, total_burned |-> 0]
    /\ commits = [c \in Commits |-> "absent"]
    /\ requests = [r \in Requests |-> NoRequest]
    /\ ledger = [r \in Requests |->
                   [paid |-> 0, forwarded |-> 0, refunded |-> 0, minted |-> 0]]
    /\ revenue = [treasury |-> 0, nft_pool |-> 0, lp_pool |-> 0]
    /\ gumballs = <<>>
    /\ blanks = 0

-----------------------------------------------------------------------------
(* Administration.                                                         *)

SetOracle(o) ==
    /\ machine' = [machine EXCEPT !.oracle = o]
    /\ UNCHANGED <<commits, requests, ledger, revenue, gumballs, blanks>>

SetActive(b) ==
    /\ machine' = [machine EXCEPT !.is_active = b]
    /\ UNCHANGED <<commits, requests, ledger, revenue, gumballs, blanks>>

SetMintPrice(p) ==
    /\ machine' = [machine EXCEPT !.mint_price = p]
    /\ UNCHANGED <<commits, requests, ledger, revenue, gumballs, blanks>>

MigrateMachine ==
    /\ machine' = [machine EXCEPT !.total_burned = 0]
    /\ UNCHANGED <<commits, requests, ledger, revenue, gumballs, blanks>>

-----------------------------------------------------------------------------
(* Commit, request, reveal, refund.                                        *)

SubmitCommitment(c) ==
    /\ OracleOf(c) = machine.oracle
    /\ commits[c] = "absent"
    /\ commits' = [commits EXCEPT ![c] = "unused"]
    /\ UNCHANGED <<machine, requests, ledger, revenue, gumballs, blanks>>

\* Faulty: one serial too many.
RemainingOneMore == MAX_SUPPLY - machine.total_minted + 1

\* Serials request_mint believes are still free.  The program subtracts
\* unsigned numbers; the build's overflow checks fail the transaction where
\* the difference would wrap, as a negative difference does here.
Remaining == MAX_SUPPLY - machine.total_minted

MarkUsed(c) == [commits EXCEPT ![c] = "used"]

RequestMint(m, c, q) ==
    LET r == <<m, c>>
        cost == BatchCost(machine.total_minted, q)
    IN  /\ machine.is_active
        /\ commits[c] = "unused"
        /\ OracleOf(c) = machine.oracle
        /\ Absent(r)
        /\ Remaining >= q
        /\ cost \in 0..U64_MAX
        /\ requests' = [requests EXCEPT ![r] =
                          [status |-> "pending", quantity |-> q,
                           remaining_quantity |-> q, paid_amount |-> cost,
                           age |-> 0, lamports |-> RENT + cost]]
        /\ commits' = MarkUsed(c)
        /\ ledger' = [ledger EXCEPT ![r] = [ledger[r] EXCEPT !.paid = @ + RENT + cost]]
        /\ UNCHANGED <<machine, revenue, gumballs, blanks>>

\* The equal share of one of q units paid p, and what k such shares take.
UnitShare(p, q) == p \div q
Taken(p, q, k) == k * UnitShare(p, q)

\* Faulty: the first reveal takes the price of the whole batch.
ShareUpFront(req) == IF req.remaining_quantity = req.quantity THEN req.paid_amount ELSE 0

\* Faulty: shares are rounded up.
ShareRoundedUp(req) ==
    IF req.remaining_quantity = 1
    THEN IF req.lamports > RENT THEN req.lamports - RENT ELSE 0
    ELSE (req.paid_amount + req.quantity - 1) \div req.quantity

\* What one reveal takes out of the request: an equal share, and on the last
\* reveal everything above the rent.
Share(req) ==
    IF req.remaining_quantity = 1
    THEN IF req.lamports > RENT THEN req.lamports - RENT ELSE 0
    ELSE UnitShare(req.paid_amount, req.quantity)

NewGumball(o, rarity) ==
    [serial |-> machine.total_minted + 1, owner |-> o, rarity |-> rarity]

\* The oracle presents the committed secret within MINT_TIMEOUT.
RevealAndMint(r, rarity) ==
    LET req == requests[r]
        paid == Share(req)
        left == req.remaining_quantity - 1
    IN  /\ OracleOf(CommitOf(r)) = machine.oracle
        /\ Pending(r)
        /\ req.remaining_quantity > 0
        /\ ~TimedOut(r)
        /\ req.remaining_quantity = 1 => paid > 0
        /\ req.lamports >= paid
        /\ requests' = [requests EXCEPT ![r] =
                          [req EXCEPT !.lamports = @ - paid,
                                      !.remaining_quantity = left,
                                      !.status = IF left = 0 THEN "fulfilled" ELSE @]]
        /\ Distribute(paid)
        /\ gumballs' = Append(gumballs, NewGumball(r[1], rarity))
        /\ machine' = [machine EXCEPT !.total_minted = @ + 1]
        /\ ledger' = [ledger EXCEPT ![r] =
                        [ledger[r] EXCEPT !.forwarded = @ + paid, !.minted = @ + 1]]
        /\ UNCHANGED <<commits, blanks>>

\* Faulty: the refund is the amount the request recorded, not what it holds.
ReturnRecordedAmount(r) ==
    /\ Pending(r)
    /\ TimedOut(r)
    /\ requests' = [requests EXCEPT ![r] =
                      [requests[r] EXCEPT !.status = "closed", !.lamports = 0]]
    /\ ledger' = [ledger EXCEPT ![r] =
                    [ledger[r] EXCEPT !.refunded = @ + RENT + requests[r].paid_amount]]
    /\ UNCHANGED <<machine, commits, revenue, gumballs>>

\* All lamports of the request go back to its minter, the account is gone.
ReturnEscrow(r) ==
    /\ Pending(r)
    /\ TimedOut(r)
    /\ requests' = [requests EXCEPT ![r] =
                      [requests[r] EXCEPT !.status = "closed", !.lamports = 0]]
    /\ ledger' = [ledger EXCEPT ![r] =
                    [ledger[r] EXCEPT !.refunded = @ + requests[r].lamports]]
    /\ UNCHANGED <<machine, commits, revenue, gumballs>>

\* A reveal that comes too late returns the money instead of minting; the
\* gumball account its account constraints created stays, empty.
RevealExpired(r) ==
    /\ OracleOf(CommitOf(r)) = machine.oracle
    /\ requests[r].remaining_quantity > 0
    /\ ReturnEscrow(r)
    /\ blanks' = blanks + 1

\* Faulty: refunds stop while the machine is paused.
RefundWhileActive(r) == machine.is_active /\ ReturnEscrow(r) /\ UNCHANGED blanks

\* Anyone may send a timed-out request's money home.
RefundMint(r) == ReturnEscrow(r) /\ UNCHANGED blanks

-----------------------------------------------------------------------------
(* Burns.  S is a set of indices of gumballs.                              *)

WithoutOwners(S) ==
    [i \in DOMAIN gumballs |->
        IF i \in S THEN [gumballs[i] EXCEPT !.owner = NoOwner] ELSE gumballs[i]]

Upgrade(b, S, rarity) ==
    LET fee == get_mint_price(machine.total_minted)
    IN  /\ rarity < RARITY_LEGENDARY
        /\ \A i \in S : gumballs[i].owner = b /\ gumballs[i].rarity = rarity
        /\ machine.total_minted < MAX_SUPPLY
        /\ Cardinality(S) = BURNS_REQUIRED[rarity]
        /\ Distribute(fee)
        /\ gumballs' = Append(WithoutOwners(S), NewGumball(b, rarity + 1))
        /\ machine' = [machine EXCEPT !.total_minted = @ + 1,
                                      !.total_burned = @ + BURNS_REQUIRED[rarity]]
        /\ UNCHANGED <<commits, requests, ledger, blanks>>

BurnToUpgrade(b, S, rarity) ==
    /\ rarity < RARITY_LEGENDARY => BURNS_REQUIRED[rarity] = 2
    /\ Upgrade(b, S, rarity)

BurnMulti(b, S, rarity) == Upgrade(b, S, rarity)

-----------------------------------------------------------------------------
(* One unit of time passes for every pending request.                      *)
Tick ==
    /\ \E r \in Requests : Pending(r) /\ ~TimedOut(r)
    /\ requests' = [r \in Requests |->
                      IF Pending(r) /\ ~TimedOut(r)
                      THEN [requests[r] EXCEPT !.age = @ + 1]
                      ELSE requests[r]]
    /\ UNCHANGED <<machine, commits, ledger, revenue, gumballs, blanks>>

Admin ==
    \/ \E o \in Oracles : SetOracle(o)
    \/ \E b \in BOOLEAN : SetActive(b)
    \/ \E p \in MintPrices : SetMintPrice(p)
    \/ MigrateMachine

Mint ==
    \/ \E c \in Commits : SubmitCommitment(c)
    \/ \E m \in Minters, c \in Commits, q \in 1..MAX_PER_TX : RequestMint(m, c, q)
    \/ \E r \in Requests, rarity \in Rarities : RevealAndMint(r, rarity)
    \/ \E r \in Requests : RevealExpired(r)
    \/ \E r \in Requests : RefundMint(r)

Burn ==
    \E b \in Minters, S \in SUBSET DOMAIN gumballs, rarity \in Rarities :
        \/ BurnToUpgrade(b, S, rarity)
        \/ BurnMulti(b, S, rarity)

Next == Admin \/ Mint \/ Burn \/ Tick

Spec == Init /\ [][Next]_vars

\* Time passes, and a minter whose request timed out asks for the money back
\* (refund_mint needs nobody's consent; the frontend offers it).
FairSpec ==
    /\ Spec
    /\ WF_vars(Tick)
    /\ \A r \in Requests : WF_vars(RefundMint(r))

-----------------------------------------------------------------------------
(* Correctness.                                                            *)

RequestType ==
    [status : {"none", "pending", "fulfilled", "closed"}, quantity : Nat,
     remaining_quantity : Nat, paid_amount : Nat, age : 0..(MINT_TIMEOUT + 1),
     lamports : Nat]

LedgerType == [paid : Nat, forwarded : Nat, refunded : Nat, minted : Nat]

GumballType == [serial : Nat, owner : Minters \cup {NoOwner}, rarity : Rarities]

\* The accounts are well formed: see the source's Machine, OracleCommit,
\* MintRequest and GumballData.  Nothing ever goes negative.
TypeOK ==
    /\ machine \in [oracle : Oracles, is_active : BOOLEAN, mint_price : MintPrices,
                    total_minted : Nat, total_burned : Nat]
    /\ commits \in [Commits -> {"absent", "unused", "used"}]
    /\ requests \in [Requests -> RequestType]
    /\ ledger \in [Requests -> LedgerType]
    /\ revenue \in [treasury : Nat, nft_pool : Nat, lp_pool : Nat]
    /\ gumballs \in Seq(GumballType)
    /\ blanks \in Nat

HoldsItsShare(req) ==
    /\ req.status = "pending" =>
         /\ req.remaining_quantity \in 1..req.quantity
         /\ req.lamports = RENT + req.paid_amount
              - Taken(req.paid_amount, req.quantity, req.quantity - req.remaining_quantity)
    /\ req.status = "fulfilled" => req.remaining_quantity = 0 /\ req.lamports = RENT
    /\ req.status \in {"none", "closed"} => req.lamports = 0

\* A request account holds its rent and exactly what its unrevealed mints
\* still have to pay: reveal_and_mint's equal shares and its final sweep, and
\* the refund's return of everything, never strand or overdraw a lamport.
EscrowExact == \A r \in Requests : HoldsItsShare(requests[r])

\* What a minter paid into a request is, at every moment, forwarded as
\* revenue, refunded, or still in the request, over any mix of reveals,
\* late reveals and refunds.
EveryLamportAccounted ==
    \A r \in Requests :
        ledger[r].paid = ledger[r].forwarded + ledger[r].refunded + requests[r].lamports

\* A commitment serves one request ever: its secret is public after the first
\* reveal, so a second request on it would know its traits before paying.
CommitServesOnce ==
    \A r1, r2 \in Requests :
        /\ CommitOf(r1) = CommitOf(r2)
        /\ requests[r1].status # "none"
        /\ requests[r2].status # "none"
        => r1 = r2

\* A request that was refunded and closed is never opened again, though the
\* program no longer knows it existed.
ClosedStaysClosed ==
    [][\A r \in Requests : requests[r].status = "closed" => requests'[r].status = "closed"]_vars

\* Minting and refunding never overlap: a gumball is minted for a request
\* only up to MINT_TIMEOUT after it, money goes back only later than that.
MintOrRefund ==
    [][\A r \in Requests :
         /\ ledger'[r].minted # ledger[r].minted => requests[r].age <= MINT_TIMEOUT
         /\ ledger'[r].refunded # ledger[r].refunded => requests[r].age > MINT_TIMEOUT]_vars

\* A request ends once, and in one way.
OutcomeIsFinal == ClosedStaysClosed /\ MintOrRefund

\* The refund of a partly revealed request covers the units that were not
\* delivered, at the average price paid, and the rent; a fulfilled request
\* delivered everything.
RefundCoversUndelivered ==
    \A r \in Requests :
        LET req == requests[r]
        IN  /\ req.status = "closed" =>
                 (ledger[r].refunded - RENT) * req.quantity
                    >= req.paid_amount * (req.quantity - ledger[r].minted)
            /\ req.status = "fulfilled" => ledger[r].minted = req.quantity

\* Serial numbers are issued once each, without a gap, although mints of
\* several requests and upgrades interleave; total_minted counts them.
SerialsContiguous ==
    /\ machine.total_minted = Len(gumballs)
    /\ \A i \in DOMAIN gumballs : gumballs[i].serial = i

\* A request of any state but "none" has its commitment marked used.
UsedCommits ==
    \A r \in Requests : requests[r].status # "none" => commits[CommitOf(r)] = "used"

\* What has been minted and refunded for a request follows from its account.
LedgerMatches(req, l) ==
    /\ l.minted = req.quantity - req.remaining_quantity
    /\ req.status = "none" => req.quantity = 0
    /\ req.status # "closed" => l.refunded = 0
    /\ req.status = "closed" =>
         /\ req.remaining_quantity \in 1..req.quantity
         /\ l.refunded = RENT + req.paid_amount
              - Taken(req.paid_amount, req.quantity, l.minted)

LedgerExact == \A r \in Requests : LedgerMatches(requests[r], ledger[r])

\* The inductive invariant of the mint: EscrowExact says what a pending
\* request holds, LedgerExact what left it, and UsedCommits why a closed
\* account cannot be opened again.
MintInvariant ==
    /\ TypeOK
    /\ EscrowExact
    /\ EveryLamportAccounted
    /\ UsedCommits
    /\ CommitServesOnce
    /\ LedgerExact
    /\ SerialsContiguous

\* Once max_supply serials exist request_mint admits nobody and the burns
\* consume nothing, also when total_minted went beyond max_supply through
\* requests admitted together; these may still be revealed.
AdmissionClosesAtCap ==
    [][machine.total_minted >= MAX_SUPPLY =>
         /\ \A r \in Requests : requests'[r].status = "pending" => requests[r].status = "pending"
         /\ \A i \in DOMAIN gumballs : gumballs'[i].owner = gumballs[i].owner]_vars

\* Every request is resolved: fulfilled by the oracle, or refunded once it
\* timed out, whatever the admin does to the oracle key and the active flag.
RequestsResolve == \A r \in Requests : Pending(r) ~> ~Pending(r)

\* The detailed mint keeps the promise of MintEscrow.
DealFor(req) ==
    [phase |-> CASE req.status = "pending" -> "open"
                 [] req.status = "fulfilled" -> "done"
                 [] req.status = "closed" -> "returned"
                 [] OTHER -> "none",
     size |-> req.quantity, owed |-> req.remaining_quantity,
     price |-> req.paid_amount,
     held |-> IF req.lamports > RENT THEN req.lamports - RENT ELSE 0]

dealOf == [r \in Requests |-> DealFor(requests[r])]

Escrow == INSTANCE MintEscrow WITH Deals <- Requests, deal <- dealOf

\* The abstract specification as a property of this one.
KeepsEscrowPromise == Escrow!EscrowSpec

-----------------------------------------------------------------------------
(* What the documentation says and the program does not keep.              *)

\* README "Total supply: 10,000 hard cap enforced on-chain".
HardCap == machine.total_minted <= MAX_SUPPLY

=============================================================================
