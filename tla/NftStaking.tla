----------------------------- MODULE NftStaking ------------------------------
(***************************************************************************)
(* NFT staking of the on-chain program: stake, claim, unstake,             *)
(* claim_xnt_fees_nft and sweep_xnt_pool_nft of                            *)
(* programs/gumball_nft/src/lib.rs, with the GUM reward vault and the XNT  *)
(* fee pool that pay the stakers.                                          *)
(*                                                                         *)
(* Deposits into the pool are made by mints, burns and sales without       *)
(* telling the stream; the accumulator finds them in the balance.  Weight  *)
(* is stake_weight(rarity, serial), which never changes for a gumball.     *)
(* A gumball staked before the fee stream existed has no XntDebt account.  *)
(*                                                                         *)
(* unstake names two gumballs: the one of the stake account, and nft_mint, *)
(* whose token leaves the vault and whose XntDebt is settled and closed.   *)
(* The handler does not compare them, so here they are two parameters; a   *)
(* mint that is no gumball is, for unstake, like a gumball without a stake.*)
(***************************************************************************)
EXTENDS StakingMath, FiniteSums

CONSTANTS
    Nfts,
    Weight,          \* stake_weight of each gumball
    Deposits,        \* lamports one sale or mint brings to the pool
    INITIAL_VAULT,   \* GUM in nft_reward_vault
    UNIT,            \* shares are counted in 1/UNIT lamports, so that each is whole (history)
    MAX_DEPOSITS, MAX_JOINS, MAX_TIME   \* bounds of the model

ASSUME NftAssumption == IsFiniteSet(Nfts)
ASSUME WeightAssumption == Weight \in [Nfts -> Nat \ {0}]
ASSUME DepositAssumption == Deposits \subseteq Nat \ {0}
ASSUME VaultAssumption == INITIAL_VAULT \in Nat
ASSUME UnitAssumption ==
    /\ UNIT \in Nat \ {0}
    /\ \A S \in (SUBSET Nfts) \ {{}} : UNIT % SumOver(S, Weight) = 0
ASSUME BoundAssumption == {MAX_DEPOSITS, MAX_JOINS, MAX_TIME} \subseteq Nat

VARIABLES
    config,   \* StakeConfig: total_nft_weight, total_staked, total_claimed
    gum,      \* StakeConfig: accumulator and last_nft_emission_update
    vault,    \* GUM in nft_reward_vault
    stakes,   \* StakeAccount of each gumball: whether it exists, reward_debt
    held,     \* the gumballs whose token is in the vault of stake_config
    fee,      \* XntFeeState: accumulator and last_seen_balance
    pool,     \* lamports of nft_xnt_pool
    debts,    \* XntDebt of each gumball
    treasury, \* lamports swept to the treasury
    now,
    hist,     \* per gumball, since it was staked (for fees: since its XntDebt was
              \* made): what it was due and got; emitted is in 1/EMISSION_DEN of a
              \* unit, rounded is what the accumulator may have cut off, in
              \* 1/ACC_SCALE lamports (history)
    count     \* deposits, stakes and debt snapshots so far, and lamports that
              \* a stake account was paid on another gumball's debt (history)

vars == <<config, gum, vault, stakes, held, fee, pool, debts, treasury, now, hist, count>>

NoStake == [open |-> FALSE, reward_debt |-> 0]
NoHistory == [xnt |-> 0, fair |-> 0, rounded |-> 0, emitted |-> 0, gum |-> 0]
WithoutFees(h) == [h EXCEPT !.xnt = 0, !.fair = 0, !.rounded = 0]

Staked == {n \in Nfts : stakes[n].open}

\* The positions that take part in the fees.
Earning == {n \in Staked : debts[n].bump = 1}

SumOfWeights(S) == SumOver(S, Weight)

InitialFee == [acc |-> 0, last_seen |-> POOL_RENT]

Init ==
    \E legacy, stale \in SUBSET Nfts :
        /\ legacy \cap stale = {}
        /\ config = [total_nft_weight |-> SumOfWeights(legacy),
                     total_staked |-> Cardinality(legacy), total_claimed |-> 0]
        /\ gum = [acc |-> 0, last_update |-> 0]
        /\ vault = INITIAL_VAULT
        /\ stakes = [n \in Nfts |-> [NoStake EXCEPT !.open = n \in legacy]]
        /\ held = legacy
        /\ fee = InitialFee
        /\ pool = POOL_RENT
        /\ debts = [n \in Nfts |-> IF n \in stale THEN Snapshot(Weight[n], 0) ELSE NoDebt]
        /\ treasury = 0
        /\ now = 0
        /\ hist = [n \in Nfts |-> NoHistory]
        /\ count = [deposits |-> 0, joins |-> 0, snapshots |-> 0, crossed |-> 0]

-----------------------------------------------------------------------------

GumNow == UpdateGum(gum, vault, config.total_nft_weight, now)
FeeNow == update_xnt_accumulator(fee, pool, config.total_nft_weight)

DebtAtStake(n, f) == Snapshot(Weight[n], f.acc)

StakeAt(n, g) == [open |-> TRUE, reward_debt |-> Entitled(Weight[n], g.acc)]

stake(n) ==
    LET f == advance_xnt_for_stake(fee, pool, config.total_nft_weight)
    IN  /\ ~stakes[n].open
        /\ n \notin held
        /\ count.joins < MAX_JOINS
        /\ gum' = GumNow
        /\ fee' = f
        /\ stakes' = [stakes EXCEPT ![n] = StakeAt(n, GumNow)]
        /\ held' = held \cup {n}
        /\ debts' = [debts EXCEPT ![n] = DebtAtStake(n, f)]
        /\ config' = [config EXCEPT !.total_nft_weight = @ + Weight[n],
                                    !.total_staked = @ + 1]
        /\ hist' = [hist EXCEPT ![n] = NoHistory]
        /\ count' = [count EXCEPT !.joins = @ + 1, !.snapshots = @ + 1]
        /\ UNCHANGED <<vault, pool, treasury, now>>

PendingGum(n, g) == saturating_sub(Entitled(Weight[n], g.acc), stakes[n].reward_debt)

\* What the vault can pay is paid; the rest of a claim is given up.
claim(n) ==
    LET reward == PendingGum(n, GumNow)
        paid == AtMost(reward, vault)
    IN  /\ stakes[n].open
        /\ reward > 0 => paid > 0
        /\ gum' = GumNow
        /\ vault' = vault - paid
        /\ stakes' = IF reward = 0 THEN stakes
                     ELSE [stakes EXCEPT ![n].reward_debt = Entitled(Weight[n], GumNow.acc)]
        /\ config' = [config EXCEPT !.total_claimed = @ + paid]
        /\ hist' = [hist EXCEPT ![n].gum = @ + paid]
        /\ UNCHANGED <<held, fee, pool, debts, treasury, now, count>>

\* Faulty: the weight stays in the total.
WeightAfterUnstakeForgotten(n) == config.total_nft_weight

WeightAfterUnstake(n) == config.total_nft_weight - Weight[n]

FeeBeforeUnstake(n) == FeeNow

\* The stake account is n's, the token, its vault account and the XntDebt are m's.
unstake(n, m) ==
    LET settled == settle_xnt_fees(FeeBeforeUnstake(n), pool, debts[m], Weight[n])
        paid == AtMost(PendingGum(n, GumNow), vault)
    IN  /\ stakes[n].open
        /\ m \in held
        /\ config.total_nft_weight >= Weight[n]
        /\ gum' = GumNow
        /\ vault' = vault - paid
        /\ fee' = settled.fee
        /\ pool' = settled.pool
        /\ debts' = [debts EXCEPT ![m] = NoDebt]
        /\ stakes' = [stakes EXCEPT ![n] = NoStake]
        /\ held' = held \ {m}
        /\ config' = [total_nft_weight |-> WeightAfterUnstake(n),
                      total_staked |-> saturating_sub(config.total_staked, 1),
                      total_claimed |-> config.total_claimed + paid]
        /\ hist' = [hist EXCEPT ![m] = WithoutFees(@), ![n] = NoHistory]
        /\ count' = [count EXCEPT !.crossed = IF m = n THEN @ ELSE @ + settled.paid]
        /\ UNCHANGED <<treasury, now>>

claim_xnt_fees_nft(n) ==
    LET settled == settle_xnt_fees(FeeNow, pool, debts[n], Weight[n])
    IN  /\ stakes[n].open
        /\ settled.paid > 0 \/ settled.remaining = 0
        /\ fee' = settled.fee
        /\ pool' = settled.pool
        /\ debts' = [debts EXCEPT ![n] = settled.debt]
        /\ hist' = [hist EXCEPT ![n].xnt = @ + settled.paid]
        /\ count' = IF debts[n].bump = 0 THEN [count EXCEPT !.snapshots = @ + 1] ELSE count
        /\ UNCHANGED <<config, gum, vault, stakes, held, treasury, now>>

\* Faulty: the sweep does not look at who is staked.
SweepableAnyTime == TRUE

Sweepable == config.total_nft_weight = 0

sweep_xnt_pool_nft ==
    /\ Sweepable
    /\ Withdrawable(pool) > 0
    /\ pool' = pool - Withdrawable(pool)
    /\ treasury' = treasury + Withdrawable(pool)
    /\ fee' = [fee EXCEPT !.last_seen = pool']
    /\ UNCHANGED <<config, gum, vault, stakes, held, debts, now, hist, count>>

-----------------------------------------------------------------------------
(* The surroundings.                                                       *)

\* The accumulator is cut to a whole number when d is spread over a total that
\* does not divide it.
CutOff(n, d, total) == IF (d * ACC_SCALE) % total = 0 THEN 0 ELSE Weight[n]

\* A mint, a burn or a sale leaves its share in the pool; the part of it that
\* is due to those outside the stream is nobody's.
Deposit(d) ==
    /\ count.deposits < MAX_DEPOSITS
    /\ pool' = pool + d
    /\ hist' = [n \in Nfts |->
                  IF n \in Earning
                  THEN [hist[n] EXCEPT
                          !.fair = @ + (UNIT * Weight[n] * d) \div SumOfWeights(Staked),
                          !.rounded = @ + CutOff(n, d, SumOfWeights(Staked))]
                  ELSE hist[n]]
    /\ count' = [count EXCEPT !.deposits = @ + 1]
    /\ UNCHANGED <<config, gum, vault, stakes, held, fee, debts, treasury, now>>

Tick ==
    /\ now < MAX_TIME
    /\ now' = now + 1
    /\ hist' = [n \in Nfts |->
                  IF n \in Staked THEN [hist[n] EXCEPT !.emitted = @ + vault * EMISSION_NUM]
                  ELSE hist[n]]
    /\ UNCHANGED <<config, gum, vault, stakes, held, fee, pool, debts, treasury, count>>

\* The vault is stake_config's token account of the gumball's mint.  A plain
\* transfer, or stake_lp given that mint, puts the token there without a stake,
\* and unstake_lp given that mint takes it out.
MoveToken(n) ==
    /\ held' = IF n \in held THEN held \ {n} ELSE held \cup {n}
    /\ UNCHANGED <<config, gum, vault, stakes, fee, pool, debts, treasury, now, hist, count>>

Next ==
    \/ \E n \in Nfts : stake(n) \/ claim(n) \/ claim_xnt_fees_nft(n) \/ MoveToken(n)
    \/ \E n, m \in Nfts : unstake(n, m)
    \/ sweep_xnt_pool_nft
    \/ \E d \in Deposits : Deposit(d)
    \/ Tick

Spec == Init /\ [][Next]_vars

-----------------------------------------------------------------------------
(* Correctness.                                                            *)

HistoryType == [xnt : Nat, fair : Nat, rounded : Nat,
                emitted : Nat, gum : Nat]

\* The accounts are well formed; no balance, debt or weight goes negative.
TypeOK ==
    /\ config \in [total_nft_weight : Nat, total_staked : Nat, total_claimed : Nat]
    /\ gum \in [acc : Nat, last_update : Nat]
    /\ vault \in Nat
    /\ stakes \in [Nfts -> [open : BOOLEAN, reward_debt : Nat]]
    /\ held \subseteq Nfts
    /\ fee \in [acc : Nat, last_seen : Nat]
    /\ pool \in Nat
    /\ debts \in [Nfts -> [debt : Nat, bump : 0..1]]
    /\ treasury \in Nat
    /\ now \in 0..MAX_TIME
    /\ hist \in [Nfts -> HistoryType]
    /\ count \in [deposits : 0..MAX_DEPOSITS, joins : 0..MAX_JOINS,
                 snapshots : Nat, crossed : Nat]

\* The fee pool is never paid out below its rent (README: "Pool PDAs always
\* retain their rent-exempt minimum"), and what settle_xnt_fees and the sweep
\* leave in last_seen is never more than the pool holds, so that no later
\* deposit is overlooked.
PoolKeepsRent == pool >= POOL_RENT /\ fee.last_seen <= pool

\* The total weight is what the open positions add up to (StakeConfig: "sum of
\* all active NFT stakers' weights"), over any sequence of stakes and unstakes.
WeightIsSum ==
    /\ config.total_nft_weight = SumOfWeights(Staked)
    /\ config.total_staked = Cardinality(Staked)

\* The accounts are well formed, the pool is solvent and the weights add up.
NftInvariant == TypeOK /\ PoolKeepsRent /\ WeightIsSum

\* What a position could claim right now.
Owed(n) == PendingXnt(FeeNow, debts[n], Weight[n])

\* Whatever others stake, unstake and claim between a deposit and the moment
\* the stream notices it, a position gets, since its XntDebt was made, its share
\* of every deposit by the weights at the time of the deposit: less than one
\* lamport more than that, and less than one lamport less but for what the
\* accumulator cut off.
SharesAreFair ==
    \A n \in Earning :
        LET got == hist[n].xnt + Owed(n)
        IN  /\ UNIT * got < hist[n].fair + UNIT
            /\ ACC_SCALE * hist[n].fair < UNIT * (ACC_SCALE * got + ACC_SCALE + hist[n].rounded)

\* All positions together are owed no more than the pool can pay above its
\* rent, up to one lamport of rounding for every snapshot ever taken and what
\* stake accounts were paid on the debts of other gumballs.
ShortOnlyByRounding ==
    SumOver(Earning, [n \in Nfts |-> Owed(n)])
      <= Withdrawable(pool) + count.snapshots + count.crossed

\* README: an "unpaid remainder stays pending": no step of anybody takes away
\* what a position has received or can still claim while it stays staked, as
\* long as its token stays in the vault.
XntNeverForgotten ==
    [][\A n \in Earning \cap Staked' :
         (n \in held => n \in held')
           => n \in Earning' /\ hist'[n].xnt + Owed(n)' >= hist[n].xnt + Owed(n)]_vars

\* A position is paid GUM only out of what the vault emits, second by second,
\* while it is staked, whenever anybody brings the accumulator up to date:
\* neither the time before, nor the time nobody was staked, counts.
GumOnlyWhileStaked ==
    \A n \in Staked :
        (hist[n].gum + PendingGum(n, GumNow)) * EMISSION_DEN <= hist[n].emitted

=============================================================================
