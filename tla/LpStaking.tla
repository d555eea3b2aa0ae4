------------------------------ MODULE LpStaking ------------------------------
(***************************************************************************)
(* LP staking of the on-chain program: stake_lp, claim_lp, unstake_lp,     *)
(* claim_xnt_fees_lp and sweep_xnt_pool_lp of                              *)
(* programs/gumball_nft/src/lib.rs.                                        *)
(*                                                                         *)
(* A position is named by its position NFT, whose mint is fresh for every  *)
(* stake_lp: a closed position never comes back.  Whoever holds that NFT   *)
(* acts for the position; who that is changes nothing in the stream and is *)
(* left out, and so are the Metaplex metadata of the NFT.  A position      *)
(* opened before the fee stream existed has no XntDebt account; its first  *)
(* withdrawal or claim of fees makes one.                                  *)
(*                                                                         *)
(* The program keeps one vault account per LP mint.  The position records  *)
(* the mint it was staked with, stake_lp accepts any, and unstake_lp pays  *)
(* from the vault of the mint account it is given: the two mints are never *)
(* compared, here as in the code.  Every other sum counts LP of all mints  *)
(* alike.                                                                  *)
(***************************************************************************)
EXTENDS StakingMath, FiniteSums

CONSTANTS
    Positions,
    Legacies,                \* positions that may be older than the fee stream
    LpMints, NoMint,         \* mints of LP tokens, and none
    Amounts,                 \* LP amounts that are staked
    LOCK_DAYS,               \* lock tier -> time the lock lasts
    LOCK_MULTIPLIER_BPS,     \* lock tier -> weight of 100 LP tokens
    EARLY_EXIT_PENALTY_BPS,  \* lock tier -> penalty of 10,000 LP tokens
    PENALTY_BURN_BPS,
    Deposits,                \* lamports one sale or mint brings to the pool
    INITIAL_VAULT,           \* GUM in lp_reward_vault
    MAX_DEPOSITS, MAX_TIME,  \* bounds of the model
    MAX_BUDGET               \* bound on deposits and time together

Tiers == DOMAIN LOCK_DAYS
BPS_DENOMINATOR == 10000

ASSUME PositionAssumption == IsFiniteSet(Positions) /\ Legacies \subseteq Positions
ASSUME AmountAssumption == Amounts \subseteq Nat \ {0}
ASSUME TierAssumption ==
    /\ LOCK_DAYS \in [Tiers -> Nat]
    /\ LOCK_MULTIPLIER_BPS \in [Tiers -> Nat]
    /\ \A t \in Tiers : LOCK_MULTIPLIER_BPS[t] >= 100
    /\ EARLY_EXIT_PENALTY_BPS \in [Tiers -> 0..BPS_DENOMINATOR]
    /\ PENALTY_BURN_BPS \in 0..BPS_DENOMINATOR
ASSUME DepositAssumption == Deposits \subseteq Nat \ {0}
ASSUME VaultAssumption == {INITIAL_VAULT, MAX_DEPOSITS, MAX_TIME, MAX_BUDGET} \subseteq Nat

VARIABLES
    config,     \* StakeConfig: total_lp_weight, total_claimed
    gum,        \* StakeConfig: accumulator and last_lp_emission_update
    vault,      \* GUM in lp_reward_vault
    positions,  \* LpStakeAccount of each position
    lp_vault,   \* LP tokens in vault_lp_ata of each mint
    fee,        \* XntFeeState: accumulator and last_seen_balance
    pool,       \* lamports of lp_xnt_pool
    debts,      \* XntDebt of each position
    treasury,   \* lamports swept to the treasury
    now,
    taken,      \* LP of each mint paid out for positions of others (history)
    hist,       \* per position: what came while it had a debt, what it got;
                \* emitted is in 1/EMISSION_DEN of a unit (history)
    deposits    \* number of deposits so far (history)

vars == <<config, gum, vault, positions, lp_vault, fee, pool, debts, treasury,
          now, taken, hist, deposits>>

NoPosition == [status |-> "none", mint |-> NoMint, amount |-> 0, tier |-> 0, lock_until |-> 0,
               weight |-> 0, reward_debt |-> 0]
NoHistory == [deposited |-> 0, xnt |-> 0, emitted |-> 0, gum |-> 0]

Open == {p \in Positions : positions[p].status = "open"}

weightOf == [p \in Positions |-> positions[p].weight]
amountIn(mint) ==
    [p \in Positions |-> IF positions[p].mint = mint THEN positions[p].amount ELSE 0]

LpWeight(amount, tier) == (amount * LOCK_MULTIPLIER_BPS[tier]) \div 100

OpenPosition(mint, amount, tier, acc) ==
    LET w == LpWeight(amount, tier)
    IN  [status |-> "open", mint |-> mint, amount |-> amount, tier |-> tier,
         lock_until |-> now + LOCK_DAYS[tier], weight |-> w, reward_debt |-> Entitled(w, acc)]

\* The fee stream is initialised while the legacy positions are open.
Init ==
    \E legacy \in SUBSET Legacies, m \in LpMints, a \in Amounts, t \in Tiers :
      /\ now = 0
      /\ config = [total_lp_weight |-> Cardinality(legacy) * LpWeight(a, t), total_claimed |-> 0]
      /\ gum = [acc |-> 0, last_update |-> 0]
      /\ vault = INITIAL_VAULT
      /\ positions = [p \in Positions |->
                        IF p \in legacy THEN OpenPosition(m, a, t, 0) ELSE NoPosition]
      /\ lp_vault = [mint \in LpMints |-> IF mint = m THEN Cardinality(legacy) * a ELSE 0]
      /\ fee = [acc |-> 0, last_seen |-> POOL_RENT]
      /\ pool = POOL_RENT
      /\ debts = [p \in Positions |-> NoDebt]
      /\ treasury = 0
      /\ taken = [mint \in LpMints |-> 0]
      /\ hist = [p \in Positions |-> NoHistory]
      /\ deposits = 0

-----------------------------------------------------------------------------

GumNow == UpdateGum(gum, vault, config.total_lp_weight, now)
FeeNow == update_xnt_accumulator(fee, pool, config.total_lp_weight)

stake_lp(p, mint, amount, tier) ==
    LET w == LpWeight(amount, tier)
        f == advance_xnt_for_stake(fee, pool, config.total_lp_weight)
    IN  /\ positions[p].status = "none"
        /\ gum' = GumNow
        /\ fee' = f
        /\ lp_vault' = [lp_vault EXCEPT ![mint] = @ + amount]
        /\ positions' = [positions EXCEPT ![p] = OpenPosition(mint, amount, tier, GumNow.acc)]
        /\ debts' = [debts EXCEPT ![p] = Snapshot(w, f.acc)]
        /\ config' = [config EXCEPT !.total_lp_weight = @ + w]
        /\ UNCHANGED <<vault, pool, treasury, now, taken, hist, deposits>>

PendingGum(p, g) ==
    saturating_sub(Entitled(positions[p].weight, g.acc), positions[p].reward_debt)

claim_lp(p) ==
    LET reward == PendingGum(p, GumNow)
        paid == AtMost(reward, vault)
    IN  /\ p \in Open
        /\ reward > 0 => paid > 0
        /\ gum' = GumNow
        /\ vault' = vault - paid
        /\ positions' = IF reward = 0 THEN positions
                        ELSE [positions EXCEPT ![p].reward_debt =
                                Entitled(positions[p].weight, GumNow.acc)]
        /\ config' = [config EXCEPT !.total_claimed = @ + paid]
        /\ hist' = [hist EXCEPT ![p].gum = @ + paid]
        /\ UNCHANGED <<lp_vault, fee, pool, debts, treasury, now, taken, deposits>>

IsEarly(p) == now < positions[p].lock_until

Penalty(p, amount) ==
    IF IsEarly(p)
    THEN (amount * EARLY_EXIT_PENALTY_BPS[positions[p].tier]) \div BPS_DENOMINATOR
    ELSE 0
PenaltyBurned(penalty) == (penalty * PENALTY_BURN_BPS) \div BPS_DENOMINATOR

\* Faulty: the retained half of the penalty is paid out too.
LpOutWithRetained(p, amount) == amount + PenaltyBurned(Penalty(p, amount))

\* What leaves the LP vault: the user's net amount and the burned half.
LpOut(p, amount) == amount - Penalty(p, amount) + PenaltyBurned(Penalty(p, amount))

\* Faulty: the removed weight is rounded up.
WeightRemovedRoundedUp(p, amount) ==
    (amount * LOCK_MULTIPLIER_BPS[positions[p].tier] + 99) \div 100

WeightRemoved(p, amount) == LpWeight(amount, positions[p].tier)

\* Faulty: what the pool could not pay is dropped.
DebtDroppingRemainder(w, f, remaining) == Snapshot(w, f.acc)

\* The debt of the smaller position, less what the pool could not pay.
DebtAtNewWeight(w, f, remaining) ==
    [debt |-> saturating_sub(Entitled(w, f.acc), remaining), bump |-> 1]

\* Faulty: the smaller position keeps the snapshot of the larger one.
GumDebtKept(p, w) == 0

GumDebtAtNewWeight(p, w) == Entitled(w, GumNow.acc)

Shrunk(p, amount) ==
    LET left == positions[p].amount - amount
        w == LpWeight(left, positions[p].tier)
    IN  [positions[p] EXCEPT !.amount = left, !.weight = w,
                             !.reward_debt = GumDebtAtNewWeight(p, w)]

\* What both forms of unstake_lp do.  GUM is paid only when the lock is over,
\* and the LP leaves the vault of whichever mint the call names.
Withdraw(p, mint, amount, settled) ==
    LET paid == IF IsEarly(p) THEN 0 ELSE AtMost(PendingGum(p, GumNow), vault)
    IN  /\ gum' = GumNow
        /\ vault' = vault - paid
        /\ lp_vault[mint] >= LpOut(p, amount)
        /\ lp_vault' = [lp_vault EXCEPT ![mint] = @ - LpOut(p, amount)]
        /\ taken' = IF mint = positions[p].mint THEN taken
                    ELSE [taken EXCEPT ![mint] = @ + LpOut(p, amount)]
        /\ fee' = settled.fee
        /\ pool' = settled.pool
        /\ config.total_lp_weight >= WeightRemoved(p, amount)
        /\ config' = [total_lp_weight |-> config.total_lp_weight - WeightRemoved(p, amount),
                      total_claimed |-> config.total_claimed + paid]
        /\ hist' = [hist EXCEPT ![p].xnt = @ + settled.paid, ![p].gum = @ + paid]
        /\ UNCHANGED <<treasury, now, deposits>>

unstake_lp_partial(p, mint, amount) ==
    LET settled == settle_xnt_fees(FeeNow, pool, debts[p], positions[p].weight)
        shrunk == Shrunk(p, amount)
    IN  /\ p \in Open
        /\ amount < positions[p].amount
        /\ positions' = [positions EXCEPT ![p] = shrunk]
        /\ debts' = [debts EXCEPT ![p] =
                       DebtAtNewWeight(shrunk.weight, settled.fee, settled.remaining)]
        /\ Withdraw(p, mint, amount, settled)

\* The burn of the position NFT is a CPI with the claimer among its accounts.
\* When lamports were moved by hand from the pool to the claimer before it,
\* the runtime finds the instruction unbalanced and fails it.
BalancedBeforeCpi(settled) == settled.paid = 0

unstake_lp_full(p, mint) ==
    LET settled == settle_xnt_fees(FeeNow, pool, debts[p], positions[p].weight)
    IN  /\ p \in Open
        /\ BalancedBeforeCpi(settled)
        /\ positions' = [positions EXCEPT ![p] = [NoPosition EXCEPT !.status = "closed"]]
        /\ debts' = [debts EXCEPT ![p] = NoDebt]
        /\ Withdraw(p, mint, positions[p].amount, settled)

claim_xnt_fees_lp(p) ==
    LET settled == settle_xnt_fees(FeeNow, pool, debts[p], positions[p].weight)
    IN  /\ p \in Open
        /\ settled.paid > 0 \/ settled.remaining = 0
        /\ fee' = settled.fee
        /\ pool' = settled.pool
        /\ debts' = [debts EXCEPT ![p] = settled.debt]
        /\ hist' = [hist EXCEPT ![p].xnt = @ + settled.paid]
        /\ UNCHANGED <<config, gum, vault, positions, lp_vault, treasury, now, taken, deposits>>

sweep_xnt_pool_lp ==
    /\ config.total_lp_weight = 0
    /\ Withdrawable(pool) > 0
    /\ pool' = pool - Withdrawable(pool)
    /\ treasury' = treasury + Withdrawable(pool)
    /\ fee' = [fee EXCEPT !.last_seen = pool']
    /\ UNCHANGED <<config, gum, vault, positions, lp_vault, debts, now, taken, hist, deposits>>

-----------------------------------------------------------------------------
(* The surroundings.                                                       *)

\* A mint, a burn or a sale leaves its share in the pool.
Deposit(d) ==
    /\ deposits < MAX_DEPOSITS
    /\ deposits + now < MAX_BUDGET
    /\ deposits' = deposits + 1
    /\ pool' = pool + d
    /\ hist' = [p \in Positions |->
                  IF debts[p].bump = 1 THEN [hist[p] EXCEPT !.deposited = @ + d] ELSE hist[p]]
    /\ UNCHANGED <<config, gum, vault, positions, lp_vault, fee, debts, treasury, now, taken>>

Tick ==
    /\ now < MAX_TIME
    /\ deposits + now < MAX_BUDGET
    /\ now' = now + 1
    /\ hist' = [p \in Positions |->
                  IF p \in Open THEN [hist[p] EXCEPT !.emitted = @ + vault * EMISSION_NUM]
                  ELSE hist[p]]
    /\ UNCHANGED <<config, gum, vault, positions, lp_vault, fee, pool, debts,
                   treasury, taken, deposits>>

Next ==
    \/ \E p \in Positions, m \in LpMints :
         \/ \E a \in Amounts, t \in Tiers : stake_lp(p, m, a, t)
         \/ \E a \in 1..positions[p].amount : unstake_lp_partial(p, m, a)
         \/ unstake_lp_full(p, m)
    \/ \E p \in Positions :
         \/ claim_lp(p)
         \/ claim_xnt_fees_lp(p)
    \/ sweep_xnt_pool_lp
    \/ \E d \in Deposits : Deposit(d)
    \/ Tick

Spec == Init /\ [][Next]_vars

\* The holder of a position wants its LP tokens back and keeps asking.
ExitSpec == Spec /\ \A p \in Positions : WF_vars(unstake_lp_full(p, positions[p].mint))

\* The holder also claims the fees of the position again and again.
ClaimAndExitSpec == ExitSpec /\ \A p \in Positions : WF_vars(claim_xnt_fees_lp(p))

-----------------------------------------------------------------------------
(* Correctness.                                                            *)

PositionType ==
    [status : {"none", "open", "closed"}, mint : LpMints \cup {NoMint}, amount : Nat, tier : Tiers \cup {0},
     lock_until : Nat, weight : Nat, reward_debt : Nat]

\* The accounts are well formed; no balance, debt or weight goes negative.
TypeOK ==
    /\ config \in [total_lp_weight : Nat, total_claimed : Nat]
    /\ gum \in [acc : Nat, last_update : Nat]
    /\ vault \in Nat
    /\ positions \in [Positions -> PositionType]
    /\ lp_vault \in [LpMints -> Nat]
    /\ fee \in [acc : Nat, last_seen : Nat]
    /\ pool \in Nat
    /\ debts \in [Positions -> [debt : Nat, bump : 0..1]]
    /\ treasury \in Nat
    /\ now \in 0..MAX_TIME
    /\ taken \in [LpMints -> Nat]
    /\ hist \in [Positions -> [deposited : Nat, xnt : Nat, emitted : Nat, gum : Nat]]
    /\ deposits \in 0..MAX_DEPOSITS

\* The total weight covers all positions, so that checked_sub never fails,
\* over any sequence of partial and early withdrawals.  The vault of an LP
\* mint covers the positions staked with it, up to what unstake_lp paid from
\* it to positions staked with another mint.
TotalsCoverPositions ==
    /\ config.total_lp_weight >= SumOver(Open, weightOf)
    /\ \A m \in LpMints : lp_vault[m] + taken[m] >= SumOver(Open, amountIn(m))

\* The accounts are well formed, and every position can be unstaked in full
\* while its LP was not paid out for a position of another mint.
LpInvariant == TypeOK /\ TotalsCoverPositions

\* What a position could claim right now.
Owed(p) == PendingXnt(FeeNow, debts[p], positions[p].weight)

\* README: "Positions only earn fees deposited after they staked", also when
\* they shrink and their debt is taken again at the smaller weight; one older
\* than the fee stream only those after its debt account was made.
EarnsOnlyAfterStaking ==
    \A p \in Open : hist[p].xnt + Owed(p) <= hist[p].deposited

\* A position is paid GUM only out of what the vault emits while it is open,
\* also when it shrinks and its reward debt is taken again.
GumOnlyWhileStaked ==
    \A p \in Open : (hist[p].gum + PendingGum(p, GumNow)) * EMISSION_DEN <= hist[p].emitted

\* A position is paid for the time it is open and for no other.
EarnsOnlyWhileOpen == EarnsOnlyAfterStaking /\ GumOnlyWhileStaked

\* No step of anybody takes away XNT that a position has received or can
\* claim, while the snapshot of its weight covers what the pool left unpaid.
XntNeverForgotten ==
    [][\A p \in Positions :
         /\ p \in Open
         /\ p \in Open'
         /\ Entitled(positions'[p].weight, FeeNow.acc) >= Owed(p)
         => hist'[p].xnt + Owed(p)' >= hist[p].xnt + Owed(p)]_vars

\* A position whose holder claims its fees and withdraws gets out, whatever
\* the other holders do, unless LP of its mint was paid out for a position
\* that was staked with another mint.
HolderGetsOut ==
    \A p \in Positions :
      p \in Open ~> p \notin Open \/ taken[positions[p].mint] > 0

-----------------------------------------------------------------------------
(* What the documentation says and the program does not keep.              *)

\* unstake_lp: "Full: burns NFT, closes account", and settles pending XNT:
\* whoever asks to withdraw everything gets out.
FullWithdrawalSucceeds == \A p \in Positions : p \in Open ~> p \notin Open

=============================================================================
