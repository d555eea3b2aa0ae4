----------------------------- MODULE StakingMath -----------------------------
(***************************************************************************)
(* The arithmetic the two staking streams (NFT and LP) share: the GUM      *)
(* emission accumulator and the XNT fee accumulator of                     *)
(* programs/gumball_nft/src/lib.rs, with the settlement and the sweep of a *)
(* fee pool.  Every operator takes the accounts a helper borrows and       *)
(* returns what it leaves in them.                                         *)
(*                                                                         *)
(* Division is the integer division of the source; the products fit u128   *)
(* for every supply the program can hold, so the checked operations are    *)
(* plain ones here and only saturating_sub has a case of its own.          *)
(***************************************************************************)
EXTENDS Integers

CONSTANTS
    ACC_SCALE,       \* scaling factor of both accumulators
    POOL_RENT,       \* rent-exempt minimum of an XntPool account
    EMISSION_NUM,    \* EMISSION_BPS_PER_DAY ...
    EMISSION_DEN     \* ... over BPS_DENOMINATOR * SECONDS_PER_DAY

ASSUME ScaleAssumption == ACC_SCALE \in Nat \ {0} /\ POOL_RENT \in Nat
ASSUME EmissionAssumption == EMISSION_NUM \in Nat /\ EMISSION_DEN \in Nat \ {0}

saturating_sub(a, b) == IF a > b THEN a - b ELSE 0
AtMost(a, b) == IF a < b THEN a ELSE b

\* What a weight is entitled to at an accumulator value.
Entitled(weight, acc) == (weight * acc) \div ACC_SCALE

-----------------------------------------------------------------------------
(* GUM: gum is [acc, last_update], the vault pays a share of itself.       *)

Emission(gum, vault, total, now) ==
    IF now > gum.last_update /\ total > 0
    THEN (vault * EMISSION_NUM * (now - gum.last_update)) \div EMISSION_DEN
    ELSE 0

\* Faulty: the time nobody was staked is paid to the first staker.
UpdateGumKeepingIdle(gum, vault, total, now) ==
    IF now <= gum.last_update \/ total = 0 THEN gum
    ELSE [acc |-> gum.acc + (Emission(gum, vault, total, now) * ACC_SCALE) \div total,
          last_update |-> now]

UpdateGum(gum, vault, total, now) ==
    IF now <= gum.last_update THEN gum
    ELSE [acc |-> IF total = 0 THEN gum.acc
                  ELSE gum.acc + (Emission(gum, vault, total, now) * ACC_SCALE) \div total,
          last_update |-> now]

-----------------------------------------------------------------------------
(* XNT: fee is [acc, last_seen], pool the lamports of the pool account.    *)

update_xnt_accumulator(fee, pool, total) ==
    IF pool <= fee.last_seen \/ total = 0 THEN fee
    ELSE [acc |-> fee.acc + ((pool - fee.last_seen) * ACC_SCALE) \div total,
          last_seen |-> pool]

\* Faulty: a stake leaves the accumulator where it was.
AdvanceForgotten(fee, pool, total) == fee

\* Before a weight joins: lamports that arrived for nobody are absorbed.
advance_xnt_for_stake(fee, pool, total) ==
    update_xnt_accumulator(
        IF total = 0 THEN [fee EXCEPT !.last_seen = pool] ELSE fee, pool, total)

\* An XntDebt account; bump 0 is one that was just created.
NoDebt == [debt |-> 0, bump |-> 0]
Snapshot(weight, acc) == [debt |-> Entitled(weight, acc), bump |-> 1]

PendingXnt(fee, debt, weight) ==
    IF debt.bump = 0 THEN 0 ELSE saturating_sub(Entitled(weight, fee.acc), debt.debt)

Withdrawable(pool) == saturating_sub(pool, POOL_RENT)

\* Faulty: the debt advances by all that was pending.
DebtAfterForfeiting(fee, debt, weight, paid) ==
    IF debt.bump = 0 THEN Snapshot(weight, fee.acc)
    ELSE [debt EXCEPT !.debt = Entitled(weight, fee.acc)]

\* The debt advances by what was paid; the first touch only takes a snapshot.
DebtAfter(fee, debt, weight, paid) ==
    IF debt.bump = 0 THEN Snapshot(weight, fee.acc)
    ELSE [debt EXCEPT !.debt = @ + paid]

SeenAfter(fee, paid) == [fee EXCEPT !.last_seen = saturating_sub(@, paid)]

settle_xnt_fees(fee, pool, debt, weight) ==
    LET pending == PendingXnt(fee, debt, weight)
        paid == AtMost(pending, Withdrawable(pool))
    IN  [fee |-> SeenAfter(fee, paid), pool |-> pool - paid,
         debt |-> DebtAfter(fee, debt, weight, paid),
         paid |-> paid, remaining |-> pending - paid]

=============================================================================
